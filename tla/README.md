# AgentVM: a TLA+ verification development

AgentVM (`src/`) is a Python daemon that runs virtual machines for agents: an
asyncio process with a SQLite metadata store, a host-capacity ledger, a VM
manager, network-interface bookkeeping and an HTTP server. This directory
models its core logic in TLA+, checks the models with TLC on small instances,
and proves the most important properties with TLAPS for every value of the
constants. Source paths below are relative to `src/src/agentvm/` unless they
start with `src/`.

To run it, in this directory:

    tlc -workers 2 -config MCMetadataStore_crashes.cfg MCMetadataStore
    tlapm MetadataStoreProofs.tla

`PROJECT.json` lists the components, the runs, the mutants that show each
property can fail, the lines each definition stands for, the findings, the
hazards and the theorems.

## 1. Inventory

| Component | State | Operations | Talks to |
|---|---|---|---|
| Metadata store, `db/store.py` | one SQLite connection; tables `sessions`, `vms`, `proxies`, `shared_folders`, `resource_allocations`, `audit_log`, `network_rules` | `initialize`, `close`, create/update/delete/query per table | VM manager, capacity manager, daemon |
| Capacity manager, `host/capacity.py` | `_allocations`, in memory | `get_capacity`, `check_spec`, `allocate`, `release`, `reconcile_allocations` | reads `/proc`, `statvfs`, and the store's active VMs |
| VM manager, `vm/manager.py` | none of its own | `create_vm`, `destroy_vm`, `get_vm_status`, `check_host_capacity` | store, capacity manager |
| Bridge manager, `net/bridge.py` | session → (vnet, MAC), two in-use sets, a name counter; in memory | `allocate_vm_interface`, `deallocate_vm_interface` | made anew by each `run_daemon` |
| Daemon, `daemon.py` | `_state`: components, server, `shutting_down` | `run_daemon`, `_signal_handler`, `_async_graceful_shutdown` | everything above, uvicorn |
| CPU map, `host/cpu_map.py` | none; its caller says what is taken | `get_topology`, `allocate_cores`, `release_cores` (does nothing) | sysfs |
| Cloud-init, `storage/cloud_init.py` | three files per VM | `generate_cloud_init_iso`, `delete_cloud_init_iso` | `genisoimage`, the file system |
| Configuration, `config.py` | none; makes directories | `load`: defaults, YAML, environment, coercion, `validate` | the file system; read by all |
| Storage manager, `storage/manager.py` | none; makes directories | `ensure_storage_tree` | the file system |
| Session, metrics, API | none yet | stubs | daemon |

**How they interact.** A daemon runs in one process on one event loop. The
methods are `async` but none of them suspends: SQLite is called synchronously
and the drain is a stub. So, on the loop, a call is one step, and what makes
this code hard is not coroutines interleaving but

* calls made of several **commits**: each statement is committed on its own
  (`_execute`), nothing is rolled back, and a statement may raise or the process
  stop between two of them;
* **restarts**: the ledger and the bridge manager live in memory, the tables and
  the VMs do not. The ledger is rebuilt, the bridge manager is not;
* **signals**, which Python handles between any two bytecodes, those of the
  signal handler included, and a shutdown **task** that nobody awaits and that
  the end of the loop cancels;
* **check and act**: `check_spec` and `allocate` are two calls, `allocate` looks
  at nothing, and `create_vm` calls neither;
* **data owned by others**: free disk space as the file system sees it, MAC
  addresses from a factory that varies its spelling, and what sysfs shows of the
  CPUs;
* **other processes on the same database**, which the driver's implicit
  transactions, the write lock and the snapshots of WAL mode keep apart, or not;
* **three loops that make the same directories** with different modes and
  different ideas of what an error is, and files that are written over others an
  earlier call left half done.

**What makes each component correct.**

* Store: no row outlives what it refers to; a delete that returns is complete,
  even as a retry; ids are not reused.
* Its connection: what a call commits is that call's statement and no other's;
  reads are current, and an update made of stale ones is refused; a query's
  filter agrees with what the rows read back; every call ends.
* Capacity: allocations stay within the host; the check refuses what does not
  fit and nothing else; a restart loses no active VM; failures leak nothing.
* CPU map: no core is given twice, none that is reserved or a sibling of one;
  what the capacity check admits can be pinned; one NUMA node where one has room.
* Configuration and storage: what `load` returns is valid and its directories
  are there; the environment wins over the file; the daemon serves behind private
  directories.
* Cloud-init: an image is made of the files of one call; what is deleted is gone.
* Bridge: no two sessions share a name or an address; the three structures
  agree; an allocation ends.
* Daemon: one shutdown however many signals (it is not, quite); it runs to its
  end before the process does.

## 2. Modules

| Module | What it is | Composes |
|---|---|---|
| `MetadataStore` | the store, commit by commit | |
| `StoreConnection` | the connection below it: transactions, the write lock, several processes | |
| `Totals` | the sum of a function's values, as a count of units | |
| `CapacityManager` | ledger and checks, with images that fill | `Totals` (EXTENDS) |
| `CpuMap` | which cores are picked: a pure function of the host | |
| `CorePinning` | ledger and cores under a caller that uses both | `CapacityManager`, `CpuMap` (EXTENDS) |
| `HostLedger` | store + ledger + VM manager + daemon restarts + a caller | `MetadataStore` (EXTENDS), `CapacityManager` (INSTANCE) |
| `InterfacePool` | abstract: what the bridge manager promises | |
| `BridgeManager` | the bridge manager, draw by draw | refines `InterfacePool` |
| `InterfaceRestart` | the bridge manager under restarts, VMs living on | `BridgeManager` |
| `Daemon` | startup, signals, shutdown, end of the loop | |
| `Config` | what `load` makes of file, environment and defaults: a pure function | |
| `CloudInit` | the three files of a VM, file by file | |
| `HostFiles` | configuration, directories and cloud-init over several starts | `Config`, `CloudInit` (EXTENDS) |
| `OperatorProofs` | what the operators of `Totals` and `CpuMap` return, for every argument | `Totals`, `CpuMap` (EXTENDS) |
| `*Proofs` | theorems about the module of that name (`HostFilesProofs`: those about `CloudInit` as well) | |
| `MC*` | constants for TLC | |

### MetadataStore

A table is the set of its rows. Of a row the model keeps its key, the session
or VM it refers to, a VM's status and whether a rule is removed; the remaining
columns are written and read back and branched on nowhere. Calls of one
statement are one action each: `CreateSession`, `CreateVM`, ... An INSERT whose
unique column is taken raises and changes nothing. `delete_session` and
`delete_vm` are a request (`DeleteSession`, which reads the VM ids as the code
does) and one action per commit, in the code's order (`DeleteVMsOfSession`, ...,
`DeleteSessionRow`, `DeleteAllocationOfSession`). The allocations go one commit
per VM id; the model takes the ids in any order, the code in the order of the
rows. Between commits, `StatementFails` ends the call where it stands and
`Crash` ends the process; the tables stay as committed. `hist` is a history
variable the properties read: the session a VM was last filed under, the VMs
whose session's deletion was cut short, and the rule ids handed out.

`CallersKeepOrder` says whether callers create a session before what belongs
to it. The store checks nothing (`PRAGMA foreign_keys=OFF`), so the properties
that speak of dangling rows need it. The run sets it; the theorems about what a
delete leaves and about rule ids hold for callers in any order.

### StoreConnection

`MetadataStore` takes a commit for granted; this module is about what a commit
is. What `sqlite3` does of itself is external: it opens a transaction before an
INSERT, UPDATE or DELETE and never before a SELECT; in WAL mode one connection
holds the write lock, and a connection in a transaction reads the snapshot its
first statement there took. `_execute` (`db/store.py:613`) is a statement
(`ExecuteLocked`, `ExecuteConflict`, `Execute`) and a commit (`Commit`,
`CommitFails`); `_query_one` and `_query_all` are `Reading`. A connection's
`txn` is `"begun"` when a statement that raised left a transaction that has
read nothing, `"pinned"` once something was read there, `"writing"` with the
lock. The table is that of the sessions; of `delete_session`'s statements the one
on it is here, after the SELECT that the call begins with, and what its commits
leave of one another is `MetadataStore`'s subject.

A row is its columns and its JSON payload, which `_decode_row` lets shadow them
(`View`): the columns are what queries filter on, the payload is what callers
read. The columns hold `str()` of a value (`Text`) and the payload the value, so
a status of `None` is found as `"None"` and reads back `None`: `FiltersMatchViews`
says that the column is the text of what is read back, no more. It says so of the
columns that `update_session` sets (`Settable`: owner, status). The others stay
what they were (`SetRow`), and there an update that names `created_at` or `id`,
or a session deleted and created again under an update, makes the two differ;
that is a hazard of its own, with no property.

`update_session` reads the row and writes it whole, in two steps, so an update of
another process between the two is lost; the model reaches that and no document
promises otherwise. What cannot be lost is what was committed before the read,
although the read may be of an old snapshot: `StaleUpdatesAreRefused`. Whether a
call's row was read as it was committed is history (`fresh`), which nothing
branches on. A retry that rolls back and runs the same statement again, which
the document of finding 5 can be read to ask for, would break it; that is its mutant.

### CapacityManager

`ledger` is `_allocations`; `images` is the environment: disk images written
full, which is what moves the free space `statvfs` reports. `AvailableDisk`
subtracts the ledger from the free space, as the code does, so written disk is
counted twice; `AdmittedVMsFitHost` (in `HostLedger`) shows that this errs on the
safe side only, and its mutant that removes the double count shows it is what
the property rests on.
What allocations add up to is the cardinality of the set of their units
(`Total`), so that what is known of cardinalities is known of sums.
`allocate` looks at nothing, so the module's ledgers may be overbooked, and
`CheckSpecIsExact` is checked on those too; `Admit`, check and allocate with no
await between them, is what `HostLedger` uses: that its caller makes one step of
the two is assumed, and no property is about a caller that does not. A file
system that does not answer counts as full (`FreeDisk`), which refuses more and
admits nothing; `CheckSpecIsExact` speaks of one that does.

### CpuMap, CorePinning

A list of CPUs, as sysfs writes one and as a cpuset is returned, is a set of
ranges; the text around them is left out, which CPUs a list names is not.
`AllocateCores` is the function of `allocate_cores`: blocked cores, the first
node with room, the fallback that counts from 0 to the number of CPUs whatever
their ids are. `release_cores` does nothing and the manager remembers nothing,
so `CorePinning` has the caller that keeps what it was given and passes it back
as `already_allocated`. No such caller is in `src/` yet: it is external in the
map. It admits with `check_spec`, allocates, then pins (`AdmitPinned`).

The capacity manager counts cores and the CPU map names them, and they differ
in what they subtract. `AdmittedVMsGetCores` says when they agree: where no CPU
is offline and the reserve takes both threads of its cores (`AllOnline`,
`ReserveIsWhole`). Elsewhere a VM may be admitted that has no cores to run on, or
be given ids that do not exist; the hazards list both. `OneNodeWherePossible` says
that a VM's cores are on the node it is told, unless no node had as many cores
that were nobody's; that they were free is `PinsAreExclusive`'s business.

### HostLedger

The store, the ledger and the VM manager over the life of several daemons.
`StartDaemon` and `Reconcile` are the start of `run_daemon`; `StopDaemon` ends
the process anywhere. No caller of `VMManager` exists in `src/` yet, so the
caller is the environment (external in the map), and what it does an assumption
of this project. It creates as `src/docs/designs/HLD.md:301-304` describes, in the
order given there, except for the VMs of `Unadmitted`, for which it relies on
`create_vm` alone, as a reader of that page might: the page has `create_vm`
validate, check capacity and allocate, and it only writes a row
(`vm/manager.py:105`), so those VMs may overbook the host, and the properties
speak of the others. It destroys with `destroy_vm` and releases when that has
returned. `HLD.md:323-324` has `release_resources` before `purge_metadata`; in that
order a failed purge would leave an active VM that the ledger does not know of,
and `ActiveVMsAreAccounted` would not hold.
`Unreadable` VMs have numbers that `_to_int` refuses and the store accepts;
`reconcile_allocations` skips them, and `ActiveVMsAreAccounted` speaks of the
others only.

### InterfacePool, BridgeManager, InterfaceRestart

`vnet<n>` is `n`. `allocate_vm_interface` takes its name first (`Allocate`),
then draws addresses (`DrawTaken`, `DrawFree`) and may raise
(`FactoryExhausted`, `RetriesExhausted`) after the counter moved. The class is
documented as single-threaded, so there is one call at a time.
`InterfacePool` promises that nothing held is shared or changed and that a name
is given once; the refinement maps `holds` to the mapping and `spent` to the
names below the counter except the one under way.
`InterfaceRestart` adds the VMs that run with the interfaces they were given
(`attached`) and a daemon that starts again with an empty manager.

### Daemon

`run_daemon` is five steps up to `serve()`, none of which suspends, so a
shutdown scheduled before `serve()` runs only once `serve()` does. `Signal`
may come at any point; what it does depends on whose handler is in force.
`_signal_handler` is three steps: the test of the flag (`SignalHandler`), the
setting of it (`SetFlag`) and the scheduling (`Schedule`). It runs on the main
thread, above the program and above handlers that it interrupted, so its frames
are a stack: `entered` of them found the flag clear and wait to set it, and the
one above may be `scheduling`. The program goes on when all have returned
(`HandlersDone`). `nested` is history: the signals that found the flag clear
inside such a frame.

A shutdown is one step, because nothing in it suspends. `ServeReturns`,
`RaiseAgain` and `LoopEnds` are the end: whatever is scheduled and has not run is
cancelled. uvicorn is not part of the repository: `ServeTakesSignals` allows, and does not
require, that `serve()` puts its own handlers in place while it runs and raises
the signals it kept again when it is done, which is what its `Server` does in
current versions whenever it runs in the main thread. `ReturnsClosed` is about a
`serve()` that does not; the case that is usual today is finding 4.

### Config, CloudInit, HostFiles

`Config` is `AgentVMConfig.load` up to the directories: the environment over the
file over the defaults (`RawValue`), the coercion by type, and the rules of
`validate()`. `Schema` has one or two fields of each group that `load` treats
alike. What Python's `int()`, the YAML parser and `ipaddress` make of a text is
external, a constant function from texts; a float is what `int()`, which
truncates it, and `str()` make of it.

`HostFiles` runs that through a process that starts, may stop anywhere and
starts again with another file and other variables. Three loops make the same
directories: `validate()` (`ValidateDirectory`) notes an error and goes on,
`StorageManager.ensure_storage_tree` (`EnsureDirectory`) raises, `run_daemon`'s
(`EnsurePrivateDirectory`) raises too and alone sets a mode. `Made` is
`mkdir(parents=True, exist_ok=True)`: parents get the default mode and a
directory that is there keeps its own. `Rearrange` is the environment: between
two processes directories are removed, replaced by files or given other modes.

`CloudInit` is one call at a time, file by file, each step of which may raise
(`StepRaises`) and leave a file cut short, or be the last of the process
(`Stop`). Its directory is `CloudInitManager`'s own default, `CloudDir`, which
the configuration does not reach.

## 3. Runs

| Run | Bounds | States | Shows |
|---|---|---|---|
| `store_crashes` | 2 sessions, 2 VMs, 2 rules, 1 audit row | 1.5M | types; no row without its session; only a cut `delete_session` orphans an allocation; deletes are complete; rule ids are fresh |
| `store_retry` | the same, no rules | violation | **finding 1** |
| `capacity_check` | six layouts of 6 or 7 CPUs, 3 VMs, 4 requests, room for 2 to 4 units of each resource | 307k | one entry per VM; `check_spec` is exact; cores are exclusive, as many as admitted, there when admitted, on one node where one has room |
| `connection_shared` | 2 processes, 2 keys, 3 fields, 3 values | 101k | types; reads are current unless a write raised; stale updates are refused; a commit is one call's statement; filters match what is read; calls end |
| `connection_wedged` | the same, one process that tries again | violation | **finding 5** |
| `host_files` | 20 documents, 9 environments, 3 paths, 1 VM with 2 configurations | 68k | types; a loaded configuration is usable; the environment wins; the served tree is private; images are current; deleted is gone |
| `host_restarts` | 1 session, 4 VMs, 3 statuses | 126k | types; the ledger covers the admitted active VMs, leaks nothing, and they fit |
| `bridge_pool` | 3 sessions, 2 addresses in 3 spellings, 2 draws, 4 names | 557 | types, agreement, uniqueness, refinement, termination |
| `restart_unique` | 2 sessions, the same addresses, 2 names | violation | **finding 2** |
| `daemon_signals` | 4 signals | 591 | one shutdown and one for each nested handler at most; closed at the end; a signal ends the process |
| `daemon_twice` | 2 signals | violation | **finding 3** |
| `daemon_closed` | 2 signals | violation | **finding 4** |

**Why the bounds are enough.** Two sessions are what it takes for one to be
deleted while another's rows must stay; two VMs make `delete_session` stop
between two allocation commits; two rule ids make reuse possible. Two
processes are what a lock needs; two sessions let a statement on one bring back
what a snapshot had of the other; they are created without an owner, which takes
the default, and with a status that is no text, and updated to one that is. In
`MCCorePinning` each resource is the first to run out for one of the
requests, one request is for nothing, and `MaxVMs` is reached; the layouts have
one, two, three and no nodes, CPUs that alternate between nodes, threads side by
side, apart and none, and one CPU that is offline. In `MCHostFiles` each document
and each environment is one way for `load` to fail or to succeed, a bad value in
the file meets a good one in the environment and the reverse, and one document
names the same directory twice; two configurations of one VM show an image of
one over files of the other. In
`MCDaemon` four signals interrupt a handler up to three deep. In
`MCHostLedger` `v2` needs the whole disk, any two of the others exceed the
cores, `v3` cannot be read after a restart and `v4` is not admitted; rules and audit rows are switched off
because the ledger never reads them. Two draws and two addresses make the third
session find everything in use; a second spelling makes the comparison matter;
four names allow one name to be lost by a failed allocation. `MaxRules`,
`MaxAudit`, `MaxVnets` and `MaxSignals` are the only bounds that stand for
nothing in the code.

**Fairness.** `FairBridgeSpec` has weak fairness of the retry loop
(`LoopRuns`): it is a `for` over a range with nothing to wait for. Nothing is
assumed of which address the factory yields. `FairDaemonSpec` has weak fairness
of `Proceed`: `run_daemon` goes on, and `serve()` returns to the loop on a timer,
so scheduled callbacks get their turn. Signals and failures are not fair.
`FairConnSpec` has weak fairness of `Goes`, the steps of a call: the driver's
timeout bounds the wait for the lock, and a statement that meets it raises. In
`connection_wedged` alone a caller of `Stubborn` also tries again for ever
(`Insists`), because the finding is about retries. The
other specifications state safety only.

**Deadlock** is checked everywhere but in the three `Daemon` runs: the process ends.

## 4. Findings

1. **A retried `delete_session` leaves allocations** (`store_retry`,
   `db/store.py:158`). VM rows go in the first commit, allocations in the last,
   by ids read beforehand. After a failure or crash between them, the retry finds
   no ids and returns; `resource_allocations` keeps the rows for good.
   `db/store.py:148`: "Delete session and related records."
2. **Interfaces are given out twice across a restart** (`restart_unique`,
   `daemon.py:175`). `net/bridge.py:65`: "Allocate a unique vnet name and MAC
   address."
3. **Two shutdowns** (`daemon_twice`, `daemon.py:105`). The handler tests the flag
   in one call and sets it in another, at whose entry a signal is handled as
   anywhere else. The handler that interrupts there finds the flag clear and
   schedules a shutdown; the one it interrupted sets the flag again and schedules
   the second. `daemon.py:97-98`: "Sets the shutdown flag immediately (before
   scheduling) to prevent duplicate shutdown tasks from rapid successive signals."
   `OneShutdownUnlessNested` is what holds: this window is the only way. Today the
   second shutdown finds the store closed and the exporter stopped and does nothing.
4. **With uvicorn's own handlers the store is not closed** (`daemon_closed`,
   `daemon.py:199`). The handlers registered before `serve()` are out of force
   while it runs; if the signal is raised again afterwards, the shutdown it
   schedules is cancelled with the loop.
   `DAEMON-ENTRYPOINT-LLD.md:27`: "Close metadata store connection on shutdown".
   With the daemon's own handlers in force, `ReturnsClosed` holds; it rests on
   the drain not suspending, as its mutant shows, and will need an awaited
   shutdown when `drain_all_sessions` is more than a stub.
5. **A write that met the lock wedges its connection** (`connection_wedged`,
   `db/store.py:615`). It raises and leaves the implicit transaction open; the
   next read pins a snapshot there; after a commit of the other process every
   write of this connection is refused at once, for as long as it is open, and
   reads stay stale. `METADATA-STORE-LLD.md:286`: "SQLite WAL mode handles this;
   retry up to 3x with backoff". Nothing retries, and no retry would get through.

## 5. Proofs

For any sets of sessions, VMs and statuses and any bounds, from `StoreAssumption`
(`None` is no id, the bounds are naturals):

* `TypeCorrect`: `Spec => []TypeOK`, one step per action.
* `DeletesComplete`: `ReturnedDeleteLeavesNothing` is not inductive, because it
  says nothing of a delete under way. `SweptSoFar` does: at each commit, the
  tables already swept hold nothing of the key, and no other call runs. The two
  together are inductive (`SweptStep`).
* `NoRowOutlivesItsSession` (assuming `CallersKeepOrder`): inductive with
  `SweptSoFar`, which is why the commit that removes the session's row is safe.
* `OrphansHaveOneCause` (assuming `CallersKeepOrder`): an allocation has its VM,
  or its VM is among those a delete has yet to deal with (`Unfinished`) or was
  cut short over (`hist.cut`); moving ids from the first to the others is what
  each commit does.
* `RuleIdsNeverReused`: an action property, from `RuleIdsArePassed` (ids handed
  out are not above the sequence).

And from `BridgeAssumption` (`LowerCase` is idempotent):

* `BridgeTypeCorrect`, `SetsAreExact`, `NamesAndAddressesAreUnique`: the
  conjunction `BridgeInv` of agreement, `NamesAreCounted` (every name is below the
  counter; the one under way is nobody's) and uniqueness is inductive.
* `BridgeImplementsPool`: from the same invariant, each step maps to `Grant`,
  `Skip`, `Withdraw` or a stutter.
* `PoolNeverShares`: what the abstract pool says is enough for the promise. A name
  in use is spent (`HeldAreSpent`), and a grant takes one that is not.
* `OnlySurvivorsClash`, `DrainedHostsNeverClash`: the other side of the refutation
  `AttachedAreUnique` (`InterfaceRestart`). What the manager knows is right in each
  life of the daemon (`RestartInv`), so in every clash one VM is of an earlier life;
  and on a host that restarts its daemon only when no VM runs (`DrainedNext`), the
  VMs run with what the manager says is held (`AttachedAreHeld`) and never clash.

From `ConnectionAssumption` (defaults are values that `str()` leaves alone;
`Absent` and `Missing` are none), for any processes, keys, fields, values and
`str()`:

* `ConnTypeCorrect`, `ReadsAreAlwaysCurrent`, `FiltersAlwaysMatchViews`,
  `StaleUpdatesAreAlwaysRefused`, `CommitsAreAlwaysOneCall`: all from `ConnInv`.
  Current reads are not inductive alone: `TransactionOK` says what each state of a
  transaction has read, which call may be in it, and that a call whose row is not
  fresh is on an outdated snapshot until it is refused; `OneWriter` says that there
  is one lock, `RowsMatch` that in committed rows, snapshots and rows about to be
  written the columns that an update sets are the text of what is read back. An
  update need not find the row it read, so that what it sets fits any row is a
  lemma of its own (`SetRowMatches`).

From the store's assumptions and those of `HostLedger`, for any VMs and statuses:

* `HostUsesTheStore`: every behaviour of the composition is one of
  `MetadataStore`, so what is proved there holds here.
* `HostTypeCorrect`, `ActiveVMsAreAlwaysAccounted`, `LedgerNeverLeaks`: from
  `HostInv`, which says more than the two: what a create that is under way has
  in the ledger (`Accounted`), whose an entry without a row is in the middle of
  a call (`Leakless`), that a store call under way is the caller's destroy
  (`CallerOK`), and that an entry is its VM's (`LedgerOK`).
* `AdmittedVMsAlwaysFitHost`, besides for any needs and any capacity (naturals,
  `HostAssumption`): `FitInv`. That the active VMs fit is not inductive: a create
  adds to the ledger first and to the rows later. The entries of the admitted
  VMs fit (`Admitted`, `AdmittedEntriesFit`): `check_spec` counted more than these
  when it let the last one in, because the VMs that were not admitted are in the
  ledger after a restart and what images take is subtracted too. A request for
  nothing of a resource passes on an overbooked host, so the case rests on the
  invariant and not on the check. Serving, the active VMs are among those
  entries (`ActiveVMsAreAccounted`); when the daemon is down the rows do not
  change; and a restart makes the entries out of the rows again. Everything is
  finite because each step adds one thing at most.

For any number of signals:

* `ShutdownsAreOneOrNested`, `AlwaysClosedWithItsOwnHandlers`: `DaemonInv` counts
  shutdowns, done, scheduled or still to be scheduled by a handler that found the
  flag clear, against the handlers that were nested, and says that a server which
  took no signal itself exits only after a shutdown, which ran when everything
  that it closes was there.

About the operators, for any argument (`OperatorProofs`): sums of functions over
finite sets are naturals, grow by what is added and do not grow by what is left
out (`TotalType`, `TotalAdd`, `TotalMonotone`); `Least(n, S)` has `n` elements
(`LeastCount`). Where induction is needed, it is by the least number that would
be a counterexample (`LeastElement`). On these rest

* `CpusetIsReadAsWritten`: `_parse_cpu_list` reads from what `_format_cpuset` wrote
  of a finite set of cores that set: each core is in the range around it that
  cannot be extended (`RangeAround`).
* `AllocateCoresIsExact`: what `allocate_cores` returns, on any host: as many
  cores as asked for, on a node that has them free or, if none has, among
  0..total-1; refused only when neither has enough.

For any hosts as sysfs can show them (`PinningAssumption`: finitely many CPUs, as
many online as the capacity manager counts, no list that names a CPU without a
directory, a finite reserve) and any requests:

* `PinningUsesTheLedger`: every behaviour of the caller that pins is one of
  `CapacityManager`, so the ledgers are those that it reaches.
* `PinsAreAlwaysExclusive`: rests on lemmas that a cpuset, read again, names no
  core that it was not made of, that what is picked is never blocked, and that the
  siblings of the reserve are.
* `LedgerIsAlwaysWellFormed`: `LedgerInv`, that the ledger is finite and two
  entries of one VM are one, gives the count by a bijection.
* `CheckSpecIsAlwaysExact`: from `LedgerInv` and that the sums are naturals; what
  is clamped at 0 is told apart from what fits by a request for something.
* `PinsAreAlwaysWhatWasAdmitted`: `PairedInv`, that every pin has its entry with
  as many cores, finitely many, and that no VM has two pins. Cores
  outside of the host are what the last conjunct of the property is about: with
  all CPUs online 0..total-1 are the host's.
* `AdmittedVMsAlwaysGetCores`: the cores that are taken are no more than the
  ledger counts (`TakenIsCounted`: each is the image of a unit of its VM's entry);
  a reserve of whole cores blocks itself alone (`WholeReserveBlocks`); so what
  `check_spec` found left is left in 0..total-1, and `AllocateCoresIsExact` says
  it is given.
* `AlwaysOneNodeWherePossible`: an action property, from `AllocateCoresIsExact`
  and that a core that is nobody's is not blocked (`FreeIsNotBlocked`).

For any guests, configurations, documents, environments and paths
(`CloudInitAssumption`; `FilesAssumption`: what `load` makes names directories
that are in `Paths`, and integers where it coerces to `int`; a path has two
parents at most and is not its own):

* `FilesTypeCorrect`: `FilesInv`, with what `CloudInv` says of the cloud-init
  files. That everything is in a directory is the part with something to it:
  `mkdir(parents=True)` makes what is missing above first (`MadeIsRooted`), one
  that fails stops above what it would have made (`LeftBehindIsRooted`), and the
  environment may take away a directory only when it is empty
  (`RearrangeKeepsFiles`).
* `CloudTypeCorrect`, `ReturnedImageIsAlwaysCurrent`, `DeletedIsAlwaysGone`:
  `CloudInv` adds how far the call under way has come (`Progress`): which files
  are already of this call, or already gone.
* `ServedTreeIsAlwaysPrivate`: `TreeInv`, by the daemon's progress through its
  directories; a later one never changes an earlier one's mode.
* `LoadedConfigIsAlwaysUsable`: `UsableInv`. Each directory that `validate()`'s
  loop has passed is there or among the errors (`Settled`), and no step of the
  program takes a directory away (`DirsStay`).
* `OverriddenIsAlwaysUnread`: what `load` returned is `Result` of what it read
  (`ReadInv`), and `Result` is the same of two files that differ under a variable.

Some of these assumptions were found by a proof that failed without them:
`Partial # NoFile`, sibling lists naming CPUs that have a directory, directories
in `Paths`. TLC checks each of them on the instances.

**Only model-checked**: liveness (`AllocationEnds`, `SignalEnds`, `CallsEnd`),
because the provers cannot deal with `ENABLED`; and the refutations. Every
invariant and action property of the passing runs is a theorem.

## 6. Not modelled, and the plan

Not modelled, and why:

* Session manager, metrics collector, API: stubs that change no state.
* `run_migrations` and the version pragma: written, and read only by itself.
* What `updated_at`, `removed_at` and every other column hold that no statement
  and no caller branches on; what an update of `created_at` or `id` should do.
* Which database file: `run_daemon` opens the default one whatever the
  configuration says; listed as a hazard, no property.
* The class of the exception that `load` raises: a YAML error or an overflow is
  not turned into a `ConfigError`; either way nothing has been touched.
* A YAML `null` for a text, which becomes a directory called `None`, is coerced
  as the code does (`CoerceStr`) and no property speaks of it.
* Cores of four threads, whose siblings are not kept free: the property is about
  two. `cores_per_socket` and nested virtualization, which nothing reads.
* How `/proc`, sysfs and YAML are read as text, the wording of cloud-init's
  files, logging.

What is left: sessions, metrics and the API when they are more than stubs, at
which point `VMManager`'s caller, external today, becomes code to translate and
the drain, which does not suspend today, an awaited step of `Daemon`.
