# Verification of mongo-orchestration

TLA+ models of mongo-orchestration (the HTTP service that starts, stops and
reconfigures mongod servers, replica sets and sharded clusters on one host),
the TLC runs that check them on small instances, and the theorems about them
that TLAPS proves.  Paths are relative to `src/mongo_orchestration/`.

## 1. The system

A request arrives at bottle (`apps/`) and is served by one worker thread of the
WSGI server: ten of them with cheroot, the default; one with `-s wsgiref`.  The
handler calls a singleton registry (`Servers`, `ReplicaSets`, `ShardedClusters`),
whose objects start mongod processes with `process.py`, which takes ports from
`PortPool`.  Replica sets and clusters start and remove their members in executors
of their own.  The service itself is a daemon that `server.py` and `daemon.py`
start and stop, and that empties the registries on SIGTERM.  Nothing is guarded by
a lock, and every state but the files and the processes is lost when the service
ends.

| Part | State | Operations | What makes it hard | What makes it correct |
|---|---|---|---|---|
| Port pool (`process.py` `PortPool`) | sets of open and closed ports, `__id` | `port`, `release_port`, `refresh`, `change_range`, first construction | threads between two set operations; probes that bind the port; ports handed out but not bound yet; a loop that gives back what it pops | a port is granted to one server, in one step; no port lost; ports of the current range; a free port is found |
| Process control (`process.py`) | child processes, config files | `mprocess`, `wait_for`, `wait_mprocess`, `kill_mprocess`, `cleanup_mprocess`, `repair_mongo` | timeouts against late answers, a child that dies | no child left behind; one process per dbpath |
| Single servers (`servers.py`, `apps/servers.py`) | registry; per server `proc`, `cfg`, config file, `restart_required` | create, start, stop, restart, remove | registry read before a minute of work and written after it; failure between two steps; shutdown that is lost or refused; restart with authentication | a server is made, named and leaves once, and one process of it runs meanwhile; every mongod reachable; nothing left of a removed server; no open server after a login was set up; every request answered |
| Replica set membership (`replica_sets.py`, `apps/replica_sets.py`) | `server_map`, the mongod configuration, the registry of servers | member add, delete, update, command; DELETE | three views changed one after the other, refused reconfigs, lost connections, elections | the views agree between requests; what is stopped is not configured; DELETE removes all |
| Replica set creation (`replica_sets.py`) | as above, keys, users, `restart_required` | `__init__`, `repl_init`, `restart_with_auth`, `cleanup`, `reset` | parallel creation and restarts with partial failure; a user that must be everywhere before anybody logs in | refused means empty; every member of a usable set runs with the key; reset revives |
| Sharded clusters (`sharded_clusters.py`) | routers, shards, config servers | create, add and remove shards and routers, cleanup | objects of other registries held by id; `addShard` that fails after creation | ids held exist in the registries; cleanup removes all |
| Registries at exit (`container.py`, `singleton.py`, `__init__.py`, `server.py`) | the three storages, the handler's stack | create, command, remove, `cleanup_storage` at SIGTERM and SIGINT | the main thread beside workers that create and remove; a second signal on top of the first; exceptions of futures | what is left is what requests were at; one remover of a thing; the handler never waits for nothing |
| Daemon (`daemon.py`, `server.py`) | pid file, port, processes | start, stop, restart | test and write of the pid file apart, signals before the handlers are there, stale files, reused process ids | the file names the daemon that serves; no stale file from an orderly end; stop signals the daemon only; commands return |
| Presets (`common.py`, `configurations/`) | none | `preset_merge`, `update` | nested dictionaries | the request's values win |

`PROJECT.json` lists these components, the hazards at their lines, and which
property watches each.

## 2. Modules

| Module | Models | Role |
|---|---|---|
| `PortAllocator` | | abstract specification: what a pool of ports promises |
| `PortPool` | class `PortPool`, its callers `Server.__init_mongod`/`__init_mongos` and `Servers.remove` | specification, implements `PortAllocator` |
| `MCPortPool` | | TLC instance, symmetry |
| `PortPoolProofs` | | theorems |
| `ServerLife` | | abstract specification: what the registry of servers promises |
| `Servers` | `Server`, `Servers`, the process control they use, `apps/servers.py` | specification, implements `ServerLife` |
| `MCServers` | | TLC instance, symmetry |
| `ServersProofs` | | theorems |
| `MemberLife` | | abstract specification: what the membership of a replica set promises |
| `ReplicaSet` | membership part of `ReplicaSet` and `ReplicaSets`, `apps/replica_sets.py` | specification, implements `MemberLife` |
| `MCReplicaSet` | | TLC instance, symmetry, constraint |
| `ReplicaSetProofs` | | theorems |
| `ReplicaSetInit` | the constructor of `ReplicaSet`, `repl_init`, `restart_with_auth`, `reset` | specification |
| `MCReplicaSetInit` | | TLC instance |
| `ReplicaSetInitProofs` | | theorems |
| `ShardedCluster` | `ShardedCluster`, `ShardedClusters`, `apps/sharded_clusters.py`, above the registries of the other two | specification |
| `MCShardedCluster` | | TLC instance, symmetry, constraint |
| `ShardedClusterProofs` | | theorems |
| `SequenceLemmas` | Python's lists: `append`, `pop`, `del` | lemmas for the last two |
| `Registries` | the three registries together, requests, `cleanup_storage` | composition |
| `MCRegistries` | | TLC instance, symmetry |
| `RegistriesProofs` | | theorems |
| `Daemon` | `Daemon`, `MyDaemon`, `main` and `await_connection` of `server.py` | specification |
| `MCDaemon` | | TLC instance |
| `DaemonProofs` | | theorems |

### PortPool

The processes are the `Server` objects; `pc[s]` is where the constructor of `s`
stands inside the pool, `port[s]` its local variable and later its configured
port.  `id`, `ports`, `closed` are the class attributes, `range` the ports last
given to `__init_range`.  `snap`, `todo` and `opened` are the locals of
`refresh()`: the union it took, what `filter` has still to probe, what it found.
One action is one set operation or one socket probe, since the interpreter can
switch threads between any two.  A probe binds the port, so the probe of another
thread can make a free port look taken (`Answers`).  `up` and `foreign` say which
ports are bound.  `Init` is an existing pool, `InitBoot` the start of the
process; `SpecPublic` adds the two methods that only users of the package call
(`change_range`, `refresh(only_closed=True)`).  `rescanned`, `recycled` and
`dropped` are history variables: a `refresh` has begun; a `refresh` found a port
free that some server holds; the ports that `refresh(only_closed=True)` forgets,
because it reads a lazy `filter` twice (line 114).

`PortAllocator` has two variables, the port each server has and whether the pool is
disturbed, and three kinds of step: grant a port nobody has, give one back, disturb.
`PortPool` implements it with `given` the ports of the servers whose constructor
owns one (`Holders`) and `disturbed` the negation of `Undisturbed`: a first
construction is under way or a rescan may have met a port that is held and not bound.
The property `Allocates` says so; it includes that no two servers are ever granted one
port, and that a port which a server has never changes under it.

### Servers

The processes are the worker threads; `thread[t]` is a request with its program
counter, the return labels of the nested `start()`/`stop()` calls (`stack`), the
object at hand (`self`) and the local `proc` of `mprocess` (`child`).  `storage`
is `Servers._storage`, `server[o]` the fields of a `Server` and its files, `os`
the processes of the operating system.  A step runs from one blocking call to the
next.  `mongod` itself is the environment: it boots only if the dbpath is there and
no other process serves it, may exit while it boots, exits after a shutdown or
SIGTERM, and may crash leaving its lock file.  `mongod --repair` is the field `repair` of
its server: `Repair` starts it, `RepairEnds` is its own doing, `Repaired` the `readline()`
that returns when it has ended (it logs to a file, so nothing else comes through the
pipe).  Of the files `data`, `conf` (the config file in use), `old` (earlier ones, which
nothing names any more) and `lock` are told apart; `kept` says that `cleanup()` could
not remove one.  `Serial` restricts the clients, not
the service: with `TRUE` nobody sends a request for an id another request is
using.  `failed` and `lost` are history variables: a `start()` raised after
`mprocess`; a `create()` raised.

`ServerLife` says what a client may rely on: a server is `making`, then named by one
id, then out, once; a process of it is launched only when no other one runs and it is
not out; and after it has been secured it is launched with authentication only.
`Servers` implements it with `Place` computed from the registry and the requests,
`Running` from the processes, `Hard` from the fields of the server.  The promise is
made to serial clients: two overlapping creates of one id, or a start that overlaps
a DELETE, break it.

### ReplicaSet

`config`, `version` and `primary` are the replicated configuration and the
elected member, `server_map` the map of the `ReplicaSet` object, `servers` and `up`
the registered and the running servers, `request[t]` the locals of a request:
`cfg` is its copy of the configuration, `base` the version of that copy.  An
add is `AddRead`, `AddCreate`, `Reconfig`, `WaitRead`, `WaitMap`, `Finish`,
`Store`, a delete `DelLookup`, `DelStatus`, `DelPop`, `Reconfig`, ..., `DelRemove`,
`Store`, in the order of the code, because each of them is a round trip to a
mongod or ends with one.  A command on a member (`ReplicaSets.member_command`, a method
of the package and its tests; a POST to the member's server does the same but for the
last step) is `CommandLookup`, `CommandStarts` and `CommandStops`, `CommandKept`, which
registers the server it looked up whoever has removed it meanwhile, and `Store`.  A new
server gets any port nobody listens on, also one that a request or `server_map` still
mentions.  The server accepts a configuration when it is newer, contains
the primary and a majority of it is up.  `surprise` records what the code does not
repair: positions that differ from `_id`s, a lost connection taken for success, an
exception between two changes (such as an add that mongod refused), a set stored after
its DELETE, a server a command registered again, a port that was given out while still
mentioned, two requests that overlap.  The properties that hold say what is guaranteed
without them: `Consistent` allows the overlap, `Lives` also the exceptions and the
servers that came back.

`MemberLife` is what is left when the requests are forgotten: the hosts of the
configuration, the registered servers, whether the set is stored, whether something
has happened that the handlers do not repair.  A server is made for a host that is
neither member nor served, a host joins with a server, leaves, and its server retires
when it has left or the set has been deleted.  `ReplicaSet` implements it, overlapping,
refused and half done requests included: that a `replSetReconfig` computed from an
old copy is a step of `MemberLife` means that it undoes nothing another request did.
`Disturbed` are the gap, the lost connection, the set that a late request stores
again and the port given out too early.

### ReplicaSetInit

A member stands for its server and its host.  `pc` is where the request that creates
the set stands, `task[m]` the future of member `m` in the executor at work
(`member_create`, `cleanup`, `Server.restart`, `reset`), `server[m]` its server:
whether it is registered, its process, whether that runs and is configured to run
with the keyFile, whether connections log in, whether its data have the user.  A
`params` is chosen at first: login or not, auth_key or not, which members are
arbiters and which can be elected.  The mongods are the environment: they settle when
a majority with the same key runs, elect, step down, copy the user from the
primary, and crash; another client may remove a server (`Disturbances` counts both).
A wait of the code ends well when what it waits for is true, and with its timeout at
any time.  The two waits of line 129 and line 166 are modelled as they are evaluated:
`not members and config` raises only if the members have not settled and the
configuration is as requested; a member in state 8 (DOWN) is none of the bad states,
and a dead member passes the comparison of configurations unless it is an arbiter.
`since` is a history variable: the members that went down after `reset` began.

### ShardedCluster

`servers` and `replica_sets` are the ids in the registries `Servers` and
`ReplicaSets`, `cluster` the three lists of the `ShardedCluster` object, which hold
such ids, `stored` whether `ShardedClusters` has it, `catalog` the shards the config
servers know, `keyed` what has been restarted with the keyFile.  The processes are
the worker threads.  The constructor goes through its phases, `configrs`, `routers`,
`shards`, `users`, `restart`, `register`; in a phase with an executor the futures run in
any order, all of them, also when one has raised.  The requests of a registered
cluster are cut where they use another registry, send a command to a router, or
change a list: `RouterCreate`, `RouterAppend`, `Store`; `RouterRemove`,
`RouterForget`, `Store`; `ShardCreate`, `AddShard`, `ShardStore`, `Store`; a
removal of a shard starts, goes on or ends the draining, and only the end leads to
`ShardPop` and `ShardRemove`.  `cleanup` walks the dictionary and the list while
its futures run, with Python's check of the dictionary's size and by position in the
list.  The environment refuses any command, loses answers, and removes servers
directly (`RemoveBehind`).  The history variables say what the guarantees have to
leave out: `failed` what a request made before it raised, `behind` what was
removed but not as the cluster's, `unsure` shards whose answers were lost or that two
requests addressed at once, `beside` a DELETE beside another request.

### Registries

The composition of the three registries at the level of what is registered, which
servers run, and who is removing what.  A *thing* is a server, a set or a cluster,
`Parts` says what a set or a cluster is made of.  `job[a][x]` is what an actor does to
a thing: making and storing it, holding it for a command, taking it out of its
registry, removing its parts, stopping it.  The actors are the worker threads and the
handlers on the main thread, one per level of `stack`, as a signal interrupts the
handler of the one before.  `Create`, `Make`, `Made`, `Store` are a POST; `Command` to
`CommandFails` a request that looks a thing up, works on it or on a member of it, starts
or stops servers, and stores what it has looked up when it ends without an exception
(`Servers.command`, `member_add`, `member_del`, `member_command` and `member_update` of
sets, `router_add`, `router_del`, `member_add` and `member_del` of clusters); `Remove`, `Pop`, `Stop`, `PartsGone` a DELETE;
`ClusterPop` to `ServersEnd` are the lines of `cleanup_storage`, which calls the
`cleanup` of the clusters, of the servers twice, and of the sets in between;
`Unwind` is the way an exception takes through the nested handlers, `Exit` the
`sys.exit(0)`.  A thing is stored minutes after its id has been tested, so of two servers,
sets or clusters that are asked for under one id the second replaces the first.  A
creation or a command that raises may leave a process that runs (`MakeFails`,
`CommandFails`).  The histories say who was at what: `touched` the
servers in the hands of a request, or of an interrupted handler, since the signal;
`lost` the servers that run in no registry, as their creation or command raised or their
id went to another one; `restored` the things that were stored again after they had been
taken out; `popper` and
`missed` who removed what somebody did not find.

### Daemon

`daemon[p]` is where process `p` stands between `fork` and its end, `file` the pid
file, `handles` who has it open (a write goes to the file that was opened, also after it
was unlinked), `bound` who listens on the port, `command[s]` the command of a shell.
One action is one system call that others can see.  `Begin` is the start of a command,
`Fork` to `Remove` are the lines of `start`, `stop` and `restart`, `Register` to `Delpid`
those of `daemonize_posix`, `run` and `delpid`.  SIGTERM ends a daemon that has no
handler yet without its atexit functions; afterwards it runs `cleanup_storage`, which
ends with `SystemExit` or with an exception the server survives (see `Registries`).  The
environment kills daemons, gives their process ids to somebody else, and has somebody
else listen on the port.  `alone`
(no two commands overlapped), `single` (no daemon was forked beside another),
`untidy` (daemons that ended without atexit), `crowded` (a daemon found its port taken)
and `deaf` (those that did not exit on SIGTERM) are histories that the properties have as premises.

## 3. Runs

| Run | Specification and bounds | Shows |
|---|---|---|
| `PoolConcurrent` | `Spec`, 3 servers, 3 ports, 2 threads in the pool | `TypeOK`, `Allocates`: any interleaving of pops, probes, releases and rescans implements `PortAllocator` |
| `PoolSequential` | `SpecPublic`, 3 servers, 3 ports, 1 thread | `GrantedOnce`, `Conserved`, `FromRange` with rescans, changes of range and the lazy filter |
| `PoolLive` | `FairSpec`, 2 servers, 3 ports, 1 thread | `FindsFreePort` |
| `ServersSerial` | 2 ids, 2 objects, 2 process ids, 2 threads, serial clients | `TypeOK`, `Lives` (implements `ServerLife`), `NoOrphan`, `RemovedIsClean`, `SecuredServes` |
| `ServersLive` | `FairSpec`, 1 id, 1 object, 2 process ids, 1 thread | `Replied` |
| `ReplicaSetMembers` | 3 hosts, 2 members at first, `_id` up to 2, 3 versions, 2 threads | `TypeOK`, `Lives` (implements `MemberLife`), `Consistent`, `CleanupComplete` |
| `ReplicaSetCreate` | `Spec`, 3 members, 4 shapes, login and auth_key or not, 1 crash or deletion | `TypeOK`, `RefusedIsEmpty`, `UserBeforeLogin`, `StoredKeyed`, `ResetRevives` |
| `ShardedLife` | 4 ids, 2 shards, up to 2 routers at first, 2 threads, one disturbance | `TypeOK`, `NothingLost`, `HeldExist`, `CatalogAgrees`, `DrainedFirst`, `RegisteredSecured` |
| `Registries` | a cluster of a set and a router, two servers of one id, 2 threads, 3 requests and signals, of which at most 2 signals | `TypeOK`, `ExitIsClean`, `NoSelfTrip`, `OneRemover`, `NeverStuck`, `NearerTheEnd` |
| `DaemonLife` | `FairSpec`, 2 daemons, 2 shells, 3 commands, 1 SIGKILL | `TypeOK`, `Findable`, `FileFresh`, `SignalsDaemons`, `Returns` |

Runs that end with a violation, each a finding of `PROJECT.json`:

| Run | Property | The code |
|---|---|---|
| `ReplicaSetGap` | `AgreeWithGaps` | `replica_sets.py:355` uses an `_id` as a position |
| `RegistriesSignal` | `SignalCleansUp` | `sharded_clusters.py:503` raises in the signal handler after a component of the cluster was deleted through its own resource (the shard's set in the trace, a router does the same): the rest is not cleaned up and the service goes on |

The models contain more behaviour of this kind without a run of its own; the
properties above say what holds in spite of it.

- Ports: `process.py:56` lets a second thread pass before the range is there, and both
  are granted one port (`InitBoot` with two threads).  `process.py:98` does not end
  while every port is taken (`FindsFreePort` has a free port as its premise).
  `process.py:114` unions an exhausted iterator (`dropped`).
- Servers: `servers.py:540` tests an id long before it registers it, so two overlapping
  creates of one id both succeed (with `Serial` FALSE).  `servers.py:348` answers
  a `start()` that is tried again after one that failed half way with success, though
  the restart with authentication is left out (`failed`).  `servers.py:547`
  registers a server after `start()`, which may raise with the process running
  (`failed`, `lost`).  `servers.py:414` and `:470` write a new config file at
  every restart and forget the last one, and `cleanup_mprocess` deletes only the newest:
  a removed server leaves the others behind (`old`).  `servers.py:584` stores a server again that was removed meanwhile
  (`restored` in `Registries`).  `process.py:177` waits for the repair of a locked dbpath
  without a limit, `process.py:280` for a process that was told to end (`Replied`).
- Replica sets: `replica_sets.py:275` cannot be reached, as a refused reconfig
  raises: the server of the member that was to be added stays registered and running.
  `replica_sets.py:243` takes a lost connection for success (`surprise`).
  `replica_sets.py:129` raises when the members have *not* settled and the
  configuration *is* as requested, and goes on when neither is (`ActualizeTimesOut`).
  Only "Could not create replica set." removes the servers of a set that failed;
  every other exception leaves them registered and running until the service ends.
  A login without an auth_key restarts the members without a keyFile.
- Clusters: `sharded_clusters.py:380` removes any server it is asked
  to before it looks whether it is a router (`behind`).  `sharded_clusters.py:423`
  leaves the server of a refused shard (`failed`).  `sharded_clusters.py:441` pops
  whatever has the name by then (`unsure`).  `sharded_clusters.py:486` iterates over
  lists that other requests change (`beside`).
- Exit: with wsgiref any exception of the handler ends the process; with cheroot
  the service goes on, and `daemon.py:177` then waits without end (`deaf`).
- Daemon: `server.py:141` takes whoever listens on the port for the daemon that was
  started, so that start reports success though its own daemon could not bind (`bound`,
  `crowded`).  Of two overlapping starts the loser's `delpid` removes the file of the
  daemon that serves, and an empty file lets start and stop raise a ValueError
  (`alone`, `single`, `untidy`).

**Refinement.**  `Allocates` in `PortPool` and `Lives` in `Servers` and in `ReplicaSet`
are the initial predicates and the `[Next]` of an abstract specification under a
refinement mapping, as properties of `PoolConcurrent`, `ServersSerial` and
`ReplicaSetMembers`; none has fairness, as what must happen is stated separately
(`FindsFreePort`, `Replied`).  What follows from them in their runs has no check of its
own there: `SecuredForGood` in `ServersSerial`, `MembersServed` in
`ReplicaSetMembers`, and of `RemovesOutsiders` all but the deletes of a set that has been
stored again or deleted meanwhile.  All three are theorems (section 4), `SecuredForGood` also for
requests that overlap.

**Bounds.**  Three servers and three ports let two servers compete for a port
while a third one holds one; two threads give every pairwise race.  One `Server`
needs at most two processes at once (the one that exits and the next one), so two
process ids suffice for one busy server, and a shortage only delays a `Spawn`.  An
object that nothing refers to is used again, so that one or two of them cover any number
of creates after removes.  `Relevant` in `MCServers` lets one of the two servers at a
time have a login, a second config file or a crash behind it, and the other be plain;
`View` forgets what the fields of a dead object were, apart from what is left of it.  Three hosts, of which two are
members, and three versions allow an add, a delete, and a change that builds on either.
`MaxId` and `MaxVersion` are guards of `AddRead`, `Reconfig` and
`ReconfigReconnect`.  `Relevant` in `MCReplicaSet` cuts states after which
`Lives` and `Consistent` say nothing; `CleanupComplete` is checked up to there, and
proved for all.  Three members of a new set make a majority
that one failure leaves intact; the shapes have three candidates, two and an arbiter,
one, and none.  Four ids make a config replica set, a router
and two shards, or two routers and one shard, so that an add, a removal and a DELETE can overlap;
`MaxRouters` bounds what a `Create` asks for.  `Undisturbed` in `MCShardedCluster` allows one
disturbance per behaviour: one server removed behind the cluster's back, one
unsure shard, or one DELETE beside another request.  In `Registries` three events
are two requests and the signal they race with, or one request and two nested
signals; the cluster has every kind of part, a set among them, and the two servers with
one id are what `Servers.create` does not exclude.  `View` in `MCRegistries` forgets what a
worker did for a request it has answered.  In `DaemonLife` two daemons and
three commands are a start that races with a stop or a start and what comes after.
Runs that turn deadlock checking off (`ReplicaSet`, `ReplicaSetCreate`,
`ShardedCluster`, `Registries`, `Daemon`) have a state in which nothing is left to
do: after a DELETE, an answer, the exit, or the last command.

**Fairness.**  `PortPool`: a thread in the pool keeps running (weak fairness of its
step); for `FindsFreePort` a port that is in the set at every pop is popped some
time (strong fairness of `Pop(s, p)`), because CPython's `set.pop` goes round the
hash table.  `Servers`: weak fairness of each thread, and nothing of the processes.
Two waits of the code have no limit that is looked at: `readline()` on the pipe of a
repair (`process.py:177`), whose limit is tested between lines, and `communicate()` with
a process that was told to end (`process.py:280`, which `:242` calls too).  A thread in the first
one is `Reading` and has no fairness at all; one in the second has no step to take until
the process ends.  `Replied` says that every request is answered unless it is in one of
the two for good (`Stuck`).  All other waits have a timeout (`wait_for`, `wait_mprocess`,
pymongo's socket and server selection timeouts); that `mongod --version`, which the
constructor of a server runs, ends is assumed.  `ReplicaSetInit` states no fairness: its
requests stop and start servers, so they may wait for good as well.  `Daemon`: weak fairness of the steps of daemons and
commands; strong fairness of `Wait`, which polls a process id that may be somebody
else's in between; and a foreign process ends some time.  Nothing is said of who else
uses the port.  `Registries` needs no fairness:
`NeverStuck` says that a handler at work always has a step to take, and `NearerTheEnd`
that each of its steps brings it nearer to its end: it leaves a level of nesting,
raises, goes on to the next round of `cleanup_storage`, is done with a thing of
that round, or with a part of the work on it.  Together they say that the handler
ends if it is scheduled.

## 4. Proofs

`PortPoolProofs`, for all servers, ports and numbers of threads, from
`PoolAssumption`:

- `TypeCorrect`: `[]TypeOK` under all three specifications.  `TypeOK` is not
  inductive: it needs that a server whose constructor checks or owns a port has
  one, which `TypeInv` adds.
- `GrantedOnceSequential`: with one thread `[]GrantedOnce`.  The invariant
  relates the open set with the holders: unless a rescan has met an unbound port, no holder's
  port is in `ports`, and while a refresh runs, in what it has found open.
- `GrantedOnceConcurrent`: with any number of threads `[]GrantedOnce` for an existing
  pool.  The invariant says that until a `refresh` begins no holder's port is in `ports` and no
  thread is inside `refresh` or the initialisation.
- `ImplementsAllocator`: `Spec => Allocates`, with any number of threads.  A pool that is
  disturbed stays so (`StaysDisturbed`), only `Pop` and its probe make a server a
  holder, and every other step leaves the ports of the holders alone (`GivenKept`).  That the
  port granted was free follows from `GrantedOnce` of the next state, which the invariant
  of `GrantedOnceConcurrent` gives.
- `ConservedSequential`, `ConservedConcurrent`: `[]Conserved` with one thread under all three
  specifications, with any number under `Spec`.  Inside a call ports are in neither set: `ConserveInv` says
  for each point of the one constructor what the two sets, the ports in its hand and those
  it still has to probe make up; `ConserveFresh` says, for many threads, that until a
  `refresh` begins the range is the two sets and what is in somebody's hand (`Partition`).
- `GrantedFromRange`: with one thread `FromRange`, from `ConserveInv`: what a constructor has in
  hand when it returns was in the sets that the last `__init_range` built.

`ServersProofs`, for all ids, objects, processes and threads, for serial clients and
for clients whose requests overlap in any way, from `ServersAssumption`:

- `TypeCorrect`: `[]TypeOK`.  `start()` and `stop()` return to the head of the stack
  and work on the object of the request, so `TypeOK` alone is not inductive.
  `TypeInv` adds which stacks and which objects belong to which label: a `stop()` is
  at most one level inside a `start()` or `restart()`, and a `start()` never is.
- `StaysSecured`: `SecuredForGood`.  The fact behind it is `SecuredConf`: a server with
  a login that needs no restart any more has its authentication configured.  Only the
  constructor and the rewriting of the first config file touch those fields, and
  only `Spawn` makes a process, from the configuration of its server.

and for serial clients (`Serial`) only, because two overlapping `start()` of one server
overwrite each other's `self.proc` and leave a process that nobody tracks:

- `NobodyOrphaned`: `[]NoOrphan`.  `HandInv` says what a request has in hand.  `Order`: one
  request has an id at a time, and with it the server stored there; `Aim`, the label
  a request's outermost call returns to, tells where that server is meanwhile (in
  no registry before `register` and `cleanup`, under its id before `store`).  `Tracked`:
  what runs is what `self.proc` of its server says, or the `child` of the
  request that has just started it.  `Stopped`: where the code goes on because the
  server has stopped (`Still`: before `Popen`, before a config file is rewritten,
  before `cleanup()`) nothing of it runs; a `stop()` that times out twice and kills
  gets there too, since `communicate()` waits for the process it has signalled.
- `RemovedLeavesNothing`: `[]RemovedIsClean` (no process; no data and no config file in use
  unless a deletion failed; earlier config files stay), with `Wiped`: a server that nobody has any more,
  and that no `create()` lost, has been through `Cleanup`.
- `LoginEnforced`: `[]SecuredServes`.  `Awaiting`: what runs without having been
  secured is in the hands of a request that will restart it (`Securing`), or its
  `start()` failed half way; `Authed`: what has been secured runs with authentication.
- `Refinement`: `Spec => Lives`, from `HandInv` and `SecuredConf`.  `PlaceOf` says what the
  mapping makes of the registry and the requests; every kind of step is one of
  `ServerLife` or leaves the three mapped variables alone: `Construct` makes, an
  exception of a create abandons, `Register` enters, `Remove` leaves, `Spawn` launches,
  `Secure` secures a server with a login.  It also assumes `Named`: no id is one of the
  two words "making" and "out" that the mapping uses for places that are no ids.

`DaemonProofs`, for all process ids, shells, commands and kills, from
`DaemonAssumption`:

- `TypeCorrect`: `[]TypeOK`, with `HasPid`: a command that waits for a process has its id.
- `StaysFresh`: `[]FileFresh`, however commands overlap.  `FileInv` says who may have the file open
  and which daemons the file can name: a daemon that has written it and ended in order
  has removed it, and who removes it closes everybody's handle.
- `StaysFindable`: `[]Findable`.  `AloneInv` says that while nothing has
  overlapped there is one live daemon and one command; `Orderly` tells their story:
  what the file says at every point of the daemon's start (`FileFollows`) and
  that what a command has read stays true until it acts on it (`CommandKnows`).
- `SignalsItsOwn`: `SignalsDaemons`.  `Attended` says that a command about to signal has the id of
  a daemon that lives, unless one ended in disorder or found its port taken.

`ReplicaSetInitProofs`, for all members, arbiters, candidates and numbers of disturbances,
from `ReplicaSetInitAssumption`:

- `TypeCorrect`: `[]TypeOK`.
- `RefusedLeavesNothing`: `[]RefusedIsEmpty`.  `Mapped` says that the set has all its members
  from `repl_init` on, so that the `cleanup()` after a refusal sees them; `Emptied` which of
  them its futures have removed.
- `UserFirst`: `[]UserBeforeLogin`.  The write concern of `createUser` is the number of
  data-bearing members, so that members that acknowledge are all of them (`AllAcked`,
  a fact about cardinalities); no server is made afterwards (`Known`).
- `StaysKeyed`: `[]StoredKeyed`.  While `restart_with_auth` runs, the members whose futures
  have begun are keyed (`KeyedSoFar`); who goes on has waited for all of them.
- `ResetIsThorough`: `[]ResetRevives`.  A member whose future has ended runs or is in `since`
  (`Revived`).

`RegistriesProofs`, for all servers, sets and clusters, workers, requests and depths of
nested handlers, from `RegistriesAssumption` (a thing is a part of one thing at most) and
`KindsAssumption` (a server, a set and a cluster are different things):

- `TypeCorrect`: `[]TypeOK`, with `Nested` (no more handlers than signals).
- `RemovedByOne`: `[]OneRemover`, for the things that have not been stored again.  The invariant `Story` says that a thing is made with its
  parts (`Closed`) and by one job (`MadeOnce`), that what is registered, held or
  removed has been made (`UsedPast`), and that who removes a thing has taken it out of its
  registry (`TakenOnce`).  Without the first three a thing could be stored by
  its maker after somebody else has removed it.  Most steps are `Calm`: they make, register and take
  nothing; the others are `Taken`: one actor pops one registered thing.
- `MissesOthers`: `[]NoSelfTrip`.  The invariant `InHand` says that the jobs of one actor are
  a `Row`: one cluster at a time, and under a part that is being removed
  a whole that still waits for it (`Tree`).  So a handler goes on only when every
  executor has ended (`Phase`), and what it is about to take it has not taken yet
  (`AheadParts`, `AheadClusters`, `AheadServers`).  Without `Tree` a part could still
  be in an executor when the next round takes it again.  `Missing` follows an exception
  until it has unwound its handler.
- `ExitLeavesNothing`: `[]ExitIsClean`, for the servers that are neither `touched` nor `lost`.  `Covered` says where a running server is known:
  before the signal it is registered or with the worker that stores or stops it (`Kept`);
  after it, it is `touched`, registered, or being stopped by a handler (`Watched`); in the
  second round over the servers it is in that round's list (`LastRound`): what a worker
  registers later was in its hands at the signal, so it is `touched`.

- `ComesToAnEnd`: `NearerTheEnd`.  A job of an executor goes through its labels in one
  direction; what needs an invariant is that a thing whose parts are awaited has had all
  of them begun, and that who stops a server does nothing else meanwhile (`Begun`), so that
  no job starts again, and `InHand`, by which a round ends only when its executors have.
- `HandlerGoesOn`: while a handler is at work the guard of one of its steps, or of one of its
  executors', holds (`Ready`), whatever raised and whoever took something away.  It is
  `NeverStuck` with guards in the place of ENABLED.  Jobs wait for jobs on their parts
  only, and things have three levels (`BusyGoes`), so somebody waits for nobody.

`ReplicaSetProofs`, for all hosts, sizes of the set, versions and threads, from
`ReplicaSetAssumption` (a new set has no more members than the model has _ids).  A
request reads the configuration, changes its copy, and has mongod take it some time later, so
the proofs are about what a copy may still say when it is taken:

- `TypeCorrect`: `[]TypeOK`.  `TypeInv` adds that every list of members is in the order of
  its _ids (`Sorted`), without which `max(...) + 1` and the map of a configuration mean little.
- `RemovedOutside`: `RemovesOutsiders`.  Four facts are behind `Outside`, that a delete's
  host has left the configuration and every copy that may replace it:
  positions are _ids until there is a gap (`NoGap`), all lists, `server_map` and the
  lookups of deletes give a host the same _id (`OneId`), a host that is being added is
  known to nobody else (`Fresh`), and a copy mongod would still take differs from
  the configuration by the request's own change (`Derived`).
- `MembersConsistent`: `[]Consistent`, up to the first surprise that is no overlap.  `Balanced` counts the servers: each is
  configured, or is being added, or a delete is about to remove it (`Accounted`).  Two
  deletes of one member break the count, and then one of them is bound to raise (`Doomed`),
  which is why overlapping deletes end well or with an error and never with a server
  too few.  `Mapped` says who has `server_map` in hand.
- `CleanupRemovesAll`: `[]CleanupComplete`.  `Cleaned`: while a DELETE runs every server that is
  left is one its cleanup has yet to come to.
- `Refinement`: `Spec => Lives`, step by step (`NextLife`).  `Derived` makes the accepted copy the
  configuration with one host more or less, `Fresh` and `AddServed` the host that joins one
  with a server of its own, `Outside` and `NoCleanup` the server that retires one of a host
  that has left, or of a set that is deleted.  The other steps leave the mapped
  variables alone, or disturb.
- `MembersAlwaysServed`: `[]MembersServed`, in the middle of requests and after those that
  raised.  `MemberLife` keeps it with every step, so it follows from `Refinement` alone.

`ShardedClusterProofs`, for all ids, shards, router counts and threads, from
`ShardedClusterAssumption`; the inductive invariant `Inv` has nine parts:

- `TypeCorrect`: `[]TypeOK`, with the argument that each label of a request needs.
- `HeldKnown`: `[]HeldExist`.  An id is in one list once, or in one request's hands
  (`OwnedOnce`), so that nobody else takes it out of the registry; `Kept` follows it
  through `router_remove`, which unregisters first and forgets later.
- `CatalogAgreement`: `[]CatalogAgrees`, and `RemovedDrained`: `[]DrainedFirst`, both for the
  shards that are not `unsure`.  `Placed` says
  that one request at a time works on a shard whose answers arrive, `Agreeing` that
  the cluster and the catalog differ only between its two changes (`Between`).
- `EverythingFound`: `[]NothingLost`.  `Submitted` says which of the lists the futures of a
  cleanup have gone through, `Found` where every server is (`Secured`).
- `AllSecured`: `Spec => RegisteredSecured`.  `Built` follows the constructor from phase
  to phase; while it runs nobody else is at work (`Alone`).

`SequenceLemmas` says what `RemoveAt` and `Append` return; both proofs cite it.

Only model-checked: liveness (`FindsFreePort`, `Replied`, `Returns`),
which is out of the prover's reach; `NeverStuck`, which speaks of ENABLED (its guards are
proved by `HandlerGoesOn`, but that a guard enables its action is TLC's to say); and the
violations.  That a handler ends if it is scheduled is liveness too; what is proved
are the two facts it needs, `HandlerGoesOn` and `ComesToAnEnd`.

## 5. Not modelled

`launch.py` (a client of the service; it calls a module `relica_sets` that does not
exist at line 70), links and formatting of replies, error
classes, presets and the configuration JSON files (`common.update` tests
`collections.Mapping`, which Python 3.10 removed), scripts and packaging, TLS options
and X.509 users, versions of mongod, Windows and `--no-fork`,
`freeze`/`stepdown` of single servers (one command to mongod, no state of
the service), mongos servers of `Servers`, `host_to_server_id` (its iteration over a
dictionary that others change, `servers.py:606`, is a hazard of every lookup),
`Container.set_settings` (called before any server is there) and `Container.__del__`.
In `ReplicaSet` member settings
other than `_id` and host, and commands other than start, stop and restart; in `ReplicaSetInit`
tags, read preferences, the branch of an answer of `replSetInitiate` without `ok`,
which pymongo turns into an exception.  In
`ShardedCluster` shards that are replica sets (they differ in the registry they are
kept in; `Registries` has one), config servers that are no replica set (before MongoDB 3.2), tags,
`reset`, `requireApiVersion`, and a second cluster of the same id.  In `Registries` how
a server starts and stops; the ids that a client gives to members, shards and routers
(they could be those of other things); a command of a cluster that works on a set; a signal while an exception unwinds the handlers.

## 6. Plan

What is left, in this order.

| Step | Module | Content | Properties and theorems |
|---|---|---|---|
| 1 | `ShardedCluster` | shards that are replica sets, `reset` | `HeldExist`, `NothingLost` over two registries |
