--------------------------- MODULE ShardedCluster ---------------------------
(***************************************************************************)
(* A sharded cluster from its creation to its removal: class               *)
(* ShardedCluster and class ShardedClusters of                             *)
(* mongo_orchestration/sharded_clusters.py, the handlers of                *)
(* apps/sharded_clusters.py, and what they use of the registries Servers   *)
(* and ReplicaSets.                                                        *)
(*                                                                         *)
(* The cluster holds the ids of objects that live in the two other         *)
(* registries, and the config servers hold a catalog of the shards.  A     *)
(* process is a worker thread that serves one request; a step is one use   *)
(* of another registry, one command to a router, or one change of the      *)
(* cluster's lists.                                                        *)
(*                                                                         *)
(* Simplifications: the config servers are one replica set and every shard *)
(* is a single server; one cluster; Servers.create, Servers.remove and     *)
(* their ReplicaSets twins are one step each, what happens inside them is  *)
(* the subject of Servers and ReplicaSet; the futures of the constructor   *)
(* run one after the other in any order, as nobody else can see the        *)
(* cluster yet; login and auth_key come together.                          *)
(***************************************************************************)
EXTENDS Naturals, Sequences, FiniteSets, SequencesExt

CONSTANTS
  Id,          \* ids of servers and of replica sets
  Shard,       \* names of shards
  Thread,      \* worker threads
  NoId, NoShard,
  MaxRouters   \* bound: routers of a new cluster

ASSUME ShardedClusterAssumption ==
  /\ NoId \notin Id
  /\ NoShard \notin Shard
  /\ MaxRouters \in Nat

VARIABLES
  servers,       \* ids in Servers._storage
  replica_sets,  \* ids in ReplicaSets._storage
  made,          \* ids that have been given out
  stored,        \* the cluster is in ShardedClusters._storage
  cluster,       \* the fields of the ShardedCluster object
  catalog,       \* config.shards on the config servers
  keyed,         \* ids of what runs with the cluster's keyFile
  request,       \* the request every worker thread serves
  failed,        \* history: ids made by a request that then raised
  behind,        \* history: ids removed, but not as the cluster's
  unsure,        \* history: shards for which the answer of a router was lost,
                 \* or that two requests addressed at once
  beside         \* history: the cluster was deleted beside another request

registries == <<servers, replica_sets, made>>
history    == <<failed, behind, unsure, beside>>
vars == <<registries, stored, cluster, catalog, keyed, request, history>>

-----------------------------------------------------------------------------
(***************************************************************************)
(* State.                                                                  *)
(***************************************************************************)
Cluster == [login : BOOLEAN, configsvrs : SUBSET Id, routers : Seq(Id),
            shards : [Shard -> Id \cup {NoId}]]

\* A document of config.shards; id is that of the server behind its host.
Entry == [state : {"none", "in", "draining"}, id : Id \cup {NoId}]
NoEntry == [state |-> "none", id |-> NoId]

Creating == {"configrs", "routers", "shards", "users", "restart", "register"}
Cleaning == {"cleanup_shards", "cleanup_routers", "cleanup_config",
             "cleanup_wait"}
OnShard  == {"shard_create", "addShard", "shard_store", "removeShard",
             "shard_pop", "shard_remove"}
OnRouter == {"router_create", "router_append", "router_remove",
             "router_forget"}
Label == {"idle", "store"} \cup Creating \cup Cleaning \cup OnShard \cup OnRouter

\* The steps that work on the id in hand.
WithId == {"router_append", "router_remove", "router_forget", "addShard",
           "shard_store", "shard_remove"}

\* shard and id are the arguments and locals of the request, n is a counter;
\* names and futures are what an executor has still to start, or to finish;
\* err says that one of its futures raised.
Idle == [pc |-> "idle", shard |-> NoShard, id |-> NoId, n |-> 0,
         names |-> {}, futures |-> {}, err |-> FALSE]

Request == [pc : Label, shard : Shard \cup {NoShard}, id : Id \cup {NoId},
            n : Nat, names : SUBSET Shard, futures : SUBSET Id, err : BOOLEAN]

TypeOK ==
  /\ servers \in SUBSET Id /\ replica_sets \in SUBSET Id /\ made \in SUBSET Id
  /\ stored \in BOOLEAN
  /\ cluster \in Cluster
  /\ catalog \in [Shard -> Entry]
  /\ keyed \in SUBSET Id
  /\ request \in [Thread -> Request]
  /\ \A t \in Thread :
       /\ request[t].pc \in WithId => request[t].id \in Id
       /\ request[t].pc \in OnShard => request[t].shard \in Shard
  /\ failed \in SUBSET Id /\ behind \in SUBSET Id /\ unsure \in SUBSET Shard
  /\ beside \in BOOLEAN

Init ==
  /\ servers = {} /\ replica_sets = {} /\ made = {}
  /\ stored = FALSE
  /\ cluster = [login |-> FALSE, configsvrs |-> {}, routers |-> <<>>,
                shards |-> [n \in Shard |-> NoId]]
  /\ catalog = [n \in Shard |-> NoEntry]
  /\ keyed = {}
  /\ request = [t \in Thread |-> Idle]
  /\ failed = {} /\ behind = {} /\ unsure = {} /\ beside = FALSE

Registered == servers \cup replica_sets

\* The ids in the three lists of the cluster.
RouterIds == {cluster.routers[k] : k \in 1..Len(cluster.routers)}
ShardIds  == {cluster.shards[n] : n \in Shard} \ {NoId}
Held      == cluster.configsvrs \cup RouterIds \cup ShardIds

Names == {n \in Shard : cluster.shards[n] # NoId}

-----------------------------------------------------------------------------
(***************************************************************************)
(* The control of a thread.                                                *)
(***************************************************************************)
At(t, label)   == request[t].pc = label
Goto(t, label) == request' = [request EXCEPT ![t].pc = label]
Reply(t)       == request' = [request EXCEPT ![t] = Idle]

\* A future is done with, or has raised.
Done(t) == UNCHANGED request
Err(t)  == request' = [request EXCEPT ![t].err = TRUE]

\* mongos needs the hosts of the config servers.
ConfigKnown == cluster.configsvrs # {} /\ cluster.configsvrs \subseteq replica_sets

\* A router answers: router() asks the registry for one after the other until
\* one is alive, and raises KeyError when the registry does not know it; the
\* router asks the config servers.
RouterAnswers ==
  cluster.routers # <<>> /\ cluster.routers[1] \in servers /\ ConfigKnown

\* Servers.create succeeds.
NewServer(i) ==
  /\ i \notin made
  /\ servers' = servers \cup {i}
  /\ made' = made \cup {i}
  /\ UNCHANGED replica_sets

-----------------------------------------------------------------------------
(***************************************************************************)
(* Requests.  One for a cluster that is not there is answered 404 and      *)
(* changes nothing.                                                        *)
(***************************************************************************)
Busy == \E t \in Thread : ~At(t, "idle")

\* ShardedClusters.create: the id is not taken.
Create(t, login, routers, shards) ==
  /\ At(t, "idle")
  /\ ~stored /\ made = {}
  /\ \A u \in Thread : request[u].pc \notin Creating
  /\ cluster' = [cluster EXCEPT !.login = login]
  /\ request' = [request EXCEPT ![t].pc = "configrs", ![t].n = routers,
                                ![t].names = shards]
  /\ UNCHANGED <<registries, stored, catalog, keyed, history>>

Address(t) ==
  /\ At(t, "idle")
  /\ stored
  /\ UNCHANGED <<registries, stored, cluster, catalog, keyed, failed, behind,
                 beside>>

\* POST and DELETE of the cluster's routers ...
AddRouter(t) == Address(t) /\ Goto(t, "router_create") /\ UNCHANGED unsure

DelRouter(t, i) ==
  /\ Address(t)
  /\ request' = [request EXCEPT ![t].pc = "router_remove", ![t].id = i]
  /\ UNCHANGED unsure

\* ... and of its shards.
OfShard(t, n, label) ==
  /\ Address(t)
  /\ label \in {"shard_create", "removeShard"}
  /\ unsure' = IF \E u \in Thread : request[u].shard = n
               THEN unsure \cup {n} ELSE unsure
  /\ request' = [request EXCEPT ![t].pc = label, ![t].shard = n]

\* DELETE of the cluster: pop, then cleanup().
Delete(t) ==
  /\ At(t, "idle")
  /\ stored
  /\ stored' = FALSE
  /\ beside' = (beside \/ Busy)
  /\ request' = [request EXCEPT ![t].pc = "cleanup_shards",
                                ![t].n = Cardinality(Names)]
  /\ UNCHANGED <<registries, cluster, catalog, keyed, failed, behind, unsure>>

\* DELETE of a server or of a replica set that the cluster may hold.
RemoveBehind(i) ==
  /\ i \in Registered
  /\ servers' = servers \ {i}
  /\ replica_sets' = replica_sets \ {i}
  /\ behind' = behind \cup {i}
  /\ UNCHANGED <<made, stored, cluster, catalog, keyed, request, failed,
                 unsure, beside>>

\* self._storage[cluster_id] = cluster, and the reply.
Store(t) ==
  /\ At(t, "store")
  /\ stored' = TRUE
  /\ Reply(t)
  /\ UNCHANGED <<registries, cluster, catalog, keyed, history>>

-----------------------------------------------------------------------------
(***************************************************************************)
(* ShardedCluster.__init__                                                 *)
(***************************************************************************)
\* The futures of this phase have all ended; the with statement waits for them
\* also when one of them has raised.
PhaseEnds(t) ==
  \/ At(t, "routers") /\ request[t].n = 0
  \/ At(t, "shards") /\ request[t].names = {}
  \/ At(t, "restart") /\ request[t].futures = {}

\* An exception leaves the constructor: nothing that was made is removed.
CreateFails(t) ==
  /\ request[t].pc \in {"configrs", "users"} \/ (PhaseEnds(t) /\ request[t].err)
  /\ failed' = failed \cup made
  /\ Reply(t)
  /\ UNCHANGED <<registries, stored, cluster, catalog, keyed, behind, unsure,
                 beside>>

\* __init_configrs
InitConfigrs(t, i) ==
  /\ At(t, "configrs")
  /\ i \notin made
  /\ replica_sets' = replica_sets \cup {i}
  /\ made' = made \cup {i}
  /\ cluster' = [cluster EXCEPT !.configsvrs = {i}]
  /\ Goto(t, "routers")
  /\ UNCHANGED <<servers, stored, catalog, keyed, history>>

\* A future of router_add.
InitRouter(t, i) ==
  /\ At(t, "routers")
  /\ request[t].n > 0
  /\ ConfigKnown
  /\ NewServer(i)
  /\ cluster' = [cluster EXCEPT !.routers = Append(@, i)]
  /\ request' = [request EXCEPT ![t].n = @ - 1]
  /\ UNCHANGED <<stored, catalog, keyed, history>>

\* It raises, in Servers.create or before.
InitRouterFails(t) ==
  /\ At(t, "routers")
  /\ request[t].n > 0
  /\ request' = [request EXCEPT ![t].n = @ - 1, ![t].err = TRUE]
  /\ UNCHANGED <<registries, stored, cluster, catalog, keyed, history>>

\* A future of add_shard: a server, addShard, and the entry in _shards.
InitShard(t, n, i) ==
  /\ At(t, "shards")
  /\ n \in request[t].names
  /\ NewServer(i)
  /\ RouterAnswers
  /\ catalog' = [catalog EXCEPT ![n] = [state |-> "in", id |-> i]]
  /\ cluster' = [cluster EXCEPT !.shards[n] = i]
  /\ request' = [request EXCEPT ![t].names = @ \ {n}]
  /\ UNCHANGED <<stored, keyed, history>>

\* It raises: Servers.create does, or addShard, and then the server stays.
InitShardFails(t, n) ==
  /\ At(t, "shards")
  /\ n \in request[t].names
  /\ \/ UNCHANGED registries
     \/ \E i \in Id : NewServer(i)
  /\ request' = [request EXCEPT ![t].names = @ \ {n}, ![t].err = TRUE]
  /\ UNCHANGED <<stored, cluster, catalog, keyed, history>>

\* What follows a phase of the constructor without an error.
NextPhase(t) ==
  /\ PhaseEnds(t) /\ ~request[t].err
  /\ CASE At(t, "routers") -> Goto(t, "shards")
       [] At(t, "shards")  -> Goto(t, IF cluster.login THEN "users"
                                      ELSE "register")
       [] At(t, "restart") -> Goto(t, "register")
  /\ UNCHANGED <<registries, stored, cluster, catalog, keyed, history>>

\* Mutant: the routers are not restarted.
UsersNoRouters(t) ==
  /\ At(t, "users")
  /\ RouterAnswers /\ Held \subseteq Registered
  /\ request' = [request EXCEPT ![t].pc = "restart",
                                ![t].futures = cluster.configsvrs \cup ShardIds]
  /\ UNCHANGED <<registries, stored, cluster, catalog, keyed, history>>

\* _add_users through a router and on every shard; then whatever the cluster
\* holds is looked up, to be restarted with the keyFile.
Users(t) ==
  /\ At(t, "users")
  /\ RouterAnswers /\ Held \subseteq Registered
  /\ request' = [request EXCEPT ![t].pc = "restart", ![t].futures = Held]
  /\ UNCHANGED <<registries, stored, cluster, catalog, keyed, history>>

\* restart_with_auth of one of them.
Restart(t, i) ==
  /\ At(t, "restart")
  /\ i \in request[t].futures \cap Registered
  /\ keyed' = keyed \cup {i}
  /\ request' = [request EXCEPT ![t].futures = @ \ {i}]
  /\ UNCHANGED <<registries, stored, cluster, catalog, history>>

RestartFails(t, i) ==
  /\ At(t, "restart")
  /\ i \in request[t].futures
  /\ request' = [request EXCEPT ![t].futures = @ \ {i}, ![t].err = TRUE]
  /\ UNCHANGED <<registries, stored, cluster, catalog, keyed, history>>

\* ShardedClusters.create: self[cluster.id] = cluster.
Register(t) ==
  /\ At(t, "register")
  /\ stored' = TRUE
  /\ Reply(t)
  /\ UNCHANGED <<registries, cluster, catalog, keyed, history>>

-----------------------------------------------------------------------------
(***************************************************************************)
(* Routers: router_add and router_remove                                   *)
(***************************************************************************)
RouterCreate(t, i) ==
  /\ At(t, "router_create")
  /\ ConfigKnown
  /\ NewServer(i)
  /\ request' = [request EXCEPT ![t].pc = "router_append", ![t].id = i]
  /\ UNCHANGED <<stored, cluster, catalog, keyed, history>>

\* The request raises before anything has changed.
RaiseEarly(t) ==
  /\ request[t].pc \in {"router_create", "shard_create", "removeShard"}
  /\ Reply(t)
  /\ UNCHANGED <<registries, stored, cluster, catalog, keyed, history>>

\* The router is added to the list; its hostname is asked for.
RouterAppend(t) ==
  /\ At(t, "router_append")
  /\ cluster' = [cluster EXCEPT !.routers = Append(@, request[t].id)]
  /\ IF request[t].id \in servers THEN Goto(t, "store") ELSE Reply(t)
  /\ UNCHANGED <<registries, stored, catalog, keyed, history>>

\* Servers.remove, whether the cluster has such a router or not; KeyError when
\* there is no such server.
RouterRemove(t) ==
  /\ At(t, "router_remove")
  /\ LET i == request[t].id IN
       /\ servers' = servers \ {i}
       /\ IF i \in servers THEN Goto(t, "router_forget") ELSE Reply(t)
       /\ behind' = IF i \in servers \ RouterIds THEN behind \cup {i} ELSE behind
  /\ UNCHANGED <<replica_sets, made, stored, cluster, catalog, keyed, failed,
                 unsure, beside>>

\* Mutant: the list keeps the router.
RouterForgetKeeps(t) ==
  /\ At(t, "router_forget")
  /\ Goto(t, "store")
  /\ UNCHANGED <<registries, stored, cluster, catalog, keyed, history>>

\* del self._routers[self._routers.index(router_id)], or ValueError.
RouterForget(t) ==
  /\ At(t, "router_forget")
  /\ \/ \E k \in 1..Len(cluster.routers) :
          /\ cluster.routers[k] = request[t].id
          /\ \A j \in 1..(k - 1) : cluster.routers[j] # request[t].id
          /\ cluster' = [cluster EXCEPT !.routers = RemoveAt(@, k)]
          /\ Goto(t, "store")
     \/ request[t].id \notin RouterIds /\ Reply(t) /\ UNCHANGED cluster
  /\ UNCHANGED <<registries, stored, catalog, keyed, history>>

-----------------------------------------------------------------------------
(***************************************************************************)
(* Shards: member_add and _remove                                          *)
(***************************************************************************)
ShardCreate(t, i) ==
  /\ At(t, "shard_create")
  /\ NewServer(i)
  /\ request' = [request EXCEPT ![t].pc = "addShard", ![t].id = i]
  /\ UNCHANGED <<stored, cluster, catalog, keyed, history>>

\* The name is free and the shard is added.
AddShard(t) ==
  /\ At(t, "addShard")
  /\ RouterAnswers
  /\ catalog[request[t].shard] = NoEntry
  /\ catalog' = [catalog EXCEPT ![request[t].shard] =
                   [state |-> "in", id |-> request[t].id]]
  /\ Goto(t, "shard_store")
  /\ UNCHANGED <<registries, stored, cluster, keyed, history>>

\* addShard is refused, or there is no router: the new server stays.
AddShardFails(t) ==
  /\ At(t, "addShard")
  /\ failed' = failed \cup {request[t].id}
  /\ Reply(t)
  /\ UNCHANGED <<registries, stored, cluster, catalog, keyed, behind, unsure,
                 beside>>

\* The answer to a command that was carried out is lost.
AnswerLost(t) ==
  /\ RouterAnswers
  /\ \/ /\ At(t, "addShard")
        /\ catalog[request[t].shard] = NoEntry
        /\ catalog' = [catalog EXCEPT ![request[t].shard] =
                         [state |-> "in", id |-> request[t].id]]
        /\ failed' = failed \cup {request[t].id}
     \/ /\ At(t, "removeShard")
        /\ catalog[request[t].shard].state = "draining"
        /\ catalog' = [catalog EXCEPT ![request[t].shard] = NoEntry]
        /\ UNCHANGED failed
  /\ unsure' = unsure \cup {request[t].shard}
  /\ Reply(t)
  /\ UNCHANGED <<registries, stored, cluster, keyed, behind, beside>>

\* Mutant: the new member is not recorded.
ShardStoreForgets(t) ==
  /\ At(t, "shard_store")
  /\ Goto(t, "store")
  /\ UNCHANGED <<registries, stored, cluster, catalog, keyed, history>>

\* self._shards[result['shardAdded']] = ...
ShardStore(t) ==
  /\ At(t, "shard_store")
  /\ cluster' = [cluster EXCEPT !.shards[request[t].shard] = request[t].id]
  /\ Goto(t, "store")
  /\ UNCHANGED <<registries, stored, catalog, keyed, history>>

\* removeShard begins to drain the shard: 'started'.
DrainStarts(t) ==
  /\ At(t, "removeShard")
  /\ RouterAnswers
  /\ catalog[request[t].shard].state = "in"
  /\ catalog' = [catalog EXCEPT ![request[t].shard].state = "draining"]
  /\ Goto(t, "store")
  /\ UNCHANGED <<registries, stored, cluster, keyed, history>>

\* Mutant: the state in the answer is not looked at.
DrainGoesOnAnyway(t) ==
  /\ At(t, "removeShard")
  /\ RouterAnswers
  /\ catalog[request[t].shard].state = "draining"
  /\ Goto(t, "shard_pop")
  /\ UNCHANGED <<registries, stored, cluster, catalog, keyed, history>>

\* The chunks are not gone yet: 'ongoing'.
DrainGoesOn(t) ==
  /\ At(t, "removeShard")
  /\ RouterAnswers
  /\ catalog[request[t].shard].state = "draining"
  /\ Goto(t, "store")
  /\ UNCHANGED <<registries, stored, cluster, catalog, keyed, history>>

\* 'completed'
DrainEnds(t) ==
  /\ At(t, "removeShard")
  /\ RouterAnswers
  /\ catalog[request[t].shard].state = "draining"
  /\ catalog' = [catalog EXCEPT ![request[t].shard] = NoEntry]
  /\ Goto(t, "shard_pop")
  /\ UNCHANGED <<registries, stored, cluster, keyed, history>>

\* Mutant: pop(shard_name, None)
ShardPopAny(t) ==
  /\ At(t, "shard_pop")
  /\ LET i == cluster.shards[request[t].shard] IN
       /\ cluster' = [cluster EXCEPT !.shards[request[t].shard] = NoId]
       /\ request' = [request EXCEPT ![t].pc = "shard_remove", ![t].id = i]
  /\ UNCHANGED <<registries, stored, catalog, keyed, history>>

\* self._shards.pop(shard_name), or KeyError.
ShardPop(t) ==
  /\ At(t, "shard_pop")
  /\ LET i == cluster.shards[request[t].shard] IN
       IF i = NoId THEN Reply(t) /\ UNCHANGED cluster
       ELSE /\ cluster' = [cluster EXCEPT !.shards[request[t].shard] = NoId]
            /\ request' = [request EXCEPT ![t].pc = "shard_remove", ![t].id = i]
  /\ UNCHANGED <<registries, stored, catalog, keyed, history>>

\* Servers.remove, or KeyError.
ShardRemove(t) ==
  /\ At(t, "shard_remove")
  /\ servers' = servers \ {request[t].id}
  /\ IF request[t].id \in servers THEN Goto(t, "store") ELSE Reply(t)
  /\ UNCHANGED <<replica_sets, made, stored, cluster, catalog, keyed, history>>

-----------------------------------------------------------------------------
(***************************************************************************)
(* ShardedCluster.cleanup                                                  *)
(***************************************************************************)
\* The loop over _shards.items(): names are those it has seen, n is the size
\* of the dictionary when it began.
SubmitShard(t) ==
  /\ At(t, "cleanup_shards")
  /\ LET left == Names \ request[t].names IN
       \/ /\ Cardinality(Names) = request[t].n
          /\ \E m \in left : request' = [request EXCEPT
               ![t].names = @ \cup {m},
               ![t].futures = @ \cup {cluster.shards[m]}]
       \/ /\ Cardinality(Names) = request[t].n /\ left = {}
          /\ request' = [request EXCEPT ![t].pc = "cleanup_routers",
                                        ![t].names = {}, ![t].n = 0]
       \/ /\ Cardinality(Names) # request[t].n
          /\ request' = [request EXCEPT ![t].pc = "cleanup_wait",
                                        ![t].names = {}, ![t].err = TRUE]
  /\ UNCHANGED <<registries, stored, cluster, catalog, keyed, history>>

\* The loop over the list of the routers, by position.
SubmitRouter(t) ==
  /\ At(t, "cleanup_routers")
  /\ IF request[t].n < Len(cluster.routers)
     THEN request' = [request EXCEPT
            ![t].n = @ + 1,
            ![t].futures = @ \cup {cluster.routers[request[t].n + 1]}]
     ELSE Goto(t, "cleanup_config")
  /\ UNCHANGED <<registries, stored, cluster, catalog, keyed, history>>

SubmitConfig(t) ==
  /\ At(t, "cleanup_config")
  /\ request' = [request EXCEPT ![t].pc = "cleanup_wait",
                                ![t].futures = @ \cup cluster.configsvrs]
  /\ UNCHANGED <<registries, stored, cluster, catalog, keyed, history>>

\* A future: remove() of one of the registries, which raises KeyError when the
\* id is not there, and may raise after the pop.
FutureRemove(t, i, err) ==
  /\ request[t].pc \in Cleaning
  /\ i \in request[t].futures
  /\ i \notin Registered => err
  /\ servers' = servers \ {i}
  /\ replica_sets' = replica_sets \ {i}
  /\ request' = [request EXCEPT ![t].futures = @ \ {i}, ![t].err = @ \/ err]
  /\ UNCHANGED <<made, stored, cluster, catalog, keyed, history>>

\* Mutant: the first error ends cleanup.
CleanupEndsEarly(t) ==
  /\ At(t, "cleanup_wait")
  /\ request[t].futures = {} \/ request[t].err
  /\ cluster' = IF request[t].err THEN cluster
                ELSE [cluster EXCEPT !.configsvrs = {}, !.routers = <<>>,
                                     !.shards = [n \in Shard |-> NoId]]
  /\ Reply(t)
  /\ UNCHANGED <<registries, stored, catalog, keyed, history>>

\* All futures have ended: the lists are emptied, unless one raised.
CleanupEnds(t) ==
  /\ At(t, "cleanup_wait")
  /\ request[t].futures = {}
  /\ cluster' = IF request[t].err THEN cluster
                ELSE [cluster EXCEPT !.configsvrs = {}, !.routers = <<>>,
                                     !.shards = [n \in Shard |-> NoId]]
  /\ Reply(t)
  /\ UNCHANGED <<registries, stored, catalog, keyed, history>>

-----------------------------------------------------------------------------
Receive(t) ==
  \/ \E l \in BOOLEAN, r \in 0..MaxRouters, s \in SUBSET Shard :
       Create(t, l, r, s)
  \/ AddRouter(t)
  \/ \E i \in Id : DelRouter(t, i)
  \/ \E n \in Shard, l \in {"shard_create", "removeShard"} : OfShard(t, n, l)
  \/ Delete(t)

Step(t) ==
  \/ CreateFails(t) \/ NextPhase(t) \/ InitRouterFails(t) \/ Users(t)
  \/ Register(t)
  \/ \E i \in Id : InitConfigrs(t, i) \/ InitRouter(t, i)
  \/ \E n \in Shard, i \in Id : InitShard(t, n, i)
  \/ \E n \in Shard : InitShardFails(t, n)
  \/ \E i \in Id : Restart(t, i) \/ RestartFails(t, i)
  \/ \E i \in Id : RouterCreate(t, i) \/ ShardCreate(t, i)
  \/ RaiseEarly(t) \/ RouterAppend(t) \/ RouterRemove(t) \/ RouterForget(t)
  \/ AddShard(t) \/ AddShardFails(t) \/ AnswerLost(t) \/ ShardStore(t)
  \/ DrainStarts(t) \/ DrainGoesOn(t) \/ DrainEnds(t)
  \/ ShardPop(t) \/ ShardRemove(t) \/ Store(t)
  \/ SubmitShard(t) \/ SubmitRouter(t) \/ SubmitConfig(t)
  \/ \E i \in Id, err \in BOOLEAN : FutureRemove(t, i, err)
  \/ CleanupEnds(t)

Next ==
  \/ \E t \in Thread : Receive(t) \/ Step(t)
  \/ \E i \in Id : RemoveBehind(i)

Spec == Init /\ [][Next]_vars

-----------------------------------------------------------------------------
(***************************************************************************)
(* Properties.                                                             *)
(***************************************************************************)
InHand == {request[t].id : t \in Thread} \cup
          UNION {request[t].futures : t \in Thread}

Building   == \E t \in Thread : request[t].pc \in Creating
Submitting == \E t \in Thread : request[t].pc \in Cleaning \ {"cleanup_wait"}

\* Whatever was made for the cluster and is still registered can be reached
\* through the cluster, or a request is at work on it; the exceptions are what
\* a request made before it raised, and shards whose answers were lost.  After
\* a DELETE, also one that fails, nothing else is left (member_add, cleanup).
NothingLost ==
  unsure = {} /\ ~beside =>
    \A i \in Registered \ failed :
      \/ i \in Held /\ (stored \/ Submitting)
      \/ Building
      \/ i \in InHand

\* What the cluster holds is in one of the registries, unless somebody removed
\* it there, be it through router_remove, which takes any server; no request
\* leaves an id behind, until one overlaps a DELETE (router_remove, _remove).
HeldExist ==
  stored /\ ~beside => Held \subseteq Registered \cup InHand \cup behind

\* Between requests the shards of the cluster are those of the catalog, but for
\* a shard whose answer was lost or that two requests addressed at once
\* (member_add, _remove).
CatalogAgrees ==
  stored /\ ~beside =>
    \A n \in Shard \ unsure :
      \/ catalog[n].id = cluster.shards[n]
      \/ \E t \in Thread : request[t].shard = n

\* The server of a shard is not removed while its data may still be needed:
\* no shard of the catalog is on it; but for a shard whose answer was lost or
\* that two requests addressed at once (_remove).
DrainedFirst ==
  \A t \in Thread, n \in Shard \ unsure :
    At(t, "shard_remove") => catalog[n].id # request[t].id

\* A cluster with a login is registered when everything it holds has been
\* restarted with the keyFile, all of it (ShardedCluster.__init__).
RegisteredSecured ==
  [][\A t \in Thread :
       At(t, "register") /\ request'[t].pc = "idle" /\ cluster.login
         => Held \subseteq keyed]_vars
=============================================================================
