------------------------ MODULE ShardedClusterProofs ------------------------
(***************************************************************************)
(* Theorems about ShardedCluster, for any number of ids, shards, worker    *)
(* threads, overlapping requests and removals behind the cluster's back.   *)
(***************************************************************************)
EXTENDS ShardedCluster, SequenceLemmas, FiniteSetTheorems, TLAPS

-----------------------------------------------------------------------------
(***************************************************************************)
(* Types.                                                                  *)
(***************************************************************************)
\* A request that works on an id or on a shard has one.
Ready(r) == /\ r \in Request
            /\ r.pc \in WithId => r.id \in Id
            /\ r.pc \in OnShard => r.shard \in Shard

RequestOK ==
  /\ request \in [Thread -> Request]
  /\ \A t \in Thread : Ready(request[t])

StateOK ==
  /\ servers \in SUBSET Id /\ replica_sets \in SUBSET Id /\ made \in SUBSET Id
  /\ stored \in BOOLEAN /\ beside \in BOOLEAN
  /\ cluster \in Cluster
  /\ catalog \in [Shard -> Entry]
  /\ keyed \in SUBSET Id
  /\ failed \in SUBSET Id /\ behind \in SUBSET Id /\ unsure \in SUBSET Shard

\* There may be any number of names, of which the cluster has finitely many.
TypeInv == RequestOK /\ StateOK /\ IsFiniteSet(Names)

\* Every label the code has.
LEMMA Labels ==
  /\ "idle" \in Label
  /\ "store" \in Label
  /\ "configrs" \in Label
  /\ "routers" \in Label
  /\ "shards" \in Label
  /\ "users" \in Label
  /\ "restart" \in Label
  /\ "register" \in Label
  /\ "cleanup_shards" \in Label
  /\ "cleanup_routers" \in Label
  /\ "cleanup_config" \in Label
  /\ "cleanup_wait" \in Label
  /\ "shard_create" \in Label
  /\ "addShard" \in Label
  /\ "shard_store" \in Label
  /\ "removeShard" \in Label
  /\ "shard_pop" \in Label
  /\ "shard_remove" \in Label
  /\ "router_create" \in Label
  /\ "router_append" \in Label
  /\ "router_remove" \in Label
  /\ "router_forget" \in Label
BY DEF Label, Creating, Cleaning, OnShard, OnRouter

LEMMA InitTypeInv == Init => TypeInv
<1> SUFFICES ASSUME Init
             PROVE  TypeInv
  OBVIOUS
<1>1. "idle" \notin WithId \cup OnShard
  BY DEF WithId, OnShard
<1>2. Ready(Idle)
  BY <1>1, Labels DEF Ready, Idle, Request
<1>3. RequestOK
  BY <1>2 DEF Init, RequestOK, Ready
<1>4. cluster \in Cluster
  BY DEF Init, Cluster
<1>5. catalog \in [Shard -> Entry]
  BY DEF Init, Entry, NoEntry
<1>6. Names = {}
  BY DEF Init, Names
<1>7. QED
  BY <1>3, <1>4, <1>5, <1>6, FS_EmptySet DEF Init, TypeInv, StateOK

LEMMA OneRequest ==
  ASSUME RequestOK, NEW t \in Thread, NEW r, Ready(r),
         request' = [request EXCEPT ![t] = r]
  PROVE  RequestOK'
BY DEF RequestOK, Ready

LEMMA GotoOK ==
  ASSUME RequestOK, NEW t \in Thread, NEW label \in Label, Goto(t, label),
         label \in WithId => request[t].id \in Id,
         label \in OnShard => request[t].shard \in Shard
  PROVE  RequestOK'
<1> DEFINE r == [request[t] EXCEPT !.pc = label]
<1>1. r \in Request /\ r.pc = label /\ r.id = request[t].id
        /\ r.shard = request[t].shard
  BY DEF RequestOK, Request
<1>2. request' = [request EXCEPT ![t] = r]
  BY DEF Goto
<1>3. QED
  BY <1>1, <1>2, OneRequest DEF Ready

LEMMA ReplyOK ==
  ASSUME RequestOK, NEW t \in Thread, Reply(t)
  PROVE  RequestOK'
<1>1. "idle" \notin WithId \cup OnShard
  BY DEF WithId, OnShard
<1>2. Ready(Idle)
  BY <1>1, Labels DEF Ready, Idle, Request
<1>3. QED
  BY <1>2, OneRequest DEF Reply

LEMMA NextRequestOK ==
  ASSUME TypeInv, [Next]_vars
  PROVE  RequestOK'
<1>1. /\ RequestOK
      /\ cluster.routers \in Seq(Id) /\ cluster.configsvrs \in SUBSET Id
      /\ cluster.shards \in [Shard -> Id \cup {NoId}]
      /\ Cardinality(Names) \in Nat
  BY FS_CardinalityType DEF TypeInv, StateOK, Cluster
<1>2. /\ OnShard \subseteq Label /\ OnRouter \subseteq Label
      /\ Creating \subseteq Label /\ Cleaning \subseteq Label
  BY DEF Label
<1> USE <1>1, <1>2, Labels
<1>3. ASSUME NEW t \in Thread,
             CreateFails(t) \/ Register(t) \/ RaiseEarly(t) \/ AddShardFails(t)
               \/ AnswerLost(t) \/ Store(t) \/ CleanupEnds(t)
      PROVE  RequestOK'
  <2>1. Reply(t)
    BY <1>3 DEF CreateFails, Register, RaiseEarly, AddShardFails, AnswerLost,
       Store, CleanupEnds
  <2>2. QED
    BY <2>1, ReplyOK
<1>4. ASSUME NEW t \in Thread,
             AddRouter(t) \/ NextPhase(t) \/ DrainGoesOn(t) \/ DrainStarts(t)
               \/ ShardStore(t)
      PROVE  RequestOK'
  <2>1. \E l \in {"router_create", "shards", "users", "register", "store"} :
          Goto(t, l)
    BY <1>4 DEF AddRouter, NextPhase, DrainGoesOn, DrainStarts, ShardStore,
       PhaseEnds, At
  <2>2. QED
    BY <2>1, GotoOK DEF WithId, OnShard
<1>5. ASSUME NEW t \in Thread,
             RouterRemove(t) \/ RouterAppend(t) \/ RouterForget(t)
               \/ ShardRemove(t)
      PROVE  RequestOK'
  <2>1. CASE Reply(t)
    BY <2>1, ReplyOK
  <2>2. CASE ~Reply(t)
    <3>1. \/ Goto(t, "store")
          \/ At(t, "router_remove") /\ Goto(t, "router_forget")
      BY <1>5, <2>2 DEF RouterRemove, RouterAppend, RouterForget, ShardRemove
    <3>2. QED
      BY <3>1, GotoOK DEF WithId, OnShard, RequestOK, Ready, At
  <2>3. QED
    BY <2>1, <2>2
<1>6. ASSUME NEW t \in Thread, AddShard(t) \/ DrainEnds(t)
      PROVE  RequestOK'
  BY <1>6, GotoOK DEF AddShard, DrainEnds, WithId, OnShard, RequestOK, Ready, At
<1>7. ASSUME NEW t \in Thread, NEW l \in BOOLEAN, NEW k \in 0..MaxRouters,
             NEW s \in SUBSET Shard, Create(t, l, k, s)
      PROVE  RequestOK'
  <2> DEFINE r == [request[t] EXCEPT !.pc = "configrs", !.n = k, !.names = s]
  <2>1. request' = [request EXCEPT ![t] = r]
    BY <1>7 DEF Create
  <2>2. k \in Nat
    BY ShardedClusterAssumption
  <2>3. Ready(r)
    BY <1>7, <2>2 DEF Create, Ready, RequestOK, Request, WithId, OnShard, At
  <2>4. QED
    BY <2>1, <2>3, OneRequest
<1>8. ASSUME NEW t \in Thread, NEW i \in Id, DelRouter(t, i)
      PROVE  RequestOK'
  <2> DEFINE r == [request[t] EXCEPT !.pc = "router_remove", !.id = i]
  <2>1. request' = [request EXCEPT ![t] = r]
    BY <1>8 DEF DelRouter
  <2>2. Ready(r)
    BY <1>8 DEF DelRouter, Ready, RequestOK, Request, WithId, OnShard, At
  <2>3. QED
    BY <2>1, <2>2, OneRequest
<1>9. ASSUME NEW t \in Thread, NEW n \in Shard,
             NEW l \in {"shard_create", "removeShard"}, OfShard(t, n, l)
      PROVE  RequestOK'
  <2> DEFINE r == [request[t] EXCEPT !.pc = l, !.shard = n]
  <2>1. request' = [request EXCEPT ![t] = r]
    BY <1>9 DEF OfShard
  <2>2. Ready(r)
    BY <1>9 DEF OfShard, Ready, RequestOK, Request, WithId, OnShard, At
  <2>3. QED
    BY <2>1, <2>2, OneRequest
<1>10. ASSUME NEW t \in Thread, Delete(t)
      PROVE  RequestOK'
  <2> DEFINE r == [request[t] EXCEPT !.pc = "cleanup_shards",
                             !.n = Cardinality(Names)]
  <2>1. request' = [request EXCEPT ![t] = r]
    BY <1>10 DEF Delete
  <2>2. Ready(r)
    BY <1>10 DEF Delete, Ready, RequestOK, Request, WithId, OnShard, At
  <2>3. QED
    BY <2>1, <2>2, OneRequest
<1>11. ASSUME NEW t \in Thread, NEW i \in Id, InitRouter(t, i)
      PROVE  RequestOK'
  <2> DEFINE r == [request[t] EXCEPT !.n = @ - 1]
  <2>1. request' = [request EXCEPT ![t] = r]
    BY <1>11 DEF InitRouter
  <2>2. request[t].n - 1 \in Nat
    BY <1>11 DEF InitRouter, RequestOK, Ready, Request
  <2>3. Ready(r)
    BY <1>11, <2>2 DEF InitRouter, Ready, RequestOK, Request, WithId, OnShard, At
  <2>4. QED
    BY <2>1, <2>3, OneRequest
<1>12. ASSUME NEW t \in Thread, InitRouterFails(t)
      PROVE  RequestOK'
  <2> DEFINE r == [request[t] EXCEPT !.n = @ - 1, !.err = TRUE]
  <2>1. request' = [request EXCEPT ![t] = r]
    BY <1>12 DEF InitRouterFails
  <2>2. request[t].n - 1 \in Nat
    BY <1>12 DEF InitRouterFails, RequestOK, Ready, Request
  <2>3. Ready(r)
    BY <1>12, <2>2 DEF InitRouterFails, Ready, RequestOK, Request, WithId, OnShard, At
  <2>4. QED
    BY <2>1, <2>3, OneRequest
<1>13. ASSUME NEW t \in Thread, NEW n \in Shard, NEW i \in Id, InitShard(t, n, i)
      PROVE  RequestOK'
  <2> DEFINE r == [request[t] EXCEPT !.names = @ \ {n}]
  <2>1. request' = [request EXCEPT ![t] = r]
    BY <1>13 DEF InitShard
  <2>2. Ready(r)
    BY <1>13 DEF InitShard, Ready, RequestOK, Request, WithId, OnShard, At
  <2>3. QED
    BY <2>1, <2>2, OneRequest
<1>14. ASSUME NEW t \in Thread, NEW n \in Shard, InitShardFails(t, n)
      PROVE  RequestOK'
  <2> DEFINE r == [request[t] EXCEPT !.names = @ \ {n}, !.err = TRUE]
  <2>1. request' = [request EXCEPT ![t] = r]
    BY <1>14 DEF InitShardFails
  <2>2. Ready(r)
    BY <1>14 DEF InitShardFails, Ready, RequestOK, Request, WithId, OnShard, At
  <2>3. QED
    BY <2>1, <2>2, OneRequest
<1>15. ASSUME NEW t \in Thread, Users(t)
      PROVE  RequestOK'
  <2> DEFINE r == [request[t] EXCEPT !.pc = "restart", !.futures = Held]
  <2>1. request' = [request EXCEPT ![t] = r]
    BY <1>15 DEF Users
  <2>2. Held \in SUBSET Id
    BY DEF Held, RouterIds, ShardIds
  <2>3. Ready(r)
    BY <1>15, <2>2 DEF Users, Ready, RequestOK, Request, WithId, OnShard, At
  <2>4. QED
    BY <2>1, <2>3, OneRequest
<1>16. ASSUME NEW t \in Thread, NEW i \in Id, Restart(t, i)
      PROVE  RequestOK'
  <2> DEFINE r == [request[t] EXCEPT !.futures = @ \ {i}]
  <2>1. request' = [request EXCEPT ![t] = r]
    BY <1>16 DEF Restart
  <2>2. Ready(r)
    BY <1>16 DEF Restart, Ready, RequestOK, Request, WithId, OnShard, At
  <2>3. QED
    BY <2>1, <2>2, OneRequest
<1>17. ASSUME NEW t \in Thread, NEW i \in Id, RestartFails(t, i)
      PROVE  RequestOK'
  <2> DEFINE r == [request[t] EXCEPT !.futures = @ \ {i}, !.err = TRUE]
  <2>1. request' = [request EXCEPT ![t] = r]
    BY <1>17 DEF RestartFails
  <2>2. Ready(r)
    BY <1>17 DEF RestartFails, Ready, RequestOK, Request, WithId, OnShard, At
  <2>3. QED
    BY <2>1, <2>2, OneRequest
<1>18. ASSUME NEW t \in Thread, NEW i \in Id, RouterCreate(t, i)
      PROVE  RequestOK'
  <2> DEFINE r == [request[t] EXCEPT !.pc = "router_append", !.id = i]
  <2>1. request' = [request EXCEPT ![t] = r]
    BY <1>18 DEF RouterCreate
  <2>2. Ready(r)
    BY <1>18 DEF RouterCreate, Ready, RequestOK, Request, WithId, OnShard, At
  <2>3. QED
    BY <2>1, <2>2, OneRequest
<1>19. ASSUME NEW t \in Thread, NEW i \in Id, ShardCreate(t, i)
      PROVE  RequestOK'
  <2> DEFINE r == [request[t] EXCEPT !.pc = "addShard", !.id = i]
  <2>1. request' = [request EXCEPT ![t] = r]
    BY <1>19 DEF ShardCreate
  <2>2. Ready(r)
    BY <1>19 DEF ShardCreate, Ready, RequestOK, Request, WithId, OnShard, At
  <2>3. QED
    BY <2>1, <2>2, OneRequest
<1>20. ASSUME NEW t \in Thread, NEW i \in Id, InitConfigrs(t, i)
       PROVE  RequestOK'
  BY <1>20, GotoOK DEF InitConfigrs, WithId, OnShard
<1>21. ASSUME NEW t \in Thread, ShardPop(t)
       PROVE  RequestOK'
  <2> DEFINE i == cluster.shards[request[t].shard]
             r == [request[t] EXCEPT !.pc = "shard_remove", !.id = i]
  <2>1. CASE Reply(t)
    BY <2>1, ReplyOK
  <2>2. CASE ~Reply(t)
    <3>1. i # NoId /\ request' = [request EXCEPT ![t] = r]
      BY <1>21, <2>2 DEF ShardPop
    <3>2. request[t] \in Request /\ request[t].shard \in Shard
      BY <1>21 DEF ShardPop, At, RequestOK, Ready, OnShard
    <3>3. i \in Id
      BY <3>1, <3>2
    <3>4. Ready(r)
      BY <3>2, <3>3 DEF Ready, Request
    <3>5. QED
      BY <3>1, <3>4, OneRequest
  <2>3. QED
    BY <2>1, <2>2
<1>22. ASSUME NEW t \in Thread, SubmitConfig(t)
      PROVE  RequestOK'
  <2> DEFINE r == [request[t] EXCEPT !.pc = "cleanup_wait",
                             !.futures = @ \cup cluster.configsvrs]
  <2>1. request' = [request EXCEPT ![t] = r]
    BY <1>22 DEF SubmitConfig
  <2>2. Ready(r)
    BY <1>22 DEF SubmitConfig, Ready, RequestOK, Request, WithId, OnShard, At
  <2>3. QED
    BY <2>1, <2>2, OneRequest
<1>23. ASSUME NEW t \in Thread, SubmitRouter(t)
       PROVE  RequestOK'
  <2> DEFINE i == cluster.routers[request[t].n + 1]
             r == [request[t] EXCEPT !.n = @ + 1, !.futures = @ \cup {i}]
  <2>1. CASE request[t].n < Len(cluster.routers)
    <3>1. request' = [request EXCEPT ![t] = r]
      BY <1>23, <2>1 DEF SubmitRouter
    <3>2. request[t] \in Request /\ request[t].n \in Nat
      BY DEF RequestOK, Ready, Request
    <3>3. i \in Id /\ request[t].n + 1 \in Nat
      BY <2>1, <3>2
    <3>4. Ready(r)
      BY <1>23, <3>2, <3>3 DEF SubmitRouter, At, Ready, Request, WithId, OnShard
    <3>5. QED
      BY <3>1, <3>4, OneRequest
  <2>2. CASE ~(request[t].n < Len(cluster.routers))
    BY <1>23, <2>2, GotoOK DEF SubmitRouter, WithId, OnShard
  <2>3. QED
    BY <2>1, <2>2
<1>24. ASSUME NEW t \in Thread, NEW i \in Id, NEW err \in BOOLEAN,
              FutureRemove(t, i, err)
      PROVE  RequestOK'
  <2> DEFINE r == [request[t] EXCEPT !.futures = @ \ {i}, !.err = @ \/ err]
  <2>1. request' = [request EXCEPT ![t] = r]
    BY <1>24 DEF FutureRemove
  <2>2. Ready(r)
    BY <1>24 DEF FutureRemove, Ready, RequestOK, Request, WithId, OnShard, At
  <2>3. QED
    BY <2>1, <2>2, OneRequest
<1>25. ASSUME NEW t \in Thread, SubmitShard(t)
       PROVE  RequestOK'
  <2> DEFINE next == [request[t] EXCEPT !.pc = "cleanup_routers",
                                        !.names = {}, !.n = 0]
             stop == [request[t] EXCEPT !.pc = "cleanup_wait", !.names = {},
                                        !.err = TRUE]
             more(m) == [request[t] EXCEPT
                           !.names = @ \cup {m},
                           !.futures = @ \cup {cluster.shards[m]}]
  <2>1. \/ \E m \in Names : request' = [request EXCEPT ![t] = more(m)]
        \/ request' = [request EXCEPT ![t] = next]
        \/ request' = [request EXCEPT ![t] = stop]
    BY <1>25 DEF SubmitShard
  <2>2. Ready(next) /\ Ready(stop)
    BY DEF Ready, RequestOK, Request, WithId, OnShard
  <2>3. ASSUME NEW m \in Names
        PROVE  Ready(more(m))
    <3>1. m \in Shard /\ cluster.shards[m] \in Id
      BY DEF Names
    <3>2. QED
      BY <1>25, <3>1 DEF SubmitShard, At, Ready, RequestOK, Request, WithId,
         OnShard
  <2>4. QED
    BY <2>1, <2>2, <2>3, OneRequest
<1>26. ASSUME UNCHANGED request
       PROVE  RequestOK'
  BY <1>26 DEF RequestOK
<1>27. QED
  BY <1>3, <1>4, <1>5, <1>6, <1>7, <1>8, <1>9, <1>10, <1>11, <1>12, <1>13,
     <1>14, <1>15, <1>16, <1>17, <1>18, <1>19, <1>20, <1>21, <1>22, <1>23,
     <1>24, <1>25, <1>26 DEF Next, Receive, Step, RemoveBehind, vars

\* The rest keeps its type.
LEMMA NextStateOK ==
  ASSUME TypeInv, [Next]_vars
  PROVE  StateOK'
<1>1. StateOK /\ RequestOK
  BY DEF TypeInv
<1>2. \A t \in Thread : Ready(request[t])
  BY <1>1 DEF RequestOK
<1> USE <1>1 DEF StateOK, registries, history
<1>3. ASSUME NEW t \in Thread, Receive(t)
      PROVE  StateOK'
  <2>1. ASSUME NEW l \in BOOLEAN, NEW r \in 0..MaxRouters,
               NEW s \in SUBSET Shard, Create(t, l, r, s)
        PROVE  StateOK'
    BY <2>1 DEF Create, Cluster
  <2>2. ASSUME NEW n \in Shard, NEW l \in {"shard_create", "removeShard"},
               OfShard(t, n, l)
        PROVE  StateOK'
    BY <2>2 DEF OfShard, Address
  <2>3. QED
    BY <1>3, <2>1, <2>2 DEF Receive, AddRouter, DelRouter, Address, Delete
<1>4. ASSUME NEW t \in Thread,
             CreateFails(t) \/ NextPhase(t) \/ InitRouterFails(t) \/ Users(t)
               \/ Register(t) \/ RaiseEarly(t) \/ DrainGoesOn(t) \/ Store(t)
               \/ SubmitShard(t) \/ SubmitRouter(t) \/ SubmitConfig(t)
      PROVE  StateOK'
  BY <1>4 DEF CreateFails, NextPhase, InitRouterFails, Users, Register,
     RaiseEarly, DrainGoesOn, Store, SubmitShard, SubmitRouter, SubmitConfig
<1>5. ASSUME NEW t \in Thread, NEW i \in Id, InitConfigrs(t, i)
      PROVE  StateOK'
  BY <1>5 DEF InitConfigrs, Cluster
<1>6. ASSUME NEW t \in Thread, NEW i \in Id, InitRouter(t, i)
      PROVE  StateOK'
  <2>1. cluster' \in Cluster
    BY <1>6, AppendLast DEF InitRouter, Cluster
  <2>2. QED
    BY <1>6, <2>1 DEF InitRouter, NewServer
<1>7. ASSUME NEW t \in Thread, NEW n \in Shard, NEW i \in Id,
             InitShard(t, n, i)
      PROVE  StateOK'
  <2>1. cluster' \in Cluster
    BY <1>7 DEF InitShard, Cluster
  <2>2. catalog' \in [Shard -> Entry]
    BY <1>7 DEF InitShard, Entry
  <2>3. QED
    BY <1>7, <2>1, <2>2 DEF InitShard, NewServer
<1>8. ASSUME NEW t \in Thread, NEW n \in Shard, InitShardFails(t, n)
      PROVE  StateOK'
  BY <1>8 DEF InitShardFails, NewServer
<1>9. ASSUME NEW t \in Thread, NEW i \in Id,
             Restart(t, i) \/ RestartFails(t, i)
               \/ RouterCreate(t, i) \/ ShardCreate(t, i)
      PROVE  StateOK'
  BY <1>9 DEF Restart, RestartFails, RouterCreate, ShardCreate, NewServer
<1>10. ASSUME NEW t \in Thread, RouterRemove(t) \/ ShardRemove(t)
       PROVE  StateOK'
  <2>1. request[t].id \in Id
    BY <1>2, <1>10 DEF RouterRemove, ShardRemove, At, Ready, WithId
  <2>2. QED
    BY <1>10, <2>1 DEF RouterRemove, ShardRemove
<1>11. ASSUME NEW t \in Thread, RouterAppend(t)
       PROVE  StateOK'
  <2>1. request[t].id \in Id
    BY <1>2, <1>11 DEF RouterAppend, At, Ready, WithId
  <2>2. cluster' \in Cluster
    BY <1>11, <2>1, AppendLast DEF RouterAppend, Cluster
  <2>3. QED
    BY <1>11, <2>2 DEF RouterAppend
<1>12. ASSUME NEW t \in Thread, RouterForget(t)
       PROVE  StateOK'
  <2>1. ASSUME NEW k \in 1..Len(cluster.routers),
               cluster' = [cluster EXCEPT !.routers = RemoveAt(@, k)]
        PROVE  cluster' \in Cluster
    <3>1. cluster.routers \in Seq(Id)
      BY DEF Cluster
    <3>2. RemoveAt(cluster.routers, k) \in Seq(Id)
      BY <3>1, RemoveAtProperties
    <3>3. QED
      BY <2>1, <3>2 DEF Cluster
  <2>2. cluster' \in Cluster
    BY <1>12, <2>1 DEF RouterForget
  <2>3. QED
    BY <1>12, <2>2 DEF RouterForget
<1>13. ASSUME NEW t \in Thread, AddShardFails(t)
       PROVE  StateOK'
  BY <1>2, <1>13 DEF AddShardFails, At, Ready, WithId
<1>14. ASSUME NEW t \in Thread,
              AddShard(t) \/ AnswerLost(t) \/ DrainStarts(t) \/ DrainEnds(t)
       PROVE  StateOK'
  <2>1. request[t].shard \in Shard /\ (At(t, "addShard") => request[t].id \in Id)
    BY <1>2, <1>14 DEF AddShard, AnswerLost, DrainStarts, DrainEnds, At, Ready,
       WithId, OnShard
  <2>2. catalog' \in [Shard -> Entry]
    BY <1>14, <2>1 DEF AddShard, AnswerLost, DrainStarts, DrainEnds, Entry,
       NoEntry
  <2>3. QED
    BY <1>14, <2>1, <2>2 DEF AddShard, AnswerLost, DrainStarts, DrainEnds
<1>15. ASSUME NEW t \in Thread, ShardStore(t) \/ ShardPop(t)
       PROVE  StateOK'
  <2>1. At(t, "shard_store") => request[t].id \in Id
    BY <1>2 DEF At, Ready, WithId
  <2>2. cluster' \in Cluster
    BY <1>15, <2>1 DEF ShardStore, ShardPop, Cluster
  <2>3. QED
    BY <1>15, <2>2 DEF ShardStore, ShardPop
<1>16. ASSUME NEW t \in Thread, NEW i \in Id, NEW err \in BOOLEAN,
              FutureRemove(t, i, err)
       PROVE  StateOK'
  BY <1>16 DEF FutureRemove
<1>17. ASSUME NEW t \in Thread, CleanupEnds(t)
       PROVE  StateOK'
  BY <1>17, EmptySeq DEF CleanupEnds, Cluster
<1>18. ASSUME NEW i \in Id, RemoveBehind(i)
       PROVE  StateOK'
  BY <1>18 DEF RemoveBehind
<1>19. CASE UNCHANGED vars
  BY <1>19 DEF vars
<1>20. QED
  BY <1>3, <1>4, <1>5, <1>6, <1>7, <1>8, <1>9, <1>10, <1>11, <1>12, <1>13,
     <1>14, <1>15, <1>16, <1>17, <1>18, <1>19 DEF Next, Step

\* The shards change one at a time, or all go.
LEMMA ShardsChange ==
  ASSUME TypeInv, [Next]_vars
  PROVE  \/ cluster'.shards = cluster.shards
         \/ cluster'.shards = [n \in Shard |-> NoId]
         \/ \E n \in Shard, i \in Id \cup {NoId} :
              cluster'.shards = [cluster.shards EXCEPT ![n] = i]
<1> DEFINE Same == cluster'.shards = cluster.shards
           One(n, i) == cluster'.shards = [cluster.shards EXCEPT ![n] = i]
<1>1. /\ DOMAIN cluster = {"login", "configsvrs", "routers", "shards"}
      /\ \A t \in Thread : Ready(request[t])
  BY DEF TypeInv, RequestOK, StateOK, Cluster
<1>2. ASSUME NEW t \in Thread, Receive(t)
      PROVE  Same
  BY <1>1, <1>2 DEF Receive, Create, AddRouter, DelRouter, OfShard, Address,
     Delete
<1>3. ASSUME NEW t \in Thread,
             CreateFails(t) \/ NextPhase(t) \/ InitRouterFails(t) \/ Users(t)
               \/ Register(t) \/ RaiseEarly(t) \/ DrainGoesOn(t) \/ Store(t)
               \/ SubmitShard(t) \/ SubmitRouter(t) \/ SubmitConfig(t)
               \/ RouterRemove(t) \/ ShardRemove(t) \/ RouterAppend(t)
               \/ RouterForget(t) \/ AddShard(t) \/ AddShardFails(t)
               \/ AnswerLost(t) \/ DrainStarts(t) \/ DrainEnds(t)
      PROVE  Same
  BY <1>1, <1>3 DEF CreateFails, NextPhase, InitRouterFails, Users, Register,
     RaiseEarly, DrainGoesOn, Store, SubmitShard, SubmitRouter, SubmitConfig,
     RouterRemove, ShardRemove, RouterAppend, RouterForget, AddShard,
     AddShardFails, AnswerLost, DrainStarts, DrainEnds
<1>4. ASSUME NEW t \in Thread, NEW i \in Id,
             InitConfigrs(t, i) \/ InitRouter(t, i) \/ Restart(t, i)
               \/ RestartFails(t, i) \/ RouterCreate(t, i)
               \/ ShardCreate(t, i)
      PROVE  Same
  BY <1>1, <1>4 DEF InitConfigrs, InitRouter, Restart, RestartFails,
     RouterCreate, ShardCreate
<1>5. ASSUME NEW t \in Thread, NEW n \in Shard, NEW i \in Id, InitShard(t, n, i)
      PROVE  One(n, i)
  BY <1>1, <1>5 DEF InitShard
<1>6. ASSUME NEW t \in Thread, NEW n \in Shard, InitShardFails(t, n)
      PROVE  Same
  BY <1>6 DEF InitShardFails
<1>7. ASSUME NEW t \in Thread, ShardStore(t)
      PROVE  \E n \in Shard, i \in Id \cup {NoId} : One(n, i)
  <2>1. request[t].id \in Id /\ request[t].shard \in Shard
    BY <1>1, <1>7 DEF ShardStore, At, Ready, WithId, OnShard
  <2>2. One(request[t].shard, request[t].id)
    BY <1>1, <1>7 DEF ShardStore
  <2>3. QED
    BY <2>1, <2>2
<1>8. ASSUME NEW t \in Thread, ShardPop(t)
      PROVE  Same \/ \E n \in Shard, i \in Id \cup {NoId} : One(n, i)
  <2>1. request[t].shard \in Shard
    BY <1>1, <1>8 DEF ShardPop, At, Ready, OnShard
  <2>2. Same \/ One(request[t].shard, NoId)
    BY <1>1, <1>8 DEF ShardPop
  <2>3. QED
    BY <2>1, <2>2
<1>9. ASSUME NEW t \in Thread, NEW i \in Id, NEW err \in BOOLEAN,
             FutureRemove(t, i, err)
      PROVE  Same
  BY <1>9 DEF FutureRemove
<1>10. ASSUME NEW t \in Thread, CleanupEnds(t)
       PROVE  Same \/ cluster'.shards = [n \in Shard |-> NoId]
  BY <1>1, <1>10 DEF CleanupEnds
<1>11. ASSUME NEW i \in Id, RemoveBehind(i)
       PROVE  Same
  BY <1>11 DEF RemoveBehind
<1>12. CASE UNCHANGED vars
  BY <1>12 DEF vars
<1>13. QED
  BY <1>2, <1>3, <1>4, <1>5, <1>6, <1>7, <1>8, <1>9, <1>10, <1>11, <1>12
     DEF Next, Step

\* So the names stay finitely many.
LEMMA NextNames ==
  ASSUME TypeInv, [Next]_vars
  PROVE  IsFiniteSet(Names')
<1>1. PICK n : Names' \subseteq Names \cup {n}
  BY ShardsChange DEF Names, TypeInv, StateOK, Cluster
<1>2. IsFiniteSet(Names \cup {n})
  BY FS_AddElement DEF TypeInv
<1>3. QED
  BY <1>1, <1>2, FS_Subset

LEMMA TypeStep == ASSUME TypeInv, [Next]_vars PROVE TypeInv'
BY NextRequestOK, NextStateOK, NextNames DEF TypeInv

LEMMA TypesHold == Spec => []TypeInv
BY InitTypeInv, TypeStep, PTL DEF Spec

\* Every variable keeps its type, and a request that works on an id or on a
\* shard always has one: none of the steps of member_add, _remove, router_add
\* and router_remove is ever taken without its argument.
THEOREM TypeCorrect == Spec => []TypeOK
<1>1. TypeInv => TypeOK
  BY DEF TypeInv, RequestOK, StateOK, Ready, TypeOK
<1>2. QED
  BY <1>1, TypesHold, PTL

-----------------------------------------------------------------------------
(***************************************************************************)
(* Who is at work.                                                         *)
(***************************************************************************)
Working == {"store"} \cup OnShard \cup OnRouter

\* The cluster is created, and removed, when nobody else uses it; a request
\* may only be overtaken by a DELETE, which makes a removal beside it.
Alone ==
  /\ \A t \in Thread :
       /\ At(t, "idle") => request[t] = Idle
       /\ At(t, "configrs") => made = {}
       /\ request[t].pc \in Creating =>
            ~stored /\ \A u \in Thread \ {t} : At(u, "idle")
       /\ request[t].pc \in Cleaning /\ ~beside =>
            ~stored /\ \A u \in Thread \ {t} : At(u, "idle")
       /\ ~stored /\ ~beside => request[t].pc \notin Working
  /\ made = {} =>
       /\ ~stored /\ ~beside
       /\ \A t \in Thread : request[t].pc \in {"idle", "configrs"}

\* What a request does to the request of a thread.
LEMMA Fields ==
  ASSUME RequestOK
  PROVE  /\ DOMAIN request = Thread
         /\ \A t \in Thread :
              /\ Ready(request[t])
              /\ DOMAIN request[t] = {"pc", "shard", "id", "n", "names",
                                      "futures", "err"}
              /\ request[t] = [request[t] EXCEPT !.pc = request[t].pc]
              /\ request[t].pc \in Label
BY DEF RequestOK, Ready, Request

\* What a request begins with.
LEMMA Requests ==
  ASSUME TypeInv, NEW t \in Thread, Receive(t)
  PROVE  /\ request[t].pc = "idle"
         /\ request'[t].pc \in {"configrs", "router_create", "router_remove",
                               "shard_create", "removeShard", "cleanup_shards"}
         /\ UNCHANGED <<servers, replica_sets, made, catalog, keyed, failed, behind>>
         /\ UNCHANGED <<cluster.configsvrs, cluster.routers, cluster.shards>>
<1>1. /\ DOMAIN request = Thread
      /\ DOMAIN request[t] = {"pc", "shard", "id", "n", "names", "futures", "err"}
      /\ DOMAIN cluster = {"login", "configsvrs", "routers", "shards"}
  BY Fields DEF TypeInv, StateOK, Cluster
<1> USE <1>1 DEF registries, history, At
<1>2. ASSUME NEW l \in BOOLEAN, NEW r \in 0..MaxRouters, NEW s \in SUBSET Shard,
             Create(t, l, r, s)
      PROVE  /\ request[t].pc = "idle" /\ request'[t].pc = "configrs"
             /\ UNCHANGED <<servers, replica_sets, made, catalog, keyed, failed,
                            behind>>
             /\ UNCHANGED <<cluster.configsvrs, cluster.routers, cluster.shards>>
  BY <1>2 DEF Create
<1>3. ASSUME NEW n \in Shard, NEW l \in {"shard_create", "removeShard"},
             OfShard(t, n, l)
      PROVE  /\ request[t].pc = "idle" /\ request'[t].pc = l
             /\ UNCHANGED <<servers, replica_sets, made, cluster, catalog, keyed,
                            failed, behind>>
  BY <1>3 DEF OfShard, Address
<1>4. ASSUME AddRouter(t) \/ Delete(t) \/ \E i \in Id : DelRouter(t, i)
      PROVE  /\ request[t].pc = "idle"
             /\ request'[t].pc \in {"router_create", "cleanup_shards",
                                   "router_remove"}
             /\ UNCHANGED <<servers, replica_sets, made, cluster, catalog, keyed,
                            failed, behind>>
  BY <1>4 DEF AddRouter, Delete, DelRouter, Address, Goto
<1>5. QED
  BY <1>2, <1>3, <1>4 DEF Receive

\* How the constructor goes from phase to phase.
LEMMA Phases ==
  ASSUME NEW t \in Thread, NextPhase(t)
  PROVE  /\ request[t].pc \in {"routers", "shards", "restart"}
         /\ ~request[t].err
         /\ UNCHANGED <<registries, stored, cluster, catalog, keyed, history>>
         /\ \/ request[t].pc = "routers" /\ Goto(t, "shards")
            \/ request[t].pc = "shards" /\ cluster.login /\ Goto(t, "users")
            \/ request[t].pc = "shards" /\ ~cluster.login /\ Goto(t, "register")
            \/ /\ request[t].pc = "restart" /\ request[t].futures = {}
               /\ Goto(t, "register")
<1>1. CASE At(t, "routers")
  BY <1>1 DEF NextPhase, PhaseEnds, At
<1>2. CASE At(t, "shards")
  BY <1>2 DEF NextPhase, PhaseEnds, At
<1>3. CASE At(t, "restart")
  BY <1>3 DEF NextPhase, PhaseEnds, At
<1>4. QED
  BY <1>1, <1>2, <1>3 DEF NextPhase, PhaseEnds

\* Every step is that of one request.
LEMMA OthersStay ==
  ASSUME TypeInv, NEW t \in Thread, Receive(t) \/ Step(t)
  PROVE  \A u \in Thread \ {t} : request'[u] = request[u]
<1> DEFINE Stay == \A u \in Thread \ {t} : request'[u] = request[u]
<1>1. DOMAIN request = Thread
  BY Fields DEF TypeInv
<1>2. ASSUME Receive(t)
      PROVE  Stay
  BY <1>1, <1>2 DEF Receive, Create, AddRouter, DelRouter, OfShard, Delete, Goto
<1>3. ASSUME CreateFails(t) \/ NextPhase(t) \/ InitRouterFails(t) \/ Users(t)
               \/ Register(t) \/ RaiseEarly(t) \/ RouterAppend(t)
               \/ RouterRemove(t) \/ RouterForget(t) \/ AddShard(t)
               \/ AddShardFails(t) \/ AnswerLost(t) \/ ShardStore(t)
      PROVE  Stay
  BY <1>1, <1>3, Phases DEF CreateFails, InitRouterFails, Users, Register,
     RaiseEarly, RouterAppend, RouterRemove, RouterForget, AddShard,
     AddShardFails, AnswerLost, ShardStore, Goto, Reply
<1>4. ASSUME DrainStarts(t) \/ DrainGoesOn(t) \/ DrainEnds(t) \/ ShardPop(t)
               \/ ShardRemove(t) \/ Store(t) \/ SubmitShard(t)
               \/ SubmitRouter(t) \/ SubmitConfig(t) \/ CleanupEnds(t)
      PROVE  Stay
  BY <1>1, <1>4 DEF DrainStarts, DrainGoesOn, DrainEnds, ShardPop, ShardRemove,
     Store, SubmitShard, SubmitRouter, SubmitConfig, CleanupEnds, Goto, Reply
<1>5. ASSUME NEW i \in Id,
             InitConfigrs(t, i) \/ InitRouter(t, i) \/ Restart(t, i)
               \/ RestartFails(t, i) \/ RouterCreate(t, i)
               \/ ShardCreate(t, i)
      PROVE  Stay
  BY <1>1, <1>5 DEF InitConfigrs, InitRouter, Restart, RestartFails,
     RouterCreate, ShardCreate, Goto
<1>6. ASSUME NEW n \in Shard, NEW i \in Id, InitShard(t, n, i)
      PROVE  Stay
  BY <1>1, <1>6 DEF InitShard
<1>7. ASSUME NEW n \in Shard, InitShardFails(t, n)
      PROVE  Stay
  BY <1>1, <1>7 DEF InitShardFails
<1>8. ASSUME NEW i \in Id, NEW err \in BOOLEAN, FutureRemove(t, i, err)
      PROVE  Stay
  BY <1>1, <1>8 DEF FutureRemove
<1>9. QED
  BY <1>2, <1>3, <1>4, <1>5, <1>6, <1>7, <1>8 DEF Step

\* A step goes on with what the request does, or is its reply.
LEMMA GoesOn ==
  ASSUME TypeInv, NEW t \in Thread, Step(t), ~Store(t), ~Register(t)
  PROVE  /\ stored' = stored /\ beside' = beside /\ made \subseteq made'
         /\ request[t].pc # "idle"
         /\ \/ request'[t] = Idle
            \/ /\ request[t].pc \in Creating /\ request'[t].pc \in Creating
               /\ request'[t].pc = "configrs" => FALSE
               /\ request[t].pc = "configrs" => made' # {}
            \/ request[t].pc \in Cleaning /\ request'[t].pc \in Cleaning
            \/ request[t].pc \in Working /\ request'[t].pc \in Working
<1> DEFINE Same == /\ stored' = stored /\ beside' = beside
                   /\ made \subseteq made' /\ request[t].pc # "idle"
           Replies == request'[t] = Idle
           Creates == /\ request[t].pc \in Creating /\ request'[t].pc \in Creating
                      /\ request'[t].pc = "configrs" => FALSE
                      /\ request[t].pc = "configrs" => made' # {}
           Cleans == request[t].pc \in Cleaning /\ request'[t].pc \in Cleaning
           Works == request[t].pc \in Working /\ request'[t].pc \in Working
<1>1. DOMAIN request = Thread /\ DOMAIN request[t] = {"pc", "shard", "id", "n",
        "names", "futures", "err"}
  BY Fields DEF TypeInv
<1> USE <1>1 DEF registries, history, At
<1>2. ASSUME CreateFails(t) \/ RaiseEarly(t) \/ AddShardFails(t)
               \/ AnswerLost(t) \/ CleanupEnds(t)
      PROVE  Same /\ Replies
  BY <1>2 DEF CreateFails, RaiseEarly, AddShardFails, AnswerLost, CleanupEnds,
     Reply, PhaseEnds
<1>3. ASSUME NextPhase(t) \/ InitRouterFails(t) \/ Users(t)
      PROVE  Same /\ Creates
  BY <1>3, Phases DEF InitRouterFails, Users, Goto, Creating
<1>4. ASSUME NEW i \in Id,
             InitConfigrs(t, i) \/ InitRouter(t, i) \/ Restart(t, i)
               \/ RestartFails(t, i)
      PROVE  Same /\ Creates
  BY <1>4 DEF InitConfigrs, InitRouter, Restart, RestartFails, NewServer, Goto,
     Creating
<1>5. ASSUME NEW n \in Shard,
             InitShardFails(t, n) \/ \E i \in Id : InitShard(t, n, i)
      PROVE  Same /\ Creates
  BY <1>5 DEF InitShard, InitShardFails, NewServer, Creating
<1>6. ASSUME NEW i \in Id, RouterCreate(t, i) \/ ShardCreate(t, i)
      PROVE  Same /\ Works
  BY <1>6 DEF RouterCreate, ShardCreate, NewServer, Working, OnRouter, OnShard
<1>7. ASSUME RouterAppend(t) \/ RouterRemove(t) \/ RouterForget(t)
               \/ ShardRemove(t)
      PROVE  Same /\ (Replies \/ Works)
  BY <1>7 DEF RouterAppend, RouterRemove, RouterForget, ShardRemove, Goto,
     Reply, Working, OnRouter, OnShard
<1>8. ASSUME AddShard(t) \/ ShardStore(t) \/ DrainStarts(t) \/ DrainGoesOn(t)
               \/ DrainEnds(t) \/ ShardPop(t)
      PROVE  Same /\ (Replies \/ Works)
  BY <1>8 DEF AddShard, ShardStore, DrainStarts, DrainGoesOn, DrainEnds,
     ShardPop, Goto, Reply, Working, OnRouter, OnShard
<1>9. ASSUME SubmitShard(t) \/ SubmitRouter(t) \/ SubmitConfig(t)
      PROVE  Same /\ Cleans
  <2>1. CASE SubmitShard(t)
    <3>1. Same /\ request[t].pc = "cleanup_shards"
      BY <2>1 DEF SubmitShard
    <3>2. ASSUME NEW m, request' = [request EXCEPT
                   ![t].names = @ \cup {m},
                   ![t].futures = @ \cup {cluster.shards[m]}]
          PROVE  request'[t].pc = "cleanup_shards"
      BY <3>1, <3>2
    <3>3. ASSUME request' = [request EXCEPT ![t].pc = "cleanup_routers",
                                            ![t].names = {}, ![t].n = 0]
          PROVE  request'[t].pc = "cleanup_routers"
      BY <3>3
    <3>4. ASSUME request' = [request EXCEPT ![t].pc = "cleanup_wait",
                                            ![t].names = {}, ![t].err = TRUE]
          PROVE  request'[t].pc = "cleanup_wait"
      BY <3>4
    <3>5. request'[t].pc \in {"cleanup_shards", "cleanup_routers", "cleanup_wait"}
      BY <2>1, <3>2, <3>3, <3>4, Zenon DEF SubmitShard
    <3>6. QED
      BY <3>1, <3>5 DEF Cleaning
  <2>2. CASE SubmitRouter(t)
    BY <2>2 DEF SubmitRouter, Goto, Cleaning
  <2>3. CASE SubmitConfig(t)
    BY <2>3 DEF SubmitConfig, Goto, Cleaning
  <2>4. QED
    BY <1>9, <2>1, <2>2, <2>3
<1>10. ASSUME NEW i \in Id, NEW err \in BOOLEAN, FutureRemove(t, i, err)
       PROVE  Same /\ Cleans
  BY <1>10 DEF FutureRemove, Cleaning
<1>11. QED
  BY <1>2, <1>3, <1>4, <1>5, <1>6, <1>7, <1>8, <1>9, <1>10 DEF Step

LEMMA AloneStep == ASSUME TypeInv, Alone, [Next]_vars PROVE Alone'
<1> USE DEF At
<1>1. DOMAIN request = Thread /\ DOMAIN request' = Thread
        /\ \A t \in Thread : DOMAIN request[t] = {"pc", "shard", "id", "n",
             "names", "futures", "err"}
  BY Fields, NextRequestOK DEF TypeInv, RequestOK
<1>2. /\ Creating \cap Cleaning = {} /\ Creating \cap Working = {}
      /\ Cleaning \cap Working = {} /\ "configrs" \in Creating
      /\ "idle" \notin Creating \cup Cleaning \cup Working
      /\ "store" \in Working /\ "register" \in Creating
      /\ Idle.pc = "idle"
  BY DEF Creating, Cleaning, Working, OnShard, OnRouter, Idle
<1>3. ASSUME NEW t \in Thread, Step(t), ~Store(t), ~Register(t)
      PROVE  Alone'
  <2>1. /\ stored' = stored /\ beside' = beside /\ made \subseteq made'
        /\ request[t].pc # "idle"
        /\ \/ request'[t] = Idle
           \/ /\ request[t].pc \in Creating /\ request'[t].pc \in Creating
              /\ request'[t].pc = "configrs" => FALSE
              /\ request[t].pc = "configrs" => made' # {}
           \/ request[t].pc \in Cleaning /\ request'[t].pc \in Cleaning
           \/ request[t].pc \in Working /\ request'[t].pc \in Working
    BY <1>3, GoesOn
  <2>2. \A u \in Thread \ {t} : request'[u] = request[u]
    BY <1>3, OthersStay
  <2>3. made' = {} => made = {} /\ request'[t].pc = "idle"
    BY <1>2, <2>1 DEF Alone
  <2>4. made # {} => \A u \in Thread : request[u].pc # "configrs"
    BY DEF Alone
  <2>5. ASSUME NEW u \in Thread
        PROVE  /\ request'[u].pc = "idle" => request'[u] = Idle
               /\ request'[u].pc = "configrs" => made' = {}
               /\ request'[u].pc \in Creating =>
                    ~stored' /\ \A v \in Thread \ {u} : request'[v].pc = "idle"
               /\ request'[u].pc \in Cleaning /\ ~beside' =>
                    ~stored' /\ \A v \in Thread \ {u} : request'[v].pc = "idle"
               /\ ~stored' /\ ~beside' => request'[u].pc \notin Working
    <3>1. CASE u = t
      BY <1>2, <2>1, <2>2, <3>1 DEF Alone
    <3>2. CASE u # t
      BY <1>2, <2>1, <2>2, <2>4, <3>2 DEF Alone
    <3>3. QED
      BY <3>1, <3>2
  <2>6. made' = {} => /\ ~stored' /\ ~beside'
                      /\ \A u \in Thread : request'[u].pc \in {"idle", "configrs"}
    BY <2>1, <2>2, <2>3 DEF Alone
  <2>7. QED
    BY <2>5, <2>6 DEF Alone
<1>4. ASSUME NEW t \in Thread, Store(t) \/ Register(t)
      PROVE  Alone'
  <2>1. /\ stored' /\ beside' = beside /\ made' = made
        /\ request'[t] = Idle
        /\ request[t].pc \in {"store", "register"}
    BY <1>1, <1>4 DEF Store, Register, Reply, registries, history
  <2>2. \A u \in Thread \ {t} : request'[u] = request[u]
    BY <1>4, OthersStay DEF Step
  <2>3. QED
    BY <1>1, <1>2, <2>1, <2>2 DEF Alone
<1>5. ASSUME NEW t \in Thread, Receive(t)
      PROVE  Alone'
  <2>1. \A u \in Thread \ {t} : request'[u] = request[u]
    BY <1>5, OthersStay
  <2>2. CASE \E l \in BOOLEAN, r \in 0..MaxRouters, s \in SUBSET Shard :
               Create(t, l, r, s)
    <3>1. /\ ~stored /\ made = {} /\ request'[t].pc = "configrs"
          /\ stored' = stored /\ made' = made /\ beside' = beside
          /\ \A u \in Thread : request[u].pc \notin Creating
      BY <1>1, <2>2 DEF Create, registries, history
    <3>2. \A u \in Thread : request[u].pc = "idle"
      BY <1>2, <3>1 DEF Alone
    <3>3. QED
      BY <1>1, <1>2, <2>1, <3>1, <3>2 DEF Alone
  <2>3. CASE Delete(t)
    <3>1. /\ stored /\ ~stored' /\ made' = made
          /\ beside' = (beside \/ Busy)
          /\ request[t].pc = "idle" /\ request'[t].pc = "cleanup_shards"
      BY <1>1, <2>3 DEF Delete, registries
    <3>2. "cleanup_shards" \in Cleaning
      BY DEF Cleaning
    <3>3. QED
      BY <1>1, <1>2, <2>1, <3>1, <3>2 DEF Alone, Busy
  <2>4. CASE AddRouter(t) \/ (\E i \in Id : DelRouter(t, i))
               \/ \E n \in Shard, l \in {"shard_create", "removeShard"} :
                    OfShard(t, n, l)
    <3>1. /\ stored /\ stored' = stored /\ made' = made /\ beside' = beside
          /\ request'[t].pc \in Working
      BY <1>1, <2>4 DEF AddRouter, DelRouter, OfShard, Address, Goto, Working,
         OnShard, OnRouter, registries
    <3>2. QED
      BY <1>1, <1>2, <2>1, <3>1 DEF Alone
  <2>5. QED
    BY <1>5, <2>2, <2>3, <2>4 DEF Receive
<1>6. CASE UNCHANGED vars \/ \E i \in Id : RemoveBehind(i)
  BY <1>6 DEF RemoveBehind, vars, registries, history, Alone
<1>7. QED
  BY <1>3, <1>4, <1>5, <1>6 DEF Next

LEMMA InitAlone == Init => Alone
BY DEF Init, Alone, At, Idle, Working, Creating, Cleaning, OnShard, OnRouter

-----------------------------------------------------------------------------
(***************************************************************************)
(* The lists of the cluster.                                               *)
(***************************************************************************)
RoutersDistinct == \A j, k \in 1..Len(cluster.routers) :
                     cluster.routers[j] = cluster.routers[k] => j = k
ShardsDistinct  == \A m, n \in Shard :
                     cluster.shards[m] = cluster.shards[n] /\ m # n =>
                       cluster.shards[m] = NoId

LEMMA ClusterFields ==
  ASSUME StateOK
  PROVE  /\ DOMAIN cluster = {"login", "configsvrs", "routers", "shards"}
         /\ cluster.routers \in Seq(Id) /\ cluster.configsvrs \in SUBSET Id
         /\ cluster.shards \in [Shard -> Id \cup {NoId}]
         /\ cluster.login \in BOOLEAN
         /\ Held \in SUBSET Id
BY DEF StateOK, Cluster, Held, RouterIds, ShardIds

LEMMA SameLists ==
  ASSUME cluster'.routers = cluster.routers, cluster'.shards = cluster.shards
  PROVE  /\ RouterIds' = RouterIds /\ ShardIds' = ShardIds
         /\ RoutersDistinct => RoutersDistinct'
         /\ ShardsDistinct => ShardsDistinct'
BY DEF RouterIds, ShardIds, RoutersDistinct, ShardsDistinct

LEMMA RouterAdded ==
  ASSUME StateOK, NEW i \in Id,
         cluster'.routers = Append(cluster.routers, i)
  PROVE  /\ RouterIds' = RouterIds \cup {i}
         /\ RoutersDistinct /\ i \notin RouterIds => RoutersDistinct'
<1> DEFINE s == cluster.routers
           a == cluster'.routers
<1>1. s \in Seq(Id)
  BY ClusterFields
<1>2. Len(s) \in Nat
  BY <1>1
<1>3. /\ Len(a) = Len(s) + 1
      /\ \A j \in 1..(Len(s) + 1) : a[j] = IF j <= Len(s) THEN s[j] ELSE i
  BY <1>1, AppendLast
<1>4. /\ RouterIds = {s[k] : k \in 1..Len(s)}
      /\ RouterIds' = {a[k] : k \in 1..Len(a)}
  BY DEF RouterIds
<1> HIDE DEF s, a
<1>5. RouterIds' = RouterIds \cup {i}
  <2>1. a[Len(s) + 1] = i /\ Len(s) + 1 \in 1..Len(a)
    BY <1>2, <1>3
  <2>2. \A k \in 1..Len(s) : a[k] = s[k] /\ k \in 1..Len(a)
    BY <1>2, <1>3
  <2>3. \A k \in 1..Len(a) : k \in 1..Len(s) \/ k = Len(s) + 1
    BY <1>2, <1>3
  <2>4. QED
    BY <1>4, <2>1, <2>2, <2>3
<1>6. ASSUME RoutersDistinct, i \notin RouterIds
      PROVE  RoutersDistinct'
  <2>1. \A j, k \in 1..Len(s) : s[j] = s[k] => j = k
    BY <1>6 DEF RoutersDistinct, s
  <2>2. \A k \in 1..Len(s) : s[k] # i
    BY <1>4, <1>6
  <2>3. \A j, k \in 1..Len(a) : a[j] = a[k] => j = k
    BY <1>2, <1>3, <2>1, <2>2
  <2>4. QED
    BY <2>3 DEF RoutersDistinct, a
<1>7. QED
  BY <1>5, <1>6

LEMMA RouterDropped ==
  ASSUME StateOK, RoutersDistinct, NEW k \in 1..Len(cluster.routers),
         cluster'.routers = RemoveAt(cluster.routers, k)
  PROVE  /\ RouterIds' = RouterIds \ {cluster.routers[k]}
         /\ RoutersDistinct'
<1> DEFINE s == cluster.routers
           a == cluster'.routers
<1>1. s \in Seq(Id)
  BY ClusterFields
<1>2. Len(s) \in Nat /\ k \in Nat /\ 1 <= k /\ k <= Len(s)
  BY <1>1
<1>3. /\ Len(a) = Len(s) - 1
      /\ \A j \in 1..(Len(s) - 1) : a[j] = IF j < k THEN s[j] ELSE s[j + 1]
  BY <1>1, RemoveAtProperties
<1>4. /\ RouterIds = {s[j] : j \in 1..Len(s)}
      /\ RouterIds' = {a[j] : j \in 1..Len(a)}
  BY DEF RouterIds
<1>5. \A i, j \in 1..Len(s) : s[i] = s[j] => i = j
  BY DEF RoutersDistinct
<1> HIDE DEF s, a
<1>6. RouterIds' \subseteq RouterIds \ {s[k]}
  <2>1. ASSUME NEW j \in 1..Len(a)
        PROVE  a[j] \in RouterIds \ {s[k]}
    <3> DEFINE p == IF j < k THEN j ELSE j + 1
    <3>1. p \in 1..Len(s) /\ p # k /\ a[j] = s[p]
      BY <1>2, <1>3
    <3> HIDE DEF p
    <3>2. QED
      BY <1>2, <1>4, <1>5, <3>1
  <2>2. QED
    BY <1>4, <2>1
<1>7. RouterIds \ {s[k]} \subseteq RouterIds'
  <2>1. ASSUME NEW j \in 1..Len(s), j # k
        PROVE  \E i \in 1..Len(a) : a[i] = s[j]
    <3>1. CASE j < k
      BY <1>2, <1>3, <2>1, <3>1
    <3>2. CASE ~(j < k)
      <4>1. j - 1 \in 1..Len(a) /\ a[j - 1] = s[j]
        BY <1>2, <1>3, <2>1, <3>2
      <4>2. QED
        BY <4>1
    <3>3. QED
      BY <3>1, <3>2
  <2>2. QED
    BY <1>4, <2>1
<1>8. \A i, j \in 1..Len(a) : a[i] = a[j] => i = j
  <2>1. SUFFICES ASSUME NEW i \in 1..Len(a), NEW j \in 1..Len(a), a[i] = a[j]
                 PROVE  i = j
    OBVIOUS
  <2> DEFINE p == IF i < k THEN i ELSE i + 1
             q == IF j < k THEN j ELSE j + 1
  <2>2. p \in 1..Len(s) /\ q \in 1..Len(s) /\ a[i] = s[p] /\ a[j] = s[q]
    BY <1>2, <1>3
  <2>3. p = q
    BY <1>5, <2>1, <2>2
  <2>4. QED
    BY <1>2, <1>3, <2>3
<1>9. QED
  BY <1>6, <1>7, <1>8 DEF RoutersDistinct, s, a

LEMMA ShardSet ==
  ASSUME StateOK, NEW n \in Shard, NEW i \in Id \cup {NoId},
         cluster'.shards = [cluster.shards EXCEPT ![n] = i]
  PROVE  /\ ShardIds' \subseteq ShardIds \cup ({i} \ {NoId})
         /\ i \in Id => i \in ShardIds'
         /\ cluster.shards[n] = NoId => ShardIds \subseteq ShardIds'
         /\ ShardsDistinct /\ i \notin ShardIds => ShardsDistinct'
         /\ ShardsDistinct /\ i = NoId =>
              ShardIds' = ShardIds \ {cluster.shards[n]}
<1> DEFINE s == cluster.shards
           a == cluster'.shards
<1>1. s \in [Shard -> Id \cup {NoId}] /\ NoId \notin Id
  BY ClusterFields, ShardedClusterAssumption
<1>2. a[n] = i /\ \A m \in Shard \ {n} : a[m] = s[m]
  BY <1>1
<1>3. /\ ShardIds = {s[m] : m \in Shard} \ {NoId}
      /\ ShardIds' = {a[m] : m \in Shard} \ {NoId}
      /\ ShardsDistinct <=> \A l, m \in Shard : s[l] = s[m] /\ l # m => s[l] = NoId
      /\ ShardsDistinct' <=> \A l, m \in Shard : a[l] = a[m] /\ l # m => a[l] = NoId
  BY DEF ShardIds, ShardsDistinct
<1> HIDE DEF s, a
<1>4. /\ ShardIds' \subseteq ShardIds \cup ({i} \ {NoId})
      /\ i \in Id => i \in ShardIds'
      /\ s[n] = NoId => ShardIds \subseteq ShardIds'
  BY <1>1, <1>2, <1>3
<1>5. ASSUME ShardsDistinct, i \notin ShardIds
      PROVE  ShardsDistinct'
  <2>1. SUFFICES ASSUME NEW l \in Shard, NEW m \in Shard, a[l] = a[m], l # m
                 PROVE  a[l] = NoId
    BY <1>3
  <2>2. i = NoId \/ \A k \in Shard : s[k] # i
    BY <1>3, <1>5
  <2>3. CASE l = n \/ m = n
    BY <1>2, <2>1, <2>2, <2>3
  <2>4. CASE l # n /\ m # n
    BY <1>2, <1>3, <1>5, <2>1, <2>4
  <2>5. QED
    BY <2>3, <2>4
<1>6. ASSUME ShardsDistinct, i = NoId
      PROVE  ShardIds' = ShardIds \ {s[n]}
  BY <1>1, <1>2, <1>3, <1>6
<1>7. QED
  BY <1>4, <1>5, <1>6 DEF s

LEMMA ListsGo ==
  ASSUME cluster'.routers = <<>>, cluster'.shards = [n \in Shard |-> NoId]
  PROVE  /\ RouterIds' = {} /\ ShardIds' = {}
         /\ RoutersDistinct' /\ ShardsDistinct'
BY DEF RouterIds, ShardIds, RoutersDistinct, ShardsDistinct

-----------------------------------------------------------------------------
(***************************************************************************)
(* Every id has one place.                                                 *)
(***************************************************************************)
\* The request has made the object, or taken it out of the list.
Owning == {"router_append", "addShard", "shard_store", "shard_remove"}
Owns(t) == request[t].pc \in Owning
Listed == RouterIds \cup ShardIds

\* An id is in one list, once, or with one request.
OwnedOnce ==
  /\ Registered \subseteq made /\ Held \subseteq made
  /\ \A n \in Shard : catalog[n].id \in made \cup {NoId}
  /\ servers \cap replica_sets = {} /\ Listed \cap replica_sets = {}
  /\ cluster.configsvrs \cap Listed = {} /\ RouterIds \cap ShardIds = {}
  /\ RoutersDistinct /\ ShardsDistinct
  /\ \A t \in Thread : Owns(t) =>
       /\ request[t].id \in made \ (Held \cup replica_sets)
       /\ \A u \in Thread : Owns(u) /\ request[u].id = request[t].id => u = t
  /\ \A t \in Thread : At(t, "router_forget") =>
       /\ request[t].id \in made \ Registered
       /\ \A u \in Thread : At(u, "router_forget") /\ request[u].id = request[t].id
            => u = t

LEMMA InitOwnedOnce == Init => OwnedOnce
<1> SUFFICES ASSUME Init
             PROVE  OwnedOnce
  OBVIOUS
<1>1. cluster.routers = <<>> /\ cluster.configsvrs = {}
        /\ cluster.shards = [n \in Shard |-> NoId]
  BY DEF Init
<1>2. RouterIds = {} /\ ShardIds = {} /\ RoutersDistinct /\ ShardsDistinct
  BY <1>1 DEF RouterIds, ShardIds, RoutersDistinct, ShardsDistinct
<1>3. \A t \in Thread : request[t].pc = "idle"
  BY DEF Init, Idle
<1>4. \A n \in Shard : catalog[n].id = NoId
  BY DEF Init, NoEntry
<1>5. QED
  BY <1>1, <1>2, <1>3, <1>4 DEF Init, OwnedOnce, Registered, Held, Listed, Owns,
     Owning, At

\* Nothing new: what is registered, listed or with a request only goes.
LEMMA OnlyGoes ==
  ASSUME OwnedOnce, servers' \subseteq servers,
         replica_sets' \subseteq replica_sets, made \subseteq made',
         cluster'.configsvrs \subseteq cluster.configsvrs,
         RouterIds' \subseteq RouterIds, ShardIds' \subseteq ShardIds,
         RoutersDistinct', ShardsDistinct',
         \A n \in Shard : catalog'[n].id \in made' \cup {NoId},
         \A t \in Thread :
           /\ Owns(t)' => Owns(t) /\ request'[t].id = request[t].id
           /\ At(t, "router_forget")' =>
                At(t, "router_forget") /\ request'[t].id = request[t].id
  PROVE  OwnedOnce'
<1>1. /\ Registered' \subseteq Registered /\ Held' \subseteq Held
      /\ Listed' \subseteq Listed
  BY DEF Registered, Held, Listed
<1>2. ASSUME NEW t \in Thread, request'[t].pc \in Owning
      PROVE  /\ request[t].pc \in Owning /\ request'[t].id = request[t].id
             /\ request'[t].id \in made' \ (Held' \cup replica_sets')
  BY <1>1, <1>2 DEF OwnedOnce, Owns
<1>3. ASSUME NEW t \in Thread, At(t, "router_forget")'
      PROVE  At(t, "router_forget") /\ request'[t].id \in made' \ Registered'
  BY <1>1, <1>3 DEF OwnedOnce, At
<1>4. QED
  BY <1>1, <1>2, <1>3 DEF OwnedOnce, Owns

LEMMA OwnedOnceStep ==
  ASSUME TypeInv, Alone, OwnedOnce, [Next]_vars
  PROVE  OwnedOnce'
<1> USE DEF registries, history
<1>1. /\ StateOK /\ RequestOK /\ DOMAIN request = Thread
      /\ \A t \in Thread : Ready(request[t]) /\ DOMAIN request[t] =
           {"pc", "shard", "id", "n", "names", "futures", "err"}
      /\ DOMAIN cluster = {"login", "configsvrs", "routers", "shards"}
      /\ NoId \notin Id /\ Idle.pc = "idle"
  BY Fields, ClusterFields, ShardedClusterAssumption DEF TypeInv, Idle
<1>2. /\ OwnedOnce
      /\ RoutersDistinct /\ ShardsDistinct
      /\ \A n \in Shard : catalog[n].id \in made \cup {NoId}
  BY DEF OwnedOnce
<1> DEFINE SameList == cluster'.configsvrs \subseteq cluster.configsvrs /\ RouterIds' \subseteq RouterIds
                       /\ ShardIds' \subseteq ShardIds
                       /\ RoutersDistinct' /\ ShardsDistinct'
           SameMade == /\ servers' \subseteq servers
                       /\ replica_sets' \subseteq replica_sets
                       /\ made \subseteq made'
           SameCatalog == \A n \in Shard : catalog'[n].id \in made' \cup {NoId}
           Hands(t) == /\ Owns(t)' => Owns(t) /\ request'[t].id = request[t].id
                       /\ At(t, "router_forget")' =>
                            At(t, "router_forget") /\ request'[t].id = request[t].id
<1>3. cluster' = cluster => SameList
  BY <1>2, SameLists
<1>4. catalog' = catalog /\ made \subseteq made' => SameCatalog
  BY <1>2
<1>5. ASSUME NEW t \in Thread, Receive(t)
      PROVE  OwnedOnce'
  <2>1. SameMade /\ SameCatalog
    BY <1>4, <1>5 DEF Receive, Create, AddRouter, DelRouter, OfShard, Address,
       Delete
  <2>2. SameList
    <3>1. cluster'.routers = cluster.routers /\ cluster'.shards = cluster.shards
            /\ cluster'.configsvrs = cluster.configsvrs
      BY <1>1, <1>5 DEF Receive, Create, AddRouter, DelRouter, OfShard, Address,
         Delete
    <3>2. QED
      BY <1>2, <3>1, SameLists
  <2>3. request'[t].pc \in {"configrs", "router_create", "router_remove",
                            "shard_create", "removeShard", "cleanup_shards"}
    BY <1>5, Requests
  <2>4. QED
    BY <1>2, <1>5, <2>1, <2>2, <2>3, OthersStay, OnlyGoes DEF Owns, Owning, At
<1>6. ASSUME NEW t \in Thread, Step(t),
             CreateFails(t) \/ NextPhase(t) \/ InitRouterFails(t) \/ Users(t)
               \/ Register(t) \/ RaiseEarly(t) \/ AddShardFails(t)
               \/ DrainGoesOn(t) \/ Store(t) \/ SubmitShard(t)
               \/ SubmitRouter(t) \/ SubmitConfig(t) \/ ShardRemove(t)
      PROVE  OwnedOnce'
  <2>1. SameMade /\ SameCatalog /\ SameList
    BY <1>3, <1>4, <1>6, Phases DEF CreateFails, InitRouterFails, Users, Register,
       RaiseEarly, AddShardFails, DrainGoesOn, Store, SubmitShard, SubmitRouter,
       SubmitConfig, ShardRemove
  <2>2. request'[t].pc \in {"idle", "store"} \cup Creating \cup Cleaning
    <3>1. CASE CreateFails(t) \/ Register(t) \/ RaiseEarly(t)
                 \/ AddShardFails(t) \/ DrainGoesOn(t) \/ Store(t)
                 \/ ShardRemove(t)
      <4>1. Reply(t) \/ Goto(t, "store")
        BY <3>1 DEF CreateFails, Register, RaiseEarly, AddShardFails,
           DrainGoesOn, Store, ShardRemove
      <4>2. QED
        BY <1>1, <4>1 DEF Reply, Goto
    <3>2. CASE \/ NextPhase(t) \/ InitRouterFails(t) \/ Users(t)
               \/ SubmitShard(t) \/ SubmitRouter(t) \/ SubmitConfig(t)
      <4>1. request[t].pc \in Creating \cup Cleaning /\ ~Store(t) /\ ~Register(t)
        BY <3>2, Phases DEF InitRouterFails, Users, SubmitShard, SubmitRouter,
           SubmitConfig, Store, Register, At, Creating, Cleaning
      <4>2. request[t].pc \notin Working
        BY <4>1 DEF Creating, Cleaning, Working, OnShard, OnRouter
      <4>3. QED
        BY <1>1, <1>6, <4>1, <4>2, GoesOn
    <3>3. QED
      BY <1>6, <3>1, <3>2
  <2>3. Hands(t)
    BY <2>2 DEF Owns, Owning, At, Creating, Cleaning
  <2>4. QED
    BY <1>2, <1>6, <2>1, <2>3, OthersStay, OnlyGoes DEF Owns, At
<1>7. ASSUME NEW t \in Thread, Step(t),
             AddShard(t) \/ AnswerLost(t) \/ DrainStarts(t) \/ DrainEnds(t)
      PROVE  OwnedOnce'
  <2>1. request[t].shard \in Shard
    BY <1>1, <1>7 DEF AddShard, AnswerLost, DrainStarts, DrainEnds, At, Ready,
       OnShard
  <2>2. At(t, "addShard") => request[t].id \in made
    BY <1>2 DEF OwnedOnce, At, Owns, Owning
  <2>3. SameMade /\ SameList
    BY <1>3, <1>7 DEF AddShard, AnswerLost, DrainStarts, DrainEnds
  <2>4. \A n \in Shard : catalog[n] \in Entry
    BY <1>1 DEF StateOK
  <2>5. SameCatalog
    BY <1>1, <1>2, <1>7, <2>1, <2>2, <2>4 DEF AddShard, AnswerLost, DrainStarts,
       DrainEnds, NoEntry, Entry, StateOK
  <2>6. Hands(t)
    BY <1>1, <1>7 DEF AddShard, AnswerLost, DrainStarts, DrainEnds, Goto, Reply,
       Owns, Owning, At
  <2>7. QED
    BY <1>2, <1>7, <2>3, <2>5, <2>6, OthersStay, OnlyGoes DEF Owns, At
<1>8. ASSUME NEW t \in Thread, Step(t), RouterRemove(t)
      PROVE  OwnedOnce'
  <2>1. SameMade /\ SameCatalog /\ SameList
    BY <1>3, <1>4, <1>8 DEF RouterRemove
  <2>2. CASE Reply(t)
    <3>1. Hands(t)
      BY <1>1, <2>2 DEF Reply, Owns, Owning, At
    <3>2. QED
      BY <1>2, <1>8, <2>1, <3>1, OthersStay, OnlyGoes DEF Owns, At
  <2>3. CASE ~Reply(t)
    <3>1. \A u \in Thread \ {t} : request'[u] = request[u]
      BY <1>8, OthersStay
    <3>2. /\ request[t].id \in servers /\ servers' = servers \ {request[t].id}
          /\ replica_sets' = replica_sets /\ made' = made /\ catalog' = catalog
          /\ cluster' = cluster
          /\ request'[t].pc = "router_forget" /\ request'[t].id = request[t].id
      BY <1>1, <1>8, <2>3 DEF RouterRemove, Goto
    <3>3. ~Owns(t)' /\ RouterIds' = RouterIds /\ ShardIds' = ShardIds
      BY <1>2, <3>2, SameLists DEF Owns, Owning
    <3>4. \A u \in Thread \ {t} : At(u, "router_forget")' =>
            At(u, "router_forget") /\ request[u].id \notin servers
      BY <3>1 DEF OwnedOnce, At, Registered
    <3>5. QED
      BY <1>2, <2>1, <3>1, <3>2, <3>3, <3>4 DEF OwnedOnce, Registered, Held,
         Listed, Owns, At
  <2>4. QED
    BY <2>2, <2>3
<1>9. ASSUME NEW t \in Thread, Step(t), RouterForget(t)
      PROVE  OwnedOnce'
  <2>1. SameMade /\ SameCatalog
    BY <1>4, <1>9 DEF RouterForget
  <2>2. Hands(t)
    BY <1>1, <1>9 DEF RouterForget, Goto, Reply, Owns, Owning, At
  <2>3. SameList
    <3>1. ASSUME NEW k \in 1..Len(cluster.routers),
                 cluster' = [cluster EXCEPT !.routers = RemoveAt(@, k)]
          PROVE  SameList
      <4>1. cluster'.routers = RemoveAt(cluster.routers, k)
              /\ cluster'.shards = cluster.shards
              /\ cluster'.configsvrs = cluster.configsvrs
        BY <1>1, <3>1
      <4>2. RouterIds' \subseteq RouterIds /\ RoutersDistinct'
        BY <1>1, <1>2, <4>1, RouterDropped
      <4>3. ShardIds' = ShardIds /\ ShardsDistinct'
        BY <1>2, <4>1 DEF ShardIds, ShardsDistinct
      <4>4. QED
        BY <4>1, <4>2, <4>3
    <3>2. QED
      BY <1>3, <1>9, <3>1 DEF RouterForget
  <2>4. QED
    BY <1>2, <1>9, <2>1, <2>2, <2>3, OthersStay, OnlyGoes DEF Owns, At
<1>10. ASSUME NEW t \in Thread, Step(t), CleanupEnds(t)
       PROVE  OwnedOnce'
  <2>1. SameMade /\ SameCatalog
    BY <1>4, <1>10 DEF CleanupEnds
  <2>2. Hands(t)
    BY <1>1, <1>10 DEF CleanupEnds, Reply, Owns, Owning, At
  <2>3. SameList
    <3>1. CASE cluster' = cluster
      BY <1>3, <3>1
    <3>2. CASE cluster' # cluster
      <4>1. cluster'.routers = <<>> /\ cluster'.configsvrs = {}
              /\ cluster'.shards = [n \in Shard |-> NoId]
        BY <1>1, <1>10, <3>2 DEF CleanupEnds
      <4>2. QED
        BY <4>1, ListsGo
    <3>3. QED
      BY <3>1, <3>2
  <2>4. QED
    BY <1>2, <1>10, <2>1, <2>2, <2>3, OthersStay, OnlyGoes DEF Owns, At
<1>11. ASSUME NEW t \in Thread, Step(t), NEW i \in Id,
              \/ Restart(t, i) \/ RestartFails(t, i)
              \/ \E err \in BOOLEAN : FutureRemove(t, i, err)
       PROVE  OwnedOnce'
  <2>1. SameMade /\ SameCatalog /\ SameList
    BY <1>3, <1>4, <1>11 DEF Restart, RestartFails, FutureRemove
  <2>2. Hands(t)
    BY <1>1, <1>11 DEF Restart, RestartFails, FutureRemove, Owns, At
  <2>3. QED
    BY <1>2, <1>11, <2>1, <2>2, OthersStay, OnlyGoes DEF Owns, At
<1>12. CASE UNCHANGED vars \/ \E i \in Id : RemoveBehind(i)
  <2>1. SameMade /\ SameCatalog /\ SameList /\ request' = request
    BY <1>3, <1>4, <1>12 DEF RemoveBehind, vars
  <2>2. QED
    BY <1>2, <2>1, OnlyGoes DEF Owns, At
<1>13. ASSUME NEW t \in Thread, NEW i \in Id, InitConfigrs(t, i)
       PROVE  OwnedOnce'
  <2>1. \A u \in Thread \ {t} : request'[u] = request[u]
    BY <1>13, OthersStay DEF Step
  <2>2. /\ made = {} /\ \A u \in Thread : request[u].pc \in {"idle", "configrs"}
        /\ request'[t].pc = "routers"
    BY <1>1, <1>13 DEF InitConfigrs, Alone, At, Goto
  <2>3. /\ servers' = servers /\ replica_sets' = replica_sets \cup {i}
        /\ made' = made \cup {i} /\ catalog' = catalog
        /\ cluster'.configsvrs = {i} /\ cluster'.routers = cluster.routers
        /\ cluster'.shards = cluster.shards
    BY <1>1, <1>13 DEF InitConfigrs
  <2>4. RouterIds' = RouterIds /\ ShardIds' = ShardIds
          /\ RoutersDistinct' /\ ShardsDistinct'
    BY <1>2, <2>3, SameLists
  <2>5. \A u \in Thread : ~Owns(u)' /\ ~At(u, "router_forget")'
    BY <2>1, <2>2 DEF Owns, Owning, At
  <2>6. Registered = {} /\ Held = {}
    BY <2>2 DEF OwnedOnce
  <2>7. QED
    BY <1>2, <2>3, <2>4, <2>5, <2>6 DEF OwnedOnce, Registered, Held, Listed
<1>14. ASSUME NEW t \in Thread, NEW i \in Id,
              RouterCreate(t, i) \/ ShardCreate(t, i)
       PROVE  OwnedOnce'
  <2>1. \A u \in Thread \ {t} : request'[u] = request[u]
    BY <1>14, OthersStay DEF Step
  <2>2. /\ servers' = servers \cup {i} /\ replica_sets' = replica_sets
        /\ made' = made \cup {i} /\ i \notin made /\ catalog' = catalog
        /\ cluster' = cluster
        /\ request'[t].id = i /\ request'[t].pc # "router_forget"
    BY <1>1, <1>14 DEF RouterCreate, ShardCreate, NewServer
  <2>3. RouterIds' = RouterIds /\ ShardIds' = ShardIds
          /\ RoutersDistinct' /\ ShardsDistinct'
    BY <1>2, <2>2, SameLists
  <2>4. QED
    BY <1>2, <2>1, <2>2, <2>3 DEF OwnedOnce, Registered, Held, Listed, Owns, At
<1>15. ASSUME NEW t \in Thread, NEW i \in Id, InitRouter(t, i)
       PROVE  OwnedOnce'
  <2>1. \A u \in Thread \ {t} : request'[u] = request[u]
    BY <1>15, OthersStay DEF Step
  <2>2. /\ servers' = servers \cup {i} /\ replica_sets' = replica_sets
        /\ made' = made \cup {i} /\ i \notin made /\ catalog' = catalog
        /\ cluster'.configsvrs = cluster.configsvrs
        /\ cluster'.routers = Append(cluster.routers, i)
        /\ cluster'.shards = cluster.shards
        /\ request'[t].pc = "routers"
    BY <1>1, <1>15 DEF InitRouter, NewServer, At
  <2>3. i \notin RouterIds
    BY <2>2 DEF OwnedOnce, Held
  <2>4. RouterIds' = RouterIds \cup {i} /\ RoutersDistinct'
    BY <1>1, <1>2, <2>2, <2>3, RouterAdded
  <2>5. ShardIds' = ShardIds /\ ShardsDistinct'
    BY <1>2, <2>2 DEF ShardIds, ShardsDistinct
  <2>6. \A u \in Thread : \/ ~Owns(u)' /\ ~At(u, "router_forget")'
                          \/ request'[u] = request[u]
    BY <2>1, <2>2 DEF Owns, Owning, At
  <2>7. QED
    BY <1>2, <2>2, <2>4, <2>5, <2>6 DEF OwnedOnce, Registered, Held, Listed,
       Owns, At
<1>16. ASSUME NEW t \in Thread, NEW n \in Shard, NEW i \in Id,
              InitShard(t, n, i)
       PROVE  OwnedOnce'
  <2>1. \A u \in Thread \ {t} : request'[u] = request[u]
    BY <1>16, OthersStay DEF Step
  <2>2. /\ servers' = servers \cup {i} /\ replica_sets' = replica_sets
        /\ made' = made \cup {i} /\ i \notin made
        /\ catalog' = [catalog EXCEPT ![n] = [state |-> "in", id |-> i]]
        /\ cluster'.configsvrs = cluster.configsvrs
        /\ cluster'.routers = cluster.routers
        /\ cluster'.shards = [cluster.shards EXCEPT ![n] = i]
        /\ request'[t].pc = "shards"
    BY <1>1, <1>16 DEF InitShard, NewServer, At
  <2>3. i \notin ShardIds
    BY <2>2 DEF OwnedOnce, Held
  <2>4. ShardIds' \subseteq ShardIds \cup {i} /\ ShardsDistinct'
    BY <1>1, <1>2, <2>2, <2>3, ShardSet
  <2>5. RouterIds' = RouterIds /\ RoutersDistinct'
    BY <1>2, <2>2 DEF RouterIds, RoutersDistinct
  <2>6. \A u \in Thread : \/ ~Owns(u)' /\ ~At(u, "router_forget")'
                          \/ request'[u] = request[u]
    BY <2>1, <2>2 DEF Owns, Owning, At
  <2>7. \A m \in Shard : catalog'[m].id \in made' \cup {NoId}
    BY <1>1, <1>2, <2>2 DEF StateOK
  <2>8. QED
    BY <1>2, <2>2, <2>4, <2>5, <2>6, <2>7 DEF OwnedOnce, Registered, Held,
       Listed, Owns, At
<1>17. ASSUME NEW t \in Thread, NEW n \in Shard, InitShardFails(t, n)
       PROVE  OwnedOnce'
  <2>1. \A u \in Thread \ {t} : request'[u] = request[u]
    BY <1>17, OthersStay DEF Step
  <2>2. catalog' = catalog /\ cluster' = cluster /\ request'[t].pc = "shards"
    BY <1>1, <1>17 DEF InitShardFails, At
  <2>3. RouterIds' = RouterIds /\ ShardIds' = ShardIds
          /\ RoutersDistinct' /\ ShardsDistinct'
    BY <1>2, <2>2, SameLists
  <2>4. \A u \in Thread : \/ ~Owns(u)' /\ ~At(u, "router_forget")'
                          \/ request'[u] = request[u]
    BY <2>1, <2>2 DEF Owns, Owning, At
  <2>5. /\ replica_sets' = replica_sets
        /\ \/ servers' = servers /\ made' = made
           \/ \E i \in Id : /\ i \notin made /\ servers' = servers \cup {i}
                            /\ made' = made \cup {i}
    BY <1>17 DEF InitShardFails, NewServer
  <2>6. QED
    BY <1>2, <2>2, <2>3, <2>4, <2>5 DEF OwnedOnce, Registered, Held, Listed,
       Owns, At
<1>18. ASSUME NEW t \in Thread, RouterAppend(t) \/ ShardStore(t)
       PROVE  OwnedOnce'
  <2> DEFINE i == request[t].id
  <2>1. \A u \in Thread \ {t} : request'[u] = request[u]
    BY <1>18, OthersStay DEF Step
  <2>2. /\ servers' = servers /\ replica_sets' = replica_sets
        /\ made' = made /\ catalog' = catalog
        /\ request'[t].pc \in {"idle", "store"}
        /\ cluster'.configsvrs = cluster.configsvrs
    BY <1>1, <1>18 DEF RouterAppend, ShardStore, Reply, Goto
  <2>3. /\ Owns(t) /\ ~Owns(t)' /\ ~At(t, "router_forget")' /\ i \in Id
        /\ i \in made \ (Held \cup replica_sets)
    BY <1>1, <1>18, <2>2 DEF RouterAppend, ShardStore, OwnedOnce, Owns, Owning,
       At, Ready, WithId
  <2>4. \A u \in Thread \ {t} : Owns(u)' => Owns(u) /\ request'[u].id # i
    BY <2>1, <2>3 DEF OwnedOnce, Owns
  <2>5. CASE RouterAppend(t)
    <3>1. cluster'.routers = Append(cluster.routers, i)
            /\ cluster'.shards = cluster.shards
      BY <1>1, <2>5 DEF RouterAppend
    <3>2. RouterIds' = RouterIds \cup {i} /\ RoutersDistinct'
      BY <1>1, <1>2, <2>3, <3>1, RouterAdded DEF Held
    <3>3. ShardIds' = ShardIds /\ ShardsDistinct'
      BY <1>2, <3>1 DEF ShardIds, ShardsDistinct
    <3>4. QED
      BY <1>2, <2>1, <2>2, <2>3, <2>4, <3>2, <3>3 DEF OwnedOnce, Registered,
         Held, Listed, Owns, At
  <2>6. CASE ShardStore(t)
    <3>1. request[t].shard \in Shard
      BY <1>1, <2>6 DEF ShardStore, At, Ready, OnShard
    <3>2. cluster'.shards = [cluster.shards EXCEPT ![request[t].shard] = i]
            /\ cluster'.routers = cluster.routers
      BY <1>1, <2>6 DEF ShardStore
    <3>3. ShardIds' \subseteq ShardIds \cup {i} /\ ShardsDistinct'
      BY <1>1, <1>2, <2>3, <3>1, <3>2, ShardSet DEF Held
    <3>4. RouterIds' = RouterIds /\ RoutersDistinct'
      BY <1>2, <3>2 DEF RouterIds, RoutersDistinct
    <3>5. QED
      BY <1>2, <2>1, <2>2, <2>3, <2>4, <3>3, <3>4 DEF OwnedOnce, Registered,
         Held, Listed, Owns, At
  <2>7. QED
    BY <1>18, <2>5, <2>6
<1>19. ASSUME NEW t \in Thread, ShardPop(t)
       PROVE  OwnedOnce'
  <2> DEFINE n == request[t].shard
             i == cluster.shards[n]
  <2>1. \A u \in Thread \ {t} : request'[u] = request[u]
    BY <1>19, OthersStay DEF Step
  <2>2. /\ servers' = servers /\ replica_sets' = replica_sets
        /\ made' = made /\ catalog' = catalog /\ n \in Shard
    BY <1>1, <1>19 DEF ShardPop, At, Ready, OnShard
  <2>3. CASE i = NoId
    <3>1. cluster' = cluster /\ request'[t] = Idle
      BY <1>1, <1>19, <2>3 DEF ShardPop, Reply
    <3>2. RouterIds' = RouterIds /\ ShardIds' = ShardIds
            /\ RoutersDistinct' /\ ShardsDistinct'
      BY <1>2, <3>1, SameLists
    <3>3. ~Owns(t)' /\ ~At(t, "router_forget")'
      BY <1>1, <3>1 DEF Owns, Owning, At
    <3>4. QED
      BY <1>2, <2>1, <2>2, <3>1, <3>2, <3>3 DEF OwnedOnce, Registered, Held,
         Listed, Owns, At
  <2>4. CASE i # NoId
    <3>1. /\ cluster'.shards = [cluster.shards EXCEPT ![n] = NoId]
          /\ cluster'.routers = cluster.routers
          /\ cluster'.configsvrs = cluster.configsvrs
          /\ request'[t].id = i /\ request'[t].pc = "shard_remove"
      BY <1>1, <1>19, <2>4 DEF ShardPop
    <3>2. ShardIds' = ShardIds \ {i} /\ ShardsDistinct'
      BY <1>1, <1>2, <2>2, <3>1, ShardSet DEF ShardIds
    <3>3. RouterIds' = RouterIds /\ RoutersDistinct'
      BY <1>2, <3>1 DEF RouterIds, RoutersDistinct
    <3>4. i \in ShardIds
      BY <2>2, <2>4 DEF ShardIds
    <3>5. /\ i \in made \ replica_sets /\ i \notin RouterIds
          /\ i \notin cluster.configsvrs
      BY <3>4 DEF OwnedOnce, Listed, Held
    <3>6. \A u \in Thread \ {t} : Owns(u)' => Owns(u) /\ request'[u].id # i
      BY <2>1, <3>4 DEF OwnedOnce, Owns, Held
    <3>7. Owns(t)' /\ ~At(t, "router_forget")'
      BY <3>1 DEF Owns, Owning, At
    <3>8. QED
      BY <1>2, <2>1, <2>2, <3>1, <3>2, <3>3, <3>5, <3>6, <3>7 DEF OwnedOnce,
         Registered, Held, Listed, Owns, At
  <2>5. QED
    BY <2>3, <2>4
<1>20. QED
  BY <1>5, <1>6, <1>7, <1>8, <1>9, <1>10, <1>11, <1>12, <1>13, <1>14, <1>15,
     <1>16, <1>17, <1>18, <1>19 DEF Next, Step

-----------------------------------------------------------------------------
(***************************************************************************)
(* What the cluster holds exists.                                          *)
(***************************************************************************)
\* The steps that put an id on a list.
LEMMA HeldAfter ==
  ASSUME TypeInv, OwnedOnce, NEW t \in Thread, Step(t)
  PROVE  /\ \A i \in Held' :
              \/ i \in Held
              \/ i \in Registered' \ made
              \/ /\ RouterAppend(t) \/ ShardStore(t)
                 /\ i = request[t].id
         /\ RouterIds \subseteq RouterIds' \/ RouterForget(t) \/ CleanupEnds(t)
<1> DEFINE Grows == RouterIds \subseteq RouterIds'
           From(S) == \A i \in Held' : i \in Held \cup S
<1>1. /\ StateOK /\ RoutersDistinct /\ ShardsDistinct /\ DOMAIN request = Thread
      /\ DOMAIN cluster = {"login", "configsvrs", "routers", "shards"}
      /\ Ready(request[t])
  BY Fields, ClusterFields DEF TypeInv, OwnedOnce
<1>2. cluster' = cluster => Grows /\ From({})
  BY SameLists DEF Held
<1>3. ASSUME CreateFails(t) \/ NextPhase(t) \/ InitRouterFails(t) \/ Users(t)
               \/ Register(t) \/ RaiseEarly(t) \/ RouterRemove(t) \/ AddShard(t)
               \/ AddShardFails(t) \/ AnswerLost(t) \/ DrainStarts(t)
               \/ DrainGoesOn(t) \/ DrainEnds(t) \/ ShardRemove(t) \/ Store(t)
               \/ SubmitShard(t) \/ SubmitRouter(t) \/ SubmitConfig(t)
      PROVE  Grows /\ From({})
  BY <1>2, <1>3, Phases DEF CreateFails, InitRouterFails, Users, Register,
     RaiseEarly, RouterRemove, AddShard, AddShardFails, AnswerLost, DrainStarts,
     DrainGoesOn, DrainEnds, ShardRemove, Store, SubmitShard, SubmitRouter,
     SubmitConfig
<1>30. ASSUME NEW n \in Shard, InitShardFails(t, n)
       PROVE  Grows /\ From({})
  BY <1>2, <1>30 DEF InitShardFails
<1>4. ASSUME NEW i \in Id,
             \/ Restart(t, i) \/ RestartFails(t, i) \/ RouterCreate(t, i)
             \/ ShardCreate(t, i)
             \/ \E err \in BOOLEAN : FutureRemove(t, i, err)
      PROVE  Grows /\ From({})
  BY <1>2, <1>4 DEF Restart, RestartFails, RouterCreate, ShardCreate, FutureRemove
<1>5. ASSUME NEW i \in Id, InitConfigrs(t, i)
      PROVE  Grows /\ From({i}) /\ i \in Registered' \ made
  <2>1. cluster'.configsvrs = {i} /\ cluster'.routers = cluster.routers
          /\ cluster'.shards = cluster.shards
    BY <1>1, <1>5 DEF InitConfigrs
  <2>2. QED
    BY <1>5, <2>1, SameLists DEF Held, InitConfigrs, Registered
<1>6. ASSUME NEW i \in Id, InitRouter(t, i)
      PROVE  Grows /\ From({i}) /\ i \in Registered' \ made
  <2>1. /\ cluster'.configsvrs = cluster.configsvrs
        /\ cluster'.routers = Append(cluster.routers, i)
        /\ cluster'.shards = cluster.shards
    BY <1>1, <1>6 DEF InitRouter
  <2>2. RouterIds' = RouterIds \cup {i} /\ ShardIds' = ShardIds
    BY <1>1, <2>1, RouterAdded DEF ShardIds
  <2>3. QED
    BY <1>6, <2>1, <2>2 DEF Held, InitRouter, NewServer, Registered
<1>7. ASSUME NEW n \in Shard, NEW i \in Id, InitShard(t, n, i)
      PROVE  Grows /\ From({i}) /\ i \in Registered' \ made
  <2>1. /\ cluster'.configsvrs = cluster.configsvrs
        /\ cluster'.routers = cluster.routers
        /\ cluster'.shards = [cluster.shards EXCEPT ![n] = i]
    BY <1>1, <1>7 DEF InitShard
  <2>2. ShardIds' \subseteq ShardIds \cup {i} /\ RouterIds' = RouterIds
    BY <1>1, <2>1, ShardSet DEF RouterIds
  <2>3. QED
    BY <1>7, <2>1, <2>2 DEF Held, InitShard, NewServer, Registered
<1>8. ASSUME RouterAppend(t)
      PROVE  Grows /\ From({request[t].id})
  <2>1. request[t].id \in Id
    BY <1>1, <1>8 DEF RouterAppend, At, Ready, WithId
  <2>2. /\ cluster'.configsvrs = cluster.configsvrs
        /\ cluster'.routers = Append(cluster.routers, request[t].id)
        /\ cluster'.shards = cluster.shards
    BY <1>1, <1>8 DEF RouterAppend
  <2>3. RouterIds' = RouterIds \cup {request[t].id} /\ ShardIds' = ShardIds
    BY <1>1, <2>1, <2>2, RouterAdded DEF ShardIds
  <2>4. QED
    BY <2>2, <2>3 DEF Held
<1>9. ASSUME ShardStore(t)
      PROVE  Grows /\ From({request[t].id})
  <2>1. request[t].id \in Id /\ request[t].shard \in Shard
    BY <1>1, <1>9 DEF ShardStore, At, Ready, WithId, OnShard
  <2>2. /\ cluster'.configsvrs = cluster.configsvrs
        /\ cluster'.routers = cluster.routers
        /\ cluster'.shards =
             [cluster.shards EXCEPT ![request[t].shard] = request[t].id]
    BY <1>1, <1>9 DEF ShardStore
  <2>3. ShardIds' \subseteq ShardIds \cup {request[t].id} /\ RouterIds' = RouterIds
    BY <1>1, <2>1, <2>2, ShardSet DEF RouterIds
  <2>4. QED
    BY <2>2, <2>3 DEF Held
<1>10. ASSUME ShardPop(t)
       PROVE  Grows /\ From({})
  <2>1. request[t].shard \in Shard
    BY <1>1, <1>10 DEF ShardPop, At, Ready, OnShard
  <2>2. CASE cluster' = cluster
    BY <1>2, <2>2
  <2>3. CASE cluster' # cluster
    <3>1. /\ cluster'.configsvrs = cluster.configsvrs
          /\ cluster'.routers = cluster.routers
          /\ cluster'.shards = [cluster.shards EXCEPT ![request[t].shard] = NoId]
      BY <1>1, <1>10, <2>3 DEF ShardPop
    <3>2. ShardIds' \subseteq ShardIds /\ RouterIds' = RouterIds
      BY <1>1, <2>1, <3>1, ShardSet DEF RouterIds
    <3>3. QED
      BY <3>1, <3>2 DEF Held
  <2>4. QED
    BY <2>2, <2>3
<1>11. ASSUME RouterForget(t)
       PROVE  From({})
  <2>1. ASSUME NEW k \in 1..Len(cluster.routers),
               cluster' = [cluster EXCEPT !.routers = RemoveAt(@, k)]
        PROVE  From({})
    <3>1. /\ cluster'.configsvrs = cluster.configsvrs
          /\ cluster'.routers = RemoveAt(cluster.routers, k)
          /\ cluster'.shards = cluster.shards
      BY <1>1, <2>1
    <3>2. RouterIds' \subseteq RouterIds /\ ShardIds' = ShardIds
      BY <1>1, <3>1, RouterDropped DEF ShardIds
    <3>3. QED
      BY <3>1, <3>2 DEF Held
  <2>2. QED
    BY <1>2, <1>11, <2>1 DEF RouterForget
<1>12. ASSUME CleanupEnds(t)
       PROVE  From({})
  <2>1. CASE cluster' = cluster
    BY <1>2, <2>1
  <2>2. CASE cluster' # cluster
    <3>1. cluster'.routers = <<>> /\ cluster'.configsvrs = {}
            /\ cluster'.shards = [n \in Shard |-> NoId]
      BY <1>1, <1>12, <2>2 DEF CleanupEnds
    <3>2. QED
      BY <3>1, ListsGo DEF Held
  <2>3. QED
    BY <2>1, <2>2
<1> HIDE DEF Grows, From
<1>13. \/ Grows /\ From({})
       \/ From({}) /\ (RouterForget(t) \/ CleanupEnds(t))
       \/ Grows /\ From({request[t].id}) /\ (RouterAppend(t) \/ ShardStore(t))
       \/ \E i \in Id : Grows /\ From({i}) /\ i \in Registered' \ made
  BY <1>3, <1>4, <1>5, <1>6, <1>7, <1>8, <1>9, <1>10, <1>11, <1>12, <1>30
     DEF Step
<1>14. QED
  BY <1>13 DEF Grows, From

\* When a cluster is stored or built it was so before, or is the first.
LEMMA Begun ==
  ASSUME TypeInv, Alone, NEW t \in Thread, Receive(t) \/ Step(t), ~beside'
  PROVE  /\ ~beside
         /\ stored' \/ Building' => stored \/ Building \/ (made = {} /\ Receive(t))
<1>1. \A u \in Thread \ {t} : request'[u] = request[u]
  BY OthersStay
<1>2. /\ Creating \cap Cleaning = {} /\ Creating \cap Working = {}
      /\ "idle" \notin Creating /\ "register" \in Creating /\ Idle.pc = "idle"
      /\ "store" \in Working
  BY DEF Creating, Cleaning, Working, OnShard, OnRouter, Idle
<1>3. DOMAIN request = Thread
  BY Fields DEF TypeInv
<1>4. CASE Step(t) /\ ~Store(t) /\ ~Register(t)
  <2>1. /\ stored' = stored /\ beside' = beside
        /\ request'[t].pc \in Creating => request[t].pc \in Creating
    BY <1>2, <1>4, GoesOn
  <2>2. QED
    BY <1>1, <2>1 DEF Building
<1>5. CASE Store(t) \/ Register(t)
  <2>1. /\ beside' = beside
        /\ request[t].pc \in {"store", "register"}
    BY <1>5 DEF Store, Register, history, At
  <2>2. QED
    BY <1>2, <2>1 DEF Building, Alone
<1>6. CASE Receive(t)
  <2>1. CASE \E l \in BOOLEAN, r \in 0..MaxRouters, s \in SUBSET Shard :
               Create(t, l, r, s)
    BY <1>6, <2>1 DEF Create, history
  <2>2. CASE Delete(t)
    BY <2>2 DEF Delete
  <2>3. CASE AddRouter(t) \/ (\E i \in Id : DelRouter(t, i))
               \/ \E n \in Shard, l \in {"shard_create", "removeShard"} :
                    OfShard(t, n, l)
    BY <2>3 DEF AddRouter, DelRouter, OfShard, Address
  <2>4. QED
    BY <1>6, <2>1, <2>2, <2>3 DEF Receive
<1>7. QED
  BY <1>4, <1>5, <1>6

\* What a request removes.
LEMMA ServersAfter ==
  ASSUME NEW t \in Thread, Step(t), ~RouterRemove(t), ~ShardRemove(t),
         request[t].pc \notin Cleaning
  PROVE  /\ servers \subseteq servers' /\ replica_sets \subseteq replica_sets'
         /\ behind' = behind
<1> DEFINE Stay == /\ servers \subseteq servers'
                   /\ replica_sets \subseteq replica_sets' /\ behind' = behind
<1> USE DEF registries, history
<1>1. ASSUME CreateFails(t) \/ NextPhase(t) \/ InitRouterFails(t) \/ Users(t)
               \/ Register(t) \/ RaiseEarly(t) \/ RouterAppend(t)
               \/ RouterForget(t) \/ AddShard(t) \/ AddShardFails(t)
               \/ AnswerLost(t) \/ ShardStore(t) \/ DrainStarts(t)
               \/ DrainGoesOn(t) \/ DrainEnds(t) \/ ShardPop(t) \/ Store(t)
      PROVE  Stay
  BY <1>1, Phases DEF CreateFails, InitRouterFails, Users, Register, RaiseEarly,
     RouterAppend, RouterForget, AddShard, AddShardFails, AnswerLost, ShardStore,
     DrainStarts, DrainGoesOn, DrainEnds, ShardPop, Store
<1>2. ASSUME NEW i \in Id,
             \/ InitConfigrs(t, i) \/ InitRouter(t, i) \/ Restart(t, i)
             \/ RestartFails(t, i) \/ RouterCreate(t, i) \/ ShardCreate(t, i)
             \/ \E n \in Shard : InitShard(t, n, i)
      PROVE  Stay
  BY <1>2 DEF InitConfigrs, InitRouter, Restart, RestartFails, RouterCreate,
     ShardCreate, InitShard, NewServer
<1>3. ASSUME NEW n \in Shard, InitShardFails(t, n)
      PROVE  Stay
  BY <1>3 DEF InitShardFails, NewServer
<1>4. QED
  BY <1>1, <1>2, <1>3 DEF Step, SubmitShard, SubmitRouter, SubmitConfig,
     FutureRemove, CleanupEnds, At, Cleaning

\* The steps after which a request has an id in hand.
LEMMA HandAfter ==
  ASSUME TypeInv, NEW t \in Thread, Step(t)
  PROVE  /\ request'[t].pc = "router_append" =>
              \E i \in Id : RouterCreate(t, i) /\ request'[t].id = i
         /\ request'[t].pc = "addShard" =>
              \E i \in Id : ShardCreate(t, i) /\ request'[t].id = i
         /\ request'[t].pc = "shard_store" =>
              AddShard(t) /\ request'[t].id = request[t].id
         /\ request'[t].pc = "router_forget" =>
              RouterRemove(t) /\ request'[t].id = request[t].id
         /\ request'[t].pc = "shard_pop" => DrainEnds(t)
         /\ request'[t].pc = "shard_remove" => ShardPop(t)
<1> DEFINE Hand == {"router_append", "addShard", "shard_store", "router_forget",
                    "shard_pop", "shard_remove"}
<1>1. /\ DOMAIN request = Thread /\ Idle.pc = "idle"
      /\ DOMAIN request[t] = {"pc", "shard", "id", "n", "names", "futures", "err"}
  BY Fields DEF TypeInv, Idle
<1>2. CASE request[t].pc \in Creating \cup Cleaning
  <2>1. Register(t) => request'[t].pc \notin Hand
    BY <1>1 DEF Register, Reply
  <2>2. ~Store(t) /\ request[t].pc \notin Working
    BY <1>2 DEF Store, At, Creating, Cleaning, Working, OnShard, OnRouter
  <2>3. ~Register(t) => request'[t].pc \in {"idle"} \cup Creating \cup Cleaning
    BY <1>1, <2>2, GoesOn
  <2>4. QED
    BY <2>1, <2>3 DEF Creating, Cleaning
<1>3. CASE request[t].pc \notin Creating \cup Cleaning
  <2>1. ASSUME RaiseEarly(t) \/ AddShardFails(t) \/ AnswerLost(t) \/ Store(t)
                 \/ RouterAppend(t) \/ RouterForget(t) \/ ShardStore(t)
                 \/ DrainStarts(t) \/ DrainGoesOn(t) \/ ShardRemove(t)
        PROVE  request'[t].pc \notin Hand
    <3>1. Reply(t) \/ Goto(t, "store")
      BY <2>1 DEF RaiseEarly, AddShardFails, AnswerLost, Store, RouterAppend,
         RouterForget, ShardStore, DrainStarts, DrainGoesOn, ShardRemove
    <3>2. QED
      BY <1>1, <3>1 DEF Reply, Goto
  <2>2. ASSUME NEW i \in Id, RouterCreate(t, i)
        PROVE  request'[t].pc = "router_append" /\ request'[t].id = i
    BY <1>1, <2>2 DEF RouterCreate
  <2>3. ASSUME NEW i \in Id, ShardCreate(t, i)
        PROVE  request'[t].pc = "addShard" /\ request'[t].id = i
    BY <1>1, <2>3 DEF ShardCreate
  <2>4. ASSUME AddShard(t)
        PROVE  request'[t].pc = "shard_store" /\ request'[t].id = request[t].id
    BY <1>1, <2>4 DEF AddShard, Goto
  <2>5. ASSUME RouterRemove(t)
        PROVE  \/ request'[t].pc = "idle"
               \/ request'[t].pc = "router_forget" /\ request'[t].id = request[t].id
    BY <1>1, <2>5 DEF RouterRemove, Goto, Reply
  <2>6. ASSUME DrainEnds(t)
        PROVE  request'[t].pc = "shard_pop"
    BY <1>1, <2>6 DEF DrainEnds, Goto
  <2>7. ASSUME ShardPop(t)
        PROVE  request'[t].pc \in {"idle", "shard_remove"}
    BY <1>1, <2>7 DEF ShardPop, Reply
  <2>8. /\ ~CreateFails(t) /\ ~NextPhase(t) /\ ~InitRouterFails(t) /\ ~Users(t)
        /\ ~Register(t) /\ ~SubmitShard(t) /\ ~SubmitRouter(t)
        /\ ~SubmitConfig(t) /\ ~CleanupEnds(t)
        /\ \A n \in Shard : ~InitShardFails(t, n)
        /\ \A i \in Id : ~InitConfigrs(t, i) /\ ~InitRouter(t, i)
                           /\ ~Restart(t, i) /\ ~RestartFails(t, i)
        /\ \A n \in Shard, i \in Id : ~InitShard(t, n, i)
        /\ \A i \in Id, err \in BOOLEAN : ~FutureRemove(t, i, err)
    BY <1>3 DEF CreateFails, PhaseEnds, NextPhase, InitRouterFails, Users,
       Register, SubmitShard, SubmitRouter, SubmitConfig, CleanupEnds,
       InitShardFails, InitConfigrs, InitRouter, Restart, RestartFails,
       InitShard, FutureRemove, At, Creating, Cleaning
  <2>9. \/ RaiseEarly(t) \/ AddShardFails(t) \/ AnswerLost(t) \/ Store(t)
        \/ RouterAppend(t) \/ RouterForget(t) \/ ShardStore(t)
        \/ DrainStarts(t) \/ DrainGoesOn(t) \/ ShardRemove(t)
        \/ AddShard(t) \/ RouterRemove(t) \/ DrainEnds(t) \/ ShardPop(t)
        \/ \E i \in Id : RouterCreate(t, i) \/ ShardCreate(t, i)
    BY <2>8 DEF Step
  <2>10. QED
    BY <2>1, <2>2, <2>3, <2>4, <2>5, <2>6, <2>7, <2>9
<1>4. QED
  BY <1>2, <1>3

\* The step of a label.
LEMMA StepAt ==
  ASSUME NEW t \in Thread, Step(t)
  PROVE  /\ At(t, "router_append") => RouterAppend(t)
         /\ At(t, "router_remove") => RouterRemove(t)
         /\ At(t, "router_forget") => RouterForget(t)
         /\ At(t, "addShard") => AddShard(t) \/ AddShardFails(t) \/ AnswerLost(t)
         /\ At(t, "shard_store") => ShardStore(t)
         /\ At(t, "shard_pop") => ShardPop(t)
         /\ At(t, "shard_remove") => ShardRemove(t)
BY DEF Step, CreateFails, PhaseEnds, NextPhase, InitRouterFails, Users, Register,
   InitConfigrs, InitRouter, InitShard, InitShardFails, Restart, RestartFails,
   RouterCreate, ShardCreate, RaiseEarly, RouterAppend, RouterRemove,
   RouterForget, AddShard, AddShardFails, AnswerLost, ShardStore, DrainStarts,
   DrainGoesOn, DrainEnds, ShardPop, ShardRemove, Store, SubmitShard,
   SubmitRouter, SubmitConfig, FutureRemove, CleanupEnds, At, Cleaning

\* The request has made the server and has not listed it yet.
Unlisted == {"router_append", "addShard", "shard_store"}

\* A request has removed the router and has still to take it out of the list.
Leaving(i) == \E t \in Thread : At(t, "router_forget") /\ request[t].id = i

\* What is listed, or is going to be, is registered.
Kept ==
  ~beside =>
    /\ stored \/ Building =>
         \A i \in Held : i \in Registered \cup behind \/ Leaving(i)
    /\ \A t \in Thread :
         /\ request[t].pc \in Unlisted => request[t].id \in servers \cup behind
         /\ At(t, "router_forget") => request[t].id \in RouterIds \cup behind

LEMMA InitKept == Init => Kept
BY DEF Init, Kept, Building, Creating, Unlisted, At, Idle

\* A step that leaves the servers the cluster holds alone.
LEMMA KeptStays ==
  ASSUME Kept, behind \subseteq behind',
         ~beside' => ~beside /\ (stored' \/ Building' =>
                                   stored \/ Building \/ Held' = {}),
         RouterIds \subseteq RouterIds',
         \A i \in Held' : i \in Held \cup Registered' \cup behind',
         \A i \in Held' : i \in Registered => i \in Registered' \cup behind',
         \A t \in Thread :
           /\ request'[t].pc \in Unlisted =>
                \/ request'[t].id \in servers' \cup behind'
                \/ /\ request[t].pc \in Unlisted /\ request'[t].id = request[t].id
                   /\ request[t].id \in servers =>
                        request[t].id \in servers' \cup behind'
           /\ At(t, "router_forget")' <=> At(t, "router_forget")
           /\ At(t, "router_forget")' => request'[t].id = request[t].id
  PROVE  Kept'
<1>1. ASSUME ~beside', stored' \/ Building', NEW i \in Held'
      PROVE  i \in Registered' \cup behind' \/ Leaving(i)'
  BY <1>1 DEF Kept, Leaving, At
<1>2. ASSUME ~beside', NEW t \in Thread
      PROVE  /\ request'[t].pc \in Unlisted =>
                  request'[t].id \in servers' \cup behind'
             /\ At(t, "router_forget")' => request'[t].id \in RouterIds' \cup behind'
  BY <1>2 DEF Kept, At
<1>3. QED
  BY <1>1, <1>2 DEF Kept

LEMMA KeptStep ==
  ASSUME TypeInv, Alone, OwnedOnce, Kept, [Next]_vars
  PROVE  Kept'
<1> USE DEF registries, history
<1>1. /\ StateOK /\ DOMAIN request = Thread
      /\ \A t \in Thread : Ready(request[t]) /\ DOMAIN request[t] =
           {"pc", "shard", "id", "n", "names", "futures", "err"}
      /\ DOMAIN cluster = {"login", "configsvrs", "routers", "shards"}
      /\ Idle.pc = "idle"
      /\ RoutersDistinct /\ ShardsDistinct
  BY Fields, ClusterFields DEF TypeInv, Idle, OwnedOnce
<1>2. \A t \in Thread : Owns(t) => request[t].id \notin Held
  BY DEF OwnedOnce
<1> DEFINE Others(t) == \A u \in Thread \ {t} : request'[u] = request[u]
           Quiet(t) == /\ request'[t].pc \notin Unlisted \cup {"router_forget"}
                       /\ request[t].pc # "router_forget"
           SameServers == /\ servers' = servers /\ replica_sets' = replica_sets
                          /\ behind' = behind
<1>3. ASSUME NEW t \in Thread, Receive(t)
      PROVE  Kept'
  <2>1. SameServers /\ RouterIds' = RouterIds /\ Held' = Held
    BY <1>3, Requests, SameLists DEF Held
  <2>2. Quiet(t) /\ Others(t)
    BY <1>3, Requests, OthersStay DEF Unlisted
  <2>3. ~beside' => ~beside /\ (stored' \/ Building' =>
                                   stored \/ Building \/ Held' = {})
    BY <1>3, <2>1, Begun DEF OwnedOnce
  <2>4. QED
    BY <2>1, <2>2, <2>3, KeptStays DEF Registered, At
<1>4. ASSUME NEW t \in Thread, Step(t), request[t].pc \in Cleaning
      PROVE  Kept'
  <2>1. /\ request'[t].pc \notin Creating \cup Unlisted \cup {"router_forget"}
        /\ ~beside' => ~beside /\ ~stored'
    <3>1. ~Store(t) /\ ~Register(t)
      BY <1>4 DEF Store, Register, At, Cleaning
    <3>2. request[t].pc \notin Creating \cup Working
      BY <1>4 DEF Cleaning, Creating, Working, OnShard, OnRouter
    <3>3. stored' = stored /\ beside' = beside
            /\ (request'[t] = Idle \/ request'[t].pc \in Cleaning)
      BY <1>4, <3>1, <3>2, GoesOn
    <3>4. request'[t].pc = "idle" \/ request'[t].pc \in Cleaning
      BY <1>1, <3>3
    <3>5. QED
      BY <1>4, <3>3, <3>4 DEF Alone, Cleaning, Creating, Unlisted
  <2>2. ~beside' => \A u \in Thread \ {t} : request'[u].pc = "idle"
    BY <1>4, <2>1, OthersStay DEF Alone, At
  <2>3. ~beside' => \A u \in Thread :
          request'[u].pc \notin Creating \cup Unlisted \cup {"router_forget"}
    BY <2>1, <2>2 DEF Creating, Unlisted
  <2>4. QED
    BY <2>1, <2>3 DEF Kept, Building, At
<1>5. ASSUME NEW t \in Thread, Step(t), ~Receive(t), request[t].pc \notin Cleaning,
             ~RouterRemove(t), ~RouterForget(t), ~ShardRemove(t)
      PROVE  Kept'
  <2>1. Others(t)
    BY <1>5, OthersStay
  <2>2. ~beside' => ~beside /\ (stored' \/ Building' =>
                                   stored \/ Building \/ Held' = {})
    BY <1>5, Begun
  <2>3. /\ servers \subseteq servers' /\ Registered \subseteq Registered'
        /\ behind' = behind
    BY <1>5, ServersAfter DEF Registered
  <2>4. /\ RouterIds \subseteq RouterIds'
        /\ \A i \in Held' : \/ i \in Held \cup Registered'
                            \/ Owns(t) /\ request[t].pc \in Unlisted /\ i = request[t].id
    <3>1. /\ RouterAppend(t) \/ ShardStore(t) =>
               Owns(t) /\ request[t].pc \in Unlisted
          /\ ~CleanupEnds(t)
      BY <1>5 DEF RouterAppend, ShardStore, CleanupEnds, At, Owns, Owning,
         Unlisted, Cleaning
    <3>2. QED
      BY <1>5, <3>1, HeldAfter
  <2>5. /\ request'[t].pc \in Unlisted =>
                \/ request'[t].id \in servers' \cup behind'
                \/ /\ request[t].pc \in Unlisted /\ request'[t].id = request[t].id
        /\ request'[t].pc # "router_forget" /\ request[t].pc # "router_forget"
    <3>1. \A i \in Id : RouterCreate(t, i) \/ ShardCreate(t, i) => i \in servers'
      BY DEF RouterCreate, ShardCreate, NewServer
    <3>2. AddShard(t) => request[t].pc \in Unlisted
      BY DEF AddShard, At, Unlisted
    <3>3. request[t].pc # "router_forget"
      BY <1>5, StepAt DEF At
    <3>4. QED
      BY <1>5, <3>1, <3>2, <3>3, HandAfter DEF Unlisted
  <2>6. CASE ~beside
    <3>1. \A i \in Held' : i \in Held \cup Registered' \cup behind'
      BY <2>3, <2>4, <2>6 DEF Kept, Registered
    <3>2. QED
      BY <2>1, <2>2, <2>3, <2>4, <2>5, <3>1, KeptStays DEF At
  <2>7. CASE beside
    BY <2>2, <2>7 DEF Kept
  <2>8. QED
    BY <2>6, <2>7
<1>6. ASSUME NEW t \in Thread, RouterRemove(t)
      PROVE  Kept'
  <2> DEFINE i == request[t].id
  <2>1. Others(t)
    BY <1>6, OthersStay DEF Step
  <2>2. /\ stored' = stored /\ beside' = beside /\ behind \subseteq behind'
        /\ servers' = servers \ {i} /\ replica_sets' = replica_sets
        /\ cluster' = cluster /\ request[t].pc = "router_remove"
        /\ i \in servers => /\ request'[t].pc = "router_forget"
                            /\ request'[t].id = i
                            /\ i \in RouterIds \cup behind'
        /\ i \notin servers => request'[t].pc = "idle"
    BY <1>1, <1>6 DEF RouterRemove, Goto, Reply, At
  <2>3. RouterIds' = RouterIds /\ Held' = Held /\ servers \cap replica_sets = {}
    BY <2>2, SameLists DEF Held, OwnedOnce
  <2>4. Building' => Building
    BY <2>1, <2>2 DEF Building, Creating
  <2>5. \A u \in Thread \ {t} : request[u].pc \in Unlisted => request[u].id # i
                                  \/ i \notin RouterIds
    BY <1>2 DEF Held, Owns, Owning, Unlisted
  <2>6. i \in servers \ RouterIds => i \in behind'
    BY <1>6 DEF RouterRemove
  <2>7. ASSUME ~beside', stored' \/ Building', NEW h \in Held'
        PROVE  h \in Registered' \cup behind' \/ Leaving(h)'
    <3>1. h \in Registered \cup behind \/ Leaving(h)
      BY <2>2, <2>3, <2>4, <2>7 DEF Kept
    <3>2. CASE Leaving(h)
      BY <2>1, <2>2, <3>2 DEF Leaving, At
    <3>3. CASE h = i /\ ~Leaving(h)
      <4>1. CASE i \in servers
        BY <2>2, <3>3, <4>1 DEF Leaving, At
      <4>2. CASE i \notin servers
        BY <2>2, <3>1, <3>3, <4>2 DEF Registered
      <4>3. QED
        BY <4>1, <4>2
    <3>4. CASE h # i /\ ~Leaving(h)
      BY <2>2, <3>1, <3>4 DEF Registered
    <3>5. QED
      BY <3>2, <3>3, <3>4
  <2>8. ASSUME ~beside', NEW u \in Thread
        PROVE  /\ request'[u].pc \in Unlisted =>
                    request'[u].id \in servers' \cup behind'
               /\ At(u, "router_forget")' => request'[u].id \in RouterIds' \cup behind'
    <3>1. CASE u = t
      BY <2>2, <2>3, <3>1 DEF Unlisted, At
    <3>2. CASE u # t
      BY <2>1, <2>2, <2>3, <2>5, <2>6, <2>8, <3>2 DEF Kept, At
    <3>3. QED
      BY <3>1, <3>2
  <2>9. QED
    BY <2>7, <2>8 DEF Kept
<1>7. ASSUME NEW t \in Thread, RouterForget(t)
      PROVE  Kept'
  <2> DEFINE i == request[t].id
  <2>1. Others(t)
    BY <1>7, OthersStay DEF Step
  <2>2. /\ stored' = stored /\ beside' = beside /\ behind' = behind
        /\ servers' = servers /\ replica_sets' = replica_sets
        /\ request[t].pc = "router_forget"
        /\ request'[t].pc \in {"idle", "store"}
    BY <1>1, <1>7 DEF RouterForget, Goto, Reply, At
  <2>3. Building' => Building
    BY <2>1, <2>2 DEF Building, Creating
  <2>4. \A u \in Thread \ {t} : At(u, "router_forget") => request[u].id # i
    BY <2>2 DEF OwnedOnce, At
  <2>5. Held' \subseteq Held
    <3>1. Step(t) /\ ~RouterAppend(t) /\ ~ShardStore(t)
      BY <1>7, <2>2 DEF RouterAppend, ShardStore, At, Step
    <3>2. Registered' \subseteq made
      BY <2>2 DEF Registered, OwnedOnce
    <3>3. QED
      BY <3>1, <3>2, HeldAfter
  <2>6. /\ RouterIds \ {i} \subseteq RouterIds'
        /\ i \in Held' /\ ~beside => i \in behind
    <3>1. ASSUME NEW k \in 1..Len(cluster.routers), cluster.routers[k] = i,
                 cluster' = [cluster EXCEPT !.routers = RemoveAt(@, k)]
          PROVE  RouterIds \ {i} \subseteq RouterIds' /\ i \notin Held'
      <4>1. /\ cluster'.routers = RemoveAt(cluster.routers, k)
            /\ cluster'.configsvrs = cluster.configsvrs
            /\ cluster'.shards = cluster.shards
        BY <1>1, <3>1
      <4>2. RouterIds' = RouterIds \ {i} /\ ShardIds' = ShardIds
        BY <1>1, <3>1, <4>1, RouterDropped DEF ShardIds
      <4>3. i \in RouterIds
        BY <3>1 DEF RouterIds
      <4>4. QED
        BY <4>1, <4>2, <4>3 DEF Held, OwnedOnce, Listed
    <3>2. CASE i \notin RouterIds /\ cluster' = cluster
      BY <2>2, <3>2, SameLists DEF Kept, At
    <3>3. QED
      BY <1>7, <3>1, <3>2 DEF RouterForget
  <2>7. ASSUME ~beside', stored' \/ Building', NEW h \in Held'
        PROVE  h \in Registered' \cup behind' \/ Leaving(h)'
    <3>1. h \in Registered \cup behind \/ Leaving(h)
      BY <2>2, <2>3, <2>5, <2>7 DEF Kept
    <3>2. CASE h = i
      BY <2>2, <2>6, <2>7, <3>2
    <3>3. CASE h # i
      BY <2>1, <2>2, <3>1, <3>3 DEF Leaving, At, Registered
    <3>4. QED
      BY <3>2, <3>3
  <2>8. ASSUME ~beside', NEW u \in Thread
        PROVE  /\ request'[u].pc \in Unlisted =>
                    request'[u].id \in servers' \cup behind'
               /\ At(u, "router_forget")' => request'[u].id \in RouterIds' \cup behind'
    <3>1. CASE u = t
      BY <2>2, <3>1 DEF Unlisted, At
    <3>2. CASE u # t
      BY <2>1, <2>2, <2>4, <2>6, <2>8, <3>2 DEF Kept, At
    <3>3. QED
      BY <3>1, <3>2
  <2>9. QED
    BY <2>7, <2>8 DEF Kept
<1>8. ASSUME NEW t \in Thread, ShardRemove(t)
      PROVE  Kept'
  <2> DEFINE i == request[t].id
  <2>1. Others(t)
    BY <1>8, OthersStay DEF Step
  <2>2. /\ stored' = stored /\ beside' = beside /\ behind' = behind
        /\ servers' = servers \ {i} /\ replica_sets' = replica_sets
        /\ cluster' = cluster
        /\ request[t].pc = "shard_remove"
        /\ request'[t].pc \in {"idle", "store"}
    BY <1>1, <1>8 DEF ShardRemove, Goto, Reply, At
  <2>3. Building' => Building
    BY <2>1, <2>2 DEF Building, Creating
  <2>4. RouterIds' = RouterIds /\ Held' = Held /\ i \notin Held
    BY <1>2, <2>2, SameLists DEF Held, Owns, Owning
  <2>5. \A u \in Thread \ {t} : request[u].pc \in Unlisted => request[u].id # i
    BY <2>2 DEF OwnedOnce, Owns, Owning, Unlisted
  <2>6. \A u \in Thread \ {t} : request'[u].pc \in Unlisted =>
          (request[u].id \in servers => request[u].id \in servers')
    BY <2>1, <2>2, <2>5
  <2>7. request'[t].pc \notin Unlisted \cup {"router_forget"}
    BY <2>2 DEF Unlisted
  <2>8. QED
    BY <2>1, <2>2, <2>3, <2>4, <2>6, <2>7, KeptStays DEF Registered, At
<1>9. CASE UNCHANGED vars \/ \E i \in Id : RemoveBehind(i)
  <2>1. /\ stored' = stored /\ beside' = beside /\ behind \subseteq behind'
        /\ cluster' = cluster /\ request' = request
        /\ \A i \in servers : i \in servers' \cup behind'
        /\ \A i \in replica_sets : i \in replica_sets' \cup behind'
    BY <1>9 DEF RemoveBehind, vars
  <2>2. RouterIds' = RouterIds /\ Held' = Held
    BY <2>1, SameLists DEF Held
  <2>3. Building' <=> Building
    BY <2>1 DEF Building
  <2>4. QED
    BY <2>1, <2>2, <2>3, KeptStays DEF Registered, At
<1>10. QED
  BY <1>3, <1>4, <1>5, <1>6, <1>7, <1>8, <1>9 DEF Next

-----------------------------------------------------------------------------
(***************************************************************************)
(* The shards of the cluster and the catalog.                              *)
(***************************************************************************)
LEMMA ShardFieldAfter ==
  ASSUME TypeInv, NEW t \in Thread, Step(t)
  PROVE  request'[t].shard = request[t].shard \/ request'[t] = Idle
<1> DEFINE Same == request'[t].shard = request[t].shard
<1>1. /\ DOMAIN request = Thread
      /\ DOMAIN request[t] = {"pc", "shard", "id", "n", "names", "futures", "err"}
  BY Fields DEF TypeInv
<1>2. ASSUME CreateFails(t) \/ Register(t) \/ RaiseEarly(t) \/ AddShardFails(t)
               \/ AnswerLost(t) \/ Store(t) \/ CleanupEnds(t)
      PROVE  request'[t] = Idle
  <2>1. Reply(t)
    BY <1>2 DEF CreateFails, Register, RaiseEarly, AddShardFails, AnswerLost,
       Store, CleanupEnds
  <2>2. QED
    BY <1>1, <2>1 DEF Reply
<1>3. ASSUME NextPhase(t) \/ RouterAppend(t) \/ RouterRemove(t)
               \/ RouterForget(t) \/ AddShard(t) \/ ShardStore(t)
               \/ DrainStarts(t) \/ DrainGoesOn(t) \/ DrainEnds(t)
               \/ ShardRemove(t)
      PROVE  Same \/ request'[t] = Idle
  <2>1. Reply(t) \/ \E l \in Label : Goto(t, l)
    BY <1>3, Phases, Labels DEF RouterAppend, RouterRemove, RouterForget,
       AddShard, ShardStore, DrainStarts, DrainGoesOn, DrainEnds, ShardRemove
  <2>2. QED
    BY <1>1, <2>1 DEF Reply, Goto
<1>4. ASSUME InitRouterFails(t) \/ Users(t) \/ SubmitRouter(t)
               \/ SubmitConfig(t) \/ \E n \in Shard : InitShardFails(t, n)
      PROVE  Same
  <2>1. CASE InitRouterFails(t) \/ Users(t)
    BY <1>1, <2>1 DEF InitRouterFails, Users
  <2>2. CASE SubmitRouter(t)
    BY <1>1, <2>2 DEF SubmitRouter, Goto
  <2>3. CASE SubmitConfig(t)
    BY <1>1, <2>3 DEF SubmitConfig
  <2>4. CASE \E n \in Shard : InitShardFails(t, n)
    BY <1>1, <2>4 DEF InitShardFails
  <2>5. QED
    BY <1>4, <2>1, <2>2, <2>3, <2>4
<1>30. ASSUME SubmitShard(t)
       PROVE  Same
  <2>1. \E r : r.shard = request[t].shard /\ request' = [request EXCEPT ![t] = r]
    BY <1>1, <1>30 DEF SubmitShard
  <2>2. QED
    BY <1>1, <2>1
<1>5. ASSUME NEW i \in Id,
             \/ InitConfigrs(t, i) \/ InitRouter(t, i) \/ Restart(t, i)
             \/ RestartFails(t, i) \/ RouterCreate(t, i) \/ ShardCreate(t, i)
             \/ \E n \in Shard : InitShard(t, n, i)
             \/ \E err \in BOOLEAN : FutureRemove(t, i, err)
      PROVE  Same
  BY <1>1, <1>5 DEF InitConfigrs, InitRouter, Restart, RestartFails,
     RouterCreate, ShardCreate, InitShard, FutureRemove, Goto
<1>6. ASSUME ShardPop(t)
      PROVE  Same \/ request'[t] = Idle
  BY <1>1, <1>6 DEF ShardPop, Reply
<1>7. QED
  BY <1>2, <1>3, <1>4, <1>5, <1>6, <1>30 DEF Step

\* The steps that change the catalog, or the shards.
LEMMA ShardsAfter ==
  ASSUME TypeInv, NEW t \in Thread, Step(t), ~AddShard(t), ~AnswerLost(t),
         ~DrainStarts(t), ~DrainEnds(t), ~ShardStore(t), ~ShardPop(t),
         ~CleanupEnds(t), \A n \in Shard, i \in Id : ~InitShard(t, n, i)
  PROVE  /\ UNCHANGED <<catalog, unsure>>
         /\ cluster'.shards = cluster.shards
<1> DEFINE Same == UNCHANGED <<catalog, unsure>> /\ cluster'.shards = cluster.shards
<1>1. DOMAIN cluster = {"login", "configsvrs", "routers", "shards"}
  BY ClusterFields DEF TypeInv
<1> USE DEF history
<1>2. ASSUME CreateFails(t) \/ NextPhase(t) \/ InitRouterFails(t) \/ Users(t)
               \/ Register(t) \/ RaiseEarly(t) \/ RouterRemove(t)
               \/ AddShardFails(t) \/ DrainGoesOn(t) \/ ShardRemove(t)
               \/ Store(t) \/ SubmitShard(t) \/ SubmitRouter(t)
               \/ SubmitConfig(t) \/ \E n \in Shard : InitShardFails(t, n)
      PROVE  Same
  BY <1>2, Phases DEF CreateFails, InitRouterFails, Users, Register, RaiseEarly,
     RouterRemove, AddShardFails, DrainGoesOn, ShardRemove, Store, SubmitShard,
     SubmitRouter, SubmitConfig, InitShardFails
<1>3. ASSUME NEW i \in Id,
             \/ InitConfigrs(t, i) \/ InitRouter(t, i) \/ Restart(t, i)
             \/ RestartFails(t, i) \/ RouterCreate(t, i) \/ ShardCreate(t, i)
             \/ \E err \in BOOLEAN : FutureRemove(t, i, err)
      PROVE  Same
  BY <1>1, <1>3 DEF InitConfigrs, InitRouter, Restart, RestartFails,
     RouterCreate, ShardCreate, FutureRemove
<1>4. ASSUME RouterAppend(t) \/ RouterForget(t)
      PROVE  Same
  BY <1>1, <1>4 DEF RouterAppend, RouterForget
<1>5. QED
  BY <1>2, <1>3, <1>4 DEF Step

\* The catalog and the requests: for a shard that is not unsure, one request
\* at a time, and its server is nobody else's.
Placed ==
  \A n \in Shard \ unsure :
    /\ \A t, u \in Thread : request[t].shard = n /\ request[u].shard = n => t = u
    /\ catalog[n].id # NoId =>
         /\ \A m \in Shard \ {n} : cluster.shards[m] # catalog[n].id
         /\ \A t \in Thread : Owns(t) /\ request[t].id = catalog[n].id =>
              At(t, "shard_store") /\ request[t].shard = n
    /\ \A t \in Thread : request[t].shard = n =>
         /\ At(t, "shard_store") => catalog[n].id = request[t].id
         /\ At(t, "shard_pop") => catalog[n] = NoEntry

\* A request is between the change of the catalog and that of _shards.
Between(n) == \E t \in Thread : request[t].shard = n
                /\ request[t].pc \in {"shard_store", "shard_pop"}

Agreeing ==
  ~beside /\ (stored \/ Building) =>
    \A n \in Shard \ unsure :
      /\ catalog[n].id = cluster.shards[n] \/ Between(n)
      /\ \A t \in Thread : At(t, "shard_store") /\ request[t].shard = n =>
           cluster.shards[n] = NoId

LEMMA InitPlaced == Init => Placed /\ Agreeing
<1> SUFFICES ASSUME Init
             PROVE  Placed /\ Agreeing
  OBVIOUS
<1>1. \A t \in Thread : request[t].pc = "idle" /\ request[t].shard = NoShard
  BY DEF Init, Idle
<1>2. \A n \in Shard : catalog[n].id = NoId /\ cluster.shards[n] = NoId
  BY DEF Init, NoEntry
<1>3. QED
  BY <1>1, <1>2, ShardedClusterAssumption DEF Placed, Agreeing, Owns, Owning, At

\* A step that changes neither.
SameShards ==
  \A n \in Shard : /\ catalog'[n].id = catalog[n].id
                   /\ catalog[n] = NoEntry => catalog'[n] = NoEntry
                   /\ cluster'.shards[n] = cluster.shards[n]

SameHands ==
  \A t \in Thread :
    /\ request'[t].shard = request[t].shard \/ request'[t] = Idle
    /\ Owns(t)' => \/ request'[t].id \notin made
                   \/ /\ Owns(t) /\ request'[t].id = request[t].id
                      /\ request'[t].pc = request[t].pc
                      /\ request'[t].shard = request[t].shard
    /\ request'[t].pc \in {"shard_store", "shard_pop"} =>
         request'[t].pc = request[t].pc /\ request'[t].id = request[t].id
    /\ request[t].pc \in {"shard_store", "shard_pop"} => request'[t] = request[t]

LEMMA PlacedStays ==
  ASSUME OwnedOnce, Placed, Alone, unsure \subseteq unsure',
         SameShards, SameHands
  PROVE  /\ Placed'
         /\ Agreeing /\ (~beside' => ~beside /\ (stored' \/ Building' =>
                            stored \/ Building \/ made = {})) => Agreeing'
<1>1. /\ Idle.pc = "idle" /\ Idle.shard = NoShard /\ NoShard \notin Shard
      /\ NoId \notin Id
      /\ \A n \in Shard : catalog[n].id \in made \cup {NoId}
  BY ShardedClusterAssumption DEF Idle, OwnedOnce
<1>2. Placed'
  <2>1. SUFFICES ASSUME NEW n \in Shard \ unsure'
                 PROVE  /\ \A t, u \in Thread :
                             request'[t].shard = n /\ request'[u].shard = n => t = u
                        /\ catalog'[n].id # NoId =>
                             /\ \A m \in Shard \ {n} : cluster'.shards[m] # catalog'[n].id
                             /\ \A t \in Thread : Owns(t)' /\ request'[t].id = catalog'[n].id =>
                                  At(t, "shard_store")' /\ request'[t].shard = n
                        /\ \A t \in Thread : request'[t].shard = n =>
                             /\ At(t, "shard_store")' => catalog'[n].id = request'[t].id
                             /\ At(t, "shard_pop")' => catalog'[n] = NoEntry
    BY DEF Placed
  <2>2. n \in Shard \ unsure
    OBVIOUS
  <2>3. \A t \in Thread : request'[t].shard = n => request[t].shard = n
    BY <1>1 DEF SameHands
  <2>4. QED
    BY <1>1, <2>2, <2>3 DEF Placed, At, SameShards, SameHands
<1>3. ASSUME Agreeing, ~beside', stored' \/ Building', ~beside,
             stored \/ Building \/ made = {}, NEW n \in Shard \ unsure'
      PROVE  /\ catalog'[n].id = cluster'.shards[n] \/ Between(n)'
             /\ \A t \in Thread : At(t, "shard_store")' /\ request'[t].shard = n =>
                  cluster'.shards[n] = NoId
  <2>1. n \in Shard \ unsure
    OBVIOUS
  <2>2. CASE stored \/ Building
    <3>1. \A t \in Thread : At(t, "shard_store")' /\ request'[t].shard = n =>
             At(t, "shard_store") /\ request[t].shard = n
      BY <1>1 DEF At, SameHands
    <3>2. Between(n) => Between(n)'
      BY DEF Between, SameHands
    <3>3. QED
      BY <1>3, <2>1, <2>2, <3>1, <3>2 DEF Agreeing, SameShards
  <2>3. CASE made = {}
    <3>1. catalog[n].id = NoId
      BY <1>1, <2>1, <2>3
    <3>2. cluster.shards[n] = NoId
      BY <2>1, <2>3 DEF OwnedOnce, Held, ShardIds
    <3>3. QED
      BY <2>1, <3>1, <3>2 DEF SameShards
  <2>4. QED
    BY <1>3, <2>2, <2>3
<1>4. QED
  BY <1>2, <1>3 DEF Agreeing

LEMMA PlacedStep ==
  ASSUME TypeInv, Alone, OwnedOnce, Placed, Agreeing, [Next]_vars
  PROVE  Placed' /\ Agreeing'
<1> USE DEF registries, history
<1>1. /\ StateOK /\ DOMAIN request = Thread
      /\ \A t \in Thread : Ready(request[t])
      /\ \A t \in Thread : DOMAIN request[t] =
           {"pc", "shard", "id", "n", "names", "futures", "err"}
      /\ DOMAIN cluster = {"login", "configsvrs", "routers", "shards"}
      /\ Idle.pc = "idle" /\ Idle.shard = NoShard /\ NoShard \notin Shard
      /\ NoId \notin Id
      /\ catalog \in [Shard -> Entry] /\ cluster.shards \in [Shard -> Id \cup {NoId}]
  BY Fields, ClusterFields, ShardedClusterAssumption DEF TypeInv, Idle, StateOK
<1>2. /\ \A n \in Shard : catalog[n].id \in made \cup {NoId}
      /\ \A n \in Shard : cluster.shards[n] \in made \cup {NoId}
  BY DEF OwnedOnce, Held, ShardIds
<1> DEFINE Others(t) == \A u \in Thread \ {t} : request'[u] = request[u]
           Was == stored' \/ Building' => stored \/ Building \/ made = {}
           Goes == Placed' /\ Agreeing'
<1>3. \A t \in Thread : (Receive(t) \/ Step(t)) /\ ~beside' => ~beside /\ Was
  BY Begun
<1>4. ASSUME NEW t \in Thread, Receive(t)
      PROVE  Goes
  <2>1. SameShards /\ Others(t) /\ request[t] = Idle
    BY <1>4, Requests, OthersStay DEF Alone, At, SameShards
  <2>2. request'[t].pc \in {"configrs", "router_create", "router_remove",
                            "shard_create", "removeShard", "cleanup_shards"}
    BY <1>4, Requests
  <2>3. ~Owns(t)' /\ request'[t].pc \notin {"shard_store", "shard_pop"}
    BY <2>2 DEF Owns, Owning
  <2>4. CASE \E l \in BOOLEAN, r \in 0..MaxRouters, s \in SUBSET Shard :
               Create(t, l, r, s)
    <3>1. unsure' = unsure /\ request'[t].shard = request[t].shard
      BY <1>1, <2>4 DEF Create
    <3>2. SameHands
      BY <1>1, <2>1, <2>3, <3>1 DEF Owns, SameHands
    <3>3. QED
      BY <1>3, <1>4, <2>1, <3>1, <3>2, PlacedStays
  <2>5. CASE AddRouter(t) \/ Delete(t) \/ \E i \in Id : DelRouter(t, i)
    <3>1. unsure' = unsure /\ request'[t].shard = request[t].shard
      BY <1>1, <2>5 DEF AddRouter, Delete, DelRouter, Goto
    <3>2. SameHands
      BY <1>1, <2>1, <2>3, <3>1 DEF Owns, SameHands
    <3>3. QED
      BY <1>3, <1>4, <2>1, <3>1, <3>2, PlacedStays
  <2>6. ASSUME NEW n \in Shard, NEW l \in {"shard_create", "removeShard"},
               OfShard(t, n, l)
        PROVE  Goes
    <3>1. /\ catalog' = catalog /\ cluster' = cluster /\ stored' = stored
          /\ request'[t].shard = n /\ request'[t].pc = l /\ beside' = beside
          /\ unsure \subseteq unsure'
          /\ n \in unsure' \/ \A u \in Thread : request[u].shard # n
      BY <1>1, <2>6 DEF OfShard, Address
    <3>2. Building' => Building
      BY <2>1, <3>1 DEF Building, Creating
    <3>3. Placed'
      BY <2>1, <2>3, <3>1 DEF Placed, Owns, At
    <3>4. \A m \in Shard : Between(m) => Between(m)'
      BY <1>1, <2>1, <3>1 DEF Between
    <3>5. Agreeing'
      BY <2>1, <2>3, <3>1, <3>2, <3>4 DEF Agreeing, At
    <3>6. QED
      BY <3>3, <3>5
  <2>7. QED
    BY <1>4, <2>4, <2>5, <2>6 DEF Receive
<1>5. ASSUME NEW t \in Thread, Step(t), ~Receive(t), ~AddShard(t), ~AnswerLost(t),
             ~DrainEnds(t), ~ShardStore(t), ~ShardPop(t),
             ~CleanupEnds(t), \A n \in Shard, i \in Id : ~InitShard(t, n, i)
      PROVE  Goes
  <2>1. Others(t) /\ (request'[t].shard = request[t].shard \/ request'[t] = Idle)
    BY <1>5, OthersStay, ShardFieldAfter
  <2>2. SameShards /\ unsure' = unsure
    <3>1. CASE DrainStarts(t)
      <4>1. request[t].shard \in Shard
        BY <1>1, <3>1 DEF DrainStarts, At, Ready, OnShard
      <4>2. /\ cluster' = cluster /\ unsure' = unsure
            /\ catalog' = [catalog EXCEPT ![request[t].shard].state = "draining"]
            /\ catalog[request[t].shard].state = "in"
        BY <3>1 DEF DrainStarts
      <4>3. QED
        BY <1>1, <4>1, <4>2 DEF Entry, NoEntry, SameShards
    <3>2. CASE ~DrainStarts(t)
      BY <1>5, <3>2, ShardsAfter DEF SameShards
    <3>3. QED
      BY <3>1, <3>2
  <2>3. /\ request'[t].pc \notin {"shard_store", "shard_pop"}
        /\ request[t].pc \notin {"shard_store", "shard_pop"}
    BY <1>5, HandAfter, StepAt DEF At
  <2>4. Owns(t)' => request'[t].id \notin made
    <3>1. \A i \in Id : RouterCreate(t, i) \/ ShardCreate(t, i) => i \notin made
      BY DEF RouterCreate, ShardCreate, NewServer
    <3>2. SUFFICES ASSUME request'[t].pc \in Owning
                   PROVE  request'[t].id \notin made
      BY DEF Owns
    <3>3. CASE request'[t].pc = "router_append"
      BY <1>5, <3>1, <3>3, HandAfter
    <3>4. CASE request'[t].pc = "addShard"
      BY <1>5, <3>1, <3>4, HandAfter
    <3>5. CASE request'[t].pc \in {"shard_store", "shard_remove"}
      BY <1>5, <3>5, HandAfter
    <3>6. QED
      BY <3>2, <3>3, <3>4, <3>5 DEF Owning
  <2>5. SameHands
    BY <2>1, <2>3, <2>4 DEF SameHands, Owns
  <2>6. QED
    BY <1>3, <1>5, <2>2, <2>5, PlacedStays
<1>6. CASE UNCHANGED vars \/ \E i \in Id : RemoveBehind(i)
  <2>1. UNCHANGED <<catalog, cluster, request, unsure, beside, stored>>
    BY <1>6 DEF RemoveBehind, vars
  <2>2. Building' <=> Building
    BY <2>1 DEF Building
  <2>3. SameShards /\ SameHands
    BY <2>1 DEF SameShards, SameHands, Owns
  <2>4. QED
    BY <2>1, <2>2, <2>3, PlacedStays
<1>7. ASSUME NEW t \in Thread, Step(t), AddShard(t)
      PROVE  Goes
  <2> DEFINE k == request[t].shard
             i == request[t].id
  <2>1. Others(t)
    BY <1>7, OthersStay
  <2>2. /\ k \in Shard /\ i \in Id /\ catalog[k] = NoEntry
        /\ catalog' = [catalog EXCEPT ![k] = [state |-> "in", id |-> i]]
        /\ cluster' = cluster /\ unsure' = unsure
        /\ request[t].pc = "addShard" /\ request'[t].pc = "shard_store"
        /\ request'[t].shard = k /\ request'[t].id = i
    BY <1>1, <1>7 DEF AddShard, At, Ready, OnShard, WithId, Goto
  <2>3. catalog'[k].id = i /\ \A n \in Shard \ {k} : catalog'[n] = catalog[n]
    BY <1>1, <2>2
  <2>4. /\ \A n \in Shard : cluster.shards[n] # i
        /\ \A u \in Thread \ {t} : Owns(u) => request[u].id # i
        /\ Owns(t)
    BY <1>1, <2>2 DEF OwnedOnce, Owns, Owning, Held, ShardIds
  <2>5. \A n \in Shard \ unsure : catalog[n].id # i
    BY <1>1, <2>2, <2>4 DEF Placed, At
  <2>6. catalog[k].id = NoId
    BY <2>2 DEF NoEntry
  <2>7. Placed'
    <3>1. SUFFICES ASSUME NEW n \in Shard \ unsure'
                   PROVE  /\ \A v, u \in Thread :
                               request'[v].shard = n /\ request'[u].shard = n => v = u
                          /\ catalog'[n].id # NoId =>
                               /\ \A m \in Shard \ {n} : cluster'.shards[m] # catalog'[n].id
                               /\ \A u \in Thread : Owns(u)' /\ request'[u].id = catalog'[n].id =>
                                    At(u, "shard_store")' /\ request'[u].shard = n
                          /\ \A u \in Thread : request'[u].shard = n =>
                               /\ At(u, "shard_store")' => catalog'[n].id = request'[u].id
                               /\ At(u, "shard_pop")' => catalog'[n] = NoEntry
      BY DEF Placed
    <3>2. n \in Shard \ unsure
      BY <2>2
    <3>3. CASE n = k
      BY <2>1, <2>2, <2>3, <2>4, <3>2, <3>3 DEF Placed, Owns, At
    <3>4. CASE n # k
      BY <2>1, <2>2, <2>3, <2>4, <2>5, <3>2, <3>4 DEF Placed, Owns, At
    <3>5. QED
      BY <3>3, <3>4
  <2>8. ASSUME ~beside', stored' \/ Building', NEW n \in Shard \ unsure'
        PROVE  /\ catalog'[n].id = cluster'.shards[n] \/ Between(n)'
               /\ \A u \in Thread : At(u, "shard_store")' /\ request'[u].shard = n =>
                    cluster'.shards[n] = NoId
    <3>1. made # {} /\ n \in Shard \ unsure
      BY <2>2, <2>4 DEF OwnedOnce
    <3>2. ~beside /\ (stored \/ Building)
      BY <1>3, <1>7, <2>8, <3>1
    <3>3. CASE n = k
      <4>1. ~Between(k)
        BY <2>2, <3>1, <3>3 DEF Placed, Between
      <4>2. cluster.shards[k] = NoId
        BY <2>6, <3>1, <3>2, <3>3, <4>1 DEF Agreeing
      <4>3. QED
        BY <2>2, <3>3, <4>2 DEF Between
    <3>4. CASE n # k
      <4>1. Between(n) => Between(n)'
        BY <2>1, <2>2, <3>4 DEF Between
      <4>2. QED
        BY <2>1, <2>2, <2>3, <3>1, <3>2, <3>4, <4>1 DEF Agreeing, At
    <3>5. QED
      BY <3>3, <3>4
  <2>9. QED
    BY <2>7, <2>8 DEF Agreeing
<1>8. ASSUME NEW t \in Thread, Step(t), AnswerLost(t)
      PROVE  Goes
  <2> DEFINE k == request[t].shard
  <2>1. Others(t)
    BY <1>8, OthersStay
  <2>2. /\ k \in Shard /\ unsure' = unsure \cup {k}
        /\ \A n \in Shard \ {k} : catalog'[n] = catalog[n]
        /\ cluster' = cluster /\ stored' = stored /\ beside' = beside
        /\ request'[t] = Idle
        /\ request[t].pc \in {"addShard", "removeShard"}
    BY <1>1, <1>8 DEF AnswerLost, At, Ready, OnShard, Reply
  <2>3. Building' => Building
    BY <1>1, <2>1, <2>2 DEF Building, Creating
  <2>4. \A n \in Shard \ unsure' : n \in Shard \ unsure /\ catalog'[n] = catalog[n]
    BY <2>2
  <2>5. Placed'
    BY <1>1, <2>1, <2>2, <2>4 DEF Placed, Owns, Owning, At
  <2>6. \A n \in Shard : Between(n) => Between(n)'
    BY <2>1, <2>2 DEF Between
  <2>7. Agreeing'
    BY <1>1, <2>1, <2>2, <2>3, <2>4, <2>6 DEF Agreeing, At
  <2>8. QED
    BY <2>5, <2>7
<1>9. ASSUME NEW t \in Thread, Step(t), DrainEnds(t)
      PROVE  Goes
  <2> DEFINE k == request[t].shard
  <2>1. Others(t)
    BY <1>9, OthersStay
  <2>2. /\ k \in Shard /\ unsure' = unsure
        /\ catalog' = [catalog EXCEPT ![k] = NoEntry]
        /\ cluster' = cluster /\ stored' = stored /\ beside' = beside
        /\ request'[t].pc = "shard_pop" /\ request'[t].shard = k
        /\ request[t].pc = "removeShard"
    BY <1>1, <1>9 DEF DrainEnds, At, Ready, OnShard, Goto
  <2>3. /\ catalog'[k] = NoEntry /\ NoEntry.id = NoId
        /\ \A n \in Shard \ {k} : catalog'[n] = catalog[n]
    BY <1>1, <2>2 DEF NoEntry
  <2>4. Building' => Building
    BY <2>1, <2>2 DEF Building, Creating
  <2>5. Placed'
    <3>1. SUFFICES ASSUME NEW n \in Shard \ unsure'
                   PROVE  /\ \A v, u \in Thread :
                               request'[v].shard = n /\ request'[u].shard = n => v = u
                          /\ catalog'[n].id # NoId =>
                               /\ \A m \in Shard \ {n} : cluster'.shards[m] # catalog'[n].id
                               /\ \A u \in Thread : Owns(u)' /\ request'[u].id = catalog'[n].id =>
                                    At(u, "shard_store")' /\ request'[u].shard = n
                          /\ \A u \in Thread : request'[u].shard = n =>
                               /\ At(u, "shard_store")' => catalog'[n].id = request'[u].id
                               /\ At(u, "shard_pop")' => catalog'[n] = NoEntry
      BY DEF Placed
    <3>2. n \in Shard \ unsure
      BY <2>2
    <3>3. ~Owns(t)'
      BY <2>2 DEF Owns, Owning
    <3>4. CASE n = k
      BY <2>1, <2>2, <2>3, <3>2, <3>3, <3>4 DEF Placed, At
    <3>5. CASE n # k
      BY <2>1, <2>2, <2>3, <3>2, <3>3, <3>5 DEF Placed, Owns, At
    <3>6. QED
      BY <3>4, <3>5
  <2>6. \A n \in Shard : Between(n) => Between(n)'
    BY <2>1, <2>2 DEF Between
  <2>7. Between(k)'
    BY <2>2 DEF Between
  <2>8. Agreeing'
    BY <2>1, <2>2, <2>3, <2>4, <2>6, <2>7 DEF Agreeing, At
  <2>9. QED
    BY <2>5, <2>8
<1>10. ASSUME NEW t \in Thread, Step(t), ShardStore(t)
       PROVE  Goes
  <2> DEFINE k == request[t].shard
             i == request[t].id
  <2>1. Others(t)
    BY <1>10, OthersStay
  <2>2. /\ k \in Shard /\ i \in Id /\ unsure' = unsure
        /\ cluster'.shards = [cluster.shards EXCEPT ![k] = i]
        /\ catalog' = catalog /\ stored' = stored /\ beside' = beside
        /\ request'[t].pc = "store" /\ request'[t].shard = k
        /\ request[t].pc = "shard_store"
    BY <1>1, <1>10 DEF ShardStore, At, Ready, OnShard, WithId, Goto
  <2>3. cluster'.shards[k] = i
          /\ \A n \in Shard \ {k} : cluster'.shards[n] = cluster.shards[n]
    BY <1>1, <2>2
  <2>4. Building' => Building
    BY <2>1, <2>2 DEF Building, Creating
  <2>5. Owns(t) /\ ~Owns(t)'
    BY <2>2 DEF Owns, Owning
  <2>6. \A n \in Shard \ unsure : n # k => catalog[n].id # i
    BY <1>1, <2>2, <2>5 DEF Placed
  <2>7. Placed'
    <3>1. SUFFICES ASSUME NEW n \in Shard \ unsure'
                   PROVE  /\ \A v, u \in Thread :
                               request'[v].shard = n /\ request'[u].shard = n => v = u
                          /\ catalog'[n].id # NoId =>
                               /\ \A m \in Shard \ {n} : cluster'.shards[m] # catalog'[n].id
                               /\ \A u \in Thread : Owns(u)' /\ request'[u].id = catalog'[n].id =>
                                    At(u, "shard_store")' /\ request'[u].shard = n
                          /\ \A u \in Thread : request'[u].shard = n =>
                               /\ At(u, "shard_store")' => catalog'[n].id = request'[u].id
                               /\ At(u, "shard_pop")' => catalog'[n] = NoEntry
      BY DEF Placed
    <3>2. n \in Shard \ unsure
      BY <2>2
    <3>3. QED
      BY <2>1, <2>2, <2>3, <2>5, <2>6, <3>2 DEF Placed, Owns, At
  <2>8. ASSUME ~beside', stored' \/ Building', NEW n \in Shard \ unsure'
        PROVE  /\ catalog'[n].id = cluster'.shards[n] \/ Between(n)'
               /\ \A u \in Thread : At(u, "shard_store")' /\ request'[u].shard = n =>
                    cluster'.shards[n] = NoId
    <3>1. n \in Shard \ unsure
      BY <2>2
    <3>2. CASE n = k
      BY <2>1, <2>2, <2>3, <3>1, <3>2 DEF Placed, At
    <3>3. CASE n # k
      <4>1. Between(n) => Between(n)'
        BY <2>1, <2>2, <3>3 DEF Between
      <4>2. QED
        BY <2>1, <2>2, <2>3, <2>4, <2>8, <3>1, <3>3, <4>1 DEF Agreeing, At
    <3>4. QED
      BY <3>2, <3>3
  <2>9. QED
    BY <2>7, <2>8 DEF Agreeing
<1>11. ASSUME NEW t \in Thread, Step(t), ShardPop(t)
       PROVE  Goes
  <2> DEFINE k == request[t].shard
             i == cluster.shards[k]
  <2>1. Others(t)
    BY <1>11, OthersStay
  <2>2. /\ k \in Shard /\ unsure' = unsure
        /\ cluster'.shards = [cluster.shards EXCEPT ![k] = NoId]
        /\ catalog' = catalog /\ stored' = stored /\ beside' = beside
        /\ request[t].pc = "shard_pop"
        /\ \/ request'[t] = Idle
           \/ /\ request'[t].pc = "shard_remove" /\ request'[t].shard = k
              /\ request'[t].id = i /\ i # NoId
    BY <1>1, <1>11 DEF ShardPop, At, Ready, OnShard, Reply
  <2>3. cluster'.shards[k] = NoId
          /\ \A n \in Shard \ {k} : cluster'.shards[n] = cluster.shards[n]
    BY <1>1, <2>2
  <2>4. Building' => Building
    BY <1>1, <2>1, <2>2 DEF Building, Creating
  <2>5. \A n \in Shard \ unsure : n # k /\ i # NoId => catalog[n].id # i
    BY <1>1, <2>2 DEF Placed
  <2>6. k \notin unsure => catalog[k] = NoEntry /\ NoEntry.id = NoId
    BY <2>2 DEF Placed, NoEntry, At
  <2>7. Placed'
    <3>1. SUFFICES ASSUME NEW n \in Shard \ unsure'
                   PROVE  /\ \A v, u \in Thread :
                               request'[v].shard = n /\ request'[u].shard = n => v = u
                          /\ catalog'[n].id # NoId =>
                               /\ \A m \in Shard \ {n} : cluster'.shards[m] # catalog'[n].id
                               /\ \A u \in Thread : Owns(u)' /\ request'[u].id = catalog'[n].id =>
                                    At(u, "shard_store")' /\ request'[u].shard = n
                          /\ \A u \in Thread : request'[u].shard = n =>
                               /\ At(u, "shard_store")' => catalog'[n].id = request'[u].id
                               /\ At(u, "shard_pop")' => catalog'[n] = NoEntry
      BY DEF Placed
    <3>2. n \in Shard \ unsure
      BY <2>2
    <3>3. \/ ~Owns(t)' /\ request'[t].shard \notin Shard
          \/ request'[t].shard = k /\ request'[t].id = i /\ i # NoId
               /\ request'[t].pc = "shard_remove"
      BY <1>1, <2>2 DEF Owns, Owning
    <3>4. CASE n = k
      BY <1>1, <2>1, <2>2, <2>3, <2>6, <3>2, <3>3, <3>4 DEF Placed, At
    <3>5. CASE n # k
      BY <1>1, <2>1, <2>2, <2>3, <2>5, <3>2, <3>3, <3>5 DEF Placed, Owns, At
    <3>6. QED
      BY <3>4, <3>5
  <2>8. ASSUME ~beside', stored' \/ Building', NEW n \in Shard \ unsure'
        PROVE  /\ catalog'[n].id = cluster'.shards[n] \/ Between(n)'
               /\ \A u \in Thread : At(u, "shard_store")' /\ request'[u].shard = n =>
                    cluster'.shards[n] = NoId
    <3>1. n \in Shard \ unsure
      BY <2>2
    <3>2. CASE n = k
      BY <2>2, <2>3, <2>6, <3>1, <3>2
    <3>3. CASE n # k
      <4>1. Between(n) => Between(n)'
        BY <2>1, <2>2, <3>3 DEF Between
      <4>2. ~At(t, "shard_store")'
        BY <1>1, <2>2 DEF At
      <4>3. QED
        BY <2>1, <2>2, <2>3, <2>4, <2>8, <3>1, <3>3, <4>1, <4>2 DEF Agreeing, At
    <3>4. QED
      BY <3>2, <3>3
  <2>9. QED
    BY <2>7, <2>8 DEF Agreeing
<1>12. ASSUME NEW t \in Thread, Step(t), NEW k \in Shard, NEW i \in Id,
              InitShard(t, k, i)
       PROVE  Goes
  <2>1. Others(t)
    BY <1>12, OthersStay
  <2>2. /\ unsure' = unsure /\ i \notin made
        /\ cluster'.shards = [cluster.shards EXCEPT ![k] = i]
        /\ catalog' = [catalog EXCEPT ![k] = [state |-> "in", id |-> i]]
        /\ stored' = stored /\ beside' = beside
        /\ request[t].pc = "shards" /\ request'[t].pc = "shards"
        /\ request'[t].shard = request[t].shard
    BY <1>1, <1>12 DEF InitShard, NewServer, At
  <2>3. /\ cluster'.shards[k] = i /\ catalog'[k].id = i
        /\ \A n \in Shard \ {k} : cluster'.shards[n] = cluster.shards[n]
        /\ \A n \in Shard \ {k} : catalog'[n] = catalog[n]
    BY <1>1, <2>2
  <2>4. Building' => Building
    BY <2>1, <2>2 DEF Building
  <2>5. \A u \in Thread : /\ u # t => request[u].pc = "idle"
                          /\ ~Owns(u)'
                          /\ request'[u].pc \notin {"shard_store", "shard_pop"}
                          /\ request'[u].shard = request[u].shard
    BY <2>1, <2>2 DEF Alone, Creating, Owns, Owning, At
  <2>6. Placed'
    BY <1>1, <1>2, <2>2, <2>3, <2>5 DEF Placed, At
  <2>7. \A n \in Shard : ~Between(n)
    BY <2>2, <2>5 DEF Between
  <2>8. Agreeing'
    BY <2>2, <2>3, <2>4, <2>5, <2>7 DEF Agreeing, At
  <2>9. QED
    BY <2>6, <2>8
<1>13. ASSUME NEW t \in Thread, Step(t), CleanupEnds(t)
       PROVE  Goes
  <2>1. Others(t)
    BY <1>13, OthersStay
  <2>2. /\ unsure' = unsure /\ catalog' = catalog /\ stored' = stored
        /\ beside' = beside /\ request'[t] = Idle
        /\ request[t].pc = "cleanup_wait"
        /\ \A n \in Shard : cluster'.shards[n] \in {cluster.shards[n], NoId}
    BY <1>1, <1>13 DEF CleanupEnds, Reply, At
  <2>3. ~Owns(t)' /\ ~At(t, "shard_store")' /\ ~At(t, "shard_pop")'
    BY <1>1, <2>2 DEF Owns, Owning, At
  <2>4. Placed'
    BY <1>1, <2>1, <2>2, <2>3 DEF Placed, Owns, At
  <2>5. ~beside => ~stored /\ \A u \in Thread : request'[u].pc = "idle"
    BY <1>1, <2>1, <2>2 DEF Alone, Cleaning, At
  <2>6. Agreeing'
    BY <2>2, <2>5 DEF Agreeing, Building, Creating
  <2>7. QED
    BY <2>4, <2>6
<1>14. QED
  BY <1>4, <1>5, <1>6, <1>7, <1>8, <1>9, <1>10, <1>11, <1>12, <1>13 DEF Next

-----------------------------------------------------------------------------
(***************************************************************************)
(* Whatever is registered can be found.                                    *)
(***************************************************************************)
\* While somebody creates or removes the cluster nobody else takes a step.
LEMMA Solo ==
  ASSUME TypeInv, Alone, NEW t \in Thread, NEW u \in Thread \ {t},
         request[t].pc \in Creating \/ (request[t].pc \in Cleaning /\ ~beside)
  PROVE  ~Receive(u) /\ ~Step(u)
<1>1. made # {} \/ request[t].pc = "configrs"
  BY DEF Alone, At, Creating, Cleaning
<1>2. ~stored /\ request[u].pc = "idle"
  BY DEF Alone, At
<1>3. ~Step(u)
  BY <1>2, GoesOn DEF Store, Register, At
<1>4. \A l \in BOOLEAN, r \in 0..MaxRouters, s \in SUBSET Shard : ~Create(u, l, r, s)
  BY <1>1 DEF Create, Alone, Creating, Cleaning
<1>5. ~Receive(u)
  BY <1>2, <1>4 DEF Receive, AddRouter, DelRouter, OfShard, Address, Delete
<1>6. QED
  BY <1>3, <1>5

\* The steps that put an id on a list keep those that are on it, when the
\* place is free.
LEMMA HeldStays ==
  ASSUME TypeInv, OwnedOnce, NEW t \in Thread, Step(t), ~CleanupEnds(t),
         ~RouterForget(t), ~ShardPop(t),
         \A i \in Id : InitConfigrs(t, i) => made = {},
         \A n \in Shard, i \in Id : InitShard(t, n, i) => cluster.shards[n] = NoId,
         ShardStore(t) => cluster.shards[request[t].shard] = NoId
  PROVE  /\ Held \subseteq Held'
         /\ RouterAppend(t) \/ ShardStore(t) => request[t].id \in Held'
         /\ \A i \in Id : InitConfigrs(t, i) \/ InitRouter(t, i) => i \in Held'
         /\ \A n \in Shard, i \in Id : InitShard(t, n, i) => i \in Held'
<1> DEFINE Grows == Held \subseteq Held'
<1>1. /\ StateOK /\ DOMAIN cluster = {"login", "configsvrs", "routers", "shards"}
      /\ Ready(request[t]) /\ NoId \notin Id
  BY Fields, ClusterFields, ShardedClusterAssumption DEF TypeInv
<1>2. cluster' = cluster => Grows
  BY SameLists DEF Held
<1>3. ASSUME CreateFails(t) \/ NextPhase(t) \/ InitRouterFails(t) \/ Users(t)
               \/ Register(t) \/ RaiseEarly(t) \/ RouterRemove(t) \/ AddShard(t)
               \/ AddShardFails(t) \/ AnswerLost(t) \/ DrainStarts(t)
               \/ DrainGoesOn(t) \/ DrainEnds(t) \/ ShardRemove(t) \/ Store(t)
               \/ SubmitShard(t) \/ SubmitRouter(t) \/ SubmitConfig(t)
               \/ \E n \in Shard : InitShardFails(t, n)
      PROVE  Grows
  BY <1>2, <1>3, Phases DEF CreateFails, InitRouterFails, Users, Register,
     RaiseEarly, RouterRemove, AddShard, AddShardFails, AnswerLost, DrainStarts,
     DrainGoesOn, DrainEnds, ShardRemove, Store, SubmitShard, SubmitRouter,
     SubmitConfig, InitShardFails
<1>4. ASSUME NEW i \in Id,
             \/ Restart(t, i) \/ RestartFails(t, i) \/ RouterCreate(t, i)
             \/ ShardCreate(t, i) \/ \E err \in BOOLEAN : FutureRemove(t, i, err)
      PROVE  Grows
  BY <1>2, <1>4 DEF Restart, RestartFails, RouterCreate, ShardCreate, FutureRemove
<1>5. ASSUME NEW i \in Id, InitConfigrs(t, i)
      PROVE  Grows /\ i \in Held'
  <2>1. cluster'.configsvrs = {i} /\ Held = {}
    BY <1>1, <1>5 DEF InitConfigrs, OwnedOnce
  <2>2. QED
    BY <2>1 DEF Held
<1>6. ASSUME NEW i \in Id, InitRouter(t, i)
      PROVE  Grows /\ i \in Held'
  <2>1. /\ cluster'.configsvrs = cluster.configsvrs
        /\ cluster'.routers = Append(cluster.routers, i)
        /\ cluster'.shards = cluster.shards
    BY <1>1, <1>6 DEF InitRouter
  <2>2. RouterIds' = RouterIds \cup {i} /\ ShardIds' = ShardIds
    BY <1>1, <2>1, RouterAdded DEF ShardIds
  <2>3. QED
    BY <2>1, <2>2 DEF Held
<1>7. ASSUME NEW n \in Shard, NEW i \in Id, InitShard(t, n, i)
      PROVE  Grows /\ i \in Held'
  <2>1. /\ cluster'.configsvrs = cluster.configsvrs
        /\ cluster'.routers = cluster.routers
        /\ cluster'.shards = [cluster.shards EXCEPT ![n] = i]
        /\ cluster.shards[n] = NoId
    BY <1>1, <1>7 DEF InitShard
  <2>2. ShardIds \subseteq ShardIds' /\ i \in ShardIds' /\ RouterIds' = RouterIds
    BY <1>1, <2>1, ShardSet DEF RouterIds
  <2>3. QED
    BY <2>1, <2>2 DEF Held
<1>8. ASSUME RouterAppend(t)
      PROVE  Grows /\ request[t].id \in Held'
  <2>1. request[t].id \in Id
    BY <1>1, <1>8 DEF RouterAppend, At, Ready, WithId
  <2>2. /\ cluster'.configsvrs = cluster.configsvrs
        /\ cluster'.routers = Append(cluster.routers, request[t].id)
        /\ cluster'.shards = cluster.shards
    BY <1>1, <1>8 DEF RouterAppend
  <2>3. RouterIds' = RouterIds \cup {request[t].id} /\ ShardIds' = ShardIds
    BY <1>1, <2>1, <2>2, RouterAdded DEF ShardIds
  <2>4. QED
    BY <2>2, <2>3 DEF Held
<1>9. ASSUME ShardStore(t)
      PROVE  Grows /\ request[t].id \in Held'
  <2>1. request[t].id \in Id /\ request[t].shard \in Shard
    BY <1>1, <1>9 DEF ShardStore, At, Ready, WithId, OnShard
  <2>2. /\ cluster'.configsvrs = cluster.configsvrs
        /\ cluster'.routers = cluster.routers
        /\ cluster'.shards =
             [cluster.shards EXCEPT ![request[t].shard] = request[t].id]
        /\ cluster.shards[request[t].shard] = NoId
    BY <1>1, <1>9 DEF ShardStore
  <2>3. /\ ShardIds \subseteq ShardIds' /\ request[t].id \in ShardIds'
        /\ RouterIds' = RouterIds
    BY <1>1, <2>1, <2>2, ShardSet DEF RouterIds
  <2>4. QED
    BY <2>2, <2>3 DEF Held
<1> HIDE DEF Grows
<1>10. Grows
  BY <1>3, <1>4, <1>5, <1>6, <1>7, <1>8, <1>9 DEF Step
<1>11. QED
  BY <1>5, <1>6, <1>7, <1>8, <1>9, <1>10 DEF Grows

\* While the cluster is built: a phase begins without an error, without one
\* everything is on a list, and a shard that is still to come has no entry.
BuiltBy(t) ==
  /\ request[t].pc \in {"configrs", "users", "register"} => ~request[t].err
  /\ request[t].pc \in Creating /\ ~request[t].err => Registered \subseteq Held
  /\ request[t].pc \in {"configrs", "routers", "shards"} =>
       \A n \in request[t].names : cluster.shards[n] = NoId
  /\ At(t, "restart") /\ ~request[t].err =>
       Held \subseteq keyed \cup request[t].futures
  /\ At(t, "register") /\ cluster.login => Held \subseteq keyed

Built == \A t \in Thread : BuiltBy(t)

LEMMA InitBuilt == Init => Built
BY DEF Init, Built, BuiltBy, Idle, Creating, At

\* The steps of the constructor.
LEMMA CreateStep ==
  ASSUME NEW t \in Thread, Step(t), request[t].pc \in Creating
  PROVE  \/ CreateFails(t) \/ Register(t)
         \/ NextPhase(t) \/ InitRouterFails(t) \/ Users(t)
         \/ \E i \in Id : \/ InitConfigrs(t, i) \/ InitRouter(t, i)
                          \/ Restart(t, i) \/ RestartFails(t, i)
         \/ \E n \in Shard, i \in Id : InitShard(t, n, i)
         \/ \E n \in Shard : InitShardFails(t, n)
<1>1. /\ ~RaiseEarly(t) /\ ~RouterAppend(t) /\ ~RouterRemove(t)
      /\ ~RouterForget(t) /\ ~AddShard(t) /\ ~AddShardFails(t)
      /\ ~AnswerLost(t) /\ ~ShardStore(t) /\ ~DrainStarts(t)
      /\ ~DrainGoesOn(t) /\ ~DrainEnds(t) /\ ~ShardPop(t) /\ ~ShardRemove(t)
      /\ ~SubmitShard(t) /\ ~SubmitRouter(t) /\ ~SubmitConfig(t)
      /\ ~CleanupEnds(t) /\ ~Store(t)
      /\ \A i \in Id : ~RouterCreate(t, i) /\ ~ShardCreate(t, i)
      /\ \A i \in Id, err \in BOOLEAN : ~FutureRemove(t, i, err)
  BY DEF RaiseEarly, RouterAppend, RouterRemove, RouterForget, AddShard,
     AddShardFails, AnswerLost, ShardStore, DrainStarts, DrainGoesOn, DrainEnds,
     ShardPop, ShardRemove, SubmitShard, SubmitRouter, SubmitConfig, CleanupEnds,
     Store, RouterCreate, ShardCreate, FutureRemove, At, Creating, Cleaning
<1>2. QED
  BY <1>1 DEF Step

\* All but the first two go on with it.
LEMMA BuildStep ==
  ASSUME TypeInv, NEW t \in Thread, Step(t), request'[t].pc \in Creating
  PROVE  \/ NextPhase(t) \/ InitRouterFails(t) \/ Users(t)
         \/ \E i \in Id : \/ InitConfigrs(t, i) \/ InitRouter(t, i)
                          \/ Restart(t, i) \/ RestartFails(t, i)
         \/ \E n \in Shard, i \in Id : InitShard(t, n, i)
         \/ \E n \in Shard : InitShardFails(t, n)
<1>1. /\ DOMAIN request = Thread /\ Idle.pc = "idle" /\ "idle" \notin Creating
  BY Fields DEF TypeInv, Idle, Creating
<1>2. request'[t] # Idle
  BY <1>1
<1>3. ~Store(t) /\ ~Register(t) /\ ~CreateFails(t)
  BY <1>1, <1>2 DEF Store, Register, CreateFails, Reply
<1>4. request[t].pc \in Creating
  BY <1>2, <1>3, GoesOn DEF Creating, Cleaning, Working, OnShard, OnRouter
<1>5. QED
  BY <1>3, <1>4, CreateStep

LEMMA BuildGoesOn ==
  ASSUME TypeInv, NEW t \in Thread, Step(t), request[t].pc \in Creating,
         ~CreateFails(t), ~Register(t)
  PROVE  request'[t].pc \in Creating
<1>1. /\ DOMAIN request = Thread
      /\ DOMAIN request[t] = {"pc", "shard", "id", "n", "names", "futures", "err"}
  BY Fields DEF TypeInv
<1>2. ASSUME NEW l \in Creating, Goto(t, l)
      PROVE  request'[t].pc \in Creating
  BY <1>1, <1>2 DEF Goto
<1>3. NextPhase(t) => \E l \in Creating : Goto(t, l)
  BY Phases DEF Creating
<1>4. ASSUME InitRouterFails(t) \/ Users(t) \/ \E n \in Shard : InitShardFails(t, n)
      PROVE  request'[t].pc \in Creating
  <2>1. CASE InitRouterFails(t)
    BY <1>1, <2>1 DEF InitRouterFails
  <2>2. CASE Users(t)
    BY <1>1, <2>2 DEF Users, Creating
  <2>3. CASE \E n \in Shard : InitShardFails(t, n)
    BY <1>1, <2>3 DEF InitShardFails
  <2>4. QED
    BY <1>4, <2>1, <2>2, <2>3
<1>5. ASSUME NEW i \in Id, \/ InitConfigrs(t, i) \/ InitRouter(t, i)
                           \/ Restart(t, i) \/ RestartFails(t, i)
                           \/ \E n \in Shard : InitShard(t, n, i)
      PROVE  request'[t].pc \in Creating
  <2>1. CASE InitConfigrs(t, i)
    BY <1>2, <2>1 DEF InitConfigrs, Creating
  <2>2. CASE \/ InitRouter(t, i) \/ Restart(t, i) \/ RestartFails(t, i)
             \/ \E n \in Shard : InitShard(t, n, i)
    BY <1>1, <2>2 DEF InitRouter, Restart, RestartFails, InitShard
  <2>3. QED
    BY <1>5, <2>1, <2>2
<1>6. QED
  BY <1>2, <1>3, <1>4, <1>5, CreateStep

\* A step of the constructor keeps it.
LEMMA BuiltStep ==
  ASSUME TypeInv, Alone, OwnedOnce, Built, [Next]_vars
  PROVE  Built'
<1> USE DEF registries, history
<1>1. /\ StateOK /\ DOMAIN request = Thread
      /\ \A t \in Thread : Ready(request[t])
      /\ \A t \in Thread : DOMAIN request[t] =
           {"pc", "shard", "id", "n", "names", "futures", "err"}
      /\ DOMAIN cluster = {"login", "configsvrs", "routers", "shards"}
      /\ cluster.shards \in [Shard -> Id \cup {NoId}]
  BY Fields, ClusterFields DEF TypeInv
<1>2. /\ {"configrs", "users", "register"} \subseteq Creating
      /\ {"configrs", "routers", "shards"} \subseteq Creating
      /\ "restart" \in Creating
  BY DEF Creating
<1>3. ASSUME NEW t \in Thread, request'[t].pc \notin Creating
      PROVE  BuiltBy(t)'
  BY <1>2, <1>3 DEF BuiltBy, At
<1>4. ASSUME NEW t \in Thread, request'[t] = request[t], keyed' = keyed,
             cluster' = cluster, Registered' \subseteq Registered
      PROVE  BuiltBy(t)'
  <2>1. Held' = Held
    BY <1>4, SameLists DEF Held
  <2>2. QED
    BY <1>4, <2>1 DEF Built, BuiltBy, At
<1>5. ASSUME NEW t \in Thread, Receive(t)
      PROVE  BuiltBy(t)'
  <2>1. request'[t].pc \in Creating => \E l \in BOOLEAN, r \in 0..MaxRouters,
          s \in SUBSET Shard : Create(t, l, r, s)
    BY <1>1, <1>5 DEF Receive, AddRouter, DelRouter, OfShard, Delete, Goto, Creating
  <2>2. ASSUME NEW l \in BOOLEAN, NEW r \in 0..MaxRouters, NEW s \in SUBSET Shard,
               Create(t, l, r, s)
        PROVE  BuiltBy(t)'
    <3>1. /\ made = {} /\ request[t] = Idle /\ request'[t].pc = "configrs"
          /\ request'[t].err = FALSE /\ request'[t].names = s
          /\ cluster'.shards = cluster.shards
      BY <1>1, <2>2 DEF Create, Alone, At, Idle
    <3>2. Registered' = {} /\ \A n \in Shard : cluster.shards[n] = NoId
      BY <1>1, <2>2, <3>1 DEF OwnedOnce, Held, ShardIds, Registered, Create
    <3>3. QED
      BY <3>1, <3>2 DEF BuiltBy, At
  <2>3. QED
    BY <1>3, <2>1, <2>2
<1>6. ASSUME NEW t \in Thread, Step(t)
      PROVE  BuiltBy(t)'
  <2> DEFINE r == request[t]
             q == request'[t]
  <2>1. SUFFICES ASSUME q.pc \in Creating
                 PROVE  BuiltBy(t)'
    BY <1>3
  <2>2. /\ r.err \in BOOLEAN /\ r.names \in SUBSET Shard /\ BuiltBy(t)
    BY <1>1 DEF Ready, Request, Built
  <2> HIDE DEF r, q
  <2>3. CASE InitRouterFails(t) \/ \E n \in Shard : InitShardFails(t, n)
    <3>1. /\ q.err /\ q.pc = r.pc /\ r.pc \in {"routers", "shards"}
          /\ q.names \subseteq r.names /\ cluster' = cluster
      <4>1. CASE InitRouterFails(t)
        BY <1>1, <2>2, <4>1 DEF InitRouterFails, At, r, q
      <4>2. ASSUME NEW n \in Shard, InitShardFails(t, n)
            PROVE  /\ q.err /\ q.pc = r.pc /\ r.pc = "shards"
                   /\ q.names = r.names \ {n} /\ cluster' = cluster
        BY <1>1, <4>2 DEF InitShardFails, At, r, q
      <4>3. QED
        BY <2>3, <4>1, <4>2
    <3>2. QED
      BY <2>2, <3>1 DEF BuiltBy, At, r, q
  <2>4. CASE \E i \in Id : RestartFails(t, i)
    <3>1. q.err /\ q.pc = "restart"
      BY <1>1, <2>4 DEF RestartFails, At, r, q
    <3>2. QED
      BY <3>1 DEF BuiltBy, At, q
  <2>5. CASE \E i \in Id : Restart(t, i)
    <3>1. PICK i \in Id : Restart(t, i)
      BY <2>5
    <3>2. /\ q.err = r.err /\ q.pc = "restart" /\ r.pc = "restart"
          /\ q.futures = r.futures \ {i} /\ cluster' = cluster
          /\ keyed' = keyed \cup {i} /\ Registered' = Registered
      BY <1>1, <3>1 DEF Restart, At, r, q, Registered
    <3>3. Held' = Held
      BY <3>2, SameLists DEF Held
    <3>4. QED
      BY <1>2, <2>2, <3>2, <3>3 DEF BuiltBy, At, r, q
  <2>6. CASE Users(t)
    <3>1. /\ q.err = r.err /\ q.pc = "restart" /\ r.pc = "users"
          /\ q.futures = Held /\ cluster' = cluster /\ Registered' = Registered
      BY <1>1, <2>6 DEF Users, At, r, q, Registered
    <3>2. Held' = Held
      BY <3>1, SameLists DEF Held
    <3>3. QED
      BY <1>2, <2>2, <3>1, <3>2 DEF BuiltBy, At, r, q
  <2>7. CASE NextPhase(t)
    <3>1. /\ r.pc \in {"routers", "shards", "restart"} /\ ~r.err
          /\ cluster' = cluster /\ keyed' = keyed /\ Registered' = Registered
          /\ \/ r.pc = "routers" /\ Goto(t, "shards")
             \/ r.pc = "shards" /\ cluster.login /\ Goto(t, "users")
             \/ r.pc = "shards" /\ ~cluster.login /\ Goto(t, "register")
             \/ r.pc = "restart" /\ r.futures = {} /\ Goto(t, "register")
      BY <2>7, Phases DEF Registered, r
    <3>2. Held' = Held /\ Registered \subseteq Held
      BY <1>2, <2>2, <3>1, SameLists DEF Held, BuiltBy, r, Creating
    <3>3. CASE r.pc = "routers"
      <4>1. q.pc = "shards" /\ q.names = r.names
        BY <1>1, <3>1, <3>3 DEF Goto, r, q
      <4>2. QED
        BY <2>2, <3>1, <3>2, <3>3, <4>1 DEF BuiltBy, At, r, q
    <3>4. CASE r.pc = "shards"
      <4>1. \/ Goto(t, "users")
            \/ Goto(t, "register") /\ ~cluster.login
        BY <3>1, <3>4
      <4>2. ASSUME Goto(t, "users")
            PROVE  q.pc = "users" /\ q.err = r.err
        BY <1>1, <4>2 DEF Goto, r, q
      <4>3. ASSUME Goto(t, "register")
            PROVE  q.pc = "register" /\ q.err = r.err
        BY <1>1, <4>3 DEF Goto, r, q
      <4>4. QED
        BY <3>1, <3>2, <4>1, <4>2, <4>3 DEF BuiltBy, At, r, q
    <3>5. CASE r.pc = "restart"
      <4>1. q.pc = "register" /\ q.err = r.err /\ r.futures = {}
        BY <1>1, <3>1, <3>5 DEF Goto, r, q
      <4>2. Held \subseteq keyed
        BY <2>2, <3>1, <3>5, <4>1 DEF BuiltBy, At, r
      <4>3. QED
        BY <3>1, <3>2, <4>1, <4>2 DEF BuiltBy, At, r, q
    <3>6. QED
      BY <3>1, <3>3, <3>4, <3>5
  <2>8. CASE \E i \in Id : InitConfigrs(t, i)
    <3>1. PICK i \in Id : InitConfigrs(t, i)
      BY <2>8
    <3>2. /\ r.pc = "configrs" /\ q.pc = "routers" /\ q.names = r.names
          /\ cluster'.shards = cluster.shards /\ made = {}
          /\ cluster'.configsvrs = {i} /\ Registered' = Registered \cup {i}
      BY <1>1, <3>1 DEF InitConfigrs, Goto, At, Alone, r, q, Registered
    <3>3. Registered' \subseteq Held'
      BY <3>2 DEF OwnedOnce, Held
    <3>4. QED
      BY <2>2, <3>2, <3>3 DEF BuiltBy, At, r, q
  <2>9. CASE \E i \in Id : InitRouter(t, i)
    <3>1. PICK i \in Id : InitRouter(t, i)
      BY <2>9
    <3>2. /\ r.pc = "routers" /\ q.pc = "routers" /\ q.names = r.names
          /\ q.err = r.err
          /\ cluster'.shards = cluster.shards
          /\ Registered' = Registered \cup {i}
      BY <1>1, <3>1 DEF InitRouter, NewServer, At, r, q, Registered
    <3>3. /\ ~CleanupEnds(t) /\ ~RouterForget(t) /\ ~ShardPop(t) /\ ~ShardStore(t)
          /\ \A j \in Id : ~InitConfigrs(t, j)
          /\ \A n \in Shard, j \in Id : ~InitShard(t, n, j)
      BY <3>2 DEF CleanupEnds, RouterForget, ShardPop, ShardStore, InitConfigrs,
         InitShard, At, r
    <3>4. Held \subseteq Held' /\ i \in Held'
      BY <1>6, <3>1, <3>3, HeldStays
    <3>5. QED
      BY <1>2, <2>2, <3>2, <3>4 DEF BuiltBy, At, r, q
  <2>10. CASE \E n \in Shard, i \in Id : InitShard(t, n, i)
    <3>1. PICK n \in Shard, i \in Id : InitShard(t, n, i)
      BY <2>10
    <3>2. /\ r.pc = "shards" /\ q.pc = "shards" /\ q.names = r.names \ {n}
          /\ q.err = r.err /\ n \in r.names
          /\ cluster'.shards = [cluster.shards EXCEPT ![n] = i]
          /\ Registered' = Registered \cup {i}
      BY <1>1, <3>1 DEF InitShard, NewServer, At, r, q, Registered
    <3>3. /\ ~CleanupEnds(t) /\ ~RouterForget(t) /\ ~ShardPop(t) /\ ~ShardStore(t)
          /\ \A j \in Id : ~InitConfigrs(t, j)
      BY <3>2 DEF CleanupEnds, RouterForget, ShardPop, ShardStore, InitConfigrs,
         At, r
    <3>4. \A m \in Shard, j \in Id : InitShard(t, m, j) => cluster.shards[m] = NoId
      BY <2>2, <3>2 DEF InitShard, BuiltBy, r
    <3>5. Held \subseteq Held' /\ i \in Held'
      BY <1>6, <3>1, <3>3, <3>4, HeldStays
    <3>6. \A m \in q.names : cluster'.shards[m] = NoId
      BY <1>1, <2>2, <3>2 DEF BuiltBy, r
    <3>7. QED
      BY <1>2, <2>2, <3>2, <3>5, <3>6 DEF BuiltBy, At, r, q
  <2>11. QED
    BY <1>6, <2>1, <2>3, <2>4, <2>5, <2>6, <2>7, <2>8, <2>9, <2>10, BuildStep DEF q
<1>7. ASSUME NEW u \in Thread, Receive(u) \/ Step(u), NEW t \in Thread \ {u}
      PROVE  BuiltBy(t)'
  <2>1. request'[t] = request[t]
    BY <1>7, OthersStay
  <2>2. request[t].pc \notin Creating
    BY <1>7, Solo
  <2>3. QED
    BY <1>3, <2>1, <2>2
<1>8. ASSUME UNCHANGED vars \/ \E i \in Id : RemoveBehind(i)
      PROVE  Built'
  <2>1. /\ request' = request /\ keyed' = keyed /\ cluster' = cluster
        /\ Registered' \subseteq Registered
    BY <1>8 DEF RemoveBehind, vars, Registered
  <2>2. QED
    BY <1>4, <2>1 DEF Built
<1>9. QED
  BY <1>5, <1>6, <1>7, <1>8 DEF Next, Built

\* The steps of cleanup, and of the requests of a cluster that is stored.
LEMMA CleanStep ==
  ASSUME NEW t \in Thread, Step(t), request[t].pc \in Cleaning
  PROVE  \/ SubmitShard(t) \/ SubmitRouter(t) \/ SubmitConfig(t) \/ CleanupEnds(t)
         \/ \E i \in Id, err \in BOOLEAN : FutureRemove(t, i, err)
<1>1. /\ ~CreateFails(t) /\ ~NextPhase(t) /\ ~InitRouterFails(t) /\ ~Users(t)
      /\ ~Register(t) /\ ~RaiseEarly(t) /\ ~RouterAppend(t) /\ ~RouterRemove(t)
      /\ ~RouterForget(t) /\ ~AddShard(t) /\ ~AddShardFails(t)
      /\ ~AnswerLost(t) /\ ~ShardStore(t) /\ ~DrainStarts(t)
      /\ ~DrainGoesOn(t) /\ ~DrainEnds(t) /\ ~ShardPop(t) /\ ~ShardRemove(t)
      /\ ~Store(t)
  BY Phases DEF CreateFails, InitRouterFails, Users, Register, RaiseEarly,
     RouterAppend, RouterRemove, RouterForget, AddShard, AddShardFails,
     AnswerLost, ShardStore, DrainStarts, DrainGoesOn, DrainEnds, ShardPop,
     ShardRemove, Store, PhaseEnds, At, Cleaning
<1>2. /\ \A i \in Id : /\ ~InitConfigrs(t, i) /\ ~InitRouter(t, i)
                       /\ ~Restart(t, i) /\ ~RestartFails(t, i)
                       /\ ~RouterCreate(t, i) /\ ~ShardCreate(t, i)
      /\ \A n \in Shard : ~InitShardFails(t, n)
      /\ \A n \in Shard, i \in Id : ~InitShard(t, n, i)
  BY DEF InitConfigrs, InitRouter, Restart, RestartFails, RouterCreate,
     ShardCreate, InitShardFails, InitShard, At, Cleaning
<1>3. QED
  BY <1>1, <1>2 DEF Step

LEMMA WorkStep ==
  ASSUME NEW t \in Thread, Step(t), request[t].pc \in Working
  PROVE  \/ RaiseEarly(t) \/ RouterAppend(t) \/ RouterRemove(t)
         \/ RouterForget(t) \/ AddShard(t) \/ AddShardFails(t)
         \/ AnswerLost(t) \/ ShardStore(t) \/ DrainStarts(t)
         \/ DrainGoesOn(t) \/ DrainEnds(t) \/ ShardPop(t) \/ ShardRemove(t)
         \/ Store(t) \/ \E i \in Id : RouterCreate(t, i) \/ ShardCreate(t, i)
<1>1. /\ ~CreateFails(t) /\ ~NextPhase(t) /\ ~InitRouterFails(t) /\ ~Users(t)
      /\ ~Register(t) /\ ~SubmitShard(t) /\ ~SubmitRouter(t) /\ ~SubmitConfig(t)
      /\ ~CleanupEnds(t)
  BY Phases DEF CreateFails, InitRouterFails, Users, Register, SubmitShard,
     SubmitRouter, SubmitConfig, CleanupEnds, PhaseEnds, At, Working, OnShard,
     OnRouter
<1>2. /\ \A i \in Id : /\ ~InitConfigrs(t, i) /\ ~InitRouter(t, i)
                       /\ ~Restart(t, i) /\ ~RestartFails(t, i)
      /\ \A n \in Shard : ~InitShardFails(t, n)
      /\ \A n \in Shard, i \in Id : ~InitShard(t, n, i)
      /\ \A i \in Id, err \in BOOLEAN : ~FutureRemove(t, i, err)
  BY DEF InitConfigrs, InitRouter, Restart, RestartFails, InitShardFails,
     InitShard, FutureRemove, At, Working, OnShard, OnRouter, Cleaning
<1>3. QED
  BY <1>1, <1>2 DEF Step

\* An id that the cleanup has dealt with, or has still to finish.
Gone(t, i) == i \in Registered => i \in request[t].futures

\* What the loops of cleanup have gone through; the cluster does not change
\* meanwhile, so that the loop over the shards sees all of them.
SubmittedBy(t) ==
  /\ At(t, "cleanup_shards") =>
       /\ request[t].n = Cardinality(Names)
       /\ \A m \in request[t].names : Gone(t, cluster.shards[m])
  /\ request[t].pc \in {"cleanup_routers", "cleanup_config"} =>
       \A i \in ShardIds : Gone(t, i)
  /\ At(t, "cleanup_routers") =>
       \A k \in 1..Len(cluster.routers) :
         k <= request[t].n => Gone(t, cluster.routers[k])
  /\ At(t, "cleanup_config") => \A i \in RouterIds : Gone(t, i)

Submitted == ~beside => \A t \in Thread : SubmittedBy(t)

LEMMA InitSubmitted == Init => Submitted
BY DEF Init, Submitted, SubmittedBy, Idle, At

LEMMA SubmittedStep ==
  ASSUME TypeInv, Alone, Submitted, [Next]_vars
  PROVE  Submitted'
<1> USE DEF registries, history
<1>1. /\ StateOK /\ DOMAIN request = Thread
      /\ \A t \in Thread : Ready(request[t])
      /\ \A t \in Thread : DOMAIN request[t] =
           {"pc", "shard", "id", "n", "names", "futures", "err"}
      /\ cluster.routers \in Seq(Id)
  BY Fields, ClusterFields DEF TypeInv
<1>2. ASSUME NEW t \in Thread, request'[t].pc \notin Cleaning
      PROVE  SubmittedBy(t)'
  BY <1>2 DEF SubmittedBy, At, Cleaning
<1>3. ASSUME NEW t \in Thread, SubmittedBy(t), cluster' = cluster,
             request'[t].pc = request[t].pc, request'[t].n = request[t].n,
             request'[t].names = request[t].names,
             \A i : Gone(t, i) => Gone(t, i)'
      PROVE  SubmittedBy(t)'
  <2>1. RouterIds' = RouterIds /\ ShardIds' = ShardIds /\ Names' = Names
    BY <1>3 DEF RouterIds, ShardIds, Names
  <2>2. QED
    BY <1>3, <2>1 DEF SubmittedBy, At
<1>4. ASSUME NEW t \in Thread, Receive(t), ~beside'
      PROVE  SubmittedBy(t)'
  <2>1. CASE Delete(t)
    <3>1. /\ request'[t].pc = "cleanup_shards" /\ request'[t].names = {}
          /\ request'[t].n = Cardinality(Names) /\ cluster' = cluster
      BY <1>1, <2>1 DEF Delete, Alone, At, Idle
    <3>2. Names' = Names
      BY <3>1 DEF Names
    <3>3. QED
      BY <3>1, <3>2 DEF SubmittedBy, At
  <2>2. CASE ~Delete(t)
    <3>1. ASSUME NEW l \in BOOLEAN, NEW r \in 0..MaxRouters,
                 NEW s \in SUBSET Shard, Create(t, l, r, s)
          PROVE  request'[t].pc = "configrs"
      BY <1>1, <3>1 DEF Create
    <3>2. AddRouter(t) => request'[t].pc = "router_create"
      BY <1>1 DEF AddRouter, Goto
    <3>3. \A i \in Id : DelRouter(t, i) => request'[t].pc = "router_remove"
      BY <1>1 DEF DelRouter
    <3>4. ASSUME NEW n \in Shard, NEW l \in {"shard_create", "removeShard"},
                 OfShard(t, n, l)
          PROVE  request'[t].pc = l
      BY <1>1, <3>4 DEF OfShard
    <3>5. request'[t].pc \notin Cleaning
      BY <1>4, <2>2, <3>1, <3>2, <3>3, <3>4 DEF Receive, Cleaning
    <3>6. QED
      BY <1>2, <3>5
  <2>3. QED
    BY <2>1, <2>2
<1>5. ASSUME NEW t \in Thread, SubmittedBy(t), SubmitShard(t)
      PROVE  SubmittedBy(t)'
  <2>1. /\ request[t].pc = "cleanup_shards"
        /\ Cardinality(Names) = request[t].n
        /\ \A m \in request[t].names : Gone(t, cluster.shards[m])
        /\ cluster' = cluster /\ Registered' = Registered
    BY <1>5 DEF SubmitShard, SubmittedBy, At, Registered
  <2>2. ShardIds' = ShardIds /\ Names' = Names
    BY <2>1 DEF ShardIds, Names
  <2>3. CASE \E m \in Names \ request[t].names : request' = [request EXCEPT
               ![t].names = @ \cup {m},
               ![t].futures = @ \cup {cluster.shards[m]}]
    <3>1. PICK m \in Names \ request[t].names : request' = [request EXCEPT
               ![t].names = @ \cup {m},
               ![t].futures = @ \cup {cluster.shards[m]}]
      BY <2>3
    <3>2. /\ request'[t].pc = "cleanup_shards" /\ request'[t].n = request[t].n
          /\ request'[t].names = request[t].names \cup {m}
          /\ request'[t].futures = request[t].futures \cup {cluster.shards[m]}
      BY <1>1, <2>1, <3>1
    <3>3. QED
      BY <2>1, <2>2, <3>2 DEF SubmittedBy, Gone, At
  <2>4. CASE /\ Names \ request[t].names = {}
             /\ request' = [request EXCEPT ![t].pc = "cleanup_routers",
                                           ![t].names = {}, ![t].n = 0]
    <3>1. /\ request'[t].pc = "cleanup_routers" /\ request'[t].n = 0
          /\ request'[t].futures = request[t].futures
      BY <1>1, <2>4
    <3>2. \A i \in ShardIds : Gone(t, i)
      BY <2>1, <2>4 DEF ShardIds, Names
    <3>3. \A i : Gone(t, i) => Gone(t, i)'
      BY <2>1, <3>1 DEF Gone
    <3>4. \A k \in 1..Len(cluster'.routers) : ~(k <= request'[t].n)
      BY <1>1, <2>1, <3>1
    <3>5. QED
      BY <2>2, <3>1, <3>2, <3>3, <3>4 DEF SubmittedBy, At
  <2>5. QED
    BY <1>5, <2>1, <2>3, <2>4 DEF SubmitShard
<1>6. ASSUME NEW t \in Thread, SubmittedBy(t), SubmitRouter(t)
      PROVE  SubmittedBy(t)'
  <2>1. /\ request[t].pc = "cleanup_routers" /\ request[t].n \in Nat
        /\ \A i \in ShardIds : Gone(t, i)
        /\ \A k \in 1..Len(cluster.routers) :
             k <= request[t].n => Gone(t, cluster.routers[k])
        /\ cluster' = cluster /\ Registered' = Registered
    BY <1>1, <1>6 DEF SubmitRouter, SubmittedBy, At, Registered, Ready, Request
  <2>2. ShardIds' = ShardIds /\ RouterIds' = RouterIds
    BY <2>1 DEF ShardIds, RouterIds
  <2>3. CASE request[t].n < Len(cluster.routers)
    <3>1. /\ request'[t].pc = "cleanup_routers"
          /\ request'[t].n = request[t].n + 1
          /\ request'[t].futures =
               request[t].futures \cup {cluster.routers[request[t].n + 1]}
      BY <1>1, <1>6, <2>1, <2>3 DEF SubmitRouter
    <3>2. \A i : Gone(t, i) => Gone(t, i)'
      BY <2>1, <3>1 DEF Gone
    <3>3. ASSUME NEW k \in 1..Len(cluster.routers), k <= request[t].n + 1
          PROVE  Gone(t, cluster.routers[k])'
      <4>1. k <= request[t].n \/ k = request[t].n + 1
        BY <1>1, <2>1, <3>3
      <4>2. CASE k <= request[t].n
        BY <2>1, <3>2, <4>2 DEF Gone
      <4>3. CASE k = request[t].n + 1
        BY <2>1, <3>1, <4>3 DEF Gone
      <4>4. QED
        BY <4>1, <4>2, <4>3
    <3>4. QED
      BY <2>1, <2>2, <3>1, <3>2, <3>3 DEF SubmittedBy, At
  <2>4. CASE ~(request[t].n < Len(cluster.routers))
    <3>1. /\ request'[t].pc = "cleanup_config"
          /\ request'[t].futures = request[t].futures
      BY <1>1, <1>6, <2>4 DEF SubmitRouter, Goto
    <3>2. \A k \in 1..Len(cluster.routers) : k <= request[t].n
      BY <1>1, <2>1, <2>4
    <3>3. \A i \in RouterIds : Gone(t, i)
      BY <2>1, <3>2 DEF RouterIds
    <3>4. \A i : Gone(t, i) => Gone(t, i)'
      BY <2>1, <3>1 DEF Gone
    <3>5. QED
      BY <2>1, <2>2, <3>1, <3>3, <3>4 DEF SubmittedBy, At
  <2>5. QED
    BY <2>3, <2>4
<1>7. ASSUME NEW t \in Thread, SubmitConfig(t)
      PROVE  SubmittedBy(t)'
  <2>1. request'[t].pc = "cleanup_wait"
    BY <1>1, <1>7 DEF SubmitConfig
  <2>2. QED
    BY <2>1 DEF SubmittedBy, At
<1>8. ASSUME NEW t \in Thread, SubmittedBy(t), NEW i \in Id, NEW err \in BOOLEAN,
             FutureRemove(t, i, err)
      PROVE  SubmittedBy(t)'
  <2>1. /\ request'[t].pc = request[t].pc /\ request'[t].n = request[t].n
        /\ request'[t].names = request[t].names
        /\ request'[t].futures = request[t].futures \ {i}
        /\ cluster' = cluster /\ Registered' = Registered \ {i}
    BY <1>1, <1>8 DEF FutureRemove, Registered
  <2>2. \A j : Gone(t, j) => Gone(t, j)'
    BY <2>1 DEF Gone
  <2>3. QED
    BY <1>3, <1>8, <2>1, <2>2
<1>9. ASSUME NEW t \in Thread, SubmittedBy(t), Step(t)
      PROVE  SubmittedBy(t)'
  <2>1. SUFFICES ASSUME request'[t].pc \in Cleaning
                 PROVE  SubmittedBy(t)'
    BY <1>2
  <2>2. request'[t] # Idle
    BY <2>1 DEF Idle, Cleaning
  <2>3. ~Store(t) /\ ~Register(t) /\ ~CleanupEnds(t)
    BY <1>1, <2>2 DEF Store, Register, CleanupEnds, Reply
  <2>4. request[t].pc \in Cleaning
    BY <1>9, <2>1, <2>2, <2>3, GoesOn DEF Creating, Cleaning, Working, OnShard,
       OnRouter
  <2>5. QED
    BY <1>5, <1>6, <1>7, <1>8, <1>9, <2>3, <2>4, CleanStep
<1>10. ASSUME NEW u \in Thread, Receive(u) \/ Step(u), NEW t \in Thread \ {u},
              ~beside
       PROVE  SubmittedBy(t)'
  <2>1. request'[t] = request[t]
    BY <1>10, OthersStay
  <2>2. request[t].pc \notin Cleaning
    BY <1>10, Solo
  <2>3. QED
    BY <1>2, <2>1, <2>2
<1>11. ASSUME NEW u \in Thread, Receive(u) \/ Step(u), ~beside', NEW t \in Thread
       PROVE  SubmittedBy(t)'
  <2>1. ~beside
    BY <1>11, Begun
  <2>2. SubmittedBy(t)
    BY <2>1 DEF Submitted
  <2>3. QED
    BY <1>4, <1>9, <1>10, <1>11, <2>1, <2>2
<1>12. ASSUME UNCHANGED vars \/ \E i \in Id : RemoveBehind(i), ~beside',
              NEW t \in Thread
       PROVE  SubmittedBy(t)'
  <2>1. /\ request' = request /\ cluster' = cluster /\ beside' = beside
        /\ Registered' \subseteq Registered
    BY <1>12 DEF RemoveBehind, vars, Registered
  <2>2. QED
    BY <1>3, <1>12, <2>1 DEF Submitted, Gone
<1>13. QED
  BY <1>11, <1>12 DEF Next, Submitted

\* A request has made the object and has not listed it yet, or has unlisted it
\* and not removed it yet.
Carried(i) == \E t \in Thread : Owns(t) /\ request[t].id = i

\* A DELETE of the cluster has still to remove the object.
Finishing(i) == \E t \in Thread :
                  request[t].pc \in Cleaning /\ i \in request[t].futures

Secured(i) ==
  \/ i \in Held /\ (stored \/ Submitting)
  \/ Building
  \/ Carried(i)
  \/ Finishing(i)

Found == ~beside /\ unsure = {} => \A i \in Registered \ failed : Secured(i)

LEMMA InitFound == Init => Found
BY DEF Init, Found, Registered

\* A step of cleanup.
LEMMA FoundInCleanup ==
  ASSUME TypeInv, Alone, Submitted, NEW t \in Thread, Step(t),
         request[t].pc \in Cleaning, ~beside,
         NEW i \in Registered', Secured(i)
  PROVE  Secured(i)'
<1> USE DEF registries, history
<1>1. /\ DOMAIN request = Thread /\ RequestOK
      /\ DOMAIN request[t] = {"pc", "shard", "id", "n", "names", "futures", "err"}
  BY Fields DEF TypeInv
<1>2. ~stored /\ \A u \in Thread \ {t} : request[u].pc = "idle"
  BY DEF Alone, At
<1>3. ~Building
  BY <1>2 DEF Building, Creating, Cleaning
<1>4. ~Carried(i)
  BY <1>2 DEF Carried, Owns, Owning, Cleaning
<1>5. \/ i \in Held /\ request[t].pc # "cleanup_wait"
      \/ i \in request[t].futures
  BY <1>2, <1>3, <1>4 DEF Secured, Submitting, Finishing, Cleaning
<1>6. ASSUME request'[t].pc \in Cleaning, i \in request'[t].futures
      PROVE  Secured(i)'
  BY <1>6 DEF Secured, Finishing
<1>7. ASSUME request'[t].pc \in Cleaning \ {"cleanup_wait"}, i \in Held'
      PROVE  Secured(i)'
  BY <1>7 DEF Secured, Submitting
<1>8. cluster' = cluster => Held' = Held
  BY SameLists DEF Held
<1>9. CASE SubmitShard(t)
  <2>1. request[t].n = Cardinality(Names) /\ request[t].pc = "cleanup_shards"
    BY <1>9 DEF SubmitShard, Submitted, SubmittedBy, At
  <2>2. /\ request'[t].pc \in {"cleanup_shards", "cleanup_routers"}
        /\ request[t].futures \subseteq request'[t].futures
        /\ cluster' = cluster
    <3>1. cluster' = cluster
      BY <1>9 DEF SubmitShard
    <3>2. ASSUME NEW m \in Names \ request[t].names,
                 request' = [request EXCEPT
                   ![t].names = @ \cup {m},
                   ![t].futures = @ \cup {cluster.shards[m]}]
          PROVE  /\ request'[t].pc = "cleanup_shards"
                 /\ request[t].futures \subseteq request'[t].futures
      BY <1>1, <2>1, <3>2
    <3>3. CASE request' = [request EXCEPT ![t].pc = "cleanup_routers",
                                          ![t].names = {}, ![t].n = 0]
      BY <1>1, <3>1, <3>3
    <3>4. QED
      BY <1>9, <2>1, <3>1, <3>2, <3>3 DEF SubmitShard
  <2>3. QED
    BY <1>5, <1>6, <1>7, <1>8, <2>2 DEF Cleaning
<1>10. CASE SubmitRouter(t)
  <2>1. /\ request'[t].pc \in {"cleanup_routers", "cleanup_config"}
        /\ request[t].futures \subseteq request'[t].futures
        /\ cluster' = cluster
    <3>1. CASE request[t].n < Len(cluster.routers)
      BY <1>1, <1>10, <3>1 DEF SubmitRouter, At
    <3>2. CASE ~(request[t].n < Len(cluster.routers))
      BY <1>1, <1>10, <3>2 DEF SubmitRouter, Goto
    <3>3. QED
      BY <3>1, <3>2
  <2>2. QED
    BY <1>5, <1>6, <1>7, <1>8, <2>1 DEF Cleaning
<1>11. CASE SubmitConfig(t)
  <2>1. /\ request[t].pc = "cleanup_config" /\ request'[t].pc = "cleanup_wait"
        /\ request'[t].futures = request[t].futures \cup cluster.configsvrs
        /\ Registered' = Registered
    BY <1>1, <1>11 DEF SubmitConfig, At, Registered
  <2>2. \A j \in RouterIds \cup ShardIds : Gone(t, j)
    BY <2>1 DEF Submitted, SubmittedBy, At
  <2>3. i \in request'[t].futures
    BY <1>5, <2>1, <2>2 DEF Held, Gone
  <2>4. QED
    BY <1>6, <2>1, <2>3 DEF Cleaning
<1>12. ASSUME NEW j \in Id, NEW err \in BOOLEAN, FutureRemove(t, j, err)
       PROVE  Secured(i)'
  <2>1. /\ request'[t].pc = request[t].pc /\ i # j
        /\ request'[t].futures = request[t].futures \ {j}
        /\ cluster' = cluster
    BY <1>1, <1>12 DEF FutureRemove, Registered
  <2>2. QED
    BY <1>5, <1>6, <1>7, <1>8, <2>1
<1>13. ~CleanupEnds(t)
  BY <1>5 DEF CleanupEnds, At
<1>14. QED
  BY <1>9, <1>10, <1>11, <1>12, <1>13, CleanStep

\* A step of a request of a cluster that is stored: what was on a list or with
\* this request stays there, or with it.
LEMMA FoundAtWork ==
  ASSUME TypeInv, Alone, OwnedOnce, Agreeing, NEW t \in Thread, Step(t),
         request[t].pc \in Working, stored, ~beside, unsure' = {},
         NEW i \in Registered' \ failed',
         i \in Registered => i \in Held \/ (Owns(t) /\ request[t].id = i)
  PROVE  i \in Held' \/ (Owns(t)' /\ request'[t].id = i)
<1> USE DEF registries, history
<1> DEFINE Goal == i \in Held' \/ (Owns(t)' /\ request'[t].id = i)
<1>1. /\ DOMAIN request = Thread /\ StateOK /\ Ready(request[t])
      /\ DOMAIN request[t] = {"pc", "shard", "id", "n", "names", "futures", "err"}
      /\ DOMAIN cluster = {"login", "configsvrs", "routers", "shards"}
      /\ cluster.shards \in [Shard -> Id \cup {NoId}]
  BY Fields, ClusterFields DEF TypeInv
<1>2. cluster' = cluster => Held' = Held
  BY SameLists DEF Held
<1>3. ASSUME RaiseEarly(t) \/ DrainStarts(t) \/ DrainGoesOn(t) \/ DrainEnds(t)
               \/ Store(t)
      PROVE  Goal
  <2>1. /\ ~Owns(t) /\ cluster' = cluster /\ Registered' = Registered
    BY <1>3 DEF RaiseEarly, DrainStarts, DrainGoesOn, DrainEnds, Store, Owns,
       Owning, At, Registered
  <2>2. QED
    BY <1>2, <2>1
<1>4. ASSUME NEW j \in Id, RouterCreate(t, j) \/ ShardCreate(t, j)
      PROVE  Goal
  <2>1. /\ ~Owns(t) /\ cluster' = cluster /\ Registered' = Registered \cup {j}
    BY <1>4 DEF RouterCreate, ShardCreate, NewServer, Owns, Owning, At, Registered
  <2>2. request'[t].pc \in {"router_append", "addShard"} /\ request'[t].id = j
    BY <1>1, <1>4 DEF RouterCreate, ShardCreate
  <2>3. QED
    BY <1>2, <2>1, <2>2 DEF Owns, Owning
<1>5. ASSUME RouterAppend(t) \/ ShardStore(t)
      PROVE  Goal
  <2>1. /\ ~CleanupEnds(t) /\ ~RouterForget(t) /\ ~ShardPop(t)
        /\ \A j \in Id : ~InitConfigrs(t, j)
        /\ \A n \in Shard, j \in Id : ~InitShard(t, n, j)
    BY <1>5 DEF RouterAppend, ShardStore, CleanupEnds, RouterForget, ShardPop,
       InitConfigrs, InitShard, At
  <2>2. unsure = {} /\ Registered' = Registered
    BY <1>5 DEF RouterAppend, ShardStore, Registered
  <2>3. ShardStore(t) => cluster.shards[request[t].shard] = NoId
    BY <1>1, <2>2 DEF ShardStore, Agreeing, At, Ready, OnShard
  <2>4. Held \subseteq Held' /\ request[t].id \in Held'
    BY <1>5, <2>1, <2>3, HeldStays
  <2>5. QED
    BY <2>2, <2>4
<1>6. ASSUME RouterRemove(t)
      PROVE  Goal
  <2>1. ~Owns(t) /\ cluster' = cluster /\ Registered' \subseteq Registered
    BY <1>6 DEF RouterRemove, Owns, Owning, At, Registered
  <2>2. QED
    BY <1>2, <2>1
<1>7. ASSUME RouterForget(t)
      PROVE  Goal
  <2>1. /\ ~Owns(t) /\ Registered' = Registered
        /\ request[t].id \notin Registered
    BY <1>7 DEF RouterForget, Owns, Owning, At, Registered, OwnedOnce
  <2>2. CASE cluster' = cluster
    BY <1>2, <2>1, <2>2
  <2>3. CASE cluster' # cluster
    <3>1. PICK k \in 1..Len(cluster.routers) :
            /\ cluster.routers[k] = request[t].id
            /\ cluster' = [cluster EXCEPT !.routers = RemoveAt(@, k)]
      BY <1>7, <2>3 DEF RouterForget
    <3>2. /\ cluster'.routers = RemoveAt(cluster.routers, k)
          /\ cluster'.shards = cluster.shards
          /\ cluster'.configsvrs = cluster.configsvrs
      BY <1>1, <3>1
    <3>3. /\ RouterIds' = RouterIds \ {request[t].id} /\ ShardIds' = ShardIds
      BY <1>1, <3>1, <3>2, RouterDropped DEF OwnedOnce, ShardIds
    <3>4. QED
      BY <2>1, <3>2, <3>3 DEF Held
  <2>4. QED
    BY <2>2, <2>3
<1>8. ASSUME AddShard(t)
      PROVE  Goal
  <2>1. cluster' = cluster /\ Registered' = Registered
    BY <1>8 DEF AddShard, Registered
  <2>2. request'[t].pc = "shard_store" /\ request'[t].id = request[t].id
    BY <1>1, <1>8 DEF AddShard, Goto
  <2>3. QED
    BY <1>2, <2>1, <2>2 DEF Owns, Owning
<1>9. ASSUME AddShardFails(t)
      PROVE  Goal
  <2>1. /\ cluster' = cluster /\ Registered' = Registered
        /\ i # request[t].id
    BY <1>9 DEF AddShardFails, Registered
  <2>2. QED
    BY <1>2, <2>1
<1>10. ASSUME AnswerLost(t)
       PROVE  Goal
  BY <1>10 DEF AnswerLost
<1>11. ASSUME ShardPop(t)
       PROVE  Goal
  <2>1. /\ ~Owns(t) /\ Registered' = Registered /\ request[t].shard \in Shard
    BY <1>1, <1>11 DEF ShardPop, Owns, Owning, At, Registered, Ready, OnShard
  <2>2. CASE cluster.shards[request[t].shard] = NoId
    <3>1. cluster' = cluster
      BY <1>11, <2>2 DEF ShardPop
    <3>2. QED
      BY <1>2, <2>1, <3>1
  <2>3. CASE cluster.shards[request[t].shard] # NoId
    <3>1. /\ cluster'.shards = [cluster.shards EXCEPT ![request[t].shard] = NoId]
          /\ cluster'.routers = cluster.routers
          /\ cluster'.configsvrs = cluster.configsvrs
      BY <1>1, <1>11, <2>3 DEF ShardPop
    <3>2. /\ request'[t].pc = "shard_remove"
          /\ request'[t].id = cluster.shards[request[t].shard]
      BY <1>1, <1>11, <2>3 DEF ShardPop
    <3>3. /\ ShardIds' = ShardIds \ {cluster.shards[request[t].shard]}
          /\ RouterIds' = RouterIds
      BY <1>1, <2>1, <3>1, ShardSet DEF OwnedOnce, RouterIds
    <3>4. QED
      BY <2>1, <3>1, <3>2, <3>3 DEF Held, Owns, Owning
  <2>4. QED
    BY <2>2, <2>3
<1>12. ASSUME ShardRemove(t)
       PROVE  Goal
  <2>1. /\ cluster' = cluster /\ Registered' \subseteq Registered
        /\ i # request[t].id
    BY <1>12 DEF ShardRemove, Registered, OwnedOnce, Owns, Owning, At
  <2>2. QED
    BY <1>2, <2>1
<1> HIDE DEF Goal
<1>13. Goal
  BY <1>3, <1>4, <1>5, <1>6, <1>7, <1>8, <1>9, <1>10, <1>11, <1>12, WorkStep
<1>14. QED
  BY <1>13 DEF Goal

\* What only grows, and what only goes.
LEMMA Monotonic ==
  ASSUME TypeInv, NEW t \in Thread, Step(t)
  PROVE  /\ unsure \subseteq unsure' /\ request[t].pc # "idle"
         /\ request[t].pc \in Cleaning =>
              Registered' \subseteq Registered /\ failed' = failed
         /\ request[t].pc \in Working =>
              failed \subseteq failed' /\ (stored => stored')
<1> USE DEF registries, history
<1>1. unsure \subseteq unsure'
  <2>1. CASE AnswerLost(t)
    BY <2>1 DEF AnswerLost
  <2>2. CASE \/ AddShard(t) \/ DrainStarts(t) \/ DrainEnds(t) \/ ShardStore(t)
             \/ ShardPop(t) \/ CleanupEnds(t)
             \/ \E n \in Shard, i \in Id : InitShard(t, n, i)
    BY <2>2 DEF AddShard, DrainStarts, DrainEnds, ShardStore, ShardPop,
       CleanupEnds, InitShard
  <2>3. QED
    BY <2>1, <2>2, ShardsAfter
<1>2. request[t].pc # "idle"
  BY GoesOn DEF Store, Register, At
<1>3. ASSUME request[t].pc \in Cleaning
      PROVE  Registered' \subseteq Registered /\ failed' = failed
  BY <1>3, CleanStep DEF SubmitShard, SubmitRouter, SubmitConfig, CleanupEnds,
     FutureRemove, Registered
<1>4. ASSUME request[t].pc \in Working
      PROVE  failed \subseteq failed' /\ (stored => stored')
  BY <1>4, WorkStep DEF RaiseEarly, RouterAppend, RouterRemove, RouterForget,
     AddShard, AddShardFails, AnswerLost, ShardStore, DrainStarts, DrainGoesOn,
     DrainEnds, ShardPop, ShardRemove, Store, RouterCreate, ShardCreate
<1>5. QED
  BY <1>1, <1>2, <1>3, <1>4

LEMMA FoundStep ==
  ASSUME TypeInv, Alone, OwnedOnce, Agreeing, Built, Submitted, Found, [Next]_vars
  PROVE  Found'
<1> USE DEF registries, history
<1>1. /\ DOMAIN request = Thread
      /\ \A t \in Thread : request[t].pc \in Label
      /\ \A t \in Thread : DOMAIN request[t] =
           {"pc", "shard", "id", "n", "names", "futures", "err"}
      /\ Idle.pc = "idle" /\ "idle" \notin Creating
  BY Fields DEF TypeInv, Idle, Creating
<1>2. cluster' = cluster => Held' = Held
  BY SameLists DEF Held
<1>3. ASSUME NEW t \in Thread, Receive(t), ~beside', unsure' = {}, Found,
             NEW i \in Registered' \ failed'
      PROVE  Secured(i)'
  <2>1. /\ request[t].pc = "idle" /\ Registered' = Registered /\ failed' = failed
        /\ ~beside /\ \A u \in Thread \ {t} : request'[u] = request[u]
    BY <1>3, Requests, OthersStay, Begun DEF Registered
  <2>2. made # {}
    BY <1>3, <2>1 DEF OwnedOnce
  <2>3. \A l \in BOOLEAN, r \in 0..MaxRouters, s \in SUBSET Shard :
           ~Create(t, l, r, s)
    BY <2>2 DEF Create
  <2>4. cluster' = cluster /\ stored /\ unsure \subseteq unsure'
    BY <1>3, <2>3 DEF Receive, AddRouter, DelRouter, OfShard, Delete, Address
  <2>5. Secured(i)
    BY <1>3, <2>1, <2>4 DEF Found
  <2>6. stored' \/ Submitting'
    <3>1. CASE Delete(t)
      <4>1. request'[t].pc = "cleanup_shards"
        BY <1>1, <3>1 DEF Delete
      <4>2. QED
        BY <4>1 DEF Submitting, Cleaning
    <3>2. CASE ~Delete(t)
      BY <1>3, <2>3, <2>4, <3>2 DEF Receive, AddRouter, DelRouter, OfShard, Address
    <3>3. QED
      BY <3>1, <3>2
  <2>7. Building => Building'
    BY <2>1 DEF Building, Creating
  <2>8. Carried(i) => Carried(i)'
    BY <2>1 DEF Carried, Owns, Owning
  <2>9. Finishing(i) => Finishing(i)'
    BY <2>1 DEF Finishing, Cleaning
  <2>10. QED
    BY <1>2, <2>4, <2>5, <2>6, <2>7, <2>8, <2>9 DEF Secured
<1>4. ASSUME NEW t \in Thread, Step(t), request[t].pc \in Creating,
             NEW i \in Registered' \ failed'
      PROVE  Secured(i)'
  <2>1. CASE request'[t].pc \in Creating
    BY <2>1 DEF Secured, Building
  <2>2. CASE request'[t].pc \notin Creating
    <3>1. CASE Register(t)
      <4>1. /\ request[t].pc = "register" /\ ~request[t].err
            /\ cluster' = cluster /\ stored' /\ Registered' = Registered
        BY <3>1 DEF Register, Built, BuiltBy, At, Registered
      <4>2. i \in Held'
        BY <1>2, <1>4, <4>1 DEF Built, BuiltBy
      <4>3. QED
        BY <4>1, <4>2 DEF Secured
    <3>2. CASE CreateFails(t)
      BY <3>2 DEF CreateFails, OwnedOnce, Registered
    <3>3. QED
      BY <1>4, <2>2, <3>1, <3>2, BuildGoesOn
  <2>3. QED
    BY <2>1, <2>2
<1>5. ASSUME NEW t \in Thread, Step(t), ~beside', unsure' = {}, Found,
             NEW i \in Registered' \ failed'
      PROVE  Secured(i)'
  <2>1. ~beside /\ unsure = {}
    BY <1>5, Begun, Monotonic
  <2>2. CASE request[t].pc \in Creating
    BY <1>4, <1>5, <2>2
  <2>3. CASE request[t].pc \in Cleaning
    <3>1. i \in Registered \ failed
      BY <1>5, <2>3, Monotonic
    <3>2. QED
      BY <1>5, <2>1, <2>3, <3>1, FoundInCleanup DEF Found
  <2>4. CASE request[t].pc \in Working
    <3>1. stored /\ stored'
      BY <2>1, <2>4, <1>5, Monotonic DEF Alone
    <3>2. \A u \in Thread : request[u].pc \notin Creating \cup Cleaning
      BY <2>1, <3>1 DEF Alone
    <3>3. ~Building /\ ~Finishing(i)
      BY <3>2 DEF Building, Finishing
    <3>4. failed \subseteq failed'
      BY <1>5, <2>4, Monotonic
    <3>5. i \in Registered => i \in Held \/ Carried(i)
      BY <1>5, <2>1, <3>3, <3>4 DEF Found, Secured
    <3>6. CASE \E u \in Thread \ {t} : Owns(u) /\ request[u].id = i
      <4>1. Carried(i)'
        BY <1>5, <3>6, OthersStay DEF Carried, Owns
      <4>2. QED
        BY <4>1 DEF Secured
    <3>7. CASE ~ \E u \in Thread \ {t} : Owns(u) /\ request[u].id = i
      <4>1. i \in Registered => i \in Held \/ (Owns(t) /\ request[t].id = i)
        BY <3>5, <3>7 DEF Carried
      <4>2. i \in Held' \/ (Owns(t)' /\ request'[t].id = i)
        BY <1>5, <2>1, <2>4, <3>1, <4>1, FoundAtWork
      <4>3. QED
        BY <3>1, <4>2 DEF Secured, Carried
    <3>8. QED
      BY <3>6, <3>7
  <2>5. request[t].pc \in Creating \cup Cleaning \cup Working
    BY <1>1, <1>5, Monotonic DEF Working, Label
  <2>6. QED
    BY <2>2, <2>3, <2>4, <2>5
<1>6. ASSUME UNCHANGED vars \/ \E i \in Id : RemoveBehind(i), ~beside',
             unsure' = {}, Found, NEW i \in Registered' \ failed'
      PROVE  Secured(i)'
  <2>1. /\ request' = request /\ cluster' = cluster /\ beside' = beside
        /\ Registered' \subseteq Registered /\ failed' = failed
        /\ stored' = stored /\ unsure' = unsure
    BY <1>6 DEF RemoveBehind, vars, Registered
  <2>2. Secured(i)
    BY <1>6, <2>1 DEF Found
  <2>3. QED
    BY <1>2, <2>1, <2>2 DEF Secured, Building, Submitting, Carried, Finishing, Owns
<1>7. QED
  BY <1>3, <1>5, <1>6 DEF Next, Found

-----------------------------------------------------------------------------
(***************************************************************************)
(* The theorems.                                                           *)
(***************************************************************************)
Inv == /\ TypeInv /\ Alone /\ OwnedOnce /\ Kept /\ Placed /\ Agreeing
       /\ Built /\ Submitted /\ Found

LEMMA InitInv == Init => Inv
BY InitTypeInv, InitAlone, InitOwnedOnce, InitKept, InitPlaced, InitBuilt,
   InitSubmitted, InitFound DEF Inv

LEMMA InvStep == Inv /\ [Next]_vars => Inv'
BY TypeStep, AloneStep, OwnedOnceStep, KeptStep, PlacedStep, BuiltStep,
   SubmittedStep, FoundStep DEF Inv

LEMMA InvHolds == Spec => []Inv
BY InitInv, InvStep, PTL DEF Spec

\* router_remove and _remove take an id out of the registry and out of the list
\* in two steps, in either order, and other requests come in between: what a
\* stored cluster holds is registered, or one of them is at work on it, or it
\* was removed behind the cluster's back.
THEOREM HeldKnown == Spec => []HeldExist
<1>1. Inv => HeldExist
  <2>1. SUFFICES ASSUME Inv, stored, ~beside, NEW i \in Held
                 PROVE  i \in Registered \cup InHand \cup behind
    BY DEF HeldExist
  <2>2. i \in Registered \cup behind \/ Leaving(i)
    BY <2>1 DEF Inv, Kept
  <2>3. Leaving(i) => i \in InHand
    BY DEF Leaving, InHand
  <2>4. QED
    BY <2>2, <2>3
<1>2. QED
  BY <1>1, InvHolds, PTL

\* member_add and _remove change the catalog first and _shards later: for a
\* shard whose answers arrived and that one request at a time addressed they
\* differ only while that request is under way.
THEOREM CatalogAgreement == Spec => []CatalogAgrees
<1>1. Inv => CatalogAgrees
  BY DEF Inv, Agreeing, Between, CatalogAgrees
<1>2. QED
  BY <1>1, InvHolds, PTL

\* _remove removes a server only when no shard of the catalog is on it any
\* more, whatever requests for other shards did meanwhile; nothing is said of
\* a shard whose answer was lost or that two requests addressed at once: a
\* member_add may put a new shard under the name before the pop.
THEOREM RemovedDrained == Spec => []DrainedFirst
<1>1. Inv => DrainedFirst
  <2>1. SUFFICES ASSUME Inv, NEW t \in Thread, NEW n \in Shard \ unsure,
                        At(t, "shard_remove"), catalog[n].id = request[t].id
                 PROVE  FALSE
    BY DEF DrainedFirst
  <2>2. request[t].id \in Id
    BY <2>1, Fields DEF Inv, TypeInv, Ready, WithId, At
  <2>3. Owns(t) /\ catalog[n].id # NoId
    BY <2>1, <2>2, ShardedClusterAssumption DEF Owns, Owning, At
  <2>4. QED
    BY <2>1, <2>3 DEF Inv, Placed, At
<1>2. QED
  BY <1>1, InvHolds, PTL

\* member_add, router_add, their twins and cleanup between them lose nothing:
\* whatever was made and is registered is on a list of the cluster while
\* somebody can still reach the cluster, or a request is at work on it, or it
\* was made by a request that raised.  After a DELETE nothing else is left,
\* also when one of its futures raised.
THEOREM EverythingFound == Spec => []NothingLost
<1>1. Inv => NothingLost
  <2>1. SUFFICES ASSUME Inv, unsure = {}, ~beside, NEW i \in Registered \ failed
                 PROVE  \/ i \in Held /\ (stored \/ Submitting)
                        \/ Building
                        \/ i \in InHand
    BY DEF NothingLost
  <2>2. Secured(i)
    BY <2>1 DEF Inv, Found
  <2>3. Carried(i) \/ Finishing(i) => i \in InHand
    BY DEF Carried, Finishing, InHand
  <2>4. QED
    BY <2>2, <2>3 DEF Secured
<1>2. QED
  BY <1>1, InvHolds, PTL

\* __init__ restarts what the three lists hold, which is everything, and
\* ShardedClusters.create registers the cluster only when all futures ended
\* without an error: a cluster with a login runs with its keyFile as a whole.
THEOREM AllSecured == Spec => RegisteredSecured
<1>1. ASSUME Inv, NEW t \in Thread, At(t, "register"), cluster.login
      PROVE  Held \subseteq keyed
  BY <1>1 DEF Inv, Built, BuiltBy
<1>2. Inv => [\A t \in Thread :
                At(t, "register") /\ request'[t].pc = "idle" /\ cluster.login
                  => Held \subseteq keyed]_vars
  BY <1>1
<1>3. QED
  BY <1>2, InvHolds, PTL DEF RegisteredSecured
=============================================================================
