---------------------------- MODULE MCStructures ----------------------------
(* Pages, a cache shard, the node cache, the prefetch queue, the plan      *)
(* cache, the version store, the delta layer and the reference model share *)
(* no state: a behaviour is one of one of them.                            *)
EXTENDS PageStore, CacheShard, NodeCache, PlanCache, Versions, RefModel

VARIABLE focus

sideVars == <<versionVars, deltaVars, refVars>>
vars == <<focus, pageVars, shardVars, nodeVars, prefetchVars, planVars, sideVars>>

MCEntrySize == "k1" :> 1 @@ "k2" :> 1 @@ "k3" :> 1 @@ "k4" :> 2

Init ==
  /\ focus \in {"pages", "shard", "nodes", "prefetch", "plans", "versions", "delta", "ref"}
  /\ PageInit /\ ShardInit /\ NodeInit /\ PrefetchInit /\ PlanInit
  /\ VersionInit /\ DeltaInit /\ RefInit
  /\ focus # "shard" => policy = "Arc"

Next ==
  /\ UNCHANGED focus
  /\ \/ /\ focus = "pages" /\ PageNext
        /\ UNCHANGED <<shardVars, nodeVars, prefetchVars, planVars, sideVars>>
     \/ /\ focus = "shard" /\ ShardNext
        /\ UNCHANGED <<pageVars, nodeVars, prefetchVars, planVars, sideVars>>
     \/ /\ focus = "nodes" /\ NodeNext
        /\ UNCHANGED <<pageVars, shardVars, prefetchVars, planVars, sideVars>>
     \/ /\ focus = "prefetch" /\ PrefetchNext
        /\ UNCHANGED <<pageVars, shardVars, nodeVars, planVars, sideVars>>
     \/ /\ focus = "plans" /\ PlanNext
        /\ UNCHANGED <<pageVars, shardVars, nodeVars, prefetchVars, sideVars>>
     \/ /\ UNCHANGED <<pageVars, shardVars, nodeVars, prefetchVars, planVars>>
        /\ \/ focus = "versions" /\ VersionNext /\ UNCHANGED <<deltaVars, refVars>>
           \/ focus = "delta" /\ DeltaNext /\ UNCHANGED <<versionVars, refVars>>
           \/ focus = "ref" /\ RefNext /\ UNCHANGED <<versionVars, deltaVars>>

Spec == Init /\ [][Next]_vars

(* Types, and the counters and ends each structure keeps beside its        *)
(* contents: the queue's and the delta layer's sizes, which the code       *)
(* subtracts from, the plan cache's bound through dangling list ends, and  *)
(* the shard's through the threads that put at once.                       *)
StructuresOK ==
  /\ PageTypeOK /\ ShardTypeOK /\ OvershootBounded /\ NodeTypeOK /\ PrefetchAccounted
  /\ PlanTypeOK /\ DanglingEnds /\ OvershootByOne
  /\ VersionsTypeOK /\ DeltaAccounted /\ RefTypeOK
=============================================================================
