----------------------------- MODULE Reconciler -----------------------------
(***************************************************************************)
(* The Kubernetes reconciler (pkg/enforcement/k8s/controller.go).  The     *)
(* enforcer starts a goroutine per applied tier (applyLocked) and waits    *)
(* for none of them, so reconciles of successive tiers overlap and finish  *)
(* in any order.  Each call to the API server is one action, those of the  *)
(* loops over the nodes too, which hold Reconciler.mu from their first     *)
(* call to their last.                                                     *)
(*                                                                         *)
(* The cluster is external, modelled from what the calls read and write.   *)
(* A call may be refused, or carried out with its answer lost (the context *)
(* of a reconcile ends after 30 s).                                        *)
(***************************************************************************)
EXTENDS Integers, FiniteSets

CONSTANTS
    TierNames,     \* tiers of the policy
    Workers,       \* pool of reconcile goroutines
    Nodes,         \* cluster nodes
    TargetWarm,    \* Config.TargetWarm
    MaxPods,       \* Config.MaxPods
    OriginalMin,   \* the bounds the cluster's owner gave the HPA
    OriginalMax,
    Faults,        \* how calls may fail: some of "refused", "unanswered"
    MayCrash       \* TRUE: the engine process may die and be started again

ASSUME ReconcilerAssumption ==
    /\ "nominal" \in TierNames
    /\ TargetWarm \in Nat /\ MaxPods \in Nat \ {0}
    /\ OriginalMin \in 1..OriginalMax /\ OriginalMax \in Nat
    /\ Faults \subseteq {"refused", "unanswered"}
    /\ MayCrash \in BOOLEAN

VARIABLES
    cluster,   \* the Deployment, its HPA and the nodes
    foreign,   \* history: schedulable nodes that an administrator cordoned
    owned,     \* Reconciler.cordonedNodes
    applied,   \* Enforcer.applied
    pc,        \* the call each goroutine makes next, "idle" without goroutine
    job,       \* its tier and what it has read
    clean,     \* history: the last tier applied had the cluster to itself: its
               \* reconcile started alone, none was started since, no call failed
    troubles   \* history: what has gone wrong since the beginning

history == <<clean, troubles>>
vars    == <<cluster, foreign, owned, applied, pc, job, history>>

Troubles == {"overlap", "refused", "unanswered", "crash"}

Unsaved   == 0      \* an annotation that is absent
Originals == [min |-> OriginalMin, max |-> OriginalMax]
Pinned    == [min |-> MaxPods, max |-> MaxPods]
Sizes     == 0..(TargetWarm + MaxPods + OriginalMax)
Bounds    == [min : Sizes, max : Sizes]

Steps == {"idle", "get", "scale", "readHPA", "saveMin", "saveMax", "pin", "restore",
          "clearMin", "clearMax", "pause", "list", "cordon", "cordoning",
          "uncordon", "uncordoning"}

ClusterType ==
    [replicas : Sizes, paused : BOOLEAN, hpa : Bounds, saved : Bounds,
     cordoned : SUBSET Nodes]

\* What the reconciler reads of a Deployment.
Deployment(c) == [replicas |-> c.replicas, paused |-> c.paused, saved |-> c.saved]

DeploymentType == [replicas : Sizes, paused : BOOLEAN, saved : Bounds]

JobType == [tier : TierNames, deploy : DeploymentType, nodes : SUBSET Nodes, hpa : Bounds]

Untouched == [replicas |-> OriginalMin, paused |-> FALSE, hpa |-> Originals,
              saved |-> [min |-> Unsaved, max |-> Unsaved], cordoned |-> {}]

JobFor(t) == [tier |-> t, deploy |-> Deployment(Untouched), nodes |-> {}, hpa |-> Originals]
NoJob     == JobFor("nominal")

Init ==
    /\ cluster = Untouched
    /\ foreign = {}
    /\ owned = {}
    /\ applied = "nominal"
    /\ pc = [r \in Workers |-> "idle"]
    /\ job = [r \in Workers |-> NoJob]
    /\ clean = TRUE
    /\ troubles = {}

-----------------------------------------------------------------------------
\* Mutation of SetReplicas: hot adds to the replicas it finds.
SetReplicasOneMore(t, current) ==
    CASE t = "warm" -> IF current < TargetWarm THEN TargetWarm ELSE current
      [] t = "hot"  -> current + MaxPods
      [] t \in {"critical", "survival"} -> current
      [] OTHER -> 0

\* TierToReplicaAction, field by field; a SetReplicas of 0 sets nothing.
SetReplicas(t, current) ==
    CASE t = "warm" -> IF current < TargetWarm THEN TargetWarm ELSE current
      [] t = "hot"  -> MaxPods
      [] t \in {"critical", "survival"} -> current
      [] OTHER -> 0

DisableHPA(t)      == t = "hot"
BlockRollouts(t)   == t \in {"critical", "survival"}
BlockScheduling(t) == t = "survival"

Quiet == \A r \in Workers : pc[r] = "idle"

Trouble(what) == clean' = FALSE /\ troubles' = troubles \cup {what}

\* The go statement at the end of applyLocked.
ApplyTier(t) ==
    /\ t # applied
    /\ applied' = t
    /\ \E r \in Workers :
        /\ pc[r] = "idle"
        /\ pc' = [pc EXCEPT ![r] = "get"]
        /\ job' = [job EXCEPT ![r] = JobFor(t)]
    /\ IF Quiet THEN clean' = TRUE /\ UNCHANGED troubles ELSE Trouble("overlap")
    /\ UNCHANGED <<cluster, foreign, owned>>

-----------------------------------------------------------------------------
At(r, step)   == pc[r] = step
Goto(r, step) ==
    /\ pc' = [pc EXCEPT ![r] = step]
    /\ job' = IF step = "idle" THEN [job EXCEPT ![r] = NoJob] ELSE job

\* A call that would turn the cluster into after: done, refused, or done with
\* its answer lost.
Call(r, after, done, failed) ==
    \/ cluster' = after /\ Goto(r, done) /\ UNCHANGED history
    \/ "refused" \in Faults /\ UNCHANGED cluster /\ Goto(r, failed) /\ Trouble("refused")
    \/ "unanswered" \in Faults /\ cluster' = after /\ Goto(r, failed) /\ Trouble("unanswered")

\* A read that stores found in the goroutine's job; one that fails changes
\* nothing, refused or not.
Read(r, found, done, failed) ==
    /\ \/ pc' = [pc EXCEPT ![r] = done] /\ job' = [job EXCEPT ![r] = found] /\ UNCHANGED history
       \/ Faults # {} /\ Goto(r, failed) /\ Trouble("refused")
    /\ UNCHANGED cluster

OnlyCluster == UNCHANGED <<foreign, owned, applied>>

CurrentReplicas(r) ==
    IF job[r].deploy.replicas = 0 THEN 1 ELSE job[r].deploy.replicas

\* What the reconcile of tier t does after scaling.
AfterScale(t, deploy) ==
    IF DisableHPA(t) THEN "readHPA"
    ELSE IF t = "nominal" /\ deploy.saved.min # Unsaved /\ deploy.saved.max # Unsaved
    THEN "restore"
    ELSE "pause"

AfterPause(t) == IF BlockScheduling(t) THEN "list" ELSE "uncordon"

GetDeployment(r) ==
    /\ At(r, "get")
    /\ Read(r, [job[r] EXCEPT !.deploy = Deployment(cluster)], "scale", "idle")
    /\ OnlyCluster

Scale(r) ==
    LET t == job[r].tier
        wanted == SetReplicas(t, CurrentReplicas(r))
        next == AfterScale(t, job[r].deploy) IN
    /\ At(r, "scale")
    /\ IF wanted > 0 /\ wanted # CurrentReplicas(r)
       THEN Call(r, [cluster EXCEPT !.replicas = wanted], next, "idle")
       ELSE Goto(r, next) /\ UNCHANGED <<cluster, history>>
    /\ OnlyCluster

\* Mutations of ReadHPA: the bounds are saved at every lock, not at the first
\* only; an HPA whose bounds are saved is taken to be pinned.
ReadHPAAlwaysSaving(r) ==
    /\ At(r, "readHPA")
    /\ Read(r, [job[r] EXCEPT !.hpa = cluster.hpa], "saveMin", "pause")
    /\ OnlyCluster

ReadHPASavedIsPinned(r) ==
    LET first == job[r].deploy.saved.min = Unsaved IN
    /\ At(r, "readHPA")
    /\ Read(r, [job[r] EXCEPT !.hpa = cluster.hpa], IF first THEN "saveMin" ELSE "pause", "pause")
    /\ OnlyCluster

\* lockHPA: whether bounds were saved is judged by the Deployment read at the
\* start; failures to save are ignored.
ReadHPA(r) ==
    LET first == job[r].deploy.saved.min = Unsaved IN
    /\ At(r, "readHPA")
    /\ Read(r, [job[r] EXCEPT !.hpa = cluster.hpa], IF first THEN "saveMin" ELSE "pin", "pause")
    /\ OnlyCluster

SaveMin(r) ==
    /\ At(r, "saveMin")
    /\ Call(r, [cluster EXCEPT !.saved.min = job[r].hpa.min], "saveMax", "saveMax")
    /\ OnlyCluster

SaveMax(r) ==
    /\ At(r, "saveMax")
    /\ Call(r, [cluster EXCEPT !.saved.max = job[r].hpa.max], "pin", "pin")
    /\ OnlyCluster

PinHPA(r) ==
    /\ At(r, "pin")
    /\ Call(r, [cluster EXCEPT !.hpa = Pinned], "pause", "pause")
    /\ OnlyCluster

\* Mutation of RestoreHPA: the annotations are cleared although the HPA was not
\* restored.
RestoreNothing(r) ==
    /\ At(r, "restore")
    /\ Goto(r, "clearMin")
    /\ UNCHANGED <<cluster, history>>
    /\ OnlyCluster

\* restoreHPA
RestoreHPA(r) ==
    /\ At(r, "restore")
    /\ Call(r, [cluster EXCEPT !.hpa = job[r].deploy.saved], "clearMin", "pause")
    /\ OnlyCluster

ClearMin(r) ==
    /\ At(r, "clearMin")
    /\ Call(r, [cluster EXCEPT !.saved.min = Unsaved], "clearMax", "clearMax")
    /\ OnlyCluster

ClearMax(r) ==
    /\ At(r, "clearMax")
    /\ Call(r, [cluster EXCEPT !.saved.max = Unsaved], "pause", "pause")
    /\ OnlyCluster

Pause(r) ==
    LET blocked == BlockRollouts(job[r].tier)
        next == AfterPause(job[r].tier) IN
    /\ At(r, "pause")
    /\ IF job[r].deploy.paused # blocked
       THEN Call(r, [cluster EXCEPT !.paused = blocked], next, "idle")
       ELSE Goto(r, next) /\ UNCHANGED <<cluster, history>>
    /\ OnlyCluster

\* cordonAll lists the nodes before it takes the mutex.
ListNodes(r) ==
    /\ At(r, "list")
    /\ Read(r, [job[r] EXCEPT !.nodes = Nodes \ cluster.cordoned], "cordon", "idle")
    /\ OnlyCluster

\* Reconciler.mu: another goroutine's loop over the nodes has to end first.
MutexFree == \A r \in Workers : pc[r] \notin {"cordoning", "uncordoning"}

\* A loop begins, over the nodes listed before or over those the engine owns.
StartLoop(r, nodes, step) ==
    /\ MutexFree
    /\ pc' = [pc EXCEPT ![r] = step]
    /\ job' = [job EXCEPT ![r].nodes = nodes]
    /\ UNCHANGED <<cluster, history>>
    /\ OnlyCluster

StartCordon(r)   == At(r, "cordon") /\ StartLoop(r, job[r].nodes, "cordoning")
StartUncordon(r) == At(r, "uncordon") /\ StartLoop(r, owned, "uncordoning")

\* The call for node n, which is noted when it is answered; one that fails does
\* not end the loop.
NodeCall(r, n, after, noted) ==
    /\ job' = [job EXCEPT ![r].nodes = @ \ {n}]
    /\ \/ cluster' = after /\ owned' = noted /\ UNCHANGED history
       \/ "refused" \in Faults /\ UNCHANGED <<cluster, owned>> /\ Trouble("refused")
       \/ "unanswered" \in Faults /\ cluster' = after /\ UNCHANGED owned /\ Trouble("unanswered")
    /\ UNCHANGED <<pc, foreign, applied>>

CordonNode(r) ==
    /\ At(r, "cordoning")
    /\ \E n \in job[r].nodes :
        NodeCall(r, n, [cluster EXCEPT !.cordoned = @ \cup {n}], owned \cup {n})

\* Mutation of UncordonNode: a node is forgotten whatever the call answered.
UncordonForgetting(r) ==
    /\ At(r, "uncordoning")
    /\ \E n \in job[r].nodes :
        /\ job' = [job EXCEPT ![r].nodes = @ \ {n}]
        /\ owned' = owned \ {n}
        /\ \/ cluster' = [cluster EXCEPT !.cordoned = @ \ {n}] /\ UNCHANGED history
           \/ "refused" \in Faults /\ UNCHANGED cluster /\ Trouble("refused")
    /\ UNCHANGED <<pc, foreign, applied>>

UncordonNode(r) ==
    /\ At(r, "uncordoning")
    /\ \E n \in job[r].nodes :
        NodeCall(r, n, [cluster EXCEPT !.cordoned = @ \ {n}], owned \ {n})

\* The loop is over, the mutex given back, the reconcile at its end.
EndLoop(r) ==
    /\ At(r, "cordoning") \/ At(r, "uncordoning")
    /\ job[r].nodes = {}
    /\ Goto(r, "idle")
    /\ UNCHANGED <<cluster, history>>
    /\ OnlyCluster

Reconcile(r) ==
    \/ GetDeployment(r) \/ Scale(r)
    \/ ReadHPA(r) \/ SaveMin(r) \/ SaveMax(r) \/ PinHPA(r)
    \/ RestoreHPA(r) \/ ClearMin(r) \/ ClearMax(r)
    \/ Pause(r)
    \/ ListNodes(r) \/ StartCordon(r) \/ CordonNode(r)
    \/ StartUncordon(r) \/ UncordonNode(r) \/ EndLoop(r)

-----------------------------------------------------------------------------
\* The cluster's own life: the autoscaler moves within the HPA's bounds, and an
\* administrator cordons a schedulable node.
Autoscale ==
    /\ \E n \in cluster.hpa.min..cluster.hpa.max : cluster' = [cluster EXCEPT !.replicas = n]
    /\ UNCHANGED <<foreign, owned, applied, pc, job, history>>

AdminCordon ==
    /\ \E n \in Nodes \ cluster.cordoned :
        /\ cluster' = [cluster EXCEPT !.cordoned = @ \cup {n}]
        /\ foreign' = foreign \cup {n}
    /\ UNCHANGED <<owned, applied, pc, job, history>>

\* The process dies and starts again: New begins at the first tier with an empty
\* record of nodes, and reconciles nothing.
Crash ==
    /\ MayCrash
    /\ owned' = {}
    /\ applied' = "nominal"
    /\ pc' = [r \in Workers |-> "idle"]
    /\ job' = [r \in Workers |-> NoJob]
    /\ Trouble("crash")
    /\ UNCHANGED <<cluster, foreign>>

Next ==
    \/ \E t \in TierNames : ApplyTier(t)
    \/ \E r \in Workers : Reconcile(r)
    \/ Autoscale
    \/ AdminCordon
    \/ Crash

Spec == Init /\ [][Next]_vars

-----------------------------------------------------------------------------
\* Types of every variable.
TypeOK ==
    /\ cluster \in ClusterType
    /\ foreign \subseteq Nodes
    /\ owned \subseteq Nodes
    /\ applied \in TierNames
    /\ pc \in [Workers -> Steps]
    /\ job \in [Workers -> JobType]
    /\ clean \in BOOLEAN
    /\ troubles \subseteq Troubles

\* README, Kubernetes enforcement.  A reconcile that had the cluster to itself
\* leaves it as its tier demands, whatever failed, overlapped or crashed before:
\* rollouts paused in critical and survival only, every node cordoned in
\* survival, the HPA pinned in hot.
LoneReconcileEnforces ==
    (Quiet /\ clean) =>
        /\ cluster.paused = BlockRollouts(applied)
        /\ applied = "survival" => cluster.cordoned = Nodes
        /\ applied = "hot" => cluster.hpa = Pinned

\* controller.go, restoreHPA and uncordonOwned.  As long as reconciles run one
\* after the other and no call fails, nothing is left in nominal of what the
\* reconciler did on the way: the HPA has its owner's bounds and only nodes that
\* an administrator cordoned are cordoned.
NominalUndoesAll ==
    (Quiet /\ troubles = {} /\ applied = "nominal") =>
        /\ cluster.hpa = Originals
        /\ cluster.cordoned \subseteq foreign

\* controller.go, lockHPA: "saves the current HPA bounds to Deployment
\* annotations, then sets min=max"; "only on the first lock".  The owner's
\* bounds are in the HPA or in the annotations at every moment, between any two
\* calls; overlap, failed calls and a restart halfway do lose them.
BoundsRecoverable ==
    troubles = {} => cluster.hpa = Originals \/ cluster.saved = Originals

\* controller.go, cordonAll: "tracks which nodes it cordons for later uncordon".
\* However reconciles overlap and whatever is refused, no node stays cordoned
\* that neither an administrator nor cordonedNodes knows; lost answers and
\* restarts do leave such nodes.
CordonsAreOwned ==
    troubles \subseteq {"overlap", "refused"} => cluster.cordoned \subseteq owned \cup foreign

=============================================================================
