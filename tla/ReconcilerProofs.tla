-------------------------- MODULE ReconcilerProofs --------------------------
(***************************************************************************)
(* Every safety invariant of the reconciler, for any number of goroutines, *)
(* nodes and tiers and any bounds.  Types and the record of cordons are    *)
(* inductive as they are.  What a reconcile achieves when it is alone      *)
(* needs to be known call by call: OnItsWay and BoundsAt say what it has   *)
(* read and done by the call it makes next, AloneInv and BoundsInv that    *)
(* they hold while nothing has gone wrong.                                 *)
(***************************************************************************)
EXTENDS Reconciler, TLAPS

HotSteps     == {"readHPA", "saveMin", "saveMax", "pin"}
NominalSteps == {"restore", "clearMin", "clearMax"}
NodeSteps    == {"list", "cordon", "cordoning", "uncordon", "uncordoning"}

\* What a reconcile that has the cluster to itself has seen and done, by the
\* call it makes next.
OnItsWay(r) ==
    LET t == job[r].tier IN
    /\ t = applied
    /\ pc[r] \in HotSteps => t = "hot"
    /\ pc[r] \in NominalSteps => t = "nominal"
    /\ pc[r] \in {"list", "cordon", "cordoning"} => t = "survival"
    /\ pc[r] \in {"uncordon", "uncordoning"} => t # "survival"
    /\ pc[r] \in {"scale", "pause"} \cup HotSteps \cup NominalSteps =>
         job[r].deploy.paused = cluster.paused
    /\ pc[r] \in NodeSteps => cluster.paused = BlockRollouts(t)
    /\ pc[r] \in {"pause"} \cup NodeSteps => (t = "hot" => cluster.hpa = Pinned)
    /\ pc[r] \in {"cordon", "cordoning"} => Nodes \ cluster.cordoned \subseteq job[r].nodes
    /\ pc[r] = "uncordoning" => owned \subseteq job[r].nodes

\* A goroutine that has a reconcile to do, and one that is alone with it.
Busy(r) == pc[r] # "idle"

Alone(r) == Busy(r) => OnItsWay(r) /\ \A s \in Workers : Busy(s) => s = r

AloneInv == clean => \A r \in Workers : Alone(r)

\* Between reconciles the HPA is its owner's and nothing is saved, or it is
\* pinned and its owner's bounds are saved.
Free   == cluster.hpa = Originals /\ cluster.saved = [min |-> Unsaved, max |-> Unsaved]
Locked == cluster.hpa = Pinned /\ cluster.saved = Originals
Lockable(t) == (Free \/ Locked) /\ (t = "nominal" => Free)

\* Where the owner's bounds are, by the call that comes next.
BoundsAt(r) ==
    LET t == job[r].tier IN
    /\ pc[r] \in {"get", "scale", "readHPA"} => Free \/ Locked
    /\ pc[r] \in {"scale", "readHPA", "restore"} => job[r].deploy.saved = cluster.saved
    /\ pc[r] \in {"saveMin", "saveMax"} => cluster.hpa = Originals /\ job[r].hpa = Originals
    /\ pc[r] = "saveMax" => cluster.saved.min = OriginalMin
    /\ pc[r] = "pin" => cluster.saved = Originals
    /\ pc[r] = "restore" => cluster.saved = Originals
    /\ pc[r] \in {"clearMin", "clearMax"} => cluster.hpa = Originals
    /\ pc[r] = "clearMax" => cluster.saved.min = Unsaved
    /\ pc[r] \in {"pause"} \cup NodeSteps => Lockable(t)

BoundsInv ==
    troubles = {} =>
        /\ clean
        /\ \A r \in Workers : Busy(r) => BoundsAt(r)
        /\ Quiet => Lockable(applied)
        /\ Quiet /\ applied # "survival" => owned = {}

-----------------------------------------------------------------------------
LEMMA SizesFit == /\ 1 \in Sizes /\ 0 \in Sizes /\ TargetWarm \in Sizes /\ MaxPods \in Sizes
                  /\ OriginalMin \in Sizes \ {Unsaved} /\ OriginalMax \in Sizes \ {Unsaved}
                  /\ \A n \in Sizes, m \in Sizes : n..m \subseteq Sizes
                  /\ Sizes \subseteq Nat
BY ReconcilerAssumption DEF ReconcilerAssumption, Sizes, Unsaved

LEMMA BoundsFit == Originals \in Bounds /\ Pinned \in Bounds /\ Untouched \in ClusterType
BY SizesFit DEF Originals, Pinned, Bounds, Untouched, ClusterType, Unsaved

LEMMA ReplicasFit == ASSUME NEW t, NEW n \in Sizes PROVE SetReplicas(t, n) \in Sizes
<1>1. CASE t = "warm"
  BY <1>1, SizesFit DEF SetReplicas
<1>2. CASE t = "hot"
  BY <1>2, SizesFit DEF SetReplicas
<1>3. CASE t \in {"critical", "survival"}
  BY <1>3, SizesFit DEF SetReplicas
<1>4. CASE t \notin {"warm", "hot", "critical", "survival"}
  BY <1>4, SizesFit DEF SetReplicas
<1> QED
  BY <1>1, <1>2, <1>3, <1>4

LEMMA JobsFit == ASSUME NEW t \in TierNames PROVE JobFor(t) \in JobType
BY BoundsFit DEF JobFor, JobType, DeploymentType, Deployment, ClusterType

JobsOK == pc \in [Workers -> Steps] /\ job \in [Workers -> JobType]
HistoryOK == clean \in BOOLEAN /\ troubles \subseteq Troubles

\* The shape of a call and of a read.
LEMMA GotoFits ==
    ASSUME JobsOK, NEW r \in Workers, NEW step \in Steps, Goto(r, step) PROVE JobsOK'
<1>1. NoJob \in JobType
  BY JobsFit, ReconcilerAssumption DEF NoJob, ReconcilerAssumption
<1> QED
  BY <1>1 DEF Goto, JobsOK

LEMMA TroubleFits ==
    ASSUME HistoryOK, NEW what \in Troubles, Trouble(what) PROVE HistoryOK'
BY DEF Trouble, HistoryOK

LEMMA CallFits ==
    ASSUME TypeOK, NEW r \in Workers, NEW after \in ClusterType, NEW done \in Steps,
           NEW failed \in Steps, Call(r, after, done, failed)
    PROVE  cluster' \in ClusterType /\ JobsOK' /\ HistoryOK'
<1>1. JobsOK /\ HistoryOK /\ {"refused", "unanswered"} \subseteq Troubles
  BY DEF TypeOK, JobsOK, HistoryOK, Troubles
<1>2. (Goto(r, done) \/ Goto(r, failed)) /\ cluster' \in {cluster, after}
  BY DEF Call
<1>3. (UNCHANGED history) \/ Trouble("refused") \/ Trouble("unanswered")
  BY DEF Call
<1>4. JobsOK'
  BY <1>1, <1>2, GotoFits
<1>5. HistoryOK'
  BY <1>1, <1>3, TroubleFits DEF history, HistoryOK
<1> QED
  BY <1>2, <1>4, <1>5 DEF TypeOK

LEMMA ReadFits ==
    ASSUME TypeOK, NEW r \in Workers, NEW found \in JobType, NEW done \in Steps,
           NEW failed \in Steps, Read(r, found, done, failed)
    PROVE  cluster' \in ClusterType /\ JobsOK' /\ HistoryOK'
<1>1. JobsOK /\ HistoryOK /\ "refused" \in Troubles
  BY DEF TypeOK, JobsOK, HistoryOK, Troubles
<1>2. JobsOK' /\ HistoryOK'
  <2>1. CASE Goto(r, failed) /\ Trouble("refused")
    BY <1>1, <2>1, GotoFits, TroubleFits
  <2>2. CASE pc' = [pc EXCEPT ![r] = done] /\ job' = [job EXCEPT ![r] = found] /\ UNCHANGED history
    BY <1>1, <2>2 DEF history, JobsOK, HistoryOK
  <2> QED
    BY <2>1, <2>2 DEF Read
<1> QED
  BY <1>2 DEF Read, TypeOK

ReconcileTypes ==
    /\ cluster \in ClusterType
    /\ owned \subseteq Nodes
    /\ JobsOK
    /\ HistoryOK

LEMMA SkipFits ==
    ASSUME TypeOK, NEW r \in Workers, NEW step \in Steps, Goto(r, step),
           UNCHANGED <<cluster, history>>
    PROVE  cluster' \in ClusterType /\ JobsOK' /\ HistoryOK'
BY GotoFits DEF TypeOK, JobsOK, HistoryOK, history

LEMMA LoopFits ==
    ASSUME TypeOK, NEW r \in Workers, NEW nodes \in SUBSET Nodes, NEW step \in Steps,
           StartLoop(r, nodes, step)
    PROVE  cluster' \in ClusterType /\ JobsOK' /\ HistoryOK'
BY DEF StartLoop, TypeOK, JobsOK, HistoryOK, JobType, history

LEMMA NodeCallFits ==
    ASSUME TypeOK, NEW r \in Workers, NEW n, NEW after \in ClusterType,
           NEW noted \in SUBSET Nodes, NodeCall(r, n, after, noted)
    PROVE  /\ cluster' \in ClusterType /\ JobsOK' /\ HistoryOK' /\ owned' \subseteq Nodes
           /\ UNCHANGED <<foreign, applied>>
<1>1. JobsOK /\ HistoryOK /\ {"refused", "unanswered"} \subseteq Troubles
  BY DEF TypeOK, JobsOK, HistoryOK, Troubles
<1>2. JobsOK'
  BY <1>1 DEF NodeCall, JobsOK, JobType
<1>3. HistoryOK'
  BY <1>1, TroubleFits DEF NodeCall, history, HistoryOK
<1> QED
  BY <1>2, <1>3 DEF NodeCall, TypeOK

LEMMA ReconcileFits ==
    ASSUME TypeOK, NEW r \in Workers, Reconcile(r)
    PROVE  TypeOK'
<1> DEFINE j == job[r]
<1>1. j \in JobType /\ cluster \in ClusterType
  BY DEF TypeOK
<1>2. /\ j.tier \in TierNames /\ j.deploy \in DeploymentType
      /\ j.hpa \in Bounds /\ j.nodes \in SUBSET Nodes
  BY <1>1 DEF JobType
<1>3. cluster' \in ClusterType /\ JobsOK' /\ HistoryOK' /\ owned' \subseteq Nodes
      /\ UNCHANGED <<foreign, applied>>
  <2> USE DEF OnlyCluster, Steps
  <2>0. owned \subseteq Nodes
    BY DEF TypeOK
  <2>1. CASE GetDeployment(r)
    <3>1. [j EXCEPT !.deploy = Deployment(cluster)] \in JobType
      BY <1>1 DEF JobType, ClusterType, Deployment, DeploymentType
    <3> QED
      BY <2>0, <2>1, <3>1, ReadFits DEF GetDeployment
  <2>2. CASE Scale(r)
    <3>1. CurrentReplicas(r) \in Sizes
      BY <1>2, SizesFit DEF CurrentReplicas, DeploymentType
    <3>2. [cluster EXCEPT !.replicas = SetReplicas(j.tier, CurrentReplicas(r))] \in ClusterType
      BY <1>1, <3>1, ReplicasFit DEF ClusterType
    <3>3. AfterScale(j.tier, j.deploy) \in Steps
      BY DEF AfterScale
    <3> QED
      BY <2>0, <2>2, <3>2, <3>3, CallFits, SkipFits DEF Scale
  <2>3. CASE ReadHPA(r)
    <3>1. [j EXCEPT !.hpa = cluster.hpa] \in JobType
      BY <1>1 DEF JobType, ClusterType
    <3> QED
      BY <2>0, <2>3, <3>1, ReadFits DEF ReadHPA
  <2>4. CASE SaveMin(r)
    <3>1. [cluster EXCEPT !.saved.min = j.hpa.min] \in ClusterType
      BY <1>1, <1>2 DEF ClusterType, Bounds
    <3> QED
      BY <2>0, <2>4, <3>1, CallFits DEF SaveMin
  <2>5. CASE SaveMax(r)
    <3>1. [cluster EXCEPT !.saved.max = j.hpa.max] \in ClusterType
      BY <1>1, <1>2 DEF ClusterType, Bounds
    <3> QED
      BY <2>0, <2>5, <3>1, CallFits DEF SaveMax
  <2>6. CASE PinHPA(r)
    <3>1. [cluster EXCEPT !.hpa = Pinned] \in ClusterType
      BY <1>1, BoundsFit DEF ClusterType
    <3> QED
      BY <2>0, <2>6, <3>1, CallFits DEF PinHPA
  <2>7. CASE RestoreHPA(r)
    <3>1. [cluster EXCEPT !.hpa = j.deploy.saved] \in ClusterType
      BY <1>1, <1>2 DEF ClusterType, DeploymentType
    <3> QED
      BY <2>0, <2>7, <3>1, CallFits DEF RestoreHPA
  <2>8. CASE ClearMin(r)
    <3>1. [cluster EXCEPT !.saved.min = Unsaved] \in ClusterType
      BY <1>1, SizesFit DEF ClusterType, Bounds, Unsaved
    <3> QED
      BY <2>0, <2>8, <3>1, CallFits DEF ClearMin
  <2>9. CASE ClearMax(r)
    <3>1. [cluster EXCEPT !.saved.max = Unsaved] \in ClusterType
      BY <1>1, SizesFit DEF ClusterType, Bounds, Unsaved
    <3> QED
      BY <2>0, <2>9, <3>1, CallFits DEF ClearMax
  <2>10. CASE Pause(r)
    <3>1. [cluster EXCEPT !.paused = BlockRollouts(j.tier)] \in ClusterType
      <4>1. BlockRollouts(j.tier) \in BOOLEAN
        BY DEF BlockRollouts
      <4> QED
        BY <1>1, <4>1, Zenon DEF ClusterType
    <3>2. AfterPause(j.tier) \in Steps
      BY DEF AfterPause
    <3> QED
      BY <2>0, <2>10, <3>1, <3>2, CallFits, SkipFits DEF Pause
  <2>11. CASE ListNodes(r)
    <3>1. [j EXCEPT !.nodes = Nodes \ cluster.cordoned] \in JobType
      BY <1>1 DEF JobType
    <3> QED
      BY <2>0, <2>11, <3>1, ReadFits DEF ListNodes
  <2>12. CASE StartCordon(r) \/ StartUncordon(r)
    <3>1. PICK nodes \in SUBSET Nodes, step \in Steps : StartLoop(r, nodes, step)
      BY <1>2, <2>0, <2>12 DEF StartCordon, StartUncordon
    <3> QED
      BY <1>1, <2>0, <3>1, LoopFits DEF StartLoop
  <2>13. CASE CordonNode(r)
    <3>1. PICK n \in j.nodes :
            NodeCall(r, n, [cluster EXCEPT !.cordoned = @ \cup {n}], owned \cup {n})
      BY <2>13 DEF CordonNode
    <3>2. [cluster EXCEPT !.cordoned = @ \cup {n}] \in ClusterType
      BY <1>1, <1>2 DEF ClusterType
    <3>3. owned \cup {n} \subseteq Nodes
      BY <1>2, <2>0
    <3> QED
      BY <3>1, <3>2, <3>3, NodeCallFits
  <2>14. CASE UncordonNode(r)
    <3>1. PICK n \in j.nodes :
            NodeCall(r, n, [cluster EXCEPT !.cordoned = @ \ {n}], owned \ {n})
      BY <2>14 DEF UncordonNode
    <3>2. [cluster EXCEPT !.cordoned = @ \ {n}] \in ClusterType
      BY <1>1, <1>2 DEF ClusterType
    <3>3. owned \ {n} \subseteq Nodes
      BY <2>0
    <3> QED
      BY <3>1, <3>2, <3>3, NodeCallFits
  <2>15. CASE EndLoop(r)
    BY <2>0, <2>15, SkipFits DEF EndLoop
  <2> QED
    BY <2>1, <2>2, <2>3, <2>4, <2>5, <2>6, <2>7, <2>8, <2>9, <2>10, <2>11, <2>12,
       <2>13, <2>14, <2>15
    DEF Reconcile
<1> QED
  BY <1>3 DEF TypeOK, JobsOK, HistoryOK

LEMMA TypeStep == TypeOK /\ [Next]_vars => TypeOK'
<1> SUFFICES ASSUME TypeOK, [Next]_vars PROVE TypeOK'
  OBVIOUS
<1>0. JobsOK /\ HistoryOK
  BY DEF TypeOK, JobsOK, HistoryOK
<1>1. ASSUME NEW t \in TierNames, ApplyTier(t) PROVE TypeOK'
  <2>1. HistoryOK'
    BY <1>0, <1>1, TroubleFits DEF ApplyTier, Trouble, HistoryOK, Troubles
  <2>2. JobsOK'
    BY <1>0, <1>1, JobsFit DEF ApplyTier, JobsOK, Steps
  <2> QED
    BY <1>1, <2>1, <2>2 DEF ApplyTier, TypeOK, JobsOK, HistoryOK
<1>2. ASSUME NEW r \in Workers, Reconcile(r) PROVE TypeOK'
  BY <1>2, ReconcileFits
<1>3. CASE Autoscale
  <2>1. PICK n \in cluster.hpa.min..cluster.hpa.max : cluster' = [cluster EXCEPT !.replicas = n]
    BY <1>3 DEF Autoscale
  <2>2. cluster \in ClusterType /\ n \in Sizes
    BY SizesFit DEF TypeOK, ClusterType, Bounds
  <2>3. cluster' \in ClusterType
    BY <2>1, <2>2 DEF ClusterType
  <2> QED
    BY <1>3, <2>3 DEF Autoscale, TypeOK, history
<1>4. CASE AdminCordon
  <2>1. cluster' \in ClusterType /\ foreign' \subseteq Nodes
    BY <1>4 DEF AdminCordon, TypeOK, ClusterType
  <2> QED
    BY <1>4, <2>1 DEF AdminCordon, TypeOK, history
<1>5. CASE Crash
  <2>1. NoJob \in JobType
    BY JobsFit, ReconcilerAssumption DEF NoJob, ReconcilerAssumption
  <2>2. HistoryOK'
    BY <1>0, <1>5, TroubleFits DEF Crash, Troubles
  <2> QED
    BY <1>5, <2>1, <2>2, ReconcilerAssumption
    DEF Crash, TypeOK, Steps, HistoryOK, ReconcilerAssumption
<1>6. CASE UNCHANGED vars
  BY <1>6 DEF vars, history, TypeOK
<1> QED
  BY <1>1, <1>2, <1>3, <1>4, <1>5, <1>6 DEF Next

\* Types of every variable of the reconciler.
THEOREM ReconcilerTypeCorrect == Spec => []TypeOK
<1>1. Init => TypeOK
  BY BoundsFit, JobsFit, ReconcilerAssumption
  DEF Init, TypeOK, NoJob, Steps, ReconcilerAssumption
<1> QED
  BY <1>1, TypeStep, PTL DEF Spec

-----------------------------------------------------------------------------
\* A call answered as it should be has been carried out; no other keeps the
\* history free of trouble, and no step takes a trouble back.
LEMMA CallRemembers ==
    ASSUME NEW r, NEW after, NEW done, NEW failed, Call(r, after, done, failed)
    PROVE  /\ troubles \subseteq troubles' /\ cluster' \in {cluster, after}
           /\ \/ cluster' = after /\ Goto(r, done) /\ UNCHANGED history
              \/ clean' = FALSE /\ troubles' # {}
<1>1. CASE cluster' = after /\ Goto(r, done) /\ UNCHANGED history
  BY <1>1 DEF history
<1>2. CASE (UNCHANGED cluster \/ cluster' = after) /\ (Trouble("refused") \/ Trouble("unanswered"))
  BY <1>2 DEF Trouble
<1> QED
  BY <1>1, <1>2 DEF Call

NodeCalls(r) == CordonNode(r) \/ UncordonNode(r)

\* Only the calls of the loops over the nodes touch cordons and the record of them.
LEMMA OthersLeaveNodes ==
    ASSUME TypeOK, NEW r \in Workers, Reconcile(r), ~NodeCalls(r)
    PROVE  /\ cluster'.cordoned = cluster.cordoned
           /\ UNCHANGED <<owned, foreign, applied>>
           /\ troubles \subseteq troubles'
<1>0. cluster \in ClusterType
  BY DEF TypeOK
<1> USE <1>0 DEF ClusterType, OnlyCluster, Trouble, history
<1>1. CASE GetDeployment(r) \/ ReadHPA(r) \/ ListNodes(r)
  BY <1>1 DEF GetDeployment, ReadHPA, ListNodes, Read
<1>2. CASE Scale(r)
  BY <1>2 DEF Scale, Call
<1>3. CASE SaveMin(r)
  BY <1>3 DEF SaveMin, Call
<1>4. CASE SaveMax(r)
  BY <1>4 DEF SaveMax, Call
<1>5. CASE PinHPA(r)
  BY <1>5 DEF PinHPA, Call
<1>6. CASE RestoreHPA(r)
  BY <1>6 DEF RestoreHPA, Call
<1>7. CASE ClearMin(r)
  BY <1>7 DEF ClearMin, Call
<1>8. CASE ClearMax(r)
  BY <1>8 DEF ClearMax, Call
<1>9. CASE Pause(r)
  BY <1>9 DEF Pause, Call
<1>10. CASE StartCordon(r) \/ StartUncordon(r) \/ EndLoop(r)
  BY <1>10 DEF StartCordon, StartUncordon, StartLoop, EndLoop
<1> QED
  BY <1>1, <1>2, <1>3, <1>4, <1>5, <1>6, <1>7, <1>8, <1>9, <1>10 DEF Reconcile, NodeCalls

LEMMA CordonStep == TypeOK /\ CordonsAreOwned /\ [Next]_vars => CordonsAreOwned'
<1> SUFFICES ASSUME TypeOK, CordonsAreOwned, [Next]_vars,
                    troubles' \subseteq {"overlap", "refused"}
             PROVE  cluster'.cordoned \subseteq owned' \cup foreign'
  BY DEF CordonsAreOwned
<1>0. cluster \in ClusterType
  BY DEF TypeOK
<1>a. SUFFICES troubles \subseteq troubles' /\
               (cluster.cordoned \subseteq owned \cup foreign =>
                  cluster'.cordoned \subseteq owned' \cup foreign')
  BY DEF CordonsAreOwned
<1>1. ASSUME NEW t \in TierNames, ApplyTier(t) PROVE <1>a!1
  BY <1>1 DEF ApplyTier, Trouble
<1>2. ASSUME NEW r \in Workers, Reconcile(r), ~NodeCalls(r) PROVE <1>a!1
  BY <1>2, OthersLeaveNodes
<1>3. ASSUME NEW r \in Workers, CordonNode(r) PROVE <1>a!1
  BY <1>0, <1>3 DEF CordonNode, NodeCall, ClusterType, Trouble, history
<1>4. ASSUME NEW r \in Workers, UncordonNode(r) PROVE <1>a!1
  BY <1>0, <1>4 DEF UncordonNode, NodeCall, ClusterType, Trouble, history
<1>5. CASE Autoscale \/ UNCHANGED vars
  BY <1>0, <1>5 DEF Autoscale, ClusterType, vars, history
<1>6. CASE AdminCordon
  BY <1>0, <1>6 DEF AdminCordon, ClusterType, history
<1>7. CASE Crash
  BY <1>7 DEF Crash, Trouble
<1> QED
  BY <1>1, <1>2, <1>3, <1>4, <1>5, <1>6, <1>7 DEF Next, NodeCalls

\* However reconciles overlap and whatever is refused, every cordoned node is an
\* administrator's or in the reconciler's record (cordonAll, uncordonOwned).
THEOREM NoCordonIsLost == Spec => []CordonsAreOwned
<1>1. Init => CordonsAreOwned
  BY DEF Init, CordonsAreOwned, Untouched
<1> QED
  BY <1>1, CordonStep, ReconcilerTypeCorrect, PTL DEF Spec

-----------------------------------------------------------------------------
\* A step of one reconcile moves no other goroutine, and never starts one.
LEMMA OnlyOneMoves ==
    ASSUME TypeOK, NEW r \in Workers, Reconcile(r)
    PROVE  /\ Busy(r)
           /\ \A s \in Workers : s # r => pc'[s] = pc[s]
           /\ clean' = TRUE => clean = TRUE
           /\ troubles' = {} => troubles = {} /\ (clean => clean' = TRUE)
           /\ UNCHANGED <<foreign, applied>>
<1> USE DEF Busy, At, Goto, Trouble, history, OnlyCluster, TypeOK
<1>1. CASE GetDeployment(r) \/ ReadHPA(r) \/ ListNodes(r)
  BY <1>1 DEF GetDeployment, ReadHPA, ListNodes, Read
<1>2. CASE Scale(r)
  BY <1>2 DEF Scale, Call
<1>3. CASE SaveMin(r) \/ SaveMax(r) \/ PinHPA(r)
  BY <1>3 DEF SaveMin, SaveMax, PinHPA, Call
<1>4. CASE RestoreHPA(r) \/ ClearMin(r) \/ ClearMax(r)
  BY <1>4 DEF RestoreHPA, ClearMin, ClearMax, Call
<1>5. CASE Pause(r)
  BY <1>5 DEF Pause, Call
<1>6. CASE StartCordon(r) \/ StartUncordon(r) \/ EndLoop(r)
  BY <1>6 DEF StartCordon, StartUncordon, StartLoop, EndLoop
<1>7. CASE CordonNode(r) \/ UncordonNode(r)
  BY <1>7 DEF CordonNode, UncordonNode, NodeCall
<1> QED
  BY <1>1, <1>2, <1>3, <1>4, <1>5, <1>6, <1>7 DEF Reconcile

\* A reconcile that is alone and meets no failure stays on its way.
LEMMA WayStep ==
    ASSUME TypeOK, NEW r \in Workers, Reconcile(r), OnItsWay(r), clean' = TRUE, Busy(r)'
    PROVE  OnItsWay(r)'
<1> DEFINE j == job[r]
<1>0. /\ cluster \in ClusterType /\ j \in JobType
      /\ pc \in [Workers -> Steps] /\ job \in [Workers -> JobType]
  BY DEF TypeOK
<1> USE <1>0 DEF ClusterType, JobType, At, Goto, Trouble, OnlyCluster, OnItsWay,
                 HotSteps, NominalSteps, NodeSteps, Busy
<1>1. CASE GetDeployment(r)
  BY <1>1 DEF GetDeployment, Read, Deployment, DeploymentType
<1>2. CASE Scale(r)
  <2> DEFINE next == AfterScale(j.tier, j.deploy)
  <2>1. next \in {"readHPA", "restore", "pause"}
    BY DEF AfterScale
  <2>2. /\ next = "readHPA" <=> j.tier = "hot"
        /\ next = "restore" => j.tier = "nominal"
    BY DEF AfterScale, DisableHPA
  <2>3. /\ pc' = [pc EXCEPT ![r] = next] /\ UNCHANGED <<job, applied>>
        /\ cluster'.paused = cluster.paused
    BY <1>2, <2>1 DEF Scale, Call
  <2> QED
    BY <1>2, <2>1, <2>2, <2>3 DEF Scale
<1>3. CASE ReadHPA(r)
  BY <1>3 DEF ReadHPA, Read
<1>4. CASE SaveMin(r)
  BY <1>4 DEF SaveMin, Call
<1>5. CASE SaveMax(r)
  BY <1>5 DEF SaveMax, Call
<1>6. CASE PinHPA(r)
  BY <1>6 DEF PinHPA, Call
<1>7. CASE RestoreHPA(r)
  BY <1>7 DEF RestoreHPA, Call
<1>8. CASE ClearMin(r)
  BY <1>8 DEF ClearMin, Call
<1>9. CASE ClearMax(r)
  BY <1>9 DEF ClearMax, Call
<1>10. CASE Pause(r)
  <2> DEFINE next == AfterPause(j.tier)
  <2>1. next \in {"list", "uncordon"} /\ (next = "list" <=> j.tier = "survival")
    BY DEF AfterPause, BlockScheduling
  <2>2. /\ pc' = [pc EXCEPT ![r] = next] /\ UNCHANGED <<job, applied>>
        /\ cluster'.paused = BlockRollouts(j.tier) /\ cluster'.hpa = cluster.hpa
    BY <1>10, <2>1 DEF Pause, Call
  <2> QED
    BY <1>10, <2>1, <2>2 DEF Pause
<1>11. CASE ListNodes(r)
  BY <1>11 DEF ListNodes, Read
<1>12. CASE StartCordon(r) \/ StartUncordon(r)
  BY <1>12 DEF StartCordon, StartUncordon, StartLoop
<1>13. CASE CordonNode(r) \/ UncordonNode(r)
  BY <1>13 DEF CordonNode, UncordonNode, NodeCall
<1>14. CASE EndLoop(r)
  BY <1>14 DEF EndLoop
<1> QED
  BY <1>1, <1>2, <1>3, <1>4, <1>5, <1>6, <1>7, <1>8, <1>9, <1>10, <1>11, <1>12, <1>13, <1>14
  DEF Reconcile

LEMMA AloneStep == TypeOK /\ AloneInv /\ [Next]_vars => AloneInv'
<1> SUFFICES ASSUME TypeOK, AloneInv, [Next]_vars, clean' = TRUE, NEW q \in Workers
             PROVE  Alone(q)'
  BY TypeStep DEF AloneInv, TypeOK
<1>1. ASSUME NEW t \in TierNames, ApplyTier(t) PROVE Alone(q)'
  <2>1. PICK r \in Workers : /\ pc[r] = "idle"
                             /\ pc' = [pc EXCEPT ![r] = "get"]
                             /\ job' = [job EXCEPT ![r] = JobFor(t)]
    BY <1>1 DEF ApplyTier
  <2>2. Quiet /\ applied' = t
    BY <1>1 DEF ApplyTier, Trouble
  <2>3. \A s \in Workers : Busy(s)' => s = r
    BY <2>1, <2>2 DEF Quiet, Busy, TypeOK
  <2>4. pc'[r] = "get" /\ job'[r].tier = t
    BY <2>1 DEF TypeOK, JobFor
  <2>5. OnItsWay(r)'
    BY <2>2, <2>4 DEF OnItsWay, HotSteps, NominalSteps, NodeSteps
  <2> QED
    BY <2>3, <2>5 DEF Alone
<1>2. ASSUME NEW r \in Workers, Reconcile(r) PROVE Alone(q)'
  <2>1. OnItsWay(r) /\ \A s \in Workers : Busy(s) => s = r
    BY <1>2, OnlyOneMoves DEF AloneInv, Alone
  <2>2. \A s \in Workers : Busy(s)' => s = r
    BY <1>2, <2>1, OnlyOneMoves DEF Busy
  <2> QED
    BY <1>2, <2>1, <2>2, WayStep DEF Alone
<1>3. CASE Autoscale \/ AdminCordon
  <2>1. /\ cluster'.paused = cluster.paused /\ cluster'.hpa = cluster.hpa
        /\ cluster.cordoned \subseteq cluster'.cordoned
        /\ UNCHANGED <<owned, applied, pc, job, clean>>
    BY <1>3 DEF Autoscale, AdminCordon, TypeOK, ClusterType, history
  <2> QED
    BY <2>1 DEF AloneInv, Alone, OnItsWay, Busy
<1>4. CASE Crash
  BY <1>4 DEF Crash, Trouble
<1>5. CASE UNCHANGED vars
  <2>1. UNCHANGED <<cluster, owned, applied, pc, job, clean>>
    BY <1>5 DEF vars, history
  <2> QED
    BY <2>1 DEF AloneInv, Alone, OnItsWay, Busy
<1> QED
  BY <1>1, <1>2, <1>3, <1>4, <1>5 DEF Next

\* A reconcile that meets no failure ends with a loop over the nodes.
LEMMA EndsWithNodes ==
    ASSUME TypeOK, NEW r \in Workers, Reconcile(r), clean' = TRUE, pc'[r] = "idle"
    PROVE  EndLoop(r)
<1>0. pc \in [Workers -> Steps]
  BY DEF TypeOK
<1> USE <1>0 DEF Goto, Trouble
<1>1. ~(GetDeployment(r) \/ ReadHPA(r) \/ ListNodes(r))
  BY DEF GetDeployment, ReadHPA, ListNodes, Read
<1>2. ~(SaveMin(r) \/ SaveMax(r) \/ PinHPA(r) \/ RestoreHPA(r) \/ ClearMin(r) \/ ClearMax(r))
  BY DEF SaveMin, SaveMax, PinHPA, RestoreHPA, ClearMin, ClearMax, Call
<1>3. ~Scale(r)
  <2>1. AfterScale(job[r].tier, job[r].deploy) # "idle"
    BY DEF AfterScale
  <2> QED
    BY <2>1 DEF Scale, Call
<1>4. ~Pause(r)
  <2>1. AfterPause(job[r].tier) # "idle"
    BY DEF AfterPause
  <2> QED
    BY <2>1 DEF Pause, Call
<1>5. ~(StartCordon(r) \/ StartUncordon(r) \/ CordonNode(r) \/ UncordonNode(r))
  BY DEF StartCordon, StartUncordon, StartLoop, CordonNode, UncordonNode, NodeCall, At
<1> QED
  BY <1>1, <1>2, <1>3, <1>4, <1>5 DEF Reconcile

\* What the tier demands stays so until the next is applied.
LEMMA LoneStep ==
    TypeOK /\ AloneInv /\ LoneReconcileEnforces /\ [Next]_vars => LoneReconcileEnforces'
<1> SUFFICES ASSUME TypeOK, AloneInv, LoneReconcileEnforces, [Next]_vars, Quiet', clean' = TRUE
             PROVE  /\ cluster'.paused = BlockRollouts(applied')
                    /\ applied' = "survival" => cluster'.cordoned = Nodes
                    /\ applied' = "hot" => cluster'.hpa = Pinned
  BY TypeStep DEF LoneReconcileEnforces, TypeOK
<1> DEFINE Enforced == /\ cluster'.paused = BlockRollouts(applied')
                       /\ applied' = "survival" => cluster'.cordoned = Nodes
                       /\ applied' = "hot" => cluster'.hpa = Pinned
<1>0. cluster \in ClusterType /\ pc \in [Workers -> Steps] /\ job \in [Workers -> JobType]
  BY DEF TypeOK
<1>1. ASSUME NEW t \in TierNames, ApplyTier(t) PROVE FALSE
  BY <1>0, <1>1 DEF ApplyTier, Quiet
<1>2. ASSUME NEW r \in Workers, Reconcile(r) PROVE Enforced
  <2>1. clean = TRUE /\ OnItsWay(r)
    BY <1>2, OnlyOneMoves DEF AloneInv, Alone
  <2>2. EndLoop(r)
    BY <1>2, EndsWithNodes DEF Quiet
  <2>3. /\ job[r].tier = applied /\ job[r].nodes = {}
        /\ cluster.paused = BlockRollouts(applied)
        /\ applied = "hot" => cluster.hpa = Pinned
        /\ UNCHANGED <<cluster, applied>>
    BY <2>1, <2>2 DEF OnItsWay, NodeSteps, EndLoop, At, OnlyCluster
  <2>4. applied = "survival" => Nodes \ cluster.cordoned = {}
    BY <2>1, <2>2, <2>3 DEF OnItsWay, EndLoop, At
  <2>5. cluster.cordoned \subseteq Nodes
    BY <1>0 DEF ClusterType
  <2> QED
    BY <2>3, <2>4, <2>5
<1>3. CASE Autoscale \/ AdminCordon \/ UNCHANGED vars
  <2>1. /\ cluster'.paused = cluster.paused /\ cluster'.hpa = cluster.hpa
        /\ cluster.cordoned \subseteq cluster'.cordoned /\ cluster'.cordoned \subseteq Nodes
        /\ UNCHANGED <<applied, pc, clean>>
    BY <1>0, <1>3 DEF Autoscale, AdminCordon, ClusterType, vars, history
  <2>2. Quiet /\ clean
    BY <2>1 DEF Quiet
  <2> QED
    BY <2>1, <2>2 DEF LoneReconcileEnforces
<1>4. CASE Crash
  BY <1>4 DEF Crash, Trouble
<1> QED
  BY <1>1, <1>2, <1>3, <1>4 DEF Next

\* A reconcile that had the cluster to itself leaves it as its tier demands,
\* whatever failed, overlapped or crashed before (Reconcile).
THEOREM LoneReconcileSuffices == Spec => []LoneReconcileEnforces
<1>1. Init => AloneInv /\ LoneReconcileEnforces
  <2> SUFFICES ASSUME Init PROVE AloneInv /\ LoneReconcileEnforces
    OBVIOUS
  <2>1. AloneInv
    BY DEF Init, AloneInv, Alone, Busy
  <2>2. cluster.paused = FALSE /\ applied = "nominal"
    BY DEF Init, Untouched
  <2>3. BlockRollouts("nominal") = FALSE
    BY DEF BlockRollouts
  <2> QED
    BY <2>1, <2>2, <2>3 DEF LoneReconcileEnforces
<1> QED
  BY <1>1, AloneStep, LoneStep, ReconcilerTypeCorrect, PTL DEF Spec

-----------------------------------------------------------------------------
LEMMA OriginalsAreSaved ==
    /\ Originals.min = OriginalMin /\ Originals.max = OriginalMax
    /\ OriginalMin # Unsaved /\ OriginalMax # Unsaved
    /\ \A b \in Bounds : b.min = OriginalMin /\ b.max = OriginalMax => b = Originals
    /\ \A b \in Bounds : b.min = Unsaved /\ b.max = Unsaved => b = [min |-> Unsaved, max |-> Unsaved]
BY ReconcilerAssumption DEF ReconcilerAssumption, Originals, Unsaved, Bounds

\* A reconcile that is alone since the beginning keeps the owner's bounds in the
\* HPA or in the annotations, call by call.
LEMMA BoundsCall ==
    ASSUME TypeOK, NEW r \in Workers, Reconcile(r), OnItsWay(r), BoundsAt(r), troubles' = {}
    PROVE  /\ Busy(r)' => BoundsAt(r)'
           /\ ~Busy(r)' => Lockable(applied)'
<1> DEFINE j == job[r]
<1>0. /\ cluster \in ClusterType /\ j \in JobType
      /\ pc \in [Workers -> Steps] /\ job \in [Workers -> JobType]
  BY DEF TypeOK
<1> USE <1>0 DEF ClusterType, JobType, At, Goto, Trouble, OnlyCluster, BoundsAt, NodeSteps, Busy
<1>1. CASE GetDeployment(r)
  <2>1. /\ pc'[r] = "scale" /\ job'[r].deploy.saved = cluster.saved /\ UNCHANGED cluster
    BY <1>1 DEF GetDeployment, Read, Deployment, DeploymentType
  <2>2. Free \/ Locked
    BY <1>1 DEF GetDeployment
  <2> QED
    BY <2>1, <2>2 DEF Free, Locked
<1>2. CASE Scale(r)
  <2> DEFINE next == AfterScale(j.tier, j.deploy)
  <2>0. pc[r] = "scale" /\ (Free \/ Locked) /\ j.deploy.saved = cluster.saved
    BY <1>2 DEF Scale
  <2>1. next \in {"readHPA", "restore", "pause"}
    BY DEF AfterScale
  <2>2. /\ pc' = [pc EXCEPT ![r] = next] /\ UNCHANGED <<job, applied>>
        /\ cluster'.hpa = cluster.hpa /\ cluster'.saved = cluster.saved
    BY <1>2, <2>1 DEF Scale, Call
  <2>3. next = "restore" => cluster.saved = Originals
    BY <2>0 DEF AfterScale, Free, Locked
  <2>4. next = "pause" => Lockable(j.tier)
    <3>1. CASE j.tier = "nominal"
      BY <2>0, <3>1, OriginalsAreSaved DEF AfterScale, DisableHPA, Lockable, Locked
    <3> QED
      BY <2>0, <3>1 DEF Lockable
  <2> QED
    BY <2>0, <2>1, <2>2, <2>3, <2>4 DEF Free, Locked, Lockable
<1>3. CASE ReadHPA(r)
  <2>0. (Free \/ Locked) /\ j.deploy.saved = cluster.saved /\ j.tier = "hot"
    BY <1>3 DEF ReadHPA, OnItsWay, HotSteps
  <2>1. CASE j.deploy.saved.min = Unsaved
    <3>1. cluster.hpa = Originals
      BY <2>0, <2>1, OriginalsAreSaved DEF Free, Locked
    <3> QED
      BY <1>3, <2>1, <3>1 DEF ReadHPA, Read
  <2>2. CASE j.deploy.saved.min # Unsaved
    <3>1. cluster.saved = Originals
      BY <2>0, <2>2 DEF Free, Locked
    <3> QED
      BY <1>3, <2>2, <3>1 DEF ReadHPA, Read
  <2> QED
    BY <2>1, <2>2
<1>4. CASE SaveMin(r)
  BY <1>4, OriginalsAreSaved DEF SaveMin, Call, Bounds
<1>5. CASE SaveMax(r)
  <2>1. /\ pc'[r] = "pin"
        /\ cluster'.saved.min = OriginalMin /\ cluster'.saved.max = OriginalMax
        /\ cluster'.saved \in Bounds
    BY <1>5, BoundsFit, OriginalsAreSaved DEF SaveMax, Call, Bounds
  <2> QED
    BY <2>1, OriginalsAreSaved
<1>6. CASE PinHPA(r)
  <2>1. pc'[r] = "pause" /\ cluster'.hpa = Pinned /\ cluster'.saved = Originals /\ job' = job
    BY <1>6 DEF PinHPA, Call
  <2>2. j.tier = "hot"
    BY <1>6 DEF PinHPA, OnItsWay, HotSteps
  <2> QED
    BY <2>1, <2>2 DEF Lockable, Locked
<1>7. CASE RestoreHPA(r)
  BY <1>7 DEF RestoreHPA, Call
<1>8. CASE ClearMin(r)
  BY <1>8 DEF ClearMin, Call, Bounds
<1>9. CASE ClearMax(r)
  <2>1. /\ pc'[r] = "pause" /\ cluster'.hpa = Originals
        /\ cluster'.saved.min = Unsaved /\ cluster'.saved.max = Unsaved
        /\ cluster'.saved \in Bounds
    BY <1>9, SizesFit DEF ClearMax, Call, Bounds, Unsaved
  <2> QED
    BY <2>1, OriginalsAreSaved DEF Lockable, Free
<1>10. CASE Pause(r)
  <2> DEFINE next == AfterPause(j.tier)
  <2>1. next \in {"list", "uncordon"}
    BY DEF AfterPause
  <2>2. /\ pc' = [pc EXCEPT ![r] = next] /\ UNCHANGED <<job, applied>>
        /\ cluster'.hpa = cluster.hpa /\ cluster'.saved = cluster.saved
    BY <1>10, <2>1 DEF Pause, Call
  <2>3. Lockable(j.tier)
    BY <1>10 DEF Pause
  <2> QED
    BY <2>1, <2>2, <2>3 DEF Lockable, Free, Locked
<1>11. CASE ListNodes(r)
  <2>1. Lockable(j.tier)
    BY <1>11 DEF ListNodes
  <2>2. pc'[r] = "cordon" /\ job'[r].tier = j.tier /\ UNCHANGED cluster
    BY <1>11 DEF ListNodes, Read
  <2> QED
    BY <2>1, <2>2 DEF Lockable, Free, Locked
<1>12. CASE StartCordon(r) \/ StartUncordon(r)
  <2>1. Lockable(j.tier)
    BY <1>12 DEF StartCordon, StartUncordon
  <2>2. pc'[r] \in {"cordoning", "uncordoning"} /\ job'[r].tier = j.tier /\ UNCHANGED cluster
    BY <1>12 DEF StartCordon, StartUncordon, StartLoop
  <2> QED
    BY <2>1, <2>2 DEF Lockable, Free, Locked
<1>13. CASE CordonNode(r) \/ UncordonNode(r)
  <2>1. Lockable(j.tier)
    BY <1>13 DEF CordonNode, UncordonNode
  <2>2. /\ pc'[r] \in {"cordoning", "uncordoning"} /\ job'[r].tier = j.tier
        /\ cluster'.hpa = cluster.hpa /\ cluster'.saved = cluster.saved
    BY <1>13 DEF CordonNode, UncordonNode, NodeCall
  <2> QED
    BY <2>1, <2>2 DEF Lockable, Free, Locked
<1>14. CASE EndLoop(r)
  <2>1. Lockable(j.tier) /\ j.tier = applied
    BY <1>14 DEF EndLoop, OnItsWay
  <2>2. pc'[r] = "idle" /\ UNCHANGED <<cluster, applied>>
    BY <1>14 DEF EndLoop
  <2> QED
    BY <2>1, <2>2 DEF Lockable, Free, Locked
<1> QED
  BY <1>1, <1>2, <1>3, <1>4, <1>5, <1>6, <1>7, <1>8, <1>9, <1>10, <1>11, <1>12, <1>13, <1>14
  DEF Reconcile

LEMMA BoundsStep == TypeOK /\ AloneInv /\ BoundsInv /\ [Next]_vars => BoundsInv'
<1> SUFFICES ASSUME TypeOK, AloneInv, BoundsInv, [Next]_vars, troubles' = {}
             PROVE  /\ clean'
                    /\ \A q \in Workers : Busy(q)' => BoundsAt(q)'
                    /\ Quiet' => Lockable(applied)'
                    /\ Quiet' /\ applied' # "survival" => owned' = {}
  BY DEF BoundsInv
<1> DEFINE Kept == /\ clean'
                   /\ \A q \in Workers : Busy(q)' => BoundsAt(q)'
                   /\ Quiet' => Lockable(applied)'
                   /\ Quiet' /\ applied' # "survival" => owned' = {}
<1>0. cluster \in ClusterType /\ pc \in [Workers -> Steps] /\ job \in [Workers -> JobType]
  BY DEF TypeOK
<1>1. ASSUME NEW t \in TierNames, ApplyTier(t) PROVE Kept
  <2>1. Quiet /\ troubles = {} /\ clean' = TRUE /\ UNCHANGED cluster
    BY <1>1 DEF ApplyTier, Trouble
  <2>2. PICK r \in Workers : /\ pc[r] = "idle"
                             /\ pc' = [pc EXCEPT ![r] = "get"]
    BY <1>1 DEF ApplyTier
  <2>3. pc'[r] = "get" /\ \A q \in Workers : Busy(q)' => q = r
    BY <1>0, <2>1, <2>2 DEF Quiet, Busy
  <2>4. Free \/ Locked
    BY <2>1 DEF BoundsInv, Lockable
  <2>5. BoundsAt(r)'
    BY <2>1, <2>3, <2>4 DEF BoundsAt, Free, Locked, NodeSteps
  <2> QED
    BY <2>1, <2>3, <2>5 DEF Quiet
<1>2. ASSUME NEW r \in Workers, Reconcile(r) PROVE Kept
  <2>1. troubles = {} /\ clean = TRUE /\ clean' = TRUE
    BY <1>2, OnlyOneMoves DEF BoundsInv, TypeOK
  <2>2. OnItsWay(r) /\ BoundsAt(r)
    BY <1>2, <2>1, OnlyOneMoves DEF AloneInv, Alone, BoundsInv
  <2>3. \A q \in Workers : Busy(q)' => q = r
    BY <1>2, <2>1, OnlyOneMoves DEF AloneInv, Alone, Busy
  <2>4. Quiet' => ~Busy(r)'
    BY DEF Quiet, Busy
  <2>5. Quiet' /\ applied' # "survival" => owned' = {}
    <3> SUFFICES ASSUME Quiet', applied' # "survival" PROVE owned' = {}
      OBVIOUS
    <3>1. EndLoop(r) /\ applied # "survival"
      BY <1>2, <2>1, EndsWithNodes, OnlyOneMoves DEF Quiet
    <3>2. At(r, "uncordoning")
      BY <2>2, <3>1 DEF EndLoop, At, OnItsWay
    <3>3. owned \subseteq job[r].nodes
      BY <2>2, <3>2 DEF At, OnItsWay
    <3> QED
      BY <3>1, <3>3 DEF EndLoop, OnlyCluster
  <2> QED
    BY <1>2, <2>1, <2>2, <2>3, <2>4, <2>5, BoundsCall
<1>3. CASE Autoscale \/ AdminCordon \/ UNCHANGED vars
  <2>1. /\ cluster'.hpa = cluster.hpa /\ cluster'.saved = cluster.saved
        /\ UNCHANGED <<owned, applied, pc, job, clean, troubles>>
    BY <1>0, <1>3 DEF Autoscale, AdminCordon, ClusterType, vars, history
  <2> QED
    BY <2>1 DEF BoundsInv, BoundsAt, Busy, Quiet, Lockable, Free, Locked
<1>4. CASE Crash
  BY <1>4 DEF Crash, Trouble
<1> QED
  BY <1>1, <1>2, <1>3, <1>4 DEF Next

LEMMA BoundsHold == Spec => [](TypeOK /\ AloneInv /\ BoundsInv)
<1>1. Init => AloneInv /\ BoundsInv
  BY DEF Init, AloneInv, Alone, Busy, BoundsInv, Quiet, Lockable, Free, Untouched
<1> QED
  BY <1>1, AloneStep, BoundsStep, ReconcilerTypeCorrect, PTL DEF Spec

\* The bounds the owner gave the HPA are in the HPA or in the annotations at
\* every moment, as long as reconciles do not overlap and no call fails
\* (lockHPA, restoreHPA).
THEOREM BoundsAreNeverLost == Spec => []BoundsRecoverable
<1>1. TypeOK /\ AloneInv /\ BoundsInv => BoundsRecoverable
  <2> SUFFICES ASSUME TypeOK, AloneInv, BoundsInv, troubles = {}
               PROVE  cluster.hpa = Originals \/ cluster.saved = Originals
    BY DEF BoundsRecoverable
  <2>1. CASE Quiet
    BY <2>1 DEF BoundsInv, Lockable, Free, Locked
  <2>2. ASSUME NEW r \in Workers, Busy(r) PROVE BoundsRecoverable
    <3>1. BoundsAt(r) /\ pc[r] \in Steps
      BY <2>2 DEF BoundsInv, TypeOK
    <3>2. CASE pc[r] \in {"get", "scale", "readHPA", "pause"} \cup NodeSteps
      BY <3>1, <3>2 DEF BoundsAt, Lockable, Free, Locked, BoundsRecoverable
    <3>3. CASE pc[r] \notin {"get", "scale", "readHPA", "pause"} \cup NodeSteps
      BY <2>2, <3>1, <3>3 DEF BoundsAt, Busy, Steps, NodeSteps, BoundsRecoverable
    <3> QED
      BY <3>2, <3>3
  <2> QED
    BY <2>1, <2>2 DEF Quiet, Busy, BoundsRecoverable
<1> QED
  BY <1>1, BoundsHold, PTL

\* In nominal nothing is left of what the reconciler did on the way: the HPA has
\* its owner's bounds and only nodes of an administrator are cordoned.
THEOREM NominalLeavesNothing == Spec => []NominalUndoesAll
<1>1. BoundsInv /\ CordonsAreOwned => NominalUndoesAll
  BY DEF BoundsInv, CordonsAreOwned, NominalUndoesAll, Lockable, Free
<1> QED
  BY <1>1, BoundsHold, NoCordonIsLost, PTL
=============================================================================
