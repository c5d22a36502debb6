---------------------------- MODULE MCReconciler ----------------------------
(* The reconciler with two goroutines at once; see README.                  *)
EXTENDS Reconciler, TLC

MCSymmetry == Permutations(Workers)

\* States that differ only in what no later step and no property reads are one
\* to TLC: what a goroutine has read counts up to the last step that uses it, and
\* of the troubles what the properties ask.
Live(r, field) ==
    CASE field = "replicas" -> pc[r] = "scale"
      [] field = "saved"    -> pc[r] \in {"scale", "readHPA", "restore"}
      [] field = "hpa"      -> pc[r] \in {"saveMin", "saveMax"}
      [] field = "paused"   -> pc[r] \notin {"list", "cordon", "cordoning", "uncordon", "uncordoning"}
      [] field = "nodes"    -> pc[r] \in {"cordon", "cordoning", "uncordoning"}

LiveJob(r) ==
    LET j == job[r] IN
    <<j.tier,
      IF Live(r, "replicas") THEN j.deploy.replicas ELSE 0,
      IF Live(r, "saved") THEN j.deploy.saved ELSE Originals,
      IF Live(r, "hpa") THEN j.hpa ELSE Originals,
      Live(r, "paused") /\ j.deploy.paused,
      IF Live(r, "nodes") THEN j.nodes ELSE {}>>

MCView ==
    <<cluster, foreign, owned, applied, pc, [r \in Workers |-> LiveJob(r)], clean,
      troubles = {}, troubles \subseteq {"overlap", "refused"}>>
=============================================================================
