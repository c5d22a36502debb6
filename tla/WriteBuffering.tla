--------------------------- MODULE WriteBuffering ---------------------------
(***************************************************************************)
(* Buffering writes in degraded tiers: the control API's handleWrite       *)
(* (cmd/dg-engine/control.go) and the queue's part in the enforcer's       *)
(* applyLocked.                                                            *)
(*                                                                         *)
(* handleWrite asks the enforcer whether the applied tier queues writes,   *)
(* decodes the request body from the network, and enqueues: three steps    *)
(* with nothing held between them.  The enforcer applies any tier at any   *)
(* time; its draining runs under Enforcer.mu after applied has changed,    *)
(* and an Enqueue in between is as good as one just before.  The module    *)
(* has no next-state relation: Storefront says who calls.                  *)
(***************************************************************************)
EXTENDS WriteQueue

CONSTANTS
    N,           \* number of declared tiers
    QueueTiers   \* tiers that declare queue_writes

Tiers == 1..N

ASSUME TiersAssumption == N \in Nat \ {0} /\ QueueTiers \subseteq Tiers

VARIABLES
    applied,     \* Enforcer.applied
    overtaken    \* history: writes admitted when a drain came in between

vars == <<queueVars, applied, overtaken>>

Init ==
    /\ QueueInit
    /\ applied = 1
    /\ overtaken = {}

InState(what) == {w \in Writes : fate[w] = what}

-----------------------------------------------------------------------------
\* Mutation of ApplyTier: the queue is drained on recovery only.
ApplyDrainingDownwards(to) ==
    /\ to # applied
    /\ applied' = to
    /\ IF to \in QueueTiers THEN Depth /\ UNCHANGED overtaken
       ELSE IF applied \in QueueTiers /\ to < applied
       THEN Drain /\ overtaken' = overtaken \cup InState("admitted")
       ELSE UNCHANGED <<queueVars, overtaken>>

\* applyLocked(to): entering a queueing tier reports the depth, leaving the
\* queueing tiers drains.
ApplyTier(to) ==
    /\ to # applied
    /\ applied' = to
    /\ IF to \in QueueTiers THEN Depth /\ UNCHANGED overtaken
       ELSE IF applied \in QueueTiers
       THEN Drain /\ overtaken' = overtaken \cup InState("admitted")
       ELSE UNCHANGED <<queueVars, overtaken>>

\* The engine process ends and another starts, at the first tier and with an
\* empty queue; requests under way get no answer.
Restart ==
    /\ applied' = 1
    /\ items' = <<>>
    /\ dropped' = 0
    /\ fate' = Become(fate, InState("admitted") \cup InState("queued"), "lost")
    /\ UNCHANGED <<accepted, drained, overtaken>>

\* handleWrite up to the answer of QueueActive.
Post(w) ==
    /\ fate[w] = "new"
    /\ fate' = [fate EXCEPT ![w] = IF applied \in QueueTiers THEN "admitted" ELSE "conflict"]
    /\ UNCHANGED <<items, dropped, accepted, drained, applied, overtaken>>

\* handleWrite's Enqueue, once the body has been decoded; that the body is
\* malformed is the write staying admitted.
Store(w) ==
    /\ fate[w] = "admitted"
    /\ Enqueue(w)
    /\ UNCHANGED <<applied, overtaken>>

\* handleWrite's last call, handleWriteDepth and handleStatus.
ReadDepth == Depth /\ UNCHANGED <<applied, overtaken>>

Pass == Age /\ UNCHANGED <<applied, overtaken>>

-----------------------------------------------------------------------------
\* Types, and the depth never above its bound (queue.go: "bounded").
TypeOK == QueueTypeOK /\ applied \in Tiers /\ overtaken \subseteq Writes

\* No accepted write is lost, duplicated or overtaken by another: those that
\* neither expired nor died with the engine have been drained, or are still
\* queued, in the order they were accepted in (queue.go, Drain: "returns all
\* non-expired queued writes").
Alive == {w \in Writes : fate[w] \notin {"expired", "lost"}}

AcceptedInOrder == Retain(accepted, Alive) = drained \o WritesOf(items)

\* queue.go, Drain: no write that outlived its TTL is handed out for replay,
\* though nothing evicts it when it expires.
ExpiredIsNotDrained ==
    [][ \A i \in DOMAIN items :
            (TTL > 0 /\ items[i].age >= TTL) => fate'[items[i].write] # "drained" ]_vars

\* A write that sits in the queue while the applied tier does not queue writes
\* was admitted before that tier was left and stored after: the check in
\* handleWrite and the draining in applyLocked miss no other write.
StrandedWasOvertaken ==
    applied \notin QueueTiers => ToSet(WritesOf(items)) \subseteq overtaken

\* No write stays behind for good: if the ladder keeps entering and leaving the
\* queueing tiers, every queued write is drained, expires or dies with the engine,
\* stranded ones too.  It takes no fairness.
QueuedLeaves ==
    ([]<>(applied \in QueueTiers) /\ []<>(applied \notin QueueTiers))
        => \A w \in Writes : (fate[w] = "queued") ~> (fate[w] # "queued")

=============================================================================
