----------------------------- MODULE WriteQueue -----------------------------
(***************************************************************************)
(* The bounded write buffer (pkg/enforcement/writequeue/queue.go).  Every  *)
(* operation runs under Queue.mu and is one action.                        *)
(*                                                                         *)
(* EnqueuedAt is kept as an age, saturating at the TTL: an item that old   *)
(* is dropped by the next operation, whatever its age.  Each write of the  *)
(* finite set Writes is posted at most once, which bounds the history.     *)
(***************************************************************************)
EXTENDS Integers, FiniteSets, SequencesExt, Filtering

CONSTANTS
    Writes,     \* the writes clients may post
    MaxDepth,   \* Queue.maxDepth; buildWriteQueue makes it positive
    TTL         \* Queue.ttl in time units, 0 for no expiry

ASSUME QueueAssumption ==
    /\ MaxDepth \in Nat \ {0}
    /\ TTL \in Nat

VARIABLES
    items,      \* Queue.items: sequence of [write, age], oldest first
    dropped,    \* Queue.dropped
    fate,       \* where each write stands, see Fates
    accepted,   \* history: the writes Enqueue accepted, in order
    drained     \* history: the writes Drain handed out, in order

queueVars == <<items, dropped, fate, accepted, drained>>

\* new: not posted; admitted: handleWrite found the queue active; conflict:
\* 409; refused: 503; queued, drained, expired: accepted, and what became of it;
\* lost: the engine ended before anything did.
Fates == {"new", "admitted", "conflict", "refused", "queued", "drained", "expired", "lost"}

Item == [write : Writes, age : 0..TTL]

QueueTypeOK ==
    /\ items \in Seq(Item) /\ Len(items) <= MaxDepth
    /\ dropped \in Nat
    /\ fate \in [Writes -> Fates]
    /\ accepted \in Seq(Writes)
    /\ drained \in Seq(Writes)

QueueInit ==
    /\ items = <<>>
    /\ dropped = 0
    /\ fate = [w \in Writes |-> "new"]
    /\ accepted = <<>>
    /\ drained = <<>>

-----------------------------------------------------------------------------
WritesOf(s) == [i \in DOMAIN s |-> s[i].write]

Fresh(item) == TTL = 0 \/ item.age < TTL

\* evict: what is left of items, and the writes it drops.
Kept    == Retain(items, {item \in ToSet(items) : Fresh(item)})
Evicted == {item.write : item \in {i \in ToSet(items) : ~Fresh(i)}}

Become(f, ws, what) == [w \in Writes |-> IF w \in ws THEN what ELSE f[w]]

\* Mutation of Enqueue: the bound is off by one.
EnqueueOneMore(w) ==
    LET settled == Become(fate, Evicted, "expired") IN
    IF Len(Kept) > MaxDepth
    THEN /\ items' = Kept
         /\ dropped' = dropped + Cardinality(Evicted) + 1
         /\ fate' = [settled EXCEPT ![w] = "refused"]
         /\ UNCHANGED <<accepted, drained>>
    ELSE /\ items' = Append(Kept, [write |-> w, age |-> 0])
         /\ dropped' = dropped + Cardinality(Evicted)
         /\ fate' = [settled EXCEPT ![w] = "queued"]
         /\ accepted' = Append(accepted, w)
         /\ UNCHANGED drained

Enqueue(w) ==
    LET settled == Become(fate, Evicted, "expired") IN
    IF Len(Kept) >= MaxDepth
    THEN /\ items' = Kept
         /\ dropped' = dropped + Cardinality(Evicted) + 1
         /\ fate' = [settled EXCEPT ![w] = "refused"]
         /\ UNCHANGED <<accepted, drained>>
    ELSE /\ items' = Append(Kept, [write |-> w, age |-> 0])
         /\ dropped' = dropped + Cardinality(Evicted)
         /\ fate' = [settled EXCEPT ![w] = "queued"]
         /\ accepted' = Append(accepted, w)
         /\ UNCHANGED drained

\* Mutations of Drain: the buffer is copied but not cleared, and it is handed out
\* without evicting.
DrainCopying ==
    /\ items' = Kept
    /\ dropped' = dropped + Cardinality(Evicted)
    /\ fate' = Become(Become(fate, ToSet(WritesOf(Kept)), "drained"), Evicted, "expired")
    /\ drained' = drained \o WritesOf(Kept)
    /\ UNCHANGED accepted

DrainEverything ==
    /\ items' = <<>>
    /\ fate' = Become(fate, ToSet(WritesOf(items)), "drained")
    /\ drained' = drained \o WritesOf(items)
    /\ UNCHANGED <<dropped, accepted>>

Drain ==
    /\ items' = <<>>
    /\ dropped' = dropped + Cardinality(Evicted)
    /\ fate' = Become(Become(fate, ToSet(WritesOf(Kept)), "drained"), Evicted, "expired")
    /\ drained' = drained \o WritesOf(Kept)
    /\ UNCHANGED accepted

\* Depth: reading the depth evicts.
Depth ==
    /\ items' = Kept
    /\ dropped' = dropped + Cardinality(Evicted)
    /\ fate' = Become(fate, Evicted, "expired")
    /\ UNCHANGED <<accepted, drained>>

Age ==
    /\ items' = [i \in DOMAIN items |->
                    [items[i] EXCEPT !.age = IF @ < TTL THEN @ + 1 ELSE @]]
    /\ UNCHANGED <<dropped, fate, accepted, drained>>

=============================================================================
