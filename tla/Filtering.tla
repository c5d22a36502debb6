----------------------------- MODULE Filtering -----------------------------
(***************************************************************************)
(* The loop of Queue.evict (pkg/enforcement/writequeue/queue.go): it goes  *)
(* through a sequence and keeps the elements that are in a set.            *)
(***************************************************************************)
EXTENDS Integers, Sequences

\* The elements kept after each iteration.
Retained(s, keep) ==
    LET upTo[n \in 0..Len(s)] ==
            IF n = 0 THEN <<>>
            ELSE IF s[n] \in keep THEN Append(upTo[n - 1], s[n]) ELSE upTo[n - 1]
    IN  upTo

Retain(s, keep) == Retained(s, keep)[Len(s)]

=============================================================================
