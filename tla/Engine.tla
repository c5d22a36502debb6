------------------------------- MODULE Engine -------------------------------
(***************************************************************************)
(* The engine loop and the dispatcher (pkg/runtime/engine.go and           *)
(* dispatcher.go): one goroutine ticks the evaluator and offers confirmed  *)
(* transitions to a bounded channel, another drains it.                    *)
(*                                                                         *)
(* Evaluate and Dispatch are two steps of the loop: anything may happen    *)
(* between them.  A transition is represented by the tier it leads to; its *)
(* From and its signal values reach only log lines and metrics.            *)
(***************************************************************************)
EXTENDS TierEvaluator, Sequences

CONSTANT ChanCap    \* capacity of Dispatcher.ch; 32 in NewEngine

ASSUME EngineAssumption == ChanCap \in Nat \ {0}

VARIABLES
    proposal,   \* confirmed by Evaluate, not yet dispatched; NoTier otherwise
    chan,       \* Dispatcher.ch, oldest first
    raced       \* history: since the last confirmed transition, one was dropped
                \* or the tier was locked while one was on its way

engineVars == <<evVars, proposal, chan, raced>>

EngineTypeOK ==
    /\ EvTypeOK
    /\ proposal \in TierOrNone
    /\ chan \in Seq(Tiers)
    /\ Len(chan) <= ChanCap
    /\ raced \in BOOLEAN

EngineInit ==
    /\ EvInit
    /\ proposal = NoTier
    /\ chan = <<>>
    /\ raced = FALSE

OnTheWay == proposal # NoTier \/ chan # <<>>

\* One turn of the tick loop up to Evaluate's return.
Tick ==
    /\ proposal = NoTier
    /\ Evaluate(match)
    /\ IF Confirms(match) THEN proposal' = match /\ raced' = FALSE
                          ELSE UNCHANGED <<proposal, raced>>
    /\ UNCHANGED chan

\* The end of that turn: a full channel drops the transition.
Dispatch ==
    /\ proposal # NoTier
    /\ proposal' = NoTier
    /\ IF Len(chan) < ChanCap THEN chan' = Append(chan, proposal) /\ UNCHANGED raced
                              ELSE raced' = TRUE /\ UNCHANGED chan
    /\ UNCHANGED evVars

\* Engine.LockTier, as the enforcer calls it.
EngineLock(t, d) ==
    /\ LockTier(t, d)
    /\ raced' = (raced \/ OnTheWay)

=============================================================================
