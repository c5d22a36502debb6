----------------------------- MODULE Storefront -----------------------------
(***************************************************************************)
(* What customers are told in degraded tiers: the demo shop's checkout     *)
(* (cmd/demo-app/main.go), the sidecar it reads its flags from             *)
(* (pkg/enforcement/sidecar/server.go), the enforcer that sets them, and   *)
(* the write queue behind POST /write.                                     *)
(*                                                                         *)
(* An order reads the flags, then acts on them: two requests to another    *)
(* process, either of which may fail, go unanswered or be overtaken by a   *)
(* change of tier.  applyLocked sets the sidecar and the queue in one      *)
(* critical section, and whoever looks in between sees what it would have  *)
(* seen before or after; so applying a tier is one step.                   *)
(***************************************************************************)
EXTENDS WriteBuffering

CONSTANTS
    Orders,   \* the writes that are orders of the shop; others come from elsewhere
    Mode      \* the behavior mode of every tier, "" where the policy has none

ASSUME StorefrontAssumption ==
    /\ Orders \subseteq Writes
    /\ Mode \in [Tiers -> {"", "full_service", "read_only", "static_fallback"}]

VARIABLES
    sidecar,   \* the sidecar's TierState.Current
    direct,    \* history: the sidecar's own /override came after the last transition
    order,     \* where each order stands, see Stages
    mayBuy     \* history: orders that met full service, or flags not the enforcer's

shopVars == <<sidecar, direct, order, mayBuy>>
allVars  == <<vars, shopVars>>

\* placed: the checkout handler has started; sent: POST /write is under way;
\* broken: the handler panicked; the others are what the customer was told, which
\* is the same for rejected and unanswered: the engine said no, or nothing.
Stages == {"none", "placed", "sent", "confirmed", "queued", "rejected", "unanswered",
           "fallback", "broken"}
Open   == {w \in Orders : order[w] \in {"placed", "sent"}}

\* PolicyFromBundle: no mode is full service.
FlagMode(t) == IF Mode[t] = "" THEN "full_service" ELSE Mode[t]
FullTiers   == {t \in Tiers : FlagMode(t) = "full_service"}

\* NewServer, and UsePolicy called by enforcer.New.
ShopInit ==
    /\ Init
    /\ sidecar = 1
    /\ direct = FALSE
    /\ order = [w \in Orders |-> "none"]
    /\ mayBuy = {}

-----------------------------------------------------------------------------
\* Mutation of SetTier: the flags change with the next tier.
SetTierLate(t) == sidecar' = applied

SetTier(t) == sidecar' = t

\* applyLocked with its call of SetTier.
Transition(to) ==
    /\ ApplyTier(to)
    /\ SetTier(to)
    /\ direct' = FALSE
    /\ mayBuy' = IF to \in FullTiers THEN mayBuy \cup Open ELSE mayBuy
    /\ UNCHANGED order

\* The sidecar's own POST /override, with the right token and a declared tier.
\* It tells the enforcer nothing.
OverrideSidecar(t) ==
    /\ SetTier(t)
    /\ direct' = TRUE
    /\ mayBuy' = mayBuy \cup Open
    /\ UNCHANGED <<vars, order>>

\* Engine, sidecar and queue are one process.
ShopRestart ==
    /\ Restart
    /\ SetTier(1)
    /\ direct' = FALSE
    /\ mayBuy' = IF 1 \in FullTiers THEN mayBuy \cup Open ELSE mayBuy
    /\ UNCHANGED order

\* The engine's share of a POST /write, which goes on when the client has left.
ServeWrite(w) ==
    /\ w \in Orders => order[w] \in {"sent", "unanswered"}
    /\ Post(w) \/ Store(w)
    /\ UNCHANGED shopVars

-----------------------------------------------------------------------------
Tell(w, what) == order' = [order EXCEPT ![w] = what]

Place(w) ==
    /\ order[w] = "none"
    /\ Tell(w, "placed")
    /\ mayBuy' = IF applied \in FullTiers \/ direct THEN mayBuy \cup {w} ELSE mayBuy
    /\ UNCHANGED <<vars, sidecar, direct>>

\* fetchFlags, fallback and readOnly, and what checkout does next.
ReadFlags(w) ==
    /\ order[w] = "placed"
    /\ Tell(w, CASE FlagMode(sidecar) = "static_fallback" -> "fallback"
                 [] FlagMode(sidecar) = "read_only"       -> "sent"
                 [] OTHER                                 -> "confirmed")
    /\ UNCHANGED <<vars, sidecar, direct, mayBuy>>

\* The sidecar is unreachable: fetchFlags fails open.
FailOpen(w) ==
    /\ order[w] = "placed"
    /\ Tell(w, "confirmed")
    /\ mayBuy' = mayBuy \cup {w}
    /\ UNCHANGED <<vars, sidecar, direct>>

\* The flags break off: fetchFlags returns nil and an error nobody looks at.
Panic(w) ==
    /\ order[w] = "placed"
    /\ Tell(w, "broken")
    /\ UNCHANGED <<vars, sidecar, direct, mayBuy>>

Refused(w) == fate[w] \in {"conflict", "refused"}

\* Mutation of HearAnswer: any answer will do.
HearAnyAnswer(w) ==
    /\ order[w] = "sent"
    /\ Refused(w) \/ w \in ToSet(accepted)
    /\ Tell(w, "queued")
    /\ UNCHANGED <<vars, sidecar, direct, mayBuy>>

\* The engine's status code arrives.
HearAnswer(w) ==
    /\ order[w] = "sent"
    /\ \/ Refused(w) /\ Tell(w, "rejected")
       \/ w \in ToSet(accepted) /\ Tell(w, "queued")
    /\ UNCHANGED <<vars, sidecar, direct, mayBuy>>

\* No answer in time: the customer is told to retry, whether or not the write has
\* arrived, or still arrives.
GiveUp(w) ==
    /\ order[w] = "sent"
    /\ Tell(w, "unanswered")
    /\ UNCHANGED <<vars, sidecar, direct, mayBuy>>

Checkout(w) ==
    Place(w) \/ ReadFlags(w) \/ FailOpen(w) \/ Panic(w) \/ HearAnswer(w) \/ GiveUp(w)

ShopNext ==
    \/ \E t \in Tiers : Transition(t) \/ OverrideSidecar(t)
    \/ ShopRestart
    \/ \E w \in Writes : ServeWrite(w)
    \/ \E w \in Orders : Checkout(w)
    \/ (ReadDepth \/ Pass) /\ UNCHANGED shopVars

ShopSpec == ShopInit /\ [][ShopNext]_allVars

-----------------------------------------------------------------------------
\* Types, and the depth never above its bound (queue.go: "bounded").
ShopTypeOK ==
    /\ TypeOK
    /\ sidecar \in Tiers
    /\ direct \in BOOLEAN
    /\ order \in [Orders -> Stages]
    /\ mayBuy \subseteq Orders

\* demo-app, "Your order has been received": an order reported as queued was
\* accepted, and one the customer is asked to place again is not in the queue and
\* never gets there, unless the shop did not hear from the engine; then it may be
\* both.  No order is both confirmed or turned away and queued.
AnswersMatchFates ==
    \A w \in Orders :
        CASE order[w] = "queued"     -> w \in ToSet(accepted)
          [] order[w] = "rejected"   -> Refused(w)
          [] order[w] \in {"sent", "unanswered"} -> TRUE
          [] OTHER -> fate[w] = "new"

\* An order is confirmed outright only if the tier in force was full service at
\* some moment since it was placed; otherwise somebody has overridden the sidecar
\* behind the enforcer's back, or the shop could not reach it and failed open.
ConfirmedByMode == \A w \in Orders : order[w] = "confirmed" => w \in mayBuy

=============================================================================
