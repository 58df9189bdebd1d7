--------------------------- MODULE BatchRecovery ---------------------------
(***************************************************************************)
(* What the operation journal promises about the recovery of a batch.      *)
(*                                                                         *)
(* A batch is worked on, then possibly recovered.  Recovery runs in        *)
(* attempts, at most one at a time, each begun by the grant of the lease   *)
(* named by holder.  An attempt ends exactly once: its own holder finishes *)
(* it, or a later grant takes it over and recovery must be asked for       *)
(* again.  A recovered batch is never touched again.                       *)
(***************************************************************************)
EXTENDS Naturals

CONSTANTS
    Batches,    \* batch identifiers
    MaxFence    \* bound on the number of grants

VARIABLES
    stage,      \* stage[b]: "work", "pending", "active" or "done"
    holder      \* holder[b]: the grant the batch is bound to, 0 before creation

recoveryVars == <<stage, holder>>

BatchRecoveryInit ==
    /\ stage = [b \in Batches |-> "work"]
    /\ holder = [b \in Batches |-> 0]

\* A grant binds a batch to itself or to a later grant, never to an earlier one.
BindTo(b, f) ==
    /\ f >= holder[b]
    /\ holder' = [holder EXCEPT ![b] = f]

Become(b, s) == stage' = [stage EXCEPT ![b] = s]

Work(b, f) == stage[b] = "work" /\ BindTo(b, f) /\ Become(b, "work")

AskForRecovery(b, f) ==
    /\ stage[b] \in {"work", "pending"}
    /\ BindTo(b, f)
    /\ Become(b, "pending")

BeginAttempt(b, f) == stage[b] = "pending" /\ BindTo(b, f) /\ Become(b, "active")

EndAttempt(b) ==
    /\ stage[b] = "active"
    /\ \E s \in {"pending", "done"} : Become(b, s)
    /\ UNCHANGED holder

TakeOverAttempt(b, f) ==
    /\ stage[b] = "active"
    /\ f > holder[b]
    /\ BindTo(b, f)
    /\ Become(b, "pending")

BatchRecoveryNext ==
    \E b \in Batches :
        \/ EndAttempt(b)
        \/ \E f \in 1..MaxFence :
            Work(b, f) \/ AskForRecovery(b, f) \/ BeginAttempt(b, f) \/ TakeOverAttempt(b, f)

BatchRecoverySpec == BatchRecoveryInit /\ [][BatchRecoveryNext]_recoveryVars
=============================================================================
