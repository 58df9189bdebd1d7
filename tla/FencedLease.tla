---------------------------- MODULE FencedLease ----------------------------
(***************************************************************************)
(* What the lease store promises to the stores built on it, with clocks    *)
(* and secret tokens abstracted away.                                      *)
(*                                                                         *)
(* A lease is known by its name.  Every grant advances the fencing         *)
(* counter of the name by one.  The current grant is                       *)
(*   - "held":   no clock sample can find it expired,                      *)
(*   - "lapsed": its expiry has passed; the holder may still succeed with  *)
(*               a clock sample taken before the expiry, and a new grant   *)
(*               may be made,                                              *)
(*   - "free":   never granted, or revoked by release.                     *)
(* Module LeaseStore shows that the SQLite store implements this module.   *)
(* The journal and the recovery modules use it as their lease.             *)
(***************************************************************************)
EXTENDS Naturals

CONSTANTS
    Names,      \* lease names
    MaxFence    \* bound on the number of grants of one name

ASSUME FencedLeaseAssumption == MaxFence \in Nat

VARIABLES
    fence,      \* fence[n]: fencing token of the latest grant, 0 before the first
    tenure,     \* tenure[n]: what became of that grant
    lastWrite   \* lastWrite[n]: fencing token of the latest accepted write

leaseVars == <<fence, tenure, lastWrite>>

Tenures == {"free", "held", "lapsed"}

FencedLeaseTypeOK ==
    /\ fence \in [Names -> 0..MaxFence]
    /\ tenure \in [Names -> Tenures]
    /\ lastWrite \in [Names -> 0..MaxFence]

FencedLeaseInit ==
    /\ fence = [n \in Names |-> 0]
    /\ tenure = [n \in Names |-> "free"]
    /\ lastWrite = [n \in Names |-> 0]

\* A grant is possible only when nothing is held.  A grant made with an old
\* clock sample may already have lapsed when it is returned.
Grant(n) ==
    /\ tenure[n] # "held"
    /\ fence[n] < MaxFence
    /\ fence' = [fence EXCEPT ![n] = @ + 1]
    /\ \E t \in {"held", "lapsed"} : tenure' = [tenure EXCEPT ![n] = t]
    /\ UNCHANGED lastWrite

\* Time passes: any set of held grants may lapse together.
Lapse(S) ==
    /\ \A n \in S : tenure[n] = "held"
    /\ tenure' = [n \in Names |-> IF n \in S THEN "lapsed" ELSE tenure[n]]
    /\ UNCHANGED <<fence, lastWrite>>

\* A heartbeat of the current grant.  With an old clock sample it may renew a
\* lapsed grant nobody took over, or move the expiry backwards.
Renew(n) ==
    /\ tenure[n] # "free"
    /\ \E t \in {"held", "lapsed"} : tenure' = [tenure EXCEPT ![n] = t]
    /\ UNCHANGED <<fence, lastWrite>>

\* A release by the holder: the grant ends and cannot be renewed.
Revoke(n) ==
    /\ tenure[n] # "free"
    /\ tenure' = [tenure EXCEPT ![n] = "free"]
    /\ UNCHANGED <<fence, lastWrite>>

\* A write guarded by require_current_lease, under the latest grant only.
Write(n) ==
    /\ tenure[n] # "free"
    /\ lastWrite' = [lastWrite EXCEPT ![n] = fence[n]]
    /\ UNCHANGED <<fence, tenure>>

FencedLeaseNext ==
    \/ \E n \in Names : Grant(n) \/ Renew(n) \/ Revoke(n) \/ Write(n)
    \/ \E S \in SUBSET Names : Lapse(S)

FencedLeaseSpec == FencedLeaseInit /\ [][FencedLeaseNext]_leaseVars
=============================================================================
