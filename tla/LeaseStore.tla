----------------------------- MODULE LeaseStore -----------------------------
(***************************************************************************)
(* workspace_state/leases.py: cross-process leases in one SQLite table.    *)
(*                                                                         *)
(* Every operation samples the clock BEFORE its transaction and runs the   *)
(* transaction later: a busy database, a scheduler or a suspended process  *)
(* may put any delay between the two.  A call is therefore two steps,      *)
(* Call (sample the clock) and one of Acquire, Heartbeat, Release, Write   *)
(* (the transaction), and other callers run in between.  A transaction is  *)
(* atomic: SqliteStore opens each one with BEGIN IMMEDIATE.                *)
(*                                                                         *)
(* A caller is any thread of any process: the main thread of a workspace,  *)
(* the heartbeat thread of a transaction, the heartbeat thread of one      *)
(* filesystem mutation.  Several callers may use the same lease record at  *)
(* once, as those threads do.                                              *)
(*                                                                         *)
(* secrets.token_hex is a fresh number (mintedTokens counts them); expiry  *)
(* and clock samples are numbers of one wall clock that does not go back.  *)
(***************************************************************************)
EXTENDS Naturals

CONSTANTS
    Names,      \* lease names
    Owners,     \* owner labels; two processes may share one
    Callers,    \* threads of control that call the store
    Ttl,        \* lease time to live, in clock units
    MaxTime,    \* bound on the clock
    MaxFence,   \* bound on the number of grants of one name
    NoRow,      \* a name with no row in workspace_leases
    NoCall      \* a caller with no call in flight

ASSUME LeaseStoreAssumption ==
    /\ Ttl \in Nat \ {0}
    /\ MaxTime \in Nat
    /\ MaxFence \in Nat

-----------------------------------------------------------------------------
Times == 0..MaxTime

\* The part of a LeaseRecord that carries authority.
Leases ==
    [name : Names, owner : Owners, token : Nat, fencing_token : Nat]

Rows ==
    [owner : Owners, token : Nat, fencing_token : 1..MaxFence,
     acquired_at : Times, heartbeat_at : Times, expires_at : Nat]

Calls ==
    [op : {"acquire", "heartbeat", "release", "write"}, lease : Leases, at : Times]

ASSUME NullAssumption == NoRow \notin Rows /\ NoCall \notin Calls

VARIABLES
    rows,           \* the table workspace_leases, by name
    clock,          \* wall clock
    mintedTokens,   \* number of secret tokens minted so far
    calls,          \* calls[c]: the call c has sampled a clock for, or NoCall
    issued,         \* history: every record returned with acquired = True
    released,       \* history: every record whose release returned True
    lastWrite       \* history: fencing token of the latest accepted write

vars == <<rows, clock, mintedTokens, calls, issued, released, lastWrite>>

-----------------------------------------------------------------------------
\* An acquire carries a name and an owner and no authority yet.
Request(n, o) == [name |-> n, owner |-> o, token |-> 0, fencing_token |-> 0]

\* Mutant of Matches: identity by owner label only.
Matches_OwnerOnly(l) == rows[l.name] # NoRow /\ rows[l.name].owner = l.owner

Matches(l) ==
    /\ rows[l.name] # NoRow
    /\ rows[l.name].owner = l.owner
    /\ rows[l.name].token = l.token
    /\ rows[l.name].fencing_token = l.fencing_token

\* The WHERE clause shared by heartbeat, is_current, require_current and release.
LeaseIsCurrent(l, at) ==
    /\ Matches(l)
    /\ rows[l.name].expires_at > at

\* Mutants of NextFence: no increment on takeover; counting from zero.
NextFence_NoIncrement(n) == IF rows[n] = NoRow THEN 1 ELSE rows[n].fencing_token
NextFence_FromZero(n) == IF rows[n] = NoRow THEN 0 ELSE rows[n].fencing_token + 1

\* acquire inserts the first row of a name and otherwise takes over an expired one.
NextFence(n) == IF rows[n] = NoRow THEN 1 ELSE rows[n].fencing_token + 1

\* Mutant of MayAcquire: expiry computed from the acquisition, not the heartbeat.
MayAcquire_IgnoresHeartbeats(n, at) == rows[n] # NoRow => rows[n].acquired_at + Ttl <= at

MayAcquire(n, at) == rows[n] # NoRow => rows[n].expires_at <= at

AcquiredRow(n, o, at) ==
    [owner |-> o, token |-> mintedTokens + 1, fencing_token |-> NextFence(n),
     acquired_at |-> at, heartbeat_at |-> at, expires_at |-> at + Ttl]

\* Mutant of HeartbeatRow: each heartbeat adds one ttl to the old expiry.
HeartbeatRow_Accumulates(row, at) ==
    [row EXCEPT !.heartbeat_at = at, !.expires_at = @ + Ttl]

HeartbeatRow(row, at) ==
    [row EXCEPT !.heartbeat_at = at, !.expires_at = at + Ttl]

\* Mutant of ReleasedRow: the secret token is not rotated.
ReleasedRow_KeepsToken(row, at) == [row EXCEPT !.heartbeat_at = at, !.expires_at = at]

\* release expires the row and rotates its token.
ReleasedRow(row, at) ==
    [row EXCEPT !.heartbeat_at = at, !.expires_at = at, !.token = mintedTokens + 1]

-----------------------------------------------------------------------------
Init ==
    /\ rows = [n \in Names |-> NoRow]
    /\ clock = 0
    /\ mintedTokens = 0
    /\ calls = [c \in Callers |-> NoCall]
    /\ issued = {}
    /\ released = {}
    /\ lastWrite = [n \in Names |-> 0]

Tick ==
    /\ clock < MaxTime
    /\ clock' = clock + 1
    /\ UNCHANGED <<rows, mintedTokens, calls, issued, released, lastWrite>>

\* A caller samples the clock for an acquire, or for an operation on a record
\* some acquire returned.
Call(c) ==
    /\ calls[c] = NoCall
    /\ \/ \E n \in Names, o \in Owners :
            calls' = [calls EXCEPT ![c] =
                        [op |-> "acquire", lease |-> Request(n, o), at |-> clock]]
       \/ \E l \in issued, op \in {"heartbeat", "release", "write"} :
            calls' = [calls EXCEPT ![c] = [op |-> op, lease |-> l, at |-> clock]]
    /\ UNCHANGED <<rows, clock, mintedTokens, issued, released, lastWrite>>

\* The transaction of the call of c commits and the call returns.
Returns(c, op) ==
    /\ calls[c] # NoCall
    /\ calls[c].op = op
    /\ calls' = [calls EXCEPT ![c] = NoCall]

Acquire(c) ==
    /\ Returns(c, "acquire")
    /\ LET n == calls[c].lease.name
           row == AcquiredRow(n, calls[c].lease.owner, calls[c].at)
       IN  /\ MayAcquire(n, calls[c].at)
           /\ NextFence(n) <= MaxFence
           /\ rows' = [rows EXCEPT ![n] = row]
           /\ issued' = issued \cup
                {[name |-> n, owner |-> row.owner, token |-> row.token,
                  fencing_token |-> row.fencing_token]}
    /\ mintedTokens' = mintedTokens + 1
    /\ UNCHANGED <<clock, released, lastWrite>>

Heartbeat(c) ==
    /\ Returns(c, "heartbeat")
    /\ LeaseIsCurrent(calls[c].lease, calls[c].at)
    /\ rows' = [rows EXCEPT ![calls[c].lease.name] = HeartbeatRow(@, calls[c].at)]
    /\ UNCHANGED <<clock, mintedTokens, issued, released, lastWrite>>

Release(c) ==
    /\ Returns(c, "release")
    /\ LeaseIsCurrent(calls[c].lease, calls[c].at)
    /\ rows' = [rows EXCEPT ![calls[c].lease.name] = ReleasedRow(@, calls[c].at)]
    /\ mintedTokens' = mintedTokens + 1
    /\ released' = released \cup {calls[c].lease}
    /\ UNCHANGED <<clock, issued, lastWrite>>

\* require_current_lease inside the transaction of a claim or journal write.
Write(c) ==
    /\ Returns(c, "write")
    /\ LeaseIsCurrent(calls[c].lease, calls[c].at)
    /\ lastWrite' = [lastWrite EXCEPT ![calls[c].lease.name] = calls[c].lease.fencing_token]
    /\ UNCHANGED <<rows, clock, mintedTokens, issued, released>>

\* acquired = False, None, False or LeaseLostError: nothing is stored.
Refused(c) ==
    /\ \/ /\ Returns(c, "acquire")
          /\ ~MayAcquire(calls[c].lease.name, calls[c].at)
       \/ /\ \E op \in {"heartbeat", "release", "write"} : Returns(c, op)
          /\ ~LeaseIsCurrent(calls[c].lease, calls[c].at)
    /\ UNCHANGED <<rows, clock, mintedTokens, issued, released, lastWrite>>

Next ==
    \/ Tick
    \/ \E c \in Callers :
        Call(c) \/ Acquire(c) \/ Heartbeat(c) \/ Release(c) \/ Write(c) \/ Refused(c)

Spec == Init /\ [][Next]_vars

-----------------------------------------------------------------------------
(* Properties *)

TypeOK ==
    /\ rows \in [Names -> Rows \cup {NoRow}]
    /\ clock \in Times
    /\ mintedTokens \in Nat
    /\ calls \in [Callers -> Calls \cup {NoCall}]
    /\ issued \subseteq Leases
    /\ released \subseteq Leases
    /\ lastWrite \in [Names -> 0..MaxFence]

\* No two grants of a name carry the same fencing token: a fencing token names
\* one acquisition, whoever made it and however old its clock sample was.
UniqueFences ==
    \A l1, l2 \in issued :
        l1.name = l2.name /\ l1.fencing_token = l2.fencing_token => l1 = l2

\* release "atomically revokes its secret token as well as expiring it": no
\* clock sample, however old, makes a released record current again.
RevokedStaysRevoked ==
    \A l \in released : \A at \in Times : ~LeaseIsCurrent(l, at)

\* A takeover revokes the earlier grants for every clock sample too.
SupersededNeverCurrent ==
    \A l1, l2 \in issued :
        l1.name = l2.name /\ l1.fencing_token < l2.fencing_token =>
            \A at \in Times : ~LeaseIsCurrent(l1, at)

\* However heartbeats of several threads interleave, none keeps a lease longer
\* than one ttl past the present, so a dead holder is replaced within one ttl.
BoundedTenure ==
    \A n \in Names : rows[n] # NoRow => rows[n].expires_at <= clock + Ttl

\* The fencing token of accepted writes never goes back: once a write was
\* accepted under one grant, no write of an earlier grant is accepted.
WritesAreFenced ==
    [][\A n \in Names : lastWrite'[n] >= lastWrite[n]]_vars

\* A grant that is still live by the real clock is never taken over, even by an
\* acquire that sampled its clock long ago.
NoTakeoverOfLiveGrant ==
    [][\A n \in Names :
        rows[n] # NoRow /\ rows'[n].fencing_token # rows[n].fencing_token
            => rows[n].expires_at <= clock]_vars

-----------------------------------------------------------------------------
(* Refinement of the abstract fenced lease. *)

absFence == [n \in Names |-> IF rows[n] = NoRow THEN 0 ELSE rows[n].fencing_token]

\* The latest grant of n was not released: the row still carries its token.
Granted(n) == \E l \in issued : l.name = n /\ Matches(l)

absTenure ==
    [n \in Names |->
        IF ~Granted(n) THEN "free"
        ELSE IF rows[n].expires_at > clock THEN "held" ELSE "lapsed"]

Abstract == INSTANCE FencedLease WITH fence <- absFence, tenure <- absTenure

\* The SQLite store with stale clock samples implements the fenced lease.
ImplementsFencedLease == Abstract!FencedLeaseSpec
=============================================================================
