-------------------------- MODULE LeaseStoreProofs --------------------------
(***************************************************************************)
(* Theorems about LeaseStore, for every set of names, owners and callers,  *)
(* every ttl and every bound.  The argument is the inductive invariant     *)
(* Inv: what the history of grants and releases and the calls in flight    *)
(* can look like, whatever the delay between a clock sample and its        *)
(* transaction.                                                            *)
(***************************************************************************)
EXTENDS LeaseStore, TLAPS

\* A row is younger than every token minted later, and no heartbeat has put its
\* expiry more than one ttl past the present.
RowInv ==
    \A n \in Names :
        /\ rows[n] = NoRow => lastWrite[n] = 0
        /\ rows[n] # NoRow =>
            /\ rows[n].token <= mintedTokens
            /\ rows[n].expires_at <= clock + Ttl
            /\ lastWrite[n] <= rows[n].fencing_token

\* Every grant left a row behind, whose fencing token has only grown.
IssuedInv ==
    \A l \in issued :
        /\ rows[l.name] # NoRow
        /\ l.token <= mintedTokens
        /\ l.fencing_token <= rows[l.name].fencing_token

\* The row of a released grant carries another token.
ReleasedInv ==
    \A l \in released : l \in issued /\ l.token # rows[l.name].token

\* A call in flight has an old clock sample and a record that was granted.
CallInv ==
    \A c \in Callers :
        calls[c] # NoCall =>
            /\ calls[c].at <= clock
            /\ calls[c].op # "acquire" => calls[c].lease \in issued

Inv == TypeOK /\ UniqueFences /\ RowInv /\ IssuedInv /\ ReleasedInv /\ CallInv

-----------------------------------------------------------------------------
LEMMA InitInv == Init => Inv
  BY LeaseStoreAssumption
  DEF Init, Inv, TypeOK, Times, UniqueFences, RowInv, IssuedInv, ReleasedInv, CallInv

\* A call in flight is a call, and its parts have their types.
LEMMA CallType ==
  ASSUME Inv, NEW c \in Callers, calls[c] # NoCall
  PROVE  /\ calls[c] \in Calls
         /\ calls[c].lease \in Leases
         /\ calls[c].lease.name \in Names
         /\ calls[c].lease.owner \in Owners
         /\ calls[c].lease.token \in Nat
         /\ calls[c].lease.fencing_token \in Nat
         /\ calls[c].at \in Times
         /\ calls[c].at <= clock
  BY DEF Inv, TypeOK, CallInv, Calls, Leases

\* The row of a name, when there is one.
LEMMA RowType ==
  ASSUME Inv, NEW n \in Names, rows[n] # NoRow
  PROVE  /\ rows[n] \in Rows
         /\ rows[n].fencing_token \in 1..MaxFence
         /\ rows[n].token \in Nat
         /\ rows[n].expires_at \in Nat
  BY DEF Inv, TypeOK, Rows

LEMMA TickInv ==
  ASSUME Inv, Tick
  PROVE  Inv'
  <1>1. clock \in Nat /\ clock' \in Times /\ clock' = clock + 1
    BY LeaseStoreAssumption DEF Inv, TypeOK, Tick, Times
  <1>2. TypeOK'
    BY <1>1 DEF Inv, TypeOK, Tick
  <1>3. RowInv'
    BY <1>1, RowType, LeaseStoreAssumption DEF Inv, RowInv, Tick
  <1>4. CallInv'
    <2> SUFFICES ASSUME NEW c \in Callers, calls[c] # NoCall
                 PROVE  calls[c].at <= clock' /\ (calls[c].op # "acquire" => calls[c].lease \in issued)
      BY DEF CallInv, Tick
    <2>1. calls[c].at <= clock /\ calls[c].at \in Nat
      BY CallType, LeaseStoreAssumption DEF Times
    <2> QED
      BY <1>1, <2>1 DEF Inv, CallInv
  <1> QED
    BY <1>2, <1>3, <1>4 DEF Inv, Tick, UniqueFences, IssuedInv, ReleasedInv

LEMMA CallStepInv ==
  ASSUME Inv, NEW c \in Callers, Call(c)
  PROVE  Inv'
  <1>1. PICK k \in Calls : /\ calls' = [calls EXCEPT ![c] = k]
                           /\ k.at = clock
                           /\ k.op # "acquire" => k.lease \in issued
    <2>1. CASE \E n \in Names, o \in Owners :
                calls' = [calls EXCEPT ![c] =
                            [op |-> "acquire", lease |-> Request(n, o), at |-> clock]]
      <3>1. PICK n \in Names, o \in Owners :
                calls' = [calls EXCEPT ![c] =
                            [op |-> "acquire", lease |-> Request(n, o), at |-> clock]]
        BY <2>1
      <3> DEFINE k == [op |-> "acquire", lease |-> Request(n, o), at |-> clock]
      <3>2. k \in Calls /\ k.at = clock /\ k.op = "acquire"
        BY DEF Inv, TypeOK, Calls, Leases, Request
      <3> QED
        BY <3>1, <3>2
    <2>2. CASE \E l \in issued, op \in {"heartbeat", "release", "write"} :
                calls' = [calls EXCEPT ![c] = [op |-> op, lease |-> l, at |-> clock]]
      <3>1. PICK l \in issued, op \in {"heartbeat", "release", "write"} :
                calls' = [calls EXCEPT ![c] = [op |-> op, lease |-> l, at |-> clock]]
        BY <2>2
      <3> DEFINE k == [op |-> op, lease |-> l, at |-> clock]
      <3>2. k \in Calls /\ k.at = clock /\ k.lease \in issued
        BY DEF Inv, TypeOK, Calls
      <3> QED
        BY <3>1, <3>2
    <2> QED
      BY <2>1, <2>2 DEF Call
  <1>2. calls' \in [Callers -> Calls \cup {NoCall}]
    BY <1>1 DEF Inv, TypeOK
  <1>3. TypeOK'
    BY <1>2 DEF Inv, TypeOK, Call
  <1>4. CallInv'
    <2> SUFFICES ASSUME NEW d \in Callers, calls'[d] # NoCall
                 PROVE  calls'[d].at <= clock /\ (calls'[d].op # "acquire" => calls'[d].lease \in issued)
      BY DEF CallInv, Call
    <2>1. clock \in Nat
      BY LeaseStoreAssumption DEF Inv, TypeOK, Times
    <2>2. CASE d = c
      BY <1>1, <2>1, <2>2 DEF Inv, TypeOK
    <2>3. CASE d # c
      BY <1>1, <2>3 DEF Inv, TypeOK, CallInv
    <2> QED
      BY <2>2, <2>3
  <1> QED
    BY <1>3, <1>4 DEF Inv, Call, UniqueFences, RowInv, IssuedInv, ReleasedInv

\* What every returning call leaves of the calls in flight.
LEMMA ReturnCalls ==
  ASSUME Inv, NEW c \in Callers, NEW op, Returns(c, op), issued \subseteq issued', clock' = clock
  PROVE  calls' \in [Callers -> Calls \cup {NoCall}] /\ CallInv'
  <1>1. calls' = [calls EXCEPT ![c] = NoCall]
    BY DEF Returns
  <1>2. calls' \in [Callers -> Calls \cup {NoCall}]
    BY <1>1 DEF Inv, TypeOK
  <1>3. \A d \in Callers : calls'[d] # NoCall => calls'[d] = calls[d]
    BY <1>1 DEF Inv, TypeOK
  <1> QED
    BY <1>2, <1>3 DEF Inv, CallInv

\* acquire: the new row has a fresh token and the next fencing token.
LEMMA AcquireInv ==
  ASSUME Inv, NEW c \in Callers, Acquire(c)
  PROVE  Inv'
  <1> DEFINE n == calls[c].lease.name
             row == AcquiredRow(n, calls[c].lease.owner, calls[c].at)
             new == [name |-> n, owner |-> row.owner, token |-> row.token,
                     fencing_token |-> row.fencing_token]
  <1>1. /\ calls[c] # NoCall
        /\ MayAcquire(n, calls[c].at)
        /\ NextFence(n) <= MaxFence
        /\ rows' = [rows EXCEPT ![n] = row]
        /\ issued' = issued \cup {new}
        /\ mintedTokens' = mintedTokens + 1
        /\ clock' = clock /\ released' = released /\ lastWrite' = lastWrite
    BY DEF Acquire, Returns
  <1>2. /\ n \in Names
        /\ calls[c].lease.owner \in Owners
        /\ calls[c].at \in Times
        /\ calls[c].at <= clock
        /\ clock \in Nat
        /\ mintedTokens \in Nat
        /\ calls[c].at \in Nat
    BY <1>1, CallType, LeaseStoreAssumption DEF Inv, TypeOK, Times
  <1>3. /\ NextFence(n) \in 1..MaxFence
        /\ rows[n] # NoRow => NextFence(n) = rows[n].fencing_token + 1
        /\ rows[n] = NoRow => NextFence(n) = 1
    <2>1. CASE rows[n] = NoRow
      BY <1>1, <2>1, LeaseStoreAssumption DEF NextFence
    <2>2. CASE rows[n] # NoRow
      BY <1>1, <1>2, <2>2, RowType, LeaseStoreAssumption DEF NextFence
    <2> QED
      BY <2>1, <2>2
  <1>4. /\ row \in Rows
        /\ row.token = mintedTokens + 1
        /\ row.fencing_token = NextFence(n)
        /\ row.expires_at = calls[c].at + Ttl
        /\ row # NoRow
    BY <1>2, <1>3, LeaseStoreAssumption, NullAssumption DEF AcquiredRow, Rows
  <1>5. new \in Leases
    BY <1>2, <1>3, <1>4 DEF Leases, Rows
  <1>6. rows'[n] = row /\ \A m \in Names : m # n => rows'[m] = rows[m]
    BY <1>1, <1>2 DEF Inv, TypeOK
  <1>7. calls' \in [Callers -> Calls \cup {NoCall}] /\ CallInv'
    BY <1>1, ReturnCalls DEF Acquire
  <1>8. TypeOK'
    <2>1. rows' \in [Names -> Rows \cup {NoRow}]
      BY <1>1, <1>4 DEF Inv, TypeOK
    <2>2. issued' \subseteq Leases
      BY <1>1, <1>5 DEF Inv, TypeOK
    <2> QED
      BY <1>1, <1>2, <1>7, <2>1, <2>2 DEF Inv, TypeOK
  <1>9. \A l \in issued : l.name = n => l.fencing_token < NextFence(n)
    <2> SUFFICES ASSUME NEW l \in issued, l.name = n
                 PROVE  l.fencing_token < NextFence(n)
      OBVIOUS
    <2>1. rows[n] # NoRow /\ l.fencing_token <= rows[n].fencing_token /\ l.fencing_token \in Nat
      BY DEF Inv, IssuedInv, TypeOK, Leases
    <2> QED
      BY <1>2, <1>3, <2>1, RowType
  <1>10. UniqueFences'
    <2> SUFFICES ASSUME NEW l1 \in issued', NEW l2 \in issued',
                        l1.name = l2.name, l1.fencing_token = l2.fencing_token
                 PROVE  l1 = l2
      BY DEF UniqueFences
    <2>1. new.name = n /\ new.fencing_token = NextFence(n)
      BY <1>4
    <2>2. \A l \in issued : l.fencing_token \in Nat
      BY DEF Inv, TypeOK, Leases
    <2>3. CASE l1 \in issued /\ l2 \in issued
      BY <2>3 DEF Inv, UniqueFences
    <2>4. NextFence(n) \in Nat
      BY <1>3
    <2>5. ASSUME NEW l \in issued, l.name = n PROVE l.fencing_token # NextFence(n)
      BY <1>9, <2>2, <2>4, <2>5
    <2>6. CASE l1 = new /\ l2 \in issued
      BY <2>1, <2>5, <2>6
    <2>7. CASE l2 = new /\ l1 \in issued
      BY <2>1, <2>5, <2>7
    <2> QED
      BY <1>1, <2>3, <2>6, <2>7
  <1>11. RowInv'
    <2> SUFFICES ASSUME NEW m \in Names
                 PROVE  /\ rows'[m] = NoRow => lastWrite[m] = 0
                        /\ rows'[m] # NoRow =>
                            /\ rows'[m].token <= mintedTokens + 1
                            /\ rows'[m].expires_at <= clock + Ttl
                            /\ lastWrite[m] <= rows'[m].fencing_token
      BY <1>1 DEF RowInv
    <2>1. CASE m = n
      <3>1. lastWrite[n] \in Nat /\ lastWrite[n] <= NextFence(n)
        <4>1. CASE rows[n] = NoRow
          BY <1>2, <1>3, <4>1 DEF Inv, RowInv
        <4>2. CASE rows[n] # NoRow
          BY <1>2, <1>3, <4>2, RowType, LeaseStoreAssumption DEF Inv, RowInv, TypeOK
        <4> QED
          BY <4>1, <4>2
      <3> QED
        BY <1>2, <1>4, <1>6, <2>1, <3>1, LeaseStoreAssumption
    <2>2. CASE m # n
      BY <1>2, <1>6, <2>2, RowType DEF Inv, RowInv
    <2> QED
      BY <2>1, <2>2
  <1>12. IssuedInv'
    <2> SUFFICES ASSUME NEW l \in issued'
                 PROVE  /\ rows'[l.name] # NoRow
                        /\ l.token <= mintedTokens + 1
                        /\ l.fencing_token <= rows'[l.name].fencing_token
      BY <1>1 DEF IssuedInv
    <2>1. CASE l = new
      BY <1>2, <1>3, <1>4, <1>6, <2>1
    <2>2. CASE l \in issued
      <3>1. /\ l.name \in Names /\ l.token \in Nat /\ l.fencing_token \in Nat
            /\ rows[l.name] # NoRow /\ l.token <= mintedTokens
            /\ l.fencing_token <= rows[l.name].fencing_token
        BY <2>2 DEF Inv, IssuedInv, TypeOK, Leases
      <3>2. CASE l.name = n
        BY <1>2, <1>3, <1>4, <1>6, <1>9, <2>2, <3>1, <3>2
      <3>3. CASE l.name # n
        BY <1>2, <1>6, <3>1, <3>3
      <3> QED
        BY <3>2, <3>3
    <2> QED
      BY <1>1, <2>1, <2>2
  <1>13. ReleasedInv'
    <2> SUFFICES ASSUME NEW l \in released
                 PROVE  l \in issued' /\ l.token # rows'[l.name].token
      BY <1>1 DEF ReleasedInv
    <2>1. /\ l \in issued /\ l.token # rows[l.name].token
          /\ l.name \in Names /\ l.token \in Nat /\ l.token <= mintedTokens
      BY DEF Inv, ReleasedInv, IssuedInv, TypeOK, Leases
    <2> QED
      BY <1>1, <1>2, <1>4, <1>6, <2>1
  <1> QED
    BY <1>7, <1>8, <1>10, <1>11, <1>12, <1>13 DEF Inv

\* The record of a guarded call that is current: it was granted, and its row is
\* the latest grant.
LEMMA CurrentCall ==
  ASSUME Inv, NEW c \in Callers, calls[c] # NoCall, calls[c].op # "acquire",
         LeaseIsCurrent(calls[c].lease, calls[c].at)
  PROVE  /\ calls[c].lease \in issued
         /\ calls[c].lease.name \in Names
         /\ rows[calls[c].lease.name] # NoRow
         /\ rows[calls[c].lease.name].token = calls[c].lease.token
         /\ rows[calls[c].lease.name].fencing_token = calls[c].lease.fencing_token
  BY CallType DEF Inv, CallInv, LeaseIsCurrent, Matches

\* heartbeat: only the two times of the row change.
LEMMA HeartbeatInv ==
  ASSUME Inv, NEW c \in Callers, Heartbeat(c)
  PROVE  Inv'
  <1> DEFINE n == calls[c].lease.name
             row == HeartbeatRow(rows[n], calls[c].at)
  <1>1. /\ calls[c] # NoCall /\ calls[c].op = "heartbeat"
        /\ LeaseIsCurrent(calls[c].lease, calls[c].at)
        /\ rows' = [rows EXCEPT ![n] = row]
        /\ UNCHANGED <<clock, mintedTokens, issued, released, lastWrite>>
    BY DEF Heartbeat, Returns
  <1>2. /\ n \in Names /\ rows[n] # NoRow
        /\ calls[c].at \in Times /\ calls[c].at <= clock /\ clock \in Nat
    BY <1>1, CallType, CurrentCall, LeaseStoreAssumption DEF Inv, TypeOK, Times
  <1>3. /\ row \in Rows /\ row # NoRow
        /\ row.token = rows[n].token
        /\ row.fencing_token = rows[n].fencing_token
        /\ row.expires_at = calls[c].at + Ttl
    <2>1. rows[n] \in Rows
      BY <1>2, RowType
    <2>2. calls[c].at + Ttl \in Nat
      BY <1>2, LeaseStoreAssumption DEF Times
    <2>3. row \in Rows
      BY <1>2, <2>1, <2>2 DEF HeartbeatRow, Rows
    <2> QED
      BY <2>1, <2>3, NullAssumption DEF HeartbeatRow, Rows
  <1>4. rows'[n] = row /\ \A m \in Names : m # n => rows'[m] = rows[m]
    BY <1>1, <1>2 DEF Inv, TypeOK
  <1>5. calls' \in [Callers -> Calls \cup {NoCall}] /\ CallInv'
    BY <1>1, ReturnCalls DEF Heartbeat
  <1>6. TypeOK'
    BY <1>1, <1>3, <1>5 DEF Inv, TypeOK
  <1>7. \A m \in Names : /\ (rows'[m] = NoRow) = (rows[m] = NoRow)
                         /\ rows'[m].token = rows[m].token
                         /\ rows'[m].fencing_token = rows[m].fencing_token
    BY <1>2, <1>3, <1>4
  <1>8. \A m \in Names : rows'[m] # NoRow => rows'[m].expires_at <= clock + Ttl
    BY <1>2, <1>3, <1>4, LeaseStoreAssumption DEF Inv, RowInv, Times
  <1>9. RowInv'
    BY <1>1, <1>7, <1>8 DEF Inv, RowInv
  <1>10. IssuedInv' /\ ReleasedInv'
    BY <1>1, <1>7 DEF Inv, TypeOK, Leases, IssuedInv, ReleasedInv
  <1> QED
    BY <1>1, <1>5, <1>6, <1>9, <1>10 DEF Inv, UniqueFences

\* release: the row gets a token no grant carries.
LEMMA ReleaseInv ==
  ASSUME Inv, NEW c \in Callers, Release(c)
  PROVE  Inv'
  <1> DEFINE n == calls[c].lease.name
             row == ReleasedRow(rows[n], calls[c].at)
  <1>1. /\ calls[c] # NoCall /\ calls[c].op = "release"
        /\ LeaseIsCurrent(calls[c].lease, calls[c].at)
        /\ rows' = [rows EXCEPT ![n] = row]
        /\ mintedTokens' = mintedTokens + 1
        /\ released' = released \cup {calls[c].lease}
        /\ UNCHANGED <<clock, issued, lastWrite>>
    BY DEF Release, Returns
  <1>2. /\ n \in Names /\ rows[n] # NoRow /\ calls[c].lease \in issued
        /\ calls[c].at \in Times /\ calls[c].at <= clock /\ clock \in Nat
        /\ mintedTokens \in Nat
    BY <1>1, CallType, CurrentCall, LeaseStoreAssumption DEF Inv, TypeOK, Times
  <1>3. /\ row \in Rows /\ row # NoRow
        /\ row.token = mintedTokens + 1
        /\ row.fencing_token = rows[n].fencing_token
        /\ row.expires_at = calls[c].at
    <2>1. rows[n] \in Rows
      BY <1>2, RowType
    <2>2. calls[c].at \in Nat /\ mintedTokens + 1 \in Nat
      BY <1>2, LeaseStoreAssumption DEF Times
    <2>3. row \in Rows
      BY <1>2, <2>1, <2>2 DEF ReleasedRow, Rows
    <2> QED
      BY <2>1, <2>3, NullAssumption DEF ReleasedRow, Rows
  <1>4. rows'[n] = row /\ \A m \in Names : m # n => rows'[m] = rows[m]
    BY <1>1, <1>2 DEF Inv, TypeOK
  <1>5. calls' \in [Callers -> Calls \cup {NoCall}] /\ CallInv'
    BY <1>1, ReturnCalls DEF Release
  <1>6. TypeOK'
    BY <1>1, <1>2, <1>3, <1>5 DEF Inv, TypeOK
  <1>7. \A m \in Names : /\ (rows'[m] = NoRow) = (rows[m] = NoRow)
                         /\ rows'[m].fencing_token = rows[m].fencing_token
    BY <1>2, <1>3, <1>4
  <1>8. RowInv'
    <2> SUFFICES ASSUME NEW m \in Names, rows'[m] # NoRow
                 PROVE  /\ rows'[m].token <= mintedTokens + 1
                        /\ rows'[m].expires_at <= clock + Ttl
                        /\ lastWrite[m] <= rows'[m].fencing_token
      BY <1>1, <1>7 DEF Inv, RowInv
    <2>1. CASE m = n
      BY <1>2, <1>3, <1>4, <2>1, LeaseStoreAssumption DEF Inv, RowInv, Times
    <2>2. CASE m # n
      BY <1>2, <1>4, <2>2, RowType DEF Inv, RowInv
    <2> QED
      BY <2>1, <2>2
  <1>9. \A l \in issued : l.name \in Names /\ l.token \in Nat /\ l.token <= mintedTokens
    BY DEF Inv, IssuedInv, TypeOK, Leases
  <1>10. IssuedInv'
    BY <1>1, <1>2, <1>7, <1>9 DEF Inv, IssuedInv
  <1>11. ReleasedInv'
    <2> SUFFICES ASSUME NEW l \in released'
                 PROVE  l \in issued /\ l.token # rows'[l.name].token
      BY <1>1 DEF ReleasedInv
    <2>1. l \in issued
      BY <1>1, <1>2 DEF Inv, ReleasedInv
    <2>2. CASE l.name = n
      BY <1>2, <1>3, <1>4, <1>9, <2>1, <2>2
    <2>3. CASE l.name # n
      BY <1>1, <1>4, <1>9, <2>1, <2>3 DEF Inv, ReleasedInv
    <2> QED
      BY <2>1, <2>2, <2>3
  <1> QED
    BY <1>1, <1>5, <1>6, <1>8, <1>10, <1>11 DEF Inv, UniqueFences

LEMMA WriteInv ==
  ASSUME Inv, NEW c \in Callers, Write(c)
  PROVE  Inv'
  <1> DEFINE n == calls[c].lease.name
             f == calls[c].lease.fencing_token
  <1>1. /\ calls[c] # NoCall /\ calls[c].op = "write"
        /\ LeaseIsCurrent(calls[c].lease, calls[c].at)
        /\ lastWrite' = [lastWrite EXCEPT ![n] = f]
        /\ UNCHANGED <<rows, clock, mintedTokens, issued, released>>
    BY DEF Write, Returns
  <1>2. n \in Names /\ rows[n] # NoRow /\ rows[n].fencing_token = f /\ f \in 1..MaxFence
    BY <1>1, CurrentCall, RowType
  <1>3. calls' \in [Callers -> Calls \cup {NoCall}] /\ CallInv'
    BY <1>1, ReturnCalls DEF Write
  <1>4. TypeOK'
    BY <1>1, <1>2, <1>3, LeaseStoreAssumption DEF Inv, TypeOK
  <1>5. lastWrite'[n] = f /\ \A m \in Names : m # n => lastWrite'[m] = lastWrite[m]
    BY <1>1, <1>2 DEF Inv, TypeOK
  <1>6. RowInv'
    BY <1>1, <1>2, <1>5, LeaseStoreAssumption DEF Inv, RowInv
  <1> QED
    BY <1>1, <1>3, <1>4, <1>6 DEF Inv, UniqueFences, IssuedInv, ReleasedInv

LEMMA RefusedInv ==
  ASSUME Inv, NEW c \in Callers, Refused(c)
  PROVE  Inv'
  <1>1. \E op \in {"acquire", "heartbeat", "release", "write"} : Returns(c, op)
    BY DEF Refused
  <1>2. UNCHANGED <<rows, clock, mintedTokens, issued, released, lastWrite>>
    BY DEF Refused
  <1>3. calls' \in [Callers -> Calls \cup {NoCall}] /\ CallInv'
    BY <1>1, <1>2, ReturnCalls
  <1> QED
    BY <1>2, <1>3 DEF Inv, TypeOK, UniqueFences, RowInv, IssuedInv, ReleasedInv

LEMMA NextInv == Inv /\ [Next]_vars => Inv'
  <1> SUFFICES ASSUME Inv, [Next]_vars PROVE Inv'
    OBVIOUS
  <1>1. CASE Tick
    BY <1>1, TickInv
  <1>2. ASSUME NEW c \in Callers, Call(c) PROVE Inv'
    BY <1>2, CallStepInv
  <1>3. ASSUME NEW c \in Callers, Acquire(c) PROVE Inv'
    BY <1>3, AcquireInv
  <1>4. ASSUME NEW c \in Callers, Heartbeat(c) PROVE Inv'
    BY <1>4, HeartbeatInv
  <1>5. ASSUME NEW c \in Callers, Release(c) PROVE Inv'
    BY <1>5, ReleaseInv
  <1>6. ASSUME NEW c \in Callers, Write(c) PROVE Inv'
    BY <1>6, WriteInv
  <1>7. ASSUME NEW c \in Callers, Refused(c) PROVE Inv'
    BY <1>7, RefusedInv
  <1>8. CASE UNCHANGED vars
    BY <1>8 DEF vars, Inv, TypeOK, UniqueFences, RowInv, IssuedInv, ReleasedInv, CallInv
  <1> QED
    BY <1>1, <1>2, <1>3, <1>4, <1>5, <1>6, <1>7, <1>8 DEF Next

LEMMA SpecInv == Spec => []Inv
  BY InitInv, NextInv, PTL DEF Spec

-----------------------------------------------------------------------------
\* The variables keep their types in every run of the lease store.
THEOREM TypeCorrect == Spec => []TypeOK
  <1>1. Inv => TypeOK
    BY DEF Inv
  <1> QED
    BY SpecInv, <1>1, PTL

\* A fencing token names one acquisition of a lease (LeaseStore.acquire).
THEOREM FencesAreUnique == Spec => []UniqueFences
  <1>1. Inv => UniqueFences
    BY DEF Inv
  <1> QED
    BY SpecInv, <1>1, PTL

\* A released lease cannot be revived by a delayed heartbeat, write or release
\* (the token rotation of LeaseStore.release).
THEOREM RevocationIsFinal == Spec => []RevokedStaysRevoked
  <1>1. Inv => RevokedStaysRevoked
    BY DEF Inv, ReleasedInv, RevokedStaysRevoked, LeaseIsCurrent, Matches
  <1> QED
    BY SpecInv, <1>1, PTL

\* A takeover revokes every earlier grant, whatever clock it sampled.
THEOREM TakeoverIsFinal == Spec => []SupersededNeverCurrent
  <1>1. Inv => SupersededNeverCurrent
    <2> SUFFICES ASSUME Inv, NEW l1 \in issued, NEW l2 \in issued,
                        l1.name = l2.name, l1.fencing_token < l2.fencing_token
                 PROVE  ~Matches(l1)
      BY DEF SupersededNeverCurrent, LeaseIsCurrent
    <2>1. /\ l1.name \in Names
          /\ l1.fencing_token \in Nat /\ l2.fencing_token \in Nat
          /\ rows[l1.name] # NoRow
          /\ l2.fencing_token <= rows[l1.name].fencing_token
      BY DEF Inv, IssuedInv, TypeOK, Leases
    <2>2. rows[l1.name].fencing_token \in Nat
      BY <2>1, RowType, LeaseStoreAssumption
    <2> QED
      BY <2>1, <2>2 DEF Matches
  <1> QED
    BY SpecInv, <1>1, PTL

\* No interleaving of heartbeats keeps a lease longer than one ttl past now.
THEOREM TenureIsBounded == Spec => []BoundedTenure
  <1>1. Inv => BoundedTenure
    BY DEF Inv, RowInv, BoundedTenure
  <1> QED
    BY SpecInv, <1>1, PTL

\* Accepted writes carry fencing tokens that never decrease.
THEOREM WritesStayFenced == Spec => WritesAreFenced
  <1>1. Inv /\ [Next]_vars => [\A n \in Names : lastWrite'[n] >= lastWrite[n]]_vars
    <2> SUFFICES ASSUME Inv, Next, NEW n \in Names
                 PROVE  lastWrite'[n] >= lastWrite[n]
      OBVIOUS
    <2>1. lastWrite[n] \in Nat
      BY LeaseStoreAssumption DEF Inv, TypeOK
    <2>2. ASSUME NEW c \in Callers, Write(c)
          PROVE  lastWrite'[n] >= lastWrite[n]
      <3>1. /\ calls[c] # NoCall /\ calls[c].op = "write"
            /\ LeaseIsCurrent(calls[c].lease, calls[c].at)
            /\ lastWrite' = [lastWrite EXCEPT ![calls[c].lease.name] =
                                calls[c].lease.fencing_token]
        BY <2>2 DEF Write, Returns
      <3>2. CASE n = calls[c].lease.name
        BY <3>1, <3>2, <2>1, CurrentCall, RowType, LeaseStoreAssumption DEF Inv, RowInv, TypeOK
      <3>3. CASE n # calls[c].lease.name
        BY <3>1, <3>3, <2>1 DEF Inv, TypeOK
      <3> QED
        BY <3>2, <3>3
    <2>3. CASE UNCHANGED lastWrite
      BY <2>1, <2>3
    <2> QED
      BY <2>2, <2>3 DEF Next, Tick, Call, Acquire, Heartbeat, Release, Refused
  <1> QED
    BY SpecInv, <1>1, PTL DEF Spec, WritesAreFenced

\* An acquire, however old its clock sample, takes over only a grant that has
\* expired by the real clock.
THEOREM LiveGrantsAreSafe == Spec => NoTakeoverOfLiveGrant
  <1> DEFINE Safe == \A n \in Names :
                        rows[n] # NoRow /\ rows'[n].fencing_token # rows[n].fencing_token
                            => rows[n].expires_at <= clock
  <1>1. Inv /\ [Next]_vars => [Safe]_vars
    <2> SUFFICES ASSUME Inv, Next, NEW n \in Names, rows[n] # NoRow,
                        rows'[n].fencing_token # rows[n].fencing_token
                 PROVE  rows[n].expires_at <= clock
      OBVIOUS
    <2>1. ASSUME NEW c \in Callers, Acquire(c)
          PROVE  rows[n].expires_at <= clock
      <3>1. /\ calls[c] # NoCall
            /\ MayAcquire(calls[c].lease.name, calls[c].at)
            /\ \A m \in Names : m # calls[c].lease.name => rows'[m] = rows[m]
        BY <2>1 DEF Acquire, Returns, Inv, TypeOK
      <3>2. n = calls[c].lease.name
        BY <3>1
      <3>3. calls[c].at \in Nat /\ calls[c].at <= clock /\ clock \in Nat
        BY <3>1, CallType, LeaseStoreAssumption DEF Inv, TypeOK, Times
      <3> QED
        BY <3>1, <3>2, <3>3, RowType DEF MayAcquire
    <2>2. ASSUME NEW c \in Callers, Heartbeat(c)
          PROVE  FALSE
      <3>1. /\ rows' = [rows EXCEPT ![calls[c].lease.name] = HeartbeatRow(@, calls[c].at)]
            /\ \A m \in Names : rows[m] # NoRow => rows[m] \in Rows
        BY <2>2, RowType DEF Heartbeat
      <3> QED
        BY <3>1 DEF Inv, TypeOK, HeartbeatRow, Rows
    <2>3. ASSUME NEW c \in Callers, Release(c)
          PROVE  FALSE
      <3>1. /\ rows' = [rows EXCEPT ![calls[c].lease.name] = ReleasedRow(@, calls[c].at)]
            /\ \A m \in Names : rows[m] # NoRow => rows[m] \in Rows
        BY <2>3, RowType DEF Release
      <3> QED
        BY <3>1 DEF Inv, TypeOK, ReleasedRow, Rows
    <2> QED
      BY <2>1, <2>2, <2>3 DEF Next, Tick, Call, Write, Refused
  <1> QED
    BY SpecInv, <1>1, PTL DEF Spec, NoTakeoverOfLiveGrant

-----------------------------------------------------------------------------
(* LeaseStore implements FencedLease. *)

\* absTenure at a name that is granted.
LEMMA TenureOfGrant ==
  ASSUME NEW n \in Names, Granted(n)
  PROVE  absTenure[n] \in {"held", "lapsed"} /\ (absTenure[n] = "held" <=> rows[n].expires_at > clock)
  BY DEF absTenure

\* A step that keeps the row identities and the issued records keeps the grants.
LEMMA SameGrants ==
  ASSUME Inv, issued' = issued,
         \A n \in Names : /\ (rows'[n] = NoRow) = (rows[n] = NoRow)
                          /\ rows'[n].owner = rows[n].owner
                          /\ rows'[n].token = rows[n].token
                          /\ rows'[n].fencing_token = rows[n].fencing_token
  PROVE  absFence' = absFence /\ \A n \in Names : Granted(n)' = Granted(n)
  <1>1. \A l \in issued : l.name \in Names
    BY DEF Inv, TypeOK, Leases
  <1>2. \A l \in issued : Matches(l)' = Matches(l)
    BY <1>1 DEF Matches
  <1> QED
    BY <1>2 DEF Granted, absFence

LEMMA TickImplements ==
  ASSUME Inv, Tick
  PROVE  \E S \in SUBSET Names : Abstract!Lapse(S)
  <1> DEFINE S == {n \in Names : absTenure[n] = "held" /\ absTenure'[n] # "held"}
  <1>1. UNCHANGED <<rows, issued, lastWrite>> /\ clock' = clock + 1 /\ clock \in Nat
    BY LeaseStoreAssumption DEF Tick, Inv, TypeOK, Times
  <1>2. absFence' = absFence /\ \A n \in Names : Granted(n)' = Granted(n)
    BY <1>1, SameGrants
  <1>3. ASSUME NEW n \in Names
        PROVE  absTenure'[n] = IF n \in S THEN "lapsed" ELSE absTenure[n]
    <2>1. CASE ~Granted(n)
      BY <1>2, <2>1 DEF absTenure
    <2>2. CASE Granted(n)
      <3>1. rows[n] # NoRow /\ rows[n].expires_at \in Nat
        BY <2>2, RowType DEF Granted, Matches
      <3>2. absTenure'[n] = IF rows[n].expires_at > clock + 1 THEN "held" ELSE "lapsed"
        BY <1>1, <1>2, <2>2 DEF absTenure
      <3>3. absTenure[n] = IF rows[n].expires_at > clock THEN "held" ELSE "lapsed"
        BY <2>2 DEF absTenure
      <3> QED
        BY <1>1, <3>1, <3>2, <3>3
    <2> QED
      BY <2>1, <2>2
  <1>4. absTenure' = [n \in Names |-> IF n \in S THEN "lapsed" ELSE absTenure[n]]
    BY <1>3 DEF absTenure
  <1> QED
    BY <1>1, <1>2, <1>4 DEF Abstract!Lapse

LEMMA AcquireImplements ==
  ASSUME Inv, NEW c \in Callers, Acquire(c)
  PROVE  Abstract!Grant(calls[c].lease.name)
  <1> DEFINE n == calls[c].lease.name
             row == AcquiredRow(n, calls[c].lease.owner, calls[c].at)
             new == [name |-> n, owner |-> row.owner, token |-> row.token,
                     fencing_token |-> row.fencing_token]
  <1>1. /\ calls[c] # NoCall
        /\ MayAcquire(n, calls[c].at)
        /\ NextFence(n) <= MaxFence
        /\ rows' = [rows EXCEPT ![n] = row]
        /\ issued' = issued \cup {new}
        /\ clock' = clock /\ lastWrite' = lastWrite
    BY DEF Acquire, Returns
  <1>2. /\ n \in Names /\ calls[c].at \in Nat /\ calls[c].at <= clock /\ clock \in Nat
    BY <1>1, CallType, LeaseStoreAssumption DEF Inv, TypeOK, Times
  <1>3. Inv'
    BY AcquireInv
  <1>4. rows'[n] = row /\ \A m \in Names : m # n => rows'[m] = rows[m]
    BY <1>1, <1>2 DEF Inv, TypeOK
  <1>5. /\ rows'[n] # NoRow
        /\ \A m \in Names : m = n => Granted(m)'
    <2>1. PICK k \in issued' : k = new
      BY <1>1
    <2>2. rows'[n] # NoRow
      BY <1>3, <2>1 DEF Inv, IssuedInv
    <2>3. /\ k.name = n /\ k.owner = rows'[n].owner /\ k.token = rows'[n].token
          /\ k.fencing_token = rows'[n].fencing_token
      BY <1>4, <2>1
    <2>4. Matches(k)'
      BY <2>2, <2>3 DEF Matches
    <2> QED
      BY <2>1, <2>2, <2>3, <2>4 DEF Granted
  <1>6. absFence' = [absFence EXCEPT ![n] = @ + 1]
    <2>1. absFence'[n] = absFence[n] + 1
      BY <1>2, <1>4, <1>5, RowType, LeaseStoreAssumption DEF absFence, AcquiredRow, NextFence
    <2> QED
      BY <1>2, <1>4, <2>1 DEF absFence
  <1>7. absTenure[n] # "held"
    <2>1. CASE rows[n] = NoRow
      BY <1>2, <2>1 DEF absTenure, Granted, Matches
    <2>2. CASE rows[n] # NoRow
      <3>1. rows[n].expires_at \in Nat /\ rows[n].expires_at <= calls[c].at
        BY <1>1, <1>2, <2>2, RowType DEF MayAcquire
      <3> QED
        BY <1>2, <3>1 DEF absTenure
    <2> QED
      BY <2>1, <2>2
  <1>8. absTenure'[n] \in {"held", "lapsed"}
    BY <1>2, <1>5 DEF absTenure
  <1>9. \A m \in Names : m # n => absTenure'[m] = absTenure[m]
    <2> SUFFICES ASSUME NEW m \in Names, m # n PROVE absTenure'[m] = absTenure[m]
      OBVIOUS
    <2>1. \A l \in issued : l.name = m => Matches(l)' = Matches(l)
      BY <1>4 DEF Matches
    <2>2. \A l \in issued' : l.name = m => l \in issued
      BY <1>1
    <2>3. Granted(m)' = Granted(m)
      BY <1>1, <2>1, <2>2 DEF Granted
    <2> QED
      BY <1>1, <1>4, <2>3 DEF absTenure
  <1>10. absTenure' = [absTenure EXCEPT ![n] = absTenure'[n]]
    BY <1>9 DEF absTenure
  <1>11. absFence[n] < MaxFence
    BY <1>1, <1>2, RowType, LeaseStoreAssumption DEF absFence, NextFence
  <1> QED
    BY <1>1, <1>6, <1>7, <1>8, <1>10, <1>11 DEF Abstract!Grant

LEMMA HeartbeatImplements ==
  ASSUME Inv, NEW c \in Callers, Heartbeat(c)
  PROVE  Abstract!Renew(calls[c].lease.name)
  <1> DEFINE n == calls[c].lease.name
             row == HeartbeatRow(rows[n], calls[c].at)
  <1>1. /\ calls[c] # NoCall /\ calls[c].op = "heartbeat"
        /\ LeaseIsCurrent(calls[c].lease, calls[c].at)
        /\ rows' = [rows EXCEPT ![n] = row]
        /\ UNCHANGED <<clock, issued, lastWrite>>
    BY DEF Heartbeat, Returns
  <1>2. n \in Names /\ rows[n] \in Rows /\ rows[n] # NoRow /\ calls[c].lease \in issued
    BY <1>1, CurrentCall, RowType
  <1>3. rows'[n] = row /\ \A m \in Names : m # n => rows'[m] = rows[m]
    BY <1>1, <1>2 DEF Inv, TypeOK
  <1>4. /\ row.owner = rows[n].owner /\ row.token = rows[n].token
        /\ row.fencing_token = rows[n].fencing_token
    BY <1>2 DEF HeartbeatRow, Rows
  <1>5. rows'[n] # NoRow
    <2>1. Inv'
      BY HeartbeatInv
    <2> QED
      BY <1>1, <1>2, <2>1 DEF Inv, IssuedInv
  <1>6. absFence' = absFence /\ \A m \in Names : Granted(m)' = Granted(m)
    BY <1>1, <1>2, <1>3, <1>4, <1>5, SameGrants
  <1>7. Granted(n)
    BY <1>1, <1>2 DEF Granted, LeaseIsCurrent
  <1>8. absTenure[n] # "free" /\ absTenure'[n] \in {"held", "lapsed"}
    BY <1>2, <1>6, <1>7 DEF absTenure
  <1>9. \A m \in Names : m # n => absTenure'[m] = absTenure[m]
    BY <1>1, <1>3, <1>6 DEF absTenure
  <1>10. absTenure' = [absTenure EXCEPT ![n] = absTenure'[n]]
    BY <1>9 DEF absTenure
  <1> QED
    BY <1>1, <1>6, <1>8, <1>10 DEF Abstract!Renew

LEMMA ReleaseImplements ==
  ASSUME Inv, NEW c \in Callers, Release(c)
  PROVE  Abstract!Revoke(calls[c].lease.name)
  <1> DEFINE n == calls[c].lease.name
             row == ReleasedRow(rows[n], calls[c].at)
  <1>1. /\ calls[c] # NoCall /\ calls[c].op = "release"
        /\ LeaseIsCurrent(calls[c].lease, calls[c].at)
        /\ rows' = [rows EXCEPT ![n] = row]
        /\ UNCHANGED <<clock, issued, lastWrite>>
    BY DEF Release, Returns
  <1>2. n \in Names /\ rows[n] \in Rows /\ rows[n] # NoRow /\ calls[c].lease \in issued
    BY <1>1, CurrentCall, RowType
  <1>3. rows'[n] = row /\ \A m \in Names : m # n => rows'[m] = rows[m]
    BY <1>1, <1>2 DEF Inv, TypeOK
  <1>4. row.fencing_token = rows[n].fencing_token /\ row.token = mintedTokens + 1
    BY <1>2 DEF ReleasedRow, Rows
  <1>5. rows'[n] # NoRow
    <2>1. Inv'
      BY ReleaseInv
    <2> QED
      BY <1>1, <1>2, <2>1 DEF Inv, IssuedInv
  <1>6. absFence' = absFence
    BY <1>2, <1>3, <1>4, <1>5 DEF absFence
  <1>7. Granted(n) /\ absTenure[n] # "free"
    BY <1>1, <1>2 DEF Granted, LeaseIsCurrent, absTenure
  <1>8. absTenure'[n] = "free"
    <2>1. \A l \in issued : l.token \in Nat /\ l.token <= mintedTokens /\ mintedTokens \in Nat
      BY DEF Inv, IssuedInv, TypeOK, Leases
    <2>2. \A m \in Names : m = n => ~Granted(m)'
      <3>1. rows'[n].token = mintedTokens + 1
        BY <1>3, <1>4
      <3>2. ASSUME NEW l \in issued PROVE l.token # rows'[n].token
        BY <2>1, <3>1
      <3> QED
        BY <1>1, <3>2 DEF Granted, Matches
    <2> QED
      BY <1>2, <2>2 DEF absTenure
  <1>9. \A m \in Names : m # n => absTenure'[m] = absTenure[m]
    <2> SUFFICES ASSUME NEW m \in Names, m # n PROVE absTenure'[m] = absTenure[m]
      OBVIOUS
    <2>1. \A l \in issued : l.name = m => Matches(l)' = Matches(l)
      BY <1>3 DEF Matches
    <2>2. Granted(m)' = Granted(m)
      BY <1>1, <2>1 DEF Granted
    <2> QED
      BY <1>1, <1>3, <2>2 DEF absTenure
  <1>10. absTenure' = [absTenure EXCEPT ![n] = "free"]
    BY <1>8, <1>9 DEF absTenure
  <1> QED
    BY <1>1, <1>6, <1>7, <1>10 DEF Abstract!Revoke

LEMMA WriteImplements ==
  ASSUME Inv, NEW c \in Callers, Write(c)
  PROVE  Abstract!Write(calls[c].lease.name)
  <1> DEFINE n == calls[c].lease.name
  <1>1. /\ calls[c] # NoCall /\ calls[c].op = "write"
        /\ LeaseIsCurrent(calls[c].lease, calls[c].at)
        /\ lastWrite' = [lastWrite EXCEPT ![n] = calls[c].lease.fencing_token]
        /\ UNCHANGED <<rows, clock, issued>>
    BY DEF Write, Returns
  <1>2. /\ n \in Names /\ rows[n] # NoRow /\ calls[c].lease \in issued
        /\ rows[n].fencing_token = calls[c].lease.fencing_token
    BY <1>1, CurrentCall
  <1>3. absFence[n] = calls[c].lease.fencing_token
    BY <1>2 DEF absFence
  <1>4. Granted(n) /\ absTenure[n] # "free"
    BY <1>1, <1>2 DEF Granted, LeaseIsCurrent, absTenure
  <1>5. absFence' = absFence /\ absTenure' = absTenure
    BY <1>1 DEF absFence, absTenure, Granted, Matches
  <1> QED
    BY <1>1, <1>3, <1>4, <1>5 DEF Abstract!Write

\* The SQLite lease table, with its secret tokens, expiry times and stale clock
\* samples, implements the abstract fenced lease.
THEOREM LeaseStoreImplementsFencedLease == Spec => ImplementsFencedLease
  <1>1. Init => Abstract!FencedLeaseInit
    BY DEF Init, Abstract!FencedLeaseInit, absFence, absTenure, Granted
  <1>2. Inv /\ [Next]_vars => [Abstract!FencedLeaseNext]_(Abstract!leaseVars)
    <2> SUFFICES ASSUME Inv, [Next]_vars
                 PROVE  Abstract!FencedLeaseNext \/ UNCHANGED Abstract!leaseVars
      OBVIOUS
    <2>1. CASE Tick
      BY <2>1, TickImplements DEF Abstract!FencedLeaseNext
    <2>2. ASSUME NEW c \in Callers, Acquire(c) \/ Heartbeat(c) \/ Release(c) \/ Write(c)
          PROVE  Abstract!FencedLeaseNext
      <3>1. calls[c].lease.name \in Names
        BY <2>2, CallType DEF Acquire, Heartbeat, Release, Write, Returns
      <3> QED
        BY <2>2, <3>1, AcquireImplements, HeartbeatImplements, ReleaseImplements, WriteImplements
        DEF Abstract!FencedLeaseNext
    <2>3. ASSUME NEW c \in Callers, Call(c) \/ Refused(c)
          PROVE  UNCHANGED Abstract!leaseVars
      BY <2>3 DEF Call, Refused, Abstract!leaseVars, absFence, absTenure, Granted, Matches
    <2>4. CASE UNCHANGED vars
      BY <2>4 DEF vars, Abstract!leaseVars, absFence, absTenure, Granted, Matches
    <2> QED
      BY <2>1, <2>2, <2>3, <2>4 DEF Next
  <1> QED
    BY <1>1, <1>2, SpecInv, PTL DEF Spec, ImplementsFencedLease, Abstract!FencedLeaseSpec
=============================================================================
