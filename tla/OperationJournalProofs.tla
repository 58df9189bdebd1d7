----------------------- MODULE OperationJournalProofs -----------------------
(***************************************************************************)
(* Theorems about OperationJournal, for every set of names, batches,       *)
(* actions and artifacts and every bound.                                  *)
(*                                                                         *)
(* Every operation of the journal appends records of one fencing token to  *)
(* the log of one batch and writes its row (Appends).  The inductive       *)
(* invariant Inv says what a row tells of the log: no token in either is   *)
(* later than the latest grant, and unless the batch is finished none in   *)
(* the log is later than the token of the row.  The second part is what    *)
(* keeps the lease-lost marker, which needs no current lease, in order.    *)
(*                                                                         *)
(* What a single record may follow in its log has an invariant of its own  *)
(* (OrderInv), which says which grant the attempt of a recovering batch    *)
(* belongs to.                                                             *)
(***************************************************************************)
EXTENDS OperationJournal, SequenceTheorems, TLAPS

Finished == {"succeeded", "recovery_succeeded"}

\* The tokens in the log of a batch, its row and the latest grant.
TokenInv ==
    \A b \in Batches :
        /\ batches[b] = NoBatch => log[b] = <<>>
        /\ batches[b] # NoBatch =>
            /\ batches[b].lease_fencing_token <= fence[batches[b].lease_name]
            /\ \A i \in 1..Len(log[b]) : log[b][i].by <= fence[batches[b].lease_name]
            /\ batches[b].phase \notin Finished =>
                \A i \in 1..Len(log[b]) : log[b][i].by <= batches[b].lease_fencing_token

\* A batch has recovery records exactly when it is in a phase of recovery, and
\* the latest one has that phase.
RecoveryInv ==
    \A b \in Batches : batches[b] # NoBatch =>
        /\ batches[b].phase \notin RecoveryPhases =>
            \A i \in 1..Len(log[b]) : log[b][i].kind # "recovery"
        /\ batches[b].phase \in RecoveryPhases =>
            \E i \in 1..Len(log[b]) :
                /\ log[b][i].kind = "recovery"
                /\ log[b][i].phase = batches[b].phase
                /\ \A j \in 1..Len(log[b]) : j > i => log[b][j].kind # "recovery"

Inv == TypeOK /\ TokenInv /\ LogIsFenced /\ RecoveryInv /\ EvidencePrecedesRecovery

-----------------------------------------------------------------------------
(* What an operation on batch b does. *)

\* No record is older than token t.
NotAfter(b, t) == \A i \in 1..Len(log[b]) : log[b][i].by <= t

\* The records es are about the mutation itself, not about its recovery.
Evidence(e) == e.kind = "operation" \/ (e.kind = "checkpoint" /\ e.attempt = 0)

\* Records that leave the batch in or out of recovery as it is; those about the
\* mutation come before recovery.
KeepsRecovery(b, es, row) ==
    /\ \A k \in 1..Len(es) : es[k].kind # "recovery"
    /\ IF batches[b] # NoBatch /\ batches[b].phase \in RecoveryPhases
       THEN /\ row.phase = batches[b].phase
            /\ \A k \in 1..Len(es) : ~Evidence(es[k])
       ELSE row.phase \notin RecoveryPhases

\* Recovery records, the last with the new phase of the batch.
EntersRecovery(es, row) ==
    /\ es # <<>>
    /\ \A k \in 1..Len(es) : es[k].kind = "recovery"
    /\ row.phase \in RecoveryPhases
    /\ es[Len(es)].phase = row.phase

Appends(b, t, es, row) ==
    /\ log' = [log EXCEPT ![b] = @ \o es]
    /\ Len(log[b]) + Len(es) <= MaxLog
    /\ batches' = [batches EXCEPT ![b] = row]
    /\ fence' = fence
    /\ \A k \in 1..Len(es) : es[k].by = t
    /\ es = <<>> => row.lease_fencing_token = t
    /\ row.lease_fencing_token <= fence[row.lease_name]
    /\ batches[b] # NoBatch => row.lease_name = batches[b].lease_name
    /\ es # <<>> => NotAfter(b, t) /\ t <= fence[row.lease_name]
    /\ row.phase \notin Finished =>
        /\ NotAfter(b, row.lease_fencing_token)
        /\ es # <<>> => t <= row.lease_fencing_token
    /\ KeepsRecovery(b, es, row) \/ EntersRecovery(es, row)

\* The holder of token t has done some operation on batch b.
OperationBy(b, t) ==
    /\ FencedLeaseTypeOK'
    /\ \E es \in Seq(Entries), row \in Rows : Appends(b, t, es, row)

Operation(b) == \E t \in 1..MaxFence : OperationBy(b, t)

\* The handle h may write to batch b: its grant, the latest or the one the batch
\* is bound to, is not behind the log.
Allowed(b, h) ==
    /\ FencedLeaseTypeOK' /\ fence' = fence
    /\ batches[b] # NoBatch /\ batches[b].lease_name = h.name
    /\ h.fencing_token <= fence[h.name]
    /\ NotAfter(b, h.fencing_token)

\* The row is not ahead of the latest grant, nor behind the handle unless the
\* batch is finished.
Follows(row, h) ==
    /\ row.lease_name = h.name
    /\ row.lease_fencing_token <= fence[h.name]
    /\ row.phase \notin Finished => h.fencing_token <= row.lease_fencing_token

-----------------------------------------------------------------------------
LEMMA InitInv == Init => Inv
  <1> SUFFICES ASSUME Init PROVE Inv
    OBVIOUS
  <1>1. TypeOK
    BY FencedLeaseAssumption, OperationJournalAssumption, EmptySeq
    DEF Init, FencedLeaseInit, TypeOK, FencedLeaseTypeOK, Tenures
  <1>2. \A b \in Batches : log[b] = <<>> /\ batches[b] = NoBatch
    BY DEF Init
  <1> QED
    BY <1>1, <1>2
    DEF Inv, TokenInv, LogIsFenced, RecoveryInv, EvidencePrecedesRecovery, IsRecoveryRecord

\* What an operation leaves in the log: the records that were there, then es.
LEMMA AppendsLog ==
  ASSUME TypeOK, NEW b \in Batches, NEW t \in 1..MaxFence, NEW es \in Seq(Entries),
         NEW row \in Rows, Appends(b, t, es, row)
  PROVE  /\ Len(log[b]) \in Nat /\ Len(es) \in Nat
         /\ log'[b] \in Seq(Entries)
         /\ Len(log'[b]) = Len(log[b]) + Len(es)
         /\ DOMAIN log'[b] = 1..(Len(log[b]) + Len(es))
         /\ \A i \in 1..Len(log[b]) : log'[b][i] = log[b][i]
         /\ \A i \in 1..(Len(log[b]) + Len(es)) :
                i > Len(log[b]) => i - Len(log[b]) \in 1..Len(es) /\ log'[b][i] = es[i - Len(log[b])]
         /\ batches'[b] = row
         /\ \A c \in Batches \ {b} : log'[c] = log[c] /\ batches'[c] = batches[c]
  <1>1. log[b] \in Seq(Entries) /\ log'[b] = log[b] \o es
    BY DEF TypeOK, Appends
  <1>2. Len(log[b]) \in Nat /\ Len(es) \in Nat
    BY <1>1, LenProperties
  <1>3. /\ log[b] \o es \in Seq(Entries)
        /\ Len(log[b] \o es) = Len(log[b]) + Len(es)
        /\ \A i \in 1..(Len(log[b]) + Len(es)) :
               (log[b] \o es)[i] = IF i <= Len(log[b]) THEN log[b][i] ELSE es[i - Len(log[b])]
    BY <1>1, ConcatProperties
  <1>4. DOMAIN log'[b] = 1..(Len(log[b]) + Len(es))
    BY <1>1, <1>3, LenProperties
  <1>5. batches'[b] = row /\ \A c \in Batches \ {b} : log'[c] = log[c] /\ batches'[c] = batches[c]
    BY DEF TypeOK, Appends
  <1> QED
    BY <1>1, <1>2, <1>3, <1>4, <1>5

\* A record that was not there before is one of es.
LEMMA AppendsNew ==
  ASSUME TypeOK, NEW b \in Batches, NEW t \in 1..MaxFence, NEW es \in Seq(Entries),
         NEW row \in Rows, Appends(b, t, es, row),
         NEW i \in DOMAIN log'[b], i > Len(log[b])
  PROVE  /\ es # <<>>
         /\ log'[b][i].by = t
         /\ i - Len(log[b]) \in 1..Len(es)
         /\ log'[b][i] = es[i - Len(log[b])]
  <1>1. i \in 1..(Len(log[b]) + Len(es)) /\ Len(log[b]) \in Nat /\ Len(es) \in Nat
    BY AppendsLog
  <1>2. i - Len(log[b]) \in 1..Len(es) /\ log'[b][i] = es[i - Len(log[b])]
    BY <1>1, AppendsLog
  <1>3. es # <<>>
    BY <1>1, <1>2
  <1> QED
    BY <1>2, <1>3 DEF Appends

LEMMA AppendsTypeOK ==
  ASSUME TypeOK, NEW b \in Batches, Operation(b)
  PROVE  TypeOK'
  <1>1. PICK t \in 1..MaxFence, es \in Seq(Entries), row \in Rows : Appends(b, t, es, row)
    BY DEF Operation, OperationBy
  <1>2. batches' \in [Batches -> Rows \cup {NoBatch}]
    BY <1>1 DEF Appends, TypeOK
  <1>3. log' \in [Batches -> Seq(Entries)]
    <2>1. log[b] \o es \in Seq(Entries)
      BY <1>1, AppendsLog DEF Appends, TypeOK
    <2> QED
      BY <1>1, <2>1 DEF Appends, TypeOK
  <1>4. \A c \in Batches : Len(log'[c]) <= MaxLog
    BY <1>1, AppendsLog DEF Appends, TypeOK
  <1> QED
    BY <1>2, <1>3, <1>4 DEF Operation, OperationBy, TypeOK

\* The records of batch b after an operation are sorted by their tokens.
LEMMA AppendsFenced ==
  ASSUME Inv, NEW b \in Batches, Operation(b)
  PROVE  LogIsFenced'
  <1>1. PICK t \in 1..MaxFence, es \in Seq(Entries), row \in Rows : Appends(b, t, es, row)
    BY DEF Operation, OperationBy
  <1> SUFFICES ASSUME NEW c \in Batches, NEW i \in DOMAIN log'[c], NEW j \in DOMAIN log'[c], i < j
               PROVE  log'[c][i].by <= log'[c][j].by
    BY DEF LogIsFenced
  <1>2. CASE c # b
    BY <1>1, <1>2, AppendsLog DEF Inv, LogIsFenced
  <1>3. CASE c = b /\ j <= Len(log[b])
    <2>1. i \in 1..Len(log[b]) /\ j \in 1..Len(log[b]) /\ DOMAIN log[b] = 1..Len(log[b])
      BY <1>1, <1>3, AppendsLog, LenProperties DEF Inv, TypeOK
    <2> QED
      BY <1>1, <1>3, <2>1, AppendsLog DEF Inv, LogIsFenced
  <1>4. CASE c = b /\ j > Len(log[b])
    <2>0. /\ i \in 1..(Len(log[b]) + Len(es)) /\ j \in 1..(Len(log[b]) + Len(es))
          /\ Len(log[b]) \in Nat /\ Len(es) \in Nat
      BY <1>1, <1>4, AppendsLog DEF Inv
    <2>1. log'[b][j].by = t /\ es # <<>>
      BY <1>1, <1>4, AppendsNew DEF Inv
    <2>2. NotAfter(b, t)
      BY <1>1, <2>1 DEF Appends
    <2>3. CASE i <= Len(log[b])
      <3>1. i \in 1..Len(log[b])
        BY <2>0, <2>3
      <3> QED
        BY <1>1, <1>4, <2>1, <2>2, <3>1, AppendsLog DEF Inv, NotAfter
    <2>4. CASE i > Len(log[b])
      <3>2. log'[b][i].by = t
        BY <1>1, <1>4, <2>4, AppendsNew DEF Inv
      <3> QED
        BY <1>4, <2>1, <3>2
    <2> QED
      BY <2>0, <2>3, <2>4
  <1> QED
    BY <1>1, <1>2, <1>3, <1>4, AppendsLog DEF Inv

LEMMA AppendsTokens ==
  ASSUME Inv, NEW b \in Batches, Operation(b)
  PROVE  TokenInv'
  <1>1. PICK t \in 1..MaxFence, es \in Seq(Entries), row \in Rows : Appends(b, t, es, row)
    BY DEF Operation, OperationBy
  <1> SUFFICES ASSUME NEW c \in Batches
               PROVE  /\ batches'[c] = NoBatch => log'[c] = <<>>
                      /\ batches'[c] # NoBatch =>
                          /\ batches'[c].lease_fencing_token <= fence[batches'[c].lease_name]
                          /\ \A i \in 1..Len(log'[c]) : log'[c][i].by <= fence[batches'[c].lease_name]
                          /\ batches'[c].phase \notin Finished =>
                              \A i \in 1..Len(log'[c]) : log'[c][i].by <= batches'[c].lease_fencing_token
    BY <1>1 DEF TokenInv, Appends
  <1>2. CASE c # b
    BY SMTT(30), <1>1, <1>2, AppendsLog DEF Inv, TokenInv
  <1>3. CASE c = b
    <2>1. batches'[b] = row /\ row # NoBatch
      BY <1>1, AppendsLog, NoBatchAssumption DEF Inv
    <2>2. ASSUME NEW i \in 1..Len(log'[b])
          PROVE  /\ log'[b][i].by <= fence[row.lease_name]
                 /\ row.phase \notin Finished => log'[b][i].by <= row.lease_fencing_token
      <3>1. i \in 1..(Len(log[b]) + Len(es)) /\ Len(log[b]) \in Nat /\ Len(es) \in Nat
        BY <1>1, <2>2, AppendsLog DEF Inv
      <3>2. CASE i <= Len(log[b])
        <4>1. i \in 1..Len(log[b]) /\ log'[b][i] = log[b][i] /\ log[b] # <<>>
          BY <1>1, <3>1, <3>2, AppendsLog, EmptySeq DEF Inv
        <4>2. batches[b] # NoBatch /\ row.lease_name = batches[b].lease_name
          BY <1>1, <4>1 DEF Inv, TokenInv, Appends
        <4> QED
          BY <1>1, <4>1, <4>2 DEF Inv, TokenInv, Appends, NotAfter
      <3>3. CASE i > Len(log[b])
        <4>1. i \in DOMAIN log'[b]
          BY <1>1, <3>1, AppendsLog DEF Inv
        <4>2. log'[b][i].by = t /\ es # <<>>
          BY <1>1, <3>3, <4>1, AppendsNew DEF Inv
        <4> QED
          BY <1>1, <4>2 DEF Appends
      <3> QED
        BY <3>1, <3>2, <3>3
    <2>3. row.lease_fencing_token <= fence[row.lease_name]
      BY <1>1 DEF Appends
    <2> QED
      BY <1>3, <2>1, <2>2, <2>3
  <1> QED
    BY <1>2, <1>3

LEMMA AppendsRecovery ==
  ASSUME Inv, NEW b \in Batches, Operation(b)
  PROVE  RecoveryInv'
  <1>1. PICK t \in 1..MaxFence, es \in Seq(Entries), row \in Rows : Appends(b, t, es, row)
    BY DEF Operation, OperationBy
  <1> DEFINE m == Len(log[b])
             n == Len(es)
  <1>2. /\ m \in Nat /\ n \in Nat /\ Len(log'[b]) = m + n /\ DOMAIN log'[b] = 1..(m + n)
        /\ \A i \in 1..m : log'[b][i] = log[b][i]
        /\ \A i \in 1..(m + n) : i > m => i - m \in 1..n /\ log'[b][i] = es[i - m]
        /\ batches'[b] = row
    BY <1>1, AppendsLog DEF Inv
  <1>3. ASSUME row.phase \notin RecoveryPhases, NEW i \in 1..(m + n)
        PROVE  log'[b][i].kind # "recovery"
    <2>1. KeepsRecovery(b, es, row)
      BY <1>1, <1>3 DEF Appends, EntersRecovery
    <2>2. batches[b] = NoBatch \/ batches[b].phase \notin RecoveryPhases
      BY <1>3, <2>1 DEF KeepsRecovery
    <2>3. CASE i <= m
      <3>1. i \in 1..m /\ log[b] # <<>> /\ log'[b][i] = log[b][i]
        BY <1>2, <1>3, <2>3
      <3>2. batches[b] # NoBatch
        BY <3>1 DEF Inv, TokenInv
      <3> QED
        BY <2>2, <3>1, <3>2 DEF Inv, RecoveryInv
    <2>4. CASE i > m
      BY <1>2, <1>3, <2>1, <2>4 DEF KeepsRecovery
    <2> QED
      BY <1>2, <1>3, <2>3, <2>4
  <1>4. ASSUME row.phase \in RecoveryPhases
        PROVE  \E i \in 1..(m + n) :
                   /\ log'[b][i].kind = "recovery"
                   /\ log'[b][i].phase = row.phase
                   /\ \A j \in 1..(m + n) : j > i => log'[b][j].kind # "recovery"
    <2>1. CASE EntersRecovery(es, row)
      <3>1. n \in 1..n
        BY <1>2, <2>1, EmptySeq DEF EntersRecovery
      <3>2. m + n \in 1..(m + n) /\ m + n > m /\ (m + n) - m = n
        BY <1>2, <3>1
      <3>3. log'[b][m + n] = es[n]
        BY <1>2, <3>2
      <3>4. \A j \in 1..(m + n) : ~(j > m + n)
        BY <1>2
      <3> QED
        BY <2>1, <3>1, <3>2, <3>3, <3>4 DEF EntersRecovery
    <2>2. CASE KeepsRecovery(b, es, row)
      <3>1. batches[b] # NoBatch /\ batches[b].phase \in RecoveryPhases /\ row.phase = batches[b].phase
        BY <1>4, <2>2 DEF KeepsRecovery
      <3>2. PICK i \in 1..m : /\ log[b][i].kind = "recovery"
                              /\ log[b][i].phase = batches[b].phase
                              /\ \A j \in 1..m : j > i => log[b][j].kind # "recovery"
        BY <3>1 DEF Inv, RecoveryInv
      <3>3. i \in 1..(m + n) /\ log'[b][i] = log[b][i]
        BY <1>2
      <3>4. ASSUME NEW j \in 1..(m + n), j > i
            PROVE  log'[b][j].kind # "recovery"
        <4>1. CASE j <= m
          BY <1>2, <3>2, <3>4, <4>1
        <4>2. CASE j > m
          BY <1>2, <2>2, <4>2 DEF KeepsRecovery
        <4> QED
          BY <1>2, <4>1, <4>2
      <3> QED
        BY <3>1, <3>2, <3>3, <3>4
    <2> QED
      BY <1>1, <2>1, <2>2 DEF Appends
  <1>5. ASSUME NEW c \in Batches, batches'[c] # NoBatch
        PROVE  /\ batches'[c].phase \notin RecoveryPhases =>
                    \A i \in 1..Len(log'[c]) : log'[c][i].kind # "recovery"
               /\ batches'[c].phase \in RecoveryPhases =>
                    \E i \in 1..Len(log'[c]) :
                        /\ log'[c][i].kind = "recovery"
                        /\ log'[c][i].phase = batches'[c].phase
                        /\ \A j \in 1..Len(log'[c]) : j > i => log'[c][j].kind # "recovery"
    <2>1. CASE c = b
      BY <1>2, <1>3, <1>4, <2>1
    <2>2. CASE c # b
      <3>1. log'[c] = log[c] /\ batches'[c] = batches[c]
        BY <1>1, <2>2, AppendsLog DEF Inv
      <3> QED
        BY <1>5, <3>1 DEF Inv, RecoveryInv
    <2> QED
      BY <2>1, <2>2
  <1> QED
    BY <1>5 DEF RecoveryInv

\* Evidence is appended only to a batch without recovery records, and recovery
\* records come after everything that is there.
LEMMA AppendsEvidence ==
  ASSUME Inv, NEW b \in Batches, Operation(b)
  PROVE  EvidencePrecedesRecovery'
  <1>1. PICK t \in 1..MaxFence, es \in Seq(Entries), row \in Rows : Appends(b, t, es, row)
    BY DEF Operation, OperationBy
  <1> SUFFICES ASSUME NEW c \in Batches, NEW i \in DOMAIN log'[c], NEW j \in DOMAIN log'[c],
                      log'[c][i].kind = "recovery", Evidence(log'[c][j])
               PROVE  j < i
    BY DEF EvidencePrecedesRecovery, IsRecoveryRecord, Evidence
  <1>2. CASE c # b
    <2>1. log'[c] = log[c]
      BY <1>1, <1>2, AppendsLog DEF Inv
    <2> QED
      BY <2>1 DEF Inv, EvidencePrecedesRecovery, IsRecoveryRecord, Evidence
  <1>3. CASE c = b
    <2> DEFINE m == Len(log[b])
               n == Len(es)
    <2>1. /\ m \in Nat /\ n \in Nat /\ i \in 1..(m + n) /\ j \in 1..(m + n)
          /\ \A k \in 1..m : log'[b][k] = log[b][k]
          /\ \A k \in 1..(m + n) : k > m => k - m \in 1..n /\ log'[b][k] = es[k - m]
          /\ DOMAIN log[b] = 1..m
      <3>1. DOMAIN log'[b] = 1..(m + n)
        BY <1>1, AppendsLog DEF Inv
      <3>2. i \in 1..(m + n) /\ j \in 1..(m + n)
        BY <1>3, <3>1
      <3>3. log[b] \in Seq(Entries) /\ DOMAIN log[b] = 1..m
        BY LenProperties DEF Inv, TypeOK
      <3>4. /\ m \in Nat /\ n \in Nat
            /\ \A k \in 1..m : log'[b][k] = log[b][k]
            /\ \A k \in 1..(m + n) : k > m => k - m \in 1..n /\ log'[b][k] = es[k - m]
        BY <1>1, AppendsLog DEF Inv
      <3> QED
        BY <3>2, <3>3, <3>4
    <2>2. CASE i <= m /\ j <= m
      BY <1>3, <2>1, <2>2 DEF Inv, EvidencePrecedesRecovery, IsRecoveryRecord, Evidence
    <2>3. CASE i <= m /\ j > m
      <3>1. j - m \in 1..n /\ Evidence(es[j - m]) /\ log[b][i].kind = "recovery" /\ i \in 1..m
        BY <1>3, <2>1, <2>3
      <3>2. es[j - m].kind # "recovery"
        BY <3>1 DEF Evidence
      <3>3. KeepsRecovery(b, es, row)
        BY <1>1, <3>1, <3>2 DEF Appends, EntersRecovery
      <3>4. batches[b] = NoBatch \/ batches[b].phase \notin RecoveryPhases
        BY <3>1, <3>3 DEF KeepsRecovery
      <3>5. batches[b] # NoBatch
        BY <2>1, <3>1, EmptySeq DEF Inv, TokenInv
      <3> QED
        BY <3>1, <3>4, <3>5 DEF Inv, RecoveryInv
    <2>4. CASE i > m /\ j <= m
      BY <2>1, <2>4
    <2>5. CASE i > m /\ j > m
      <3>1. /\ i - m \in 1..n /\ es[i - m].kind = "recovery"
            /\ j - m \in 1..n /\ Evidence(es[j - m])
        BY <1>3, <2>1, <2>5
      <3>2. es[j - m].kind # "recovery"
        BY <3>1 DEF Evidence
      <3> QED
        BY <1>1, <3>1, <3>2 DEF Appends, KeepsRecovery, EntersRecovery
    <2> QED
      BY <2>1, <2>2, <2>3, <2>4, <2>5
  <1> QED
    BY <1>2, <1>3

LEMMA OperationInv ==
  ASSUME Inv, NEW b \in Batches, Operation(b)
  PROVE  Inv'
  BY AppendsTypeOK, AppendsFenced, AppendsTokens, AppendsRecovery, AppendsEvidence DEF Inv

-----------------------------------------------------------------------------
(* Every action is an operation on its batch. *)

\* An accepted write leaves the fencing tokens alone.
LEMMA WriteLease ==
  ASSUME TypeOK, NEW n \in Names, Write(n)
  PROVE  FencedLeaseTypeOK' /\ fence' = fence
  BY FencedLeaseAssumption DEF TypeOK, FencedLeaseTypeOK, Write

LEMMA RowType ==
  ASSUME Inv, NEW b \in Batches, batches[b] # NoBatch
  PROVE  /\ batches[b] \in Rows
         /\ batches[b].lease_name \in Names
         /\ batches[b].lease_fencing_token \in 1..MaxFence
         /\ batches[b].phase \in Phases
         /\ fence[batches[b].lease_name] \in 0..MaxFence
         /\ batches[b].lease_fencing_token <= fence[batches[b].lease_name]
  BY DEF Inv, TypeOK, Rows, FencedLeaseTypeOK, TokenInv

\* Whatever is in the log was written before the holder of the latest grant of
\* the lease writes.
LEMMA CurrentIsLatest ==
  ASSUME Inv, NEW b \in Batches, NEW h \in Handles, CurrentWrite(b, h)
  PROVE  h.fencing_token = fence[h.name] /\ Allowed(b, h)
  <1>1. h.name \in Names /\ h.fencing_token \in Nat
    BY FencedLeaseAssumption DEF Handles
  <1>2. FencedLeaseTypeOK' /\ fence' = fence
    BY <1>1, WriteLease DEF CurrentWrite, Inv
  <1>3. NotAfter(b, h.fencing_token)
    BY DEF CurrentWrite, Inv, TokenInv, NotAfter
  <1> QED
    BY <1>1, <1>2, <1>3 DEF CurrentWrite, Allowed

\* Records of a handle that may write, and a row that follows it.
LEMMA AppendIsOperation ==
  ASSUME Inv, NEW b \in Batches, NEW h \in Handles, NEW es \in Seq(Entries), NEW row \in Rows,
         es # <<>>, Allowed(b, h), Follows(row, h),
         Records(b, es), \A k \in 1..Len(es) : es[k].by = h.fencing_token, SetRow(b, row),
         KeepsRecovery(b, es, row) \/ EntersRecovery(es, row)
  PROVE  OperationBy(b, h.fencing_token)
  <1>1. h.fencing_token \in 1..MaxFence /\ row.lease_fencing_token \in 1..MaxFence
    BY DEF Handles, Rows
  <1>2. row.phase \notin Finished => NotAfter(b, row.lease_fencing_token)
    <2> SUFFICES ASSUME row.phase \notin Finished, NEW i \in 1..Len(log[b])
                 PROVE  log[b][i].by <= row.lease_fencing_token
      BY DEF NotAfter
    <2>1. log[b][i] \in Entries
      BY ElementOfSeq DEF Inv, TypeOK
    <2>2. log[b][i].by \in 1..MaxFence
      BY <2>1 DEF Entries
    <2> QED
      BY SMTT(30), <1>1, <2>2, FencedLeaseAssumption DEF NotAfter, Allowed, Follows
  <1>3. Appends(b, h.fencing_token, es, row)
    BY <1>2 DEF Appends, Records, Allowed, Follows, SetRow
  <1> QED
    BY <1>3 DEF OperationBy, Allowed

\* One record of the handle.
LEMMA OneRecord ==
  ASSUME NEW e \in Entries
  PROVE  <<e>> \in Seq(Entries) /\ Len(<<e>>) = 1 /\ <<e>>[1] = e /\ <<e>> # <<>>
  OBVIOUS

LEMMA TwoRecords ==
  ASSUME NEW e \in Entries, NEW f \in Entries
  PROVE  /\ <<e, f>> \in Seq(Entries) /\ Len(<<e, f>>) = 2
         /\ <<e, f>>[1] = e /\ <<e, f>>[2] = f /\ <<e, f>> # <<>>
  OBVIOUS

\* A recovery record with the new phase of the batch, the row moved along with it.
LEMMA RecoveryRecord ==
  ASSUME Inv, NEW b \in Batches, NEW h \in Handles, NEW phase \in RecoveryPhases, NEW row \in Rows,
         Allowed(b, h), SetRow(b, row),
         row.phase = phase, row.lease_name = h.name, row.lease_fencing_token = h.fencing_token,
         \/ Records(b, <<RecoveryEntry(h, phase)>>)
         \/ \E first \in RecoveryPhases :
                Records(b, <<RecoveryEntry(h, first), RecoveryEntry(h, phase)>>)
  PROVE  OperationBy(b, h.fencing_token)
  <1>1. \A p \in RecoveryPhases : /\ RecoveryEntry(h, p) \in Entries
                                  /\ RecoveryEntry(h, p).by = h.fencing_token
                                  /\ RecoveryEntry(h, p).kind = "recovery"
                                  /\ RecoveryEntry(h, p).phase = p
    BY DEF RecoveryEntry, Entries, Handles
  <1>2. Follows(row, h)
    BY FencedLeaseAssumption DEF Handles, Follows, Allowed
  <1>3. CASE Records(b, <<RecoveryEntry(h, phase)>>)
    <2> DEFINE es == <<RecoveryEntry(h, phase)>>
    <2>1. /\ es \in Seq(Entries) /\ es # <<>> /\ Len(es) = 1
          /\ \A k \in 1..Len(es) : es[k] = RecoveryEntry(h, phase)
      BY <1>1, OneRecord
    <2>2. EntersRecovery(es, row)
      BY <1>1, <2>1 DEF EntersRecovery
    <2> HIDE DEF es
    <2>3. \A k \in 1..Len(es) : es[k].by = h.fencing_token
      BY <1>1, <2>1
    <2>4. Records(b, es)
      BY <1>3 DEF es
    <2> QED
      BY <1>2, <2>1, <2>2, <2>3, <2>4, AppendIsOperation
  <1>4. ASSUME NEW first \in RecoveryPhases,
               Records(b, <<RecoveryEntry(h, first), RecoveryEntry(h, phase)>>)
        PROVE  OperationBy(b, h.fencing_token)
    <2> DEFINE es == <<RecoveryEntry(h, first), RecoveryEntry(h, phase)>>
    <2>1. /\ es \in Seq(Entries) /\ es # <<>> /\ Len(es) = 2
          /\ es[1] = RecoveryEntry(h, first) /\ es[2] = RecoveryEntry(h, phase)
          /\ \A k \in 1..Len(es) : k = 1 \/ k = 2
      BY <1>1, TwoRecords
    <2> HIDE DEF es
    <2>2. EntersRecovery(es, row)
      BY <1>1, <2>1 DEF EntersRecovery
    <2>3. \A k \in 1..Len(es) : es[k].by = h.fencing_token
      BY <1>1, <2>1
    <2>4. Records(b, es)
      BY <1>4 DEF es
    <2> QED
      BY <1>2, <2>1, <2>2, <2>3, <2>4, AppendIsOperation
  <1> QED
    BY <1>3, <1>4

\* One record that is not about the phase of recovery.
LEMMA PlainRecord ==
  ASSUME Inv, NEW b \in Batches, NEW h \in Handles, NEW e \in Entries, NEW row \in Rows,
         Allowed(b, h), Follows(row, h), SetRow(b, row),
         Records(b, <<e>>), e.by = h.fencing_token, e.kind # "recovery",
         IF batches[b].phase \in RecoveryPhases
         THEN row.phase = batches[b].phase /\ ~Evidence(e)
         ELSE row.phase \notin RecoveryPhases
  PROVE  OperationBy(b, h.fencing_token)
  <1> DEFINE es == <<e>>
  <1>1. /\ es \in Seq(Entries) /\ Len(es) = 1
        /\ \A k \in 1..Len(es) : es[k] = e
    BY OneRecord
  <1>2. Records(b, es)
    OBVIOUS
  <1> HIDE DEF es
  <1>3. \A k \in 1..Len(es) : es[k].by = h.fencing_token
    BY <1>1
  <1>4. KeepsRecovery(b, es, row)
    BY <1>1 DEF KeepsRecovery, Allowed
  <1> QED
    BY <1>1, <1>2, <1>3, <1>4, AppendIsOperation

\* The row of a batch that is written without being changed.
LEMMA SameRow ==
  ASSUME Inv, NEW b \in Batches, NEW h \in Handles, CurrentWrite(b, h), UNCHANGED batches,
         Bound(b, h) \/ batches[b].phase \in Finished
  PROVE  /\ batches[b] \in Rows
         /\ SetRow(b, batches[b])
         /\ Follows(batches[b], h)
  <1>1. batches[b] # NoBatch /\ batches[b].lease_name = h.name
    BY DEF CurrentWrite
  <1>2. batches' = [batches EXCEPT ![b] = batches[b]]
    BY DEF Inv, TypeOK
  <1>3. batches[b] \in Rows /\ batches[b].lease_fencing_token <= fence[h.name]
    BY <1>1, RowType
  <1>4. batches[b].phase \notin Finished => h.fencing_token <= batches[b].lease_fencing_token
    BY FencedLeaseAssumption DEF Bound, Handles
  <1> QED
    BY <1>1, <1>2, <1>3, <1>4 DEF SetRow, Follows

\* A row that is written without a record.
LEMMA NoRecord ==
  ASSUME Inv, NEW b \in Batches, NEW row \in Rows, SetRow(b, row), UNCHANGED log,
         FencedLeaseTypeOK', fence' = fence,
         row.lease_fencing_token <= fence[row.lease_name],
         batches[b] # NoBatch =>
             batches[b].phase \notin RecoveryPhases /\ row.lease_name = batches[b].lease_name,
         NotAfter(b, row.lease_fencing_token),
         row.phase \notin RecoveryPhases
  PROVE  OperationBy(b, row.lease_fencing_token)
  <1> DEFINE es == <<>>
  <1>1. es \in Seq(Entries) /\ Len(es) = 0
    BY EmptySeq
  <1>2. log[b] \in Seq(Entries) /\ Len(log[b]) \in Nat /\ Len(log[b]) <= MaxLog
    BY LenProperties DEF Inv, TypeOK
  <1>3. log[b] \o es = log[b]
    BY <1>2, ConcatEmptySeq
  <1>4. log' = [log EXCEPT ![b] = @ \o es]
    BY <1>3 DEF Inv, TypeOK
  <1>5. row.lease_fencing_token \in 1..MaxFence
    BY DEF Rows
  <1>6. KeepsRecovery(b, es, row)
    BY <1>1 DEF KeepsRecovery
  <1>7. Appends(b, row.lease_fencing_token, es, row)
    <2> HIDE DEF es
    <2>1. Len(log[b]) + Len(es) <= MaxLog /\ \A k \in 1..Len(es) : FALSE
      BY <1>1, <1>2
    <2>2. es = <<>>
      BY DEF es
    <2> QED
      BY <1>4, <1>5, <1>6, <2>1, <2>2 DEF Appends, SetRow
  <1> QED
    BY <1>1, <1>7 DEF OperationBy

-----------------------------------------------------------------------------
LEMMA CreateBatchOperation ==
  ASSUME Inv, NEW b \in Batches, NEW h \in Handles, CreateBatch(b, h)
  PROVE  OperationBy(b, h.fencing_token)
  <1> DEFINE row == Rebound(b, h, "planned")
  <1>1. row \in Rows /\ row.lease_name = h.name /\ row.phase = "planned" /\ h.name \in Names
        /\ row.lease_fencing_token = h.fencing_token /\ h.fencing_token \in Nat
    BY FencedLeaseAssumption DEF Rebound, Rows, Handles, Phases
  <1>2. FencedLeaseTypeOK' /\ fence' = fence
    BY <1>1, WriteLease DEF CreateBatch, Inv
  <1>3. SetRow(b, row) /\ UNCHANGED log /\ batches[b] = NoBatch /\ h.fencing_token = fence[h.name]
    BY DEF CreateBatch
  <1>4. NotAfter(b, h.fencing_token)
    BY <1>3, EmptySeq DEF Inv, TokenInv, NotAfter
  <1> HIDE DEF row
  <1> QED
    BY <1>1, <1>2, <1>3, <1>4, NoRecord DEF RecoveryPhases

LEMMA TransitionBatchOperation ==
  ASSUME Inv, NEW b \in Batches, NEW h \in Handles,
         NEW phase \in {"attempting", "succeeded", "failed"}, TransitionBatch(b, h, phase)
  PROVE  OperationBy(b, h.fencing_token)
  <1> DEFINE row == [batches[b] EXCEPT !.phase = phase]
  <1>1. CurrentWrite(b, h) /\ Bound(b, h) /\ ValidTransition(batches[b].phase, phase)
        /\ SetRow(b, row) /\ UNCHANGED log
    BY DEF TransitionBatch, BatchForWrite, SetPhase
  <1>2. Allowed(b, h) /\ h.fencing_token = fence[h.name]
    BY <1>1, CurrentIsLatest
  <1>3. batches[b] \in Rows /\ batches[b].lease_fencing_token = h.fencing_token
    BY <1>1, <1>2, RowType DEF Allowed, Bound
  <1>4. row \in Rows /\ row.lease_name = batches[b].lease_name /\ row.phase = phase
        /\ row.lease_fencing_token = h.fencing_token
    BY <1>3 DEF Rows, Phases
  <1>5. batches[b].phase \notin RecoveryPhases
    BY <1>1 DEF ValidTransition, RecoveryPhases
  <1> HIDE DEF row
  <1> QED
    BY <1>1, <1>2, <1>4, <1>5, NoRecord DEF Allowed, RecoveryPhases

\* Operations and checkpoints of the mutation.
LEMMA EvidenceOperation ==
  ASSUME Inv, NEW b \in Batches, NEW h \in Handles,
         AppendOperation(b, h) \/ RecordCheckpoint(b, h)
  PROVE  OperationBy(b, h.fencing_token)
  <1>1. /\ CurrentWrite(b, h) /\ Bound(b, h) /\ UNCHANGED batches
        /\ batches[b].phase \notin RecoveryPhases
    BY DEF AppendOperation, RecordCheckpoint, BatchForWrite, RecoveryPhases
  <1>2. PICK e \in Entries : Records(b, <<e>>) /\ e.by = h.fencing_token /\ e.kind # "recovery"
    <2> DEFINE o == [kind |-> "operation", by |-> h.fencing_token]
               c == [kind |-> "checkpoint", attempt |-> 0, by |-> h.fencing_token]
    <2>1. o \in Entries /\ c \in Entries
      BY OperationJournalAssumption DEF Entries, Handles
    <2> QED
      BY <2>1 DEF AppendOperation, RecordCheckpoint
  <1> QED
    BY <1>1, <1>2, CurrentIsLatest, SameRow, PlainRecord

LEMMA StartBatchOperationOperation ==
  ASSUME Inv, NEW b \in Batches, NEW h \in Handles, StartBatchOperation(b, h)
  PROVE  OperationBy(b, h.fencing_token)
  <1> DEFINE row == Rebound(b, h, "attempting")
             e == [kind |-> "operation", by |-> h.fencing_token]
  <1>1. CurrentWrite(b, h) /\ SetRow(b, row) /\ Records(b, <<e>>) /\ batches[b].phase = "planned"
    BY DEF StartBatchOperation
  <1>2. Allowed(b, h) /\ h.fencing_token = fence[h.name]
    BY <1>1, CurrentIsLatest
  <1>3. row \in Rows /\ Follows(row, h) /\ row.phase = "attempting"
    BY <1>2, FencedLeaseAssumption DEF Rebound, Rows, Handles, Phases, Follows
  <1>4. e \in Entries /\ e.by = h.fencing_token /\ e.kind # "recovery"
    BY DEF Entries, Handles
  <1> HIDE DEF row, e
  <1> QED
    BY <1>1, <1>2, <1>3, <1>4, PlainRecord DEF RecoveryPhases

\* Checkpoints and actions of a recovery attempt.
LEMMA AttemptRecordOperation ==
  ASSUME Inv, NEW b \in Batches, NEW h \in Handles, NEW a \in 1..MaxLog,
         \/ RecordRecoveryCheckpoint(b, h, a)
         \/ \E x \in Actions, status \in ActionStatuses : RecordAction(b, h, a, x, status)
  PROVE  OperationBy(b, h.fencing_token)
  <1>1. /\ CurrentWrite(b, h) /\ Bound(b, h) /\ UNCHANGED batches
        /\ batches[b].phase = "recovering"
    BY DEF RecordRecoveryCheckpoint, RecordAction, ForRecoveryAttempt, BatchForWrite
  <1>2. a \in 0..MaxLog /\ a # 0
    BY OperationJournalAssumption
  <1>3. PICK e \in Entries : /\ Records(b, <<e>>) /\ e.by = h.fencing_token
                            /\ e.kind # "recovery" /\ ~Evidence(e)
    <2>1. CASE RecordRecoveryCheckpoint(b, h, a)
      <3> DEFINE c == [kind |-> "checkpoint", attempt |-> a, by |-> h.fencing_token]
      <3>1. c \in Entries /\ ~Evidence(c)
        BY <1>2 DEF Entries, Handles, Evidence
      <3> QED
        BY <2>1, <3>1 DEF RecordRecoveryCheckpoint
    <2>2. ASSUME NEW x \in Actions, NEW status \in ActionStatuses, RecordAction(b, h, a, x, status)
          PROVE  \E e \in Entries : /\ Records(b, <<e>>) /\ e.by = h.fencing_token
                                    /\ e.kind # "recovery" /\ ~Evidence(e)
      <3> DEFINE c == [kind |-> "action", attempt |-> a, action |-> x,
                       status |-> status, by |-> h.fencing_token]
      <3>1. c \in Entries /\ ~Evidence(c)
        BY DEF Entries, Handles, Evidence
      <3> QED
        BY <2>2, <3>1 DEF RecordAction
    <2> QED
      BY <2>1, <2>2
  <1> QED
    BY <1>1, <1>3, CurrentIsLatest, SameRow, PlainRecord DEF RecoveryPhases

LEMMA CleanupOperation ==
  ASSUME Inv, NEW b \in Batches, NEW h \in Handles, NEW x \in Artifacts, CleanupStep(b, h, x)
  PROVE  OperationBy(b, h.fencing_token)
  <1>1. /\ CurrentWrite(b, h) /\ UNCHANGED batches
        /\ Bound(b, h) \/ batches[b].phase \in Finished
    BY DEF CleanupStep, PlanCleanup, RecordCleanup, ForCleanup, Finished
  <1>2. PICK e \in Entries : /\ Records(b, <<e>>) /\ e.by = h.fencing_token
                            /\ e.kind # "recovery" /\ ~Evidence(e)
    <2> DEFINE c(trigger, status) == [kind |-> "cleanup", artifact |-> x, trigger |-> trigger,
                                      status |-> status, by |-> h.fencing_token]
    <2>1. \A trigger \in Triggers, status \in ActionStatuses :
              /\ c(trigger, status) \in Entries /\ ~Evidence(c(trigger, status))
              /\ c(trigger, status).by = h.fencing_token /\ c(trigger, status).kind # "recovery"
      BY DEF Entries, Handles, Evidence
    <2>2. \E trigger \in Triggers, status \in ActionStatuses : Records(b, <<c(trigger, status)>>)
      <3>1. ASSUME NEW trigger \in Triggers, PlanCleanup(b, h, x, trigger)
            PROVE  Records(b, <<c(trigger, "planned")>>)
        BY <3>1 DEF PlanCleanup
      <3>2. ASSUME NEW status \in ActionStatuses, RecordCleanup(b, h, x, status)
            PROVE  \E trigger \in Triggers : Records(b, <<c(trigger, status)>>)
        <4>1. PICK i \in DOMAIN log[b] : /\ log[b][i].kind = "cleanup"
                                         /\ Records(b, <<c(log[b][i].trigger, status)>>)
          BY <3>2 DEF RecordCleanup, IsLatestCleanup, IsCleanupRecord
        <4>2. log[b][i] \in Entries
          BY LenProperties, ElementOfSeq DEF Inv, TypeOK
        <4>3. log[b][i].trigger \in Triggers
          BY <4>1, <4>2 DEF Entries
        <4> QED
          BY <4>1, <4>3
      <3> QED
        BY <3>1, <3>2 DEF CleanupStep, ActionStatuses
    <2> HIDE DEF c
    <2> QED
      BY <2>1, <2>2
  <1> QED
    BY <1>1, <1>2, CurrentIsLatest, SameRow, PlainRecord

\* Recovery under the grant the batch is bound to.
LEMMA BoundRecoveryOperation ==
  ASSUME Inv, NEW b \in Batches, NEW h \in Handles, NEW phase \in RecoveryPhases,
         CurrentWrite(b, h), Bound(b, h), SetPhase(b, phase), Records(b, <<RecoveryEntry(h, phase)>>)
  PROVE  OperationBy(b, h.fencing_token)
  <1> DEFINE row == [batches[b] EXCEPT !.phase = phase]
  <1>1. Allowed(b, h)
    BY CurrentIsLatest
  <1>2. batches[b] \in Rows
    BY <1>1, RowType DEF Allowed
  <1>3. /\ row \in Rows /\ row.phase = phase /\ row.lease_name = h.name
        /\ row.lease_fencing_token = h.fencing_token
    BY <1>1, <1>2 DEF Rows, Phases, RecoveryPhases, Bound, Allowed
  <1>4. SetRow(b, row)
    BY DEF SetPhase
  <1> HIDE DEF row
  <1> QED
    BY <1>1, <1>3, <1>4, RecoveryRecord

\* Recovery under a newer grant, to which the row is bound.
LEMMA ReboundRecoveryOperation ==
  ASSUME Inv, NEW b \in Batches, NEW h \in Handles, NEW phase \in RecoveryPhases,
         CurrentWrite(b, h), SetRow(b, Rebound(b, h, phase)),
         \/ Records(b, <<RecoveryEntry(h, phase)>>)
         \/ \E first \in RecoveryPhases :
                Records(b, <<RecoveryEntry(h, first), RecoveryEntry(h, phase)>>)
  PROVE  OperationBy(b, h.fencing_token)
  <1> DEFINE row == Rebound(b, h, phase)
  <1>1. Allowed(b, h)
    BY CurrentIsLatest
  <1>2. /\ row \in Rows /\ row.phase = phase /\ row.lease_name = h.name
        /\ row.lease_fencing_token = h.fencing_token
    BY DEF Rebound, Rows, Handles, Phases, RecoveryPhases
  <1>3. SetRow(b, row)
    OBVIOUS
  <1> HIDE DEF row
  <1> QED
    BY <1>1, <1>2, <1>3, RecoveryRecord

\* The lease-lost marker: the batch is unfinished and still bound to the handle,
\* so nothing later is in its log.
LEMMA LeaseLostOperation ==
  ASSUME Inv, NEW b \in Batches, NEW h \in Handles, RecordLeaseLost(b, h)
  PROVE  OperationBy(b, h.fencing_token)
  <1> DEFINE row == [batches[b] EXCEPT !.phase = "recovery_desired"]
  <1>1. /\ batches[b] # NoBatch /\ batches[b].lease_name = h.name /\ Bound(b, h)
        /\ batches[b].phase \notin Finished /\ UNCHANGED leaseVars
        /\ SetRow(b, row) /\ Records(b, <<RecoveryEntry(h, "recovery_desired")>>)
    BY DEF RecordLeaseLost, Finished, SetPhase
  <1>2. batches[b] \in Rows /\ h.fencing_token <= fence[h.name]
    BY <1>1, RowType DEF Bound
  <1>3. Allowed(b, h)
    <2>1. FencedLeaseTypeOK' /\ fence' = fence
      BY <1>1 DEF Inv, TypeOK, FencedLeaseTypeOK, leaseVars
    <2>2. NotAfter(b, h.fencing_token)
      BY <1>1 DEF Inv, TokenInv, NotAfter, Bound
    <2> QED
      BY <1>1, <1>2, <2>1, <2>2 DEF Allowed
  <1>4. /\ row \in Rows /\ row.phase = "recovery_desired" /\ row.lease_name = h.name
        /\ row.lease_fencing_token = h.fencing_token
    BY <1>1, <1>2 DEF Rows, Phases, Bound
  <1> HIDE DEF row
  <1> QED
    BY <1>1, <1>3, <1>4, RecoveryRecord DEF RecoveryPhases

LEMMA AbandonedOperation ==
  ASSUME Inv, NEW b \in Batches, NEW h \in Handles, RecordAbandonedSucceeded(b, h)
  PROVE  OperationBy(b, h.fencing_token)
  <1> DEFINE row == [batches[b] EXCEPT !.phase = "recovery_desired",
                                       !.lease_fencing_token = h.fencing_token]
  <1>1. CurrentWrite(b, h) /\ SetRow(b, row) /\ Records(b, <<RecoveryEntry(h, "recovery_desired")>>)
    BY DEF RecordAbandonedSucceeded
  <1>2. Allowed(b, h)
    BY <1>1, CurrentIsLatest
  <1>3. batches[b] \in Rows
    BY <1>2, RowType DEF Allowed
  <1>4. /\ row \in Rows /\ row.phase = "recovery_desired" /\ row.lease_name = h.name
        /\ row.lease_fencing_token = h.fencing_token
    BY <1>2, <1>3 DEF Rows, Phases, Allowed, Handles
  <1> HIDE DEF row
  <1> QED
    BY <1>1, <1>2, <1>4, RecoveryRecord DEF RecoveryPhases

LEMMA FinishRecoveryOperation ==
  ASSUME Inv, NEW b \in Batches, NEW h \in Handles, NEW a \in 1..MaxLog,
         NEW outcome \in {"recovery_succeeded", "recovery_failed"}, FinishRecovery(b, h, a, outcome)
  PROVE  OperationBy(b, h.fencing_token)
  BY BoundRecoveryOperation DEF FinishRecovery, BatchForWrite, RecoveryPhases

LEMMA StartRecoveryOperation ==
  ASSUME Inv, NEW b \in Batches, NEW h \in Handles, StartRecovery(b, h)
  PROVE  OperationBy(b, h.fencing_token)
  <1>1. CurrentWrite(b, h) /\ {"recovery_desired", "recovering"} \subseteq RecoveryPhases
    BY DEF StartRecovery, RecoveryPhases
  <1>2. CASE /\ Bound(b, h) /\ SetPhase(b, "recovering")
             /\ Records(b, <<RecoveryEntry(h, "recovering")>>)
    BY <1>1, <1>2, BoundRecoveryOperation
  <1>3. CASE /\ SetRow(b, Rebound(b, h, "recovering"))
             /\ Records(b, <<RecoveryEntry(h, "recovery_desired"), RecoveryEntry(h, "recovering")>>)
    BY <1>1, <1>3, ReboundRecoveryOperation
  <1> QED
    BY <1>2, <1>3 DEF StartRecovery

\* Recovery is asked for, by the grant the batch is bound to or by a newer one.
LEMMA RecoveryDesiredOperation ==
  ASSUME Inv, NEW b \in Batches, NEW h \in Handles,
         RecordRecoveryDesired(b, h) \/ TakeOverRecovery(b, h) \/ RecordInterrupted(b, h)
  PROVE  OperationBy(b, h.fencing_token)
  <1>1. "recovery_desired" \in RecoveryPhases
    BY DEF RecoveryPhases
  <1>2. CASE RecordRecoveryDesired(b, h)
    BY <1>1, <1>2, BoundRecoveryOperation DEF RecordRecoveryDesired, BatchForWrite
  <1>3. CASE TakeOverRecovery(b, h)
    BY <1>1, <1>3, ReboundRecoveryOperation DEF TakeOverRecovery
  <1>4. CASE RecordInterrupted(b, h)
    BY <1>1, <1>4, ReboundRecoveryOperation DEF RecordInterrupted
  <1> QED
    BY <1>2, <1>3, <1>4

LEMMA LeaseStepInv ==
  ASSUME Inv, LeaseStep
  PROVE  Inv'
  <1>1. batches' = batches /\ log' = log
    BY DEF LeaseStep
  <1>2. /\ FencedLeaseTypeOK'
        /\ \A n \in Names : fence[n] \in Nat /\ fence'[n] \in Nat /\ fence[n] <= fence'[n]
    <2>1. CASE \E n \in Names : Grant(n)
      BY <2>1, FencedLeaseAssumption DEF Inv, TypeOK, FencedLeaseTypeOK, Grant, Tenures
    <2>2. CASE \E n \in Names : Renew(n) \/ Revoke(n)
      BY <2>2, FencedLeaseAssumption DEF Inv, TypeOK, FencedLeaseTypeOK, Renew, Revoke, Tenures
    <2>3. CASE \E S \in SUBSET Names : Lapse(S)
      BY <2>3, FencedLeaseAssumption DEF Inv, TypeOK, FencedLeaseTypeOK, Lapse, Tenures
    <2> QED
      BY <2>1, <2>2, <2>3 DEF LeaseStep
  <1>3. TypeOK'
    BY <1>1, <1>2 DEF Inv, TypeOK
  <1>4. TokenInv'
    <2> SUFFICES ASSUME NEW b \in Batches
                 PROVE  /\ batches[b] = NoBatch => log[b] = <<>>
                        /\ batches[b] # NoBatch =>
                            /\ batches[b].lease_fencing_token <= fence'[batches[b].lease_name]
                            /\ \A i \in 1..Len(log[b]) : log[b][i].by <= fence'[batches[b].lease_name]
                            /\ batches[b].phase \notin Finished =>
                                \A i \in 1..Len(log[b]) : log[b][i].by <= batches[b].lease_fencing_token
      BY <1>1 DEF TokenInv
    <2>1. CASE batches[b] = NoBatch
      BY <2>1 DEF Inv, TokenInv
    <2>2. CASE batches[b] # NoBatch
      <3>1. /\ batches[b].lease_name \in Names
            /\ batches[b].lease_fencing_token \in Nat
        BY <2>2, RowType, FencedLeaseAssumption
      <3>2. \A i \in 1..Len(log[b]) : log[b][i].by \in Nat
        <4> TAKE i \in 1..Len(log[b])
        <4>1. log[b][i] \in Entries
          BY ElementOfSeq DEF Inv, TypeOK
        <4>2. log[b][i].by \in 1..MaxFence
          BY <4>1 DEF Entries
        <4> QED
          BY <4>2, FencedLeaseAssumption
      <3> QED
        BY <1>2, <2>2, <3>1, <3>2 DEF Inv, TokenInv
    <2> QED
      BY <2>1, <2>2
  <1> QED
    BY <1>1, <1>3, <1>4
    DEF Inv, LogIsFenced, RecoveryInv, EvidencePrecedesRecovery, IsRecoveryRecord

\* One step of the journal itself.
JournalStep(b, h) ==
    \/ BatchStep(b, h)
    \/ \E a \in 1..MaxLog : AttemptStep(b, h, a)
    \/ \E x \in Artifacts : CleanupStep(b, h, x)

LEMMA JournalStepOperation ==
  ASSUME Inv, NEW b \in Batches, NEW h \in Handles, JournalStep(b, h)
  PROVE  OperationBy(b, h.fencing_token)
  <1>1. CASE BatchStep(b, h)
    BY <1>1, CreateBatchOperation, EvidenceOperation, StartBatchOperationOperation,
       TransitionBatchOperation, RecoveryDesiredOperation, StartRecoveryOperation,
       LeaseLostOperation, AbandonedOperation
    DEF BatchStep
  <1>2. ASSUME NEW a \in 1..MaxLog, AttemptStep(b, h, a)
        PROVE  OperationBy(b, h.fencing_token)
    BY <1>2, AttemptRecordOperation, FinishRecoveryOperation DEF AttemptStep
  <1> QED
    BY <1>1, <1>2, CleanupOperation DEF JournalStep

LEMMA NextInv == Inv /\ [Next]_vars => Inv'
  <1> SUFFICES ASSUME Inv, [Next]_vars
               PROVE  Inv'
    OBVIOUS
  <1>1. CASE LeaseStep
    BY <1>1, LeaseStepInv
  <1>2. ASSUME NEW b \in Batches, NEW h \in Handles, JournalStep(b, h)
        PROVE  Inv'
    BY <1>2, JournalStepOperation, OperationInv DEF Operation, Handles
  <1>3. CASE UNCHANGED vars
    BY <1>3
    DEF vars, leaseVars, Inv, TypeOK, FencedLeaseTypeOK, TokenInv, LogIsFenced, RecoveryInv,
        EvidencePrecedesRecovery, IsRecoveryRecord
  <1> QED
    BY <1>1, <1>2, <1>3 DEF Next, JournalStep

LEMMA SpecInv == Spec => []Inv
  BY InitInv, NextInv, PTL DEF Spec

-----------------------------------------------------------------------------
\* The tables hold what their schemas and the state machine of a batch allow.
THEOREM TypeCorrect == Spec => []TypeOK
  BY SpecInv, PTL DEF Inv

\* A journal is written in the order of the grants: once a later grant has
\* written to a batch, no earlier one ever does (journal_guards.py, and
\* record_lease_lost_recovery_desired).
THEOREM JournalIsFenced == Spec => []LogIsFenced
  BY SpecInv, PTL DEF Inv

\* Recovery is planned from complete evidence: nothing about the mutation is
\* added once recovery was asked for (the phase checks of journal_batch.py).
THEOREM EvidenceIsComplete == Spec => []EvidencePrecedesRecovery
  BY SpecInv, PTL DEF Inv

\* The phase of a batch and its latest recovery record agree, also after a
\* takeover that writes two records at once (journal_recovery.py).
THEOREM PhaseAgrees == Spec => []PhaseMatchesRecords
  <1>1. Inv => PhaseMatchesRecords
    <2> SUFFICES ASSUME Inv, NEW b \in Batches, batches[b] # NoBatch
                 PROVE  /\ \A i \in DOMAIN log[b] :
                             IsLatestRecovery(b, i) => log[b][i].phase = batches[b].phase
                        /\ (\A i \in DOMAIN log[b] : ~IsRecoveryRecord(b, i)) =>
                             batches[b].phase \notin RecoveryPhases
      BY DEF PhaseMatchesRecords
    <2>1. DOMAIN log[b] = 1..Len(log[b]) /\ Len(log[b]) \in Nat
      BY LenProperties DEF Inv, TypeOK
    <2>2. CASE batches[b].phase \notin RecoveryPhases
      BY <2>1, <2>2 DEF Inv, RecoveryInv, IsLatestRecovery, IsRecoveryRecord
    <2>3. CASE batches[b].phase \in RecoveryPhases
      <3>1. PICK k \in 1..Len(log[b]) :
                /\ log[b][k].kind = "recovery"
                /\ log[b][k].phase = batches[b].phase
                /\ \A j \in 1..Len(log[b]) : j > k => log[b][j].kind # "recovery"
        BY <2>3 DEF Inv, RecoveryInv
      <3>2. \A i \in DOMAIN log[b] : IsLatestRecovery(b, i) => i = k
        BY <2>1, <3>1 DEF IsLatestRecovery, IsRecoveryRecord
      <3> QED
        BY <2>1, <3>1, <3>2 DEF IsRecoveryRecord
    <2> QED
      BY <2>2, <2>3
  <1> QED
    BY <1>1, SpecInv, PTL

\* A step of the journal is a write of the latest grant or the lease-lost marker.
LEMMA CurrentOrLeaseLost ==
  ASSUME Inv, NEW b \in Batches, NEW h \in Handles, JournalStep(b, h)
  PROVE  RecordLeaseLost(b, h) \/ h.fencing_token = fence[h.name]
  BY DEF JournalStep, BatchStep, AttemptStep, CleanupStep, CreateBatch, AppendOperation,
         StartBatchOperation, RecordCheckpoint, RecordRecoveryCheckpoint, TransitionBatch,
         RecordRecoveryDesired, TakeOverRecovery, StartRecovery, FinishRecovery,
         RecordInterrupted, RecordAbandonedSucceeded, RecordAction, PlanCleanup, RecordCleanup,
         ForRecoveryAttempt, ForCleanup, BatchForWrite, CurrentWrite

\* The name of the lease a batch is bound to is that of the handle that writes.
LEMMA SameName ==
  ASSUME Inv, NEW b \in Batches, NEW h \in Handles, JournalStep(b, h)
  PROVE  batches'[b].lease_name = h.name
  <1>1. CASE CreateBatch(b, h)
    BY <1>1 DEF CreateBatch, SetRow, Rebound, Inv, TypeOK
  <1>2. CASE ~CreateBatch(b, h)
    <2>1. batches[b] # NoBatch /\ batches[b].lease_name = h.name
      BY <1>2
      DEF JournalStep, BatchStep, AttemptStep, CleanupStep, AppendOperation,
          StartBatchOperation, RecordCheckpoint, RecordRecoveryCheckpoint, TransitionBatch,
          RecordRecoveryDesired, TakeOverRecovery, StartRecovery, FinishRecovery, RecordLeaseLost,
          RecordInterrupted, RecordAbandonedSucceeded, RecordAction, PlanCleanup, RecordCleanup,
          ForRecoveryAttempt, ForCleanup, BatchForWrite, CurrentWrite
    <2>2. PICK es \in Seq(Entries), row \in Rows : Appends(b, h.fencing_token, es, row)
      BY JournalStepOperation DEF OperationBy
    <2> QED
      BY <2>1, <2>2 DEF Appends, Inv, TypeOK
  <1> QED
    BY <1>1, <1>2

\* What a step leaves in the tables shows whose it was.
LEMMA OperationWriter ==
  ASSUME Inv, NEW b \in Batches, NEW t \in 1..MaxFence, OperationBy(b, t)
  PROVE  /\ Writer(b) = t
         /\ \A c \in Batches \ {b} : ~Touched(c)
  <1>1. PICK es \in Seq(Entries), row \in Rows : Appends(b, t, es, row)
    BY DEF OperationBy
  <1>2. CASE es = <<>>
    <2>1. log'[b] = log[b]
      BY <1>1, <1>2, ConcatEmptySeq DEF Appends, Inv, TypeOK
    <2>2. batches'[b].lease_fencing_token = t
      BY <1>1, <1>2 DEF Appends, Inv, TypeOK
    <2> QED
      BY <1>1, <2>1, <2>2, AppendsLog DEF Writer, Touched, Inv
  <1>3. CASE es # <<>>
    <2>1. Len(es) \in Nat /\ Len(es) > 0
      BY <1>3, EmptySeq
    <2>2. /\ Len(log'[b]) = Len(log[b]) + Len(es) /\ Len(log[b]) \in Nat
          /\ DOMAIN log'[b] = 1..(Len(log[b]) + Len(es))
      BY <1>1, AppendsLog DEF Inv
    <2>3. log'[b] # log[b]
      BY <2>1, <2>2
    <2>4. Len(log'[b]) \in DOMAIN log'[b] /\ Len(log'[b]) > Len(log[b])
      BY <2>1, <2>2
    <2>5. log'[b][Len(log'[b])].by = t
      BY <1>1, <2>4, AppendsNew DEF Inv
    <2> QED
      BY <1>1, <2>3, <2>5, AppendsLog DEF Writer, Touched, Inv
  <1> QED
    BY <1>2, <1>3

\* A handle whose lease was taken over changes no batch, but for the lease-lost
\* marker on one that is still bound to it (require_current_lease, and
\* _require_lease_lost_recovery_marker).
THEOREM StaleWritersAreHarmless == Spec => StaleWriterOnlyAsksForRecovery
  <1> DEFINE Harmless(b) ==
        Touched(b) /\ Writer(b) # fence[batches'[b].lease_name] =>
            /\ batches[b] # NoBatch
            /\ batches[b].phase \in {"attempting", "failed", "recovery_failed"}
            /\ batches[b].lease_fencing_token = Writer(b)
            /\ batches' = [batches EXCEPT ![b].phase = "recovery_desired"]
  <1>1. ASSUME Inv, [Next]_vars, NEW b \in Batches
        PROVE  Harmless(b)
    <2>1. CASE LeaseStep \/ UNCHANGED vars
      BY <2>1 DEF LeaseStep, vars, Touched
    <2>2. ASSUME NEW c \in Batches, NEW h \in Handles, JournalStep(c, h)
          PROVE  Harmless(b)
      <3>1. h.fencing_token \in 1..MaxFence
        BY DEF Handles
      <3>2. Writer(c) = h.fencing_token /\ (c # b => ~Touched(b))
        BY <1>1, <2>2, <3>1, JournalStepOperation, OperationWriter
      <3>3. batches'[c].lease_name = h.name
        BY <1>1, <2>2, SameName
      <3>4. CASE h.fencing_token = fence[h.name]
        BY <3>2, <3>3, <3>4
      <3>5. CASE RecordLeaseLost(c, h)
        BY <3>2, <3>5 DEF RecordLeaseLost, Bound, SetPhase, SetRow, Inv, TypeOK
      <3> QED
        BY <1>1, <2>2, <3>4, <3>5, CurrentOrLeaseLost
    <2> QED
      BY <1>1, <2>1, <2>2 DEF Next, JournalStep
  <1>2. Inv /\ [Next]_vars => \A b \in Batches : Harmless(b)
    BY <1>1
  <1> QED
    BY <1>2, SpecInv, PTL DEF Spec, StaleWriterOnlyAsksForRecovery

-----------------------------------------------------------------------------
(* The journal implements the abstract recovery of batches. *)

StageOf(row) ==
    IF row.phase \in {"planned", "attempting", "succeeded", "failed"} THEN "work"
    ELSE IF row.phase = "recovering" THEN "active"
    ELSE IF row.phase = "recovery_succeeded" THEN "done"
    ELSE "pending"

\* A new row is a new abstract stage and a new holder.
LEMMA RowImplements ==
  ASSUME TypeOK, NEW b \in Batches, NEW row \in Rows, SetRow(b, row)
  PROVE  /\ absStage' = [absStage EXCEPT ![b] = StageOf(row)]
         /\ absHolder' = [absHolder EXCEPT ![b] = row.lease_fencing_token]
  <1>1. row # NoBatch
    BY NoBatchAssumption
  <1>2. batches'[b] = row /\ \A c \in Batches \ {b} : batches'[c] = batches[c]
    BY DEF SetRow, TypeOK
  <1>3. absStage' = [absStage EXCEPT ![b] = StageOf(row)]
    BY <1>1, <1>2 DEF absStage, StageOf
  <1>4. absHolder' = [absHolder EXCEPT ![b] = row.lease_fencing_token]
    BY <1>1, <1>2 DEF absHolder
  <1> QED
    BY <1>3, <1>4

\* The abstract state of a batch that has a row.
LEMMA AbstractState ==
  ASSUME Inv, NEW b \in Batches
  PROVE  /\ batches[b] = NoBatch => absStage[b] = "work" /\ absHolder[b] = 0
         /\ batches[b] # NoBatch => /\ absStage[b] = StageOf(batches[b])
                                   /\ absHolder[b] = batches[b].lease_fencing_token
                                   /\ absHolder[b] \in 1..MaxFence
  BY RowType DEF absStage, absHolder, StageOf

\* Creation, the start of the operation and its outcome.
LEMMA WorkImplements ==
  ASSUME Inv, NEW b \in Batches, NEW h \in Handles,
         \/ CreateBatch(b, h)
         \/ StartBatchOperation(b, h)
         \/ \E phase \in {"attempting", "succeeded", "failed"} : TransitionBatch(b, h, phase)
  PROVE  Abstract!BatchRecoveryNext
  <1>1. h.fencing_token \in 1..MaxFence /\ h.name \in Names
    BY DEF Handles
  <1>2. PICK row \in Rows : /\ SetRow(b, row) /\ StageOf(row) = "work"
                           /\ row.lease_fencing_token = h.fencing_token
    <2>1. CASE CreateBatch(b, h) \/ StartBatchOperation(b, h)
      <3>1. PICK phase \in {"planned", "attempting"} : SetRow(b, Rebound(b, h, phase))
        BY <2>1 DEF CreateBatch, StartBatchOperation
      <3>2. Rebound(b, h, phase) \in Rows /\ StageOf(Rebound(b, h, phase)) = "work"
        BY <1>1 DEF Rebound, Rows, Phases, StageOf
      <3> QED
        BY <3>1, <3>2 DEF Rebound
    <2>2. ASSUME NEW phase \in {"attempting", "succeeded", "failed"}, TransitionBatch(b, h, phase)
          PROVE  \E row \in Rows : /\ SetRow(b, row) /\ StageOf(row) = "work"
                                   /\ row.lease_fencing_token = h.fencing_token
      <3> DEFINE row == [batches[b] EXCEPT !.phase = phase]
      <3>1. SetRow(b, row) /\ batches[b] # NoBatch /\ Bound(b, h)
        BY <2>2 DEF TransitionBatch, BatchForWrite, CurrentWrite, SetPhase
      <3>2. row \in Rows /\ row.phase = phase /\ row.lease_fencing_token = h.fencing_token
        BY <3>1, RowType DEF Rows, Phases, Bound
      <3> QED
        BY <3>1, <3>2 DEF StageOf
    <2> QED
      BY <2>1, <2>2
  <1>3. absStage[b] = "work" /\ absHolder[b] <= h.fencing_token
    <2>1. CASE CreateBatch(b, h)
      BY <1>1, <2>1, AbstractState, FencedLeaseAssumption DEF CreateBatch
    <2>2. CASE ~CreateBatch(b, h)
      <3>1. /\ batches[b] # NoBatch
            /\ batches[b].phase \in {"planned", "attempting"}
            /\ Bound(b, h) \/ BoundEarlier(b, h)
        BY <2>2
        DEF StartBatchOperation, TransitionBatch, BatchForWrite, CurrentWrite, ValidTransition
      <3> QED
        BY <1>1, <3>1, AbstractState, FencedLeaseAssumption DEF StageOf, Bound, BoundEarlier
    <2> QED
      BY <2>1, <2>2
  <1>4. Abstract!Work(b, h.fencing_token)
    BY <1>1, <1>2, <1>3, RowImplements, FencedLeaseAssumption
    DEF Abstract!Work, Abstract!BindTo, Abstract!Become, Inv
  <1> QED
    BY <1>1, <1>4 DEF Abstract!BatchRecoveryNext

\* Every way to ask for recovery; it takes over an attempt that is active only
\* under a later grant.
LEMMA AskImplements ==
  ASSUME Inv, NEW b \in Batches, NEW h \in Handles,
         \/ RecordRecoveryDesired(b, h) \/ TakeOverRecovery(b, h) \/ RecordInterrupted(b, h)
         \/ RecordLeaseLost(b, h) \/ RecordAbandonedSucceeded(b, h)
  PROVE  Abstract!BatchRecoveryNext
  <1>1. h.fencing_token \in 1..MaxFence /\ h.name \in Names
    BY DEF Handles
  <1>2. /\ batches[b] # NoBatch
        /\ Bound(b, h) \/ BoundEarlier(b, h)
        /\ batches[b].phase \in {"planned", "attempting", "succeeded", "failed", "recovering",
                                 "recovery_failed"}
        /\ batches[b].phase = "recovering" => BoundEarlier(b, h)
    BY DEF RecordRecoveryDesired, TakeOverRecovery, RecordInterrupted, RecordLeaseLost,
           RecordAbandonedSucceeded, BatchForWrite, CurrentWrite, ValidTransition
  <1>3. PICK row \in Rows : /\ SetRow(b, row) /\ StageOf(row) = "pending"
                           /\ row.lease_fencing_token = h.fencing_token
    <2> DEFINE again == Rebound(b, h, "recovery_desired")
               same == [batches[b] EXCEPT !.phase = "recovery_desired"]
               moved == [batches[b] EXCEPT !.phase = "recovery_desired",
                                           !.lease_fencing_token = h.fencing_token]
    <2>1. batches[b] \in Rows
      BY <1>2, RowType
    <2>2. again \in Rows /\ StageOf(again) = "pending" /\ again.lease_fencing_token = h.fencing_token
      BY <1>1 DEF Rebound, Rows, Phases, StageOf
    <2>3. /\ same \in Rows /\ StageOf(same) = "pending"
          /\ Bound(b, h) => same.lease_fencing_token = h.fencing_token
      BY <2>1 DEF Rows, Phases, StageOf, Bound
    <2>4. moved \in Rows /\ StageOf(moved) = "pending" /\ moved.lease_fencing_token = h.fencing_token
      BY <1>1, <2>1 DEF Rows, Phases, StageOf
    <2>5. SetRow(b, again) \/ (SetRow(b, same) /\ Bound(b, h)) \/ SetRow(b, moved)
      BY DEF RecordRecoveryDesired, TakeOverRecovery, RecordInterrupted, RecordLeaseLost,
             RecordAbandonedSucceeded, BatchForWrite, SetPhase
    <2> HIDE DEF again, same, moved
    <2> QED
      BY <2>2, <2>3, <2>4, <2>5
  <1>4. /\ absHolder[b] <= h.fencing_token
        /\ absStage[b] \in {"work", "pending"} \/ (absStage[b] = "active" /\ absHolder[b] < h.fencing_token)
    BY <1>1, <1>2, AbstractState, FencedLeaseAssumption DEF StageOf, Bound, BoundEarlier
  <1>5. /\ absStage' = [absStage EXCEPT ![b] = "pending"]
        /\ absHolder' = [absHolder EXCEPT ![b] = h.fencing_token]
    BY <1>3, RowImplements DEF Inv
  <1>6. absHolder[b] \in 1..MaxFence
    BY <1>2, AbstractState
  <1>7. Abstract!AskForRecovery(b, h.fencing_token) \/ Abstract!TakeOverAttempt(b, h.fencing_token)
    BY <1>1, <1>4, <1>5, <1>6, FencedLeaseAssumption
    DEF Abstract!AskForRecovery, Abstract!TakeOverAttempt, Abstract!BindTo, Abstract!Become
  <1> QED
    BY <1>1, <1>7 DEF Abstract!BatchRecoveryNext

LEMMA StartImplements ==
  ASSUME Inv, NEW b \in Batches, NEW h \in Handles, StartRecovery(b, h)
  PROVE  Abstract!BatchRecoveryNext
  <1>1. h.fencing_token \in 1..MaxFence /\ h.name \in Names
    BY DEF Handles
  <1>2. /\ batches[b] # NoBatch /\ batches[b].phase = "recovery_desired"
        /\ Bound(b, h) \/ BoundEarlier(b, h)
    BY DEF StartRecovery, CurrentWrite
  <1>3. PICK row \in Rows : /\ SetRow(b, row) /\ StageOf(row) = "active"
                           /\ row.lease_fencing_token = h.fencing_token
    <2> DEFINE again == Rebound(b, h, "recovering")
               same == [batches[b] EXCEPT !.phase = "recovering"]
    <2>1. again \in Rows /\ StageOf(again) = "active" /\ again.lease_fencing_token = h.fencing_token
      BY <1>1 DEF Rebound, Rows, Phases, StageOf
    <2>2. /\ same \in Rows /\ StageOf(same) = "active"
          /\ Bound(b, h) => same.lease_fencing_token = h.fencing_token
      BY <1>2, RowType DEF Rows, Phases, StageOf, Bound
    <2>3. SetRow(b, again) \/ (SetRow(b, same) /\ Bound(b, h))
      BY DEF StartRecovery, SetPhase
    <2> HIDE DEF again, same
    <2> QED
      BY <2>1, <2>2, <2>3
  <1>4. absStage[b] = "pending" /\ absHolder[b] <= h.fencing_token /\ absHolder[b] \in 1..MaxFence
    BY <1>1, <1>2, AbstractState, FencedLeaseAssumption DEF StageOf, Bound, BoundEarlier
  <1>5. Abstract!BeginAttempt(b, h.fencing_token)
    BY <1>1, <1>3, <1>4, RowImplements, FencedLeaseAssumption
    DEF Abstract!BeginAttempt, Abstract!BindTo, Abstract!Become, Inv
  <1> QED
    BY <1>1, <1>5 DEF Abstract!BatchRecoveryNext

LEMMA FinishImplements ==
  ASSUME Inv, NEW b \in Batches, NEW h \in Handles, NEW a \in 1..MaxLog,
         NEW outcome \in {"recovery_succeeded", "recovery_failed"}, FinishRecovery(b, h, a, outcome)
  PROVE  Abstract!BatchRecoveryNext
  <1> DEFINE row == [batches[b] EXCEPT !.phase = outcome]
  <1>1. batches[b] # NoBatch /\ batches[b].phase = "recovering" /\ SetRow(b, row)
    BY DEF FinishRecovery, BatchForWrite, CurrentWrite, ValidTransition, SetPhase
  <1>2. /\ row \in Rows /\ row.phase = outcome
        /\ row.lease_fencing_token = batches[b].lease_fencing_token
    BY <1>1, RowType DEF Rows, Phases
  <1>3. StageOf(row) \in {"pending", "done"}
    BY <1>2 DEF StageOf
  <1>4. absStage[b] = "active" /\ absHolder[b] = row.lease_fencing_token
    BY <1>1, <1>2, AbstractState DEF StageOf
  <1> HIDE DEF row
  <1>5. /\ absStage' = [absStage EXCEPT ![b] = StageOf(row)]
        /\ absHolder' = absHolder
    BY <1>1, <1>2, <1>4, RowImplements DEF Inv, absHolder
  <1>6. Abstract!EndAttempt(b)
    BY <1>3, <1>4, <1>5 DEF Abstract!EndAttempt, Abstract!Become
  <1> QED
    BY <1>6 DEF Abstract!BatchRecoveryNext

\* Batches, with their leases, takeovers and lease-lost markers, are recovered the
\* way BatchRecovery promises: one attempt at a time, bound to ever later grants.
THEOREM JournalImplementsBatchRecovery == Spec => ImplementsBatchRecovery
  <1>1. Init => Abstract!BatchRecoveryInit
    BY DEF Init, Abstract!BatchRecoveryInit, absStage, absHolder
  <1>2. Inv /\ [Next]_vars => [Abstract!BatchRecoveryNext]_(Abstract!recoveryVars)
    <2> SUFFICES ASSUME Inv, [Next]_vars
                 PROVE  Abstract!BatchRecoveryNext \/ UNCHANGED Abstract!recoveryVars
      OBVIOUS
    <2>1. CASE UNCHANGED batches
      BY <2>1 DEF Abstract!recoveryVars, absStage, absHolder
    <2>2. ASSUME NEW b \in Batches, NEW h \in Handles, JournalStep(b, h)
          PROVE  Abstract!BatchRecoveryNext \/ UNCHANGED batches
      <3>1. CASE BatchStep(b, h)
        BY <3>1, WorkImplements, AskImplements, StartImplements
        DEF BatchStep, AppendOperation, RecordCheckpoint
      <3>2. ASSUME NEW a \in 1..MaxLog, AttemptStep(b, h, a)
            PROVE  Abstract!BatchRecoveryNext \/ UNCHANGED batches
        BY <3>2, FinishImplements DEF AttemptStep, RecordRecoveryCheckpoint, RecordAction
      <3>3. ASSUME NEW x \in Artifacts, CleanupStep(b, h, x)
            PROVE  UNCHANGED batches
        BY <3>3 DEF CleanupStep, PlanCleanup, RecordCleanup
      <3> QED
        BY <2>2, <3>1, <3>2, <3>3 DEF JournalStep
    <2>3. LeaseStep \/ UNCHANGED vars => UNCHANGED batches
      BY DEF LeaseStep, vars
    <2> QED
      BY <2>1, <2>2, <2>3 DEF Next, JournalStep
  <1> QED
    BY <1>1, <1>2, SpecInv, PTL DEF Spec, ImplementsBatchRecovery, Abstract!BatchRecoverySpec

-----------------------------------------------------------------------------
(* What the records of recovery attempts and of cleanups may follow.       *)

Outcomes == {"recovery_succeeded", "recovery_failed"}

\* The records that belong to a recovery attempt.
Attached(e) ==
    \/ e.kind = "action"
    \/ e.kind = "checkpoint" /\ e.attempt # 0
    \/ e.kind = "recovery" /\ e.phase \in Outcomes

\* A batch that recovers is bound to the grant that started the attempt.
OwnerInv ==
    \A b \in Batches : \A i \in DOMAIN log[b] :
        batches[b] # NoBatch /\ batches[b].phase = "recovering" /\ IsLatestRecovery(b, i) =>
            log[b][i].by = batches[b].lease_fencing_token

\* No record of an attempt, or a single one of the active attempt.
AttemptRecords(b, h, es) ==
    \/ \A k \in 1..Len(es) : ~Attached(es[k])
    \/ \E e \in Entries, a \in 1..MaxLog :
        /\ es = <<e>> /\ e.by = h.fencing_token
        /\ ForRecoveryAttempt(b, h, a)
        /\ e.kind \in {"action", "checkpoint"} => e.attempt = a

\* Only the start of an attempt makes a batch recovering.
KeepsOwner(b, es) ==
    \/ batches'[b].phase # "recovering"
    \/ batches'[b] = batches[b] /\ \A k \in 1..Len(es) : es[k].kind # "recovery"
    \/ /\ es # <<>> /\ es[Len(es)].kind = "recovery"
       /\ es[Len(es)].by = batches'[b].lease_fencing_token

\* No record of an action or a cleanup, or a single one that may follow.
InOrder(b, es) ==
    \/ \A k \in 1..Len(es) : es[k].kind \notin {"action", "cleanup"}
    \/ \E e \in Entries :
        /\ es = <<e>>
        /\ \/ e.kind = "action" /\ MayRecordAction(b, e.attempt, e.action, e.status)
           \/ /\ e.kind = "cleanup"
              /\ \A i \in DOMAIN log[b] :
                    IsLatestCleanup(b, e.artifact, i) => log[b][i].status \notin {"succeeded", "skipped"}

\* What appending leaves in the logs.
LEMMA RecordsGrow ==
  ASSUME TypeOK, NEW b \in Batches, NEW es \in Seq(Entries), Records(b, es)
  PROVE  /\ Len(log[b]) \in Nat /\ Len(es) \in Nat
         /\ DOMAIN log[b] = 1..Len(log[b])
         /\ DOMAIN log'[b] = 1..(Len(log[b]) + Len(es))
         /\ \A i \in 1..Len(log[b]) : log'[b][i] = log[b][i]
         /\ \A i \in 1..(Len(log[b]) + Len(es)) :
                i > Len(log[b]) => i - Len(log[b]) \in 1..Len(es) /\ log'[b][i] = es[i - Len(log[b])]
         /\ \A c \in Batches \ {b} : log'[c] = log[c]
  <1>1. log[b] \in Seq(Entries) /\ log'[b] = log[b] \o es
    BY DEF TypeOK, Records
  <1>2. Len(log[b]) \in Nat /\ Len(es) \in Nat /\ DOMAIN log[b] = 1..Len(log[b])
    BY <1>1, LenProperties
  <1>3. /\ log[b] \o es \in Seq(Entries)
        /\ Len(log[b] \o es) = Len(log[b]) + Len(es)
        /\ \A i \in 1..(Len(log[b]) + Len(es)) :
               (log[b] \o es)[i] = IF i <= Len(log[b]) THEN log[b][i] ELSE es[i - Len(log[b])]
    BY <1>1, ConcatProperties
  <1>4. DOMAIN log'[b] = 1..(Len(log[b]) + Len(es))
    BY <1>1, <1>3, LenProperties
  <1>5. \A c \in Batches \ {b} : log'[c] = log[c]
    BY DEF TypeOK, Records
  <1> QED
    BY <1>1, <1>2, <1>3, <1>4, <1>5

\* A single record ends up at the end of the log.
LEMMA OneGrows ==
  ASSUME TypeOK, NEW b \in Batches, NEW e \in Entries, Records(b, <<e>>)
  PROVE  /\ Len(log[b]) \in Nat /\ DOMAIN log[b] = 1..Len(log[b])
         /\ DOMAIN log'[b] = 1..(Len(log[b]) + 1)
         /\ \A i \in 1..Len(log[b]) : log'[b][i] = log[b][i]
         /\ log'[b][Len(log[b]) + 1] = e
  <1> DEFINE es == <<e>>
             m == Len(log[b])
  <1>1. es \in Seq(Entries) /\ Len(es) = 1 /\ \A k \in 1..Len(es) : es[k] = e
    BY OneRecord
  <1>2. Records(b, es)
    OBVIOUS
  <1> HIDE DEF es
  <1>3. /\ m \in Nat /\ DOMAIN log[b] = 1..m /\ DOMAIN log'[b] = 1..(m + Len(es))
        /\ \A i \in 1..m : log'[b][i] = log[b][i]
        /\ \A i \in 1..(m + Len(es)) : i > m => i - m \in 1..Len(es) /\ log'[b][i] = es[i - m]
    BY <1>1, <1>2, RecordsGrow
  <1> HIDE DEF m
  <1>4. m + 1 \in 1..(m + Len(es)) /\ m + 1 > m
    BY <1>1, <1>3
  <1>5. log'[b][m + 1] = e
    BY <1>1, <1>3, <1>4
  <1> QED
    BY <1>1, <1>3, <1>5 DEF m

\* A record stays in the attempt it was in.
LEMMA WithinStays ==
  ASSUME TypeOK, NEW b \in Batches, NEW es \in Seq(Entries), Records(b, es),
         NEW j \in DOMAIN log[b], NEW a, WithinAttempt(b, a, j)
  PROVE  WithinAttempt(b, a, j)'
  <1>1. /\ a \in 1..Len(log[b]) /\ j \in 1..Len(log[b]) /\ a < j
        /\ log[b][a] = [kind |-> "recovery", phase |-> "recovering", by |-> log[b][j].by]
        /\ \A i \in 1..Len(log[b]) : a < i /\ i < j => log[b][i].kind # "recovery"
    BY RecordsGrow DEF WithinAttempt, IsRecoveryRecord
  <1>2. a \in DOMAIN log'[b] /\ log'[b][a] = log[b][a] /\ log'[b][j] = log[b][j]
    BY <1>1, RecordsGrow
  <1>3. ASSUME NEW i \in DOMAIN log'[b], a < i, i < j
        PROVE  log'[b][i].kind # "recovery"
    <2>1. i \in 1..Len(log[b])
      BY <1>1, <1>3, RecordsGrow
    <2> QED
      BY <1>1, <1>3, <2>1, RecordsGrow
  <1> QED
    BY <1>1, <1>2, <1>3 DEF WithinAttempt, IsRecoveryRecord

\* A new record of the active attempt is in it.
LEMMA WithinNew ==
  ASSUME TypeOK, OwnerInv, NEW b \in Batches, NEW h \in Handles, NEW a \in 1..MaxLog,
         ForRecoveryAttempt(b, h, a),
         NEW e \in Entries, Records(b, <<e>>), e.by = h.fencing_token,
         NEW j, j = Len(log[b]) + 1
  PROVE  WithinAttempt(b, a, j)'
  <1> DEFINE m == Len(log[b])
  <1>1. /\ m \in Nat /\ DOMAIN log[b] = 1..m /\ DOMAIN log'[b] = 1..(m + 1)
        /\ \A i \in 1..m : log'[b][i] = log[b][i]
        /\ log'[b][m + 1] = e /\ j = m + 1
    BY OneGrows
  <1>2. /\ a \in 1..m /\ log[b][a].kind = "recovery" /\ log[b][a].phase = "recovering"
        /\ \A i \in 1..m : i > a => log[b][i].kind # "recovery"
        /\ IsLatestRecovery(b, a)
    BY <1>1 DEF ForRecoveryAttempt, IsActiveAttempt, IsLatestRecovery, IsRecoveryRecord
  <1>3. batches[b] # NoBatch /\ batches[b].phase = "recovering" /\ Bound(b, h)
    BY DEF ForRecoveryAttempt, BatchForWrite, CurrentWrite
  <1>4. log[b][a].by = h.fencing_token
    BY <1>1, <1>2, <1>3 DEF OwnerInv, Bound
  <1>5. log[b][a] = [kind |-> "recovery", phase |-> "recovering", by |-> h.fencing_token]
    <2>1. log[b][a] \in Entries
      BY <1>2, ElementOfSeq DEF TypeOK
    <2>2. log[b][a] \in [kind : {"recovery"}, phase : RecoveryPhases, by : 1..MaxFence]
      BY <1>2, <2>1 DEF Entries
    <2> QED
      BY <1>2, <1>4, <2>2
  <1>6. a \in DOMAIN log'[b] /\ a < j /\ log'[b][a] = log[b][a] /\ log'[b][j] = e
    BY <1>1, <1>2
  <1>7. ASSUME NEW i \in DOMAIN log'[b], a < i, i < j
        PROVE  log'[b][i].kind # "recovery"
    BY <1>1, <1>2, <1>7
  <1> QED
    BY <1>5, <1>6, <1>7 DEF WithinAttempt, IsRecoveryRecord

LEMMA AttemptsStep ==
  ASSUME TypeOK, OwnerInv, AttemptsAreFenced, NEW b \in Batches, NEW h \in Handles,
         NEW es \in Seq(Entries), Records(b, es), AttemptRecords(b, h, es)
  PROVE  AttemptsAreFenced'
  <1> SUFFICES ASSUME NEW c \in Batches, NEW j \in DOMAIN log'[c]
               PROVE  /\ \/ log'[c][j].kind = "action"
                         \/ log'[c][j].kind = "checkpoint" /\ log'[c][j].attempt # 0
                         => WithinAttempt(c, log[c][j].attempt, j)'
                      /\ log'[c][j].kind = "recovery" /\ log'[c][j].phase \in Outcomes
                         => \E a \in DOMAIN log'[c] : WithinAttempt(c, a, j)'
    BY DEF AttemptsAreFenced, IsRecoveryRecord, Outcomes
  <1>1. CASE c # b
    <2>1. log'[c] = log[c]
      BY <1>1, RecordsGrow
    <2>2. \A a : WithinAttempt(c, a, j)' <=> WithinAttempt(c, a, j)
      BY <2>1 DEF WithinAttempt, IsRecoveryRecord
    <2> QED
      BY <2>1, <2>2 DEF AttemptsAreFenced, IsRecoveryRecord, Outcomes
  <1>2. CASE c = b /\ j \in DOMAIN log[b]
    <2>1. log'[b][j] = log[b][j] /\ DOMAIN log[b] \subseteq DOMAIN log'[b]
      BY <1>2, RecordsGrow
    <2>2. \A a : WithinAttempt(b, a, j) => WithinAttempt(b, a, j)'
      BY <1>2, WithinStays
    <2> QED
      BY <1>2, <2>1, <2>2 DEF AttemptsAreFenced, IsRecoveryRecord, Outcomes
  <1>3. CASE c = b /\ j \notin DOMAIN log[b]
    <2>0. j \in 1..(Len(log[b]) + Len(es)) /\ j \notin 1..Len(log[b])
      BY <1>3, RecordsGrow
    <2>1. j > Len(log[b]) /\ j - Len(log[b]) \in 1..Len(es) /\ log'[b][j] = es[j - Len(log[b])]
      BY <2>0, RecordsGrow
    <2>2. CASE ~Attached(log'[b][j])
      BY <1>3, <2>2 DEF Attached
    <2>3. CASE Attached(log'[b][j])
      <3>1. PICK e \in Entries, a \in 1..MaxLog :
               /\ es = <<e>> /\ e.by = h.fencing_token
               /\ ForRecoveryAttempt(b, h, a)
               /\ e.kind \in {"action", "checkpoint"} => e.attempt = a
        BY <2>1, <2>3 DEF AttemptRecords
      <3>2. j = Len(log[b]) + 1 /\ log'[b][j] = e
        BY <1>3, <3>1, OneGrows
      <3>3. WithinAttempt(b, a, j)'
        BY <3>1, <3>2, WithinNew
      <3>4. a \in DOMAIN log'[b]
        BY <3>3 DEF WithinAttempt
      <3> QED
        BY <1>3, <3>1, <3>2, <3>3, <3>4
    <2> QED
      BY <2>2, <2>3
  <1> QED
    BY <1>1, <1>2, <1>3

LEMMA OwnerStep ==
  ASSUME TypeOK, OwnerInv, NEW b \in Batches, NEW es \in Seq(Entries), Records(b, es),
         \A c \in Batches \ {b} : batches'[c] = batches[c], KeepsOwner(b, es)
  PROVE  OwnerInv'
  <1> SUFFICES ASSUME NEW c \in Batches, NEW i \in DOMAIN log'[c], batches'[c] # NoBatch,
                      batches'[c].phase = "recovering", IsLatestRecovery(c, i)'
               PROVE  log'[c][i].by = batches'[c].lease_fencing_token
    BY DEF OwnerInv
  <1>0. /\ log'[c][i].kind = "recovery"
        /\ \A j \in DOMAIN log'[c] : j > i => log'[c][j].kind # "recovery"
    BY DEF IsLatestRecovery, IsRecoveryRecord
  <1>1. CASE c # b
    <2>1. log'[c] = log[c] /\ batches'[c] = batches[c]
      BY <1>1, RecordsGrow
    <2> QED
      BY <1>0, <2>1 DEF OwnerInv, IsLatestRecovery, IsRecoveryRecord
  <1>2. CASE c = b /\ batches'[b] = batches[b] /\ \A k \in 1..Len(es) : es[k].kind # "recovery"
    <2> DEFINE m == Len(log[b])
    <2>0. /\ m \in Nat /\ Len(es) \in Nat /\ DOMAIN log[b] = 1..m
          /\ DOMAIN log'[b] = 1..(m + Len(es))
          /\ \A k \in 1..m : log'[b][k] = log[b][k]
          /\ \A k \in 1..(m + Len(es)) : k > m => k - m \in 1..Len(es) /\ log'[b][k] = es[k - m]
      BY RecordsGrow
    <2> HIDE DEF m
    <2>1. i \in 1..m /\ log'[b][i] = log[b][i]
      <3>1. i \in 1..(m + Len(es))
        BY <1>2, <2>0
      <3>2. ~(i > m)
        BY <1>0, <1>2, <2>0, <3>1
      <3> QED
        BY <2>0, <3>1, <3>2
    <2>2. ASSUME NEW j \in DOMAIN log[b], j > i
          PROVE  log[b][j].kind # "recovery"
      <3>1. j \in DOMAIN log'[b] /\ log'[b][j] = log[b][j]
        BY <2>0
      <3> QED
        BY <1>0, <1>2, <2>2, <3>1
    <2>3. i \in DOMAIN log[b] /\ log[b][i].kind = "recovery"
      BY <1>0, <1>2, <2>0, <2>1
    <2>4. IsLatestRecovery(b, i)
      BY <2>2, <2>3 DEF IsLatestRecovery, IsRecoveryRecord
    <2>5. batches[b] # NoBatch /\ batches[b].phase = "recovering"
      BY <1>2
    <2>6. log[b][i].by = batches[b].lease_fencing_token
      BY <2>3, <2>4, <2>5 DEF OwnerInv
    <2> QED
      BY <1>2, <2>1, <2>6
  <1>3. CASE /\ c = b /\ es # <<>> /\ es[Len(es)].kind = "recovery"
             /\ es[Len(es)].by = batches'[b].lease_fencing_token
    <2> DEFINE m == Len(log[b])
               n == Len(es)
    <2>1. m \in Nat /\ n \in Nat /\ DOMAIN log'[b] = 1..(m + n)
          /\ \A k \in 1..(m + n) : k > m => log'[b][k] = es[k - m]
      BY RecordsGrow
    <2>2. n > 0
      BY <1>3, <2>1, EmptySeq
    <2> HIDE DEF m
    <2>3. m + n \in 1..(m + n) /\ m + n > m /\ (m + n) - m = n
      BY <2>1, <2>2
    <2>4. log'[b][m + n] = es[n]
      BY <2>1, <2>3
    <2>5. i = m + n
      BY <1>0, <1>3, <2>1, <2>3, <2>4
    <2> QED
      BY <1>3, <2>4, <2>5
  <1> QED
    BY <1>1, <1>2, <1>3 DEF KeepsOwner

LEMMA OrderStep ==
  ASSUME TypeOK, RecordsEndOnce, NEW b \in Batches, NEW es \in Seq(Entries), Records(b, es),
         InOrder(b, es)
  PROVE  RecordsEndOnce'
  <1> SUFFICES ASSUME NEW c \in Batches, NEW i \in DOMAIN log'[c], NEW j \in DOMAIN log'[c], i < j
               PROVE  /\ \A a \in 1..MaxLog, x \in Actions :
                          IsActionRecord(c, a, x, i)' /\ IsActionRecord(c, a, x, j)' =>
                             /\ log'[c][i].status \in {"planned", "attempting"}
                             /\ log'[c][j].status # "planned"
                      /\ \A x \in Artifacts :
                          IsCleanupRecord(c, x, i)' /\ IsCleanupRecord(c, x, j)' =>
                             log'[c][i].status \notin {"succeeded", "skipped"}
    BY DEF RecordsEndOnce
  <1>1. CASE c # b
    <2>1. log'[c] = log[c]
      BY <1>1, RecordsGrow
    <2> QED
      BY <2>1 DEF RecordsEndOnce, IsActionRecord, IsCleanupRecord
  <1>2. CASE c = b /\ j \in DOMAIN log[b]
    <2>1. i \in DOMAIN log[b] /\ log'[b][i] = log[b][i] /\ log'[b][j] = log[b][j]
      BY <1>2, RecordsGrow
    <2> QED
      BY <1>2, <2>1 DEF RecordsEndOnce, IsActionRecord, IsCleanupRecord
  <1>3. CASE c = b /\ j \notin DOMAIN log[b]
    <2>0. j \in 1..(Len(log[b]) + Len(es)) /\ j \notin 1..Len(log[b])
      BY <1>3, RecordsGrow
    <2>1. j > Len(log[b]) /\ j - Len(log[b]) \in 1..Len(es) /\ log'[b][j] = es[j - Len(log[b])]
      BY <2>0, RecordsGrow
    <2>2. CASE log'[b][j].kind \notin {"action", "cleanup"}
      BY <1>3, <2>2 DEF IsActionRecord, IsCleanupRecord
    <2>3. CASE log'[b][j].kind \in {"action", "cleanup"}
      <3>1. PICK e \in Entries :
              /\ es = <<e>>
              /\ \/ e.kind = "action" /\ MayRecordAction(b, e.attempt, e.action, e.status)
                 \/ /\ e.kind = "cleanup"
                    /\ \A k \in DOMAIN log[b] :
                          IsLatestCleanup(b, e.artifact, k) =>
                             log[b][k].status \notin {"succeeded", "skipped"}
        BY <2>1, <2>3 DEF InOrder
      <3>2. j = Len(log[b]) + 1 /\ log'[b][j] = e /\ i \in DOMAIN log[b] /\ log'[b][i] = log[b][i]
        BY <1>3, <3>1, OneGrows
      <3>3. ASSUME NEW a \in 1..MaxLog, NEW x \in Actions,
                   IsActionRecord(b, a, x, i)', IsActionRecord(b, a, x, j)'
            PROVE  /\ log'[b][i].status \in {"planned", "attempting"}
                   /\ log'[b][j].status # "planned"
        <4>1. IsActionRecord(b, a, x, i) /\ MayRecordAction(b, a, x, e.status)
          BY <3>1, <3>2, <3>3 DEF IsActionRecord
        <4>2. PICK k \in DOMAIN log[b] :
                 /\ IsActionRecord(b, a, x, k)
                 /\ \A l \in DOMAIN log[b] : l > k => ~IsActionRecord(b, a, x, l)
                 /\ e.status \in NextActionStatuses(log[b][k].status)
          BY <3>2, <4>1 DEF MayRecordAction
        <4>3. log[b][k].status \in {"planned", "attempting"} /\ e.status # "planned"
          BY <4>2 DEF NextActionStatuses
        <4>4. k \in Nat /\ i \in Nat /\ (i < k \/ i = k \/ i > k)
          BY <3>2, <4>2, RecordsGrow
        <4>5. ~(i > k)
          BY <3>2, <4>1, <4>2
        <4>6. log[b][i].status \in {"planned", "attempting"}
          BY <3>2, <4>1, <4>2, <4>3, <4>4, <4>5 DEF RecordsEndOnce
        <4> QED
          BY <3>2, <4>3, <4>6
      <3>4. ASSUME NEW x \in Artifacts, IsCleanupRecord(b, x, i)', IsCleanupRecord(b, x, j)'
            PROVE  log'[b][i].status \notin {"succeeded", "skipped"}
        <4>1. IsCleanupRecord(b, x, i) /\ e.kind = "cleanup" /\ e.artifact = x
          BY <3>2, <3>4 DEF IsCleanupRecord
        <4>2. CASE IsLatestCleanup(b, x, i)
          BY <3>1, <3>2, <4>1, <4>2
        <4>3. CASE ~IsLatestCleanup(b, x, i)
          <5>1. PICK k \in DOMAIN log[b] : k > i /\ IsCleanupRecord(b, x, k)
            BY <4>1, <4>3 DEF IsLatestCleanup
          <5>2. i < k
            BY <3>2, <5>1, RecordsGrow
          <5> QED
            BY <3>2, <4>1, <5>1, <5>2 DEF RecordsEndOnce
        <4> QED
          BY <4>2, <4>3
      <3> QED
        BY <1>3, <3>3, <3>4
    <2> QED
      BY <2>2, <2>3
  <1> QED
    BY <1>1, <1>2, <1>3

-----------------------------------------------------------------------------
(* Every operation keeps to these orders.                                  *)

KeepsOrder(b, h, es) ==
    /\ Records(b, es) /\ \A c \in Batches \ {b} : batches'[c] = batches[c]
    /\ AttemptRecords(b, h, es) /\ KeepsOwner(b, es) /\ InOrder(b, es)

\* A record of the mutation, or that recovery is wanted, has no place in an order.
Loose(e) ==
    \/ e.kind = "operation"
    \/ e.kind = "checkpoint" /\ e.attempt = 0
    \/ e.kind = "recovery" /\ e.phase = "recovery_desired"

LEMMA SetRowOnly ==
  ASSUME TypeOK, NEW b \in Batches, NEW row, SetRow(b, row)
  PROVE  batches'[b] = row /\ \A c \in Batches \ {b} : batches'[c] = batches[c]
  BY DEF TypeOK, SetRow

LEMMA NoRecordOrder ==
  ASSUME TypeOK, NEW b \in Batches, NEW h \in Handles, NEW row, SetRow(b, row), UNCHANGED log,
         row.phase # "recovering"
  PROVE  \E es \in Seq(Entries) : KeepsOrder(b, h, es)
  <1> DEFINE es == <<>>
  <1>1. es \in Seq(Entries) /\ Len(es) = 0
    BY EmptySeq
  <1>2. Records(b, es)
    <2>1. log[b] \in Seq(Entries) /\ Len(log[b]) \in Nat /\ Len(log[b]) <= MaxLog
      BY LenProperties DEF TypeOK
    <2>2. log[b] \o es = log[b]
      BY <2>1, ConcatEmptySeq
    <2>3. log' = [log EXCEPT ![b] = @ \o es]
      BY <2>2 DEF TypeOK
    <2>4. Len(log[b]) + Len(es) <= MaxLog
      BY <1>1, <2>1
    <2> QED
      BY <2>3, <2>4 DEF Records
  <1> HIDE DEF es
  <1>3. batches'[b].phase # "recovering" /\ \A c \in Batches \ {b} : batches'[c] = batches[c]
    BY SetRowOnly
  <1>4. ~\E k \in 1..Len(es) : TRUE
    BY <1>1
  <1> QED
    BY <1>1, <1>2, <1>3, <1>4 DEF KeepsOrder, AttemptRecords, KeepsOwner, InOrder

LEMMA LooseOrder ==
  ASSUME TypeOK, NEW b \in Batches, NEW h \in Handles, NEW e \in Entries, Loose(e),
         Records(b, <<e>>), \A c \in Batches \ {b} : batches'[c] = batches[c],
         batches'[b].phase # "recovering"
  PROVE  \E es \in Seq(Entries) : KeepsOrder(b, h, es)
  <1> DEFINE es == <<e>>
  <1>1. es \in Seq(Entries) /\ Len(es) = 1 /\ \A k \in 1..Len(es) : es[k] = e
    BY OneRecord
  <1>2. Records(b, es)
    OBVIOUS
  <1>3. ~Attached(e) /\ e.kind \notin {"action", "cleanup"}
    BY DEF Loose, Attached, Outcomes
  <1> HIDE DEF es
  <1> QED
    BY <1>1, <1>2, <1>3 DEF KeepsOrder, AttemptRecords, KeepsOwner, InOrder

LEMMA RecoveryEntryType ==
  ASSUME NEW h \in Handles, NEW phase \in RecoveryPhases
  PROVE  /\ RecoveryEntry(h, phase) \in Entries /\ RecoveryEntry(h, phase).kind = "recovery"
         /\ RecoveryEntry(h, phase).phase = phase /\ RecoveryEntry(h, phase).by = h.fencing_token
  BY DEF RecoveryEntry, Entries, Handles

\* Everything but the start and the records of an attempt and the cleanups.
LEMMA QuietOrder ==
  ASSUME TypeOK, NEW b \in Batches, NEW h \in Handles, BatchStep(b, h), ~StartRecovery(b, h)
  PROVE  \E es \in Seq(Entries) : KeepsOrder(b, h, es)
  <1> DEFINE o == [kind |-> "operation", by |-> h.fencing_token]
             c == [kind |-> "checkpoint", attempt |-> 0, by |-> h.fencing_token]
             d == RecoveryEntry(h, "recovery_desired")
  <1>1. /\ o \in Entries /\ Loose(o) /\ c \in Entries /\ Loose(c)
    BY OperationJournalAssumption DEF Entries, Handles, Loose
  <1>2. /\ d \in Entries /\ Loose(d) /\ ~Attached(d) /\ d.kind = "recovery"
    BY RecoveryEntryType DEF RecoveryPhases, Loose, Attached, Outcomes
  <1>3. batches[b] # NoBatch => batches[b] \in Rows
    BY DEF TypeOK
  <1> HIDE DEF o, c, d
  <1>4. CASE CreateBatch(b, h)
    <2>1. Rebound(b, h, "planned").phase # "recovering"
      BY DEF Rebound
    <2> QED
      BY <1>4, <2>1, NoRecordOrder DEF CreateBatch
  <1>5. CASE AppendOperation(b, h) \/ RecordCheckpoint(b, h)
    <2>1. /\ UNCHANGED batches /\ batches[b].phase # "recovering"
          /\ Records(b, <<o>>) \/ Records(b, <<c>>)
      BY <1>5 DEF AppendOperation, RecordCheckpoint, o, c
    <2> QED
      BY <1>1, <2>1, LooseOrder
  <1>6. CASE StartBatchOperation(b, h)
    <2>1. Records(b, <<o>>) /\ SetRow(b, Rebound(b, h, "attempting"))
      BY <1>6 DEF StartBatchOperation, o
    <2>2. Rebound(b, h, "attempting").phase # "recovering"
      BY DEF Rebound
    <2> QED
      BY <1>1, <2>1, <2>2, LooseOrder, SetRowOnly
  <1>7. ASSUME NEW phase \in {"attempting", "succeeded", "failed"}, TransitionBatch(b, h, phase)
        PROVE  \E es \in Seq(Entries) : KeepsOrder(b, h, es)
    <2> DEFINE row == [batches[b] EXCEPT !.phase = phase]
    <2>1. SetRow(b, row) /\ UNCHANGED log /\ batches[b] # NoBatch
      BY <1>7 DEF TransitionBatch, SetPhase, BatchForWrite, CurrentWrite
    <2>2. row.phase # "recovering"
      BY <1>3, <1>7, <2>1 DEF Rows
    <2> HIDE DEF row
    <2> QED
      BY <2>1, <2>2, NoRecordOrder
  <1>8. CASE RecordRecoveryDesired(b, h) \/ RecordLeaseLost(b, h)
    <2> DEFINE row == [batches[b] EXCEPT !.phase = "recovery_desired"]
    <2>1. SetRow(b, row) /\ Records(b, <<d>>) /\ batches[b] # NoBatch
      BY <1>8 DEF RecordRecoveryDesired, RecordLeaseLost, SetPhase, BatchForWrite, CurrentWrite, d
    <2>2. row.phase # "recovering"
      BY <1>3, <2>1 DEF Rows
    <2> HIDE DEF row
    <2> QED
      BY <1>2, <2>1, <2>2, LooseOrder, SetRowOnly
  <1>9. CASE RecordInterrupted(b, h)
    <2>1. Records(b, <<d>>) /\ SetRow(b, Rebound(b, h, "recovery_desired"))
      BY <1>9 DEF RecordInterrupted, d
    <2>2. Rebound(b, h, "recovery_desired").phase # "recovering"
      BY DEF Rebound
    <2> QED
      BY <1>2, <2>1, <2>2, LooseOrder, SetRowOnly
  <1>10. CASE RecordAbandonedSucceeded(b, h)
    <2> DEFINE row == [batches[b] EXCEPT !.phase = "recovery_desired",
                                         !.lease_fencing_token = h.fencing_token]
    <2>1. SetRow(b, row) /\ Records(b, <<d>>) /\ batches[b] # NoBatch
      BY <1>10 DEF RecordAbandonedSucceeded, CurrentWrite, d
    <2>2. row.phase # "recovering"
      BY <1>3, <2>1 DEF Rows
    <2> HIDE DEF row
    <2> QED
      BY <1>2, <2>1, <2>2, LooseOrder, SetRowOnly
  <1>11. CASE TakeOverRecovery(b, h)
    <2> DEFINE es == <<d, d>>
    <2>1. es \in Seq(Entries) /\ Len(es) = 2 /\ \A k \in 1..Len(es) : es[k] = d
      BY <1>2, TwoRecords
    <2>2. Records(b, es) /\ SetRow(b, Rebound(b, h, "recovery_desired"))
      BY <1>11 DEF TakeOverRecovery, d
    <2>3. Rebound(b, h, "recovery_desired").phase # "recovering"
      BY DEF Rebound
    <2> HIDE DEF es
    <2> QED
      BY <1>2, <2>1, <2>2, <2>3, SetRowOnly DEF KeepsOrder, AttemptRecords, KeepsOwner, InOrder
  <1> QED
    BY <1>4, <1>5, <1>6, <1>7, <1>8, <1>9, <1>10, <1>11 DEF BatchStep

LEMMA StartOrder ==
  ASSUME TypeOK, NEW b \in Batches, NEW h \in Handles, StartRecovery(b, h)
  PROVE  \E es \in Seq(Entries) : KeepsOrder(b, h, es)
  <1> DEFINE d == RecoveryEntry(h, "recovery_desired")
             r == RecoveryEntry(h, "recovering")
  <1>1. /\ d \in Entries /\ ~Attached(d) /\ d.kind = "recovery"
        /\ r \in Entries /\ ~Attached(r) /\ r.kind = "recovery" /\ r.by = h.fencing_token
    BY RecoveryEntryType DEF RecoveryPhases, Attached, Outcomes
  <1>2. batches[b] # NoBatch => batches[b] \in Rows
    BY DEF TypeOK
  <1> HIDE DEF d, r
  <1>3. CASE Bound(b, h) /\ SetPhase(b, "recovering") /\ Records(b, <<r>>) /\ batches[b] # NoBatch
    <2> DEFINE es == <<r>>
               row == [batches[b] EXCEPT !.phase = "recovering"]
    <2>1. es \in Seq(Entries) /\ Len(es) = 1 /\ es # <<>> /\ \A k \in 1..Len(es) : es[k] = r
      BY <1>1, OneRecord
    <2>2. Records(b, es) /\ SetRow(b, row) /\ row.lease_fencing_token = h.fencing_token
      BY <1>2, <1>3 DEF SetPhase, Bound, Rows
    <2> HIDE DEF es, row
    <2> QED
      BY <1>1, <2>1, <2>2, SetRowOnly DEF KeepsOrder, AttemptRecords, KeepsOwner, InOrder
  <1>4. CASE SetRow(b, Rebound(b, h, "recovering")) /\ Records(b, <<d, r>>)
    <2> DEFINE es == <<d, r>>
               row == Rebound(b, h, "recovering")
    <2>1. /\ es \in Seq(Entries) /\ Len(es) = 2 /\ es # <<>> /\ es[1] = d /\ es[2] = r
          /\ \A k \in 1..Len(es) : es[k] \in {d, r}
      BY <1>1, TwoRecords
    <2>2. Records(b, es) /\ SetRow(b, row) /\ row.lease_fencing_token = h.fencing_token
      BY <1>4 DEF Rebound
    <2> HIDE DEF es, row
    <2>3. batches'[b] = row /\ \A c \in Batches \ {b} : batches'[c] = batches[c]
      BY <2>2, SetRowOnly
    <2>4. \A k \in 1..Len(es) : ~Attached(es[k]) /\ es[k].kind = "recovery"
      BY <1>1, <2>1
    <2>5. es[Len(es)].kind = "recovery" /\ es[Len(es)].by = batches'[b].lease_fencing_token
      BY <1>1, <2>1, <2>2, <2>3
    <2> QED
      BY <2>1, <2>2, <2>3, <2>4, <2>5 DEF KeepsOrder, AttemptRecords, KeepsOwner, InOrder
  <1> QED
    BY <1>3, <1>4 DEF StartRecovery, CurrentWrite, d, r

LEMMA AttemptOrder ==
  ASSUME TypeOK, NEW b \in Batches, NEW h \in Handles, NEW a \in 1..MaxLog, AttemptStep(b, h, a)
  PROVE  \E es \in Seq(Entries) : KeepsOrder(b, h, es)
  <1>1. ASSUME NEW e \in Entries, Records(b, <<e>>), e.by = h.fencing_token,
               ForRecoveryAttempt(b, h, a), e.kind \in {"action", "checkpoint"} => e.attempt = a,
               \A c \in Batches \ {b} : batches'[c] = batches[c],
               batches'[b].phase # "recovering" \/ (batches'[b] = batches[b] /\ e.kind # "recovery"),
               e.kind # "cleanup",
               e.kind = "action" => MayRecordAction(b, e.attempt, e.action, e.status)
        PROVE  \E es \in Seq(Entries) : KeepsOrder(b, h, es)
    <2> DEFINE es == <<e>>
    <2>1. es \in Seq(Entries) /\ Len(es) = 1 /\ \A k \in 1..Len(es) : es[k] = e
      BY OneRecord
    <2>2. Records(b, es) /\ AttemptRecords(b, h, es)
      BY <1>1 DEF AttemptRecords
    <2>3. KeepsOwner(b, es)
      BY <1>1, <2>1 DEF KeepsOwner
    <2>4. InOrder(b, es)
      BY <1>1, <2>1 DEF InOrder
    <2> HIDE DEF es
    <2> QED
      BY <1>1, <2>1, <2>2, <2>3, <2>4 DEF KeepsOrder
  <1>2. CASE RecordRecoveryCheckpoint(b, h, a)
    <2> DEFINE e == [kind |-> "checkpoint", attempt |-> a, by |-> h.fencing_token]
    <2>1. a \in 0..MaxLog
      BY OperationJournalAssumption
    <2>2. e \in Entries /\ e.by = h.fencing_token /\ e.kind = "checkpoint" /\ e.attempt = a
      BY <2>1 DEF Entries, Handles
    <2>3. Records(b, <<e>>) /\ ForRecoveryAttempt(b, h, a) /\ UNCHANGED batches
      BY <1>2 DEF RecordRecoveryCheckpoint
    <2> HIDE DEF e
    <2> QED
      BY <1>1, <2>2, <2>3
  <1>3. ASSUME NEW x \in Actions, NEW status \in ActionStatuses, RecordAction(b, h, a, x, status)
        PROVE  \E es \in Seq(Entries) : KeepsOrder(b, h, es)
    <2> DEFINE e == [kind |-> "action", attempt |-> a, action |-> x,
                     status |-> status, by |-> h.fencing_token]
    <2>1. /\ e \in Entries /\ e.by = h.fencing_token /\ e.kind = "action" /\ e.attempt = a
          /\ e.action = x /\ e.status = status
      BY DEF Entries, Handles
    <2>2. /\ Records(b, <<e>>) /\ ForRecoveryAttempt(b, h, a) /\ UNCHANGED batches
          /\ MayRecordAction(b, a, x, status)
      BY <1>3 DEF RecordAction
    <2> HIDE DEF e
    <2> QED
      BY <1>1, <2>1, <2>2
  <1>4. ASSUME NEW outcome \in Outcomes, FinishRecovery(b, h, a, outcome)
        PROVE  \E es \in Seq(Entries) : KeepsOrder(b, h, es)
    <2> DEFINE e == RecoveryEntry(h, outcome)
               row == [batches[b] EXCEPT !.phase = outcome]
    <2>1. e \in Entries /\ e.by = h.fencing_token /\ e.kind = "recovery"
      BY RecoveryEntryType DEF Outcomes, RecoveryPhases
    <2>2. /\ Records(b, <<e>>) /\ SetRow(b, row) /\ BatchForWrite(b, h) /\ IsActiveAttempt(b, a)
          /\ ValidTransition(batches[b].phase, outcome)
      BY <1>4 DEF FinishRecovery, SetPhase
    <2>3. batches[b] \in Rows
      BY <2>2 DEF BatchForWrite, CurrentWrite, TypeOK
    <2>4. row.phase = outcome /\ outcome # "recovering"
      BY <2>3 DEF Rows, Outcomes
    <2>5. batches[b].phase = "recovering"
      BY <2>2, <2>3 DEF ValidTransition, Rows, Phases, Outcomes
    <2> HIDE DEF e, row
    <2> QED
      BY <1>1, <2>1, <2>2, <2>4, <2>5, SetRowOnly DEF ForRecoveryAttempt
  <1> QED
    BY <1>2, <1>3, <1>4 DEF AttemptStep, Outcomes

LEMMA CleanupOrder ==
  ASSUME TypeOK, NEW b \in Batches, NEW h \in Handles, NEW x \in Artifacts, CleanupStep(b, h, x)
  PROVE  \E es \in Seq(Entries) : KeepsOrder(b, h, es)
  <1>1. PICK trigger \in Triggers, status \in ActionStatuses :
           /\ Records(b, <<[kind |-> "cleanup", artifact |-> x, trigger |-> trigger,
                            status |-> status, by |-> h.fencing_token]>>)
           /\ \A i \in DOMAIN log[b] :
                 IsLatestCleanup(b, x, i) => log[b][i].status \notin {"succeeded", "skipped"}
    <2>1. ASSUME NEW trigger \in Triggers, PlanCleanup(b, h, x, trigger)
          PROVE  /\ Records(b, <<[kind |-> "cleanup", artifact |-> x, trigger |-> trigger,
                                  status |-> "planned", by |-> h.fencing_token]>>)
                 /\ \A i \in DOMAIN log[b] :
                       IsLatestCleanup(b, x, i) => log[b][i].status \notin {"succeeded", "skipped"}
      BY <2>1 DEF PlanCleanup
    <2>2. ASSUME NEW status \in ActionStatuses, RecordCleanup(b, h, x, status)
          PROVE  \E trigger \in Triggers :
                   /\ Records(b, <<[kind |-> "cleanup", artifact |-> x, trigger |-> trigger,
                                    status |-> status, by |-> h.fencing_token]>>)
                   /\ \A i \in DOMAIN log[b] :
                         IsLatestCleanup(b, x, i) => log[b][i].status \notin {"succeeded", "skipped"}
      <3>1. PICK k \in DOMAIN log[b] :
               /\ IsLatestCleanup(b, x, k)
               /\ status \in NextCleanupStatuses(log[b][k].status)
               /\ Records(b, <<[kind |-> "cleanup", artifact |-> x, trigger |-> log[b][k].trigger,
                                status |-> status, by |-> h.fencing_token]>>)
        BY <2>2 DEF RecordCleanup
      <3>2. log[b][k] \in Entries /\ DOMAIN log[b] = 1..Len(log[b]) /\ Len(log[b]) \in Nat
        BY LenProperties, ElementOfSeq DEF TypeOK
      <3>3. log[b][k].trigger \in Triggers
        BY <3>1, <3>2 DEF Entries, IsLatestCleanup, IsCleanupRecord
      <3>4. log[b][k].status \notin {"succeeded", "skipped"}
        BY <3>1 DEF NextCleanupStatuses
      <3>5. \A i \in DOMAIN log[b] : IsLatestCleanup(b, x, i) => i = k
        BY <3>1, <3>2 DEF IsLatestCleanup
      <3> QED
        BY <3>1, <3>3, <3>4, <3>5
    <2> QED
      BY <2>1, <2>2 DEF CleanupStep, ActionStatuses
  <1> DEFINE e == [kind |-> "cleanup", artifact |-> x, trigger |-> trigger,
                   status |-> status, by |-> h.fencing_token]
             es == <<e>>
  <1>2. e \in Entries /\ e.kind = "cleanup" /\ e.artifact = x
    BY DEF Entries, Handles
  <1>3. Records(b, es)
    BY <1>1
  <1> HIDE DEF e
  <1>4. es \in Seq(Entries) /\ Len(es) = 1 /\ \A k \in 1..Len(es) : es[k] = e
    BY <1>2, OneRecord
  <1>5. InOrder(b, es)
    BY <1>1, <1>2 DEF InOrder
  <1>6. UNCHANGED batches
    BY DEF CleanupStep, PlanCleanup, RecordCleanup
  <1>7. \A k \in 1..Len(es) : ~Attached(es[k]) /\ es[k].kind # "recovery"
    BY <1>2, <1>4 DEF Attached
  <1> HIDE DEF es
  <1> QED
    BY <1>3, <1>4, <1>5, <1>6, <1>7 DEF KeepsOrder, AttemptRecords, KeepsOwner

OrderInv == AttemptsAreFenced /\ OwnerInv /\ RecordsEndOnce

LEMMA OrderNext ==
  ASSUME TypeOK, OrderInv, [Next]_vars
  PROVE  OrderInv'
  <1>1. ASSUME NEW b \in Batches, NEW h \in Handles, JournalStep(b, h)
        PROVE  OrderInv'
    <2>1. PICK es \in Seq(Entries) : KeepsOrder(b, h, es)
      BY <1>1, QuietOrder, StartOrder, AttemptOrder, CleanupOrder DEF JournalStep
    <2> QED
      BY <2>1, AttemptsStep, OwnerStep, OrderStep DEF KeepsOrder, OrderInv
  <1>2. CASE UNCHANGED <<batches, log>>
    BY <1>2 DEF OrderInv, AttemptsAreFenced, WithinAttempt, OwnerInv, RecordsEndOnce, IsRecoveryRecord,
                IsLatestRecovery, IsActionRecord, IsCleanupRecord
  <1> QED
    BY <1>1, <1>2 DEF Next, JournalStep, LeaseStep, vars

LEMMA SpecOrder == Spec => []OrderInv
  <1>1. Init => OrderInv
    <2> SUFFICES ASSUME Init PROVE OrderInv
      OBVIOUS
    <2>1. \A b \in Batches : log[b] = <<>> /\ DOMAIN log[b] = {} /\ batches[b] = NoBatch
      BY DEF Init
    <2> QED
      BY <2>1 DEF OrderInv, AttemptsAreFenced, OwnerInv, RecordsEndOnce, IsRecoveryRecord
  <1>2. Inv /\ OrderInv /\ [Next]_vars => OrderInv'
    BY OrderNext DEF Inv
  <1> QED
    BY <1>1, <1>2, SpecInv, PTL DEF Spec

\* Completing or re-queuing a recovery fences off its attempt: its actions and
\* checkpoints are recorded by the grant that started it, before it was finished or
\* taken over (_require_active_recovery_attempt in journal_guards.py).
THEOREM AttemptsStayFenced == Spec => []AttemptsAreFenced
  BY SpecOrder, PTL DEF OrderInv

\* A replay can tell intended from finished work: within an attempt an action is
\* planned once and ends once, and a removed or skipped artifact is never cleaned up
\* again (journal_recovery_actions.py, journal_artifact_cleanup.py).
THEOREM WorkIsDoneOnce == Spec => []RecordsEndOnce
  BY SpecOrder, PTL DEF OrderInv

=============================================================================
