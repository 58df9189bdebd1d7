-------------------------- MODULE OperationJournal --------------------------
(***************************************************************************)
(* operation_journal: durable batches of intent, their append-only journal *)
(* and their recovery attempts, written under the leases of FencedLease.   *)
(*                                                                         *)
(* A handle is a LeaseRecord some process still has in memory.  Fencing    *)
(* tokens are unique per name (LeaseStore!UniqueFences), so name and       *)
(* fencing token identify it.  Any handle ever granted may call any        *)
(* operation at any time: a process that was suspended, or whose lease was *)
(* taken over, is simply one whose handle is no longer the latest.         *)
(*                                                                         *)
(* Each action is one BEGIN IMMEDIATE transaction.  A refused operation    *)
(* raises, rolls back and changes nothing, so it is not an action.  A      *)
(* repeated create_batch with a known idempotency key returns the stored   *)
(* batch unchanged: batch identifiers stand for idempotency keys.  Every   *)
(* batch has one resource key, so mismatches of resource keys are left out.*)
(***************************************************************************)
EXTENDS FencedLease, Sequences

CONSTANTS
    Batches,    \* batch identifiers
    Actions,    \* recovery action identifiers
    Artifacts,  \* artifact identifiers of artifact cleanup records
    MaxLog,     \* bound on the number of journal records of one batch
    NoBatch     \* a batch identifier with no row in operation_batches

ASSUME OperationJournalAssumption == MaxLog \in Nat

-----------------------------------------------------------------------------
Phases == {"planned", "attempting", "succeeded", "failed", "recovery_desired",
           "recovering", "recovery_succeeded", "recovery_failed"}

RecoveryPhases ==
    {"recovery_desired", "recovering", "recovery_succeeded", "recovery_failed"}

Handles == [name : Names, fencing_token : 1..MaxFence]

\* authority is the fencing token of the lease whose owner and token digest the
\* row stores.
Rows ==
    [lease_name : Names, lease_fencing_token : 1..MaxFence,
     authority : 1..MaxFence, phase : Phases]

ASSUME NoBatchAssumption == NoBatch \notin Rows

ActionStatuses ==
    {"planned", "attempting", "succeeded", "failed", "skipped", "manual"}

Triggers == {"deferred_cleanup", "commit_cleanup", "recovery_cleanup"}

\* The five journal tables share one sequence per batch, so they are one log.
\* "by" is the fencing token of the writing handle; a recovery attempt is known
\* by the sequence number of its "recovering" record, 0 stands for none.
Entries ==
    [kind : {"operation"}, by : 1..MaxFence]
    \cup [kind : {"checkpoint"}, attempt : 0..MaxLog, by : 1..MaxFence]
    \cup [kind : {"recovery"}, phase : RecoveryPhases, by : 1..MaxFence]
    \cup [kind : {"action"}, attempt : 1..MaxLog, action : Actions,
          status : ActionStatuses, by : 1..MaxFence]
    \cup [kind : {"cleanup"}, artifact : Artifacts, trigger : Triggers,
          status : ActionStatuses, by : 1..MaxFence]

VARIABLES
    batches,    \* the table operation_batches
    log         \* log[b]: the journal records of b in sequence order

vars == <<leaseVars, batches, log>>

-----------------------------------------------------------------------------
(* Guards of journal_guards.py *)

\* _VALID_TRANSITIONS
ValidTransition(from, to) ==
    to \in CASE from = "planned" -> {"attempting"}
             [] from = "attempting" -> {"succeeded", "failed"}
             [] from = "failed" -> {"recovery_desired"}
             [] from = "recovery_desired" -> {"recovering"}
             [] from = "recovering" -> {"recovery_succeeded", "recovery_failed"}
             [] from = "recovery_failed" -> {"recovery_desired"}
             [] OTHER -> {}

\* Mutant of CurrentWrite: any lease that was once granted may write.
CurrentWrite_AnyLease(b, h) ==
    /\ h.fencing_token <= fence[h.name]
    /\ Write(h.name)
    /\ batches[b] # NoBatch
    /\ batches[b].lease_name = h.name

\* require_current_lease followed by a read of the batch row.
CurrentWrite(b, h) ==
    /\ h.fencing_token = fence[h.name]
    /\ Write(h.name)
    /\ batches[b] # NoBatch
    /\ batches[b].lease_name = h.name

Bound(b, h) == batches[b].lease_fencing_token = h.fencing_token

BoundEarlier(b, h) == batches[b].lease_fencing_token < h.fencing_token

\* _require_batch_for_write
BatchForWrite(b, h) == CurrentWrite(b, h) /\ Bound(b, h)

IsRecoveryRecord(b, i) == i \in DOMAIN log[b] /\ log[b][i].kind = "recovery"

\* _latest_recovery_row
IsLatestRecovery(b, i) ==
    /\ IsRecoveryRecord(b, i)
    /\ \A j \in DOMAIN log[b] : j > i => log[b][j].kind # "recovery"

\* Mutant of IsActiveAttempt: any attempt of the batch will do.
IsActiveAttempt_AnyAttempt(b, a) == IsRecoveryRecord(b, a) /\ log[b][a].phase = "recovering"

\* _require_active_recovery_attempt
IsActiveAttempt(b, a) ==
    /\ IsLatestRecovery(b, a)
    /\ log[b][a].phase = "recovering"

\* _require_batch_for_recovery_action_write.  Under a newer lease it records a
\* takeover first, which makes no attempt active, so the transaction rolls back.
ForRecoveryAttempt(b, h, a) ==
    /\ BatchForWrite(b, h)
    /\ batches[b].phase = "recovering"
    /\ IsActiveAttempt(b, a)

-----------------------------------------------------------------------------
RecoveryEntry(h, phase) == [kind |-> "recovery", phase |-> phase, by |-> h.fencing_token]

\* The batch row bound to the lease of h: the UPDATE of a takeover handoff.
Rebound(b, h, phase) ==
    [lease_name |-> h.name, lease_fencing_token |-> h.fencing_token,
     authority |-> h.fencing_token, phase |-> phase]

Records(b, entries) ==
    /\ Len(log[b]) + Len(entries) <= MaxLog
    /\ log' = [log EXCEPT ![b] = @ \o entries]

SetRow(b, row) == batches' = [batches EXCEPT ![b] = row]

SetPhase(b, phase) == SetRow(b, [batches[b] EXCEPT !.phase = phase])

-----------------------------------------------------------------------------
(* Batches and their evidence: journal_batch.py *)

\* Mutant of CreateBatch: the row is not bound to the lease.
CreateBatch_Unbound(b, h) ==
    /\ h.fencing_token = fence[h.name]
    /\ Write(h.name)
    /\ batches[b] = NoBatch
    /\ SetRow(b, [Rebound(b, h, "planned") EXCEPT !.lease_fencing_token = 0])
    /\ UNCHANGED log

CreateBatch(b, h) ==
    /\ h.fencing_token = fence[h.name]
    /\ Write(h.name)
    /\ batches[b] = NoBatch
    /\ SetRow(b, Rebound(b, h, "planned"))
    /\ UNCHANGED log

AppendOperation(b, h) ==
    /\ BatchForWrite(b, h)
    /\ batches[b].phase \in {"planned", "attempting"}
    /\ Records(b, <<[kind |-> "operation", by |-> h.fencing_token]>>)
    /\ UNCHANGED batches

\* A newer lease may start a batch whose creator died before starting it.
StartBatchOperation(b, h) ==
    /\ CurrentWrite(b, h)
    /\ batches[b].phase = "planned"
    /\ Bound(b, h) \/ BoundEarlier(b, h)
    /\ log[b] = <<>>
    /\ SetRow(b, Rebound(b, h, "attempting"))
    /\ Records(b, <<[kind |-> "operation", by |-> h.fencing_token]>>)

\* Mutant of RecordCheckpoint: the phase of the batch is not checked.
RecordCheckpoint_AnyPhase(b, h) ==
    /\ BatchForWrite(b, h)
    /\ Records(b, <<[kind |-> "checkpoint", attempt |-> 0, by |-> h.fencing_token]>>)
    /\ UNCHANGED batches

RecordCheckpoint(b, h) ==
    /\ BatchForWrite(b, h)
    /\ batches[b].phase \in {"planned", "attempting"}
    /\ Records(b, <<[kind |-> "checkpoint", attempt |-> 0, by |-> h.fencing_token]>>)
    /\ UNCHANGED batches

\* record_checkpoint with a recovery_attempt_id
RecordRecoveryCheckpoint(b, h, a) ==
    /\ ForRecoveryAttempt(b, h, a)
    /\ Records(b, <<[kind |-> "checkpoint", attempt |-> a, by |-> h.fencing_token]>>)
    /\ UNCHANGED batches

\* mark_attempting, mark_succeeded, mark_failed
TransitionBatch(b, h, phase) ==
    /\ BatchForWrite(b, h)
    /\ ValidTransition(batches[b].phase, phase)
    /\ SetPhase(b, phase)
    /\ UNCHANGED log

-----------------------------------------------------------------------------
(* Recovery: journal_recovery.py *)

\* record_recovery_desired by the lease the batch is bound to.
RecordRecoveryDesired(b, h) ==
    /\ BatchForWrite(b, h)
    /\ \/ ValidTransition(batches[b].phase, "recovery_desired")
       \/ batches[b].phase = "succeeded"
    /\ SetPhase(b, "recovery_desired")
    /\ Records(b, <<RecoveryEntry(h, "recovery_desired")>>)

\* Mutant of TakeOverRecovery: the handoff is recorded, the phase is forgotten.
TakeOverRecovery_HandoffOnly(b, h) ==
    /\ CurrentWrite(b, h)
    /\ BoundEarlier(b, h)
    /\ batches[b].phase \in {"failed", "recovering", "recovery_failed"}
    /\ SetRow(b, Rebound(b, h, batches[b].phase))
    /\ Records(b, <<RecoveryEntry(h, "recovery_desired")>>)

\* record_recovery_desired by a newer lease: a takeover handoff and the record.
TakeOverRecovery(b, h) ==
    /\ CurrentWrite(b, h)
    /\ BoundEarlier(b, h)
    /\ batches[b].phase \in {"failed", "recovering", "recovery_failed"}
    /\ SetRow(b, Rebound(b, h, "recovery_desired"))
    /\ Records(b, <<RecoveryEntry(h, "recovery_desired"), RecoveryEntry(h, "recovery_desired")>>)

StartRecovery(b, h) ==
    /\ CurrentWrite(b, h)
    /\ batches[b].phase = "recovery_desired"
    /\ \/ /\ Bound(b, h)
          /\ SetPhase(b, "recovering")
          /\ Records(b, <<RecoveryEntry(h, "recovering")>>)
       \/ /\ BoundEarlier(b, h)
          /\ SetRow(b, Rebound(b, h, "recovering"))
          /\ Records(b, <<RecoveryEntry(h, "recovery_desired"), RecoveryEntry(h, "recovering")>>)

\* record_recovery_succeeded, record_recovery_failed
FinishRecovery(b, h, a, outcome) ==
    /\ BatchForWrite(b, h)
    /\ ValidTransition(batches[b].phase, outcome)
    /\ IsActiveAttempt(b, a)
    /\ SetPhase(b, outcome)
    /\ Records(b, <<RecoveryEntry(h, outcome)>>)

\* Mutant of RecordInterrupted: the phase of the batch is not checked.
RecordInterrupted_AnyPhase(b, h) ==
    /\ CurrentWrite(b, h)
    /\ BoundEarlier(b, h)
    /\ SetRow(b, Rebound(b, h, "recovery_desired"))
    /\ Records(b, <<RecoveryEntry(h, "recovery_desired")>>)

\* record_interrupted_recovery_desired: a newer lease takes over the batch.
RecordInterrupted(b, h) ==
    /\ CurrentWrite(b, h)
    /\ BoundEarlier(b, h)
    /\ batches[b].phase \in {"planned", "attempting", "failed", "recovery_failed"}
    /\ batches[b].phase = "planned" => log[b] # <<>>
    /\ SetRow(b, Rebound(b, h, "recovery_desired"))
    /\ Records(b, <<RecoveryEntry(h, "recovery_desired")>>)

\* Mutant of RecordLeaseLost: the batch may meanwhile be bound to a later lease.
RecordLeaseLost_Unbound(b, h) ==
    /\ h.fencing_token < fence[h.name]
    /\ batches[b] # NoBatch
    /\ batches[b].phase \in {"attempting", "failed", "recovery_failed"}
    /\ SetPhase(b, "recovery_desired")
    /\ Records(b, <<RecoveryEntry(h, "recovery_desired")>>)
    /\ UNCHANGED leaseVars

\* record_lease_lost_recovery_desired: the one write that needs a lease some
\* clock sample finds expired, released or superseded.
RecordLeaseLost(b, h) ==
    /\ h.fencing_token = fence[h.name] => tenure[h.name] # "held"
    /\ batches[b] # NoBatch
    /\ batches[b].lease_name = h.name
    /\ Bound(b, h)
    /\ batches[b].authority = h.fencing_token
    /\ batches[b].phase \in {"attempting", "failed", "recovery_failed"}
    /\ SetPhase(b, "recovery_desired")
    /\ Records(b, <<RecoveryEntry(h, "recovery_desired")>>)
    /\ UNCHANGED leaseVars

\* workspace_rollback.py: replay rebinds an abandoned succeeded batch, leaving
\* the stored owner and token digest of the earlier lease.
RecordAbandonedSucceeded(b, h) ==
    /\ CurrentWrite(b, h)
    /\ batches[b].phase = "succeeded"
    /\ Bound(b, h) \/ BoundEarlier(b, h)
    /\ SetRow(b, [batches[b] EXCEPT !.phase = "recovery_desired",
                                    !.lease_fencing_token = h.fencing_token])
    /\ Records(b, <<RecoveryEntry(h, "recovery_desired")>>)

-----------------------------------------------------------------------------
(* Recovery actions: journal_recovery_actions.py *)

\* _RECOVERY_ACTION_TRANSITIONS
NextActionStatuses(status) ==
    CASE status = "planned" -> {"attempting", "skipped", "manual"}
      [] status = "attempting" -> {"succeeded", "failed", "skipped", "manual"}
      [] OTHER -> {}

IsActionRecord(b, a, x, i) ==
    /\ i \in DOMAIN log[b]
    /\ log[b][i].kind = "action"
    /\ log[b][i].attempt = a
    /\ log[b][i].action = x

\* _prepare_recovery_action_write
MayRecordAction(b, a, x, status) ==
    \/ /\ status = "planned"
       /\ \A i \in DOMAIN log[b] : ~IsActionRecord(b, a, x, i)
    \/ \E i \in DOMAIN log[b] :
        /\ IsActionRecord(b, a, x, i)
        /\ \A j \in DOMAIN log[b] : j > i => ~IsActionRecord(b, a, x, j)
        /\ status \in NextActionStatuses(log[b][i].status)

RecordAction(b, h, a, x, status) ==
    /\ ForRecoveryAttempt(b, h, a)
    /\ MayRecordAction(b, a, x, status)
    /\ Records(b, <<[kind |-> "action", attempt |-> a, action |-> x,
                     status |-> status, by |-> h.fencing_token]>>)
    /\ UNCHANGED batches

-----------------------------------------------------------------------------
(* Artifact cleanup: journal_artifact_cleanup.py *)

\* _ARTIFACT_CLEANUP_TRANSITIONS
NextCleanupStatuses(status) ==
    CASE status = "planned" -> ActionStatuses \ {"planned"}
      [] status = "attempting" -> {"succeeded", "failed", "skipped", "manual"}
      [] OTHER -> {}

\* _BATCH_PHASE_BY_TRIGGER
TriggerPhase(trigger) ==
    CASE trigger = "deferred_cleanup" -> "attempting"
      [] trigger = "commit_cleanup" -> "succeeded"
      [] trigger = "recovery_cleanup" -> "recovery_succeeded"

IsCleanupRecord(b, x, i) ==
    /\ i \in DOMAIN log[b]
    /\ log[b][i].kind = "cleanup"
    /\ log[b][i].artifact = x

IsLatestCleanup(b, x, i) ==
    /\ IsCleanupRecord(b, x, i)
    /\ \A j \in DOMAIN log[b] : j > i => ~IsCleanupRecord(b, x, j)

\* _require_batch_for_artifact_cleanup_write: a newer lease may clean up after
\* a finished batch without rebinding it.
ForCleanup(b, h) ==
    /\ CurrentWrite(b, h)
    /\ \/ Bound(b, h)
       \/ BoundEarlier(b, h) /\ batches[b].phase \in {"succeeded", "recovery_succeeded"}

\* Mutant of PlanCleanup: whatever is not active may be planned again.
PlanCleanup_Again(b, h, x, trigger) ==
    /\ ForCleanup(b, h)
    /\ \A i \in DOMAIN log[b] :
        IsLatestCleanup(b, x, i) => log[b][i].status \notin {"planned", "attempting"}
    /\ batches[b].phase = TriggerPhase(trigger)
    /\ Records(b, <<[kind |-> "cleanup", artifact |-> x, trigger |-> trigger,
                     status |-> "planned", by |-> h.fencing_token]>>)
    /\ UNCHANGED batches

\* _prepare_artifact_cleanup_write for status "planned": a first record, or the
\* retry of a failed cleanup, possibly under another trigger.
PlanCleanup(b, h, x, trigger) ==
    /\ ForCleanup(b, h)
    /\ \A i \in DOMAIN log[b] :
        IsLatestCleanup(b, x, i) => log[b][i].status \in {"failed", "manual"}
    /\ batches[b].phase = TriggerPhase(trigger)
    /\ Records(b, <<[kind |-> "cleanup", artifact |-> x, trigger |-> trigger,
                     status |-> "planned", by |-> h.fencing_token]>>)
    /\ UNCHANGED batches

\* The other statuses keep the trigger and do not look at the batch's phase.
RecordCleanup(b, h, x, status) ==
    /\ ForCleanup(b, h)
    /\ \E i \in DOMAIN log[b] :
        /\ IsLatestCleanup(b, x, i)
        /\ status \in NextCleanupStatuses(log[b][i].status)
        /\ Records(b, <<[kind |-> "cleanup", artifact |-> x, trigger |-> log[b][i].trigger,
                         status |-> status, by |-> h.fencing_token]>>)
    /\ UNCHANGED batches

-----------------------------------------------------------------------------
Init ==
    /\ FencedLeaseInit
    /\ batches = [b \in Batches |-> NoBatch]
    /\ log = [b \in Batches |-> <<>>]

LeaseStep ==
    /\ \/ \E n \in Names : Grant(n) \/ Renew(n) \/ Revoke(n)
       \/ \E S \in SUBSET Names : Lapse(S)
    /\ UNCHANGED <<batches, log>>

BatchStep(b, h) ==
    \/ CreateBatch(b, h)
    \/ AppendOperation(b, h)
    \/ StartBatchOperation(b, h)
    \/ RecordCheckpoint(b, h)
    \/ \E phase \in {"attempting", "succeeded", "failed"} : TransitionBatch(b, h, phase)
    \/ RecordRecoveryDesired(b, h)
    \/ TakeOverRecovery(b, h)
    \/ StartRecovery(b, h)
    \/ RecordInterrupted(b, h)
    \/ RecordLeaseLost(b, h)
    \/ RecordAbandonedSucceeded(b, h)

AttemptStep(b, h, a) ==
    \/ RecordRecoveryCheckpoint(b, h, a)
    \/ \E outcome \in {"recovery_succeeded", "recovery_failed"} : FinishRecovery(b, h, a, outcome)
    \/ \E x \in Actions, status \in ActionStatuses : RecordAction(b, h, a, x, status)

CleanupStep(b, h, x) ==
    \/ \E trigger \in Triggers : PlanCleanup(b, h, x, trigger)
    \/ \E status \in ActionStatuses \ {"planned"} : RecordCleanup(b, h, x, status)

Next ==
    \/ LeaseStep
    \/ \E b \in Batches, h \in Handles :
        \/ BatchStep(b, h)
        \/ \E a \in 1..MaxLog : AttemptStep(b, h, a)
        \/ \E x \in Artifacts : CleanupStep(b, h, x)

Spec == Init /\ [][Next]_vars

-----------------------------------------------------------------------------
(* Properties *)

TypeOK ==
    /\ FencedLeaseTypeOK
    /\ batches \in [Batches -> Rows \cup {NoBatch}]
    /\ log \in [Batches -> Seq(Entries)]
    /\ \A b \in Batches : Len(log[b]) <= MaxLog

\* Once a later grant has written to the journal of a batch, no earlier grant
\* ever does, not even with the lease-lost marker that needs no current lease.
LogIsFenced ==
    \A b \in Batches : \A i, j \in DOMAIN log[b] : i < j => log[b][i].by <= log[b][j].by

\* The phase a reader of operation_batches sees and the latest record a reader
\* of operation_recovery_records sees never disagree, takeovers included.
PhaseMatchesRecords ==
    \A b \in Batches : batches[b] # NoBatch =>
        /\ \A i \in DOMAIN log[b] :
            IsLatestRecovery(b, i) => log[b][i].phase = batches[b].phase
        /\ (\A i \in DOMAIN log[b] : ~IsRecoveryRecord(b, i)) =>
            batches[b].phase \notin RecoveryPhases

\* Position j of the log of b lies within the recovery attempt a: a is a
\* "recovering" record and no recovery record lies between the two.
WithinAttempt(b, a, j) ==
    /\ a \in DOMAIN log[b]
    /\ a < j
    /\ log[b][a] = [kind |-> "recovery", phase |-> "recovering", by |-> log[b][j].by]
    /\ \A i \in DOMAIN log[b] : a < i /\ i < j => ~IsRecoveryRecord(b, i)

\* "Completing or re-queuing recovery fences off the prior attempt": recovery
\* actions and recovery checkpoints are written by the grant that started the
\* attempt they name, before that attempt was finished or taken over, and no
\* attempt is finished twice or by somebody else.
AttemptsAreFenced ==
    \A b \in Batches : \A j \in DOMAIN log[b] :
        /\ \/ log[b][j].kind = "action"
           \/ log[b][j].kind = "checkpoint" /\ log[b][j].attempt # 0
           => WithinAttempt(b, log[b][j].attempt, j)
        /\ IsRecoveryRecord(b, j) /\ log[b][j].phase \in {"recovery_succeeded", "recovery_failed"}
           => \E a \in DOMAIN log[b] : WithinAttempt(b, a, j)

\* "Recovery only acts from recorded evidence": no operation and no checkpoint
\* of the mutation is added once recovery was asked for.
EvidencePrecedesRecovery ==
    \A b \in Batches : \A i, j \in DOMAIN log[b] :
        /\ IsRecoveryRecord(b, i)
        /\ \/ log[b][j].kind = "operation"
           \/ log[b][j].kind = "checkpoint" /\ log[b][j].attempt = 0
        => j < i

\* A replay that reads the log can tell intended work from finished work: within an
\* attempt an action is planned once and ends once, and a removed or skipped
\* artifact is never cleaned up again, whichever grant retries it.
RecordsEndOnce ==
    \A b \in Batches : \A i, j \in DOMAIN log[b] : i < j =>
        /\ \A a \in 1..MaxLog, x \in Actions :
            IsActionRecord(b, a, x, i) /\ IsActionRecord(b, a, x, j) =>
                log[b][i].status \in {"planned", "attempting"} /\ log[b][j].status # "planned"
        /\ \A x \in Artifacts :
            IsCleanupRecord(b, x, i) /\ IsCleanupRecord(b, x, j) =>
                log[b][i].status \notin {"succeeded", "skipped"}

\* The fencing token of the handle that made a step on b: every step but a
\* creation or a phase transition leaves a record.
Writer(b) ==
    IF log'[b] # log[b] THEN log'[b][Len(log'[b])].by ELSE batches'[b].lease_fencing_token

Touched(b) == log'[b] # log[b] \/ batches'[b] # batches[b]

\* A handle whose lease was taken over changes no batch, except that it may ask
\* for the recovery of a batch that is still bound to it.
StaleWriterOnlyAsksForRecovery ==
    [][\A b \in Batches : Touched(b) /\ Writer(b) # fence[batches'[b].lease_name] =>
        /\ batches[b] # NoBatch
        /\ batches[b].phase \in {"attempting", "failed", "recovery_failed"}
        /\ batches[b].lease_fencing_token = Writer(b)
        /\ batches' = [batches EXCEPT ![b].phase = "recovery_desired"]]_vars

-----------------------------------------------------------------------------
(* Refinement of the abstract recovery of a batch. *)

absStage ==
    [b \in Batches |->
        IF batches[b] = NoBatch THEN "work"
        ELSE IF batches[b].phase \in {"planned", "attempting", "succeeded", "failed"} THEN "work"
        ELSE IF batches[b].phase = "recovering" THEN "active"
        ELSE IF batches[b].phase = "recovery_succeeded" THEN "done"
        ELSE "pending"]

absHolder ==
    [b \in Batches |-> IF batches[b] = NoBatch THEN 0 ELSE batches[b].lease_fencing_token]

Abstract == INSTANCE BatchRecovery WITH stage <- absStage, holder <- absHolder

\* The journal implements the abstract recovery of batches.
ImplementsBatchRecovery == Abstract!BatchRecoverySpec
=============================================================================
