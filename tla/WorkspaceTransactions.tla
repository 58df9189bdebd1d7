----------------------- MODULE WorkspaceTransactions -----------------------
(***************************************************************************)
(* Transactions of a workspace and the recovery of those that end badly.   *)
(*                                                                         *)
(* Every actor runs under a grant of the workspace lease of its own and is *)
(* known by the fencing token of that grant.  An actor is                  *)
(*   - a SafeTransaction: it claims its files in sorted order, journals    *)
(*     and performs file writes, and commits, rolls back or hands its      *)
(*     claims to recovery,                                                 *)
(*   - recover_pending_workspace_batches, or                               *)
(*   - cleanup_outstanding_workspace_artifacts.                            *)
(* A transaction has one lease for its whole life, so its claim scope (a   *)
(* fresh uuid in the code) is its fencing token here.                      *)
(*                                                                         *)
(* The claim table, the journal, the backup artifacts and the files        *)
(* themselves are durable; what an actor remembers is lost when it         *)
(* crashes.  An actor may also stall at any point while its lease lapses   *)
(* and others go on, and then resume.  All workspaces use one owner name.  *)
(*                                                                         *)
(* Abstracted: a file's content is the number of the batch that wrote it,  *)
(* 0 for the state before all transactions, or Foreign for an edit by      *)
(* another program.  Phase failed is folded into recovery_desired (every   *)
(* reader here treats them alike), and a batch's recovery actions into the *)
(* one action a file batch has.  Module OperationJournal has the details.  *)
(***************************************************************************)
EXTENDS FencedLease, FiniteSets, Sequences

CONSTANTS
    Workspace,      \* the lease name of the workspace
    Files,          \* the files a transaction claims, in sorted order
    Created,        \* those that do not exist before the first write
    Automatic,      \* the grants under which rollback="automatic", not "record-only"
    Sweeps,         \* TRUE when cleanup_outstanding_artifacts may run
    MaxBatches,     \* bound on the number of batches
    MaxEdits,       \* bound on the edits by other programs
    Foreign,        \* the content another program writes
    Renewed,        \* the content before a batch, put back by a restore
    None            \* no claim, no content

ASSUME WorkspaceTransactionsAssumption ==
    /\ Names = {Workspace}
    /\ Files \subseteq Nat
    /\ IsFiniteSet(Files)
    /\ Created \subseteq Files
    /\ Automatic \subseteq Nat
    /\ Sweeps \in BOOLEAN
    /\ MaxBatches \in Nat
    /\ MaxEdits \in Nat
    /\ Foreign \notin Nat
    /\ Renewed \notin Nat \cup {Foreign}
    /\ None \notin Nat \cup {Foreign, Renewed}

VARIABLES
    claims,     \* claims[f]: the transaction that claims f, or None
    batches,    \* the journal: batches in the order of their creation
    disk,       \* disk[f]: content of f
    edits,      \* number of edits by other programs so far
    actor,      \* actor[k]: what the holder of grant k is doing
    listed,     \* listed[p]: batches of phase p listed for a cleanup to come
    committed,  \* transactions whose clean exit has reached artifact cleanup
    late        \* history: batches whose file a superseded actor has written

wsVars == <<leaseVars, claims, batches, disk, edits, actor, listed, committed, late>>

Actors == 1..MaxFence
BatchIds == 1..MaxBatches
Contents == {0, Foreign} \cup BatchIds
Phases == {"planned", "attempting", "succeeded", "recovery_desired",
           "recovering", "recovery_succeeded", "recovery_failed"}
CleanedPhases == {"succeeded", "recovery_succeeded"}
Unfinished == {"attempting", "recovery_desired", "recovering", "recovery_failed"}

\* proof: the rollback evidence recorded before the mutation (nothing, the
\* backup checkpoint, or also the expected_after checkpoint).
\* after: the after checkpoint.  failure: the snapshot in the latest failure
\* payload; preparing: that failure was one of stage prepare_checkpoints.
\* seen: the failure checkpoint.  renewed: since the before snapshot a restore
\* has written the file, which gives it the old content under a new identity
\* (inode and mtime): a snapshot of that content is Renewed.
\* rewritten: history, the restore of this batch has written the file.
\* cleaning: the latest cleanup record of the artifact is "attempting".
Snapshots == Contents \cup {Renewed}
Batches == [tx : Actors, file : Files, phase : Phases, bound : Actors,
            before : Contents, proof : {"none", "backup", "full"},
            artifact : BOOLEAN, after : Contents \cup {None},
            failure : Snapshots \cup {None}, preparing : BOOLEAN,
            seen : Contents \cup {None}, renewed : BOOLEAN, rewritten : BOOLEAN,
            cleaning : BOOLEAN]

Writing == {"planned", "started", "backed_up", "prepared", "checked", "mutated", "observed"}
Restoring == {"restoring", "authorized", "writing", "written", "restored", "refused"}
PCs == {"idle", "entering", "open", "rolling", "inspected", "settling",
        "committing", "deleting", "releasing", "listing", "sweeping", "ended", "abandoned", "crashed"}
       \cup Writing \cup Restoring
Gone == {"idle", "ended", "abandoned", "crashed"}

\* why: what the batches in todo are recovered for.  active: those listed as
\* attempting and not yet taken over.  failed: those that keep it from its end:
\* their recovery failed, or left debt (Settle).  memo: what a recovery has
\* read or found in the file before it goes on.
ActorStates == [pc : PCs, why : {"rollback", "commit", "recover"},
                todo : SUBSET BatchIds, active : SUBSET BatchIds, failed : SUBSET BatchIds,
                memo : Snapshots \cup {None}]
Idle == [pc |-> "idle", why |-> "rollback", todo |-> {}, active |-> {}, failed |-> {}, memo |-> None]
\* An actor that begins to work through the batches of todo.
Works(pc, why, todo) == [Idle EXCEPT !.pc = pc, !.why = why, !.todo = todo]

-----------------------------------------------------------------------------
(* Helpers *)

\* A check of grant k against the lease table can succeed: k is the latest
\* grant and not released.  Once the grant lapses it can also fail, after
\* which the actor has lost its lease and can only crash, fail or stop.
Current(k) == k = fence[Workspace] /\ tenure[Workspace] # "free"

\* The lease is granted to k, the next fencing token.
Acquires(k) == Grant(Workspace) /\ k = fence'[Workspace]

\* A check of grant k can fail.
Lost(k) == k # fence[Workspace] \/ tenure[Workspace] # "held"

Journal == 1..Len(batches)
OwnBatches(k) == {b \in Journal : batches[b].tx = k}
Newest(S) == CHOOSE b \in S : \A c \in S : c <= b
Oldest(S) == CHOOSE b \in S : \A c \in S : b <= c
Writes(k) == Newest(OwnBatches(k))

Goes(k, pc) == actor' = [actor EXCEPT ![k].pc = pc]
Notes(k, pc, value) == actor' = [actor EXCEPT ![k].pc = pc, ![k].memo = value]
SetBatch(b, row) == batches' = [batches EXCEPT ![b] = row]

\* Content 0 of a created file means that there is no file.
Missing(f, content) == f \in Created /\ content = 0

\* A snapshot of the file of a batch, for its failure payload.
Snapshot(row) ==
    IF disk[row.file] = row.before /\ row.renewed /\ ~Missing(row.file, row.before)
    THEN Renewed ELSE disk[row.file]

\* The batches whose file actor k has written by now: a write by one that has
\* been superseded is late.
LateBy(k, b) == IF k = fence[Workspace] THEN late ELSE late \cup {b}

\* The claim of a transaction on the file of a batch.
HasClaim(b) == claims[batches[b].file] = batches[b].tx

-----------------------------------------------------------------------------
(* workspace_transaction.py: entering and the claims *)

Enter(k) ==
    /\ Acquires(k)
    /\ Goes(k, "entering")
    /\ UNCHANGED <<claims, batches, disk, edits, listed, committed, late>>

\* The resources are claimed one by one, in sorted order.
AcquireClaim(k) ==
    /\ actor[k].pc = "entering"
    /\ Current(k)
    /\ LET free == {f \in Files : claims[f] # k}
           next == Oldest(free)
       IN  \/ /\ claims[next] = None
              /\ claims' = [claims EXCEPT ![next] = k]
              /\ Goes(k, IF free = {next} THEN "open" ELSE "entering")
           \/ /\ claims[next] # None
              /\ Goes(k, "releasing")
              /\ UNCHANGED claims
    /\ UNCHANGED <<leaseVars, batches, disk, edits, listed, committed, late>>

\* A claim is refused because the lease is lost: __enter__ cleans up.
EnterFails(k) ==
    /\ actor[k].pc = "entering"
    /\ Lost(k)
    /\ Goes(k, "releasing")
    /\ UNCHANGED <<leaseVars, claims, batches, disk, edits, listed, committed, late>>

-----------------------------------------------------------------------------
(* operation_journal/filesystem_mutations.py: one journaled write *)

\* The mutation's own check of its lease and of the claim on its file.
HasAuthority(k, f) == Current(k) /\ claims[f] = k

\* _require_authority, then create_batch.
Plan(k, f) ==
    /\ actor[k].pc = "open"
    /\ HasAuthority(k, f)
    /\ Len(batches) < MaxBatches
    /\ batches' = Append(batches,
         [tx |-> k, file |-> f, phase |-> "planned", bound |-> k, before |-> 0,
          proof |-> "none", artifact |-> FALSE, after |-> None,
          failure |-> None, preparing |-> FALSE, seen |-> None,
          renewed |-> FALSE, rewritten |-> FALSE, cleaning |-> FALSE])
    /\ Goes(k, "planned")
    /\ UNCHANGED <<leaseVars, claims, disk, edits, listed, committed, late>>

\* A journal write for the batch of the running mutation, which needs the
\* current lease and a batch still bound to it.
Journals(k, pc, next, row) ==
    /\ actor[k].pc = pc
    /\ Current(k)
    /\ batches[Writes(k)].bound = k
    /\ SetBatch(Writes(k), row)
    /\ Goes(k, next)
    /\ UNCHANGED <<leaseVars, claims, disk, edits, listed, committed, late>>

\* start_batch_operation and the before snapshot.
Start(k) ==
    LET b == batches[Writes(k)]
    IN  Journals(k, "planned", "started",
                 [b EXCEPT !.phase = "attempting", !.before = disk[b.file]])

\* The backup is captured and its checkpoint recorded; a file that changed
\* since the before snapshot is refused.  A missing file needs no artifact.
BackUp(k) ==
    LET b == batches[Writes(k)]
    IN  /\ Journals(k, "started", "backed_up",
                    [b EXCEPT !.proof = "backup", !.artifact = ~Missing(b.file, b.before)])
        /\ disk[b.file] = b.before

\* The expected_after checkpoint.
Expect(k) ==
    LET b == batches[Writes(k)]
    IN  Journals(k, "backed_up", "prepared", [b EXCEPT !.proof = "full"])

\* The second _require_authority, right before the mutation.
CheckAuthority(k) ==
    /\ actor[k].pc = "prepared"
    /\ HasAuthority(k, batches[Writes(k)].file)
    /\ Goes(k, "checked")
    /\ UNCHANGED <<leaseVars, claims, batches, disk, edits, listed, committed, late>>

\* The file is replaced.  Nothing ties this step to the lease any more.
Mutate(k) ==
    /\ actor[k].pc = "checked"
    /\ disk' = [disk EXCEPT ![batches[Writes(k)].file] = Writes(k)]
    /\ Goes(k, "mutated")
    /\ late' = LateBy(k, Writes(k))
    /\ UNCHANGED <<leaseVars, claims, batches, edits, listed, committed>>

\* The after snapshot and its checkpoint.
Observe(k) ==
    LET b == batches[Writes(k)]
    IN  Journals(k, "mutated", "observed", [b EXCEPT !.after = disk[b.file]])

\* mark_succeeded
Succeed(k) ==
    /\ Journals(k, "observed", "open", [batches[Writes(k)] EXCEPT !.phase = "succeeded"])
    /\ batches[Writes(k)].phase = "attempting"

\* Any of these steps raises: the failure and what the file then holds are
\* recorded, under the current lease or with the lease-lost marker, unless
\* the batch was taken over.  There is a failure checkpoint too unless the
\* lease is lost or the mutation has returned.  The exception reaches the
\* body of the transaction, which may catch it.
Fail(k) ==
    /\ actor[k].pc \in Writing
    /\ Goes(k, "open")
    /\ LET b == batches[Writes(k)]
       IN  IF b.bound = k /\ b.phase = "attempting"
           THEN \E checkpointed \in BOOLEAN :
                  /\ IF checkpointed THEN Current(k) /\ actor[k].pc # "observed"
                                     ELSE Lost(k) \/ actor[k].pc \in {"mutated", "observed"}
                  /\ SetBatch(Writes(k),
                       [b EXCEPT !.phase = "recovery_desired",
                                 !.failure = Snapshot(b),
                                 !.preparing = actor[k].pc \in {"started", "backed_up"},
                                 !.seen = IF checkpointed THEN disk[b.file] ELSE @])
           ELSE UNCHANGED batches
    /\ UNCHANGED <<leaseVars, claims, disk, edits, listed, committed, late>>

-----------------------------------------------------------------------------
(* workspace_transaction.py: leaving the body *)

InBody == Writing \cup {"open"}

\* The batches a rollback of transaction k is for, and those its clean exit
\* must roll back first.  A planned batch is in neither.
Eligible(k) == {b \in OwnBatches(k) :
    batches[b].phase \in {"recovery_desired", "recovery_failed", "attempting", "succeeded"}}
PendingOwn(k) == {b \in OwnBatches(k) :
    batches[b].phase \in {"recovery_desired", "recovery_failed"}}

\* mark_recovery_desired for every batch of S under lease k.
Desired(S) == batches' = [b \in Journal |->
    IF b \in S THEN [batches[b] EXCEPT !.phase = "recovery_desired"] ELSE batches[b]]

\* The body raises.  Before the rollback all eligible batches are marked,
\* oldest first.  An attempting one cannot be: record_interrupted_recovery_desired
\* wants a newer lease than the batch's, so the exit abandons the transaction.
RaiseInRecordOnly(k) ==
    /\ k \notin Automatic
    /\ actor[k].pc \in InBody
    /\ Goes(k, "releasing")
    /\ UNCHANGED <<leaseVars, claims, batches, disk, edits, listed, committed, late>>

RaiseAndRollBack(k) ==
    /\ k \in Automatic
    /\ actor[k].pc \in InBody
    /\ Eligible(k) # {} => Current(k)
    /\ \A b \in Eligible(k) : batches[b].bound = k /\ batches[b].phase # "attempting"
    /\ Desired(Eligible(k))
    /\ actor' = [actor EXCEPT ![k] = Works("rolling", "rollback", Eligible(k))]
    /\ UNCHANGED <<leaseVars, claims, disk, edits, listed, committed, late>>

RaiseAndAbandon(k) ==
    /\ k \in Automatic
    /\ actor[k].pc \in InBody
    /\ \E b \in Eligible(k) :
          LET earlier == {c \in Eligible(k) : c < b}
          IN  /\ Lost(k) \/ batches[b].bound # k \/ batches[b].phase = "attempting"
              /\ earlier # {} => Current(k)
              /\ \A c \in earlier : batches[c].bound = k /\ batches[c].phase # "attempting"
              /\ Desired(earlier)
    /\ Goes(k, "abandoned")
    /\ UNCHANGED <<leaseVars, claims, disk, edits, listed, committed, late>>

\* The body ends normally: what failed and was caught is rolled back first.
ExitCleanly(k) ==
    /\ actor[k].pc = "open"
    /\ LET pending == IF k \in Automatic THEN PendingOwn(k) ELSE {}
       IN  \/ /\ pending # {} => Current(k) /\ \A b \in pending : batches[b].bound = k
              /\ Desired(pending)
              /\ actor' = [actor EXCEPT ![k] = Works("rolling", "commit", pending)]
           \/ /\ \E b \in pending : Lost(k) \/ batches[b].bound # k
              /\ Goes(k, "abandoned")
              /\ UNCHANGED batches
    /\ UNCHANGED <<leaseVars, claims, disk, edits, listed, committed, late>>

\* All batches of a rollback are through.  A failure leaves the claims to
\* recovery; otherwise a rolled back transaction releases them, and one that
\* exits cleanly goes on to delete the backups of its succeeded batches.
RolledBack(k) ==
    /\ actor[k].pc = "rolling"
    /\ actor[k].todo = {}
    /\ actor[k].why # "recover"
    /\ \/ /\ actor[k].failed # {}
          /\ Goes(k, "abandoned")
          /\ UNCHANGED committed
       \/ /\ actor[k].failed = {}
          /\ actor[k].why = "rollback"
          /\ Goes(k, "releasing")
          /\ UNCHANGED committed
       \/ /\ actor[k].failed = {}
          /\ actor[k].why = "commit"
          /\ actor' = [actor EXCEPT ![k].pc = "committing",
                          ![k].todo = {b \in OwnBatches(k) : batches[b].phase = "succeeded"}]
          /\ committed' = committed \cup {k}
    /\ UNCHANGED <<leaseVars, claims, batches, disk, edits, listed, late>>

\* Mutant of MayClean: batches of earlier leases are cleaned in any phase.
MayClean_AnyPhase(b, k) == batches[b].bound <= k

\* _require_batch_for_artifact_cleanup_write under lease k.
MayClean(b, k) ==
    \/ batches[b].bound = k
    \/ batches[b].bound < k /\ batches[b].phase \in {"succeeded", "recovery_succeeded"}

\* The artifacts of the batches in todo are deleted in order.  First the attempt
\* is recorded in the journal, unless an earlier cleanup has left it attempting;
\* what has no artifact, or none any more, is skipped.
MarkDeletion(k) ==
    LET b == Oldest(actor[k].todo)
    IN  /\ actor[k].pc \in {"committing", "sweeping"}
        /\ actor[k].todo # {}
        /\ \/ /\ batches[b].cleaning \/ (batches[b].artifact /\ Current(k) /\ MayClean(b, k))
              /\ SetBatch(b, [batches[b] EXCEPT !.cleaning = TRUE])
              /\ Goes(k, "deleting")
           \/ /\ ~batches[b].cleaning /\ ~batches[b].artifact
              /\ actor' = [actor EXCEPT ![k].todo = @ \ {b}]
              /\ UNCHANGED batches
        /\ UNCHANGED <<leaseVars, claims, disk, edits, listed, committed, late>>

\* Then the file goes, which nothing ties to the lease, or that fails and is
\* recorded as debt; a result that cannot be recorded is an exception.
DeleteArtifact(k) ==
    LET b == Oldest(actor[k].todo)
    IN  /\ actor[k].pc = "deleting"
        /\ \E deleted, recorded \in BOOLEAN :
              /\ IF recorded THEN Current(k) /\ MayClean(b, k) ELSE Lost(k) \/ ~MayClean(b, k)
              /\ SetBatch(b, [batches[b] EXCEPT !.artifact = @ /\ ~deleted, !.cleaning = @ /\ ~recorded])
              /\ actor' = [actor EXCEPT
                    ![k].pc = IF ~recorded THEN "crashed"
                              ELSE IF actor[k].why = "commit" THEN "committing" ELSE "sweeping",
                    ![k].todo = @ \ {b}]
        /\ UNCHANGED <<leaseVars, claims, disk, edits, listed, committed, late>>

\* _artifact_cleanup_lease: a transaction whose lease lapsed, or was taken
\* over and released, acquires another one for the cleanup and releases it.
CommitCleanupUnderNewLease(k) ==
    /\ actor[k].pc = "committing"
    /\ actor[k].todo # {}
    /\ tenure[Workspace] # "held"
    /\ fence[Workspace] < MaxFence
    /\ fence' = [fence EXCEPT ![Workspace] = @ + 1]
    /\ tenure' = [tenure EXCEPT ![Workspace] = "free"]
    /\ \E D \in SUBSET {b \in actor[k].todo : MayClean(b, fence'[Workspace])} :
          batches' = [b \in Journal |->
              IF b \in D THEN [batches[b] EXCEPT !.artifact = FALSE] ELSE batches[b]]
    /\ actor' = [actor EXCEPT ![k].todo = {}]
    /\ UNCHANGED <<lastWrite, claims, disk, edits, listed, committed, late>>

CommitCleaned(k) ==
    /\ actor[k].pc = "committing"
    /\ actor[k].todo = {}
    /\ Goes(k, "releasing")
    /\ UNCHANGED <<leaseVars, claims, batches, disk, edits, listed, committed, late>>

\* Claims are released one by one in reverse order.  Losing the lease does
\* not prevent it: the claim itself proves that k made it.
ReleaseClaim(k) ==
    LET own == {f \in Files : claims[f] = k}
    IN  /\ actor[k].pc = "releasing"
        /\ own # {}
        /\ claims' = [claims EXCEPT ![Newest(own)] = None]
        /\ UNCHANGED <<leaseVars, batches, disk, edits, actor, listed, committed, late>>

\* The lease is released last, if it still is k's.
ReleaseLease(k) ==
    /\ actor[k].pc = "releasing"
    /\ \A f \in Files : claims[f] # k
    /\ IF Current(k) THEN Revoke(Workspace) ELSE UNCHANGED leaseVars
    /\ Goes(k, "ended")
    /\ UNCHANGED <<claims, batches, disk, edits, listed, committed, late>>

-----------------------------------------------------------------------------
(* workspace_rollback.py: recover_pending_workspace_batches *)

Recover(k) ==
    /\ Acquires(k)
    /\ Goes(k, "listing")
    /\ UNCHANGED <<claims, batches, disk, edits, listed, committed, late>>

\* Mutant of IsPending: a batch that succeeded is done.
IsPending_IgnoresSucceeded(b) ==
    \/ batches[b].phase \in Unfinished
    \/ batches[b].phase = "recovery_succeeded" /\ \E f \in Files : claims[f] = batches[b].tx

\* A batch is pending by its phase; a recovered one while a claim of its
\* transaction remains; a succeeded one while its own claim does.
IsPending(b) ==
    \/ batches[b].phase \in Unfinished
    \/ batches[b].phase = "recovery_succeeded" /\ \E f \in Files : claims[f] = batches[b].tx
    \/ batches[b].phase = "succeeded" /\ HasClaim(b)

ListPending(k) ==
    /\ actor[k].pc = "listing"
    /\ actor' = [actor EXCEPT ![k] =
          [Works("rolling", "recover", {b \in Journal : IsPending(b)})
             EXCEPT !.active = {b \in Journal : batches[b].phase = "attempting"}]]
    /\ UNCHANGED <<leaseVars, claims, batches, disk, edits, listed, committed, late>>

\* The order in which batches are recovered.
NextToRecover(S) == Newest(S)

\* Mutant of HasRestore: only the after checkpoint counts as evidence.
HasRestore_AfterOnly(row, b) == row.proof # "none" /\ row.after # None

\* file_recovery_planning.py.  The backup of b may be restored over content c
\* only: what the after checkpoint recorded, else the snapshot in the failure
\* if it shows b's own write or was taken while b was still preparing.
HasRestore(row, b) ==
    /\ row.proof # "none"
    /\ \/ row.after # None
       \/ b \in {row.failure, row.seen} /\ row.proof = "full"
       \/ row.failure # None /\ row.preparing
ExpectedCurrent(row, b) ==
    IF row.after # None THEN row.after
    ELSE IF b = row.seen THEN b ELSE row.failure

\* Evidence that the mutation of the batch never started: the snapshot in the
\* failure is the one taken before, identity included.
HasNoop(row) ==
    /\ row.after = None
    /\ row.failure = row.before
    /\ row.proof = "full" \/ (row.proof = "none" /\ row.preparing)

\* An actor that recovers the batches of todo is at the newest of them.
Target(k) == NextToRecover(actor[k].todo)
AtBatch(k, pc) == actor[k].pc = pc /\ actor[k].todo # {}
GivesUp(k) == actor' = [actor EXCEPT
    ![k].pc = "rolling", ![k].todo = @ \ {Target(k)}, ![k].active = @ \ {Target(k)},
    ![k].failed = @ \cup {Target(k)}, ![k].memo = None]

\* A batch that was recovered before only has its claims left.
SkipRecovered(k) ==
    /\ AtBatch(k, "rolling")
    /\ actor[k].why = "recover"
    /\ batches[Target(k)].phase = "recovery_succeeded"
    /\ Current(k)
    /\ Goes(k, "settling")
    /\ UNCHANGED <<leaseVars, claims, batches, disk, edits, listed, committed, late>>

\* _prepare_workspace_recovery_batch: a snapshot of the file of an attempting or
\* recovering batch is taken before the batch is taken over.
Inspect(k) ==
    LET row == batches[Target(k)]
    IN  /\ AtBatch(k, "rolling")
        /\ actor[k].why = "recover"
        /\ row.phase \in {"attempting", "recovering"}
        /\ Current(k)
        /\ Notes(k, "inspected", Snapshot(row))
        /\ UNCHANGED <<leaseVars, claims, batches, disk, edits, listed, committed, late>>

\* record_interrupted_recovery_desired and record_recovery_desired: what an earlier
\* grant left is bound to this one and asks for recovery, with that snapshot.
TakeOver(k) ==
    LET row == batches[Target(k)]
    IN  /\ actor[k].pc = "inspected"
        /\ row.phase \in {"attempting", "recovering"}
        /\ row.bound < k
        /\ Current(k)
        /\ SetBatch(Target(k), [row EXCEPT !.phase = "recovery_desired", !.bound = k,
                                          !.failure = actor[k].memo, !.preparing = FALSE])
        /\ actor' = [actor EXCEPT ![k].pc = "rolling", ![k].active = @ \ {Target(k)}, ![k].memo = None]
        /\ UNCHANGED <<leaseVars, claims, disk, edits, listed, committed, late>>

\* A batch listed as attempting whose stalled writer has meanwhile asked for its
\* recovery itself cannot be interrupted any more: it is a failure.
PassOver(k) ==
    /\ actor[k].pc \in {"rolling", "inspected"}
    /\ actor[k].todo # {}
    /\ Target(k) \in actor[k].active
    /\ batches[Target(k)].phase = "recovery_desired"
    /\ GivesUp(k)
    /\ UNCHANGED <<leaseVars, claims, batches, disk, edits, listed, committed, late>>

\* A recovery that failed before and a succeeded batch are asked for again.
AskAgain(k) ==
    /\ AtBatch(k, "rolling")
    /\ actor[k].why = "recover"
    /\ batches[Target(k)].phase \in {"recovery_failed", "succeeded"}
    /\ Current(k)
    /\ SetBatch(Target(k), [batches[Target(k)] EXCEPT !.phase = "recovery_desired", !.bound = k])
    /\ UNCHANGED <<leaseVars, claims, disk, edits, actor, listed, committed, late>>

\* start_recovery, under an own grant or that of an earlier one.
StartRecovery(k) ==
    LET row == batches[Target(k)]
    IN  /\ AtBatch(k, "rolling")
        /\ row.phase = "recovery_desired"
        /\ IF actor[k].why = "recover" THEN Target(k) \notin actor[k].active
           ELSE row.bound = k /\ (row.proof # "none" \/ HasNoop(row))
        /\ Current(k)
        /\ SetBatch(Target(k), [row EXCEPT !.phase = "recovering", !.bound = k])
        /\ Goes(k, "restoring")
        /\ UNCHANGED <<leaseVars, claims, disk, edits, listed, committed, late>>

\* A rollback that finds no evidence at all does not even start the recovery.
SkipUnproven(k) ==
    /\ AtBatch(k, "rolling")
    /\ actor[k].why # "recover"
    /\ batches[Target(k)].proof = "none"
    /\ ~HasNoop(batches[Target(k)])
    /\ Current(k)
    /\ GivesUp(k)
    /\ UNCHANGED <<leaseVars, claims, batches, disk, edits, listed, committed, late>>

HoldsAttempt(k, b) ==
    /\ Current(k)
    /\ batches[b].bound = k
    /\ batches[b].phase = "recovering"

\* run_with_active_recovery_attempt: the attempt is checked, in a transaction that
\* ends before the restoration runs.  With no proof nothing may be restored.
CheckAttempt(k) ==
    LET row == batches[Target(k)]
    IN  /\ actor[k].pc = "restoring"
        /\ HoldsAttempt(k, Target(k))
        /\ \/ HasRestore(row, Target(k)) /\ Notes(k, "authorized", ExpectedCurrent(row, Target(k)))
           \/ ~HasRestore(row, Target(k)) /\ Goes(k, IF HasNoop(row) THEN "restored" ELSE "refused")
        /\ UNCHANGED <<leaseVars, claims, batches, disk, edits, listed, committed, late>>

\* Mutant of CanRestore: the content found is not compared with the evidence.
CanRestore_AnyContent(k) ==
    LET row == batches[Target(k)]
    IN  row.artifact \/ Missing(row.file, row.before)

\* The restoration finds in the file what the backup holds, or what the evidence
\* expects, and the artifact is there unless the restored state is no file.
CanRestore(k) ==
    LET row == batches[Target(k)]
    IN  /\ disk[row.file] \in {row.before, actor[k].memo}
        /\ row.artifact \/ Missing(row.file, row.before)

\* Mutant of IsRestored: a file that was created is taken for removed.
IsRestored_TrustsCreated(row) == Missing(row.file, row.before) \/ disk[row.file] = row.before

\* The file of the batch is what the backup holds.
IsRestored(row) == disk[row.file] = row.before

\* restore_backup, which nothing ties to the lease any more: the file is compared,
Compare(k) ==
    LET row == batches[Target(k)]
    IN  /\ actor[k].pc = "authorized"
        /\ \/ ~CanRestore(k) /\ Notes(k, "refused", None)
           \/ CanRestore(k) /\ IsRestored(row) /\ Notes(k, "restored", None)
           \/ CanRestore(k) /\ ~IsRestored(row) /\ Notes(k, "writing", disk[row.file])
        /\ UNCHANGED <<leaseVars, claims, batches, disk, edits, listed, committed, late>>

\* The restore of batch c has written its file, which every batch under way on it
\* will notice.
Renews(c) == batches' = [b \in Journal |->
    IF batches[b].file = batches[c].file /\ batches[b].phase # "planned"
    THEN [batches[b] EXCEPT !.renewed = TRUE, !.rewritten = @ \/ b = c] ELSE batches[b]]

WriteBackOf(k, content) ==
    LET row == batches[Target(k)]
    IN  /\ actor[k].pc = "writing"
        /\ disk' = [disk EXCEPT ![row.file] = content]
        /\ Renews(Target(k))
        /\ late' = LateBy(k, Target(k))
        /\ Notes(k, "written", None)
        /\ UNCHANGED <<leaseVars, claims, edits, listed, committed>>

\* Mutant of WriteBack: it writes what the after checkpoint holds.
WriteBack_After(k) == WriteBackOf(k, batches[Target(k)].after)

\* replaced or removed,
WriteBack(k) == WriteBackOf(k, batches[Target(k)].before)

\* and read again.
Verify(k) ==
    /\ actor[k].pc = "written"
    /\ Goes(k, IF IsRestored(batches[Target(k)]) THEN "restored" ELSE "refused")
    /\ UNCHANGED <<leaseVars, claims, batches, disk, edits, listed, committed, late>>

\* Mutant of RecoveryFails: the artifact is deleted as after a success.
RecoveryFails_CleansUp(k) ==
    /\ actor[k].pc = "refused"
    /\ HoldsAttempt(k, Target(k))
    /\ SetBatch(Target(k), [batches[Target(k)] EXCEPT !.phase = "recovery_failed", !.artifact = FALSE])
    /\ GivesUp(k)
    /\ UNCHANGED <<leaseVars, claims, disk, edits, listed, committed, late>>

\* record_recovery_failed: no proof, a file that holds something else, or no
\* artifact need a human.  The other batches are still recovered.
RecoveryFails(k) ==
    /\ actor[k].pc = "refused"
    /\ HoldsAttempt(k, Target(k))
    /\ SetBatch(Target(k), [batches[Target(k)] EXCEPT !.phase = "recovery_failed"])
    /\ GivesUp(k)
    /\ UNCHANGED <<leaseVars, claims, disk, edits, listed, committed, late>>

\* record_recovery_succeeded
FinishRecovery(k) ==
    LET b == Target(k)
    IN  /\ actor[k].pc = "restored"
        /\ HoldsAttempt(k, b)
        /\ SetBatch(b, [batches[b] EXCEPT !.phase = "recovery_succeeded"])
        /\ Goes(k, "settling")
        /\ UNCHANGED <<leaseVars, claims, disk, edits, listed, committed, late>>

\* Mutant of ReleasedClaims: siblings on other files are not looked at.
ReleasedClaims_SameFile(b, unresolved) ==
    LET siblings == {c \in unresolved \ {b} : /\ batches[c].tx = batches[b].tx
                                             /\ batches[c].file = batches[b].file}
    IN  {f \in Files : claims[f] = batches[b].tx /\ siblings = {}}

\* _release_recovered_batch_claims after batch b: the claim on b's file when
\* no other pending batch of the transaction on that file is left, and all
\* claims of the transaction when none is left at all.
ReleasedClaims(b, unresolved) ==
    LET siblings == {c \in unresolved \ {b} : batches[c].tx = batches[b].tx}
    IN  {f \in Files :
            /\ claims[f] = batches[b].tx
            /\ \/ siblings = {}
               \/ f = batches[b].file /\ \A c \in siblings : batches[c].file # f}

\* Workspace recovery releases the claims of the batch; then its artifact is
\* deleted, or the failure to do so recorded as debt.  Such debt is no failure
\* of a rollback or a recovery, but a clean exit raises it and is abandoned.
Settle(k) ==
    LET b == Target(k)
    IN  /\ actor[k].pc = "settling"
        /\ Current(k)
        /\ claims' = [f \in Files |->
              IF actor[k].why = "recover" /\ f \in ReleasedClaims(b, actor[k].todo \cup actor[k].failed)
              THEN None ELSE claims[f]]
        /\ \E deleted \in BOOLEAN :
              /\ SetBatch(b, [batches[b] EXCEPT !.artifact = @ /\ ~deleted])
              /\ actor' = [actor EXCEPT ![k].pc = "rolling", ![k].todo = @ \ {b},
                    ![k].failed = IF actor[k].why = "commit" /\ batches'[b].artifact
                                  THEN @ \cup {b} ELSE @]
        /\ UNCHANGED <<leaseVars, disk, edits, listed, committed, late>>

\* Claims of earlier transactions that have no batch at all.
Orphaned(k) == {f \in Files :
    /\ claims[f] # None
    /\ claims[f] < k
    /\ OwnBatches(claims[f]) = {}}

\* The last step of recovery: orphaned claims, then the lease.
EndRecovery(k) ==
    /\ actor[k].pc = "rolling"
    /\ actor[k].todo = {}
    /\ actor[k].why = "recover"
    /\ Current(k)
    /\ claims' = [f \in Files |-> IF f \in Orphaned(k) THEN None ELSE claims[f]]
    /\ Revoke(Workspace)
    /\ Goes(k, "ended")
    /\ UNCHANGED <<batches, disk, edits, listed, committed, late>>

-----------------------------------------------------------------------------
(* workspace_rollback.py: cleanup_outstanding_workspace_artifacts *)

\* The batches are listed before any lease is acquired.
ListArtifacts ==
    /\ Sweeps
    /\ listed' = [phase \in CleanedPhases |->
          {b \in Journal : batches[b].phase = phase /\ (batches[b].artifact \/ batches[b].cleaning)}]
    /\ \E phase \in CleanedPhases : listed'[phase] # {}
    /\ UNCHANGED <<leaseVars, claims, batches, disk, edits, actor, committed, late>>

\* The batches of either phase are cleaned under a lease of their own (one
\* acquired for no batch at all is left out).
BeginSweep(k) ==
    \E phase \in CleanedPhases :
        /\ listed[phase] # {}
        /\ Acquires(k)
        /\ actor' = [actor EXCEPT ![k] = Works("sweeping", "recover", listed[phase])]
        /\ listed' = [listed EXCEPT ![phase] = {}]
        /\ UNCHANGED <<claims, batches, disk, edits, committed, late>>

EndSweep(k) ==
    /\ actor[k].pc = "sweeping"
    /\ actor[k].todo = {}
    /\ IF Current(k) THEN Revoke(Workspace) ELSE UNCHANGED leaseVars
    /\ Goes(k, "ended")
    /\ UNCHANGED <<claims, batches, disk, edits, listed, committed, late>>

-----------------------------------------------------------------------------
(* The environment *)

\* A crash, or an exit that loses its lease and leaves its claims behind.
Crash(k) ==
    /\ actor[k].pc \notin Gone
    /\ actor' = [actor EXCEPT ![k] = [Idle EXCEPT !.pc = "crashed"]]
    /\ UNCHANGED <<leaseVars, claims, batches, disk, edits, listed, committed, late>>

LeaseLapses ==
    /\ Lapse(Names)
    /\ UNCHANGED <<claims, batches, disk, edits, actor, listed, committed, late>>

\* The heartbeat thread of the holder, which a crash ends.
Heartbeat(k) ==
    /\ k = fence[Workspace]
    /\ actor[k].pc \notin Gone
    /\ Renew(Workspace)
    /\ UNCHANGED <<claims, batches, disk, edits, actor, listed, committed, late>>

Edit(f) ==
    /\ edits < MaxEdits
    /\ edits' = edits + 1
    /\ disk' = [disk EXCEPT ![f] = Foreign]
    /\ UNCHANGED <<leaseVars, claims, batches, actor, listed, committed, late>>

Init ==
    /\ FencedLeaseInit
    /\ claims = [f \in Files |-> None]
    /\ batches = <<>>
    /\ disk = [f \in Files |-> 0]
    /\ edits = 0
    /\ actor = [k \in Actors |-> Idle]
    /\ listed = [phase \in CleanedPhases |-> {}]
    /\ committed = {}
    /\ late = {}

TransactionStep(k) ==
    \/ Enter(k) \/ AcquireClaim(k) \/ EnterFails(k)
    \/ \E f \in Files : Plan(k, f)
    \/ Start(k) \/ BackUp(k) \/ Expect(k) \/ CheckAuthority(k) \/ Mutate(k)
    \/ Observe(k) \/ Succeed(k) \/ Fail(k)
    \/ RaiseInRecordOnly(k) \/ RaiseAndRollBack(k) \/ RaiseAndAbandon(k) \/ ExitCleanly(k)
    \/ RolledBack(k) \/ MarkDeletion(k) \/ DeleteArtifact(k) \/ CommitCleanupUnderNewLease(k) \/ CommitCleaned(k)
    \/ ReleaseClaim(k) \/ ReleaseLease(k)

RecoveryStep(k) ==
    \/ Recover(k) \/ ListPending(k) \/ SkipRecovered(k) \/ Inspect(k) \/ TakeOver(k) \/ PassOver(k)
    \/ AskAgain(k) \/ StartRecovery(k) \/ SkipUnproven(k)
    \/ CheckAttempt(k) \/ Compare(k) \/ WriteBack(k) \/ Verify(k) \/ RecoveryFails(k) \/ FinishRecovery(k) \/ Settle(k) \/ EndRecovery(k)

SweepStep(k) == BeginSweep(k) \/ EndSweep(k)

Next ==
    \/ \E k \in Actors : TransactionStep(k) \/ RecoveryStep(k) \/ SweepStep(k) \/ Crash(k) \/ Heartbeat(k)
    \/ ListArtifacts
    \/ LeaseLapses
    \/ \E f \in Files : Edit(f)

Spec == Init /\ [][Next]_wsVars

-----------------------------------------------------------------------------
(* Properties *)

\* The claims, the journal, the files and the actors have their types.
TypeOK ==
    /\ FencedLeaseTypeOK
    /\ claims \in [Files -> Actors \cup {None}]
    /\ batches \in Seq(Batches)
    /\ Len(batches) <= MaxBatches
    /\ disk \in [Files -> Contents]
    /\ edits \in 0..MaxEdits
    /\ actor \in [Actors -> ActorStates]
    /\ listed \in [CleanedPhases -> SUBSET BatchIds]
    /\ committed \subseteq Actors
    /\ late \subseteq BatchIds

\* _release_recovered_batch_claims and the release of orphaned claims: whoever
\* takes away the claim of a transaction, if not itself, leaves no unfinished
\* batch of it on that file unprotected.
RecoveryKeepsNeededClaims ==
    [][\A f \in Files :
        (claims[f] # None /\ claims'[f] # claims[f]) =>
            \/ actor[claims[f]].pc = "releasing"
            \/ \A b \in Journal :
                  (batches[b].tx = claims[f] /\ batches[b].file = f) =>
                      batches'[b].phase \notin Unfinished]_wsVars

\* recover_pending_workspace_batches that ends without failures leaves no claim
\* of a transaction that is gone, so that others can go on.
RecoveryFreesClaims ==
    \A k \in Actors :
        (/\ actor[k].pc = "ended" /\ actor[k].why = "recover" /\ actor[k].failed = {}
         /\ k = fence[Workspace])
        => \A f \in Files : claims[f] # None => actor[claims[f]].pc \notin Gone

\* The backup of a write that may still have to be undone exists: one whose
\* recovery is unfinished, or that succeeded in a transaction that holds its
\* claim and has not reached the cleanup of its clean exit.
BackupsOutliveTheirNeed ==
    \A b \in Journal :
        (/\ batches[b].proof # "none"
         /\ batches[b].tx \notin committed
         /\ batches[b].phase \in Unfinished \/ (batches[b].phase = "succeeded" /\ HasClaim(b)))
        => batches[b].artifact \/ Missing(batches[b].file, batches[b].before)

\* _require_batch_for_artifact_cleanup_write: no cleanup of a backup begins while
\* the recovery of its batch is unfinished, however old the list it works on.
CleanupBeginsWhenDone ==
    [][\A b \in Journal :
        (~batches[b].cleaning /\ batches'[b].cleaning) => batches[b].phase \notin Unfinished]_wsVars

\* A transaction that did not reach its commit is not torn: recovery that is
\* through with it has undone all of its writes or none of them.
UncommittedIsNotTorn ==
    \A k \in (Actors \cap Automatic) \ committed :
        (actor[k].pc \in Gone /\ ~\E b \in OwnBatches(k) : IsPending(b)) =>
            ~\E b, c \in OwnBatches(k) : batches[b].phase = "succeeded"
                                      /\ batches[c].phase = "recovery_succeeded"

\* Recovery needs a human only when there is a reason: the write was not fully
\* recorded, its backup is gone, a later write to the file stands, an actor wrote
\* the file after it was superseded, or a restore has put back the file of a write
\* without an after checkpoint (see RecoveryIsIdempotent).
FailedRecoveryHasAReason ==
    [][\A b \in Journal :
        (/\ batches[b].phase # "recovery_failed" /\ batches'[b].phase = "recovery_failed"
         /\ edits = 0)
        => \/ batches[b].proof # "full"
           \/ ~(batches[b].artifact \/ Missing(batches[b].file, batches[b].before))
           \/ batches[b].renewed /\ batches[b].after = None
           \/ \E c \in Journal : batches[c].file = batches[b].file
                  /\ (c \in late \/ (c > b /\ batches[c].phase # "recovery_succeeded"))
      ]_wsVars

\* The evidence takes the edit of another program for the write of the batch: it came
\* before the after snapshot, or before that of a write that failed halfway.
TakesEdit(row) == row.after = Foreign \/ (row.after = None /\ row.failure = Foreign /\ row.preparing)

\* restore_backup and its evidence: a recovery that has found the edit of another
\* program in the file overwrites it only on evidence that takes it for the write of
\* the batch.  (That evidence of a superseded recovery may have been replaced since.)
\* An edit after the comparison is overwritten.
RestoreRespectsEdits ==
    [][\A f \in Files : (disk[f] = Foreign /\ disk'[f] # Foreign) =>
        \E k \in Actors :
          \/ actor[k].pc = "checked" /\ actor'[k].pc = "mutated"
          \/ /\ actor[k].pc = "writing" /\ actor'[k].pc = "written"
             /\ \/ actor[k].memo # Foreign
                \/ TakesEdit(batches[Target(k)])
                \/ k # fence[Workspace] /\ batches[Target(k)].after = None]_wsVars

\* A recovery that has put the file back is not failed by the one that resumes
\* it after a crash.
RecoveryIsIdempotent ==
    \A b \in Journal :
        (batches[b].phase = "recovery_failed" /\ batches[b].rewritten)
        => disk[batches[b].file] # batches[b].before

\* A rolled back file is what it was: when the writes to a file from b on are
\* all recovered and those before b stand, it holds what it held before b, unless
\* an actor has written it after it was superseded.
RolledBackMeansRestored ==
    \A b \in Journal :
        (/\ edits = 0
         /\ \A c \in Journal : batches[c].file = batches[b].file =>
                /\ c \notin late
                /\ IF c < b THEN batches[c].phase \in {"planned", "succeeded"}
                            ELSE batches[c].phase = "recovery_succeeded")
        => disk[batches[b].file] = batches[b].before

=============================================================================
