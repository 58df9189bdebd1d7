# A verification of safe-fs-ops

TLA+ models of the parts of `safe-fs-ops` (`src/src/safe_fs_ops`) on which its
promises rest: leases with fencing, the operation journal, and transactions of
filesystem writes that are rolled back or recovered after a failure. The
modules are checked with TLC on small instances; what is stated under
*Proofs* holds for every value of the constants. Paths below are relative to
`src/src/safe_fs_ops` unless they start with `src/`.

## 1. The system and its parts

Several processes share one workspace directory and one SQLite file. There is
no server: all coordination is rows in that file, and every SQLite transaction
is atomic and serialised (`BEGIN IMMEDIATE`). Files are changed outside any
transaction, so the protocol has to bring the two together.

| part | state | operations | what makes it correct |
|---|---|---|---|
| Lease store `workspace_state/leases.py` | table of one row per lease name: owner, token, fencing token, expiry | acquire, heartbeat, release, is/require current | fencing tokens unique and growing; a released or superseded lease never current again; no takeover of a live lease |
| Lease heartbeat `workspace_state/lease_heartbeat.py` | a thread per lease user | start, beat, stop, join | renews only the lease it was given; loss reaches the body |
| Resource claims `workspace_state/claims.py` | table of one row per resource: owner, scope, details with the lease | create, upsert, release, release by owner and scope, conflict lookup | no conflicting claims; a claim outlives its transaction while recovery needs it |
| Operation journal `operation_journal/journal_*.py` | batches with a phase, and append-only operations, checkpoints, recovery records, recovery actions, cleanup records | create, start, checkpoint, mark phases, start/finish recovery, interrupted and lease-lost markers, record actions, plan/record cleanup | only the bound grant writes; one recovery attempt at a time; evidence precedes recovery; phases agree with records |
| Journaled mutations `operation_journal/filesystem_mutations.py`, `filesystem_mutation_checkpoints.py`, `filesystem_failure_records.py` | none of its own | one write: plan, start, snapshot, backup, expected-after, mutate, snapshot, success, or a failure record | whatever step is the last, the evidence suffices to undo or to refuse |
| File recovery `operation_journal/filesystem_recovery.py`, `file_recovery_planning.py`, `filesystem_ops/backups.py` | backup artifacts | recover a batch: plan an action, restore or no-op, record | never overwrites what it cannot account for; idempotent |
| Transactions `workspace_transaction*.py` | lease, claims, touched batches, in memory | enter, write, leave (normally or by an exception) | all or nothing, or handed over to recovery with claims intact |
| Rollback and recovery `workspace_rollback.py` | none of its own | automatic rollback, pending rollback, recovery of pending batches, commit cleanup, outstanding cleanup | claims and backups are kept while a batch needs them and released when it does not |
| Artifact cleanup `journal_artifact_cleanup.py`, `file_backup_artifacts.py` | cleanup records | plan, mark attempting, delete, record | no backup deleted while needed, none cleaned twice |
| Operation runs and safe operations `journal_operation_run*.py`, `workspace_operation*.py`, `workspace_transaction_operation.py` | runs and phases with a status | start, retry, finish, derive diagnostics | statuses agree with batches |
| Recursive mkdir, renames, directory capture, tree backups (`*recursive_mkdir*`, `*rename*`, `*capture*`, `*tree_backup*`) | journal batches with their own checkpoints | the mutation and its inverse | inverse only when the directory is still the one created or moved |
| Content-addressed store `filesystem_ops/content_addressed.py` | object files by digest | put, verify, copy | concurrent writers agree on a complete object |
| SQLite store `sqlite_store/store.py`, `persistence/` | schema identity and version | transactions, initialisation, adoption, migration | migrations atomic |
| Facade, backends, paths | no protocol state | forwarding, system calls | not modelled |

How they interact: a transaction acquires the workspace lease (a fencing
token), claims its files, and runs each write as a journal batch bound to that
token. An exit that goes well deletes the backups, then releases claims, then
the lease. An exit that does not leaves durable claims and batches for
`recover_pending_workspace_batches` of any process, which runs under a later
grant, takes the batches over, restores files from backups, releases claims
and deletes backups. `cleanup_outstanding_workspace_artifacts` deletes what
backups are left.

What is hard: a process may stall anywhere and go on after its lease has been
taken over; clocks are read before the transaction that uses them; a crash may
come between any two steps, recovery included; deletion and mutation of files
are in no transaction; several batches of one transaction may be in different
stages; other programs edit the same files. `PROJECT.json` lists these hazards
at their lines.

## 2. Modules

    FencedLease          abstract lease: grants, lapses, renewals, revocations
      ^ implemented by
    LeaseStore           leases.py, clock samples and transactions apart
      LeaseStoreProofs   its theorems
    BatchRecovery        abstract recovery of a batch: attempts of growing grants
      ^ implemented by
    OperationJournal     every write operation of the journal, by any handle
      OperationJournalProofs   its theorems
    WorkspaceTransactions   transactions, file writes, rollback, recovery, cleanup
      WorkspaceTransactionsProofs   its theorems
        WorkspaceRestoreProofs   the theorem about what recovery restores
    DirectoryMutations   renames, captures, recursive mkdir and how they are undone
      DirectoryMutationsProofs   its theorems
        DirectoryRestoreProofs   the theorem about what a recovery puts back
    OperationRuns        runs and phases of operations, exits, later diagnostics
      OperationRunsProofs   its theorems
    TreeBackups          content-addressed store, tree backups, their cleanup, restores
      TreeBackupsProofs  its theorems
    MC*                  instances for TLC

`OperationJournal` and `WorkspaceTransactions` extend `FencedLease` and use its
actions as their lease. `LeaseStore` shows that the real store implements
these actions, so what the other two modules assume of leases is itself proved.
`DirectoryMutations`, `OperationRuns` and `TreeBackups` need of the lease only
whether it is still current and keep that in one variable (`leased`, `lease`,
the `leased` of a batch).

**LeaseStore.** `rows` is the table. A call is two steps: `Call` samples the
clock, and `Acquire`, `Heartbeat`, `Release`, `Write` or `Refused` is its
transaction, which may come any time later. `Write` is `require_current_lease` inside a
claim or journal write. `issued`, `released` and `lastWrite` are history
variables. Secret tokens are fresh numbers; the wall clock does not go back.

**OperationJournal.** `batches` is `operation_batches`; the five record tables
share one sequence per batch and are one `log` per batch. A handle is a lease
record somebody still has; any handle ever granted may call any operation. A
refused operation rolls back and is no action. Phases, their transitions, the
guards (`Bound`, `BoundEarlier`, `ForRecoveryAttempt`, `ForCleanup`) and the
takeover of a recovering batch with its handoff record are those of
`journal_guards.py`. Payloads and resource keys are abstracted away.

**WorkspaceTransactions.** An actor is the holder of one grant of the
workspace lease and is known by its fencing token: a transaction, a recovery
or a cleanup, whichever it turns out to be. Its `pc` is the place in the code:

| pc | code |
|---|---|
| entering, open | `SafeTransaction.__enter__`, the body between two writes |
| planned ... observed | the steps of `_run_file_mutation` |
| rolling, inspected | between two batches of a rollback or a recovery; its snapshot of an interrupted one is taken, its takeover not recorded |
| restoring, authorized, writing, written | `recover_batch`: started; the attempt checked, the file compared, the file written |
| restored, refused, settling | its outcome, recorded as success or failure; then claims and artifact |
| committing, deleting | `cleanup_committed_transaction_artifacts` |
| releasing | `_release_claims_at`, then the lease |
| listing | `recover_pending_workspace_batches` before it lists |
| sweeping, deleting | `cleanup_outstanding_workspace_artifacts` |
| ended, abandoned, crashed | gone; what it left is in the database and on the disk |

A batch carries the evidence recovery reads: the snapshot before, whether the
backup and the expected-after checkpoint exist (`proof`), the after checkpoint,
the failure record and its checkpoint, and whether the backup file is there. A
file's content is the batch that wrote it; `renewed` stands for a new inode
and mtime under an old content, which is what the planner of recovery compares
(a snapshot of it is `Renewed`), and `rewritten` is history: the restore of this
batch has written the file. The lease may lapse at any point, a stalled actor
may go on when others have taken over, and `Crash` is possible at every step.

Only the journal is fenced. The writes of files are not: `Mutate` follows the
authority check, and `WriteBack` follows the check of the attempt
(`CheckAttempt`, whose SQLite transaction ends before the restoration runs,
`journal_recovery.py:180-192`) and the comparison of the file (`Compare`,
`filesystem_ops/backups.py:195-209`). Each is a step of its own, so an actor may
stall in front of it, be superseded, and write over what others have made of
the file. The history variable `late` is the set of batches whose file was
written in this way. A takeover reads the file first (`Inspect`) and records what
it read later (`TakeOver`), and its writer may still write in between.

Simplifications: phase `failed` is folded into `recovery_desired` (all readers
in this module treat them alike); each batch has the one recovery action of a
file; all workspaces use one owner name; retries with a known idempotency key,
re-claims that only update a claim's details, and batches of other kinds are
not in it; the settling of one batch is one step, and so are a snapshot of a
file (`_before_snapshot`, `_after_snapshot`) with the checkpoint that records it.

**DirectoryMutations.** One transaction runs a program of steps (a rename, a
capture, a mkdir, or the chain of mkdirs of a recursive one), each a journal
batch; `worker.pc` is the place in `_run_rename_mutation`,
`_run_capture_directory_mutation` or `_run_file_mutation`. Checks, system call,
verification and records are steps of their own, so other programs (`Outsider`)
act between any two of them. An entry of the file system has a true identity
`id` and what a program can see of it: kind, inode number, mtime, ctime and
whether it has a capture token. Inode numbers are used again once free. The
rollback of the transaction and the recovery of the workspace share their
actions (`Actors`): each lists batches, prepares the newest, plans its recovery
actions from the journal (`PlanOf`), and runs them as check, act and verify.
`late` marks a change made after the lease it was begun under was lost.

**OperationRuns.** A worker is a `SafeOperation`, a `SafeTransaction` with an
implicit or an explicit run, or a recovery; its `stage` is the next call of its
context manager. `runs`, `phases`, `batches` and `claims` are the durable rows.
Every storage call may be accepted, be refused because the lease is gone, or
raise for another reason (`Fault`), and each exit path of the three context
managers is followed to its end. A write is reduced to its phase in the journal
and the phase of a run it is linked to, if any: until the implicit run and its
phase exist, a write that is given no links has none
(`workspace_transaction_bookkeeping.py:46`), so one transaction may have linked
and unlinked writes. `HasTouched` is the touched set the exit tests
(`workspace_transaction_operation.py:282`): a run whose phase could not be made
is not in it. `missed` is the set of runs for which the diagnostics of a recovery
have raised. Simplifications: a worker has one run, although
a transaction may touch several (`mark_touched_operation_runs` stops at the first
that raises); a write that is linked to a run is linked to a phase of it; no
explicit phase is made before the implicit one.

**TreeBackups.** Workers back up files into a store without locks: inspection,
hashing, lookup, copy, verification and installation are separate steps; so are
those of a restore. A failed backup leaves a checkpoint of the objects it has
created, which cleanup deletes: the attempt is recorded (`AttemptCleanup`), the
object verified (`VerifyObject`) and unlinked (`DeleteObject`), and the result
recorded (`RecordDeletion`). `cleaner` is where a process that does this is; when it
stops, its cleanup stays attempting and another one resumes it, while the first
may go on later. There is one such process at a time per batch and object in
the model. Files are edited, and an object is damaged, at any point.

## 3. Runs

| run | question | instance | result |
|---|---|---|---|
| `lease_safety` | is the lease table safe when transactions run late? | 1 name, 2 owners, 2 callers, ttl 2, clock to 3, 3 grants | passes, 0.5 million states |
| `journal_recovery` | are evidence, attempts, actions, takeovers and artifact cleanup of a batch consistent? | 1 batch, 3 grants, 1 action, 1 artifact, 6 records | passes |
| `tx_rollback` | do rollback, handoff and clean exit keep claims, backups and files consistent? | 2 files (one created), 2 batches, 2 grants | passes, 2.7 million states |
| `tx_handoff` | are old lists and foreign edits respected by record-only transactions, chains of recoveries and sweeps? | 1 file, 1 batch, 3 grants, of which one may roll back by itself, 1 edit | passes, 3.0 million states |
| `tx_resumed` | can a recovery be interrupted and resumed? | 1 file, 1 batch, 3 grants | violated |
| `tx_claims` | does recovery free the claims of dead transactions? | 1 file, 1 batch, 2 grants | violated |
| `tx_sweep` | does cleanup leave alone what recovery needs? | 1 file, 1 batch, 3 grants | violated |
| `tree_backup` | do objects keep what their names promise, and can a restore be resumed? | 2 backups with a file in common, 2 contents, 1 restore, an edit or a damaged object, 1 lost lease | passes, 3.2 million states |
| `tree_shared` | does a completed backup stay restorable? | same | violated |
| `dirs` | are moves and new directories undone, nothing lost, and does recovery end? | a rename, a capture with a new directory in its place, a recursive mkdir of two; 4 inode numbers, 1 foreign change, 1 crash of a recovery; both platforms | passes, 0.43 million states |
| `dirs_owner` | does recovery remove its own directories only? | same | violated |
| `operation_runs` | do the statuses of runs and phases tell what became of the writes? | an operation or a transaction and two recoveries, up to 2 phases and 2 writes, 3 together, 1 lapse, 1 storage error, 1 crash | passes, 2.2 million states |

Why these bounds are enough to meet the interesting cases. Two grants are a
holder and its successor; three are needed for a takeover of a takeover and
for a cleanup between a transaction and its recovery. Two batches are two
writes to one file, or one to each of two files, which is what ordering,
sibling claims and partial rollback need. A ttl of 2 and a clock to 3 let a
call be delayed past an expiry and a renewal. One file exists before and one
is created, as restoring and removing differ. In `tx_handoff` only the last grant
is of a transaction that rolls back by itself; the other two leave everything to
the sweeps and recoveries the run is about. Two callers with one lease are a transaction's heartbeat
thread and a mutation's. A directory made anew in the place of a captured one
is the one case in which the order of undoing matters to `DirectoryMutations`;
four inode numbers leave one to be used again. Two recoveries after a worker let
the second find what the first has left half done, and one fault of each kind
may hit any of them. `CHECK_DEADLOCK FALSE` is there because every
instance really ends: grants, time, batches and records are bounded, and a
program may simply stop.

Bounds: `MaxFence` caps grants, `MaxTime` the clock, `MaxLog` the records of a
batch, `MaxBatches` the batches of a worker, `MaxEdits` and `MaxOutside`
the acts of other programs, `MaxRecords` phases and writes together, `MaxLosses`, `MaxGrants`, `MaxPhases`, `MaxLapses`,
`MaxFaults` and `MaxCrashes` what their names say.

**Fairness.** Only `DirectoryMutations` states any: `FairSpec` has weak
fairness of `BeginWorkspace` and of the steps of the workspace's recovery. It
is an assumption about the environment, namely that some process calls
`recover_pending` as long as there is work for it and that the call goes on; the code
has no scheduler of its own. Nothing is assumed of the transaction, which may
stop for ever at any step, and the number of crashes of the recovery is
bounded. All other properties are safety properties.

## 4. What the runs show

Holding:

- *Leases.* However late a transaction runs after its clock sample, fencing
  tokens are unique, a released or superseded lease is never accepted again, a
  lease that is live is never taken over, and no interleaving of heartbeats
  keeps a dead holder's lease longer than one ttl. The store implements
  `FencedLease`.
- *Journal.* Records of a batch are in the order of the grants that wrote them,
  the lease-lost marker included; a superseded handle can only ask for recovery
  of a batch nobody has taken over; an attempt is finished once and by the
  grant that began it; phase and records agree across takeovers; evidence of
  the mutation is complete before recovery reads it. The journal implements
  `BatchRecovery`.
- *Transactions.* `RolledBackMeansRestored`: when all writes of a file from
  one on are recovered and those before it stand, the file holds what it held
  before that one, through crashes, takeovers and recoveries that stall and
  resume, as long as no other program has edited files and no superseded actor
  has written this file (see below). `RecoveryKeepsNeededClaims`: nobody takes away a
  transaction's claim while a batch on that file is unfinished.
  `UncommittedIsNotTorn`: recovery that is through with a transaction that did
  not reach its commit has undone all its writes or none.
  `FailedRecoveryHasAReason`: manual intervention is only asked for in cases
  that are listed, the write of a superseded actor among them.
  `CleanupBeginsWhenDone`: no cleanup of a backup begins while its batch is
  unfinished, however old the list it works on. `RestoreRespectsEdits`: a
  recovery that has found an edit of another program in the file overwrites it
  only on evidence that takes it for the write of the batch; an edit made after
  the comparison is overwritten.
  `BackupsOutliveTheirNeed` holds as long as the cleanup of outstanding
  artifacts is not run.
- *Directories and renames.* `NoContentVanishes`: no file and no directory with
  something in it is lost, whatever other programs do between a check and the
  call it is for. `RestoredIsWhatWasMoved`: recovery does not take another
  entry for the one it has to put back, not even one with its inode number,
  but for an entry that another program slipped in before the check of the
  move, so that the journal names it. `RecoveredMovesAreUndone`: what a
  recovered batch had moved has left its target. It does not speak of a step
  whose target is the source of another one: the recovery of that other step
  puts back there what it had taken away, and it may do so after the first one
  was recovered. Under `FairSpec`, `RecoverySettles`: some recovery gets
  through, after which every unfinished batch is recovered or has failed to be,
  and a captured directory nobody interferes with is back, without evidence of
  the worker too.
- *Runs and phases.* `SuccessIsComplete`: a run becomes succeeded in the step
  that gives up its claims and its lease. `OutcomesAreFinal`: only a success is
  ever taken back, by a later grant that has undone one of its writes.
  `EndsAreRecorded`: an exit that keeps its lease, and during which no storage
  call raises, leaves no run it knows of active, whatever its body went through.
  Two exits are excepted, because the code does leave the run active there: the
  failed finalization of an operation and the exit with an error of a transaction
  whose implicit phase could not be made (see below). Of exits with a storage
  error it says nothing. `RecoveryReportsTheRun`: recovery does not free the
  claims of a transaction, one of whose linked writes was undone, before the run
  is on record as failed; but for a transaction with an unlinked write, when the
  diagnostics of the linked one have raised (see below).
- *Tree backups.* `ObjectsAreWhole`, `RestoreWritesOnlyTheBackup`,
  `ResumedRestoreIsNotRefused`: a name in the store stands for its content
  whatever the interleaving of writers, a restore writes nothing else, and an
  interrupted one can be called again. `LostObjectsHaveAnOwner`: an object of a
  completed backup is missing only after damage, or when an unfinished backup
  made it and its cleanup has begun, recorded or not.

Not holding (the findings of `PROJECT.json`):

- `RecoveryIsIdempotent`: a recovery that crashed after restoring the file is
  failed by the recovery that resumes it, which sees the old content under a
  new identity; the claim stays.
- `RecoveryFreesClaims`: a crash between planning and starting a write leaves a
  planned batch that recovery does not look at and whose claims it does not
  count as orphaned; they stay for ever.
- `BackupsOutliveTheirNeed` with cleanup of outstanding artifacts: the backup
  of a write that succeeded in a transaction that then crashed is deleted, and
  recovery cannot roll it back any more.
- `CompletedBackupsStayRestorable`: the cleanup of a failed tree backup deletes
  an object that a completed backup shares with it.
- `RecoveryRemovesOnlyOwnDirectories`: the snapshot taken after a failed mkdir is
  kept as proof that the step created what is there, and recovery removes the
  empty directory of another program (on Windows, where removal is by identity).

Seen while modelling, in the models, and without a run of their own:

- The success path of `SafeOperation.__exit__` that fails records its
  diagnostics after `cleanup_transaction` has released the lease, so they are
  refused and the run stays active (`workspace_operation.py:129-136`);
  `EndsAreRecorded` excepts it.
- An exit with an error marks the runs in the touched set, to which an implicit
  run is added only with its phase. When making the phase has failed, the run
  stays active (`workspace_transaction_operation.py:282`); `EndsAreRecorded`
  excepts it.
- A transaction with an implicit run finalizes its implicit phase only
  (`finalize_operation_success`), one without finalizes all it has touched: an
  explicit phase added to an implicit run stays active in a succeeded run.
- Recovery counts a batch as recovered before it has recorded its diagnostics
  (`workspace_rollback.py:374`). When these raise, a sibling batch frees the
  claims, and the phase of the first keeps its status; so does the run when the
  sibling has no links (`workspace_rollback.py:728-740`), which
  `RecoveryReportsTheRun` excepts.
- A recovery that has checked its attempt and compared the file may stall, be
  superseded, and put the file back over what a later recovery or a later
  transaction has made of it (`journal_recovery.py:192`,
  `filesystem_ops/backups.py:229`); the batch is then in `late`. An edit of another
  program between the comparison and the write is overwritten.
- A writer that mutates its file between the snapshot of a takeover and its
  record (`workspace_rollback.py:432`, `446`) has its batch recovered without an
  action: the recorded failure shows the file as it was before.
- A crash between the unlinking of an object and its record leaves the cleanup
  attempting, and the one that resumes it records it as skipped.
- Failed batches of a record-only transaction that committed are recovered
  later all the same, and turn its succeeded run into `finalization_failed`.
- A crash between a mkdir and its after checkpoint leaves the directory: its
  batch has no proof and is recovered with an empty plan.
- A rename that was put back by an interrupted recovery is not recognised on
  POSIX, where the rename has changed the ctime that
  `rename_recovery_actions.py:103` compares; the batch ends in manual
  intervention.
- A capture that was restored from its before checkpoint by a recovery that
  then crashed has no evidence left for the next one: the directory is back, but
  its batch ends `recovery_failed`.
- A worker that asks for recovery after the workspace has listed its batch as
  attempting makes this recovery pass it over and go on with the older ones
  (`workspace_rollback.py:416`, `journal_recovery.py:238`); a directory that has
  to be removed first is then in their way until the next recovery.
- Two heartbeats of one lease that commit in the opposite order of their clock
  samples move its expiry backwards (`leases.py:241`), and
  `record_recovery_desired` is accepted from phase succeeded
  (`journal_recovery.py:412`); both are actions of the models.

What the properties leave out on purpose: files that a superseded actor has
written, a stalled writer or a stalled recovery (`late`), because nothing ties
these writes to the lease;
transactions that have reached their commit cleanup (`committed`), of which a
crash in the middle of releasing claims lets recovery try to undo the part
whose claims are left; and edits in a window before the after snapshot, which
the journal takes for the transaction's own write.

Every property has a mutant of the code it is about (operators named
`<Definition>_<Change>` next to the definition), under which TLC finds the
property violated.

## 5. Proofs

`LeaseStoreProofs` proves all eight properties of the run `lease_safety` for every set
of names, owners and callers, every ttl and every bound, from
`LeaseStoreAssumption` (the ttl is a positive number, the bounds are numbers)
and `NullAssumption` (the null values are not rows or calls).

The inductive invariant `Inv` is `TypeOK /\ UniqueFences /\ RowInv /\ IssuedInv
/\ ReleasedInv /\ CallInv`. The properties are not inductive alone: uniqueness
of fencing tokens needs that no issued token exceeds the one in the row
(`IssuedInv`); revocation needs that the row of a released grant carries
another secret token and that no token minted later equals an old one
(`ReleasedInv`, `RowInv`); takeover of a live grant and the tenure bound need
that a call in flight has a clock sample of the past (`CallInv`). There is one
lemma per action (`TickInv`, `CallStepInv`, `AcquireInv`, ...), `NextInv` puts
them together, and each theorem follows from `SpecInv`. The two action
properties use `Inv` on the first state of a step. The refinement has a
lemma per action (`AcquireImplements`, ...) that maps each step to a grant, a
lapse of all names whose expiry has come, a renewal, a revocation, a write or
a stutter of `FencedLease`.

`OperationJournalProofs` proves all eight properties of the run
`journal_recovery`, for every set of names, batches, actions and artifacts and
every bound, from `FencedLeaseAssumption`, `OperationJournalAssumption` (the
bounds are numbers) and `NoBatchAssumption` (the absent batch is not a row).

| theorem | property | what it says |
|---|---|---|
| `TypeCorrect` | `TypeOK` | rows and records have their types |
| `JournalIsFenced` | `LogIsFenced` | records are in the order of the grants |
| `EvidenceIsComplete` | `EvidencePrecedesRecovery` | nothing about the mutation is recorded after recovery was asked for |
| `PhaseAgrees` | `PhaseMatchesRecords` | a phase and the latest recovery record agree |
| `StaleWritersAreHarmless` | `StaleWriterOnlyAsksForRecovery` | a superseded handle can only mark its own batch |
| `AttemptsStayFenced` | `AttemptsAreFenced` | an attempt's records are those of the grant that began it |
| `WorkIsDoneOnce` | `RecordsEndOnce` | actions end once, and no artifact is cleaned up twice |
| `JournalImplementsBatchRecovery` | `ImplementsBatchRecovery` | the refinement of `BatchRecovery` |

The inductive invariant is `Inv == TypeOK /\ TokenInv /\ LogIsFenced /\
RecoveryInv /\ EvidencePrecedesRecovery`. `LogIsFenced` is not inductive alone:
nearly every writer must hold the current lease, so that its token is the
latest there is, but the lease-lost marker is written by a handle that has lost it. It
is in order all the same because it asks for the batch to be still bound to
its token and unfinished, and `TokenInv` says that no record of an unfinished
batch is later than the token of its row. `RecoveryInv` names the witness that
`PhaseMatchesRecords` needs: a batch is in a phase of recovery exactly when it
has recovery records, and the latest has that phase.

All operations have one shape, `Appends`: they append records of one token to
the log of one batch and write its row. What appending does to each part of
`Inv` is proved once (`AppendsFenced`, `AppendsTokens`, ..., together
`OperationInv`); a lemma for each operation shows that it has this shape
(`StartRecoveryOperation`, ..., together `JournalStepOperation`); `NextInv`
adds the steps of the lease. In the refinement,
`WorkImplements`, `AskImplements`, `StartImplements` and `FinishImplements` map
the operations to the steps of `BatchRecovery`, or to a stutter.

What a single record may follow is a second invariant, `OrderInv ==
AttemptsAreFenced /\ OwnerInv /\ RecordsEndOnce`, proved on top of `Inv`.
`OwnerInv` is the missing link: while a batch is recovering, its latest
recovery record is by the grant its row is bound to. A takeover writes two
records, the end of the old attempt and the start of the new one, and rebinds
the row in one transaction, so that the link is never broken.

`OperationRunsProofs` proves the five properties of the run `operation_runs`, for any number
of grants and any contexts and bounds (`ContextsAssumption`,
`BoundsAssumption`): `TypeCorrect`, `SuccessMeansComplete` (`SuccessIsComplete`),
`OutcomesStayFinal` (`OutcomesAreFinal`), `ReportsFollowTheRun`
(`RecoveryReportsTheRun`) and `EndsGetRecorded` (`EndsAreRecorded`). The
invariant is `Inv == TypeOK /\ LeaseInv /\ \A g : WorkerInv(g)`. `LeaseInv`
says that grants are made in order. The parts of `WorkerInv` follow an exit
through its stages: what it still has to mark (`TodoInv`, `ExitInv`), that an exit
began with no more storage errors than there are now (`SinceInv`), that
a clean exit is left with no failed write while its lease is current
(`CleanInv`), that nothing but the cleanup is left once the run is marked
(`RecordedInv`), and that what a recovery has read of an earlier run is still
so when it acts on it (`DiagnosisInv`). Nearly every step is one of a worker on
its own rows, so there is one lemma for such steps (`OwnStepInv`) and one for
the writes of a recovery to the rows of another (`OnBehalfInv`); each action is
shown to be one or the other.

`TreeBackupsProofs` proves the five properties of the run `tree_backup`, for all contents,
backups and restores, from `TreeBackupsAssumption` (a backup has entries and
names no path twice, and the names of the model are distinct): `TypeCorrect`,
`ObjectsStayWhole`, `LossesHaveAnOwner`, `RestoresAreExact` and
`RestoresAreResumable`. The store has no locks. That a completed backup
keeps its objects (`KeptInv`) but for damage and a cleanup of another backup
that has begun (a cleaner that has verified an object has an attempt on record)
rests on `CleanInv` (only recovered, partial backups are cleaned up) and
`PhaseInv` (the worker of a recovered batch has ended or has lost its lease, so
it cannot complete it any more). `RestoreInv` and `WriterInv` say what a restore
works from, and what a file is while the restore was the last to write it.

`WorkspaceTransactionsProofs` proves six properties of the runs `tx_rollback`
and `tx_handoff`, for any number of grants, files, batches and edits, from
`FencedLeaseAssumption` and `WorkspaceTransactionsAssumption`:

| theorem | property | what it says |
|---|---|---|
| `TypeCorrect` | `TypeOK` | tables, files and actors have their types |
| `TransactionsAreNotTorn` | `UncommittedIsNotTorn` | all of a transaction's writes are undone, or none |
| `BackupsAreKept` | `BackupsOutliveTheirNeed` | without sweeps, backups are there while they are needed |
| `NeededClaimsAreKept` | `RecoveryKeepsNeededClaims` | recovery takes no claim an unfinished batch needs |
| `CleanupWaits` | `CleanupBeginsWhenDone` | no cleanup of a backup begins too early |
| `EditsAreRespected` | `RestoreRespectsEdits` | recovery overwrites no edit it has found, unless the evidence takes it for the write of the batch |

`BackupsAreKept` has the hypothesis `~Sweeps`, because the run `tx_sweep` shows
that the cleanup of outstanding artifacts does violate the property. The
files have to be finitely many, as the last batch of the last file is looked
for. The invariant has a part for every actor: where it is in its list
(`TodoInv`), in its write (`WriterInv`) and in a cleanup (`CleanerInv`), that a
transaction in its body holds its claims (`HolderInv`), that one which gives up
its claims has undone what it wrote (`UndoneInv`), and that a recovery has
every batch that needs one on its list (`RecovererInv`); `ClaimedInv` and
`KeptInv` say that a write which stands has its claim and its backup. Stalled
actors go on without their lease, so no step can be looked at alone: `Moves(k)`
summarises what a step of actor `k` may do to the others (bind a batch only to
itself, plan batches and change other actors' claims only under the current lease, delete no
needed backup), `MovesInv` proves once that such a step keeps everybody else's
part, and the lemma of each action shows its own part and the summary.

`WorkspaceRestoreProofs` builds on that module, under the same assumptions, and
proves `RolledBackFilesAreRestored`: `Spec => []RolledBackMeansRestored`. What a file
holds depends on all writes to it and on everyone who may still write, so this takes
a second invariant, `StackInv`. The writes to a file form a stack: each batch has a
snapshot from before its write, a mutation pushes and a restore pops. For every file
that is `Undisturbed` (no edit, and no superseded actor has written it: no batch of it is
in `late`; the property itself excludes the others), `Chain` says that the file holds the newest
write that stands and that each snapshot names the newest one below its batch, and
`Evidence` that a recovered batch no longer stands, that a succeeded one does, and that a
failure record that shows the file as before means that the write was not made.
`FilePart(k)` is what actor `k` has a right to: a writer that was not taken over is alone with
its file (`WriterFile`), a transaction that rolls back has its claims (`OwnClaims`), a
recovery has every interrupted batch on its list (`Lists`), and what it has
read, compared or written is still so as long as it has not been superseded (`MemoInv`).
That last part is what the separate steps need: the snapshot of a takeover and
its record, the check of an attempt, the comparison and the write each act on
what the step before has read.

`Effects(k)` says what a step of actor `k` may do to rows and files; in an undisturbed
file it writes only under the current lease and with the claim, or when no write
is left running (`MayTouch`). `StackKept` shows that such a step keeps everybody else's part.
Steps that change rows but no file are dealt with together (`SteadyKept`); the comparison and
the write of a restore each have a lemma (`ComparedFile`, `WrittenBackFile`), and the
steps of superseded actors and of other programs disturb the file they write
(`UnseenStack`, `EnvironmentStack`). `RestoredFiles` reads the property off the
invariant.

`DirectoryMutationsProofs` proves three properties of the run `dirs`, for all
names, programs and inode numbers, both platforms and any number of foreign
changes and crashes, from `DirectoryMutationsAssumption` (the initial tree is
one, and what is moved has no name of the model in it): `TypeCorrect`,
`MovesAreUndone` (`RecoveredMovesAreUndone`) and `ContentStays`
(`NoContentVanishes`). `TreeInv` says that no two entries share an inode number
and that nothing is known of a free name; every step of the program changes the
files in one of four ways (`OwnChange`: tag, rename without replacing, make,
remove an empty directory), and `OwnChangeTree` shows that each keeps the tree
and all content. `MovesAreUndone` needs to know which recoveries run beside
which worker (`LeaseInv`), that the plan for a move has one action and is
finished only by it (`RecoveryInv`), and that nothing is put back at the target
afterwards (`UndoneInv`). That plans have their types takes what `NewestFirst`
returns: the ranks of a finite set of numbers (`RanksAreTaken`).

`DirectoryRestoreProofs` builds on that module, under the same assumption, and
proves `RestoresWhatWasMoved` (`RestoredIsWhatWasMoved`). The recovery compares
snapshots, and inode numbers are used again, so the invariant needs three more
parts. `SnapshotInv`: whatever has the inode number and the modification time of
a snapshot that anyone still holds is the entry it was taken of, because a new
entry is younger than every snapshot. `EvidenceInv`: what a step has found is
what the batch recorded before it, or an entry that other programs have had
their hands on, and steps that are not reached have no record. `PutBackInv`: the
plan of a recovery is made of that evidence, and a row that is being recovered
is not rewritten while its plan is carried out. `UndoingInv` adds that only
renames and captures reach the check that follows a restore.

Only model-checked are `RecoverySettles`, which is a liveness property under
fairness and out of the prover's reach, and `FailedRecoveryHasAReason` of the run
`tx_rollback`. Every other property of a passing run is stated by a theorem. The
properties of the runs that end in a violation have none; `BackupsAreKept` is
about the same property as `tx_sweep`, without the sweeps.

## 6. Not modelled, and the plan

The components marked `not_modelled` or `partly` in `PROJECT.json`, in this
order of importance:

1. `ClaimStore`: create and upsert by several owners, the comparison of an
   expected claim by details and timestamps, and release under a lease.
2. `WorkspaceTransactions`: an artifact cleanup resumed by a fourth grant
   (`workspace_rollback.py:1448`) and the crash of a committed transaction in the
   middle of its releases (`workspace_transaction.py:851`), hazards no property
   covers.
3. `FileMutations`: the atomic replacement of a file with its temporary file,
   and the crash between rename and directory sync.
4. `LeaseHeartbeat`: the thread, its join timeout, how loss reaches the body.
5. `SchemaMigration`: adoption and migration of the database by two processes.

Left out within modelled parts: captures without a token from earlier versions
(`legacy_captures.py`), the recursive deletion of a captured directory with
content, symbolic links, retries with a known idempotency key.

Left out for good: operating system bindings (`_windows_*`, `darwin_xattrs`,
`backend`), path safety checks at descriptor level, payload formats, exception
classes and re-exports. They keep no state that a protocol depends on.
