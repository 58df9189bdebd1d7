---------------------------- MODULE TreeBackups ----------------------------
(***************************************************************************)
(* Tree backups over the content-addressed store:                          *)
(*   filesystem_ops/content_addressed.py       put_file, verify, copy_to   *)
(*   filesystem_ops/tree_backups.py            backup_tree, restore        *)
(*   operation_journal/filesystem_mutations.py the journaled backup_tree   *)
(*   operation_journal/tree_backup_recovery.py cleanup of partial backups  *)
(*                                                                         *)
(* A content is its own digest.  Several backups (one journal batch each), *)
(* several restores, the cleanup of failed backups, and other programs     *)
(* that edit the files work at the same time: a store may be shared by     *)
(* workspaces, and a stalled worker goes on when its lease is gone.        *)
(* Nothing in the store is locked.                                         *)
(***************************************************************************)
EXTENDS Naturals, Sequences, FiniteSets

CONSTANTS
    Contents,    \* file contents, each standing for its digest
    None,        \* no file, no object
    Backups,     \* batches of operation backup_tree
    Entries,     \* Entries[b]: the sequence of paths backup b is asked for
    Restores,    \* calls of restore_tree_backup
    Policies,    \* conflict policies the restores may use
    MaxOutside,  \* bound on the files written and the objects damaged from outside
    MaxLosses    \* bound on the leases that expire

\* backup_tree refuses a path that it is given twice.
ASSUME TreeBackupsAssumption ==
    /\ None \notin Contents \cup Backups /\ "other" \notin Backups
    /\ \A b \in Backups :
        /\ Entries[b] \in Seq(STRING) /\ Entries[b] # <<>>
        /\ \A i, j \in DOMAIN Entries[b] : Entries[b][i] = Entries[b][j] => i = j
    /\ DOMAIN Entries = Backups
    /\ Backups \cap Restores = {}
    /\ Policies \subseteq {"no_replace", "replace"}
    /\ MaxOutside \in Nat /\ MaxLosses \in Nat

VARIABLES
    object,     \* object[d]: what the object path of digest d holds
    file,       \* file[p]: content and mtime of the file at p
    batch,      \* batch[b]: phase, checkpoints and lease of a backup's batch
    worker,     \* worker[b]: where the process that makes backup b is
    cleanup,    \* cleanup[b][d]: status of the cleanup of object d for batch b
    cleaner,    \* cleaner[b][d]: where a process is that cleans up d for batch b
    restore,    \* restore[r]: where a restore is
    edits,      \* number of writes by other programs, the source of new mtimes
    tampered,   \* history: digests whose object was damaged from outside
    writer      \* history: writer[p] is the backup p was last restored from, or "other"

vars == <<object, file, batch, worker, cleanup, cleaner, restore, edits, tampered, writer>>

\* What the making of a backup leaves alone.
others == <<file, cleanup, cleaner, restore, edits, tampered, writer>>

Indices(b) == 1..Len(Entries[b])
Paths == UNION {{Entries[b][i] : i \in Indices(b)} : b \in Backups}
Files == [content : Contents \cup {None}, mtime : 0..MaxOutside]
Snapshots == [content : Contents, mtime : 0..MaxOutside]
Absent == [content |-> None, mtime |-> 0]

Batches == [phase : {"planned", "attempting", "failed", "recovery_desired", "succeeded", "recovered"},
            partial : SUBSET Contents,       \* refs in its partial-artifact checkpoints
            entries : Seq(Snapshots),        \* the backup as far as it is captured
            complete : BOOLEAN,              \* it has a tree_backup checkpoint
            leased : BOOLEAN]                \* its lease is current

Steps == {"idle", "inspect", "digest", "lookup", "copy", "install", "installed",
          "checkpoint", "succeed", "failing", "ended"}
Workers == [pc : Steps, snapshot : Files, source : Files, temp : Contents \cup {None}]

Idle == [pc |-> "idle", snapshot |-> Absent, source |-> Absent, temp |-> None]

CleanupStatuses == {"none", "attempting", "succeeded", "skipped", "failed", "manual"}

\* A process that cleans up is about to unlink an object it has verified, or
\* has unlinked it and not recorded it yet.
Cleaners == {"none", "verified", "unlinked"}

RestoreSteps == {"idle", "entry", "copy", "check", "refused"}
RestoreStates == [pc : RestoreSteps, from : Backups \cup {None}, policy : Policies \cup {"no_replace"},
                  next : Nat \ {0}, fresh : BOOLEAN]
Resting == [pc |-> "idle", from |-> None, policy |-> "no_replace", next |-> 1, fresh |-> FALSE]

Init ==
    /\ object = [d \in Contents |-> None]
    /\ file \in [Paths -> [content : Contents, mtime : {0}]]
    /\ batch = [b \in Backups |-> [phase |-> "planned", partial |-> {}, entries |-> <<>>,
                                   complete |-> FALSE, leased |-> TRUE]]
    /\ worker = [b \in Backups |-> Idle]
    /\ cleanup = [b \in Backups |-> [d \in Contents |-> "none"]]
    /\ cleaner = [b \in Backups |-> [d \in Contents |-> "none"]]
    /\ restore = [r \in Restores |-> Resting]
    /\ edits = 0
    /\ tampered = {}
    /\ writer = [p \in Paths |-> "other"]

-----------------------------------------------------------------------------
(* The content-addressed store.                                            *)

\* verify: the object is there and hashes to its name.
Whole(d) == object[d] = d

\* _path_exists_no_follow on the object path.
Stored(d) == object[d] # None

-----------------------------------------------------------------------------
(* Making a backup: the entries in order, each inspected, put into the     *)
(* store and compared; then the tree_backup checkpoint and mark_succeeded. *)

Path(b) == Entries[b][Len(batch[b].entries) + 1]

Goes(b, pc) == worker' = [worker EXCEPT ![b].pc = pc]

Fails(b) == worker' = [worker EXCEPT ![b] = [Idle EXCEPT !.pc = "failing"]] /\ UNCHANGED <<object, batch>>

\* Mutant: the stored content is not compared with the snapshot.
Unchanged_Assumed(b) == TRUE

\* The content that was stored is the content of the snapshot.
Unchanged(b) == worker[b].source.content = worker[b].snapshot.content

\* put_file has returned: _backup_entry compares its ref with the snapshot.
\* The entry is captured, or the backup refused because the file changed.
Compared(b, record) ==
    LET w == worker[b]
        captured == Append(batch[b].entries, w.snapshot)
        next == IF Len(captured) = Len(Entries[b]) THEN "checkpoint" ELSE "inspect"
    IN  IF Unchanged(b)
        THEN /\ batch' = [batch EXCEPT ![b] = [record EXCEPT !.entries = captured]]
             /\ worker' = [worker EXCEPT ![b] = [Idle EXCEPT !.pc = next]]
        ELSE /\ batch' = [batch EXCEPT ![b] = record]
             /\ worker' = [worker EXCEPT ![b] = [Idle EXCEPT !.pc = "failing"]]

\* create_batch and start_batch_operation.
Begin(b) ==
    /\ worker[b].pc = "idle"
    /\ batch[b].phase = "planned"
    /\ batch[b].leased
    /\ batch' = [batch EXCEPT ![b].phase = "attempting"]
    /\ Goes(b, "inspect")
    /\ UNCHANGED <<object, others>>

\* inspect_path and snapshot_resource of one entry, which must be there.
Inspect(b) ==
    /\ worker[b].pc = "inspect"
    /\ \/ /\ file[Path(b)].content # None
          /\ worker' = [worker EXCEPT ![b].pc = "digest", ![b].snapshot = file[Path(b)]]
          /\ UNCHANGED <<object, batch>>
       \/ file[Path(b)].content = None /\ Fails(b)
    /\ UNCHANGED others

\* put_file hashes the source between two equal lstat results.
Digest(b) ==
    /\ worker[b].pc = "digest"
    /\ \/ /\ file[Path(b)].content # None
          /\ worker' = [worker EXCEPT ![b].pc = "lookup", ![b].source = file[Path(b)]]
          /\ UNCHANGED <<object, batch>>
       \/ file[Path(b)].content = None /\ Fails(b)
    /\ UNCHANGED others

\* An object that is there already is verified and used; it is not recorded
\* as created by this backup.
Lookup(b) ==
    LET d == worker[b].source.content
    IN  /\ worker[b].pc = "lookup"
        /\ \/ ~Stored(d) /\ Goes(b, "copy") /\ UNCHANGED <<object, batch>>
           \/ Whole(d) /\ Compared(b, batch[b]) /\ UNCHANGED object
           \/ Stored(d) /\ ~Whole(d) /\ Fails(b)
        /\ UNCHANGED others

\* The source is copied to a temporary file if its metadata are still those
\* of the hashing.  An edit that keeps the metadata is not noticed here.
Copy(b) ==
    LET f == file[Path(b)]
    IN  /\ worker[b].pc = "copy"
        /\ \/ /\ f.content # None /\ f.mtime = worker[b].source.mtime
              /\ worker' = [worker EXCEPT ![b].pc = "install", ![b].temp = f.content]
              /\ UNCHANGED <<object, batch>>
           \/ (f.content = None \/ f.mtime # worker[b].source.mtime) /\ Fails(b)
        /\ UNCHANGED others

\* Mutant: the temporary file is not hashed before it is installed.
TempVerified_Assumed(b) == TRUE

\* The temporary file is hashed again.
TempVerified(b) == worker[b].temp = worker[b].source.content

\* _install_new_object: the name is taken by a hard link that fails when it
\* exists; then the object of whoever came first has to be whole.
Install(b) ==
    LET d == worker[b].source.content
    IN  /\ worker[b].pc = "install"
        /\ \/ ~TempVerified(b) /\ Fails(b)
           \/ /\ TempVerified(b) /\ ~Stored(d)
              /\ object' = [object EXCEPT ![d] = worker[b].temp]
              /\ Goes(b, "installed")
              /\ UNCHANGED batch
           \/ TempVerified(b) /\ Whole(d) /\ Compared(b, batch[b]) /\ UNCHANGED object
           \/ TempVerified(b) /\ Stored(d) /\ ~Whole(d) /\ Fails(b)
        /\ UNCHANGED others

\* The installed object is verified, and record_created_ref writes the
\* tree_backup_partial_artifacts checkpoint if the lease is still held.
RecordCreated(b) ==
    LET d == worker[b].source.content
    IN  /\ worker[b].pc = "installed"
        /\ \/ /\ Whole(d) /\ batch[b].leased
              /\ Compared(b, [batch[b] EXCEPT !.partial = @ \cup {d}])
              /\ UNCHANGED object
           \/ ~(Whole(d) /\ batch[b].leased) /\ Fails(b)
        /\ UNCHANGED others

\* The tree_backup checkpoint, which names every entry.
RecordBackup(b) ==
    /\ worker[b].pc = "checkpoint"
    /\ \/ /\ batch[b].leased
          /\ batch' = [batch EXCEPT ![b].complete = TRUE]
          /\ Goes(b, "succeed")
          /\ UNCHANGED object
       \/ ~batch[b].leased /\ Fails(b)
    /\ UNCHANGED others

\* mark_succeeded; without the lease it raises and the batch stays as it is.
Succeed(b) ==
    /\ worker[b].pc = "succeed"
    /\ batch' = [batch EXCEPT ![b].phase = IF batch[b].leased THEN "succeeded" ELSE @]
    /\ Goes(b, "ended")
    /\ UNCHANGED <<object, others>>

\* _record_tree_backup_failure: mark_failed, or the lease-lost marker, which
\* is refused for a batch somebody has taken over in the meantime.
RecordFailure(b) ==
    /\ worker[b].pc = "failing"
    /\ batch' = [batch EXCEPT ![b].phase =
            IF batch[b].leased THEN "failed"
            ELSE IF @ = "attempting" THEN "recovery_desired" ELSE @]
    /\ Goes(b, "ended")
    /\ UNCHANGED <<object, others>>

\* The lease expires.  A worker that has crashed is one that takes no further
\* step; one that was only stalled goes on.
LoseLease(b) ==
    /\ batch[b].leased /\ Cardinality({c \in Backups : ~batch[c].leased}) < MaxLosses
    /\ worker[b].pc \notin {"idle", "ended"}
    /\ batch' = [batch EXCEPT ![b].leased = FALSE]
    /\ UNCHANGED <<object, worker, others>>

-----------------------------------------------------------------------------
(* Recovery has nothing to undo for a backup, which only read the tree; it *)
(* ends with the cleanup of the objects a partial backup has left.         *)

\* Rollback by the transaction itself, or recovery under a later lease.
Recover(b) ==
    /\ \/ batch[b].phase = "failed"
       \/ ~batch[b].leased /\ batch[b].phase \in {"attempting", "recovery_desired"}
    /\ batch' = [batch EXCEPT ![b].phase = "recovered"]
    /\ UNCHANGED <<object, file, worker, cleanup, cleaner, restore, edits, tampered, writer>>

\* Mutant: the tree_backup checkpoint is not looked for.
Candidates_Always(b) == batch[b].partial

\* plan_tree_backup_artifact_cleanup_candidates, from the checkpoints of the
\* batch itself.
Candidates(b) == IF batch[b].complete THEN {} ELSE batch[b].partial

\* What the cleanup makes of an object that cannot be deleted.
Verdict(d) == IF Stored(d) THEN "manual" ELSE "skipped"

\* A candidate is planned, verified and marked attempting, or settled when it
\* is gone or damaged; a cleanup that failed or asked for manual intervention
\* is tried again by a later one.
AttemptCleanup(b, d) ==
    /\ batch[b].phase = "recovered"
    /\ d \in Candidates(b)
    /\ cleanup[b][d] \in {"none", "failed", "manual"}
    /\ cleanup' = [cleanup EXCEPT ![b][d] = IF Whole(d) THEN "attempting" ELSE Verdict(d)]
    /\ UNCHANGED <<object, file, batch, worker, cleaner, restore, edits, tampered, writer>>

\* The object is verified once more.  A cleanup that was interrupted after it
\* was marked is resumed here, whatever became of the process that made the
\* mark: it may have crashed, or be stalled and go on later.
VerifyObject(b, d) ==
    /\ cleanup[b][d] = "attempting"
    /\ \/ /\ Whole(d)
          /\ cleaner' = [cleaner EXCEPT ![b][d] = "verified"]
          /\ UNCHANGED cleanup
       \/ /\ ~Whole(d)
          /\ cleanup' = [cleanup EXCEPT ![b][d] = Verdict(d)]
          /\ UNCHANGED cleaner
    /\ UNCHANGED <<object, file, batch, worker, restore, edits, tampered, writer>>

\* A result is recorded, unless another process has settled the cleanup.
Settles(b, d, result) ==
    /\ cleaner' = [cleaner EXCEPT ![b][d] = "none"]
    /\ cleanup' = IF cleanup[b][d] = "attempting"
                  THEN [cleanup EXCEPT ![b][d] = result] ELSE cleanup

\* delete_file: the name is unlinked, whatever is there by now; or it is gone
\* already, or cannot be unlinked.
DeleteObject(b, d) ==
    /\ cleaner[b][d] = "verified"
    /\ \/ /\ Stored(d)
          /\ object' = [object EXCEPT ![d] = None]
          /\ cleaner' = [cleaner EXCEPT ![b][d] = "unlinked"]
          /\ UNCHANGED cleanup
       \/ /\ Settles(b, d, IF Stored(d) THEN "failed" ELSE "skipped")
          /\ UNCHANGED object
    /\ UNCHANGED <<file, batch, worker, restore, edits, tampered, writer>>

\* _record_artifact_cleanup_terminal_result after the unlink, a step of its own:
\* a process that crashes before it leaves the cleanup attempting.  The unlink
\* counts as failed when it could not be made durable.
RecordDeletion(b, d) ==
    /\ cleaner[b][d] = "unlinked"
    /\ \E result \in {"succeeded", "failed"} : Settles(b, d, result)
    /\ UNCHANGED <<object, file, batch, worker, restore, edits, tampered, writer>>

-----------------------------------------------------------------------------
(* Restoring a completed backup.                                           *)

Entry(r) == batch[restore[r].from].entries[restore[r].next]
Target(r) == Entries[restore[r].from][restore[r].next]

\* _matching_restored_snapshot: content and mtime are those of the entry.
Matches(entry, f) == f.content = entry.content /\ f.mtime = entry.mtime

Moves(r, pc) == restore' = [restore EXCEPT ![r].pc = pc]

\* Mutant: a file that is there is in the way, restored already or not.
EntryRestorable_Absent(b, i, policy) ==
    /\ Whole(batch[b].entries[i].content)
    /\ file[Entries[b][i]].content = None \/ policy = "replace"

\* _preflight_restore_entry for one entry.
EntryRestorable(b, i, policy) ==
    LET entry == batch[b].entries[i]
        f == file[Entries[b][i]]
    IN  /\ Whole(entry.content)
        /\ f.content = None \/ Matches(entry, f) \/ policy = "replace"

\* Everything is checked before anything is restored.
BeginRestore(r, b, policy) ==
    /\ restore[r].pc \in {"idle", "refused"}
    /\ batch[b].complete
    /\ restore' = [restore EXCEPT ![r] =
            [Resting EXCEPT !.from = b, !.policy = policy,
             !.pc = IF \A i \in Indices(b) : EntryRestorable(b, i, policy)
                    THEN "entry" ELSE "refused"]]
    /\ UNCHANGED <<object, file, batch, worker, cleanup, cleaner, edits, tampered, writer>>

\* The call returns or raises (RestoreConflictError, BackupContentMismatchError);
\* it may be made again.
Ends(r) == restore' = [restore EXCEPT ![r] = Resting]

\* Mutant: the next entry is taken without asking whether there is one.
Advance_Past(r) == restore' = [restore EXCEPT ![r].next = @ + 1, ![r].pc = "entry"]

\* The entry is restored; go on to the next one.
Advance(r) ==
    IF restore[r].next = Len(Entries[restore[r].from]) THEN Ends(r)
    ELSE restore' = [restore EXCEPT ![r].next = @ + 1, ![r].pc = "entry"]

\* _restore_entry looks at the target again: restored already, in the way, or
\* to be copied, without replacing when nothing was there.
LookAtEntry(r) ==
    LET f == file[Target(r)]
    IN  /\ restore[r].pc = "entry"
        /\ \/ f.content # None /\ Matches(Entry(r), f) /\ Advance(r)
           \/ /\ f.content # None /\ ~Matches(Entry(r), f) /\ restore[r].policy = "no_replace"
              /\ Ends(r)
           \/ /\ f.content = None \/ (~Matches(Entry(r), f) /\ restore[r].policy = "replace")
              /\ restore' = [restore EXCEPT ![r].pc = "copy", ![r].fresh = f.content = None]
        /\ UNCHANGED <<object, file, batch, worker, cleanup, cleaner, edits, tampered, writer>>

\* Mutant: the mtime is left to the file system.
CopiedFile_NewTime(r) == [content |-> object[Entry(r).content], mtime |-> edits]

\* The file copy_to leaves: content from the object, mtime from the entry.
CopiedFile(r) == [content |-> object[Entry(r).content], mtime |-> Entry(r).mtime]

\* Mutant: the copy is not hashed against the name of the object.
Copyable_Assumed(d) == Stored(d)

\* copy_to verifies the object and hashes the copy it makes of it.
Copyable(d) == Whole(d)

\* The copy is installed by a link, when nothing was at the target before.
InTheWay(r) == restore[r].fresh /\ file[Target(r)].content # None

\* copy_to, ending in the link or in a replace.
CopyEntry(r) ==
    LET p == Target(r)
        d == Entry(r).content
    IN  /\ restore[r].pc = "copy"
        /\ \/ /\ Copyable(d) /\ ~InTheWay(r)
              /\ file' = [file EXCEPT ![p] = CopiedFile(r)]
              /\ writer' = [writer EXCEPT ![p] = restore[r].from]
              /\ Moves(r, "check")
           \/ /\ Copyable(d) /\ InTheWay(r)
              /\ Ends(r)
              /\ UNCHANGED <<file, writer>>
           \/ ~Copyable(d) /\ Ends(r) /\ UNCHANGED <<file, writer>>
        /\ UNCHANGED <<object, batch, worker, cleanup, cleaner, edits, tampered>>

\* The target is read back and compared with the entry.
CheckEntry(r) ==
    /\ restore[r].pc = "check"
    /\ \/ Matches(Entry(r), file[Target(r)]) /\ Advance(r)
       \/ ~Matches(Entry(r), file[Target(r)]) /\ Ends(r)
    /\ UNCHANGED <<object, file, batch, worker, cleanup, cleaner, edits, tampered, writer>>

\* A crash, or check_authority raising between two entries.
StopRestore(r) ==
    /\ restore[r].pc \in {"entry", "copy", "check"}
    /\ Ends(r)
    /\ UNCHANGED <<object, file, batch, worker, cleanup, cleaner, edits, tampered, writer>>

-----------------------------------------------------------------------------
(* The world outside (external to src/).                                   *)

\* Another program writes a file, also within the granularity of its mtime.
Edit(p) ==
    /\ edits + Cardinality(tampered) < MaxOutside
    /\ edits' = edits + 1
    /\ \E c \in Contents, m \in {file[p].mtime, edits + 1} :
        /\ [content |-> c, mtime |-> m] # file[p]
        /\ file' = [file EXCEPT ![p] = [content |-> c, mtime |-> m]]
    /\ writer' = [writer EXCEPT ![p] = "other"]
    /\ UNCHANGED <<object, batch, worker, cleanup, cleaner, restore, tampered>>

Remove(p) ==
    /\ file[p].content # None
    /\ file' = [file EXCEPT ![p] = Absent]
    /\ writer' = [writer EXCEPT ![p] = "other"]
    /\ UNCHANGED <<object, batch, worker, cleanup, cleaner, restore, edits, tampered>>

\* An object is damaged outside the program.
Tamper(d) ==
    /\ Stored(d)
    /\ d \notin tampered /\ edits + Cardinality(tampered) < MaxOutside
    /\ tampered' = tampered \cup {d}
    /\ \E v \in Contents \ {d} : object' = [object EXCEPT ![d] = v]
    /\ UNCHANGED <<file, batch, worker, cleanup, cleaner, restore, edits, writer>>

Next ==
    \/ \E b \in Backups :
        \/ Begin(b) \/ Inspect(b) \/ Digest(b) \/ Lookup(b) \/ Copy(b) \/ Install(b)
        \/ RecordCreated(b) \/ RecordBackup(b) \/ Succeed(b) \/ RecordFailure(b)
        \/ LoseLease(b) \/ Recover(b)
        \/ \E d \in Contents :
             AttemptCleanup(b, d) \/ VerifyObject(b, d) \/ DeleteObject(b, d) \/ RecordDeletion(b, d)
        \/ \E r \in Restores, policy \in Policies : BeginRestore(r, b, policy)
    \/ \E r \in Restores : LookAtEntry(r) \/ CopyEntry(r) \/ CheckEntry(r) \/ StopRestore(r)
    \/ \E p \in Paths : Edit(p) \/ Remove(p)
    \/ \E d \in Contents : Tamper(d)

Spec == Init /\ [][Next]_vars

-----------------------------------------------------------------------------
(* Properties.                                                             *)

TypeOK ==
    /\ object \in [Contents -> Contents \cup {None}]
    /\ file \in [Paths -> Files]
    /\ \A b \in Backups : Len(batch[b].entries) <= Len(Entries[b])
    /\ batch \in [Backups -> Batches]
    /\ worker \in [Backups -> Workers]
    /\ cleanup \in [Backups -> [Contents -> CleanupStatuses]]
    /\ cleaner \in [Backups -> [Contents -> Cleaners]]
    /\ restore \in [Restores -> RestoreStates]
    /\ \A r \in Restores : restore[r].from # None => restore[r].next \in Indices(restore[r].from)
    /\ edits \in 0..MaxOutside
    /\ tampered \subseteq Contents
    /\ writer \in [Paths -> Backups \cup {"other"}]

\* An object the program itself has stored holds the content its name
\* promises, whatever the files did while it was hashed, copied and linked
\* (put_file's three hashes, _install_new_object).
ObjectsAreWhole == \A d \in Contents : Stored(d) /\ d \notin tampered => Whole(d)

\* The objects of a completed backup are there, unless they were damaged from
\* outside or belonged to another, unfinished backup that is being or has been
\* cleaned up: its own cleanup never deletes one, however late a stalled cleanup
\* unlinks, and no object is missing from the start (_backup_entry's comparison,
\* plan_tree_backup_artifact_cleanup_candidates).
LostObjectsHaveAnOwner ==
    \A b \in Backups : batch[b].complete =>
        \A i \in Indices(b) :
            LET d == batch[b].entries[i].content
            IN  Stored(d) \/ d \in tampered
                \/ \E o \in Backups \ {b} :
                      d \in batch[o].partial /\ ~batch[o].complete /\ cleanup[o][d] # "none"

\* A file last written by a restore is exactly the file of the backup, also
\* when an object was damaged before or during the restore (copy_to).
RestoreWritesOnlyTheBackup ==
    \A p \in Paths, b \in Backups : writer[p] = b =>
        \E i \in Indices(b) : Entries[b][i] = p /\ Matches(batch[b].entries[i], file[p])

\* A restore is refused for a damaged object or for a file somebody else has
\* written, never for a file that an earlier, interrupted restore of the same
\* backup has put back: it can be run again (_matching_restored_snapshot).
ResumedRestoreIsNotRefused ==
    [][\A r \in Restores, b \in Backups :
         restore[r].pc = "idle" /\ restore'[r].pc = "refused" /\ restore'[r].from = b
         => \E i \in Indices(b) :
              \/ ~Whole(batch[b].entries[i].content)
              \/ file[Entries[b][i]].content # None /\ writer[Entries[b][i]] # b]_vars

\* What the repository promises of a completed backup: its content can be
\* verified at the restore (DESIGN.md:225).  The cleanup of another backup's
\* partial artifacts breaks it.
CompletedBackupsStayRestorable ==
    \A b \in Backups : batch[b].complete =>
        \A i \in Indices(b) : batch[b].entries[i].content \in tampered \/ Whole(batch[b].entries[i].content)
=============================================================================
