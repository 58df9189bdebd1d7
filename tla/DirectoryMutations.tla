------------------------- MODULE DirectoryMutations -------------------------
(***************************************************************************)
(* The journaled mutations that move and create names instead of writing   *)
(* a file, and how they are undone:                                        *)
(*   operation_journal/filesystem_mutations.py   rename_no_replace,        *)
(*                                    capture_directory, make_directory    *)
(*   workspace_recursive_mkdir.py                recursive mkdir           *)
(*   filesystem_ops/renames.py, capture_directories.py, no_replace_rename  *)
(*   operation_journal/*_recovery_planning.py, *_recovery_actions.py       *)
(*   workspace_rollback.py            which batches are recovered, in what *)
(*                                    order, and which are refused         *)
(*                                                                         *)
(* One transaction runs a program of such steps, one journal batch each.   *)
(* It is undone by its own rollback or by a recovery of the workspace, and *)
(* other programs create, edit, move and delete the same names meanwhile.  *)
(* An inode number may be used again once its directory is gone.           *)
(***************************************************************************)
EXTENDS Naturals, Sequences, FiniteSets, FiniteSetsExt

CONSTANTS
    Paths,         \* path names
    Parent,        \* Parent[p]: the directory p is in, or Top
    Top,           \* a directory nobody touches
    Inodes,        \* inode numbers
    Programs,      \* what the transaction may be asked to do
    Initially,     \* Initially[p]: what is at p at first, and its inode number
    Platforms,     \* subset of {"posix", "windows"}
    Policy,        \* captured_directory_cleanup: "automatic" or "retain"
    MaxOutside,    \* bound on the changes by other programs
    MaxCrashes     \* bound on the crashes of a workspace recovery

Operations == {"rename", "capture", "make"}

ASSUME DirectoryMutationsAssumption ==
    /\ Parent \in [Paths -> Paths \cup {Top}] /\ Top \notin Paths
    /\ Inodes \subseteq Nat \ {0} /\ IsFiniteSet(Inodes) /\ Inodes # {}
    /\ Programs \subseteq Seq([op : Operations, path : Paths, to : Paths])
    \* What is renamed or captured has no name of this model in it.
    /\ \A s \in Programs : \A i \in 1..Len(s) : s[i].op # "make" =>
           \A p \in Paths : Parent[p] \notin {s[i].path, s[i].to}
    /\ Initially \in [Paths -> [kind : {"absent"}, ino : {0}] \cup
                                [kind : {"file", "directory"}, ino : Inodes]]
    /\ \A p, q \in Paths : Initially[p].ino = Initially[q].ino /\ p # q => Initially[p].ino = 0
    /\ \A p \in Paths : Initially[p].ino # 0 /\ Parent[p] # Top =>
           Initially[Parent[p]].kind = "directory"
    /\ Platforms \subseteq {"posix", "windows"}
    /\ Policy \in {"automatic", "retain"}
    /\ MaxOutside \in Nat /\ MaxCrashes \in Nat

VARIABLES
    program,    \* the steps the body of the transaction asks for
    platform,   \* what the system calls can do
    fs,         \* fs[p]: what is at p
    time,       \* the clock of the file system
    batch,      \* batch[i]: the journal batch of step i
    worker,     \* where the transaction is
    leased,     \* the lease the transaction was given is current
    recovery,   \* recovery[r]: where a recovery is
    outside,    \* number of changes by other programs
    crashes,    \* number of crashes of a workspace recovery
    moved,      \* history: moved[i] is the entry step i moved or created, 0 if none
    restored,   \* history: restored[i] is the entry a recovery found or put back
    removed,    \* history: directories the program has removed
    touched,    \* history: entries other programs have created, edited, moved or deleted
    late        \* history: a change was made without the lease it was begun with

journal == <<batch, leased>>
history == <<moved, restored, removed, touched, late>>
bounds == <<outside, crashes>>
setting == <<program, platform>>
vars == <<program, platform, fs, time, batch, worker, leased, recovery, outside,
          crashes, moved, restored, removed, touched, late>>

Steps == 1..Len(program)

-----------------------------------------------------------------------------
(* The file system.  The id of an entry stands for its identity proper: it *)
(* is never used again, and a capture token is as good as the id.          *)

Nothing == [id |-> 0, ino |-> 0, kind |-> "absent", mtime |-> 0, ctime |-> 0,
            tagged |-> FALSE, filled |-> FALSE]

\* A checkpoint that was not recorded.
Unseen == [Nothing EXCEPT !.kind = "unseen"]

Exists(p) == fs[p].kind # "absent"
IsDirectory(p) == fs[p].kind = "directory"
HasParent(p) == Parent[p] \in {Top} \cup {q \in Paths : IsDirectory(q)}
Children(p) == {q \in Paths : Parent[q] = p /\ Exists(q)}
IsEmpty(p) == ~fs[p].filled /\ Children(p) = {}
FreeInodes == Inodes \ {fs[p].ino : p \in Paths}

New(kind, ino) == [id |-> time + 1, ino |-> ino, kind |-> kind, mtime |-> time + 1,
                   ctime |-> time + 1, tagged |-> FALSE, filled |-> FALSE]

\* Mutant of CanRename: the rename replaces an existing destination.
CanRename_Replacing(p, q) == Exists(p) /\ HasParent(q)

\* The no-replace rename of Linux, macOS and Windows.
CanRename(p, q) == Exists(p) /\ ~Exists(q) /\ HasParent(q)

\* Mutant of Renamed: the source stays, as it does for a copy.
Renamed_Copied(p, q) == [fs EXCEPT ![q] = fs[p]]

\* POSIX systems change the ctime of what is renamed; the ctime of Windows
\* is the time of creation.
Renamed(p, q) ==
    LET entry == IF platform = "posix" THEN [fs[p] EXCEPT !.ctime = time + 1] ELSE fs[p]
    IN  [fs EXCEPT ![p] = Nothing, ![q] = entry]

\* _same_identity, _same_recorded_identity, _snapshot_identity_matches
SameStat(e, f) == e.kind = f.kind /\ e.ino = f.ino /\ e.mtime = f.mtime

\* DirectoryIdentity
SameDirectory(e, f) == e.kind = "directory" /\ f.kind = "directory" /\ e.ino = f.ino

\* require_directory_capture_token
SameToken(e, f) == e.tagged /\ f.tagged /\ e.id = f.id

SameCapture(e, f) == SameDirectory(e, f) /\ SameToken(e, f)

-----------------------------------------------------------------------------
(* Batches, the worker, recoveries *)

Moves(i) == program[i].op # "make"
Path(i) == program[i].path
Target(i) == program[i].to

Phases == {"none", "skipped", "attempting", "failed", "recovery_desired", "succeeded",
           "recovering", "recovered", "recovery_failed"}
Entries == [id : Nat, ino : Inodes \cup {0}, kind : {"absent", "unseen", "file", "directory"},
            mtime : Nat, ctime : Nat, tagged : BOOLEAN, filled : BOOLEAN]
Cleanups == {"none", "planned", "retained", "attempting", "succeeded", "skipped", "manual"}

Batches == [phase : Phases,
            before : Entries,     \* before checkpoint
            record : Entries,     \* rename_record or captured_directory evidence; the
                                  \* after or failure checkpoint of a created directory
            group : BOOLEAN,      \* a recovery record names the steps of a recursive mkdir
            manual : BOOLEAN,     \* a recovery record asks for manual intervention
            cleanup : Cleanups]   \* cleanup of the captured directory

NoBatch == [phase |-> "none", before |-> Unseen, record |-> Unseen, group |-> FALSE,
            manual |-> FALSE, cleanup |-> "none"]

Workers == [pc : {"begin", "before", "check", "mutate", "verify", "record", "succeed", "observe",
                  "mark", "desire", "rollback", "clean", "remove", "ended", "done"},
            step : Nat,
            found : Entries,      \* what the mutation found at its source
            mine : Entries,       \* evidence for the recovery record
            manual : BOOLEAN]     \* the recovery record will ask for manual intervention

Actors == {"rollback", "workspace"}

Actions == [do : {"rename", "capture", "remove", "manual"}, step : Nat, want : Entries]
Recoveries == [pc : {"idle", "next", "check", "act", "verify", "ended"},
               listed : [Steps -> Phases],   \* batches still to recover, with the phase read
               at : Nat,                     \* the batch being recovered
               plan : Seq(Actions)]          \* its recovery actions

None == [i \in Steps |-> "none"]
Resting == [pc |-> "idle", listed |-> None, at |-> 0, plan |-> <<>>]

Init ==
    /\ program \in Programs
    /\ platform \in Platforms
    /\ fs = [p \in Paths |-> [Nothing EXCEPT !.kind = Initially[p].kind, !.ino = Initially[p].ino,
                                             !.id = Initially[p].ino]]
    /\ time = Max(Inodes)
    /\ batch = [i \in Steps |-> NoBatch]
    /\ worker = [pc |-> "begin", step |-> 1, found |-> Unseen, mine |-> Unseen,
                 manual |-> FALSE]
    /\ leased = TRUE
    /\ recovery = [r \in Actors |-> Resting]
    /\ outside = 0 /\ crashes = 0
    /\ moved = [i \in Steps |-> 0]
    /\ restored = [i \in Steps |-> 0]
    /\ removed = {} /\ touched = {} /\ late = FALSE

-----------------------------------------------------------------------------
(* The body: one step after the other, as filesystem_mutations.py runs it. *)

Goes(pc) == worker' = [worker EXCEPT !.pc = pc]
Fs(f) == fs' = f /\ time' = time + 1
fixed == <<setting, recovery, bounds, restored, removed, touched, late>>

\* A recursive mkdir is a run of make steps, each for a name in the one before.
Follows(i) == /\ i > 1
              /\ program[i].op = "make" /\ program[i - 1].op = "make"
              /\ Parent[Path(i)] = Path(i - 1)
GroupOf(i) == {j \in Steps : \A k \in Steps :
                   (i < k /\ k <= j) \/ (j < k /\ k <= i) => Follows(k)}

\* plan_directory_creation: the target is free, and what is there above it
\* are directories.
Plannable(i) == /\ ~Exists(Path(Max(GroupOf(i))))
                /\ \A j \in GroupOf(i) : Exists(Path(j)) => IsDirectory(Path(j))

\* The steps for directories that are there already are not taken.
Planned(i) == [j \in Steps |-> IF j \in GroupOf(i) /\ Exists(Path(j))
                               THEN [batch[j] EXCEPT !.phase = "skipped"] ELSE batch[j]]

\* _require_runtime_safe_descent
SafeDescent(i) == \A j \in GroupOf(i) : j <= i /\ Exists(Path(j)) => IsDirectory(Path(j))

Starts(i) == worker' = [worker EXCEPT !.pc = "before", !.found = Unseen, !.mine = Unseen, !.manual = FALSE]

\* Claims, create_batch and start_batch_operation of a step.
Begin ==
    LET i == worker.step IN
    /\ worker.pc = "begin"
    /\ i \in Steps
    /\ leased
    /\ \/ /\ Moves(i)
          /\ batch' = [batch EXCEPT ![i].phase = "attempting"]
          /\ Starts(i)
       \/ /\ ~Moves(i) /\ ~Follows(i) /\ Plannable(i)
          /\ ~Exists(Path(i))
          /\ batch' = [batch EXCEPT ![i].phase = "attempting"]
          /\ Starts(i)
       \/ /\ ~Moves(i) /\ ~Follows(i) /\ Plannable(i)
          /\ Exists(Path(i))
          /\ batch' = Planned(i)
          /\ worker' = [worker EXCEPT !.step = i + 1]
       \/ /\ ~Moves(i) /\ Follows(i) /\ SafeDescent(i)
          /\ batch[i].phase # "skipped"
          /\ batch' = [batch EXCEPT ![i].phase = "attempting"]
          /\ Starts(i)
       \/ /\ batch[i].phase = "skipped"
          /\ worker' = [worker EXCEPT !.step = i + 1]
          /\ UNCHANGED batch
    /\ UNCHANGED <<fixed, fs, time, leased, moved>>

\* The body raises: for a reason of its own, because a call is refused before
\* it has a batch, or because the lease is gone.
BodyRaises ==
    /\ worker.pc = "begin"
    /\ Goes("rollback")
    /\ UNCHANGED <<fixed, fs, time, journal, moved>>

\* The before snapshot and its checkpoint; a directory that is to be captured
\* is tagged before that.  For a move nothing catches a failure here.
Before ==
    LET i == worker.step
        tags == program[i].op = "capture" /\ IsDirectory(Path(i))
        now == IF tags THEN [fs EXCEPT ![Path(i)].tagged = TRUE] ELSE fs
    IN  /\ worker.pc = "before"
        /\ fs' = now
        /\ \/ /\ leased
              /\ batch' = [batch EXCEPT ![i].before = now[Path(i)]]
              /\ Goes("check")
           \/ /\ ~leased
              /\ Goes(IF Moves(i) THEN "rollback" ELSE "observe")
              /\ UNCHANGED batch
        /\ UNCHANGED <<fixed, time, leased, moved>>

\* _require_safe_existing_source, _require_safe_absent_destination,
\* _require_same_device and their like for captures
Movable(i) ==
    /\ Exists(Path(i)) /\ ~Exists(Target(i))
    /\ HasParent(Path(i)) /\ HasParent(Target(i))
    /\ program[i].op = "capture" => IsDirectory(Path(i))

\* _require_authority, then the checks that precede the system call.
Check ==
    LET i == worker.step
        now == IF program[i].op = "capture" THEN [fs EXCEPT ![Path(i)].tagged = TRUE] ELSE fs
    IN  /\ worker.pc = "check"
        /\ \/ /\ leased
              /\ Moves(i) => Movable(i)
              /\ fs' = now
              /\ worker' = [worker EXCEPT !.pc = "mutate", !.found = now[Path(i)]]
           \/ /\ leased => Moves(i) /\ ~Movable(i)
              /\ Goes("observe")
              /\ UNCHANGED fs
        /\ UNCHANGED <<fixed, time, journal, moved>>

\* The system call, which moves or makes whatever it finds by now.  It may be
\* refused, and it may be done and raise while it is made durable.
Mutate ==
    LET i == worker.step IN
    /\ worker.pc = "mutate"
    /\ \/ /\ Moves(i) /\ CanRename(Path(i), Target(i))
          /\ Fs(Renamed(Path(i), Target(i)))
          /\ moved' = [moved EXCEPT ![i] = fs[Path(i)].id]
          /\ Goes("verify")
       \/ /\ ~Moves(i) /\ ~Exists(Path(i)) /\ HasParent(Path(i))
          /\ \E ino \in FreeInodes : Fs([fs EXCEPT ![Path(i)] = New("directory", ino)])
          /\ moved' = [moved EXCEPT ![i] = time + 1]
          /\ Goes("record") \/ Goes("observe")
       \/ Goes("observe") /\ UNCHANGED <<fs, time, moved>>
    /\ late' = (late \/ ~leased)
    /\ UNCHANGED <<setting, journal, recovery, bounds, restored, removed, touched>>

\* _require_destination_identity, _require_post_rename_directory
Verified(i, e) == IF program[i].op = "rename" THEN SameStat(fs[Target(i)], e)
                                              ELSE SameCapture(fs[Target(i)], e)

\* The move is believed when the destination is what the source was and the
\* source is vacated.
Verify ==
    LET i == worker.step IN
    /\ worker.pc = "verify"
    /\ \/ Verified(i, worker.found) /\ ~Exists(Path(i)) /\ Goes("record")
       \/ Goes("observe")
    /\ UNCHANGED <<fixed, fs, time, journal, moved>>

\* _looks_physically_moved
LooksMoved(i) == ~Exists(Path(i)) /\ Exists(Target(i))

\* _rename_payload_from_snapshots, _captured_directory_payload_from_snapshots:
\* the before snapshot is evidence if the destination still matches it.
Ambiguous(i) ==
    LET before == batch[i].before
    IN  IF program[i].op = "rename"
        THEN before.kind = "file" /\ SameStat(fs[Target(i)], before)
        ELSE SameCapture(fs[Target(i)], before)

\* The mutation has raised.  What the paths look like decides which evidence
\* the recovery record will have; a directory to be created is recorded in a
\* failure checkpoint as it is now.
Observe ==
    LET i == worker.step
        proven == Moves(i) /\ LooksMoved(i) /\ Ambiguous(i)
    IN  /\ worker.pc = "observe"
        /\ worker' = [worker EXCEPT !.pc = "mark",
                                    !.mine = IF proven THEN batch[i].before ELSE Unseen,
                                    !.manual = Moves(i) /\ LooksMoved(i) /\ ~Ambiguous(i)]
        /\ batch' = IF ~Moves(i) /\ leased THEN [batch EXCEPT ![i].record = fs[Path(i)]] ELSE batch
        /\ UNCHANGED <<fixed, fs, time, leased, moved>>

\* A recovery record with the evidence of the worker.
Desired(i) == [batch[i] EXCEPT !.phase = "recovery_desired",
                               !.record = IF worker.mine # Unseen THEN worker.mine ELSE @,
                               !.manual = @ \/ worker.manual,
                               !.group = @ \/ ~Moves(i)]

\* record_lease_lost_recovery_desired, which is refused once a recovery has
\* bound the batch to a later lease.
LeaseLost(i) ==
    batch' = IF batch[i].phase \in {"attempting", "failed"} THEN [batch EXCEPT ![i] = Desired(i)] ELSE batch

\* mark_failed
Mark ==
    LET i == worker.step IN
    /\ worker.pc = "mark"
    /\ \/ /\ leased
          /\ batch' = [batch EXCEPT ![i].phase = "failed"]
          /\ Goes("desire")
       \/ ~leased /\ LeaseLost(i) /\ Goes("rollback")
    /\ UNCHANGED <<fixed, fs, time, leased, moved>>

\* record_recovery_desired
Desire ==
    LET i == worker.step IN
    /\ worker.pc = "desire"
    /\ \/ leased /\ batch' = [batch EXCEPT ![i] = Desired(i)]
       \/ ~leased /\ LeaseLost(i)
    /\ Goes("rollback")
    /\ UNCHANGED <<fixed, fs, time, leased, moved>>

\* Without its lease the worker can only ask for recovery, with what it knows.
RecordsNothing(i) ==
    /\ ~leased
    /\ worker' = [worker EXCEPT !.pc = "mark", !.mine = IF Moves(i) THEN worker.found ELSE Unseen]
    /\ UNCHANGED batch

\* The rename_record, captured_directory (with its cleanup record) or after
\* checkpoint.
Record ==
    LET i == worker.step
        evidence == IF Moves(i) THEN worker.found ELSE fs[Path(i)]
        cleanup == CASE program[i].op # "capture" -> "none"
                     [] Policy = "automatic" -> "planned"
                     [] OTHER -> "retained"
    IN  /\ worker.pc = "record"
        /\ \/ /\ leased
              /\ batch' = [batch EXCEPT ![i].record = evidence, ![i].cleanup = cleanup]
              /\ Goes("succeed")
           \/ RecordsNothing(i)
        /\ UNCHANGED <<fixed, fs, time, leased, moved>>

\* mark_succeeded
Succeed ==
    LET i == worker.step IN
    /\ worker.pc = "succeed"
    /\ \/ /\ leased
          /\ batch' = [batch EXCEPT ![i].phase = "succeeded"]
          /\ worker' = [worker EXCEPT !.pc = "begin", !.step = i + 1]
       \/ RecordsNothing(i)
    /\ UNCHANGED <<fixed, fs, time, leased, moved>>

-----------------------------------------------------------------------------
(* The clean exit: the cleanup of captured directories, then the claims and *)
(* the lease are released.                                                  *)

Commit ==
    /\ worker.pc = "begin"
    /\ worker.step > Len(program)
    /\ leased
    /\ Goes("clean")
    /\ UNCHANGED <<fixed, fs, time, journal, moved>>

ToClean == {i \in Steps : batch[i].cleanup = "planned"}

\* cleanup_captured_directory up to the removal
Cleanable(i) == SameCapture(fs[Target(i)], batch[i].record) /\ IsEmpty(Target(i))

\* mark_artifact_cleanup_attempting and the checks, for one captured directory.
CleanUp ==
    /\ worker.pc = "clean"
    /\ leased
    /\ \E i \in ToClean :
          IF Cleanable(i) /\ platform = "windows"
          THEN /\ batch' = [batch EXCEPT ![i].cleanup = "attempting"]
               /\ worker' = [worker EXCEPT !.pc = "remove", !.step = i]
          ELSE /\ batch' = [batch EXCEPT ![i].cleanup = IF Exists(Target(i)) THEN "manual" ELSE "skipped"]
               /\ UNCHANGED worker
    /\ UNCHANGED <<fixed, fs, time, leased, moved>>

\* The identity-conditional removal of an empty directory, one system call.
Removable(p, e) == SameDirectory(fs[p], e) /\ IsEmpty(p)

Removed(p) == [fs EXCEPT ![p] = Nothing]

\* The removal and the record of its outcome.
RemoveCaptured ==
    LET i == worker.step
        p == Target(i)
        done == Removable(p, batch[i].record)
        outcome == CASE done -> "succeeded" [] ~Exists(p) -> "skipped" [] OTHER -> "manual"
    IN  /\ worker.pc = "remove"
        /\ IF done THEN Fs(Removed(p)) /\ removed' = removed \cup {fs[p].id}
                   ELSE UNCHANGED <<fs, time, removed>>
        /\ batch' = IF leased THEN [batch EXCEPT ![i].cleanup = outcome] ELSE batch
        /\ Goes("clean")
        /\ UNCHANGED <<setting, leased, recovery, bounds, moved, restored, touched, late>>

\* Claims and lease are released.
Leave ==
    /\ worker.pc = "clean"
    /\ leased => ToClean = {}
    /\ Goes(IF leased THEN "done" ELSE "ended")
    /\ leased' = FALSE
    /\ UNCHANGED <<fixed, fs, time, batch, moved>>

\* The lease runs out under a worker that is slow, or that has crashed and
\* takes no further step.
LoseLease ==
    /\ leased
    /\ leased' = FALSE
    /\ UNCHANGED <<fixed, fs, time, batch, worker, moved>>

-----------------------------------------------------------------------------
(* Recovery: the transaction's own rollback and the recovery of the         *)
(* workspace go through the batches newest first, plan the actions of a     *)
(* batch when they start on it, and run them.                               *)

Todo(r) == {i \in Steps : recovery[r].listed[i] # "none"}

Recovering(r, state) == recovery' = [recovery EXCEPT ![r] = state]

\* _eligible_recovery_batches marks every batch of the transaction up front.
BeginRollback ==
    LET mine == {i \in Steps : batch[i].phase \in {"failed", "recovery_desired", "succeeded"}}
        listed == [i \in Steps |-> IF i \in mine THEN "recovery_desired" ELSE "none"]
    IN  /\ worker.pc = "rollback"
        /\ Goes("ended")
        /\ \/ /\ leased
              /\ batch' = [i \in Steps |-> IF i \in mine THEN [batch[i] EXCEPT !.phase = "recovery_desired"]
                                                        ELSE batch[i]]
              /\ Recovering("rollback", [Resting EXCEPT !.pc = "next", !.listed = listed])
           \/ ~leased /\ UNCHANGED <<batch, recovery>>
        /\ UNCHANGED <<setting, fs, time, leased, bounds, history>>

\* Mutant of Pending: a batch whose recovery was interrupted is not taken up.
Pending_NotRecovering(i) ==
    batch[i].phase \in {"attempting", "failed", "recovery_desired", "recovery_failed"}

\* _is_pending_workspace_recovery_batch and, for a transaction that has not
\* released its claims, _is_abandoned_succeeded_workspace_recovery_batch
Pending(i) ==
    \/ batch[i].phase \in {"attempting", "failed", "recovering", "recovery_desired", "recovery_failed"}
    \/ batch[i].phase = "succeeded" /\ worker.pc # "done"

\* recover_pending_workspace_batches takes the lease and lists.
BeginWorkspace ==
    /\ recovery["workspace"].pc = "idle"
    /\ ~leased
    /\ \E i \in Steps : Pending(i)
    /\ Recovering("workspace", [Resting EXCEPT !.pc = "next",
                    !.listed = [i \in Steps |-> IF Pending(i) THEN batch[i].phase ELSE "none"]])
    /\ UNCHANGED <<setting, fs, time, journal, worker, bounds, history>>

\* _prepare_workspace_recovery_batch: the phases from which a batch listed in
\* some phase can still be asked to be recovered.
Prepares(listed) ==
    CASE listed = "attempting" -> {"attempting", "failed", "recovery_failed"}
      [] listed \in {"failed", "recovering", "recovery_failed"} -> {"failed", "recovering", "recovery_failed"}
      [] OTHER -> {listed}

\* _has_rename_no_replace_rollback_proof, _has_capture_directory_rollback_proof
\* (a restore planned from the before checkpoint counts).  For directories that
\* were to be created: the after checkpoint shows one, or the failure checkpoint
\* shows none; only for a step of a recursive mkdir may the latter show one.
\* (Within a rollback a step that failed is one with a recovery record.)
Supported(i) ==
    IF Moves(i)
    THEN \/ batch[i].record # Unseen \/ batch[i].manual
         \/ program[i].op = "capture" /\ LooksMoved(i) /\ Ambiguous(i)
    ELSE /\ batch[i].before.kind = "absent"
         /\ \/ batch[i].record.kind = "directory" /\ (batch[i].group => GroupOf(i) # {i})
            \/ batch[i].record.kind = "absent" /\ batch[i].group

Action(do, i) == [do |-> do, step |-> i, want |-> batch[i].record]
Manual(i) == <<Action("manual", i)>>

\* Mutant of RenamePlan: without evidence there is nothing to undo.
RenamePlan_Empty(i) == IF batch[i].record # Unseen THEN <<Action("rename", i)>> ELSE <<>>

\* _latest_rename_payload, else manual intervention
RenamePlan(i) == IF batch[i].record # Unseen THEN <<Action("rename", i)>> ELSE Manual(i)

\* _observed_captured_directory_recovery_action_plan: the before checkpoint and
\* the paths as they are show that the directory was captured.
ObservedCapture(i) == LooksMoved(i) /\ Ambiguous(i)

CapturePlan(i) ==
    CASE batch[i].record # Unseen -> <<Action("capture", i)>>
      [] batch[i].record = Unseen /\ ~batch[i].manual /\ ObservedCapture(i) ->
             <<[Action("capture", i) EXCEPT !.want = batch[i].before]>>
      [] OTHER -> Manual(i)

\* The steps of the recursive mkdir before step i that were taken, and those of
\* them whose after checkpoint shows the directory.
Priors(i) == {j \in GroupOf(i) : j < i /\ batch[j].phase # "skipped"}
ProvenPriors(i) == {j \in Priors(i) : batch[j].record.kind = "directory"}

NewestFirst(S) == [k \in 1..Cardinality(S) |-> CHOOSE j \in S : Cardinality({l \in S : l > j}) = k - 1]

\* _direct_recursive_mkdir_cleanup_plan
DirectPlan(i) ==
    IF batch[i].before.kind = "absent" /\ batch[i].record.kind = "directory"
    THEN <<Action("remove", i)>> ELSE <<>>

\* recursive_mkdir_recovery_action_plans
MakePlan(i) ==
    LET priors == NewestFirst(ProvenPriors(i))
    IN  CASE ~batch[i].group -> DirectPlan(i)
          [] batch[i].group /\ Priors(i) # ProvenPriors(i) -> Manual(i)
          [] OTHER -> DirectPlan(i) \o [k \in DOMAIN priors |-> Action("remove", priors[k])]

PlanOf(i) == CASE program[i].op = "rename" -> RenamePlan(i)
               [] program[i].op = "capture" -> CapturePlan(i)
               [] program[i].op = "make" -> MakePlan(i)

\* The rollback needs the lease for all it records.
HasLease(r) == r = "rollback" => leased

\* The newest batch first.
NextBatch(r) == Max(Todo(r))

\* The next batch is prepared, its recovery started and its actions planned;
\* or it is passed over, because it cannot be prepared, recovered or rolled back.
StartBatch(r) ==
    LET i == NextBatch(r)
        rest == [recovery[r].listed EXCEPT ![i] = "none"]
        ready == /\ batch[i].phase \in Prepares(recovery[r].listed[i])
                 /\ r = "rollback" => Supported(i)
    IN  /\ recovery[r].pc = "next"
        /\ Todo(r) # {}
        /\ HasLease(r)
        /\ IF ready
           THEN /\ batch' = [batch EXCEPT ![i].phase = "recovering"]
                /\ Recovering(r, [pc |-> "check", listed |-> rest, at |-> i, plan |-> PlanOf(i)])
           ELSE /\ Recovering(r, [Resting EXCEPT !.pc = "next", !.listed = rest])
                /\ UNCHANGED batch
        /\ UNCHANGED <<setting, fs, time, worker, leased, bounds, history>>

Current(r) == Head(recovery[r].plan)

\* An action is over: the next one, with the entry it found or put back.
Done(r) ==
    /\ recovery' = [recovery EXCEPT ![r].pc = "check", ![r].plan = Tail(@)]
    /\ UNCHANGED batch

\* record_recovery_failed; the older batches are still recovered.
FailsBatch(r) ==
    LET over == [Resting EXCEPT !.pc = "next", !.listed = recovery[r].listed]
    IN  IF HasLease(r)
        THEN batch' = [batch EXCEPT ![recovery[r].at].phase = "recovery_failed"] /\ Recovering(r, over)
        ELSE Recovering(r, [over EXCEPT !.pc = "ended"]) /\ UNCHANGED batch

\* Mutant of AlreadyRestored: any entry of the right kind will do.
AlreadyRestored_AnyEntry(a) == ~Exists(Target(a.step)) /\ fs[Path(a.step)].kind = a.want.kind

\* _skip_if_already_restored of either kind; that of a rename compares the ctime.
AlreadyRestored(a) ==
    /\ ~Exists(Target(a.step))
    /\ \/ a.do = "rename" /\ SameStat(fs[Path(a.step)], a.want) /\ fs[Path(a.step)].ctime = a.want.ctime
       \/ a.do = "capture" /\ SameCapture(fs[Path(a.step)], a.want)

\* restore_inverse_rename and restore_captured_directory up to the rename
Restorable(a) ==
    /\ ~Exists(Path(a.step)) /\ HasParent(Path(a.step)) /\ HasParent(Target(a.step))
    /\ IF a.do = "rename" THEN SameStat(fs[Target(a.step)], a.want) ELSE SameCapture(fs[Target(a.step)], a.want)

\* remove_created_directory_recovery_action up to the removal
Deletable(a) == Removable(Path(a.step), a.want) /\ platform = "windows"

\* The checks of one action.  They are made once more by the handler when the
\* lease is already lost: it stops at the next write or authority check.
CheckAction(r) ==
    LET a == Current(r)
        found == fs[Path(a.step)].id
    IN  /\ recovery[r].pc = "check"
        /\ recovery[r].plan # <<>>
        /\ \/ ~HasLease(r) /\ FailsBatch(r) /\ UNCHANGED restored
           \/ /\ HasLease(r)
              /\ a.do = "manual"
              /\ FailsBatch(r) /\ UNCHANGED restored
           \/ /\ HasLease(r)
              /\ a.do \in {"rename", "capture"}
              /\ IF Restorable(a)
                 THEN recovery' = [recovery EXCEPT ![r].pc = "act"] /\ UNCHANGED <<batch, restored>>
                 ELSE IF AlreadyRestored(a)
                      THEN Done(r) /\ restored' = [restored EXCEPT ![a.step] = found]
                      ELSE FailsBatch(r) /\ UNCHANGED restored
           \/ /\ HasLease(r)
              /\ a.do = "remove"
              /\ IF ~Exists(Path(a.step)) THEN Done(r)
                 ELSE IF Deletable(a) THEN recovery' = [recovery EXCEPT ![r].pc = "act"] /\ UNCHANGED batch
                      ELSE FailsBatch(r)
              /\ UNCHANGED restored
        /\ UNCHANGED <<setting, fs, time, worker, leased, bounds, moved, removed, touched, late>>

\* The system call of one action, on what is there by now.  It succeeds or is
\* refused; the authority was checked before and is not any more.
Act(r) ==
    LET a == Current(r)
        p == Path(a.step)
        q == Target(a.step)
    IN  /\ recovery[r].pc = "act"
        /\ CASE a.do = "remove" /\ Removable(p, a.want) ->
                    Fs(Removed(p)) /\ removed' = removed \cup {fs[p].id} /\ Done(r)
             [] a.do # "remove" /\ CanRename(q, p) ->
                    /\ Fs(Renamed(q, p))
                    /\ recovery' = [recovery EXCEPT ![r].pc = "verify"]
                    /\ UNCHANGED <<batch, removed>>
             [] OTHER -> FailsBatch(r) /\ UNCHANGED <<fs, time, removed>>
        /\ late' = (late \/ ~HasLease(r))
        /\ UNCHANGED <<setting, worker, leased, bounds, moved, restored, touched>>

\* _require_destination_identity, _ensure_source_path_vacated of a restore
Restored(a) ==
    /\ ~Exists(Target(a.step))
    /\ IF a.do = "rename" THEN SameStat(fs[Path(a.step)], a.want) ELSE SameCapture(fs[Path(a.step)], a.want)

VerifyAction(r) ==
    LET a == Current(r) IN
    /\ recovery[r].pc = "verify"
    /\ IF Restored(a) /\ HasLease(r)
       THEN Done(r) /\ restored' = [restored EXCEPT ![a.step] = fs[Path(a.step)].id]
       ELSE FailsBatch(r) /\ UNCHANGED restored
    /\ UNCHANGED <<setting, fs, time, worker, leased, bounds, moved, removed, touched, late>>

\* record_recovery_succeeded
FinishBatch(r) ==
    /\ recovery[r].pc = "check"
    /\ recovery[r].plan = <<>>
    /\ LET over == [Resting EXCEPT !.pc = "next", !.listed = recovery[r].listed]
       IN  IF HasLease(r)
           THEN batch' = [batch EXCEPT ![recovery[r].at].phase = "recovered"] /\ Recovering(r, over)
           ELSE Recovering(r, [over EXCEPT !.pc = "ended"]) /\ UNCHANGED batch
    /\ UNCHANGED <<setting, fs, time, worker, leased, bounds, history>>

\* The lease is released; what was not recovered is left to the workspace.
EndRecovery(r) ==
    /\ recovery[r].pc = "next"
    /\ Todo(r) = {} \/ ~HasLease(r)
    /\ Recovering(r, [Resting EXCEPT !.pc = IF r = "rollback" THEN "ended" ELSE "idle"])
    /\ leased' = FALSE
    /\ UNCHANGED <<setting, fs, time, batch, worker, bounds, history>>

\* The process that recovers the workspace crashes; another one will start.
CrashWorkspace ==
    /\ crashes < MaxCrashes
    /\ recovery["workspace"].pc # "idle"
    /\ Recovering("workspace", Resting)
    /\ crashes' = crashes + 1
    /\ UNCHANGED <<setting, fs, time, journal, worker, outside, history>>

-----------------------------------------------------------------------------
(* Other programs, at any time, on the names the transaction works with.   *)

Names == {Path(i) : i \in Steps} \cup {Target(i) : i \in Steps}

Outsider(f, id) ==
    /\ outside < MaxOutside
    /\ outside' = outside + 1
    /\ Fs(f)
    /\ touched' = touched \cup {id}
    /\ UNCHANGED <<setting, journal, worker, recovery, crashes, moved, restored, removed, late>>

Create(p) ==
    /\ ~Exists(p) /\ HasParent(p)
    /\ \E kind \in {"file", "directory"}, ino \in FreeInodes :
           Outsider([fs EXCEPT ![p] = New(kind, ino)], time + 1)

\* A file is written; a directory is filled or emptied.
Change(p) ==
    /\ Exists(p)
    /\ Outsider([fs EXCEPT ![p].mtime = time + 1, ![p].ctime = IF platform = "posix" THEN time + 1 ELSE @,
                           ![p].filled = IsDirectory(p) /\ ~@], fs[p].id)

Delete(p) ==
    /\ Exists(p) /\ IsEmpty(p)
    /\ Outsider([fs EXCEPT ![p] = Nothing], fs[p].id)

Move(p, q) ==
    /\ CanRename(p, q) /\ Children(p) = {}
    /\ Outsider(Renamed(p, q), fs[p].id)

Others == \E p \in Names : Create(p) \/ Change(p) \/ Delete(p) \/ \E q \in Names : Move(p, q)

-----------------------------------------------------------------------------
(* The system *)

Body == \/ Begin \/ BodyRaises \/ Before \/ Check \/ Mutate \/ Verify \/ Observe
        \/ Mark \/ Desire \/ Record \/ Succeed
Exit == Commit \/ CleanUp \/ RemoveCaptured \/ Leave \/ BeginRollback
Recover(r) == \/ StartBatch(r) \/ CheckAction(r) \/ Act(r) \/ VerifyAction(r)
              \/ FinishBatch(r) \/ EndRecovery(r)

Next == \/ Body \/ Exit \/ LoseLease
        \/ BeginWorkspace \/ CrashWorkspace
        \/ \E r \in Actors : Recover(r)
        \/ Others

Spec == Init /\ [][Next]_vars

\* recover_pending of some workspace is called as long as there is work for it,
\* and the process it runs in goes on.  Nothing is assumed of the transaction.
Fairness == WF_vars(BeginWorkspace) /\ WF_vars(Recover("workspace"))

FairSpec == Spec /\ Fairness

-----------------------------------------------------------------------------
(* Properties *)

\* The state has its type.
TypeOK ==
    /\ program \in Programs /\ platform \in Platforms
    /\ fs \in [Paths -> Entries]
    /\ \A p \in Paths : fs[p].kind # "unseen" /\ fs[p].id <= time
    /\ \A p, q \in Paths : Exists(p) /\ p # q => fs[p].ino # fs[q].ino
    /\ batch \in [Steps -> Batches]
    /\ worker \in Workers
    /\ leased \in BOOLEAN
    /\ recovery \in [Actors -> Recoveries]
    /\ \A r \in Actors : recovery[r].pc \in {"check", "act", "verify"} => recovery[r].at \in Steps
    /\ outside \in 0..MaxOutside /\ crashes \in 0..MaxCrashes
    /\ moved \in [Steps -> 0..time] /\ restored \in [Steps -> 0..time]
    /\ removed \subseteq 1..time /\ touched \subseteq 1..time
    /\ late \in BOOLEAN

Present == {fs[p].id : p \in {q \in Paths : Exists(q)}}

\* Files and directories with something in them never vanish but by the hand of
\* another program, whatever is moved, put back or cleaned up and however the
\* paths change under it.
NoContentVanishes ==
    [][\A p \in Paths :
          (fs[p].kind = "file" \/ fs[p].filled) /\ outside' = outside =>
              \E q \in Paths : fs'[q].id = fs[p].id]_vars

\* What a recovery takes for restored is what the transaction had moved, or had
\* found before it did, even when its inode number is in use again and paths
\* were exchanged in between.  Only an entry that other programs put in the way
\* of the move, and that the journal has recorded, is taken for it.
RestoredIsWhatWasMoved ==
    \A i \in Steps : restored[i] # 0 =>
        \/ restored[i] \in {moved[i], batch[i].before.id}
        \/ restored[i] \in touched /\ restored[i] = batch[i].record.id

\* A rename or capture whose batch is recovered is undone: what it moved is not
\* where it was moved to, unless another program has had its hands on it, a
\* stalled process has moved it late, or undoing another step puts back there
\* what that one had taken away.
RecoveredMovesAreUndone ==
    \A i \in Steps :
        /\ Moves(i) /\ batch[i].phase = "recovered"
        /\ \A j \in Steps : Moves(j) => Path(j) # Target(i)
        /\ moved[i] # 0 /\ moved[i] \notin touched /\ ~late
        => fs[Target(i)].id # moved[i]

\* A cleanup or a recovery removes directories this transaction has made or
\* captured and no others.
RecoveryRemovesOnlyOwnDirectories ==
    removed \subseteq {moved[i] : i \in Steps}

\* The transaction has committed what step i did.
Committed(i) == batch[i].phase = "succeeded" /\ worker.pc = "done"

\* A directory made in the place of the one step i captured that recovery may
\* not remove: on a system that cannot remove a directory by its identity, or
\* because its creation has left no evidence.
Obstructed(i) ==
    \E j \in Steps \ {i} :
        /\ Path(j) = Path(i) /\ moved[j] # 0
        /\ platform # "windows" \/ batch[j].record.kind # "directory"

\* Step i needs no recovery any more, or recovery has failed for it.
Settled(i) ==
    batch[i].phase \in {"none", "skipped", "recovered", "recovery_failed"} \/ Committed(i)

\* The directory step i captured is back, or has a reason not to be: the
\* transaction has committed, another program or a stalled process has had its
\* hands in, or something is in its place.
CameBack(i) ==
    \/ fs[Path(i)].id = moved[i]
    \/ Committed(i) \/ outside > 0 \/ late \/ Obstructed(i)
    \/ batch[i].cleanup \in {"attempting", "succeeded"}

\* Once the transaction has lost its lease, some recovery gets through: at its
\* end every batch the transaction has left unfinished is recovered or has
\* failed to be (recover_pending_workspace_batches), and a captured directory
\* nobody else has touched is back.  So it is wherever the capture, its rollback
\* and its recoveries were interrupted: from the before checkpoint when the
\* capture was not recorded, after the directory made in its place was removed,
\* by another recovery when the first one found it obstructed.
RecoverySettles ==
    ~leased ~> \A i \in Steps :
        /\ Settled(i)
        /\ program[i].op = "capture" /\ moved[i] # 0 => CameBack(i)

=============================================================================
