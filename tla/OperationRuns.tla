------------------------- MODULE OperationRuns -------------------------
(***************************************************************************)
(* The durable records of operations and their phases.  A worker holds one *)
(* grant of the workspace lease and is a phased operation (SafeOperation), *)
(* a transaction whose writes are linked to a run of its own, or a         *)
(* recovery.  The module follows the status of the run and of its phases   *)
(* from their creation, through the exit of the context manager, to what a *)
(* later recovery records about them.                                      *)
(*                                                                         *)
(* Grants are numbered in the order they are made, the number is the       *)
(* fencing token.  How the grants are made, how a batch is written and how *)
(* it is undone are the subject of LeaseStore, WorkspaceTransactions and   *)
(* OperationJournal: here a write is planned, attempting, succeeded,       *)
(* failed (which stands for every phase that still asks for recovery) or   *)
(* recovered.  Every transaction has resources of its own, so its claims   *)
(* are one member of "claims".                                             *)
(***************************************************************************)
EXTENDS Naturals, Sequences, FiniteSets

CONSTANTS MaxGrants,    \* grants of the workspace lease
          Contexts,     \* what each grant may be used for
          MaxPhases,    \* phases of one run
          MaxBatches,   \* writes of one worker
          MaxRecords,   \* phases and writes of one worker together
          MaxLapses,    \* leases that expire while their worker runs
          MaxFaults,    \* steps in which a storage call raises
          MaxCrashes    \* workers that disappear

Grants == 1..MaxGrants
Kinds == {"operation", "transaction", "recovery"}

ASSUME ContextsAssumption == Contexts \in [Grants -> SUBSET Kinds]
ASSUME BoundsAssumption ==
  /\ {MaxGrants, MaxPhases, MaxBatches, MaxRecords} \subseteq Nat \ {0}
  /\ {MaxLapses, MaxFaults, MaxCrashes} \subseteq Nat

VARIABLES lease,    \* the grant that is current, 0 when none is
          worker,   \* the context manager of each grant, in memory
          runs,     \* workspace_operation_runs, one row per grant at most
          phases,   \* workspace_operation_phases of each run, in order
          batches,  \* the batches of each grant, in order
          claims,   \* the grants whose resource claims are in the table
          lapses, faults, crashes

vars == <<lease, worker, runs, phases, batches, claims, lapses, faults, crashes>>
durable == <<runs, phases, batches, claims>>
bounds == <<lapses, faults, crashes>>

Ended == {"succeeded", "failed", "finalization_failed"}
Statuses == {"active"} \cup Ended
BatchPhases == {"planned", "attempting", "succeeded", "failed", "recovered"}

\* A batch is linked to a phase of its run, or to nothing: phase 0.
Batches == [phase : 0..MaxPhases, state : BatchPhases]

\* Where a worker is.  "out" has not begun, "gone" has crashed; the others are
\* named for the call its context manager makes next.
Stages == {"out", "create_run", "open", "in_batch", "operation_run", "phases", "rollback",
           "runs", "pending", "artifacts", "finalize", "release_claims", "release_lease",
           "diagnose_phase", "diagnose_run", "free", "closed", "gone"}

\* What the exit still has to do once the runs are marked.
Afters == {"release_claims", "abandon", "closed"}

Workers == [kind : Kinds, automatic : BOOLEAN, stage : Stages,
            implicit : BOOLEAN,            \* the transaction made the run itself
            active : 0..MaxPhases,         \* the phase the operation is in
            touched : SUBSET (1..MaxPhases),
            todo : SUBSET (1..MaxPhases),  \* phases the exit still has to mark
            to : {"succeeded", "failed", "finalization_failed"},
            after : Afters, lapsed : BOOLEAN,
            since : 0..MaxFaults,          \* the faults there were when the exit began
            target : Grants \X (1..MaxBatches),    \* the write a recovery is at
            done : SUBSET (Grants \X (1..MaxBatches)),
            missed : SUBSET Grants]        \* runs whose diagnostics have raised

Idle == [kind |-> "operation", automatic |-> FALSE, stage |-> "out", implicit |-> FALSE,
         active |-> 0, touched |-> {}, todo |-> {}, to |-> "succeeded",
         after |-> "closed", lapsed |-> FALSE, since |-> 0, target |-> <<1, 1>>, done |-> {},
         missed |-> {}]

Init ==
  /\ lease = 0
  /\ worker = [g \in Grants |-> Idle]
  /\ runs = [g \in Grants |-> "none"]
  /\ phases = [g \in Grants |-> << >>]
  /\ batches = [g \in Grants |-> << >>]
  /\ claims = {}
  /\ lapses = 0 /\ faults = 0 /\ crashes = 0

At(g, stage) == worker[g].stage = stage
Goto(g, stage) == worker' = [worker EXCEPT ![g].stage = stage]

\* The context manager is left: what it has in memory is gone.
Close(g) == worker' = [worker EXCEPT ![g] = [Idle EXCEPT !.stage = "closed"]]

\* A storage call of g that does its work, one that raises because the lease
\* is no longer current, and one that raises for another reason.
Accepted(g) == lease = g /\ UNCHANGED bounds
LeaseLost(g) == lease # g /\ UNCHANGED bounds
Fault == faults < MaxFaults /\ faults' = faults + 1 /\ UNCHANGED <<lapses, crashes>>
Raises(g) == LeaseLost(g) \/ Fault

-----------------------------------------------------------------------------
(* Terminal statuses.                                                      *)

\* update_operation_run_status and update_operation_phase_status.
MayUpdate(status, to) == status = to \/ (status = "active" /\ to \in Ended)

\* The terminal diagnostic recorded in place of a status, and what it may replace.
\* (Mutant: a failed status is rewritten as well.)
MayDiagnose_Failed(status, to) ==
  to = "finalization_failed" \/ (to = "failed" /\ status = "active")
Diagnostic(to) == IF to = "failed" THEN "failed" ELSE "finalization_failed"
MayDiagnose(status, to) ==
  \/ status = to
  \/ to = "failed" /\ status = "active"
  \/ to = "finalization_failed" /\ status \in {"active", "succeeded"}
Diagnosed(status, to) ==
  IF MayDiagnose(status, Diagnostic(to)) THEN Diagnostic(to) ELSE status

\* update_operation_run_terminal_status and its twin for phases: the statuses the
\* row may have afterwards, and whether the call raised.  A storage error may hit the
\* update alone or the diagnostic as well.
MarksCleanly(g, status, to) == Accepted(g) /\ MayUpdate(status, to)
MarksBadly(g, status, to, new) ==
  \/ LeaseLost(g) /\ new = status
  \/ Accepted(g) /\ ~MayUpdate(status, to) /\ new = Diagnosed(status, to)
  \/ Fault /\ lease = g /\ new = Diagnosed(status, to)
  \/ Fault /\ new = status

-----------------------------------------------------------------------------
(* Entering, and the body of the context manager.                          *)

\* SafeTransaction.__enter__ of any of the three: the grant is made while no
\* other is current; the claims of a recovery are those of other workers.
Enter(g) ==
  /\ At(g, "out") /\ lease = 0
  /\ \A h \in Grants : h < g => ~At(h, "out")
  /\ \E kind \in Contexts[g], automatic \in BOOLEAN :
       /\ automatic => kind = "transaction"
       /\ worker' = [worker EXCEPT ![g].kind = kind, ![g].automatic = automatic,
                       ![g].stage = IF kind = "operation" THEN "create_run" ELSE "open"]
       /\ claims' = IF kind = "recovery" THEN claims ELSE claims \cup {g}
  /\ lease' = g
  /\ UNCHANGED <<runs, phases, batches, bounds>>

\* SafeOperation.__enter__ creates its run; when that fails the transaction is left
\* at once, with nothing to mark.
CreateRun(g) ==
  /\ At(g, "create_run")
  /\ \/ Accepted(g) /\ runs' = [runs EXCEPT ![g] = "active"] /\ Goto(g, "open")
     \/ Raises(g) /\ Goto(g, "release_claims") /\ UNCHANGED runs
  /\ UNCHANGED <<lease, phases, batches, claims>>

Adds(g) == phases' = [phases EXCEPT ![g] = Append(@, "active")]
\* (Mutant: the count of the phases entered so far.)
NextOrder_Count(g) == Len(phases[g])
NextOrder(g) == Len(phases[g]) + 1
HasRoom(g) == Len(phases[g]) + Len(batches[g]) < MaxRecords
Body(g, kind) == At(g, "open") /\ worker[g].kind = kind

\* The body goes on after an error it catches, or leaves with it.
Leave(g) == [worker EXCEPT
  ![g].active = 0, ![g].since = faults',
  ![g].stage = IF worker[g].kind = "operation" THEN "operation_run" ELSE "phases",
  ![g].todo = worker[g].touched, ![g].to = "failed", ![g].after = "release_claims"]

\* A call of the body raises: the error is caught, or leaves a context manager
\* that is in no phase (Exit of an active phase comes first otherwise).
Throws(g) == UNCHANGED worker \/ (worker[g].active = 0 /\ worker' = Leave(g))

\* SafePhase.__enter__: one phase at a time, numbered by entry.
EnterPhase(g) ==
  /\ Body(g, "operation") /\ worker[g].active = 0 /\ NextOrder(g) <= MaxPhases /\ HasRoom(g)
  /\ \/ /\ Accepted(g) /\ Adds(g)
        /\ worker' = [worker EXCEPT ![g].active = NextOrder(g), ![g].touched = @ \cup {NextOrder(g)}]
     \/ Raises(g) /\ Throws(g) /\ UNCHANGED phases
  /\ UNCHANGED <<lease, runs, batches, claims>>

SetPhase(g, i, status) == phases' = [phases EXCEPT ![g][i] = status]

\* SafePhase.__exit__ after a body that ended well or raised; the phase is over in
\* memory whatever the journal says.  An error leaves the operation or is caught.
ExitPhase(g) ==
  LET i == worker[g].active
      left == [worker EXCEPT ![g].active = 0]
  IN /\ Body(g, "operation") /\ i # 0
     /\ \E to \in {"succeeded", "failed"} :
          \/ /\ MarksCleanly(g, phases[g][i], to) /\ SetPhase(g, i, to)
             /\ worker' = left \/ (to = "failed" /\ worker' = Leave(g))
          \/ \E new \in Statuses :
               /\ MarksBadly(g, phases[g][i], to, new) /\ SetPhase(g, i, new)
               /\ worker' \in {left, Leave(g)}
     /\ UNCHANGED <<lease, runs, batches, claims>>

\* The body leaves the operation without leaving its phase: the phase is marked
\* failed and the exit becomes an error.
ReconcileActivePhase(g) ==
  LET i == worker[g].active
  IN /\ Body(g, "operation") /\ i # 0
     /\ \/ MarksCleanly(g, phases[g][i], "failed") /\ SetPhase(g, i, "failed")
        \/ \E new \in Statuses : MarksBadly(g, phases[g][i], "failed", new) /\ SetPhase(g, i, new)
     /\ worker' = Leave(g)
     /\ UNCHANGED <<lease, runs, batches, claims>>

\* ensure_implicit_operation_phase: the run and its phase, in two transactions; a
\* retry after a failure makes what is missing.
EnsureImplicitRun(g) ==
  /\ Body(g, "transaction") /\ runs[g] = "none"
  /\ \/ /\ Accepted(g) /\ runs' = [runs EXCEPT ![g] = "active"]
        /\ worker' = [worker EXCEPT ![g].implicit = TRUE]
     \/ Raises(g) /\ Throws(g) /\ UNCHANGED runs
  /\ UNCHANGED <<lease, phases, batches, claims>>

EnsureImplicitPhase(g) ==
  /\ Body(g, "transaction") /\ worker[g].implicit /\ phases[g] = << >>
  /\ \/ Accepted(g) /\ Adds(g) /\ worker' = [worker EXCEPT ![g].touched = {1}]
     \/ Raises(g) /\ Throws(g) /\ UNCHANGED phases
  /\ UNCHANGED <<lease, runs, batches, claims>>

\* The body of a transaction makes a run, or further phases, with the journal
\* store and closes phases itself.
CreateExplicitRun(g) ==
  /\ Body(g, "transaction") /\ runs[g] = "none" /\ Accepted(g)
  /\ runs' = [runs EXCEPT ![g] = "active"]
  /\ UNCHANGED <<lease, worker, phases, batches, claims>>

CreateExplicitPhase(g) ==
  /\ Body(g, "transaction") /\ runs[g] # "none" /\ NextOrder(g) <= MaxPhases /\ HasRoom(g)
  /\ worker[g].implicit => phases[g] # << >>
  /\ Accepted(g) /\ Adds(g)
  /\ UNCHANGED <<lease, worker, runs, batches, claims>>

CloseExplicitPhase(g) ==
  /\ Body(g, "transaction") /\ Accepted(g)
  /\ \E i \in DOMAIN phases[g], to \in {"succeeded", "failed"} :
       /\ worker[g].implicit => i # 1
       /\ phases[g][i] = "active" /\ SetPhase(g, i, to)
  /\ UNCHANGED <<lease, worker, runs, batches, claims>>

-----------------------------------------------------------------------------
(* Writes, linked to a phase or not.                                       *)

\* resolve_operation_links: an operation links its writes to the phase it is in.  A
\* transaction links one to the phase it is given, or to the one it has made itself:
\* until its run and its phase exist, a write that is given none has no links (0).
Links(g) ==
  IF worker[g].kind = "operation" THEN {worker[g].active} \ {0}
  ELSE DOMAIN phases[g] \cup IF worker[g].implicit /\ phases[g] # << >> THEN {} ELSE {0}

\* create_batch reads the run and the phase again, in the transaction that inserts
\* the batch; the phase of a call is touched even when the insert fails.
LinksAreActive(g, i) == i # 0 => runs[g] = "active" /\ phases[g][i] = "active"
CreateBatch(g) ==
  /\ At(g, "open") /\ worker[g].kind # "recovery" /\ Len(batches[g]) < MaxBatches /\ HasRoom(g)
  /\ \E i \in Links(g) :
       LET touching == [worker EXCEPT ![g].touched = @ \cup ({i} \ {0})] IN
       /\ LinksAreActive(g, i)
       /\ \/ /\ Accepted(g)
             /\ batches' = [batches EXCEPT ![g] = Append(@, [phase |-> i, state |-> "planned"])]
             /\ worker' = [touching EXCEPT ![g].stage = "in_batch"]
          \/ Raises(g) /\ worker' = touching /\ UNCHANGED batches
  /\ UNCHANGED <<lease, runs, phases, claims>>

SetLast(g, state) == batches' = [batches EXCEPT ![g][Len(batches[g])].state = state]
Last(g) == batches[g][Len(batches[g])].state

StartBatch(g) ==
  /\ At(g, "in_batch") /\ Last(g) = "planned"
  /\ \/ Accepted(g) /\ SetLast(g, "attempting") /\ UNCHANGED worker
     \/ Raises(g) /\ Goto(g, "open") /\ UNCHANGED batches
  /\ UNCHANGED <<lease, runs, phases, claims>>

\* The mutation ends, its outcome is recorded or not.  One whose outcome cannot be
\* recorded stays attempting; the request for recovery a worker without a lease may
\* still make for it (OperationJournal) changes nothing here.
EndBatch(g) ==
  /\ At(g, "in_batch") /\ Last(g) # "planned" /\ Goto(g, "open")
  /\ \/ Accepted(g) /\ \E state \in {"succeeded", "failed"} : SetLast(g, state)
     \/ Raises(g) /\ UNCHANGED batches
  /\ UNCHANGED <<lease, runs, phases, claims>>

-----------------------------------------------------------------------------
(* Leaving the context manager.                                            *)

\* The body of a transaction or an operation ends with an error.
ExitWithError(g) ==
  /\ At(g, "open") /\ worker[g].kind # "recovery" /\ worker[g].active = 0
  /\ UNCHANGED <<lease, durable, bounds>> /\ worker' = Leave(g)

\* The body ends well.  A transaction first rolls back what failed in it.
ExitCleanly(g) ==
  /\ At(g, "open") /\ worker[g].kind # "recovery" /\ worker[g].active = 0
  /\ worker' = [worker EXCEPT ![g].since = faults,
                  ![g].stage = IF worker[g].kind = "operation" THEN "artifacts" ELSE "pending"]
  /\ UNCHANGED <<lease, durable, bounds>>

\* The exit knows of a run: it has touched one, or the transaction made it itself.
HasTouched(g) == worker[g].touched # {} \/ worker[g].kind = "operation"
HasLinks(g) == HasTouched(g) \/ worker[g].implicit

\* An error at the exit: the touched phases and runs are marked, then the worker
\* cleans up or abandons its claims to recovery.  The exit of an operation cleans
\* up first and marks afterwards.
FailsFinalization(g, after) == [worker EXCEPT
  ![g].todo = worker[g].touched, ![g].to = "finalization_failed", ![g].after = after,
  ![g].stage = "phases"]
FailsOperation(g) == [worker EXCEPT
  ![g].todo = worker[g].touched, ![g].to = "finalization_failed", ![g].after = "closed",
  ![g].stage = "release_claims"]
FailsExit(g) == IF worker[g].kind = "operation" THEN FailsOperation(g)
                ELSE FailsFinalization(g, "release_claims")

Recovers(g, chosen, rest) ==
  batches' = [batches EXCEPT ![g] =
    [i \in DOMAIN @ |-> [@[i] EXCEPT !.state = IF i \in chosen THEN "recovered"
                           ELSE IF i \in rest THEN "failed" ELSE batches[g][i].state]]]
InState(g, states) == {i \in DOMAIN batches[g] : batches[g][i].state \in states}

\* run_pending_transaction_rollback: an automatic transaction undoes the writes that
\* failed and whose error was caught; what cannot be undone is left to recovery.
RollBackPending(g) ==
  LET pending == IF worker[g].automatic THEN InState(g, {"failed"}) ELSE {}
  IN /\ At(g, "pending")
     /\ \/ pending = {} /\ UNCHANGED <<batches, bounds>> /\ Goto(g, "artifacts")
        \/ /\ pending # {} /\ Accepted(g) /\ Recovers(g, pending, {}) /\ Goto(g, "artifacts")
        \/ /\ pending # {} /\ worker' = FailsFinalization(g, "abandon")
           /\ \/ Accepted(g) /\ \E done \in SUBSET pending : done # pending /\ Recovers(g, done, {})
              \/ Raises(g) /\ UNCHANGED batches
     /\ UNCHANGED <<lease, runs, phases, claims>>

\* cleanup_committed_transaction_artifacts succeeds, or leaves debt.
CleanArtifacts(g) ==
  /\ At(g, "artifacts")
  /\ \/ Goto(g, IF HasLinks(g) THEN "finalize" ELSE "release_claims")
     \/ worker' = FailsExit(g)
  /\ UNCHANGED <<lease, durable, bounds>>

\* The phases finalize_operation_success and finalize_touched_operation_success mark:
\* the one the transaction made itself, or those that were touched; none for an
\* operation, whose phases have ended.
Finalizes(g) == IF worker[g].kind = "operation" THEN {}
                ELSE IF worker[g].implicit THEN {1} \cap DOMAIN phases[g]
                ELSE worker[g].touched

MayFinalize(g) ==
  /\ lease = g /\ MayUpdate(runs[g], "succeeded")
  /\ \A i \in Finalizes(g) : MayUpdate(phases[g][i], "succeeded")
\* (Mutant: the run is marked in a transaction of its own, before the claims.)
Finalize_InTwoSteps(g) ==
  /\ At(g, "finalize") /\ UNCHANGED <<phases, batches, lease, claims>>
  /\ \/ MayFinalize(g) /\ runs' = [runs EXCEPT ![g] = "succeeded"] /\ Goto(g, "release_claims")
     \/ ~MayFinalize(g) /\ worker' = FailsExit(g) /\ UNCHANGED runs
  /\ UNCHANGED bounds

\* The end of a success, in one transaction of the database: phases, claims, run and
\* lease, or nothing.
Finalize(g) ==
  /\ At(g, "finalize")
  /\ \/ /\ MayFinalize(g)
        /\ phases' = [phases EXCEPT ![g] =
             [i \in DOMAIN @ |-> IF i \in Finalizes(g) THEN "succeeded" ELSE @[i]]]
        /\ claims' = claims \ {g}
        /\ runs' = [runs EXCEPT ![g] = "succeeded"]
        /\ lease' = 0
        /\ Close(g) /\ UNCHANGED bounds
     \/ /\ (~MayFinalize(g) /\ UNCHANGED bounds) \/ Fault
        /\ worker' = FailsExit(g)
        /\ UNCHANGED <<lease, runs, phases, claims>>
  /\ UNCHANGED batches
SetRun(g, status) == runs' = [runs EXCEPT ![g] = status]

\* The exit of an operation with an error marks its run, then leaves its
\* transaction, which marks what it has touched once more.
FailOperationRun(g) ==
  /\ At(g, "operation_run") /\ Goto(g, "phases")
  /\ \/ MarksCleanly(g, runs[g], "failed") /\ SetRun(g, "failed")
     \/ \E new \in Statuses : MarksBadly(g, runs[g], "failed", new) /\ SetRun(g, new)
  /\ UNCHANGED <<lease, phases, batches, claims>>

\* mark_touched_operation_phases: the phase of the transaction first, then the
\* others in any order, up to the first that raises.
NextPhases(g) == IF worker[g].implicit /\ 1 \in worker[g].todo THEN {1} ELSE worker[g].todo
AfterPhases(g) == IF worker[g].to = "failed" THEN "rollback" ELSE "runs"
MarkPhase(g) ==
  /\ At(g, "phases")
  /\ \E i \in NextPhases(g) :
       \/ /\ MarksCleanly(g, phases[g][i], worker[g].to) /\ SetPhase(g, i, worker[g].to)
          /\ worker' = [worker EXCEPT ![g].todo = @ \ {i}]
       \/ \E new \in Statuses :
            /\ MarksBadly(g, phases[g][i], worker[g].to, new) /\ SetPhase(g, i, new)
            /\ worker' = [worker EXCEPT ![g].todo = {}]
  /\ UNCHANGED <<lease, runs, batches, claims>>

PhasesMarked(g) ==
  /\ At(g, "phases") /\ worker[g].todo = {} /\ Goto(g, AfterPhases(g))
  /\ UNCHANGED <<lease, durable, bounds>>

\* run_automatic_transaction_rollback: every write of the transaction is undone,
\* or the rest is left to recovery.  One that is still attempting cannot be marked
\* interrupted by the grant that began it.
RollBack(g) ==
  LET open == InState(g, {"attempting", "succeeded", "failed"})
      abandoned == [worker EXCEPT ![g].after = "abandon", ![g].stage = "runs"]
  IN /\ At(g, "rollback")
     /\ \/ /\ ~worker[g].automatic \/ open = {}
           /\ Goto(g, "runs") /\ UNCHANGED <<batches, bounds>>
        \/ /\ worker[g].automatic /\ open # {}
           /\ \/ /\ Accepted(g) /\ InState(g, {"attempting"}) = {}
                 /\ Recovers(g, open, {}) /\ Goto(g, "runs")
              \/ /\ Accepted(g) /\ worker' = abandoned /\ InState(g, {"attempting"}) = {}
                 /\ \E done \in SUBSET open : done # open /\ Recovers(g, done, open \ done)
              \/ Raises(g) /\ worker' = abandoned /\ UNCHANGED batches
              \/ /\ Accepted(g) /\ InState(g, {"attempting"}) # {}
                 /\ worker' = abandoned /\ UNCHANGED batches
     /\ UNCHANGED <<lease, runs, phases, claims>>

\* mark_touched_operation_runs, then cleanup or abandonment.  The exit with an error
\* passes over a run the transaction has made itself and not touched, because its
\* phase could not be made; the failure of a success does not.
\* (Mutant: it is passed over there as well.)
MarksRun_Touched(g) == runs[g] # "none" /\ HasTouched(g)
MarksRun(g) ==
  /\ runs[g] # "none"
  /\ HasTouched(g) \/ (worker[g].implicit /\ worker[g].to = "finalization_failed")
AfterRuns(g) == IF worker[g].after = "release_claims" THEN Goto(g, "release_claims") ELSE Close(g)
MarkRun(g) ==
  /\ At(g, "runs") /\ AfterRuns(g)
  /\ IF MarksRun(g)
     THEN \/ MarksCleanly(g, runs[g], worker[g].to) /\ SetRun(g, worker[g].to)
          \/ \E new \in Statuses : MarksBadly(g, runs[g], worker[g].to, new) /\ SetRun(g, new)
     ELSE UNCHANGED <<runs, bounds>>
  /\ UNCHANGED <<lease, phases, batches, claims>>

\* cleanup_transaction: the claims are released, by owner and scope when the lease
\* is lost, unless the heartbeat has noticed the loss; then the lease.
AfterCleanup(g) ==
  IF worker[g].kind = "operation" /\ worker[g].to = "finalization_failed"
  THEN Goto(g, "phases") ELSE Close(g)
ReleaseClaims(g) ==
  /\ At(g, "release_claims")
  /\ \/ claims' = claims \ {g} /\ Goto(g, "release_lease") /\ UNCHANGED bounds
     \/ LeaseLost(g) /\ AfterCleanup(g) /\ UNCHANGED claims
     \/ Fault /\ Close(g) /\ UNCHANGED claims
  /\ UNCHANGED <<lease, runs, phases, batches>>

ReleaseLease(g) ==
  /\ At(g, "release_lease")
  /\ \/ lease' = (IF lease = g THEN 0 ELSE lease) /\ AfterCleanup(g) /\ UNCHANGED bounds
     \/ Fault /\ Close(g) /\ UNCHANGED lease
  /\ UNCHANGED durable

-----------------------------------------------------------------------------
(* Recovery by a later grant.                                              *)

\* The writes recovery looks for: unfinished ones, and succeeded or recovered
\* ones whose transaction still has its claims.
IsPending(h, i) ==
  LET state == batches[h][i].state
  IN \/ state \in {"attempting", "failed"}
     \/ state \in {"succeeded", "recovered"} /\ h \in claims
Pending == {b \in Grants \X (1..MaxBatches) :
              b[2] \in DOMAIN batches[b[1]] /\ IsPending(b[1], b[2])}

\* recover_pending_workspace_batches: one write is undone, or it fails; one that
\* was recovered before goes straight to the records.  "done" is
\* recovered_batch_ids, which the two cases enter at different points.
RecoverBatch(r) ==
  /\ Body(r, "recovery")
  /\ \E b \in Pending \ worker[r].done :
       LET state == batches[b[1]][b[2]].state
           chosen == [worker EXCEPT ![r].stage = "diagnose_phase", ![r].target = b]
           undone == [chosen EXCEPT ![r].done = @ \cup {b}]
           set(new) == batches' = [batches EXCEPT ![b[1]][b[2]].state = new]
       IN /\ Accepted(r)
          /\ \/ state = "recovered" /\ worker' = chosen /\ UNCHANGED batches
             \/ state # "recovered" /\ worker' = undone /\ set("recovered")
             \/ state # "recovered" /\ UNCHANGED worker /\ set("failed")
  /\ UNCHANGED <<lease, runs, phases, claims>>

\* _record_recovered_batch_operation_terminal_diagnostics: the phase, then the run,
\* that a recovered write is linked to do not stay active or succeeded.
Reopened == {"active", "succeeded"}
TargetPhase(r) == batches[worker[r].target[1]][worker[r].target[2]].phase
PhaseIsOpen(h, i) == i # 0 /\ phases[h][i] \in Reopened
RunIsOpen(h, i) == i # 0 /\ runs[h] \in Reopened

Resume(r) == worker' = [worker EXCEPT ![r].stage = "open", ![r].target = Idle.target,
                                     ![r].missed = @ \cup {worker[r].target[1]}]
DiagnosePhase(r) ==
  LET h == worker[r].target[1]
      i == TargetPhase(r)
  IN /\ At(r, "diagnose_phase")
     /\ \/ ~PhaseIsOpen(h, i) /\ Goto(r, "diagnose_run") /\ UNCHANGED <<phases, bounds>>
        \/ /\ PhaseIsOpen(h, i) /\ Accepted(r)
           /\ SetPhase(h, i, "finalization_failed") /\ Goto(r, "diagnose_run")
        \/ PhaseIsOpen(h, i) /\ Raises(r) /\ Resume(r) /\ UNCHANGED phases
     /\ UNCHANGED <<lease, runs, batches, claims>>

\* (Mutant: only the phase is recorded.)
DiagnoseRun_Skipped(r) == At(r, "diagnose_run") /\ Goto(r, "free") /\ UNCHANGED <<lease, durable, bounds>>
DiagnoseRun(r) ==
  LET h == worker[r].target[1]
      i == TargetPhase(r)
  IN /\ At(r, "diagnose_run")
     /\ \/ ~RunIsOpen(h, i) /\ Goto(r, "free") /\ UNCHANGED <<runs, bounds>>
        \/ RunIsOpen(h, i) /\ Accepted(r) /\ SetRun(h, "finalization_failed") /\ Goto(r, "free")
        \/ RunIsOpen(h, i) /\ Raises(r) /\ Resume(r) /\ UNCHANGED runs
     /\ UNCHANGED <<lease, phases, batches, claims>>

\* _release_recovered_batch_claims: once this recovery has recovered every pending
\* write of the transaction, its claims are released.
Resolved(h, done) == \A b \in Pending : b[1] = h => b \in done
FreeClaims(r) ==
  LET h == worker[r].target[1]
      done == worker[r].done \cup {worker[r].target}
  IN /\ At(r, "free")
     /\ worker' = [worker EXCEPT ![r].stage = "open", ![r].done = done,
                                ![r].target = Idle.target]
     /\ \/ /\ Accepted(r)
           /\ claims' = IF Resolved(h, done) THEN claims \ {h} ELSE claims
        \/ Raises(r) /\ UNCHANGED claims
     /\ UNCHANGED <<lease, runs, phases, batches>>

\* The end: claims of transactions that never planned a write are orphans.
EndRecovery(r) ==
  /\ Body(r, "recovery")
  /\ \/ /\ Accepted(r)
        /\ claims' = claims \ {h \in Grants : h < r /\ batches[h] = << >>}
        /\ lease' = 0
     \/ LeaseLost(r) /\ UNCHANGED <<claims, lease>>
  /\ Close(r)
  /\ UNCHANGED <<runs, phases, batches>>

-----------------------------------------------------------------------------
(* Lapses and crashes.                                                     *)

Running(g) == worker[g].stage \notin {"out", "closed", "gone"}

\* The current lease expires; its worker, if it has one, is not told.  A crash
\* loses what the worker has in memory.
Lapse ==
  /\ lease # 0 /\ lease' = 0
  /\ \/ ~Running(lease) /\ UNCHANGED <<worker, lapses>>
     \/ /\ Running(lease) /\ lapses < MaxLapses /\ lapses' = lapses + 1
        /\ worker' = [worker EXCEPT ![lease].lapsed = TRUE]
  /\ UNCHANGED <<durable, faults, crashes>>

Crash(g) ==
  /\ Running(g) /\ crashes < MaxCrashes /\ crashes' = crashes + 1
  /\ worker' = [worker EXCEPT ![g] = [Idle EXCEPT !.stage = "gone"]]
  /\ UNCHANGED <<lease, durable, lapses, faults>>

Exit(g) ==
  \/ ExitWithError(g) \/ ExitCleanly(g) \/ RollBackPending(g) \/ CleanArtifacts(g)
  \/ Finalize(g) \/ FailOperationRun(g) \/ MarkPhase(g) \/ PhasesMarked(g) \/ RollBack(g)
  \/ MarkRun(g) \/ ReleaseClaims(g) \/ ReleaseLease(g)

Next ==
  \/ \E g \in Grants :
       \/ Enter(g) \/ CreateRun(g) \/ EnterPhase(g) \/ ExitPhase(g) \/ ReconcileActivePhase(g)
       \/ EnsureImplicitRun(g) \/ EnsureImplicitPhase(g) \/ CreateExplicitRun(g)
       \/ CreateExplicitPhase(g) \/ CloseExplicitPhase(g)
       \/ CreateBatch(g) \/ StartBatch(g) \/ EndBatch(g) \/ Exit(g)
       \/ RecoverBatch(g) \/ DiagnosePhase(g) \/ DiagnoseRun(g) \/ FreeClaims(g) \/ EndRecovery(g)
       \/ Crash(g)
  \/ Lapse

Spec == Init /\ [][Next]_vars

-----------------------------------------------------------------------------
(* Properties.                                                             *)

TypeOK ==
  /\ lease \in 0..MaxGrants
  /\ worker \in [Grants -> Workers]
  /\ runs \in [Grants -> Statuses \cup {"none"}]
  /\ phases \in [Grants -> Seq(Statuses)] /\ \A g \in Grants : Len(phases[g]) <= MaxPhases
  /\ batches \in [Grants -> Seq(Batches)] /\ \A g \in Grants : Len(batches[g]) <= MaxBatches
  /\ claims \subseteq Grants
  /\ lapses \in 0..MaxLapses /\ faults \in 0..MaxFaults /\ crashes \in 0..MaxCrashes

\* An exit that keeps its lease and meets no storage error, whatever the body went
\* through before it, leaves no run it knows of active: it has succeeded, failed, or
\* failed to be finalized.  The code has two exceptions.  An operation whose
\* finalization fails records after it has given the lease up; and an exit with an
\* error passes over the run of a transaction whose implicit phase could not be made.
\* (exit_with_implicit_operation, SafeTransaction.__exit__, SafeOperation.__exit__)
EndsAreRecorded ==
  [][\A g \in Grants :
       /\ ~At(g, "closed") /\ worker'[g].stage = "closed"
       /\ ~worker[g].lapsed /\ faults' = worker[g].since /\ HasLinks(g)
       /\ worker[g].kind = "operation" => worker[g].to # "finalization_failed"
       /\ worker[g].implicit /\ worker[g].to = "failed" => phases[g] # << >>
       => runs'[g] # "active"]_vars

\* A run becomes succeeded in the step that gives up its claims and its lease, with
\* no failed write of an automatic transaction left to undo and no phase of its own
\* that has failed.  (finalize_operation_success, finalize_touched_operation_success)
SuccessIsComplete ==
  [][\A g \in Grants : runs'[g] = "succeeded" /\ runs[g] # "succeeded" =>
       /\ g \notin claims' /\ lease' # g
       /\ worker[g].automatic => InState(g, {"failed"}) = {}
       /\ \A i \in Finalizes(g) : phases'[g][i] = "succeeded"]_vars

\* A failed end is final, and a success is only ever taken back to
\* finalization_failed, for a run only by a later grant that has undone one of its
\* writes.  Nothing is recorded without a grant at least as late as the run's.
\* (_require_operation_terminal_diagnostic_transition and the lease checks)
OutcomesAreFinal ==
  [][\A g \in Grants :
       /\ runs'[g] # runs[g] \/ phases'[g] # phases[g] => lease \in g..MaxGrants
       /\ runs[g] \in Ended /\ runs'[g] # runs[g] =>
            /\ runs[g] = "succeeded" /\ runs'[g] = "finalization_failed" /\ lease # g
            /\ InState(g, {"recovered"}) # {}
       /\ \A i \in DOMAIN phases[g] :
            phases[g][i] \in Ended /\ phases'[g][i] # phases[g][i] =>
              phases[g][i] = "succeeded" /\ phases'[g][i] = "finalization_failed"]_vars

\* Recovery does not release the claims of a transaction, one of whose linked writes
\* it or an earlier recovery has undone, while the run is still on record as active or
\* succeeded.  The exception: the diagnostics of this recovery have raised, and a write
\* without links, which asks for none, was undone along with the linked one.
\* (_record_recovered_batch_operation_terminal_diagnostics before
\* _release_recovered_batch_claims, across crashes of both workers)
RecoveryReportsTheRun ==
  [][\A g \in Grants :
       /\ g \in claims \ claims' /\ worker'[g] = worker[g]
       /\ \E i \in InState(g, {"recovered"}) : batches[g][i].phase # 0
       => \/ runs[g] \notin Reopened
          \/ /\ g \in worker[lease].missed
             /\ \E i \in InState(g, {"recovered"}) : batches[g][i].phase = 0]_vars

=============================================================================
