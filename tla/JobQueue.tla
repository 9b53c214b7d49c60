------------------------------ MODULE JobQueue ------------------------------
(***************************************************************************)
(* The extraction queue: the status of materials and of their jobs, the    *)
(* owner's retry and the maintenance worker's recovery of expired leases.  *)
(*                                                                         *)
(*   crates/otdel-api/src/routes/materials.rs   retry                      *)
(*   crates/otdel-db/src/materials.rs           requeue                    *)
(*   crates/otdel-db/src/jobs.rs                requeue_extraction,        *)
(*                                              reclaim_expired_leases     *)
(*   crates/otdel-core/src/model.rs             can_retry                  *)
(*                                                                         *)
(* The extraction workers of phase 1B are external: they lease a queued    *)
(* job, count the attempt, and publish the outcome of a run if they still  *)
(* hold the lease, as the columns of otdel.jobs provide for.  Every        *)
(* material here has its job: intake publishes both (see Intake).          *)
(***************************************************************************)
EXTENDS Naturals

CONSTANTS Materials,
          Retries,       \* retry requests, each on one material at a time
          Workers,       \* extraction workers (external)
          Nobody,        \* lease_owner IS NULL
          MaxAttempts,   \* max_attempts of a new job
          MaxRuns        \* bound: attempts of one job

ASSUME QueueAssumption ==
    /\ MaxAttempts \in Nat \ {0}
    /\ MaxRuns \in Nat
    /\ Nobody \notin Workers

VARIABLES
    status,     \* materials.status
    job,        \* the row of otdel.jobs of each material
    retry       \* where each retry request is, and its material

vars == <<status, job, retry>>

MaterialStatus == {"queued", "processing", "completed", "partial", "failed", "quarantined"}
JobStatus == {"queued", "running", "completed", "failed", "cancelled"}

Job == [status : JobStatus, attempts : Nat, max : Nat, owner : Workers \cup {Nobody},
        expired : BOOLEAN]   \* expired: lease_expires_at < now()

TypeOK ==
    /\ status \in [Materials -> MaterialStatus]
    /\ job \in [Materials -> Job]
    /\ retry \in [Retries -> {"idle"} \cup Materials]

\* enqueue_extraction: a new material and its job are queued.
NewJob == [status |-> "queued", attempts |-> 0, max |-> MaxAttempts, owner |-> Nobody,
           expired |-> FALSE]

Init ==
    /\ status = [m \in Materials |-> "queued"]
    /\ job = [m \in Materials |-> NewJob]
    /\ retry = [q \in Retries |-> "idle"]

CanRetry(s) == s \in {"failed", "partial"}

-----------------------------------------------------------------------------
(* retry.                                                                  *)

\* get_in_partner reads the material without locking it; a status that cannot
\* be retried is answered with a conflict.
RetryRead(q, m) ==
    /\ retry[q] = "idle"
    /\ CanRetry(status[m])
    /\ retry' = [retry EXCEPT ![q] = m]
    /\ UNCHANGED <<status, job>>

\* Mutant: the limit is not raised for the requested run.
RequeuedWithinLimit(j) == [j EXCEPT !.status = "queued", !.owner = Nobody, !.expired = FALSE]

\* requeue_extraction: SET status, lease and max_attempts =
\* GREATEST(max_attempts, attempts + 1), whatever the status is by now.
Requeued(j) ==
    [j EXCEPT !.status = "queued", !.owner = Nobody, !.expired = FALSE,
              !.max = IF j.max >= j.attempts + 1 THEN j.max ELSE j.attempts + 1]

\* Mutant: only the material goes back to the queue.
RetryMaterialOnly(q) ==
    /\ retry[q] \in Materials
    /\ status' = [status EXCEPT ![retry[q]] = "queued"]
    /\ retry' = [retry EXCEPT ![q] = "idle"]
    /\ UNCHANGED job

\* requeue and requeue_extraction update both rows by id; they hold the row locks
\* until the commit, so the transaction takes effect as one step.
RetryCommit(q) ==
    /\ retry[q] \in Materials
    /\ status' = [status EXCEPT ![retry[q]] = "queued"]
    /\ job' = [job EXCEPT ![retry[q]] = Requeued(@)]
    /\ retry' = [retry EXCEPT ![q] = "idle"]

\* A statement or the commit fails, or the client disconnects: rollback.
RetryFails(q) ==
    /\ retry[q] \in Materials
    /\ retry' = [retry EXCEPT ![q] = "idle"]
    /\ UNCHANGED <<status, job>>

-----------------------------------------------------------------------------
(* reclaim_expired_leases.                                                 *)

Expired(j) == j.status = "running" /\ j.expired

\* Back to the queue, or failed once the attempts are used up.
Reclaimed(j) ==
    [j EXCEPT !.status = IF j.attempts >= j.max THEN "failed" ELSE "queued",
              !.owner = Nobody, !.expired = FALSE]

\* One UPDATE over the jobs of the bureau; materials are not touched.
ReclaimExpiredLeases ==
    /\ job' = [m \in Materials |-> IF Expired(job[m]) THEN Reclaimed(job[m]) ELSE job[m]]
    /\ UNCHANGED <<status, retry>>

-----------------------------------------------------------------------------
(* The extraction workers (external) and the clock.                        *)

Lease(w, m) ==
    /\ job[m].status = "queued"
    /\ job[m].attempts < MaxRuns
    /\ job' = [job EXCEPT ![m].status = "running", ![m].owner = w, ![m].expired = FALSE,
                          ![m].attempts = @ + 1]
    /\ status' = [status EXCEPT ![m] = "processing"]
    /\ UNCHANGED retry

\* The outcomes of a run: of the job, and of the material.
Outcomes(j) == {<<"completed", "completed">>, <<"completed", "partial">>,
                <<"failed", "failed">>, <<"cancelled", "quarantined">>}
               \cup IF j.attempts < j.max THEN {<<"queued", "queued">>} ELSE {}

Finish(w, m) ==
    /\ job[m].status = "running"
    /\ job[m].owner = w
    /\ \E o \in Outcomes(job[m]) :
          /\ job' = [job EXCEPT ![m].status = o[1], ![m].owner = Nobody, ![m].expired = FALSE]
          /\ status' = [status EXCEPT ![m] = o[2]]
    /\ UNCHANGED retry

\* The worker died or is slow: its lease runs out.
LeaseExpires(m) ==
    /\ job[m].status = "running"
    /\ ~ job[m].expired
    /\ job' = [job EXCEPT ![m].expired = TRUE]
    /\ UNCHANGED <<status, retry>>

-----------------------------------------------------------------------------
\* What happens to the queue between two passes of the maintenance worker.
QueueStep ==
    \/ \E q \in Retries : RetryCommit(q) \/ RetryFails(q) \/ (\E m \in Materials : RetryRead(q, m))
    \/ \E w \in Workers, m \in Materials : Lease(w, m) \/ Finish(w, m)
    \/ \E m \in Materials : LeaseExpires(m)

\* The queue with a worker whose passes always succeed: see Maintenance for the rest.
Next == QueueStep \/ ReclaimExpiredLeases

Spec == Init /\ [][Next]_vars

-----------------------------------------------------------------------------
(* Correctness.                                                            *)

\* A queued job always has an attempt left, after any mix of retries, failed
\* runs and recoveries: requeue_extraction raises the limit by what the owner
\* asked for and reclaim_expired_leases fails a job that used its attempts up.
QueuedJobHasAttemptLeft ==
    \A m \in Materials : job[m].status = "queued" => job[m].attempts < job[m].max

\* A material shown as queued has a job that a worker can take.
QueuedMaterialHasQueuedJob ==
    \A m \in Materials : status[m] = "queued" => job[m].status = "queued"

\* model.rs on can_retry: "queued / processing - already scheduled or running,
\* retry is a no-op (reported as a conflict ...)".
RequeueOnlyRetryable ==
    [][\A q \in Retries, m \in Materials :
         retry[q] = m /\ retry'[q] = "idle" /\ status'[m] # status[m] => CanRetry(status[m])]_vars

\* worker/lib.rs: jobs whose lease expired are recovered "so an interrupted run
\* resumes instead of hanging" - a material in processing has a job that runs or will.
ProcessingNeverHangs ==
    \A m \in Materials : status[m] = "processing" => job[m].status \in {"running", "queued"}
=============================================================================
