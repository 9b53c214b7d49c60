-------------------------- MODULE MaintenanceProofs --------------------------
(***************************************************************************)
(* The extraction queue beside the maintenance worker, for any number of   *)
(* materials, retries and workers, any limits, and passes that fail and    *)
(* are killed anywhere.                                                    *)
(***************************************************************************)
EXTENDS Maintenance, TLAPS

QueueInv == TypeOK /\ QueuedJobHasAttemptLeft /\ QueuedMaterialHasQueuedJob

-----------------------------------------------------------------------------
(* What the writers of a job row leave.                                    *)

\* The columns that a retry, a recovery and the end of a run set.
LEMMA ReleasedJob ==
    ASSUME NEW j \in Job, NEW s \in JobStatus, NEW n \in Nat
    PROVE  /\ [j EXCEPT !.status = s, !.owner = Nobody, !.expired = FALSE] \in Job
           /\ [j EXCEPT !.status = s, !.owner = Nobody, !.expired = FALSE, !.max = n] \in Job
  BY DEF Job

\* A requeued job is queued with an attempt left, whatever it was.
LEMMA RequeuedJob ==
    ASSUME NEW j \in Job
    PROVE  /\ Requeued(j) \in Job
           /\ Requeued(j).status = "queued"
           /\ Requeued(j).attempts < Requeued(j).max
<1>1. j.max \in Nat /\ j.attempts \in Nat
  BY DEF Job
<1>2. Requeued(j) \in Job
  <2> DEFINE n == IF j.max >= j.attempts + 1 THEN j.max ELSE j.attempts + 1
  <2>1. n \in Nat /\ "queued" \in JobStatus
    BY <1>1 DEF JobStatus
  <2>2. Requeued(j) = [j EXCEPT !.status = "queued", !.owner = Nobody, !.expired = FALSE,
                                !.max = n]
    BY DEF Requeued
  <2>3. ASSUME NEW k \in Nat
        PROVE  [j EXCEPT !.status = "queued", !.owner = Nobody, !.expired = FALSE,
                         !.max = k] \in Job
    BY <2>1, ReleasedJob
  <2> QED
    BY <2>1, <2>2, <2>3
<1>3. /\ Requeued(j).status = "queued" /\ Requeued(j).attempts = j.attempts
      /\ Requeued(j).max = IF j.max >= j.attempts + 1 THEN j.max ELSE j.attempts + 1
  BY DEF Requeued, Job
<1> QED
  BY <1>1, <1>2, <1>3

\* A reclaimed job goes back to the queue only with an attempt left.
LEMMA ReclaimedJob ==
    ASSUME NEW j \in Job
    PROVE  /\ Reclaimed(j) \in Job
           /\ Reclaimed(j).status = "queued" => Reclaimed(j).attempts < Reclaimed(j).max
<1>1. j.max \in Nat /\ j.attempts \in Nat
  BY DEF Job
<1>2. Reclaimed(j) \in Job
  BY ReleasedJob DEF Reclaimed, JobStatus
<1>3. /\ Reclaimed(j).status = IF j.attempts >= j.max THEN "failed" ELSE "queued"
      /\ Reclaimed(j).attempts = j.attempts /\ Reclaimed(j).max = j.max
  BY DEF Reclaimed, Job
<1> QED
  BY <1>1, <1>2, <1>3

-----------------------------------------------------------------------------
(* The steps of the queue.                                                 *)

LEMMA RetryStep ==
    ASSUME QueueInv, NEW q \in Retries,
           RetryCommit(q) \/ RetryFails(q) \/ \E m \in Materials : RetryRead(q, m)
    PROVE  QueueInv'
<1> USE DEF QueueInv, TypeOK, QueuedJobHasAttemptLeft, QueuedMaterialHasQueuedJob
<1>1. CASE RetryCommit(q)
  <2>1. retry[q] \in Materials
    BY <1>1 DEF RetryCommit
  <2>2. /\ Requeued(job[retry[q]]) \in Job
        /\ Requeued(job[retry[q]]).status = "queued"
        /\ Requeued(job[retry[q]]).attempts < Requeued(job[retry[q]]).max
    BY <2>1, RequeuedJob
  <2>3. job' = [job EXCEPT ![retry[q]] = Requeued(job[retry[q]])]
    BY <1>1 DEF RetryCommit
  <2>4. status' = [status EXCEPT ![retry[q]] = "queued"]
    BY <1>1 DEF RetryCommit
  <2>5. TypeOK'
    BY <1>1, <2>1, <2>2, <2>3, <2>4 DEF RetryCommit, MaterialStatus
  <2> QED
    BY <2>1, <2>2, <2>3, <2>4, <2>5
<1>2. CASE RetryFails(q)
  BY <1>2 DEF RetryFails
<1>3. ASSUME NEW m \in Materials, RetryRead(q, m) PROVE QueueInv'
  BY <1>3 DEF RetryRead
<1> QED
  BY <1>1, <1>2, <1>3

LEMMA WorkerStep ==
    ASSUME QueueInv, NEW w \in Workers, NEW m \in Materials, Lease(w, m) \/ Finish(w, m)
    PROVE  QueueInv'
<1> USE DEF QueueInv, TypeOK, QueuedJobHasAttemptLeft, QueuedMaterialHasQueuedJob
<1>1. CASE Lease(w, m)
  <2>1. TypeOK'
    BY <1>1 DEF Lease, Job, JobStatus, MaterialStatus
  <2>2. job'[m].status = "running" /\ status'[m] = "processing"
    BY <1>1 DEF Lease
  <2>3. \A n \in Materials : n # m => job'[n] = job[n] /\ status'[n] = status[n]
    BY <1>1 DEF Lease
  <2> QED
    BY <2>1, <2>2, <2>3
<1>2. CASE Finish(w, m)
  <2>1. PICK o \in Outcomes(job[m]) :
           /\ job' = [job EXCEPT ![m].status = o[1], ![m].owner = Nobody, ![m].expired = FALSE]
           /\ status' = [status EXCEPT ![m] = o[2]]
    BY <1>2 DEF Finish
  <2>2. /\ o[1] \in JobStatus /\ o[2] \in MaterialStatus
        /\ o[1] = "queued" => job[m].attempts < job[m].max
        /\ o[2] = "queued" => o[1] = "queued"
    BY <2>1 DEF Outcomes, JobStatus, MaterialStatus
  <2>3. TypeOK'
    <3>1. [job[m] EXCEPT !.status = o[1], !.owner = Nobody, !.expired = FALSE] \in Job
      BY <2>2, ReleasedJob
    <3>2. job' = [job EXCEPT ![m] =
                    [job[m] EXCEPT !.status = o[1], !.owner = Nobody, !.expired = FALSE]]
      BY <2>1
    <3>3. job' \in [Materials -> Job]
      BY <3>1, <3>2
    <3> QED
      BY <1>2, <2>1, <2>2, <3>3 DEF Finish
  <2>4. /\ job'[m].status = o[1] /\ status'[m] = o[2]
        /\ job'[m].attempts = job[m].attempts /\ job'[m].max = job[m].max
    BY <2>1
  <2>5. \A n \in Materials : n # m => job'[n] = job[n] /\ status'[n] = status[n]
    BY <2>1
  <2> QED
    BY <2>2, <2>3, <2>4, <2>5
<1> QED
  BY <1>1, <1>2

LEMMA LeaseExpiresStep ==
    ASSUME QueueInv, NEW m \in Materials, LeaseExpires(m)
    PROVE  QueueInv'
<1> USE DEF QueueInv, TypeOK, QueuedJobHasAttemptLeft, QueuedMaterialHasQueuedJob
<1>1. TypeOK'
  BY DEF LeaseExpires, Job
<1> QED
  BY <1>1 DEF LeaseExpires

LEMMA ReclaimStep ==
    ASSUME QueueInv, ReclaimExpiredLeases
    PROVE  QueueInv'
<1> USE DEF QueueInv, TypeOK, QueuedJobHasAttemptLeft, QueuedMaterialHasQueuedJob
<1>1. \A m \in Materials :
         job'[m] = IF Expired(job[m]) THEN Reclaimed(job[m]) ELSE job[m]
  BY DEF ReclaimExpiredLeases
<1>2. TypeOK'
  BY ReclaimedJob DEF ReclaimExpiredLeases
<1>3. QueuedJobHasAttemptLeft'
  BY <1>1, ReclaimedJob
<1>4. QueuedMaterialHasQueuedJob'
  BY <1>1 DEF ReclaimExpiredLeases, Expired
<1> QED
  BY <1>2, <1>3, <1>4

-----------------------------------------------------------------------------
\* The queue keeps its promises in every state, with every pass of the worker
\* and between passes.
THEOREM QueueInvariant == MaintenanceSpec => []QueueInv
<1>1. MaintenanceInit => QueueInv
  BY QueueAssumption
  DEF MaintenanceInit, Init, NewJob, QueueInv, TypeOK, QueuedJobHasAttemptLeft,
      QueuedMaterialHasQueuedJob, Job, JobStatus, MaterialStatus
<1>2. QueueInv /\ [MaintenanceNext]_mvars => QueueInv'
  <2> SUFFICES ASSUME QueueInv, [MaintenanceNext]_mvars PROVE QueueInv'
    OBVIOUS
  <2>1. CASE QueueStep
    BY <2>1, RetryStep, WorkerStep, LeaseExpiresStep DEF QueueStep
  <2>2. CASE ReclaimLeases
    BY <2>2, ReclaimStep DEF ReclaimLeases
  <2>3. CASE UNCHANGED vars
    BY <2>3 DEF vars, QueueInv, TypeOK, QueuedJobHasAttemptLeft, QueuedMaterialHasQueuedJob
  <2>4. CASE \/ PurgeExpired \/ FindBureau \/ SweepStaging \/ OpenDirectory \/ NextEntry
             \/ ListEnd \/ ReportOrphan \/ ReportEnd \/ PassFails
    BY <2>3, <2>4
    DEF PurgeExpired, FindBureau, SweepStaging, OpenDirectory, NextEntry, ListEnd,
        ReportOrphan, ReportEnd, PassFails
  <2>5. CASE \/ Tick \/ Stop \/ Signal \/ Kill \/ Start \/ Outage
             \/ \E k \in Keys : StoreObject(k) \/ PublishRow(k)
    BY <2>3, <2>5
    DEF Tick, Stop, Signal, Kill, Start, Outage, StoreObject, PublishRow
  <2>6. CASE UNCHANGED mvars
    BY <2>3, <2>6 DEF mvars
  <2> QED
    BY <2>1, <2>2, <2>4, <2>5, <2>6 DEF MaintenanceNext, Pass
<1> QED
  BY <1>1, <1>2, PTL DEF MaintenanceSpec

\* Statuses, attempts, limits and leases stay in range.
THEOREM QueueTypeCorrect == MaintenanceSpec => []TypeOK
<1>1. QueueInv => TypeOK
  BY DEF QueueInv
<1> QED
  BY <1>1, QueueInvariant, PTL

\* After any mix of runs, retries and recoveries a queued job has an attempt
\* left (requeue_extraction, reclaim_expired_leases).
THEOREM QueuedJobsCanRun == MaintenanceSpec => []QueuedJobHasAttemptLeft
<1>1. QueueInv => QueuedJobHasAttemptLeft
  BY DEF QueueInv
<1> QED
  BY <1>1, QueueInvariant, PTL

\* A material that is shown as queued has a job that a worker can take, also
\* when retries overlap each other, runs and recoveries.
THEOREM QueuedMaterialsAreScheduled == MaintenanceSpec => []QueuedMaterialHasQueuedJob
<1>1. QueueInv => QueuedMaterialHasQueuedJob
  BY DEF QueueInv
<1> QED
  BY <1>1, QueueInvariant, PTL

-----------------------------------------------------------------------------
(* Paths.                                                                  *)

\* What the walk relies on: the directories above an object are found one in
\* another, from the objects root down to the object.
LEMMA Paths ==
    ASSUME NEW k \in Keys
    PROVE  /\ Top(k, 0) = Root
           /\ Top(k, Levels + 1) = k
           /\ \A n \in 0 .. Levels + 1 : Top(k, n) \in Seq(Segments) /\ Len(Top(k, n)) = n
           /\ \A n \in 0 .. Levels :
                 /\ Top(k, n + 1) # Root
                 /\ Top(Top(k, n + 1), Len(Top(k, n + 1)) - 1) = Top(k, n)
<1>1. k \in [1 .. 4 -> Segments]
  BY ScanAssumption DEF Levels
<1>2. Top(k, 0) = Root
  BY DEF Top, Root
<1>3. Top(k, Levels + 1) = k
  BY <1>1 DEF Top, Levels
<1>4. ASSUME NEW n \in 0 .. 4
      PROVE  Top(k, n) \in Seq(Segments) /\ Len(Top(k, n)) = n
  <2>1. Top(k, n) \in [1 .. n -> Segments]
    BY <1>1 DEF Top
  <2> QED
    BY <2>1
<1>5. ASSUME NEW n \in 0 .. 3
      PROVE  /\ Top(k, n + 1) # Root
             /\ Top(Top(k, n + 1), Len(Top(k, n + 1)) - 1) = Top(k, n)
  <2>1. n + 1 \in 0 .. 4 /\ n \in 0 .. 4
    OBVIOUS
  <2>2. Len(Top(k, n + 1)) = n + 1
    BY <1>4, <2>1
  <2>3. Len(Root) = 0
    <3>1. Len(Top(k, 0)) = 0
      BY <1>4
    <3> QED
      BY <1>2, <3>1
  <2>4. \A i \in 1 .. n : Top(k, n + 1)[i] = k[i]
    BY DEF Top
  <2>5. Top(Top(k, n + 1), n) = Top(k, n)
    BY <2>4 DEF Top
  <2>6. n + 1 # 0 /\ (n + 1) - 1 = n
    OBVIOUS
  <2>7. Top(k, n + 1) # Root
    BY <2>2, <2>3, <2>6
  <2> QED
    BY <2>2, <2>5, <2>6, <2>7
<1> QED
  BY <1>2, <1>3, <1>4, <1>5 DEF Levels

\* The path to a stored object is there, one directory in another.
LEMMA StoredPath ==
    ASSUME stored \subseteq Keys, NEW k \in stored, NEW n \in 0 .. Levels
    PROVE  /\ Top(k, n + 1) \in Entries({Top(k, n)})
           /\ n < Levels => Descends(Top(k, n + 1))
<1>1. k \in Keys /\ n + 1 \in 1 .. Levels + 1 /\ n + 1 \in 0 .. Levels + 1
  BY DEF Levels
<1>2. Top(k, n + 1) \in Entries({Top(k, n)})
  BY <1>1, Paths DEF Entries
<1>3. n < Levels => n + 1 \in 1 .. Levels
  BY DEF Levels
<1>4. n < Levels => IsDir(Top(k, n + 1))
  BY <1>3 DEF IsDir
<1>5. n < Levels => Len(Top(k, n + 1)) <= Levels
  <2>1. Len(Top(k, n + 1)) = n + 1
    BY <1>1, Paths
  <2> QED
    BY <1>3, <2>1
<1> QED
  BY <1>2, <1>4, <1>5 DEF Descends

\* Whatever read_dir returns is a path.
LEMMA EntriesArePaths ==
    ASSUME stored \subseteq Keys, NEW dirs
    PROVE  Entries(dirs) \subseteq Seq(Segments)
<1>1. DOMAIN Strays \subseteq Seq(Segments)
  BY ScanAssumption
<1>2. ASSUME NEW k \in stored, NEW n \in 1 .. Levels + 1
      PROVE  Top(k, n) \in Seq(Segments)
  <2>1. n \in 0 .. Levels + 1 /\ k \in Keys
    BY DEF Levels
  <2> QED
    BY <2>1, Paths
<1> QED
  BY <1>1, <1>2 DEF Entries

-----------------------------------------------------------------------------
(* The walk.                                                               *)

Path == Seq(Segments)

ScanRecord ==
    [base : SUBSET Keys, stack : Seq(Path), open : SUBSET Path, due : SUBSET Path,
     met : SUBSET Path, keys : SUBSET Keys, truncated : BOOLEAN]

\* Objects are never removed, so what was there when the walk began still is.
ScanTyped ==
    /\ scan \in ScanRecord
    /\ stored \subseteq Keys
    /\ scan.base \subseteq stored

\* The directory is waiting to be read.
Waiting(path) == \E i \in 1 .. Len(scan.stack) : scan.stack[i] = path

\* The walk is yet to come to the object: some directory above it waits, or the
\* next one on the way to it is still to come from the one being read.
Ahead(k) ==
    \E n \in 0 .. Levels :
        Waiting(Top(k, n)) \/ (Top(k, n) \in scan.open /\ Top(k, n + 1) \in scan.due)

WalkInv ==
    /\ ScanTyped
    /\ pass = "list" => \A k \in scan.base : k \in scan.keys \/ Ahead(k)

LEMMA NoScanTyped ==
    ASSUME NEW ks \in SUBSET Keys, NEW b \in BOOLEAN
    PROVE  /\ NoScan \in ScanRecord /\ NoScan.base = {}
           /\ Listed(ks, b) \in ScanRecord /\ Listed(ks, b).base = {}
           /\ Listed(ks, b).keys = ks /\ Listed(ks, b).truncated = b
<1>1. <<>> \in Seq(Path)
  OBVIOUS
<1> QED
  BY <1>1 DEF NoScan, Listed, ScanRecord

\* sweep_staging is over: the walk has the objects root to read.
LEMMA WalkBegins ==
    ASSUME WalkInv, SweepStaging
    PROVE  WalkInv'
<1>1. scan' = [base |-> stored, stack |-> <<Root>>, open |-> {}, due |-> {}, met |-> {},
               keys |-> {}, truncated |-> FALSE]
  BY DEF SweepStaging, NoScan
<1>2. stored' = stored
  BY DEF SweepStaging, chores
<1>3. Root \in Path
  <2>1. Root = <<>>
    BY DEF Root, Top
  <2> QED
    BY <2>1 DEF Path
<1>4. <<Root>> \in Seq(Path)
  BY <1>3
<1>5. ScanTyped'
  BY <1>1, <1>2, <1>4 DEF WalkInv, ScanTyped, ScanRecord
<1>6. ASSUME NEW k \in stored PROVE Ahead(k)'
  <2>1. Top(k, 0) = Root
    BY Paths DEF WalkInv, ScanTyped
  <2>2. Len(scan'.stack) = 1 /\ scan'.stack[1] = Root
    BY <1>1
  <2>3. 1 \in 1 .. Len(scan'.stack) /\ 0 \in 0 .. Levels
    BY <2>2 DEF Levels
  <2>4. Waiting(Top(k, 0))'
    BY <2>1, <2>2, <2>3 DEF Waiting
  <2> QED
    BY <2>3, <2>4 DEF Ahead
<1> QED
  BY <1>1, <1>5, <1>6 DEF WalkInv

\* A directory is taken from the stack: what was ahead in it comes from it now.
LEMMA WalkOpens ==
    ASSUME WalkInv, OpenDirectory
    PROVE  WalkInv'
<1> DEFINE n == Len(scan.stack)
           d == scan.stack[n]
<1>1. /\ scan.stack \in Seq(Path) /\ scan \in ScanRecord /\ stored \subseteq Keys
      /\ scan.stack # <<>> /\ scan.due = {}
  BY DEF WalkInv, ScanTyped, ScanRecord, OpenDirectory
<1>2. n \in Nat \ {0} /\ d \in Path /\ n - 1 \in 0 .. n
  BY <1>1
<1>3. scan' = [scan EXCEPT !.stack = SubSeq(scan.stack, 1, n - 1), !.open = {d},
                           !.due = Entries({d}), !.met = {}]
  BY DEF OpenDirectory
<1>4. stored' = stored /\ pass' = pass /\ pass = "list"
  BY DEF OpenDirectory, chores
<1>5. /\ SubSeq(scan.stack, 1, n - 1) \in Seq(Path)
      /\ Len(SubSeq(scan.stack, 1, n - 1)) = n - 1
      /\ \A i \in 1 .. n - 1 : SubSeq(scan.stack, 1, n - 1)[i] = scan.stack[i]
  BY <1>1, <1>2
<1>6. Entries({d}) \in SUBSET Path
  BY <1>1, EntriesArePaths DEF Path
<1>7. ScanTyped'
  <2>1. scan' \in ScanRecord
    BY <1>1, <1>2, <1>3, <1>5, <1>6 DEF ScanRecord
  <2>2. scan'.base = scan.base
    BY <1>1, <1>3 DEF ScanRecord
  <2> QED
    BY <1>4, <2>1, <2>2 DEF WalkInv, ScanTyped
<1>8. /\ scan'.base = scan.base /\ scan'.keys = scan.keys
      /\ scan'.stack = SubSeq(scan.stack, 1, n - 1)
      /\ scan'.open = {d} /\ scan'.due = Entries({d})
  BY <1>1, <1>3 DEF ScanRecord
<1>9. ASSUME NEW k \in scan.base, Ahead(k) PROVE Ahead(k)'
  <2>1. PICK l \in 0 .. Levels : Waiting(Top(k, l))
    BY <1>1, <1>9 DEF Ahead
  <2>2. PICK i \in 1 .. n : scan.stack[i] = Top(k, l)
    BY <2>1 DEF Waiting
  <2>3. CASE i = n
    <3>1. Top(k, l + 1) \in Entries({Top(k, l)})
      BY StoredPath DEF WalkInv, ScanTyped
    <3>2. Top(k, l) \in scan'.open /\ Top(k, l + 1) \in scan'.due
      BY <1>8, <2>2, <2>3, <3>1
    <3> QED
      BY <3>2 DEF Ahead
  <2>4. CASE i # n
    <3>1. i \in 1 .. n - 1
      BY <1>2, <2>4
    <3>2. scan'.stack[i] = Top(k, l) /\ i \in 1 .. Len(scan'.stack)
      BY <1>5, <1>8, <2>2, <3>1
    <3>3. Waiting(Top(k, l))'
      BY <3>2 DEF Waiting
    <3> QED
      BY <3>3 DEF Ahead
  <2> QED
    BY <2>3, <2>4
<1> QED
  BY <1>4, <1>7, <1>8, <1>9 DEF WalkInv

\* An entry comes: a directory above an object goes on the stack, and the object
\* itself into the listing.
LEMMA WalkMeets ==
    ASSUME WalkInv, NextEntry
    PROVE  WalkInv'
<1>1. PICK p \in Entries(scan.open) \ scan.met :
         LET keys == scan.keys \cup ({p} \cap Keys)
             full == p \in Keys /\ Cardinality(keys) >= ScanLimit IN
         \/ /\ full
            /\ scan' = Listed(keys, TRUE)
            /\ pass' = Following("list")
         \/ /\ ~ full
            /\ scan' = [scan EXCEPT !.keys = keys, !.due = @ \ {p}, !.met = @ \cup {p},
                           !.stack = IF Descends(p) THEN Append(@, p) ELSE @]
            /\ UNCHANGED pass
  BY DEF NextEntry
<1> DEFINE keys == scan.keys \cup ({p} \cap Keys)
           stack == IF Descends(p) THEN Append(scan.stack, p) ELSE scan.stack
<1>2. /\ scan.stack \in Seq(Path) /\ scan \in ScanRecord /\ stored \subseteq Keys
      /\ scan.base \subseteq stored /\ keys \in SUBSET Keys
  BY DEF WalkInv, ScanTyped, ScanRecord
<1>3. p \in Path
  BY <1>2, EntriesArePaths DEF Path
<1>4. stored' = stored /\ pass = "list"
  BY DEF NextEntry, chores
<1>5. CASE scan' = Listed(keys, TRUE) /\ pass' = Following("list")
  <2>1. ScanTyped'
    BY <1>2, <1>4, <1>5, NoScanTyped DEF ScanTyped
  <2>2. pass' # "list"
    BY <1>5 DEF Following
  <2> QED
    BY <2>1, <2>2 DEF WalkInv
<1>6. CASE /\ scan' = [scan EXCEPT !.keys = keys, !.due = @ \ {p}, !.met = @ \cup {p},
                          !.stack = stack]
           /\ pass' = pass
  <2>1. /\ stack \in Seq(Path) /\ Len(stack) >= Len(scan.stack)
        /\ Len(stack) \in Nat /\ Len(scan.stack) \in Nat
        /\ \A i \in 1 .. Len(scan.stack) : stack[i] = scan.stack[i]
        /\ Descends(p) => stack[Len(stack)] = p /\ Len(stack) > 0
    BY <1>2, <1>3
  <2>2. ScanTyped'
    <3>1. scan' \in ScanRecord
      BY <1>2, <1>3, <1>6, <2>1 DEF ScanRecord
    <3>2. scan'.base = scan.base
      BY <1>2, <1>6 DEF ScanRecord
    <3> QED
      BY <1>2, <1>4, <3>1, <3>2 DEF ScanTyped
  <2>3. /\ scan'.base = scan.base /\ scan'.keys = keys /\ scan'.stack = stack
        /\ scan'.open = scan.open /\ scan'.due = scan.due \ {p}
    BY <1>2, <1>6 DEF ScanRecord
  <2>4. ASSUME NEW q, Waiting(q) PROVE Waiting(q)'
    <3>1. PICK i \in 1 .. Len(scan.stack) : scan.stack[i] = q
      BY <2>4 DEF Waiting
    <3>2. i \in 1 .. Len(stack) /\ stack[i] = q
      BY <2>1, <3>1
    <3> QED
      BY <2>3, <3>2 DEF Waiting
  <2>5. ASSUME NEW k \in scan.base, NEW n \in 0 .. Levels, p = Top(k, n + 1)
        PROVE  k \in scan'.keys \/ Ahead(k)'
    <3>1. CASE n = Levels
      <4>1. p = k /\ k \in Keys
        BY <1>2, <2>5, <3>1, Paths
      <4> QED
        BY <2>3, <4>1
    <3>2. CASE n # Levels
      <4>1. n < Levels /\ n + 1 \in 0 .. Levels
        BY <3>2 DEF Levels
      <4>2. Descends(p)
        BY <1>2, <2>5, <4>1, StoredPath
      <4>3. Len(stack) \in 1 .. Len(stack) /\ stack[Len(stack)] = p
        BY <2>1, <4>2
      <4>4. Waiting(Top(k, n + 1))'
        BY <2>3, <2>5, <4>3 DEF Waiting
      <4> QED
        BY <4>1, <4>4 DEF Ahead
    <3> QED
      BY <3>1, <3>2
  <2>6. ASSUME NEW k \in scan.base, k \in scan.keys \/ Ahead(k)
        PROVE  k \in scan'.keys \/ Ahead(k)'
    <3>1. CASE k \in scan.keys
      BY <2>3, <3>1
    <3>2. CASE Ahead(k)
      <4>1. PICK n \in 0 .. Levels :
               Waiting(Top(k, n)) \/ (Top(k, n) \in scan.open /\ Top(k, n + 1) \in scan.due)
        BY <3>2 DEF Ahead
      <4>2. CASE Waiting(Top(k, n))
        BY <2>4, <4>2 DEF Ahead
      <4>3. CASE Top(k, n) \in scan.open /\ Top(k, n + 1) \in scan.due /\ p # Top(k, n + 1)
        BY <2>3, <4>3 DEF Ahead
      <4>4. CASE p = Top(k, n + 1)
        BY <2>5, <4>4
      <4> QED
        BY <4>1, <4>2, <4>3, <4>4
    <3> QED
      BY <2>6, <3>1, <3>2
  <2> QED
    BY <1>4, <1>6, <2>2, <2>3, <2>6 DEF WalkInv
<1> QED
  BY <1>1, <1>5, <1>6

\* Between the steps of a walk only uploads change what there is to walk over.
LEMMA WalkUndisturbed ==
    ASSUME WalkInv, scan' = scan, stored \subseteq stored', stored' \subseteq Keys,
           pass' = pass \/ pass' # "list"
    PROVE  WalkInv'
  BY DEF WalkInv, ScanTyped, Ahead, Waiting

LEMMA WalkStep == WalkInv /\ [MaintenanceNext]_mvars => WalkInv'
<1> SUFFICES ASSUME WalkInv, [MaintenanceNext]_mvars PROVE WalkInv'
  OBVIOUS
<1> USE DEF chores
<1>1. stored \subseteq Keys /\ scan.keys \subseteq Keys
  BY DEF WalkInv, ScanTyped, ScanRecord
<1>2. CASE SweepStaging \/ OpenDirectory \/ NextEntry
  BY <1>2, WalkBegins, WalkOpens, WalkMeets
<1>3. CASE ListEnd
  <2>1. scan' = Listed(scan.keys, FALSE) /\ stored' = stored /\ pass' # "list"
    BY <1>3 DEF ListEnd, Done, Following
  <2> QED
    BY <1>1, <2>1, NoScanTyped DEF WalkInv, ScanTyped
<1>4. CASE ReportEnd \/ PassFails \/ Kill
  <2>1. scan' = NoScan /\ stored' = stored /\ pass' # "list"
    BY <1>4 DEF ReportEnd, PassFails, Kill, Done, Following
  <2> QED
    BY <1>1, <2>1, NoScanTyped DEF WalkInv, ScanTyped
<1>5. CASE ReportOrphan
  <2>1. PICK k \in scan.keys : scan' = [scan EXCEPT !.keys = @ \ {k}]
    BY <1>5 DEF ReportOrphan
  <2>2. stored' = stored /\ pass' # "list"
    BY <1>5 DEF ReportOrphan
  <2>3. scan' \in ScanRecord /\ scan'.base = scan.base
    BY <2>1 DEF WalkInv, ScanTyped, ScanRecord
  <2> QED
    BY <2>2, <2>3 DEF WalkInv, ScanTyped
<1>6. CASE PurgeExpired \/ FindBureau \/ ReclaimLeases
  <2>1. scan' = scan /\ stored' = stored /\ pass' # "list"
    BY <1>6 DEF PurgeExpired, FindBureau, ReclaimLeases, Done, Following
  <2> QED
    BY <1>1, <2>1, WalkUndisturbed
<1>7. CASE Tick \/ Stop \/ Signal \/ Start \/ Outage
  <2>1. scan' = scan /\ stored' = stored /\ (pass' = pass \/ pass' # "list")
    BY <1>7 DEF Tick, Stop, Signal, Start, Outage
  <2> QED
    BY <1>1, <2>1, WalkUndisturbed
<1>8. ASSUME NEW k \in Keys, StoreObject(k) \/ PublishRow(k) PROVE WalkInv'
  <2>1. scan' = scan /\ stored \subseteq stored' /\ stored' \subseteq Keys /\ pass' = pass
    BY <1>1, <1>8 DEF StoreObject, PublishRow
  <2> QED
    BY <2>1, WalkUndisturbed
<1>9. CASE (QueueStep /\ UNCHANGED <<pass, outage, chores, scan, stopping>>) \/ UNCHANGED mvars
  <2>1. scan' = scan /\ stored' = stored /\ pass' = pass
    BY <1>9 DEF mvars
  <2> QED
    BY <1>1, <2>1, WalkUndisturbed
<1> QED
  BY <1>2, <1>3, <1>4, <1>5, <1>6, <1>7, <1>8, <1>9 DEF MaintenanceNext, Pass

\* list_objects: whatever it has not listed yet is ahead of the walk, in every
\* state of a walk, however far uploads and other things fill the directories.
THEOREM WalkMissesNothing == MaintenanceSpec => []WalkInv
<1>1. MaintenanceInit => WalkInv
  BY NoScanTyped DEF MaintenanceInit, WalkInv, ScanTyped
<1> QED
  BY <1>1, WalkStep, PTL DEF MaintenanceSpec

\* list_objects: a scan that does not say it was cut short lists every object that
\* was there when it began, for any objects, limit and strays.
THEOREM UnflaggedScansAreComplete == MaintenanceSpec => UnflaggedScanIsComplete
<1>1. WalkInv /\ [MaintenanceNext]_mvars =>
        [pass = "list" /\ pass' = "lookup" /\ ~ scan'.truncated
            => scan.base \subseteq scan'.keys]_mvars
  <2> SUFFICES ASSUME WalkInv, MaintenanceNext, pass = "list", pass' = "lookup",
                      ~ scan'.truncated
               PROVE  scan.base \subseteq scan'.keys
    OBVIOUS
  <2>1. CASE NextEntry
    <3>1. \/ \E keys : keys \in SUBSET Keys /\ scan' = Listed(keys, TRUE)
          \/ pass' = pass
      BY <2>1 DEF NextEntry, WalkInv, ScanTyped, ScanRecord
    <3> QED
      BY <3>1, NoScanTyped
  <2>2. CASE ListEnd
    <3>1. scan.stack = <<>> /\ scan.due = {} /\ scan' = Listed(scan.keys, FALSE)
      BY <2>2 DEF ListEnd
    <3>2. \A k \in scan.base : ~ Ahead(k)
      BY <3>1 DEF Ahead, Waiting
    <3>3. scan.base \subseteq scan.keys
      BY <3>2 DEF WalkInv
    <3>4. scan'.keys = scan.keys
      BY <3>1 DEF Listed
    <3> QED
      BY <3>3, <3>4
  <2>3. CASE PurgeExpired \/ FindBureau \/ ReclaimLeases \/ SweepStaging \/ OpenDirectory
             \/ ReportOrphan \/ ReportEnd \/ PassFails
    BY <2>3 DEF PurgeExpired, FindBureau, ReclaimLeases, SweepStaging, OpenDirectory,
                ReportOrphan, ReportEnd, PassFails, Done
  <2>4. CASE Tick \/ Stop \/ Signal \/ Kill \/ Start \/ Outage
    BY <2>4 DEF Tick, Stop, Signal, Kill, Start, Outage
  <2>5. CASE \/ QueueStep /\ UNCHANGED <<pass, outage, chores, scan, stopping>>
             \/ \E k \in Keys : StoreObject(k) \/ PublishRow(k)
    BY <2>5 DEF StoreObject, PublishRow
  <2> QED
    BY <2>1, <2>2, <2>3, <2>4, <2>5 DEF MaintenanceNext, Pass
<1> QED
  BY <1>1, WalkMissesNothing, PTL DEF MaintenanceSpec, UnflaggedScanIsComplete
=============================================================================
