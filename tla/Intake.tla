------------------------------- MODULE Intake -------------------------------
(***************************************************************************)
(* Intake of originals: POST /api/partners/{id}/materials, from the body   *)
(* of the request to the committed material row, with the object store it  *)
(* writes to, the two tables it publishes in, GET .../original, and the    *)
(* worker's sweep of the staging directory.                                *)
(*                                                                         *)
(*   crates/otdel-api/src/routes/materials.rs   upload, download           *)
(*   crates/otdel-api/src/upload.rs             receive_file               *)
(*   crates/otdel-storage/src/fs.rs             put_stream, sweep_staging  *)
(*   crates/otdel-db/src/materials.rs, jobs.rs  insert, enqueue_extraction *)
(*                                                                         *)
(* An upload is a handler that runs once, so a request is its own slot.    *)
(* The material a request inserts gets a fresh id; the model uses the      *)
(* request as that id, so materials and jobs are sets of requests and the  *)
(* (partner, digest) of material m is key[m].                              *)
(***************************************************************************)
EXTENDS Naturals

CONSTANTS Requests,         \* uploads that clients may send
          Readers,          \* downloads that clients may send
          Partners,         \* partner ids a client may name
          KnownPartners,    \* those that exist in the client's bureau
          Digests,          \* SHA-256 of the bytes a client may send
          NoRow,            \* "no material": not a request
          MaxCrashes,       \* bound: kills of the API process
          MaxPowerLosses,   \* bound: power losses of the machine
          MaxDiskFaults     \* bound: truncations, failed unlinks and fsyncs of a directory

ASSUME IntakeAssumption ==
    /\ KnownPartners \subseteq Partners
    /\ NoRow \notin Requests
    /\ MaxCrashes \in Nat
    /\ MaxPowerLosses \in Nat
    /\ MaxDiskFaults \in Nat

\* ObjectKey: bureau/partner/shard/digest; one bureau, the shard is part of
\* the digest.  It is also the unique key (partner_id, sha256) of materials.
Key == Partners \X Digests

VARIABLES
    pc,         \* where the handler of each upload is
    key,        \* what each upload carries; fixed by the client
    staging,    \* the .part file of each upload: its content
    stale,      \* uploads whose .part file is older than staging_max_age
    objects,    \* finalized objects as the running system sees them
    disk,       \* finalized objects whose directory entry was fsynced
    row,        \* the material the publishing transaction of each upload uses
    materials,  \* committed rows of otdel.materials
    jobs,       \* materials with a committed row in otdel.jobs
    dl,         \* where each download is, and the material it asks for
    crashes, losses, faults   \* how often the environment has failed

vars == <<pc, key, staging, stale, objects, disk, row, materials, jobs, dl,
          crashes, losses, faults>>

store  == <<staging, stale, objects, disk>>
tables == <<materials, jobs>>
env    == <<crashes, losses, faults>>

\* A handler whose answer is out, and one that no longer runs without it.
Answered == {"created", "duplicate", "refused"}
Final    == Answered \cup {"gone"}

\* put_stream is running and its StagingGuard is armed.
Armed == {"creating", "writing", "flushing", "staged", "renaming"}
InTransaction == {"publish", "enqueue", "commit", "committed"}
Live  == {"receiving", "syncing", "stored"} \cup Armed \cup InTransaction
Place == {"idle"} \cup Live \cup Final

\* The content of a .part file.  Only what was fsynced outlives a power loss.
StagingState == {"none", "partial", "complete", "fsynced"}

\* "cached" is a complete object whose bytes were never fsynced.
ObjectState == {"absent", "truncated", "cached", "intact"}

TypeOK ==
    /\ pc \in [Requests -> Place]
    /\ key \in [Requests -> Key]
    /\ staging \in [Requests -> StagingState]
    /\ stale \subseteq Requests
    /\ objects \in [Key -> ObjectState]
    /\ disk \in [Key -> ObjectState]
    /\ row \in [Requests -> Requests \cup {NoRow}]
    /\ materials \subseteq Requests
    /\ jobs \subseteq Requests
    /\ dl \in [Readers -> [at : {"idle", "found", "sent", "unknown", "missing"},
                           id : Requests \cup {NoRow}]]
    /\ crashes \in 0..MaxCrashes
    /\ losses \in 0..MaxPowerLosses
    /\ faults \in 0..MaxDiskFaults

Init ==
    /\ pc = [r \in Requests |-> "idle"]
    /\ key \in [Requests -> Key]
    /\ staging = [r \in Requests |-> "none"]
    /\ stale = {}
    /\ objects = [k \in Key |-> "absent"]
    /\ disk = [k \in Key |-> "absent"]
    /\ row = [r \in Requests |-> NoRow]
    /\ materials = {}
    /\ jobs = {}
    /\ dl = [q \in Readers |-> [at |-> "idle", id |-> NoRow]]
    /\ crashes = 0 /\ losses = 0 /\ faults = 0

-----------------------------------------------------------------------------
(* Helpers.                                                                *)

Goto(r, place) == pc' = [pc EXCEPT ![r] = place]

\* The file the handler is writing has new content, unless the sweep took its
\* name away: then the bytes go to an unlinked file.
Fill(r, content) ==
    staging' = [staging EXCEPT ![r] = IF @ = "none" THEN @ ELSE content]

\* Drop of StagingGuard: unlink the .part file; a failing unlink is only logged.
DropGuard(r) ==
    \/ /\ staging' = [staging EXCEPT ![r] = "none"]
       /\ UNCHANGED faults
    \/ /\ staging[r] # "none"
       /\ faults < MaxDiskFaults
       /\ faults' = faults + 1
       /\ UNCHANGED staging

\* Mutant: the material is inserted once its object is stored, while the handler
\* still waits for the rest of the client's form.
InsertedBeforeEndOfForm(r) == pc[r] = "stored" \/ (pc[r] \in {"enqueue", "commit"} /\ row[r] = r)

\* r holds an uncommitted row in materials, hence the unique index entry: from its
\* insert to the end of its transaction, which waits for no client.
Inserting(r) == pc[r] \in {"enqueue", "commit"} /\ row[r] = r

\* Another transaction holds the unique key of the job and has not ended.
JobKeyHeld(r) ==
    row[r] \notin jobs /\ \E q \in Requests \ {r} : pc[q] = "commit" /\ row[q] = row[r]

\* The committed materials with these bytes for this partner (at most one).
FindByDigest(k) == {m \in materials : key[m] = k}

-----------------------------------------------------------------------------
(* upload: the partner check, then receive_file up to put_stream.          *)

\* The partner is looked up in a transaction of its own, which may fail.
CheckPartner(r) ==
    /\ pc[r] = "idle"
    /\ \/ key[r][1] \in KnownPartners /\ Goto(r, "receiving")
       \/ Goto(r, "refused")
    /\ UNCHANGED <<key, store, row, tables, dl, env>>

\* Mutant: the error path deletes the object this request stored.
DeleteOnRefusal(r) ==
    /\ pc[r] \in {"receiving", "stored"}
    /\ Goto(r, "refused")
    /\ objects' = IF pc[r] = "stored" THEN [objects EXCEPT ![key[r]] = "absent"] ELSE objects
    /\ UNCHANGED <<key, staging, stale, disk, row, tables, dl, env>>

\* A body that is refused outside put_stream: not multipart, no file part,
\* empty or unrecognised content, an oversized other part, and, once an object
\* is stored, a second file part.  report_orphaned_object keeps the object.
RefuseBody(r) ==
    /\ pc[r] \in {"receiving", "stored"}
    /\ Goto(r, "refused")
    /\ UNCHANGED <<key, store, row, tables, dl, env>>

\* The file part is recognised and put_stream starts.
ReadFileField(r) ==
    /\ pc[r] = "receiving"
    /\ Goto(r, "creating")
    /\ UNCHANGED <<key, store, row, tables, dl, env>>

-----------------------------------------------------------------------------
(* put_stream.                                                             *)

PrivateCreate(r) ==
    /\ pc[r] = "creating"
    /\ \/ /\ staging' = [staging EXCEPT ![r] = "partial"]
          /\ Goto(r, "writing")
       \/ Goto(r, "refused") /\ UNCHANGED staging
    /\ UNCHANGED <<key, stale, objects, disk, row, tables, dl, env>>

\* A write refreshes the modification time of a file that grew old.
WriteChunk(r) ==
    /\ pc[r] = "writing"
    /\ r \in stale
    /\ stale' = stale \ {r}
    /\ UNCHANGED <<pc, key, staging, objects, disk, row, tables, dl, env>>

\* Mutant: no guard, the .part file of a broken body stays.
AbortWithoutGuard(r) ==
    /\ pc[r] = "writing"
    /\ Goto(r, "refused")
    /\ UNCHANGED <<key, store, row, tables, dl, env>>

\* The stream breaks, exceeds max_upload_bytes, or a write fails.
AbortBody(r) ==
    /\ pc[r] = "writing"
    /\ Goto(r, "refused")
    /\ DropGuard(r)
    /\ UNCHANGED <<key, stale, objects, disk, row, tables, dl, crashes, losses>>

EndOfBody(r) ==
    /\ pc[r] = "writing"
    /\ Goto(r, "flushing")
    /\ Fill(r, "complete")
    /\ UNCHANGED <<key, stale, objects, disk, row, tables, dl, env>>

\* Mutant: the file is renamed without having been fsynced.
FlushOnly(r) ==
    /\ pc[r] = "flushing"
    /\ Goto(r, "staged")
    /\ UNCHANGED <<key, store, row, tables, dl, env>>

SyncAll(r) ==
    /\ pc[r] = "flushing"
    /\ \/ Goto(r, "staged") /\ Fill(r, "fsynced") /\ UNCHANGED faults
       \/ Goto(r, "refused") /\ DropGuard(r)
    /\ UNCHANGED <<key, stale, objects, disk, row, tables, dl, crashes, losses>>

\* Mutant: whatever is under the final name is adopted.
AdoptAnySize(k) == objects[k] # "absent"

\* already_present: an object of the same size is under the final name.
AlreadyPresent(k) == objects[k] \in {"cached", "intact"}

\* symlink_metadata of the final path decides; it, or creating the shard
\* directory, may also fail.
StatFinal(r) ==
    /\ pc[r] = "staged"
    /\ \/ AlreadyPresent(key[r]) /\ Goto(r, "stored") /\ DropGuard(r)
       \/ ~ AlreadyPresent(key[r]) /\ Goto(r, "renaming")
                                   /\ UNCHANGED <<staging, faults>>
       \/ Goto(r, "refused") /\ DropGuard(r)
    /\ UNCHANGED <<key, stale, objects, disk, row, tables, dl, crashes, losses>>

\* What the file of r becomes under its final name.
Renamed(r) ==
    [objects EXCEPT ![key[r]] = IF staging[r] = "fsynced" THEN "intact" ELSE "cached"]

\* The rename finds no source when the sweep removed the file meanwhile.
Rename(r) ==
    /\ pc[r] = "renaming"
    /\ \/ /\ staging[r] # "none"
          /\ objects' = Renamed(r)
          /\ staging' = [staging EXCEPT ![r] = "none"]
          /\ Goto(r, "syncing")
          /\ UNCHANGED faults
       \/ /\ Goto(r, "refused")
          /\ DropGuard(r)
          /\ UNCHANGED objects
    /\ UNCHANGED <<key, stale, disk, row, tables, dl, crashes, losses>>

\* The directory fsync is best effort: its failure is not an error.
SyncDir(r) ==
    /\ pc[r] = "syncing"
    /\ Goto(r, "stored")
    /\ \/ disk' = [disk EXCEPT ![key[r]] = objects[key[r]]] /\ UNCHANGED faults
       \/ faults < MaxDiskFaults /\ faults' = faults + 1 /\ UNCHANGED disk
    /\ UNCHANGED <<key, staging, stale, objects, row, tables, dl, crashes, losses>>

-----------------------------------------------------------------------------
(* upload: the rest of the form, then the publishing transaction.          *)

EndOfForm(r) ==
    /\ pc[r] = "stored"
    /\ Goto(r, "publish")
    /\ UNCHANGED <<key, store, row, tables, dl, env>>

\* Mutant: the row is looked up and then inserted, with no unique index.
CheckThenInsert(r) ==
    /\ pc[r] = "publish"
    /\ row' = [row EXCEPT ![r] = IF FindByDigest(key[r]) = {} THEN r
                                 ELSE CHOOSE m \in FindByDigest(key[r]) : TRUE]
    /\ Goto(r, "enqueue")
    /\ UNCHANGED <<key, store, tables, dl, env>>

\* Mutant: the material is inserted outside the transaction of its job.
InsertAutocommitted(r) ==
    /\ pc[r] = "publish"
    /\ \/ \E m \in FindByDigest(key[r]) : row' = [row EXCEPT ![r] = m] /\ UNCHANGED materials
       \/ /\ FindByDigest(key[r]) = {}
          /\ row' = [row EXCEPT ![r] = r]
          /\ materials' = materials \cup {r}
    /\ Goto(r, "enqueue")
    /\ UNCHANGED <<key, store, jobs, dl, env>>

\* INSERT .. ON CONFLICT (partner_id, sha256) DO NOTHING, else find_by_digest.
\* The unique index makes it wait for an uncommitted row with the same key.
InsertMaterial(r) ==
    /\ pc[r] = "publish"
    /\ \A q \in Requests \ {r} : ~ (Inserting(q) /\ key[q] = key[r])
    /\ \/ \E m \in FindByDigest(key[r]) : row' = [row EXCEPT ![r] = m]
       \/ FindByDigest(key[r]) = {} /\ row' = [row EXCEPT ![r] = r]
    /\ Goto(r, "enqueue")
    /\ UNCHANGED <<key, store, tables, dl, env>>

\* INSERT .. ON CONFLICT (bureau_id, idempotency_key) DO NOTHING.  The row is
\* visible to others at the commit; a transaction that would insert the same
\* key waits for one that already has (NoWaitForJobs: it never has to).
EnqueueExtraction(r) ==
    /\ pc[r] = "enqueue"
    /\ ~ JobKeyHeld(r)
    /\ Goto(r, "commit")
    /\ UNCHANGED <<key, store, row, tables, dl, env>>

\* Both rows become visible in one step.
Commit(r) ==
    /\ pc[r] = "commit"
    /\ materials' = IF row[r] = r THEN materials \cup {r} ELSE materials
    /\ jobs' = jobs \cup {row[r]}
    /\ Goto(r, "committed")
    /\ UNCHANGED <<key, store, row, dl, env>>

\* 201 for InsertOutcome::Created, 200 for InsertOutcome::Duplicate.
Answer(r) ==
    /\ pc[r] = "committed"
    /\ Goto(r, IF row[r] = r THEN "created" ELSE "duplicate")
    /\ UNCHANGED <<key, store, row, tables, dl, env>>

\* A statement or the commit fails: rollback.  At "committed" the connection
\* broke after the commit took effect.  Either way the client gets an error and
\* the object stays.
PublishFails(r) ==
    /\ pc[r] \in InTransaction
    /\ Goto(r, "refused")
    /\ row' = [row EXCEPT ![r] = NoRow]
    /\ UNCHANGED <<key, store, tables, dl, env>>

-----------------------------------------------------------------------------
(* Failures of the environment.                                            *)

\* The client goes away and the handler's future is dropped: StagingGuard
\* unlinks the file and an open transaction rolls back.  File operations
\* already handed to the blocking pool still run: a create may leave a file
\* behind the guard, a rename may win against it.
Disconnect(r) ==
    /\ pc[r] \in Live
    /\ Goto(r, "gone")
    /\ row' = [row EXCEPT ![r] = NoRow]
    /\ \/ pc[r] \in Armed /\ DropGuard(r) /\ UNCHANGED objects
       \/ /\ pc[r] = "creating"
          /\ staging' = [staging EXCEPT ![r] = "partial"]
          /\ UNCHANGED <<objects, faults>>
       \/ /\ pc[r] = "renaming"
          /\ staging[r] # "none"
          /\ objects' = Renamed(r)
          /\ staging' = [staging EXCEPT ![r] = "none"]
          /\ UNCHANGED faults
       \/ pc[r] \notin Armed /\ UNCHANGED <<staging, objects, faults>>
    /\ UNCHANGED <<key, stale, disk, tables, dl, crashes, losses>>

\* Every running handler stops where it is; open transactions roll back.
StopHandlers ==
    /\ pc' = [r \in Requests |-> IF pc[r] \in Live THEN "gone" ELSE pc[r]]
    /\ row' = [r \in Requests |-> IF pc[r] \in Live THEN NoRow ELSE row[r]]

\* The API process is killed and started again.
Crash ==
    /\ crashes < MaxCrashes
    /\ crashes' = crashes + 1
    /\ StopHandlers
    /\ UNCHANGED <<key, store, tables, dl, losses, faults>>

\* What is left of a file in the given state.
AfterLoss(state) == IF state = "cached" THEN "truncated" ELSE state

\* The machine loses power: a directory entry that was not fsynced may be back
\* in its earlier state.  PostgreSQL keeps what it committed.
PowerLoss ==
    /\ losses < MaxPowerLosses
    /\ losses' = losses + 1
    /\ StopHandlers
    /\ objects' \in {o \in [Key -> ObjectState] :
                        \A k \in Key : o[k] \in {AfterLoss(objects[k]), AfterLoss(disk[k])}}
    /\ disk' = objects'
    /\ staging' \in {s \in [Requests -> StagingState] :
                        \A r \in Requests : s[r] \in {"none", staging[r]}}
    /\ UNCHANGED <<key, stale, tables, dl, crashes, faults>>

\* The disk damages a stored object.
TruncateObject(k) ==
    /\ faults < MaxDiskFaults
    /\ objects[k] = "intact"
    /\ faults' = faults + 1
    /\ objects' = [objects EXCEPT ![k] = "truncated"]
    /\ disk' = [disk EXCEPT ![k] = IF @ = "absent" THEN @ ELSE "truncated"]
    /\ UNCHANGED <<pc, key, staging, stale, row, tables, dl, crashes, losses>>

-----------------------------------------------------------------------------
(* The maintenance worker's sweep, and downloads.                          *)

\* staging_max_age passes without a write to the file.
GrowStale(r) ==
    /\ staging[r] # "none"
    /\ r \notin stale
    /\ stale' = stale \cup {r}
    /\ UNCHANGED <<pc, key, staging, objects, disk, row, tables, dl, env>>

\* Mutant: the age is compared with the cutoff the wrong way round.
SweepYoung(r) ==
    /\ staging[r] # "none"
    /\ r \notin stale
    /\ staging' = [staging EXCEPT ![r] = "none"]
    /\ UNCHANGED <<pc, key, stale, objects, disk, row, tables, dl, env>>

\* sweep_staging removes a file by its age alone: it cannot see whose it is.
SweepStaging(r) ==
    /\ staging[r] # "none"
    /\ r \in stale
    /\ staging' = [staging EXCEPT ![r] = "none"]
    /\ stale' = stale \ {r}
    /\ UNCHANGED <<pc, key, objects, disk, row, tables, dl, env>>

\* get_in_partner, in a transaction that ends before the object is opened.
DownloadLookup(q) ==
    /\ dl[q].at = "idle"
    /\ \E m \in Requests :
          dl' = [dl EXCEPT ![q] = [at |-> IF m \in materials THEN "found" ELSE "unknown",
                                   id |-> m]]
    /\ UNCHANGED <<pc, key, store, row, tables, env>>

DownloadOpen(q) ==
    /\ dl[q].at = "found"
    /\ dl' = [dl EXCEPT ![q] =
                 [at |-> IF objects[key[dl[q].id]] = "absent" THEN "missing" ELSE "sent",
                  id |-> dl[q].id]]
    /\ UNCHANGED <<pc, key, store, row, tables, env>>

-----------------------------------------------------------------------------
PutStream(r) == \/ PrivateCreate(r) \/ WriteChunk(r) \/ AbortBody(r)
                \/ EndOfBody(r) \/ SyncAll(r) \/ StatFinal(r)
                \/ Rename(r) \/ SyncDir(r)

PublishStep(r) == InsertMaterial(r) \/ EnqueueExtraction(r) \/ Commit(r) \/ Answer(r)
Publish(r) == PublishStep(r) \/ PublishFails(r)

Upload(r) == \/ CheckPartner(r) \/ RefuseBody(r) \/ ReadFileField(r)
             \/ PutStream(r) \/ EndOfForm(r) \/ Publish(r)

Download(q) == DownloadLookup(q) \/ DownloadOpen(q)

\* Nothing is left to do for any client: the bounded instance may stop.
Quiescent ==
    /\ \A r \in Requests : pc[r] \in Final /\ staging[r] = "none"
    /\ \A q \in Readers : dl[q].at \in {"sent", "unknown", "missing"}
    /\ UNCHANGED vars

Next ==
    \/ \E r \in Requests : Upload(r) \/ Disconnect(r) \/ GrowStale(r) \/ SweepStaging(r)
    \/ \E q \in Readers : Download(q)
    \/ \E k \in Key : TruncateObject(k)
    \/ Crash
    \/ PowerLoss
    \/ Quiescent

\* The server finishes what no longer waits for the client, and the worker
\* comes back to the staging directory at every tick.
Fairness ==
    \A r \in Requests :
        /\ WF_vars(PublishStep(r))
        /\ WF_vars(GrowStale(r))
        /\ WF_vars(SweepStaging(r))

Spec == Init /\ [][Next]_vars /\ Fairness
-----------------------------------------------------------------------------
(* Correctness.                                                            *)

Accepted == {r \in Requests : pc[r] \in {"created", "duplicate"}}

\* While the machine keeps its power, a committed material always has its
\* object, whole unless the disk damaged something: no failing, cancelled or
\* concurrent upload of the same bytes takes away what another one published
\* (report_orphaned_object keeps objects; put_stream adopts or replaces them).
RowsHaveOriginals ==
    losses = 0 =>
        \A m \in materials :
            /\ objects[key[m]] # "absent"
            /\ faults = 0 => objects[key[m]] = "intact"

\* A material is never visible without its extraction job nor a job without its
\* material, whatever fails around the publishing transaction of upload.
PublishedTogether == materials = jobs

\* Concurrent uploads of the same bytes for one partner agree: one row exists,
\* and every 201 and 200 names that committed row (insert's ON CONFLICT path).
OneRowPerOriginal ==
    /\ \A m, n \in materials : key[m] = key[n] => m = n
    /\ \A r \in Accepted : row[r] \in FindByDigest(key[r])

\* An upload that got an answer left no .part file, unless an unlink failed:
\* put_stream disarms its guard only after the rename consumed the file.
AnsweredLeavesNoStaging ==
    faults = 0 => \A r \in Requests : pc[r] \in Answered => staging[r] = "none"

\* Even across power losses an object is either absent or whole: put_stream
\* fsyncs the file before it gives it its final name.
NoTornOriginals ==
    faults = 0 => \A k \in Key : objects[k] \in {"absent", "intact"}

\* No step of the API or the worker removes a finalized object, and none makes
\* a whole object less than whole ("reported, never deleted").
KeepsOriginals ==
    losses' = losses =>
        \A k \in Key :
            /\ objects[k] # "absent" => objects'[k] # "absent"
            /\ objects[k] = "intact" /\ faults' = faults => objects'[k] = "intact"
OriginalsNeverTaken == [][KeepsOriginals]_vars

\* When put_stream returns, the object under its key is whole, even if a damaged
\* copy was there before: it adopts only an object of the right size.
PutsWholeObject ==
    \A r \in Requests :
        pc[r] \in {"staged", "renaming"} /\ pc'[r] \in {"stored", "syncing"}
            => objects'[key[r]] = "intact"
PutLeavesWholeObject == [][PutsWholeObject]_vars

\* A download whose material was found never misses the object, although the
\* lookup's transaction ended before the object is opened.
FoundMaterialOpens ==
    losses = 0 => \A q \in Readers : dl[q].at # "missing"

\* Publishing transactions that wait on the unique index of materials do not wait
\* on that of jobs as well: two uploads share a row only once it is committed, and
\* with it its job.  So they cannot wait on each other in a circle.
NoWaitForJobs == \A r \in Requests : pc[r] = "enqueue" => ~ JobKeyHeld(r)

\* An upload that reached its publishing transaction gets out of it, whatever the
\* clients of other uploads do: who holds the unique index of materials waits for
\* none of them (upload opens its transaction when the form has ended).
PublishingEnds ==
    \A r \in Requests : pc[r] = "publish" ~> pc[r] \in Final

\* A .part file that outlives its upload (killed process, dropped future, failed
\* unlink) is eventually removed by sweep_staging.
LeftoverStagingSwept ==
    \A r \in Requests :
        pc[r] \in Final /\ staging[r] # "none" ~> staging[r] = "none"

\* storage/lib.rs: "the object is written and fsynced before database metadata
\* is published" - so a published row keeps its object through a power loss.
PublishedRowsSurvivePowerLoss ==
    faults = 0 => \A m \in materials : objects[key[m]] # "absent"

-----------------------------------------------------------------------------
(* What intake promises its clients: see Originals.                        *)

Answers == [r \in Requests |->
              IF pc[r] \in {"created", "duplicate"} THEN pc[r]
              ELSE IF pc[r] \in {"refused", "gone"} THEN "failed" ELSE "none"]

Promise == INSTANCE Originals WITH
              stored <- {k \in Key : objects[k] # "absent"},
              catalog <- materials, queue <- jobs, answer <- Answers

\* Every step of intake is a step of Originals, or none: of the whole upload
\* handler and its failures a client sees only these.
ImplementsOriginals == Promise!Spec
=============================================================================
