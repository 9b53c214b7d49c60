---------------------------- MODULE Maintenance ----------------------------
(***************************************************************************)
(* The maintenance worker beside the extraction queue: passes of chores at *)
(* every tick, each of which may fail and end its pass, the scan for       *)
(* orphaned objects beside running uploads, shutdown and kills.            *)
(*                                                                         *)
(*   crates/otdel-worker/src/lib.rs   run_once, report_orphans, run_until  *)
(*   crates/otdel-storage/src/fs.rs   sweep_staging, list_objects          *)
(*   apps/worker/src/main.rs          run                                  *)
(*                                                                         *)
(* The materials of JobQueue belong to the worker's bureau, so its slug is *)
(* always found; a failing lookup is a database failure like the others.   *)
(***************************************************************************)
EXTENDS JobQueue, Sequences, FiniteSets

CONSTANTS Segments,    \* names of directories and files
          Keys,        \* objects that uploads may store, by their paths
          OwnBureau,   \* the first segment of the keys of the worker's bureau
          Strays,      \* kinds of what else is under the objects root, by path
          ScanLimit    \* orphan_scan_limit

\* The first n segments of a path: bureau, partner, shard, object.
Top(path, n) == [i \in 1 .. n |-> path[i]]

Root == Top(<<>>, 0)

\* Directories exist at three levels; objects are the fourth segment.
Levels == 3

ASSUME ScanAssumption ==
    /\ Keys \subseteq [1 .. Levels + 1 -> Segments]
    /\ \A k \in Keys, n \in 1 .. Levels + 1 : Top(k, n) \notin DOMAIN Strays
    /\ \A p \in DOMAIN Strays : p \in Seq(Segments) /\ Strays[p] \in {"dir", "file", "other"}
    /\ ScanLimit \in Nat \ {0}

VARIABLES
    pass,       \* the chore the worker is at
    dbUp,       \* statements succeed
    diskUp,     \* file operations succeed
    stored,     \* objects under their final names
    rows,       \* objects that a committed material row of the worker's bureau names
    scan,       \* list_objects: its walk and its listing
    reported,   \* objects that some pass has reported as orphans
    stopping    \* the shutdown signal arrived

chores == <<stored, rows, reported>>
outage == <<dbUp, diskUp>>
mvars  == <<vars, pass, outage, chores, scan, stopping>>

OnDisk == {"sweep", "list"}
OnDb   == {"purge", "bureau", "reclaim", "lookup"}

\* base is what was there when the walk began; stack are the directories to be
\* read and open the one being read, if any; of its entries, due were there when
\* it was opened and are still to come, and met have come.
NoScan == [base |-> {}, stack |-> <<>>, open |-> {}, due |-> {}, met |-> {},
           keys |-> {}, truncated |-> FALSE]

\* ObjectKey::namespace: the object of another bureau.
Foreign(k) == k[1] # OwnBureau

\* Other bureaus have stored what they store here before.
MaintenanceInit ==
    /\ Init
    /\ pass = "idle"
    /\ dbUp = TRUE /\ diskUp = TRUE
    /\ stored \in SUBSET {k \in Keys : Foreign(k)} /\ rows = {} /\ reported = {}
    /\ scan = NoScan
    /\ stopping = FALSE

-----------------------------------------------------------------------------
(* run_once: one action per chore; success needs the service it uses.      *)

Works(chore) == IF chore \in OnDisk THEN diskUp ELSE dbUp

\* Mutant: the leases are looked at after the chores that need the disk.
FollowingDiskFirst(chore) ==
    CASE chore = "purge"   -> "bureau"
      [] chore = "bureau"  -> "sweep"
      [] chore = "sweep"   -> "list"
      [] chore = "list"    -> "lookup"
      [] chore = "lookup"  -> "reclaim"
      [] chore = "reclaim" -> "idle"

\* The order of the chores in a pass.
Following(chore) ==
    CASE chore = "purge"   -> "bureau"
      [] chore = "bureau"  -> "reclaim"
      [] chore = "reclaim" -> "sweep"
      [] chore = "sweep"   -> "list"
      [] chore = "list"    -> "lookup"
      [] chore = "lookup"  -> "idle"

\* The chore succeeds and the pass goes on.
Done(chore) == pass = chore /\ Works(chore) /\ pass' = Following(chore)

\* purge_expired; what it deletes is modelled in Sessions.
PurgeExpired ==
    /\ Done("purge")
    /\ UNCHANGED <<vars, outage, chores, scan, stopping>>

\* bureau_id_by_slug.
FindBureau ==
    /\ Done("bureau")
    /\ UNCHANGED <<vars, outage, chores, scan, stopping>>

\* reclaim_expired_leases in a transaction of its own.
ReclaimLeases ==
    /\ Done("reclaim")
    /\ ReclaimExpiredLeases
    /\ UNCHANGED <<outage, chores, scan, stopping>>

\* sweep_staging; what it removes is modelled in Intake.  The listing begins.
SweepStaging ==
    /\ Done("sweep")
    /\ scan' = [NoScan EXCEPT !.base = stored, !.stack = <<Root>>]
    /\ UNCHANGED <<vars, outage, chores, stopping>>

-----------------------------------------------------------------------------
(* list_objects: depth first, from the objects root.                       *)

\* The directories of the objects that are stored, and those nobody expects.
IsDir(path) ==
    \/ path \in {Top(k, n) : k \in stored, n \in 1 .. Levels}
    \/ path \in DOMAIN Strays /\ Strays[path] = "dir"

Entries(dirs) ==
    {path \in {Top(k, n) : k \in stored, n \in 1 .. Levels + 1} \cup DOMAIN Strays :
        path # Root /\ Top(path, Len(path) - 1) \in dirs}

\* The directory before is read to its end: everything that was in it when it
\* was opened has come.
OpenDirectory ==
    /\ pass = "list" /\ diskUp
    /\ scan.due = {} /\ scan.stack # <<>>
    /\ LET n == Len(scan.stack)
           d == scan.stack[n] IN
       scan' = [scan EXCEPT !.stack = SubSeq(@, 1, n - 1), !.open = {d}, !.due = Entries({d}),
                            !.met = {}]
    /\ UNCHANGED <<vars, pass, outage, chores, stopping>>

\* Mutant: the shards are not descended into.
DescendsTooLittle(path) == IsDir(path) /\ Len(path) < Levels

\* A directory where one is expected goes on the stack.
Descends(path) == IsDir(path) /\ Len(path) <= Levels

\* What the walk ends with.
Listed(keys, truncated) == [NoScan EXCEPT !.keys = keys, !.truncated = truncated]

\* One more entry, also one that an upload has added meanwhile.  A name that is
\* no key (ObjectKey::parse), a directory too deep and anything that is neither
\* directory nor file is skipped.  At the limit the walk returns what it has and
\* says so.
NextEntry ==
    /\ pass = "list" /\ diskUp
    /\ \E p \in Entries(scan.open) \ scan.met :
          LET keys == scan.keys \cup ({p} \cap Keys)
              full == p \in Keys /\ Cardinality(keys) >= ScanLimit IN
          \/ /\ full
             /\ scan' = Listed(keys, TRUE)
             /\ pass' = Following("list")
          \/ /\ ~ full
             /\ scan' = [scan EXCEPT !.keys = keys, !.due = @ \ {p}, !.met = @ \cup {p},
                            !.stack = IF Descends(p) THEN Append(@, p) ELSE @]
             /\ UNCHANGED pass
    /\ UNCHANGED <<vars, outage, chores, stopping>>

\* Nothing is left on the stack.
ListEnd ==
    /\ Done("list")
    /\ scan.due = {} /\ scan.stack = <<>>
    /\ scan' = Listed(scan.keys, FALSE)
    /\ UNCHANGED <<vars, outage, chores, stopping>>

-----------------------------------------------------------------------------
(* report_orphans, and how a pass ends.                                    *)

\* Mutant: the comparison with the worker's bureau is inverted.
ReportForeign ==
    /\ pass = "lookup" /\ dbUp
    /\ \E k \in scan.keys :
          /\ reported' = IF k \in rows \/ ~ Foreign(k) THEN reported ELSE reported \cup {k}
          /\ scan' = [scan EXCEPT !.keys = @ \ {k}]
    /\ UNCHANGED <<vars, pass, outage, stored, rows, stopping>>

\* report_orphans: find_by_digest for each listed object of this bureau, with a
\* snapshot of its own; the object is reported if it has no row by then.
ReportOrphan ==
    /\ pass = "lookup" /\ dbUp
    /\ \E k \in scan.keys :
          /\ reported' = IF k \in rows \/ Foreign(k) THEN reported ELSE reported \cup {k}
          /\ scan' = [scan EXCEPT !.keys = @ \ {k}]
    /\ UNCHANGED <<vars, pass, outage, stored, rows, stopping>>

ReportEnd ==
    /\ Done("lookup")
    /\ scan.keys = {}
    /\ scan' = NoScan
    /\ UNCHANGED <<vars, outage, chores, stopping>>

\* Any `?` of run_once: the rest of the pass waits for the next tick.
PassFails ==
    /\ pass \in OnDisk \cup OnDb
    /\ ~ Works(pass)
    /\ pass' = "idle"
    /\ scan' = NoScan
    /\ UNCHANGED <<vars, outage, chores, stopping>>

-----------------------------------------------------------------------------
(* run_until.                                                              *)

Tick ==
    /\ pass = "idle"
    /\ pass' = "purge"
    /\ UNCHANGED <<vars, outage, chores, scan, stopping>>

\* Mutant: the worker says goodbye to the database before it ends.
StopWithDatabase ==
    /\ pass = "idle" /\ stopping /\ dbUp
    /\ pass' = "off" /\ stopping' = FALSE
    /\ UNCHANGED <<vars, outage, chores, scan>>

\* The signal is polled between passes only.
Stop ==
    /\ pass = "idle" /\ stopping
    /\ pass' = "off" /\ stopping' = FALSE
    /\ UNCHANGED <<vars, outage, chores, scan>>

-----------------------------------------------------------------------------
(* Around the worker.                                                      *)

Signal ==
    /\ pass # "off" /\ ~ stopping
    /\ stopping' = TRUE
    /\ UNCHANGED <<vars, pass, outage, chores, scan>>

\* The process dies anywhere in a pass, or `once` ends after one.
Kill ==
    /\ pass # "off"
    /\ pass' = "off" /\ stopping' = FALSE
    /\ scan' = NoScan
    /\ UNCHANGED <<vars, outage, chores>>

\* An operator starts it again: it connects and opens the store first.
Start ==
    /\ pass = "off" /\ dbUp /\ diskUp
    /\ pass' = "idle"
    /\ UNCHANGED <<vars, outage, chores, scan, stopping>>

Outage ==
    /\ dbUp' \in BOOLEAN /\ diskUp' \in BOOLEAN
    /\ outage' # outage
    /\ UNCHANGED <<vars, pass, chores, scan, stopping>>

\* What Originals promises of uploads: first the object with the directories
\* above it, then its row.
StoreObject(k) ==
    /\ k \notin stored /\ ~ Foreign(k)
    /\ stored' = stored \cup {k}
    /\ UNCHANGED <<vars, pass, outage, rows, scan, reported, stopping>>

PublishRow(k) ==
    /\ k \in stored \ rows /\ ~ Foreign(k)
    /\ rows' = rows \cup {k}
    /\ UNCHANGED <<vars, pass, outage, stored, scan, reported, stopping>>

Pass == \/ PurgeExpired \/ FindBureau \/ ReclaimLeases \/ SweepStaging
        \/ OpenDirectory \/ NextEntry \/ ListEnd \/ ReportOrphan \/ ReportEnd \/ PassFails

MaintenanceNext ==
    \/ QueueStep /\ UNCHANGED <<pass, outage, chores, scan, stopping>>
    \/ Pass \/ Tick \/ Stop
    \/ Signal \/ Kill \/ Start \/ Outage
    \/ \E k \in Keys : StoreObject(k) \/ PublishRow(k)

\* The runtime polls a pass until it ends and the timer fires; select! takes one
\* of its ready branches at random, so the signal is not passed over forever.
MaintenanceFairness ==
    /\ WF_mvars(Pass)
    /\ WF_mvars(Tick)
    /\ SF_mvars(Stop)

MaintenanceSpec == MaintenanceInit /\ [][MaintenanceNext]_mvars /\ MaintenanceFairness

-----------------------------------------------------------------------------
(* Correctness.                                                            *)

Running == pass # "off"

\* Once the database stays up, every interrupted run is taken up and sessions are
\* purged again and again, however often the storage fails: the chores of
\* run_once that need only the database come before those that need the disk.
DatabaseChoresDone ==
    <>[](Running /\ dbUp) =>
        /\ \A m \in Materials : Expired(job[m]) ~> ~ Expired(job[m])
        /\ []<>(pass = "purge") /\ []<>(pass = "bureau")

\* Once both stay up, an object without a row gets its row, is reported, or the
\* scan said it did not look at everything (MaintenanceReport.scan_truncated).
OrphansSurface ==
    <>[](Running /\ dbUp /\ diskUp) =>
        \A k \in Keys :
            k \in stored \ rows /\ ~ Foreign(k) ~> k \in rows \cup reported \/ scan.truncated

\* A scan that is not flagged as truncated lists every object that was there when
\* it began: the walk of list_objects reaches every shard although uploads add
\* directories and objects under it and other things lie about.
UnflaggedScanIsComplete ==
    [][pass = "list" /\ pass' = "lookup" /\ ~ scan'.truncated
         => scan.base \subseteq scan'.keys]_mvars

\* After the signal the worker ends, in the middle of an outage too: every pass
\* ends and run_until looks at the signal before the next.
ShutdownEnds == stopping ~> ~ Running
=============================================================================
