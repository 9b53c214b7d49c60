---------------------------- MODULE IntakeProofs ----------------------------
(***************************************************************************)
(* Proofs about Intake, for any number of uploads, downloads, partners and *)
(* digests and any number of failures.                                     *)
(*                                                                         *)
(* RowsHaveOriginals and the others are not inductive: whether a commit    *)
(* keeps them depends on what the request did before it.  IInv adds what   *)
(* each place of the handler knows: that its object exists, which row its  *)
(* transaction holds, and that no two transactions hold rows for one key.  *)
(***************************************************************************)
EXTENDS Intake, TLAPS

\* Places at which put_stream has left an object under the request's key.
HasObject == {"syncing", "stored", "publish", "enqueue", "commit", "committed"}

\* Places at which the request has no .part file of its own.
HasNoFile == Place \ {"writing", "flushing", "staged", "renaming", "gone"}

\* A running request past put_stream has its object, whatever was lost before it;
\* every committed row has it while the power holds.
ObjectsKept ==
    /\ \A r \in Requests : pc[r] \in HasObject => objects[key[r]] # "absent"
    /\ losses = 0 => \A m \in materials : objects[key[m]] # "absent"

\* What the row of a transaction is before and after its commit; only a request
\* past its commit has given its name to a material.
RowsHeld ==
    /\ \A r \in Requests :
        /\ pc[r] \in {"enqueue", "commit"} =>
              /\ row[r] \in Requests
              /\ row[r] = r \/ row[r] \in materials
              /\ key[row[r]] = key[r]
        /\ pc[r] \in {"committed", "created", "duplicate"} =>
              /\ row[r] \in materials
              /\ key[row[r]] = key[r]
    /\ \A m \in materials : pc[m] \in {"committed", "created", "duplicate", "refused", "gone"}

\* The unique index: committed and uncommitted rows have distinct keys.
KeysUnique ==
    /\ \A m, n \in materials : key[m] = key[n] => m = n
    /\ \A r \in Requests : Inserting(r) => \A m \in materials : key[m] # key[r]
    /\ \A r, q \in Requests : Inserting(r) /\ Inserting(q) /\ key[r] = key[q] => r = q

\* Only whole, fsynced files get a final name, in the running system before the
\* disk; only the disk damages them.
ObjectsWhole ==
    /\ \A k \in Key : disk[k] # "absent" => objects[k] # "absent"
    /\ \A k \in Key : objects[k] # "cached" /\ disk[k] # "cached"
    /\ \A r \in Requests : pc[r] \in {"staged", "renaming"} => staging[r] \in {"none", "fsynced"}
    /\ faults = 0 => \A k \in Key : objects[k] # "truncated" /\ disk[k] # "truncated"

FilesGone ==
    faults = 0 => \A r \in Requests : pc[r] \in HasNoFile => staging[r] = "none"

DownloadsFound ==
    \A q \in Readers :
        /\ dl[q].at = "found" => dl[q].id \in materials
        /\ losses = 0 => dl[q].at # "missing"

IInv == /\ TypeOK /\ ObjectsKept /\ RowsHeld /\ PublishedTogether /\ KeysUnique
        /\ ObjectsWhole /\ FilesGone /\ DownloadsFound

\* Every action keeps the types; RowsHeld gives the row that Commit publishes.
LEMMA TypeStep ==
    ASSUME TypeOK, RowsHeld, [Next]_vars
    PROVE  TypeOK'
<1>1. ASSUME NEW r \in Requests, CheckPartner(r) PROVE TypeOK'
  BY <1>1 DEF CheckPartner, TypeOK, Place, Live, Final, Answered, Goto, store, tables, env
<1>2. ASSUME NEW r \in Requests, RefuseBody(r) PROVE TypeOK'
  BY <1>2 DEF RefuseBody, TypeOK, Place, Final, Answered, Goto, store, tables, env
<1>3. ASSUME NEW r \in Requests, ReadFileField(r) PROVE TypeOK'
  BY <1>3 DEF ReadFileField, TypeOK, Place, Live, Armed, Goto, store, tables, env
<1>4. ASSUME NEW r \in Requests, PrivateCreate(r) PROVE TypeOK'
  BY <1>4 DEF PrivateCreate, TypeOK, Place, Live, Armed, Final, Answered, StagingState,
     Goto, tables, env
<1>5. ASSUME NEW r \in Requests, WriteChunk(r) PROVE TypeOK'
  BY <1>5 DEF WriteChunk, TypeOK, tables, env
<1>6. ASSUME NEW r \in Requests, AbortBody(r) PROVE TypeOK'
  BY <1>6, IntakeAssumption DEF AbortBody, TypeOK, Place, Final, Answered, StagingState,
     Goto, DropGuard, tables
<1>7. ASSUME NEW r \in Requests, EndOfBody(r) PROVE TypeOK'
  BY <1>7 DEF EndOfBody, TypeOK, Place, Live, Armed, StagingState, Goto, Fill, tables, env
<1>8. ASSUME NEW r \in Requests, SyncAll(r) PROVE TypeOK'
  BY <1>8, IntakeAssumption DEF SyncAll, TypeOK, Place, Live, Armed, InTransaction,
     Final, Answered, StagingState, Goto, Fill, DropGuard, tables
<1>9. ASSUME NEW r \in Requests, StatFinal(r) PROVE TypeOK'
  BY <1>9, IntakeAssumption DEF StatFinal, TypeOK, Place, Live, Armed, Final, Answered,
     StagingState, Goto, DropGuard, tables
<1>10. ASSUME NEW r \in Requests, Rename(r) PROVE TypeOK'
  BY <1>10, IntakeAssumption DEF Rename, TypeOK, Place, Live, Final, Answered,
     StagingState, ObjectState, Goto, Renamed, DropGuard, tables
<1>11. ASSUME NEW r \in Requests, SyncDir(r) PROVE TypeOK'
  BY <1>11, IntakeAssumption DEF SyncDir, TypeOK, Place, Live, Goto, tables
<1>12. ASSUME NEW r \in Requests, EndOfForm(r) PROVE TypeOK'
  BY <1>12 DEF EndOfForm, TypeOK, Place, Live, InTransaction, Goto, store, tables, env
<1>13. ASSUME NEW r \in Requests, InsertMaterial(r) PROVE TypeOK'
  BY <1>13 DEF InsertMaterial, TypeOK, Place, Live, InTransaction, Goto, FindByDigest,
     store, tables, env
<1>14. ASSUME NEW r \in Requests, EnqueueExtraction(r) PROVE TypeOK'
  BY <1>14 DEF EnqueueExtraction, TypeOK, Place, Live, InTransaction, Goto, store,
     tables, env
<1>15. ASSUME NEW r \in Requests, Commit(r) PROVE TypeOK'
  BY <1>15 DEF Commit, TypeOK, Place, Live, InTransaction, RowsHeld, Goto, store, env
<1>16. ASSUME NEW r \in Requests, Answer(r) PROVE TypeOK'
  BY <1>16 DEF Answer, TypeOK, Place, Final, Answered, Goto, store, tables, env
<1>17. ASSUME NEW r \in Requests, PublishFails(r) PROVE TypeOK'
  BY <1>17 DEF PublishFails, TypeOK, Place, Final, Answered, Goto, store, tables, env
<1>18. ASSUME NEW r \in Requests, Disconnect(r) PROVE TypeOK'
  BY <1>18, IntakeAssumption DEF Disconnect, TypeOK, Place, Final, StagingState,
     ObjectState, Goto, Renamed, DropGuard, tables
<1>19. ASSUME NEW r \in Requests, GrowStale(r) PROVE TypeOK'
  BY <1>19 DEF GrowStale, TypeOK, tables, env
<1>20. ASSUME NEW r \in Requests, SweepStaging(r) PROVE TypeOK'
  BY <1>20 DEF SweepStaging, TypeOK, StagingState, tables, env
<1>21. ASSUME NEW q \in Readers, DownloadLookup(q) PROVE TypeOK'
  BY <1>21 DEF DownloadLookup, TypeOK, store, tables, env
<1>22. ASSUME NEW q \in Readers, DownloadOpen(q) PROVE TypeOK'
  BY <1>22 DEF DownloadOpen, TypeOK, store, tables, env
<1>23. ASSUME NEW k \in Key, TruncateObject(k) PROVE TypeOK'
  BY <1>23, IntakeAssumption DEF TruncateObject, TypeOK, ObjectState, tables
<1>24. CASE Crash
  BY <1>24, IntakeAssumption DEF Crash, TypeOK, Place, Final, StopHandlers, store, tables
<1>25. CASE PowerLoss
  BY <1>25, IntakeAssumption DEF PowerLoss, TypeOK, Place, Final, StopHandlers, tables
<1>26. CASE UNCHANGED vars
  BY <1>26 DEF vars, TypeOK
<1>27. QED
  BY <1>1, <1>2, <1>3, <1>4, <1>5, <1>6, <1>7, <1>8, <1>9, <1>10, <1>11, <1>12, <1>13,
     <1>14, <1>15, <1>16, <1>17, <1>18, <1>19, <1>20, <1>21, <1>22, <1>23, <1>24, <1>25,
     <1>26 DEF Next, Upload, PutStream, Publish, PublishStep,
     Download, Quiescent

\* No action takes away the object of a request past put_stream or of a
\* committed material: the object of a request is written before it is relied on.
LEMMA ObjectsKeptStep ==
    ASSUME TypeOK, ObjectsKept, [Next]_vars
    PROVE  ObjectsKept'
<1>1. ASSUME NEW r \in Requests, CheckPartner(r) PROVE ObjectsKept'
  BY <1>1 DEF CheckPartner, TypeOK, ObjectsKept, HasObject, Goto, store, tables, env
<1>2. ASSUME NEW r \in Requests, RefuseBody(r) PROVE ObjectsKept'
  BY <1>2 DEF RefuseBody, TypeOK, ObjectsKept, HasObject, Goto, store, tables, env
<1>3. ASSUME NEW r \in Requests, ReadFileField(r) PROVE ObjectsKept'
  BY <1>3 DEF ReadFileField, TypeOK, ObjectsKept, HasObject, Goto, store, tables, env
<1>4. ASSUME NEW r \in Requests, PrivateCreate(r) PROVE ObjectsKept'
  BY <1>4 DEF PrivateCreate, TypeOK, ObjectsKept, HasObject, Goto, tables, env
<1>5. ASSUME NEW r \in Requests, WriteChunk(r) PROVE ObjectsKept'
  BY <1>5 DEF WriteChunk, TypeOK, ObjectsKept, tables, env
<1>6. ASSUME NEW r \in Requests, AbortBody(r) PROVE ObjectsKept'
  BY <1>6 DEF AbortBody, TypeOK, ObjectsKept, HasObject, Goto, tables
<1>7. ASSUME NEW r \in Requests, EndOfBody(r) PROVE ObjectsKept'
  BY <1>7 DEF EndOfBody, TypeOK, ObjectsKept, HasObject, Goto, tables, env
<1>8. ASSUME NEW r \in Requests, SyncAll(r) PROVE ObjectsKept'
  BY <1>8 DEF SyncAll, TypeOK, ObjectsKept, HasObject, Goto, tables
<1>9. ASSUME NEW r \in Requests, StatFinal(r) PROVE ObjectsKept'
  BY <1>9 DEF StatFinal, TypeOK, ObjectsKept, HasObject, Goto, AlreadyPresent, tables
<1>10. ASSUME NEW r \in Requests, Rename(r) PROVE ObjectsKept'
  BY <1>10 DEF Rename, TypeOK, ObjectsKept, HasObject, Goto, Renamed, tables
<1>11. ASSUME NEW r \in Requests, SyncDir(r) PROVE ObjectsKept'
  BY <1>11 DEF SyncDir, TypeOK, ObjectsKept, HasObject, Goto, tables
<1>12. ASSUME NEW r \in Requests, EndOfForm(r) PROVE ObjectsKept'
  BY <1>12 DEF EndOfForm, TypeOK, ObjectsKept, HasObject, Goto, store, tables, env
<1>13. ASSUME NEW r \in Requests, InsertMaterial(r) PROVE ObjectsKept'
  BY <1>13 DEF InsertMaterial, TypeOK, ObjectsKept, HasObject, Goto, store, tables, env
<1>14. ASSUME NEW r \in Requests, EnqueueExtraction(r) PROVE ObjectsKept'
  BY <1>14 DEF EnqueueExtraction, TypeOK, ObjectsKept, HasObject, Goto, store, tables, env
<1>15. ASSUME NEW r \in Requests, Commit(r) PROVE ObjectsKept'
  BY <1>15 DEF Commit, TypeOK, ObjectsKept, HasObject, Goto, store, env
<1>16. ASSUME NEW r \in Requests, Answer(r) PROVE ObjectsKept'
  BY <1>16 DEF Answer, TypeOK, ObjectsKept, HasObject, Goto, store, tables, env
<1>17. ASSUME NEW r \in Requests, PublishFails(r) PROVE ObjectsKept'
  BY <1>17 DEF PublishFails, TypeOK, ObjectsKept, HasObject, Goto, store, tables, env
<1>18. ASSUME NEW r \in Requests, Disconnect(r) PROVE ObjectsKept'
  BY <1>18 DEF Disconnect, TypeOK, ObjectsKept, HasObject, Goto, Renamed, tables
<1>19. ASSUME NEW r \in Requests, GrowStale(r) PROVE ObjectsKept'
  BY <1>19 DEF GrowStale, TypeOK, ObjectsKept, tables, env
<1>20. ASSUME NEW r \in Requests, SweepStaging(r) PROVE ObjectsKept'
  BY <1>20 DEF SweepStaging, TypeOK, ObjectsKept, tables, env
<1>21. ASSUME NEW q \in Readers, DownloadLookup(q) PROVE ObjectsKept'
  BY <1>21 DEF DownloadLookup, TypeOK, ObjectsKept, store, tables, env
<1>22. ASSUME NEW q \in Readers, DownloadOpen(q) PROVE ObjectsKept'
  BY <1>22 DEF DownloadOpen, TypeOK, ObjectsKept, store, tables, env
<1>23. ASSUME NEW k \in Key, TruncateObject(k) PROVE ObjectsKept'
  BY <1>23 DEF TruncateObject, TypeOK, ObjectsKept, tables
<1>24. CASE Crash
  BY <1>24 DEF Crash, TypeOK, ObjectsKept, HasObject, StopHandlers, store, tables
<1>25. CASE PowerLoss
  BY <1>25, IntakeAssumption DEF PowerLoss, TypeOK, ObjectsKept, HasObject, StopHandlers, tables, Live, InTransaction
<1>26. CASE UNCHANGED vars
  BY <1>26 DEF vars, TypeOK, ObjectsKept
<1>27. QED
  BY <1>1, <1>2, <1>3, <1>4, <1>5, <1>6, <1>7, <1>8, <1>9, <1>10, <1>11, <1>12, <1>13,
     <1>14, <1>15, <1>16, <1>17, <1>18, <1>19, <1>20, <1>21, <1>22, <1>23, <1>24, <1>25,
     <1>26 DEF Next, Upload, PutStream, Publish, PublishStep,
     Download, Quiescent

\* The row of a publishing transaction is its own or a committed one with the
\* same key, from insert to the answer.
LEMMA RowsHeldStep ==
    ASSUME TypeOK, RowsHeld, [Next]_vars
    PROVE  RowsHeld'
<1>1. ASSUME NEW r \in Requests, CheckPartner(r) PROVE RowsHeld'
  BY <1>1 DEF CheckPartner, TypeOK, RowsHeld, Goto, store, tables
<1>2. ASSUME NEW r \in Requests, RefuseBody(r) PROVE RowsHeld'
  BY <1>2 DEF RefuseBody, TypeOK, RowsHeld, Goto, store, tables
<1>3. ASSUME NEW r \in Requests, ReadFileField(r) PROVE RowsHeld'
  BY <1>3 DEF ReadFileField, TypeOK, RowsHeld, Goto, store, tables
<1>4. ASSUME NEW r \in Requests, PrivateCreate(r) PROVE RowsHeld'
  BY <1>4 DEF PrivateCreate, TypeOK, RowsHeld, Goto, tables
<1>5. ASSUME NEW r \in Requests, WriteChunk(r) PROVE RowsHeld'
  BY <1>5 DEF WriteChunk, TypeOK, RowsHeld, tables
<1>6. ASSUME NEW r \in Requests, AbortBody(r) PROVE RowsHeld'
  BY <1>6 DEF AbortBody, TypeOK, RowsHeld, Goto, tables
<1>7. ASSUME NEW r \in Requests, EndOfBody(r) PROVE RowsHeld'
  BY <1>7 DEF EndOfBody, TypeOK, RowsHeld, Goto, tables
<1>8. ASSUME NEW r \in Requests, SyncAll(r) PROVE RowsHeld'
  BY <1>8 DEF SyncAll, TypeOK, RowsHeld, Goto, tables
<1>9. ASSUME NEW r \in Requests, StatFinal(r) PROVE RowsHeld'
  BY <1>9 DEF StatFinal, TypeOK, RowsHeld, Goto, tables
<1>10. ASSUME NEW r \in Requests, Rename(r) PROVE RowsHeld'
  BY <1>10 DEF Rename, TypeOK, RowsHeld, Goto, tables
<1>11. ASSUME NEW r \in Requests, SyncDir(r) PROVE RowsHeld'
  BY <1>11 DEF SyncDir, TypeOK, RowsHeld, Goto, tables
<1>12. ASSUME NEW r \in Requests, EndOfForm(r) PROVE RowsHeld'
  BY <1>12 DEF EndOfForm, TypeOK, RowsHeld, Goto, store, tables
<1>13. ASSUME NEW r \in Requests, InsertMaterial(r) PROVE RowsHeld'
  BY <1>13 DEF InsertMaterial, TypeOK, RowsHeld, Goto, FindByDigest, store, tables
<1>14. ASSUME NEW r \in Requests, EnqueueExtraction(r) PROVE RowsHeld'
  BY <1>14 DEF EnqueueExtraction, TypeOK, RowsHeld, Goto, store, tables
<1>15. ASSUME NEW r \in Requests, Commit(r) PROVE RowsHeld'
  BY <1>15 DEF Commit, TypeOK, RowsHeld, Goto, store
<1>16. ASSUME NEW r \in Requests, Answer(r) PROVE RowsHeld'
  BY <1>16 DEF Answer, TypeOK, RowsHeld, Goto, store, tables
<1>17. ASSUME NEW r \in Requests, PublishFails(r) PROVE RowsHeld'
  BY <1>17 DEF PublishFails, TypeOK, RowsHeld, Goto, store, tables
<1>18. ASSUME NEW r \in Requests, Disconnect(r) PROVE RowsHeld'
  BY <1>18 DEF Disconnect, TypeOK, RowsHeld, Goto, tables
<1>19. ASSUME NEW r \in Requests, GrowStale(r) PROVE RowsHeld'
  BY <1>19 DEF GrowStale, TypeOK, RowsHeld, tables
<1>20. ASSUME NEW r \in Requests, SweepStaging(r) PROVE RowsHeld'
  BY <1>20 DEF SweepStaging, TypeOK, RowsHeld, tables
<1>21. ASSUME NEW q \in Readers, DownloadLookup(q) PROVE RowsHeld'
  BY <1>21 DEF DownloadLookup, TypeOK, RowsHeld, store, tables
<1>22. ASSUME NEW q \in Readers, DownloadOpen(q) PROVE RowsHeld'
  BY <1>22 DEF DownloadOpen, TypeOK, RowsHeld, store, tables
<1>23. ASSUME NEW k \in Key, TruncateObject(k) PROVE RowsHeld'
  BY <1>23 DEF TruncateObject, TypeOK, RowsHeld, tables
<1>24. CASE Crash
  BY <1>24 DEF Crash, TypeOK, RowsHeld, StopHandlers, store, tables
<1>25. CASE PowerLoss
  BY <1>25 DEF PowerLoss, TypeOK, RowsHeld, StopHandlers, tables
<1>26. CASE UNCHANGED vars
  BY <1>26 DEF vars, TypeOK, RowsHeld
<1>27. QED
  BY <1>1, <1>2, <1>3, <1>4, <1>5, <1>6, <1>7, <1>8, <1>9, <1>10, <1>11, <1>12, <1>13,
     <1>14, <1>15, <1>16, <1>17, <1>18, <1>19, <1>20, <1>21, <1>22, <1>23, <1>24, <1>25,
     <1>26 DEF Next, Upload, PutStream, Publish, PublishStep,
     Download, Quiescent

\* The commit adds a material and its job together.
LEMMA PublishedTogetherStep ==
    ASSUME TypeOK, RowsHeld, PublishedTogether, [Next]_vars
    PROVE  PublishedTogether'
<1>1. ASSUME NEW r \in Requests, CheckPartner(r) PROVE PublishedTogether'
  BY <1>1 DEF CheckPartner, TypeOK, PublishedTogether, Goto, store, tables
<1>2. ASSUME NEW r \in Requests, RefuseBody(r) PROVE PublishedTogether'
  BY <1>2 DEF RefuseBody, TypeOK, PublishedTogether, Goto, store, tables
<1>3. ASSUME NEW r \in Requests, ReadFileField(r) PROVE PublishedTogether'
  BY <1>3 DEF ReadFileField, TypeOK, PublishedTogether, Goto, store, tables
<1>4. ASSUME NEW r \in Requests, PrivateCreate(r) PROVE PublishedTogether'
  BY <1>4 DEF PrivateCreate, TypeOK, PublishedTogether, Goto, tables
<1>5. ASSUME NEW r \in Requests, WriteChunk(r) PROVE PublishedTogether'
  BY <1>5 DEF WriteChunk, TypeOK, PublishedTogether, tables
<1>6. ASSUME NEW r \in Requests, AbortBody(r) PROVE PublishedTogether'
  BY <1>6 DEF AbortBody, TypeOK, PublishedTogether, Goto, tables
<1>7. ASSUME NEW r \in Requests, EndOfBody(r) PROVE PublishedTogether'
  BY <1>7 DEF EndOfBody, TypeOK, PublishedTogether, Goto, tables
<1>8. ASSUME NEW r \in Requests, SyncAll(r) PROVE PublishedTogether'
  BY <1>8 DEF SyncAll, TypeOK, PublishedTogether, Goto, tables
<1>9. ASSUME NEW r \in Requests, StatFinal(r) PROVE PublishedTogether'
  BY <1>9 DEF StatFinal, TypeOK, PublishedTogether, Goto, tables
<1>10. ASSUME NEW r \in Requests, Rename(r) PROVE PublishedTogether'
  BY <1>10 DEF Rename, TypeOK, PublishedTogether, Goto, tables
<1>11. ASSUME NEW r \in Requests, SyncDir(r) PROVE PublishedTogether'
  BY <1>11 DEF SyncDir, TypeOK, PublishedTogether, Goto, tables
<1>12. ASSUME NEW r \in Requests, EndOfForm(r) PROVE PublishedTogether'
  BY <1>12 DEF EndOfForm, TypeOK, PublishedTogether, Goto, store, tables
<1>13. ASSUME NEW r \in Requests, InsertMaterial(r) PROVE PublishedTogether'
  BY <1>13 DEF InsertMaterial, TypeOK, PublishedTogether, Goto, store, tables
<1>14. ASSUME NEW r \in Requests, EnqueueExtraction(r) PROVE PublishedTogether'
  BY <1>14 DEF EnqueueExtraction, TypeOK, PublishedTogether, Goto, store, tables
<1>15. ASSUME NEW r \in Requests, Commit(r) PROVE PublishedTogether'
  BY <1>15 DEF Commit, TypeOK, RowsHeld, PublishedTogether, Goto, store
<1>16. ASSUME NEW r \in Requests, Answer(r) PROVE PublishedTogether'
  BY <1>16 DEF Answer, TypeOK, PublishedTogether, Goto, store, tables
<1>17. ASSUME NEW r \in Requests, PublishFails(r) PROVE PublishedTogether'
  BY <1>17 DEF PublishFails, TypeOK, PublishedTogether, Goto, store, tables
<1>18. ASSUME NEW r \in Requests, Disconnect(r) PROVE PublishedTogether'
  BY <1>18 DEF Disconnect, TypeOK, PublishedTogether, Goto, tables
<1>19. ASSUME NEW r \in Requests, GrowStale(r) PROVE PublishedTogether'
  BY <1>19 DEF GrowStale, TypeOK, PublishedTogether, tables
<1>20. ASSUME NEW r \in Requests, SweepStaging(r) PROVE PublishedTogether'
  BY <1>20 DEF SweepStaging, TypeOK, PublishedTogether, tables
<1>21. ASSUME NEW q \in Readers, DownloadLookup(q) PROVE PublishedTogether'
  BY <1>21 DEF DownloadLookup, TypeOK, PublishedTogether, store, tables
<1>22. ASSUME NEW q \in Readers, DownloadOpen(q) PROVE PublishedTogether'
  BY <1>22 DEF DownloadOpen, TypeOK, PublishedTogether, store, tables
<1>23. ASSUME NEW k \in Key, TruncateObject(k) PROVE PublishedTogether'
  BY <1>23 DEF TruncateObject, TypeOK, PublishedTogether, tables
<1>24. CASE Crash
  BY <1>24 DEF Crash, TypeOK, PublishedTogether, StopHandlers, store, tables
<1>25. CASE PowerLoss
  BY <1>25 DEF PowerLoss, TypeOK, PublishedTogether, StopHandlers, tables
<1>26. CASE UNCHANGED vars
  BY <1>26 DEF vars, TypeOK, PublishedTogether
<1>27. QED
  BY <1>1, <1>2, <1>3, <1>4, <1>5, <1>6, <1>7, <1>8, <1>9, <1>10, <1>11, <1>12, <1>13,
     <1>14, <1>15, <1>16, <1>17, <1>18, <1>19, <1>20, <1>21, <1>22, <1>23, <1>24, <1>25,
     <1>26 DEF Next, Upload, PutStream, Publish, PublishStep,
     Download, Quiescent

\* insert waits for uncommitted rows with its key and adopts committed ones, so
\* no two rows share a key.
LEMMA KeysUniqueStep ==
    ASSUME TypeOK, RowsHeld, KeysUnique, [Next]_vars
    PROVE  KeysUnique'
<1>1. ASSUME NEW r \in Requests, CheckPartner(r) PROVE KeysUnique'
  BY <1>1 DEF CheckPartner, TypeOK, KeysUnique, Inserting, Goto, store, tables
<1>2. ASSUME NEW r \in Requests, RefuseBody(r) PROVE KeysUnique'
  BY <1>2 DEF RefuseBody, TypeOK, KeysUnique, Inserting, Goto, store, tables
<1>3. ASSUME NEW r \in Requests, ReadFileField(r) PROVE KeysUnique'
  BY <1>3 DEF ReadFileField, TypeOK, KeysUnique, Inserting, Goto, store, tables
<1>4. ASSUME NEW r \in Requests, PrivateCreate(r) PROVE KeysUnique'
  BY <1>4 DEF PrivateCreate, TypeOK, KeysUnique, Inserting, Goto, tables
<1>5. ASSUME NEW r \in Requests, WriteChunk(r) PROVE KeysUnique'
  BY <1>5 DEF WriteChunk, TypeOK, KeysUnique, Inserting, tables
<1>6. ASSUME NEW r \in Requests, AbortBody(r) PROVE KeysUnique'
  BY <1>6 DEF AbortBody, TypeOK, KeysUnique, Inserting, Goto, tables
<1>7. ASSUME NEW r \in Requests, EndOfBody(r) PROVE KeysUnique'
  BY <1>7 DEF EndOfBody, TypeOK, KeysUnique, Inserting, Goto, tables
<1>8. ASSUME NEW r \in Requests, SyncAll(r) PROVE KeysUnique'
  BY <1>8 DEF SyncAll, TypeOK, KeysUnique, Inserting, Goto, tables
<1>9. ASSUME NEW r \in Requests, StatFinal(r) PROVE KeysUnique'
  BY <1>9 DEF StatFinal, TypeOK, KeysUnique, Inserting, Goto, tables
<1>10. ASSUME NEW r \in Requests, Rename(r) PROVE KeysUnique'
  BY <1>10 DEF Rename, TypeOK, KeysUnique, Inserting, Goto, tables
<1>11. ASSUME NEW r \in Requests, SyncDir(r) PROVE KeysUnique'
  BY <1>11 DEF SyncDir, TypeOK, KeysUnique, Inserting, Goto, tables
<1>12. ASSUME NEW r \in Requests, EndOfForm(r) PROVE KeysUnique'
  BY <1>12 DEF EndOfForm, TypeOK, KeysUnique, Inserting, Goto, store, tables
<1>13. ASSUME NEW r \in Requests, InsertMaterial(r) PROVE KeysUnique'
  BY <1>13 DEF InsertMaterial, TypeOK, RowsHeld, KeysUnique, Inserting, Goto,
     FindByDigest, store, tables
<1>14. ASSUME NEW r \in Requests, EnqueueExtraction(r) PROVE KeysUnique'
  BY <1>14 DEF EnqueueExtraction, TypeOK, KeysUnique, Inserting, Goto, store, tables
<1>15. ASSUME NEW r \in Requests, Commit(r) PROVE KeysUnique'
  BY <1>15 DEF Commit, TypeOK, KeysUnique, Inserting, Goto, store
<1>16. ASSUME NEW r \in Requests, Answer(r) PROVE KeysUnique'
  BY <1>16 DEF Answer, TypeOK, KeysUnique, Inserting, Goto, store, tables
<1>17. ASSUME NEW r \in Requests, PublishFails(r) PROVE KeysUnique'
  BY <1>17 DEF PublishFails, TypeOK, KeysUnique, Inserting, Goto, store, tables
<1>18. ASSUME NEW r \in Requests, Disconnect(r) PROVE KeysUnique'
  BY <1>18 DEF Disconnect, TypeOK, KeysUnique, Inserting, Goto, tables
<1>19. ASSUME NEW r \in Requests, GrowStale(r) PROVE KeysUnique'
  BY <1>19 DEF GrowStale, TypeOK, KeysUnique, Inserting, tables
<1>20. ASSUME NEW r \in Requests, SweepStaging(r) PROVE KeysUnique'
  BY <1>20 DEF SweepStaging, TypeOK, KeysUnique, Inserting, tables
<1>21. ASSUME NEW q \in Readers, DownloadLookup(q) PROVE KeysUnique'
  BY <1>21 DEF DownloadLookup, TypeOK, KeysUnique, Inserting, store, tables
<1>22. ASSUME NEW q \in Readers, DownloadOpen(q) PROVE KeysUnique'
  BY <1>22 DEF DownloadOpen, TypeOK, KeysUnique, Inserting, store, tables
<1>23. ASSUME NEW k \in Key, TruncateObject(k) PROVE KeysUnique'
  BY <1>23 DEF TruncateObject, TypeOK, KeysUnique, Inserting, tables
<1>24. CASE Crash
  BY <1>24 DEF Crash, TypeOK, KeysUnique, Inserting, StopHandlers, store, tables
<1>25. CASE PowerLoss
  BY <1>25 DEF PowerLoss, TypeOK, KeysUnique, Inserting, StopHandlers, tables
<1>26. CASE UNCHANGED vars
  BY <1>26 DEF vars, TypeOK, KeysUnique, Inserting
<1>27. QED
  BY <1>1, <1>2, <1>3, <1>4, <1>5, <1>6, <1>7, <1>8, <1>9, <1>10, <1>11, <1>12, <1>13,
     <1>14, <1>15, <1>16, <1>17, <1>18, <1>19, <1>20, <1>21, <1>22, <1>23, <1>24, <1>25,
     <1>26 DEF Next, Upload, PutStream, Publish, PublishStep,
     Download, Quiescent

\* put_stream renames only files that sync_all has returned for.
LEMMA ObjectsWholeStep ==
    ASSUME TypeOK, ObjectsWhole, [Next]_vars
    PROVE  ObjectsWhole'
<1>1. ASSUME NEW r \in Requests, CheckPartner(r) PROVE ObjectsWhole'
  BY <1>1 DEF CheckPartner, TypeOK, ObjectsWhole, Goto, store, tables, env
<1>2. ASSUME NEW r \in Requests, RefuseBody(r) PROVE ObjectsWhole'
  BY <1>2 DEF RefuseBody, TypeOK, ObjectsWhole, Goto, store, tables, env
<1>3. ASSUME NEW r \in Requests, ReadFileField(r) PROVE ObjectsWhole'
  BY <1>3 DEF ReadFileField, TypeOK, ObjectsWhole, Goto, store, tables, env
<1>4. ASSUME NEW r \in Requests, PrivateCreate(r) PROVE ObjectsWhole'
  BY <1>4 DEF PrivateCreate, TypeOK, ObjectsWhole, Goto, tables, env
<1>5. ASSUME NEW r \in Requests, WriteChunk(r) PROVE ObjectsWhole'
  BY <1>5 DEF WriteChunk, TypeOK, ObjectsWhole, tables, env
<1>6. ASSUME NEW r \in Requests, AbortBody(r) PROVE ObjectsWhole'
  BY <1>6 DEF AbortBody, TypeOK, ObjectsWhole, Goto, DropGuard, tables
<1>7. ASSUME NEW r \in Requests, EndOfBody(r) PROVE ObjectsWhole'
  BY <1>7 DEF EndOfBody, TypeOK, ObjectsWhole, Goto, Fill, tables, env
<1>8. ASSUME NEW r \in Requests, SyncAll(r) PROVE ObjectsWhole'
  BY <1>8 DEF SyncAll, TypeOK, ObjectsWhole, Goto, Fill, DropGuard, tables
<1>9. ASSUME NEW r \in Requests, StatFinal(r) PROVE ObjectsWhole'
  BY <1>9 DEF StatFinal, TypeOK, ObjectsWhole, Goto, DropGuard, tables
<1>10. ASSUME NEW r \in Requests, Rename(r) PROVE ObjectsWhole'
  BY <1>10 DEF Rename, TypeOK, ObjectsWhole, Goto, Renamed, DropGuard, tables
<1>11. ASSUME NEW r \in Requests, SyncDir(r) PROVE ObjectsWhole'
  BY <1>11 DEF SyncDir, TypeOK, ObjectsWhole, Goto, tables
<1>12. ASSUME NEW r \in Requests, EndOfForm(r) PROVE ObjectsWhole'
  BY <1>12 DEF EndOfForm, TypeOK, ObjectsWhole, Goto, store, tables, env
<1>13. ASSUME NEW r \in Requests, InsertMaterial(r) PROVE ObjectsWhole'
  BY <1>13 DEF InsertMaterial, TypeOK, ObjectsWhole, Goto, store, tables, env
<1>14. ASSUME NEW r \in Requests, EnqueueExtraction(r) PROVE ObjectsWhole'
  BY <1>14 DEF EnqueueExtraction, TypeOK, ObjectsWhole, Goto, store, tables, env
<1>15. ASSUME NEW r \in Requests, Commit(r) PROVE ObjectsWhole'
  BY <1>15 DEF Commit, TypeOK, ObjectsWhole, Goto, store, env
<1>16. ASSUME NEW r \in Requests, Answer(r) PROVE ObjectsWhole'
  BY <1>16 DEF Answer, TypeOK, ObjectsWhole, Goto, store, tables, env
<1>17. ASSUME NEW r \in Requests, PublishFails(r) PROVE ObjectsWhole'
  BY <1>17 DEF PublishFails, TypeOK, ObjectsWhole, Goto, store, tables, env
<1>18. ASSUME NEW r \in Requests, Disconnect(r) PROVE ObjectsWhole'
  BY <1>18 DEF Disconnect, TypeOK, ObjectsWhole, Goto, Renamed, DropGuard, tables
<1>19. ASSUME NEW r \in Requests, GrowStale(r) PROVE ObjectsWhole'
  BY <1>19 DEF GrowStale, TypeOK, ObjectsWhole, tables, env
<1>20. ASSUME NEW r \in Requests, SweepStaging(r) PROVE ObjectsWhole'
  BY <1>20 DEF SweepStaging, TypeOK, ObjectsWhole, tables, env
<1>21. ASSUME NEW q \in Readers, DownloadLookup(q) PROVE ObjectsWhole'
  BY <1>21 DEF DownloadLookup, TypeOK, ObjectsWhole, store, tables, env
<1>22. ASSUME NEW q \in Readers, DownloadOpen(q) PROVE ObjectsWhole'
  BY <1>22 DEF DownloadOpen, TypeOK, ObjectsWhole, store, tables, env
<1>23. ASSUME NEW k \in Key, TruncateObject(k) PROVE ObjectsWhole'
  BY <1>23 DEF TruncateObject, TypeOK, ObjectsWhole, tables
<1>24. CASE Crash
  BY <1>24 DEF Crash, TypeOK, ObjectsWhole, StopHandlers, store, tables
<1>25. CASE PowerLoss
  BY <1>25 DEF PowerLoss, TypeOK, ObjectsWhole, StopHandlers, AfterLoss, tables
<1>26. CASE UNCHANGED vars
  BY <1>26 DEF vars, TypeOK, ObjectsWhole
<1>27. QED
  BY <1>1, <1>2, <1>3, <1>4, <1>5, <1>6, <1>7, <1>8, <1>9, <1>10, <1>11, <1>12, <1>13,
     <1>14, <1>15, <1>16, <1>17, <1>18, <1>19, <1>20, <1>21, <1>22, <1>23, <1>24, <1>25,
     <1>26 DEF Next, Upload, PutStream, Publish, PublishStep,
     Download, Quiescent

\* Every way out of put_stream but a dropped future takes the .part file along.
LEMMA FilesGoneStep ==
    ASSUME TypeOK, FilesGone, [Next]_vars
    PROVE  FilesGone'
<1>1. ASSUME NEW r \in Requests, CheckPartner(r) PROVE FilesGone'
  BY <1>1 DEF CheckPartner, TypeOK, FilesGone, HasNoFile, Goto, store, tables, env
<1>2. ASSUME NEW r \in Requests, RefuseBody(r) PROVE FilesGone'
  BY <1>2 DEF RefuseBody, TypeOK, FilesGone, HasNoFile, Goto, store, tables, env
<1>3. ASSUME NEW r \in Requests, ReadFileField(r) PROVE FilesGone'
  BY <1>3 DEF ReadFileField, TypeOK, FilesGone, HasNoFile, Goto, store, tables, env
<1>4. ASSUME NEW r \in Requests, PrivateCreate(r) PROVE FilesGone'
  BY <1>4 DEF PrivateCreate, TypeOK, FilesGone, HasNoFile, Goto, tables, env
<1>5. ASSUME NEW r \in Requests, WriteChunk(r) PROVE FilesGone'
  BY <1>5 DEF WriteChunk, TypeOK, FilesGone, tables, env
<1>6. ASSUME NEW r \in Requests, AbortBody(r) PROVE FilesGone'
  BY <1>6 DEF AbortBody, TypeOK, FilesGone, Goto, DropGuard, tables
<1>7. ASSUME NEW r \in Requests, EndOfBody(r) PROVE FilesGone'
  BY <1>7 DEF EndOfBody, TypeOK, FilesGone, HasNoFile, Goto, Fill, tables, env
<1>8. ASSUME NEW r \in Requests, SyncAll(r) PROVE FilesGone'
  BY <1>8 DEF SyncAll, TypeOK, FilesGone, HasNoFile, Goto, Fill, DropGuard, tables
<1>9. ASSUME NEW r \in Requests, StatFinal(r) PROVE FilesGone'
  BY <1>9 DEF StatFinal, TypeOK, FilesGone, HasNoFile, Goto, DropGuard, tables
<1>10. ASSUME NEW r \in Requests, Rename(r) PROVE FilesGone'
  BY <1>10 DEF Rename, TypeOK, FilesGone, Goto, DropGuard, tables
<1>11. ASSUME NEW r \in Requests, SyncDir(r) PROVE FilesGone'
  BY <1>11 DEF SyncDir, TypeOK, FilesGone, HasNoFile, Goto, tables
<1>12. ASSUME NEW r \in Requests, EndOfForm(r) PROVE FilesGone'
  BY <1>12 DEF EndOfForm, TypeOK, FilesGone, HasNoFile, Goto, store, tables, env
<1>13. ASSUME NEW r \in Requests, InsertMaterial(r) PROVE FilesGone'
  BY <1>13 DEF InsertMaterial, TypeOK, FilesGone, HasNoFile, Goto, store, tables, env
<1>14. ASSUME NEW r \in Requests, EnqueueExtraction(r) PROVE FilesGone'
  BY <1>14 DEF EnqueueExtraction, TypeOK, FilesGone, HasNoFile, Goto, store, tables, env
<1>15. ASSUME NEW r \in Requests, Commit(r) PROVE FilesGone'
  BY <1>15 DEF Commit, TypeOK, FilesGone, HasNoFile, Goto, store, env
<1>16. ASSUME NEW r \in Requests, Answer(r) PROVE FilesGone'
  BY <1>16 DEF Answer, TypeOK, FilesGone, HasNoFile, Goto, store, tables, env
<1>17. ASSUME NEW r \in Requests, PublishFails(r) PROVE FilesGone'
  BY <1>17 DEF PublishFails, TypeOK, InTransaction, FilesGone, HasNoFile, Goto, store,
     tables, env
<1>18. ASSUME NEW r \in Requests, Disconnect(r) PROVE FilesGone'
  BY <1>18 DEF Disconnect, TypeOK, FilesGone, HasNoFile, Goto, DropGuard, tables
<1>19. ASSUME NEW r \in Requests, GrowStale(r) PROVE FilesGone'
  BY <1>19 DEF GrowStale, TypeOK, FilesGone, tables, env
<1>20. ASSUME NEW r \in Requests, SweepStaging(r) PROVE FilesGone'
  BY <1>20 DEF SweepStaging, TypeOK, FilesGone, tables, env
<1>21. ASSUME NEW q \in Readers, DownloadLookup(q) PROVE FilesGone'
  BY <1>21 DEF DownloadLookup, TypeOK, FilesGone, store, tables, env
<1>22. ASSUME NEW q \in Readers, DownloadOpen(q) PROVE FilesGone'
  BY <1>22 DEF DownloadOpen, TypeOK, FilesGone, store, tables, env
<1>23. ASSUME NEW k \in Key, TruncateObject(k) PROVE FilesGone'
  BY <1>23 DEF TruncateObject, TypeOK, FilesGone, tables
<1>24. CASE Crash
  BY <1>24 DEF Crash, TypeOK, FilesGone, HasNoFile, StopHandlers, store, tables
<1>25. CASE PowerLoss
  BY <1>25 DEF PowerLoss, TypeOK, FilesGone, HasNoFile, StopHandlers, tables
<1>26. CASE UNCHANGED vars
  BY <1>26 DEF vars, TypeOK, FilesGone
<1>27. QED
  BY <1>1, <1>2, <1>3, <1>4, <1>5, <1>6, <1>7, <1>8, <1>9, <1>10, <1>11, <1>12, <1>13,
     <1>14, <1>15, <1>16, <1>17, <1>18, <1>19, <1>20, <1>21, <1>22, <1>23, <1>24, <1>25,
     <1>26 DEF Next, Upload, PutStream, Publish, PublishStep,
     Download, Quiescent

\* Rows are never deleted, so what a download found stays.
LEMMA DownloadsFoundStep ==
    ASSUME TypeOK, ObjectsKept, DownloadsFound, [Next]_vars
    PROVE  DownloadsFound'
<1>1. ASSUME NEW r \in Requests, CheckPartner(r) PROVE DownloadsFound'
  BY <1>1 DEF CheckPartner, TypeOK, DownloadsFound, Goto, store, tables, env
<1>2. ASSUME NEW r \in Requests, RefuseBody(r) PROVE DownloadsFound'
  BY <1>2 DEF RefuseBody, TypeOK, DownloadsFound, Goto, store, tables, env
<1>3. ASSUME NEW r \in Requests, ReadFileField(r) PROVE DownloadsFound'
  BY <1>3 DEF ReadFileField, TypeOK, DownloadsFound, Goto, store, tables, env
<1>4. ASSUME NEW r \in Requests, PrivateCreate(r) PROVE DownloadsFound'
  BY <1>4 DEF PrivateCreate, TypeOK, DownloadsFound, Goto, tables, env
<1>5. ASSUME NEW r \in Requests, WriteChunk(r) PROVE DownloadsFound'
  BY <1>5 DEF WriteChunk, TypeOK, DownloadsFound, tables, env
<1>6. ASSUME NEW r \in Requests, AbortBody(r) PROVE DownloadsFound'
  BY <1>6 DEF AbortBody, TypeOK, DownloadsFound, Goto, tables
<1>7. ASSUME NEW r \in Requests, EndOfBody(r) PROVE DownloadsFound'
  BY <1>7 DEF EndOfBody, TypeOK, DownloadsFound, Goto, tables, env
<1>8. ASSUME NEW r \in Requests, SyncAll(r) PROVE DownloadsFound'
  BY <1>8 DEF SyncAll, TypeOK, DownloadsFound, Goto, tables
<1>9. ASSUME NEW r \in Requests, StatFinal(r) PROVE DownloadsFound'
  BY <1>9 DEF StatFinal, TypeOK, DownloadsFound, Goto, tables
<1>10. ASSUME NEW r \in Requests, Rename(r) PROVE DownloadsFound'
  BY <1>10 DEF Rename, TypeOK, DownloadsFound, Goto, tables
<1>11. ASSUME NEW r \in Requests, SyncDir(r) PROVE DownloadsFound'
  BY <1>11 DEF SyncDir, TypeOK, DownloadsFound, Goto, tables
<1>12. ASSUME NEW r \in Requests, EndOfForm(r) PROVE DownloadsFound'
  BY <1>12 DEF EndOfForm, TypeOK, DownloadsFound, Goto, store, tables, env
<1>13. ASSUME NEW r \in Requests, InsertMaterial(r) PROVE DownloadsFound'
  BY <1>13 DEF InsertMaterial, TypeOK, DownloadsFound, Goto, store, tables, env
<1>14. ASSUME NEW r \in Requests, EnqueueExtraction(r) PROVE DownloadsFound'
  BY <1>14 DEF EnqueueExtraction, TypeOK, DownloadsFound, Goto, store, tables, env
<1>15. ASSUME NEW r \in Requests, Commit(r) PROVE DownloadsFound'
  BY <1>15 DEF Commit, TypeOK, DownloadsFound, Goto, store, env
<1>16. ASSUME NEW r \in Requests, Answer(r) PROVE DownloadsFound'
  BY <1>16 DEF Answer, TypeOK, DownloadsFound, Goto, store, tables, env
<1>17. ASSUME NEW r \in Requests, PublishFails(r) PROVE DownloadsFound'
  BY <1>17 DEF PublishFails, TypeOK, DownloadsFound, Goto, store, tables, env
<1>18. ASSUME NEW r \in Requests, Disconnect(r) PROVE DownloadsFound'
  BY <1>18 DEF Disconnect, TypeOK, DownloadsFound, Goto, tables
<1>19. ASSUME NEW r \in Requests, GrowStale(r) PROVE DownloadsFound'
  BY <1>19 DEF GrowStale, TypeOK, DownloadsFound, tables, env
<1>20. ASSUME NEW r \in Requests, SweepStaging(r) PROVE DownloadsFound'
  BY <1>20 DEF SweepStaging, TypeOK, DownloadsFound, tables, env
<1>21. ASSUME NEW q \in Readers, DownloadLookup(q) PROVE DownloadsFound'
  BY <1>21 DEF DownloadLookup, TypeOK, DownloadsFound, store, tables, env
<1>22. ASSUME NEW q \in Readers, DownloadOpen(q) PROVE DownloadsFound'
  BY <1>22 DEF DownloadOpen, TypeOK, ObjectsKept, DownloadsFound, store, tables, env
<1>23. ASSUME NEW k \in Key, TruncateObject(k) PROVE DownloadsFound'
  BY <1>23 DEF TruncateObject, TypeOK, DownloadsFound, tables
<1>24. CASE Crash
  BY <1>24 DEF Crash, TypeOK, DownloadsFound, StopHandlers, store, tables
<1>25. CASE PowerLoss
  BY <1>25 DEF PowerLoss, TypeOK, DownloadsFound, StopHandlers, tables
<1>26. CASE UNCHANGED vars
  BY <1>26 DEF vars, TypeOK, DownloadsFound
<1>27. QED
  BY <1>1, <1>2, <1>3, <1>4, <1>5, <1>6, <1>7, <1>8, <1>9, <1>10, <1>11, <1>12, <1>13,
     <1>14, <1>15, <1>16, <1>17, <1>18, <1>19, <1>20, <1>21, <1>22, <1>23, <1>24, <1>25,
     <1>26 DEF Next, Upload, PutStream, Publish, PublishStep,
     Download, Quiescent
-----------------------------------------------------------------------------
\* The initial states satisfy the inductive invariant.
LEMMA InitIInv == Init => IInv
<1> SUFFICES ASSUME Init PROVE IInv
  OBVIOUS
<1>1. TypeOK
  BY IntakeAssumption DEF Init, TypeOK, Place, StagingState, ObjectState
<1>2. ObjectsKept /\ RowsHeld /\ PublishedTogether /\ KeysUnique
  BY DEF Init, ObjectsKept, RowsHeld, PublishedTogether, KeysUnique, Inserting, HasObject
<1>3. ObjectsWhole /\ FilesGone /\ DownloadsFound
  BY DEF Init, ObjectsWhole, FilesGone, DownloadsFound
<1>4. QED
  BY <1>1, <1>2, <1>3 DEF IInv

\* Every step preserves the inductive invariant.
LEMMA NextIInv == IInv /\ [Next]_vars => IInv'
<1> SUFFICES ASSUME IInv, [Next]_vars PROVE IInv'
  OBVIOUS
<1> USE DEF IInv
<1>1. TypeOK' /\ RowsHeld' /\ PublishedTogether' /\ KeysUnique'
  BY TypeStep, RowsHeldStep, PublishedTogetherStep, KeysUniqueStep
<1>2. ObjectsKept' /\ ObjectsWhole' /\ FilesGone' /\ DownloadsFound'
  BY ObjectsKeptStep, ObjectsWholeStep, FilesGoneStep, DownloadsFoundStep
<1>3. QED
  BY <1>1, <1>2

\* IInv is an invariant of intake.
THEOREM IntakeInvariant == Spec => []IInv
  BY InitIInv, NextIInv, PTL DEF Spec

-----------------------------------------------------------------------------
(* The safety properties of Intake.                                        *)

\* Every variable of intake keeps its type.
THEOREM TypeCorrect == Spec => []TypeOK
<1>1. IInv => TypeOK
  BY DEF IInv
<1>2. QED
  BY IntakeInvariant, <1>1, PTL

\* However many uploads of the same bytes run, fail or are cancelled next to
\* each other, a committed material has its object.
THEOREM MaterialsKeepOriginals == Spec => []RowsHaveOriginals
<1>1. IInv => RowsHaveOriginals
  <2> SUFFICES ASSUME IInv, losses = 0, NEW m \in materials
               PROVE  /\ objects[key[m]] # "absent"
                      /\ faults = 0 => objects[key[m]] = "intact"
    BY DEF RowsHaveOriginals
  <2>1. key[m] \in Key /\ objects[key[m]] \in ObjectState
    BY DEF IInv, TypeOK
  <2>2. QED
    BY <2>1 DEF IInv, ObjectsKept, ObjectsWhole, ObjectState
<1>2. QED
  BY IntakeInvariant, <1>1, PTL

\* The material and its job are visible together or not at all.
THEOREM MaterialsAndJobsAgree == Spec => []PublishedTogether
<1>1. IInv => PublishedTogether
  BY DEF IInv
<1>2. QED
  BY IntakeInvariant, <1>1, PTL

\* enqueue_extraction never finds its key held by a transaction in flight, so a
\* publishing transaction waits at most once, before it holds anything.
THEOREM EnqueueNeverWaits == Spec => []NoWaitForJobs
<1>1. IInv => NoWaitForJobs
  <2>. SUFFICES ASSUME IInv, NEW r \in Requests, pc[r] = "enqueue", row[r] \notin jobs,
                       NEW q \in Requests \ {r}, pc[q] = "commit", row[q] = row[r]
                PROVE  FALSE
    BY DEF NoWaitForJobs, JobKeyHeld
  <2>1. row[r] \notin materials
    BY DEF IInv, PublishedTogether
  <2>2. row[r] = r /\ row[q] = q
    BY <2>1 DEF IInv, RowsHeld
  <2>. QED  BY <2>2
<1>2. QED
  BY IntakeInvariant, <1>1, PTL

\* One row per (partner, digest), and every accepted upload names it.
THEOREM OriginalsDeduplicated == Spec => []OneRowPerOriginal
<1>1. IInv => OneRowPerOriginal
  BY DEF IInv, RowsHeld, KeysUnique, OneRowPerOriginal, Accepted, FindByDigest
<1>2. QED
  BY IntakeInvariant, <1>1, PTL

\* No crash and no power loss leaves a half-written object under a final name.
THEOREM OriginalsNeverTorn == Spec => []NoTornOriginals
<1>1. IInv => NoTornOriginals
  BY DEF IInv, TypeOK, ObjectState, ObjectsWhole, NoTornOriginals
<1>2. QED
  BY IntakeInvariant, <1>1, PTL

\* An answered upload has cleaned up its staging file.
THEOREM AnswersLeaveNoStaging == Spec => []AnsweredLeavesNoStaging
<1>1. IInv => AnsweredLeavesNoStaging
  BY DEF IInv, FilesGone, HasNoFile, Place, Final, Answered, AnsweredLeavesNoStaging
<1>2. QED
  BY IntakeInvariant, <1>1, PTL

\* A download that found its material finds the object too.
THEOREM DownloadsOpen == Spec => []FoundMaterialOpens
<1>1. IInv => FoundMaterialOpens
  BY DEF IInv, DownloadsFound, FoundMaterialOpens
<1>2. QED
  BY IntakeInvariant, <1>1, PTL

-----------------------------------------------------------------------------
(* The action properties of Intake.                                        *)

\* Each action leaves stored originals where and as they are.
LEMMA KeepsOriginalsStep ==
    ASSUME TypeOK, ObjectsWhole, [Next]_vars
    PROVE  KeepsOriginals
<1>1. ASSUME NEW r \in Requests, CheckPartner(r) PROVE KeepsOriginals
  BY <1>1 DEF CheckPartner, TypeOK, KeepsOriginals, Goto, store, tables
<1>2. ASSUME NEW r \in Requests, RefuseBody(r) PROVE KeepsOriginals
  BY <1>2 DEF RefuseBody, TypeOK, KeepsOriginals, Goto, store, tables
<1>3. ASSUME NEW r \in Requests, ReadFileField(r) PROVE KeepsOriginals
  BY <1>3 DEF ReadFileField, TypeOK, KeepsOriginals, Goto, store, tables
<1>4. ASSUME NEW r \in Requests, PrivateCreate(r) PROVE KeepsOriginals
  BY <1>4 DEF PrivateCreate, TypeOK, KeepsOriginals, Goto, tables
<1>5. ASSUME NEW r \in Requests, WriteChunk(r) PROVE KeepsOriginals
  BY <1>5 DEF WriteChunk, TypeOK, KeepsOriginals, tables
<1>6. ASSUME NEW r \in Requests, AbortBody(r) PROVE KeepsOriginals
  BY <1>6 DEF AbortBody, TypeOK, KeepsOriginals, Goto, tables
<1>7. ASSUME NEW r \in Requests, EndOfBody(r) PROVE KeepsOriginals
  BY <1>7 DEF EndOfBody, TypeOK, KeepsOriginals, Goto, tables
<1>8. ASSUME NEW r \in Requests, SyncAll(r) PROVE KeepsOriginals
  BY <1>8 DEF SyncAll, TypeOK, KeepsOriginals, Goto, tables
<1>9. ASSUME NEW r \in Requests, StatFinal(r) PROVE KeepsOriginals
  BY <1>9 DEF StatFinal, TypeOK, KeepsOriginals, Goto, tables
<1>10. ASSUME NEW r \in Requests, Rename(r) PROVE KeepsOriginals
  BY <1>10 DEF Rename, TypeOK, ObjectsWhole, KeepsOriginals, Goto, Renamed, tables
<1>11. ASSUME NEW r \in Requests, SyncDir(r) PROVE KeepsOriginals
  BY <1>11 DEF SyncDir, TypeOK, KeepsOriginals, Goto, tables
<1>12. ASSUME NEW r \in Requests, EndOfForm(r) PROVE KeepsOriginals
  BY <1>12 DEF EndOfForm, TypeOK, KeepsOriginals, Goto, store, tables
<1>13. ASSUME NEW r \in Requests, InsertMaterial(r) PROVE KeepsOriginals
  BY <1>13 DEF InsertMaterial, TypeOK, KeepsOriginals, Goto, store, tables
<1>14. ASSUME NEW r \in Requests, EnqueueExtraction(r) PROVE KeepsOriginals
  BY <1>14 DEF EnqueueExtraction, TypeOK, KeepsOriginals, Goto, store, tables
<1>15. ASSUME NEW r \in Requests, Commit(r) PROVE KeepsOriginals
  BY <1>15 DEF Commit, TypeOK, KeepsOriginals, Goto, store
<1>16. ASSUME NEW r \in Requests, Answer(r) PROVE KeepsOriginals
  BY <1>16 DEF Answer, TypeOK, KeepsOriginals, Goto, store, tables
<1>17. ASSUME NEW r \in Requests, PublishFails(r) PROVE KeepsOriginals
  BY <1>17 DEF PublishFails, TypeOK, KeepsOriginals, Goto, store, tables
<1>18. ASSUME NEW r \in Requests, Disconnect(r) PROVE KeepsOriginals
  BY <1>18 DEF Disconnect, TypeOK, ObjectsWhole, KeepsOriginals, Goto, Renamed, tables
<1>19. ASSUME NEW r \in Requests, GrowStale(r) PROVE KeepsOriginals
  BY <1>19 DEF GrowStale, TypeOK, KeepsOriginals, tables
<1>20. ASSUME NEW r \in Requests, SweepStaging(r) PROVE KeepsOriginals
  BY <1>20 DEF SweepStaging, TypeOK, KeepsOriginals, tables
<1>21. ASSUME NEW q \in Readers, DownloadLookup(q) PROVE KeepsOriginals
  BY <1>21 DEF DownloadLookup, TypeOK, KeepsOriginals, store, tables
<1>22. ASSUME NEW q \in Readers, DownloadOpen(q) PROVE KeepsOriginals
  BY <1>22 DEF DownloadOpen, TypeOK, KeepsOriginals, store, tables
<1>23. ASSUME NEW k \in Key, TruncateObject(k) PROVE KeepsOriginals
  BY <1>23 DEF TruncateObject, TypeOK, KeepsOriginals, tables
<1>24. CASE Crash
  BY <1>24 DEF Crash, TypeOK, KeepsOriginals, StopHandlers, store, tables
<1>25. CASE PowerLoss
  BY <1>25 DEF PowerLoss, TypeOK, KeepsOriginals, StopHandlers, tables
<1>26. CASE UNCHANGED vars
  BY <1>26 DEF vars, TypeOK, KeepsOriginals
<1>27. QED
  BY <1>1, <1>2, <1>3, <1>4, <1>5, <1>6, <1>7, <1>8, <1>9, <1>10, <1>11, <1>12, <1>13,
     <1>14, <1>15, <1>16, <1>17, <1>18, <1>19, <1>20, <1>21, <1>22, <1>23, <1>24, <1>25,
     <1>26 DEF Next, Upload, PutStream, Publish, PublishStep,
     Download, Quiescent

\* Leaving put_stream with success means a whole object under the key.
LEMMA PutsWholeObjectStep ==
    ASSUME TypeOK, ObjectsWhole, [Next]_vars
    PROVE  PutsWholeObject
<1>1. ASSUME NEW r \in Requests, CheckPartner(r) PROVE PutsWholeObject
  BY <1>1 DEF CheckPartner, TypeOK, PutsWholeObject, Goto, store, tables
<1>2. ASSUME NEW r \in Requests, RefuseBody(r) PROVE PutsWholeObject
  BY <1>2 DEF RefuseBody, TypeOK, PutsWholeObject, Goto, store, tables
<1>3. ASSUME NEW r \in Requests, ReadFileField(r) PROVE PutsWholeObject
  BY <1>3 DEF ReadFileField, TypeOK, PutsWholeObject, Goto, store, tables
<1>4. ASSUME NEW r \in Requests, PrivateCreate(r) PROVE PutsWholeObject
  BY <1>4 DEF PrivateCreate, TypeOK, PutsWholeObject, Goto, tables
<1>5. ASSUME NEW r \in Requests, WriteChunk(r) PROVE PutsWholeObject
  BY <1>5 DEF WriteChunk, TypeOK, PutsWholeObject, tables
<1>6. ASSUME NEW r \in Requests, AbortBody(r) PROVE PutsWholeObject
  BY <1>6 DEF AbortBody, TypeOK, PutsWholeObject, Goto, tables
<1>7. ASSUME NEW r \in Requests, EndOfBody(r) PROVE PutsWholeObject
  BY <1>7 DEF EndOfBody, TypeOK, PutsWholeObject, Goto, tables
<1>8. ASSUME NEW r \in Requests, SyncAll(r) PROVE PutsWholeObject
  BY <1>8 DEF SyncAll, TypeOK, PutsWholeObject, Goto, tables
<1>9. ASSUME NEW r \in Requests, StatFinal(r) PROVE PutsWholeObject
  BY <1>9 DEF StatFinal, TypeOK, ObjectsWhole, PutsWholeObject, Goto, AlreadyPresent,
     tables
<1>10. ASSUME NEW r \in Requests, Rename(r) PROVE PutsWholeObject
  BY <1>10 DEF Rename, TypeOK, ObjectsWhole, PutsWholeObject, Goto, Renamed, tables
<1>11. ASSUME NEW r \in Requests, SyncDir(r) PROVE PutsWholeObject
  BY <1>11 DEF SyncDir, TypeOK, PutsWholeObject, Goto, tables
<1>12. ASSUME NEW r \in Requests, EndOfForm(r) PROVE PutsWholeObject
  BY <1>12 DEF EndOfForm, TypeOK, PutsWholeObject, Goto, store, tables
<1>13. ASSUME NEW r \in Requests, InsertMaterial(r) PROVE PutsWholeObject
  BY <1>13 DEF InsertMaterial, TypeOK, PutsWholeObject, Goto, store, tables
<1>14. ASSUME NEW r \in Requests, EnqueueExtraction(r) PROVE PutsWholeObject
  BY <1>14 DEF EnqueueExtraction, TypeOK, PutsWholeObject, Goto, store, tables
<1>15. ASSUME NEW r \in Requests, Commit(r) PROVE PutsWholeObject
  BY <1>15 DEF Commit, TypeOK, PutsWholeObject, Goto, store
<1>16. ASSUME NEW r \in Requests, Answer(r) PROVE PutsWholeObject
  BY <1>16 DEF Answer, TypeOK, PutsWholeObject, Goto, store, tables
<1>17. ASSUME NEW r \in Requests, PublishFails(r) PROVE PutsWholeObject
  BY <1>17 DEF PublishFails, TypeOK, PutsWholeObject, Goto, store, tables
<1>18. ASSUME NEW r \in Requests, Disconnect(r) PROVE PutsWholeObject
  BY <1>18 DEF Disconnect, TypeOK, PutsWholeObject, Goto, tables
<1>19. ASSUME NEW r \in Requests, GrowStale(r) PROVE PutsWholeObject
  BY <1>19 DEF GrowStale, TypeOK, PutsWholeObject, tables
<1>20. ASSUME NEW r \in Requests, SweepStaging(r) PROVE PutsWholeObject
  BY <1>20 DEF SweepStaging, TypeOK, PutsWholeObject, tables
<1>21. ASSUME NEW q \in Readers, DownloadLookup(q) PROVE PutsWholeObject
  BY <1>21 DEF DownloadLookup, TypeOK, PutsWholeObject, store, tables
<1>22. ASSUME NEW q \in Readers, DownloadOpen(q) PROVE PutsWholeObject
  BY <1>22 DEF DownloadOpen, TypeOK, PutsWholeObject, store, tables
<1>23. ASSUME NEW k \in Key, TruncateObject(k) PROVE PutsWholeObject
  BY <1>23 DEF TruncateObject, TypeOK, PutsWholeObject, tables
<1>24. CASE Crash
  BY <1>24 DEF Crash, TypeOK, PutsWholeObject, StopHandlers, store, tables
<1>25. CASE PowerLoss
  BY <1>25 DEF PowerLoss, TypeOK, PutsWholeObject, StopHandlers, tables
<1>26. CASE UNCHANGED vars
  BY <1>26 DEF vars, TypeOK, PutsWholeObject
<1>27. QED
  BY <1>1, <1>2, <1>3, <1>4, <1>5, <1>6, <1>7, <1>8, <1>9, <1>10, <1>11, <1>12, <1>13,
     <1>14, <1>15, <1>16, <1>17, <1>18, <1>19, <1>20, <1>21, <1>22, <1>23, <1>24, <1>25,
     <1>26 DEF Next, Upload, PutStream, Publish, PublishStep,
     Download, Quiescent

\* No step removes a finalized object or makes a whole one less than whole,
\* except the loss of power and the disk itself.
THEOREM NothingTakesOriginals == Spec => OriginalsNeverTaken
<1>1. IInv /\ [Next]_vars => [KeepsOriginals]_vars
  BY KeepsOriginalsStep DEF IInv
<1>2. QED
  BY IntakeInvariant, <1>1, PTL DEF Spec, OriginalsNeverTaken

\* put_stream returns only over a whole object.
THEOREM PutStreamStoresWhole == Spec => PutLeavesWholeObject
<1>1. IInv /\ [Next]_vars => [PutsWholeObject]_vars
  BY PutsWholeObjectStep DEF IInv
<1>2. QED
  BY IntakeInvariant, <1>1, PTL DEF Spec, PutLeavesWholeObject

-----------------------------------------------------------------------------
(* Intake implements Originals: each step of a handler is one step of the  *)
(* promise, or invisible in it, and so are the failures around it.         *)

\* A step that leaves the store, the tables and the answers as they are.
LEMMA Invisible ==
    ASSUME TypeOK, UNCHANGED <<key, objects, materials, jobs>>,
           \A r \in Requests : Answers'[r] = Answers[r]
    PROVE  UNCHANGED Promise!avars
<1>1. Answers' = Answers
  BY DEF Answers
<1>2. QED
  BY <1>1 DEF Promise!avars

\* A step that changes nothing but the place of one handler: if the handler
\* ends without accepting, the promise sees it fail.
LEMMA MoveOrFail ==
    ASSUME TypeOK, NEW r \in Requests, NEW place \in Place,
           pc[r] \in {"idle"} \cup Live, place \notin {"created", "duplicate"},
           pc' = [pc EXCEPT ![r] = place],
           UNCHANGED <<key, materials, jobs>>,
           \A k \in Key : objects[k] = "absent" <=> objects'[k] = "absent"
    PROVE  [Promise!Next]_(Promise!avars)
<1>0. \A q \in Requests : pc[q] \in Place
  BY DEF TypeOK
<1>1. {k \in Key : objects'[k] # "absent"} = {k \in Key : objects[k] # "absent"}
  OBVIOUS
<1>2. CASE place \in {"refused", "gone"}
  <2>1. Answers[r] = "none"
    BY DEF Answers, Live, Armed, InTransaction
  <2>2. Answers' = [q \in Requests |-> IF q \in {r} THEN "failed" ELSE Answers[q]]
    BY <1>2 DEF Answers, TypeOK
  <2>3. Promise!Fail
    BY <1>1, <2>1, <2>2 DEF Promise!Fail
  <2>4. QED
    BY <2>3 DEF Promise!Next
<1>3. CASE place \notin {"refused", "gone"}
  <2>1. Answers' = Answers
    BY <1>3 DEF Answers, TypeOK, Live, Armed, InTransaction
  <2>2. QED
    BY <1>1, <2>1 DEF Promise!avars
<1>4. QED
  BY <1>2, <1>3

\* The file of r gets its final name, in put_stream or behind a dropped future.
LEMMA RenameStores ==
    ASSUME TypeOK, NEW r \in Requests, NEW place \in {"syncing", "gone"},
           pc[r] = "renaming", pc' = [pc EXCEPT ![r] = place],
           objects' = Renamed(r), UNCHANGED <<key, materials, jobs>>
    PROVE  Promise!Store(r)
<1>1. {k \in Key : objects'[k] # "absent"} = {k \in Key : objects[k] # "absent"} \cup {key[r]}
  BY DEF TypeOK, Renamed
<1>2. CASE place = "syncing"
  <2>1. Answers' = Answers
    BY <1>2 DEF Answers, TypeOK
  <2>2. QED
    BY <1>1, <2>1 DEF Promise!Store
<1>3. CASE place = "gone"
  <2>1. Answers' = [Answers EXCEPT ![r] = "failed"]
    BY <1>3 DEF Answers, TypeOK
  <2>2. QED
    BY <1>1, <2>1 DEF Promise!Store
<1>4. QED
  BY <1>2, <1>3

\* The commit lists and queues the material in one step, or finds both there.
LEMMA CommitPublishes ==
    ASSUME IInv, NEW r \in Requests, Commit(r)
    PROVE  [Promise!Next]_(Promise!avars)
<1>1. /\ pc[r] = "commit" /\ row[r] \in Requests /\ key[r] \in Key
      /\ UNCHANGED <<key, objects>>
      /\ pc' = [pc EXCEPT ![r] = "committed"]
  BY DEF Commit, Goto, store, IInv, TypeOK, RowsHeld
<1>2. Answers' = Answers /\ Answers[r] = "none"
  BY <1>1 DEF Answers, IInv, TypeOK
<1>3. CASE row[r] = r
  <2>1. materials' = materials \cup {r} /\ jobs' = jobs \cup {r}
    BY <1>3 DEF Commit
  <2>2. objects[key[r]] # "absent"
    BY <1>1 DEF IInv, ObjectsKept, HasObject
  <2>3. Promise!SameOriginal(key[r]) = {}
    BY <1>1, <1>3 DEF IInv, KeysUnique, Inserting, Promise!SameOriginal
  <2>4. Promise!Publish(r)
    BY <1>1, <1>2, <2>1, <2>2, <2>3 DEF Promise!Publish
  <2>5. QED
    BY <2>4 DEF Promise!Next
<1>4. CASE row[r] # r
  <2>1. materials' = materials /\ jobs' = jobs
    BY <1>1, <1>4 DEF Commit, IInv, RowsHeld, PublishedTogether
  <2>2. QED
    BY <1>1, <1>2, <2>1 DEF Promise!avars
<1>5. QED
  BY <1>3, <1>4

\* 201 and 200 name the listed material.
LEMMA AnswerAccepts ==
    ASSUME IInv, NEW r \in Requests, Answer(r)
    PROVE  Promise!Accept(r)
<1>1. /\ pc[r] = "committed"
      /\ pc' = [pc EXCEPT ![r] = IF row[r] = r THEN "created" ELSE "duplicate"]
      /\ UNCHANGED <<key, objects, materials, jobs>>
  BY DEF Answer, Goto, store, tables
<1>2. row[r] \in Promise!SameOriginal(key[r])
  BY <1>1 DEF IInv, RowsHeld, Promise!SameOriginal
<1>3. Answers[r] = "none"
  BY <1>1 DEF Answers
<1>4. Answers' = [Answers EXCEPT ![r] = IF row[r] = r THEN "created" ELSE "duplicate"]
  BY <1>1 DEF Answers, IInv, TypeOK
<1>5. QED
  BY <1>1, <1>2, <1>3, <1>4 DEF Promise!Accept

\* Handlers that stop where they are fail together.
LEMMA StoppedFail ==
    ASSUME TypeOK, StopHandlers
    PROVE  \E F \in SUBSET {r \in Requests : Answers[r] = "none"} :
              Answers' = [r \in Requests |-> IF r \in F THEN "failed" ELSE Answers[r]]
<1> DEFINE F == {r \in Requests : pc[r] \in Live}
<1>1. F \in SUBSET {r \in Requests : Answers[r] = "none"}
  BY DEF Answers, Live, Armed, InTransaction
<1>2. Answers' = [r \in Requests |-> IF r \in F THEN "failed" ELSE Answers[r]]
  BY DEF Answers, StopHandlers, TypeOK
<1>3. QED
  BY <1>1, <1>2

\* A killed process fails every upload it was working on.
LEMMA CrashFails ==
    ASSUME TypeOK, Crash
    PROVE  Promise!Fail
<1>1. StopHandlers /\ UNCHANGED <<key, objects, materials, jobs>>
  BY DEF Crash, store, tables
<1>2. QED
  BY <1>1, StoppedFail DEF Promise!Fail

\* A power loss fails them too, and brings back no object that was not there:
\* an entry that is on the disk is also in the running system.
LEMMA PowerLossRefines ==
    ASSUME TypeOK, ObjectsWhole, PowerLoss
    PROVE  Promise!LosePower
<1>1. StopHandlers /\ UNCHANGED <<key, materials, jobs>>
  BY DEF PowerLoss, tables
<1>2. {k \in Key : objects'[k] # "absent"} \subseteq {k \in Key : objects[k] # "absent"}
  BY DEF PowerLoss, AfterLoss, ObjectsWhole, TypeOK
<1>3. QED
  BY <1>1, <1>2, StoppedFail DEF Promise!LosePower

-----------------------------------------------------------------------------
\* Nothing is stored, listed, queued or answered before the first request.
LEMMA InitRefines == Init => Promise!Init
<1> SUFFICES ASSUME Init PROVE Promise!Init
  OBVIOUS
<1>1. Answers = [r \in Requests |-> "none"]
  BY DEF Init, Answers
<1>2. {k \in Key : objects[k] # "absent"} = {}
  BY DEF Init
<1>3. QED
  BY <1>1, <1>2 DEF Init, Promise!Init


\* Every step of intake is a step of its promise, or invisible in it.
LEMMA NextRefines ==
    ASSUME IInv, [Next]_vars
    PROVE  [Promise!Next]_(Promise!avars)
<1> DEFINE Refines == [Promise!Next]_(Promise!avars)
<1>0. TypeOK /\ ObjectsWhole
  BY DEF IInv
<1>1. ASSUME NEW r \in Requests, CheckPartner(r) PROVE Refines
  BY <1>1, <1>0, MoveOrFail DEF CheckPartner, Goto, store, tables,
     Place, Live, Armed, InTransaction, Final, Answered
<1>2. ASSUME NEW r \in Requests, RefuseBody(r) PROVE Refines
  BY <1>2, <1>0, MoveOrFail DEF RefuseBody, Goto, store, tables,
     Place, Live, Armed, InTransaction, Final, Answered
<1>3. ASSUME NEW r \in Requests, ReadFileField(r) PROVE Refines
  BY <1>3, <1>0, MoveOrFail DEF ReadFileField, Goto, store, tables,
     Place, Live, Armed, InTransaction, Final, Answered
<1>4. ASSUME NEW r \in Requests, PrivateCreate(r) PROVE Refines
  BY <1>4, <1>0, MoveOrFail DEF PrivateCreate, Goto, tables,
     Place, Live, Armed, InTransaction, Final, Answered
<1>5. ASSUME NEW r \in Requests, AbortBody(r) PROVE Refines
  BY <1>5, <1>0, MoveOrFail DEF AbortBody, Goto, tables,
     Place, Live, Armed, InTransaction, Final, Answered
<1>6. ASSUME NEW r \in Requests, EndOfBody(r) PROVE Refines
  BY <1>6, <1>0, MoveOrFail DEF EndOfBody, Goto, tables,
     Place, Live, Armed, InTransaction, Final, Answered
<1>7. ASSUME NEW r \in Requests, SyncAll(r) PROVE Refines
  BY <1>7, <1>0, MoveOrFail DEF SyncAll, Goto, tables,
     Place, Live, Armed, InTransaction, Final, Answered
<1>8. ASSUME NEW r \in Requests, StatFinal(r) PROVE Refines
  BY <1>8, <1>0, MoveOrFail DEF StatFinal, Goto, tables,
     Place, Live, Armed, InTransaction, Final, Answered
<1>9. ASSUME NEW r \in Requests, SyncDir(r) PROVE Refines
  BY <1>9, <1>0, MoveOrFail DEF SyncDir, Goto, tables,
     Place, Live, Armed, InTransaction, Final, Answered
<1>10. ASSUME NEW r \in Requests, EndOfForm(r) PROVE Refines
  BY <1>10, <1>0, MoveOrFail DEF EndOfForm, Goto, store, tables,
     Place, Live, Armed, InTransaction, Final, Answered
<1>11. ASSUME NEW r \in Requests, InsertMaterial(r) PROVE Refines
  BY <1>11, <1>0, MoveOrFail DEF InsertMaterial, Goto, store, tables,
     Place, Live, Armed, InTransaction, Final, Answered
<1>12. ASSUME NEW r \in Requests, EnqueueExtraction(r) PROVE Refines
  BY <1>12, <1>0, MoveOrFail DEF EnqueueExtraction, Goto, store, tables,
     Place, Live, Armed, InTransaction, Final, Answered
<1>13. ASSUME NEW r \in Requests, PublishFails(r) PROVE Refines
  BY <1>13, <1>0, MoveOrFail DEF PublishFails, Goto, store, tables,
     Place, Live, Armed, InTransaction, Final, Answered
<1>14. ASSUME NEW r \in Requests, WriteChunk(r) PROVE Refines
  BY <1>14, <1>0, Invisible DEF WriteChunk, Answers, tables
<1>15. ASSUME NEW r \in Requests, GrowStale(r) PROVE Refines
  BY <1>15, <1>0, Invisible DEF GrowStale, Answers, tables
<1>16. ASSUME NEW r \in Requests, SweepStaging(r) PROVE Refines
  BY <1>16, <1>0, Invisible DEF SweepStaging, Answers, tables
<1>17. ASSUME NEW q \in Readers, Download(q) PROVE Refines
  BY <1>17, <1>0, Invisible DEF Download, DownloadLookup, DownloadOpen, Answers, store, tables
<1>18. ASSUME NEW r \in Requests, Rename(r) PROVE Refines
  <2>1. CASE objects' = Renamed(r) /\ pc' = [pc EXCEPT ![r] = "syncing"]
    BY <1>18, <1>0, <2>1, RenameStores DEF Rename, tables, Promise!Next
  <2>2. CASE objects' = objects /\ pc' = [pc EXCEPT ![r] = "refused"]
    BY <1>18, <1>0, <2>2, MoveOrFail DEF Rename, tables, Place, Live, Armed, Final, Answered
  <2>3. QED
    BY <1>18, <2>1, <2>2 DEF Rename, Goto
<1>19. ASSUME NEW r \in Requests, Disconnect(r) PROVE Refines
  <2>1. CASE objects' = Renamed(r) /\ pc[r] = "renaming"
    BY <1>19, <1>0, <2>1, RenameStores DEF Disconnect, Goto, tables, Promise!Next
  <2>2. CASE objects' = objects
    BY <1>19, <1>0, <2>2, MoveOrFail DEF Disconnect, Goto, tables, Place, Final
  <2>3. QED
    BY <1>19, <2>1, <2>2 DEF Disconnect
<1>20. ASSUME NEW r \in Requests, Commit(r) PROVE Refines
  BY <1>20, <1>0, CommitPublishes
<1>21. ASSUME NEW r \in Requests, Answer(r) PROVE Refines
  BY <1>21, AnswerAccepts DEF Promise!Next
<1>22. ASSUME NEW k \in Key, TruncateObject(k) PROVE Refines
  <2>1. {x \in Key : objects'[x] # "absent"} = {x \in Key : objects[x] # "absent"}
    BY <1>22, <1>0 DEF TruncateObject, TypeOK
  <2>2. QED
    BY <1>22, <2>1 DEF TruncateObject, Answers, tables, Promise!avars
<1>23. CASE Crash
  BY <1>23, <1>0, CrashFails DEF Promise!Next
<1>24. CASE PowerLoss
  BY <1>24, <1>0, PowerLossRefines DEF Promise!Next
<1>25. CASE UNCHANGED vars
  BY <1>25, <1>0, Invisible DEF vars, Answers
<1>26. QED
  BY <1>1, <1>2, <1>3, <1>4, <1>5, <1>6, <1>7, <1>8, <1>9, <1>10, <1>11, <1>12,
     <1>13, <1>14, <1>15, <1>16, <1>17, <1>18, <1>19, <1>20, <1>21, <1>22, <1>23, <1>24, <1>25
  DEF Next, Upload, PutStream, Publish, PublishStep, Quiescent

\* Intake implements its promise, whatever fails: an original is stored before it
\* is listed, listed and queued at once, not taken back while the power holds, and
\* every accepted upload is answered with the one listed material with its bytes.
THEOREM IntakeKeepsItsPromise == Spec => ImplementsOriginals
<1>1. IInv /\ [Next]_vars => [Promise!Next]_(Promise!avars)
  BY NextRefines
<1>2. QED
  BY InitRefines, IntakeInvariant, <1>1, PTL DEF Spec, ImplementsOriginals, Promise!Spec
=============================================================================
