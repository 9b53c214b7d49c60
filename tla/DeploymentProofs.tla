--------------------------- MODULE DeploymentProofs --------------------------
(***************************************************************************)
(* Isolation of bureaus on pooled connections, patches of partners, and    *)
(* the promises of start-up and migrate, for any number of requests,       *)
(* connections, bureaus, partners, environments, shells and starts.        *)
(***************************************************************************)
EXTENDS Deployment, TLAPS

Busy(q)   == pc[q] \in {"begun", "scoped", "executed"}
Active(q) == pc[q] = "waiting" \/ Busy(q)

\* A connection is held by the one request whose transaction runs on it.
ConnectionsHeld ==
    /\ \A q \in Requests : Busy(q) => on[q] \in Connections /\ conn[on[q]] = "held"
    /\ \A q \in Requests : ~Busy(q) => on[q] = NoConnection
    /\ \A q, r \in Requests : q # r /\ on[q] = on[r] => on[q] = NoConnection

\* A connection outside a transaction has no bureau, one inside a scoped
\* transaction that of the session behind it.
ContextsScoped ==
    /\ \A c \in Connections : conn[c] \in {"idle", "closed"} => context[c] = NoBureau
    /\ \A q \in Requests : Active(q) => bureau[q] \in Bureaus
    /\ \A q \in Requests : pc[q] \in {"scoped", "executed"} => context[on[q]] = bureau[q]

\* A patch names a partner.
PatchesName ==
    \A q \in Requests : target[q].kind \in Columns => target[q].partner \in Partners

\* Without a process there is neither a request nor a connection.
NothingWithoutServer ==
    server = "down" => /\ \A q \in Requests : ~Active(q)
                       /\ \A c \in Connections : conn[c] = "closed"

\* The policies bind the role of the pool.
RoleBound == PolicyApplies(role)

TenancyInv ==
    /\ TenancyTypeOK /\ PatchesName
    /\ ConnectionsHeld /\ ContextsScoped /\ NothingWithoutServer /\ RoleBound

\* An uncommitted write carries its request in the columns that were sent and
\* the committed values in the others; no two of them are of one partner.
WritesPatch ==
    /\ \A q \in Requests : pending[q].partner # NoPartner =>
          /\ pc[q] = "executed"
          /\ target[q].kind \in Columns \cup {"create"}
          /\ \A col \in Columns :
                pending[q].row[col] =
                    IF col \in Patch(q) THEN q ELSE row[pending[q].partner][col]
    /\ \A q \in Requests : pending[q].partner = NoPartner <=> pending[q] = NoWrite
    /\ \A q, r \in Requests :
          q # r /\ pending[q].partner = pending[r].partner => pending[q].partner = NoPartner

-----------------------------------------------------------------------------
(* What a step may do to the state of the requests.                        *)

\* Migrate, bootstrap and readiness leave the requests and the pool alone.
LEMMA TenancyCases ==
    ASSUME [DeploymentNext]_dvars
    PROVE  \/ \E e \in Environments : Serve(e)
           \/ Gone
           \/ \E q \in Requests :
                 /\ UNCHANGED server
                 /\ \/ server = "serving" /\ Arrive(q)
                    \/ Begin(q) \/ AcquireTimesOut(q) \/ SetContext(q) \/ Execute(q)
                    \/ Commit(q) \/ Abandon(q)
           \/ \E c \in Connections : UNCHANGED server /\ Rollback(c)
           \/ UNCHANGED tenancy /\ (server' = server \/ server' = "stopping")
<1>1. CASE \E e \in Environments : Bootstrap(e)
  BY <1>1 DEF Bootstrap, process
<1>2. CASE Ready \/ Stop
  BY <1>2 DEF Ready, Stop
<1>3. CASE \E q \in Requests : Request(q) \/ RequestStep(q) \/ Dropped(q)
  BY <1>3 DEF Request, RequestStep, Proceed, Dropped, process
<1>4. CASE \E c \in Connections : PoolStep(c)
  BY <1>4 DEF PoolStep, process
<1>5. ASSUME NEW o \in Operators,
             (\E e \in Environments : MigrateStart(o, e)) \/ Migrate(o) \/ CommandKilled(o)
      PROVE  UNCHANGED tenancy /\ server' = server
  BY <1>5 DEF MigrateStart, Migrate, RemoveStray, LockMigrations, ApplyMigration,
              MigrateEnd, MigrateEnds, CommandKilled, process
<1>6. CASE EarlierRelease
  BY <1>6 DEF EarlierRelease, process
<1>7. CASE UNCHANGED dvars
  BY <1>7 DEF dvars, process
<1>8. CASE Exit \/ Kill
  BY <1>8 DEF Exit, Kill
<1> QED
  BY <1>1, <1>2, <1>3, <1>4, <1>5, <1>6, <1>7, <1>8 DEF DeploymentNext

-----------------------------------------------------------------------------
(* Types.                                                                  *)

\* What Written builds is a write of the partner it was asked for.
LEMMA WrittenType ==
    ASSUME TenancyTypeOK, NEW q \in Requests, NEW p \in Partners,
           NEW b \in Bureaus \cup {NoBureau}
    PROVE  Written(q, p, b) \in [partner : Partners \cup {NoPartner},
                                 owner : Bureaus \cup {NoBureau}, row : Row]
  BY DEF TenancyTypeOK, Written, Row

LEMMA NoWriteType ==
    NoWrite \in [partner : Partners \cup {NoPartner},
                 owner : Bureaus \cup {NoBureau}, row : Row]
  BY DEF NoWrite, Row

\* An Execute leaves the pending write as it is or makes it that of a partner.
LEMMA ExecuteCases ==
    ASSUME TenancyTypeOK, PatchesName, ContextsScoped, NEW q \in Requests, Execute(q)
    PROVE  \/ target[q].kind = "read" /\ UNCHANGED pending
           \/ target[q].kind \in Columns /\ UNCHANGED pending
           \/ \E p \in Partners, b \in Bureaus \cup {NoBureau} :
                 /\ target[q].kind \in Columns \cup {"create"}
                 /\ ~Locked(q, p)
                 /\ pending' = [pending EXCEPT ![q] = Written(q, p, b)]
<1>1. CASE Select(q)
  BY <1>1 DEF Select
<1>2. CASE Insert(q)
  <2>1. bureau[q] \in Bureaus
    BY DEF ContextsScoped, Active, Busy, Execute
  <2> QED
    BY <1>2, <2>1 DEF Insert
<1>3. CASE Update(q)
  <2> DEFINE p == target[q].partner
  <2>1. CASE Reachable(q, p)
    <3>1. p \in Partners /\ owner[p] \in Bureaus \cup {NoBureau}
      BY <1>3 DEF TenancyTypeOK, PatchesName, Update
    <3> QED
      BY <1>3, <2>1, <3>1 DEF Update
  <2>2. CASE ~Reachable(q, p)
    BY <1>3, <2>2 DEF Update
  <2> QED
    BY <2>1, <2>2
<1> QED
  BY <1>1, <1>2, <1>3 DEF Execute

\* Every step of the process and of its requests keeps the types.
LEMMA TypesStep == TenancyInv /\ [DeploymentNext]_dvars => (TenancyTypeOK /\ PatchesName)'
<1> SUFFICES ASSUME TenancyInv, [DeploymentNext]_dvars
             PROVE  (TenancyTypeOK /\ PatchesName)'
  OBVIOUS
<1> USE DEF TenancyInv
<1>1. ASSUME NEW e \in Environments, Serve(e) PROVE (TenancyTypeOK /\ PatchesName)'
  BY <1>1 DEF Serve, TenancyTypeOK, PatchesName
<1>2. CASE Gone
  BY <1>2, NoWriteType DEF Gone, TenancyTypeOK, PatchesName, NoTarget, Columns
<1>3. ASSUME NEW q \in Requests, Arrive(q) PROVE (TenancyTypeOK /\ PatchesName)'
  BY <1>3 DEF Arrive, TenancyTypeOK, PatchesName, Homed, Columns, Kinds
<1>4. ASSUME NEW q \in Requests, Begin(q) \/ SetContext(q)
      PROVE  (TenancyTypeOK /\ PatchesName)'
  <2>1. CASE Begin(q)
    BY <2>1 DEF Begin, TenancyTypeOK, PatchesName
  <2>2. CASE SetContext(q)
    <3>1. context' \in [Connections -> Bureaus \cup {NoBureau}]
      BY <2>2 DEF SetContext, TenancyTypeOK
    <3> QED
      BY <2>2, <3>1 DEF SetContext, TenancyTypeOK, PatchesName
  <2> QED
    BY <1>4, <2>1, <2>2
<1>5. ASSUME NEW q \in Requests, Execute(q) PROVE (TenancyTypeOK /\ PatchesName)'
  <2>1. pending' \in [Requests -> [partner : Partners \cup {NoPartner},
                                   owner : Bureaus \cup {NoBureau}, row : Row]]
    <3>1. CASE UNCHANGED pending
      BY <3>1 DEF TenancyTypeOK
    <3>2. ASSUME NEW p \in Partners, NEW b \in Bureaus \cup {NoBureau},
                 pending' = [pending EXCEPT ![q] = Written(q, p, b)]
          PROVE  pending' \in [Requests -> [partner : Partners \cup {NoPartner},
                                           owner : Bureaus \cup {NoBureau}, row : Row]]
      <4>1. Written(q, p, b) \in [partner : Partners \cup {NoPartner},
                                 owner : Bureaus \cup {NoBureau}, row : Row]
        BY WrittenType
      <4> QED
        BY <3>2, <4>1 DEF TenancyTypeOK
    <3> QED
      BY <1>5, <3>1, <3>2, ExecuteCases
  <2> QED
    BY <1>5, <2>1 DEF Execute, TenancyTypeOK, PatchesName
<1>6. ASSUME NEW q \in Requests, NEW how \in {"done", "failed"}, Ends(q, how)
      PROVE  /\ pc' \in [Requests -> {"idle", "waiting", "begun", "scoped", "executed",
                                      "done", "failed"}]
             /\ bureau' \in [Requests -> Bureaus \cup {NoBureau}]
             /\ target' \in [Requests -> [kind : Kinds \cup {"none"},
                                          partner : Partners \cup {NoPartner}]]
             /\ on' \in [Requests -> Connections \cup {NoConnection}]
             /\ pending' \in [Requests -> [partner : Partners \cup {NoPartner},
                                           owner : Bureaus \cup {NoBureau}, row : Row]]
             /\ PatchesName'
  BY <1>6, NoWriteType DEF Ends, TenancyTypeOK, PatchesName, NoTarget, Columns
<1>7. ASSUME NEW q \in Requests, AcquireTimesOut(q) \/ Abandon(q)
      PROVE  (TenancyTypeOK /\ PatchesName)'
  <2>1. Ends(q, "failed") /\ UNCHANGED <<context, role, owner, row>>
    BY <1>7 DEF AcquireTimesOut, Abandon
  <2>2. conn' \in [Connections -> {"closed", "idle", "held", "returning"}]
    BY <1>7 DEF AcquireTimesOut, Abandon, TenancyTypeOK
  <2> QED
    BY <1>6, <2>1, <2>2 DEF TenancyTypeOK
<1>8. ASSUME NEW q \in Requests, Commit(q) PROVE (TenancyTypeOK /\ PatchesName)'
  <2>1. /\ owner' \in [Partners -> Bureaus \cup {NoBureau}]
        /\ row' \in [Partners -> Row]
    BY <1>8 DEF Commit, TenancyTypeOK
  <2>2. /\ conn' \in [Connections -> {"closed", "idle", "held", "returning"}]
        /\ context' \in [Connections -> Bureaus \cup {NoBureau}]
    BY <1>8 DEF Commit, ContextForgotten, TenancyTypeOK
  <2>3. Ends(q, "done")
    BY <1>8 DEF Commit
  <2> QED
    BY <1>6, <2>1, <2>2, <2>3 DEF TenancyTypeOK
<1>9. ASSUME NEW c \in Connections, Rollback(c) PROVE (TenancyTypeOK /\ PatchesName)'
  BY <1>9 DEF Rollback, ContextForgotten, TenancyTypeOK, PatchesName
<1>10. CASE UNCHANGED tenancy
  BY <1>10 DEF tenancy, TenancyTypeOK, PatchesName
<1> QED
  BY <1>1, <1>2, <1>3, <1>4, <1>5, <1>7, <1>8, <1>9, <1>10, TenancyCases

-----------------------------------------------------------------------------
(* Connections and their bureaus.                                          *)

\* A connection goes to one request at a time.
LEMMA HeldStep == TenancyInv /\ [DeploymentNext]_dvars => ConnectionsHeld'
<1> SUFFICES ASSUME TenancyInv, [DeploymentNext]_dvars PROVE ConnectionsHeld'
  OBVIOUS
<1> USE TenancyAssumption DEF TenancyInv, TenancyTypeOK, ConnectionsHeld, Busy
<1>1. ASSUME NEW e \in Environments, Serve(e) PROVE ConnectionsHeld'
  BY <1>1 DEF Serve, NothingWithoutServer, Active
<1>2. CASE Gone
  BY <1>2 DEF Gone
<1>3. ASSUME NEW q \in Requests, Arrive(q) PROVE ConnectionsHeld'
  BY <1>3 DEF Arrive
<1>4. ASSUME NEW q \in Requests, Begin(q) PROVE ConnectionsHeld'
  BY <1>4 DEF Begin
<1>5. ASSUME NEW q \in Requests, SetContext(q) \/ Execute(q) PROVE ConnectionsHeld'
  BY <1>5 DEF SetContext, Execute
<1>6. ASSUME NEW q \in Requests, AcquireTimesOut(q) PROVE ConnectionsHeld'
  BY <1>6 DEF AcquireTimesOut, Ends
<1>7. ASSUME NEW q \in Requests, Commit(q) \/ Abandon(q) PROVE ConnectionsHeld'
  <2>1. /\ pc[q] \in {"begun", "scoped", "executed"}
        /\ \E place \in {"done", "failed"} : pc' = [pc EXCEPT ![q] = place]
        /\ on' = [on EXCEPT ![q] = NoConnection]
        /\ \E state \in {"idle", "returning"} : conn' = [conn EXCEPT ![on[q]] = state]
    BY <1>7 DEF Commit, Abandon, Ends
  <2> QED
    BY <2>1
<1>8. ASSUME NEW c \in Connections, Rollback(c) PROVE ConnectionsHeld'
  BY <1>8 DEF Rollback
<1>9. CASE UNCHANGED tenancy
  BY <1>9 DEF tenancy
<1> QED
  BY <1>1, <1>2, <1>3, <1>4, <1>5, <1>6, <1>7, <1>8, <1>9, TenancyCases

\* A transaction brings its bureau and takes it along when it ends.
LEMMA ScopedStep == TenancyInv /\ [DeploymentNext]_dvars => ContextsScoped'
<1> SUFFICES ASSUME TenancyInv, [DeploymentNext]_dvars PROVE ContextsScoped'
  OBVIOUS
<1> USE TenancyAssumption
    DEF TenancyInv, TenancyTypeOK, ConnectionsHeld, ContextsScoped, Active, Busy
<1>1. ASSUME NEW e \in Environments, Serve(e) PROVE ContextsScoped'
  BY <1>1 DEF Serve, NothingWithoutServer
<1>2. CASE Gone
  BY <1>2 DEF Gone
<1>3. ASSUME NEW q \in Requests, Arrive(q) PROVE ContextsScoped'
  BY <1>3 DEF Arrive
<1>4. ASSUME NEW q \in Requests, Begin(q) PROVE ContextsScoped'
  BY <1>4 DEF Begin
<1>5. ASSUME NEW q \in Requests, SetContext(q) \/ Execute(q) PROVE ContextsScoped'
  BY <1>5 DEF SetContext, Execute
<1>6. ASSUME NEW q \in Requests, AcquireTimesOut(q) PROVE ContextsScoped'
  BY <1>6 DEF AcquireTimesOut, Ends
<1>7. ASSUME NEW q \in Requests, Commit(q) PROVE ContextsScoped'
  BY <1>7 DEF Commit, ContextForgotten, Ends
<1>8. ASSUME NEW q \in Requests, Abandon(q) PROVE ContextsScoped'
  BY <1>8 DEF Abandon, Ends
<1>9. ASSUME NEW c \in Connections, Rollback(c) PROVE ContextsScoped'
  BY <1>9 DEF Rollback, ContextForgotten
<1>10. CASE UNCHANGED tenancy
  BY <1>10 DEF tenancy
<1> QED
  BY <1>1, <1>2, <1>3, <1>4, <1>5, <1>6, <1>7, <1>8, <1>9, <1>10, TenancyCases

\* Requests and connections appear with the process and vanish with it, and the
\* role of the pool was verified when the process started.
LEMMA ServerStep ==
    TenancyInv /\ [DeploymentNext]_dvars => NothingWithoutServer' /\ RoleBound'
<1> SUFFICES ASSUME TenancyInv, [DeploymentNext]_dvars
             PROVE  NothingWithoutServer' /\ RoleBound'
  OBVIOUS
<1> USE DEF TenancyInv, TenancyTypeOK, ConnectionsHeld, NothingWithoutServer, Active, Busy
<1>1. ASSUME NEW e \in Environments, Serve(e) PROVE NothingWithoutServer' /\ RoleBound'
  BY <1>1 DEF Serve, BuildState, VerifyRuntimeRole, RoleBound, PolicyApplies
<1>2. CASE Gone
  BY <1>2 DEF Gone, RoleBound, PolicyApplies
<1>3. ASSUME NEW q \in Requests, UNCHANGED server,
             \/ server = "serving" /\ Arrive(q)
             \/ Begin(q) \/ AcquireTimesOut(q) \/ SetContext(q) \/ Execute(q)
             \/ Commit(q) \/ Abandon(q)
      PROVE  NothingWithoutServer' /\ RoleBound'
  BY <1>3 DEF Arrive, Begin, AcquireTimesOut, SetContext, Execute, Commit, Abandon, RoleBound
<1>4. ASSUME NEW c \in Connections, UNCHANGED server, Rollback(c)
      PROVE  NothingWithoutServer' /\ RoleBound'
  BY <1>4 DEF Rollback, RoleBound
<1>5. CASE UNCHANGED tenancy /\ (server' = server \/ server' = "stopping")
  BY <1>5 DEF tenancy, RoleBound
<1> QED
  BY <1>1, <1>2, <1>3, <1>4, <1>5, TenancyCases

\* The invariant of the connection pool holds in every state.
THEOREM TenancyInvariant == DeploymentSpec => []TenancyInv
<1>1. DeploymentInit => TenancyInv
  <2> SUFFICES ASSUME DeploymentInit PROVE TenancyInv
    OBVIOUS
  <2>1. TenancyTypeOK /\ PatchesName
    BY NoWriteType, TenancyAssumption
    DEF DeploymentInit, TenancyInit, TenancyTypeOK, PatchesName, NoTarget, Row, Columns
  <2>2. ConnectionsHeld /\ ContextsScoped /\ NothingWithoutServer
    BY DEF DeploymentInit, TenancyInit, ConnectionsHeld, ContextsScoped,
           NothingWithoutServer, Active, Busy
  <2>3. RoleBound
    BY DEF DeploymentInit, TenancyInit, RoleBound, PolicyApplies
  <2> QED
    BY <2>1, <2>2, <2>3 DEF TenancyInv
<1>2. TenancyInv /\ [DeploymentNext]_dvars => TenancyInv'
  BY TypesStep, HeldStep, ScopedStep, ServerStep DEF TenancyInv
<1> QED
  BY <1>1, <1>2, PTL DEF DeploymentSpec

\* Every variable of the pool and of the partner operations keeps its type.
THEOREM TenancyTypeCorrect == DeploymentSpec => []TenancyTypeOK
<1>1. TenancyInv => TenancyTypeOK
  BY DEF TenancyInv
<1> QED
  BY <1>1, TenancyInvariant, PTL

\* The policies of 0001_schema.sql isolate bureaus by themselves: a scoped
\* transaction is shown exactly the rows of the bureau of its session.
THEOREM PoliciesIsolate == DeploymentSpec => []PolicyAlone
<1>1. TenancyInv => PolicyAlone
  <2> SUFFICES ASSUME TenancyInv, NEW q \in Requests, pc[q] \in {"scoped", "executed"}
               PROVE  Shown(on[q]) = {p \in Partners : owner[p] = bureau[q]}
    BY DEF PolicyAlone
  <2>1. context[on[q]] = bureau[q] /\ bureau[q] \in Bureaus /\ bureau[q] # NoBureau
    BY TenancyAssumption DEF TenancyInv, ContextsScoped, Active, Busy
  <2>2. PolicyApplies(role)
    BY DEF TenancyInv, RoleBound
  <2> QED
    BY <2>1, <2>2 DEF Shown, PolicyAllows
<1> QED
  BY <1>1, TenancyInvariant, PTL

\* A connection that the pool hands out carries no bureau of an earlier request.
THEOREM ConnectionsForget == DeploymentSpec => []IdleConnectionsForget
<1>1. TenancyInv => IdleConnectionsForget
  BY DEF TenancyInv, ContextsScoped, IdleConnectionsForget
<1> QED
  BY <1>1, TenancyInvariant, PTL

-----------------------------------------------------------------------------
(* Patches of partners.                                                    *)

\* While a write is uncommitted, its row lock keeps the columns that it was not
\* sent as it read them.
LEMMA PatchStep == TenancyInv /\ WritesPatch /\ [DeploymentNext]_dvars => WritesPatch'
<1> SUFFICES ASSUME TenancyInv, WritesPatch, [DeploymentNext]_dvars PROVE WritesPatch'
  OBVIOUS
<1> USE TenancyAssumption
<1>1. ASSUME NEW e \in Environments, Serve(e) PROVE WritesPatch'
  BY <1>1 DEF Serve, WritesPatch, Patch
<1>2. CASE Gone
  BY <1>2 DEF Gone, WritesPatch, NoWrite
<1>3. ASSUME NEW q \in Requests, Arrive(q) PROVE WritesPatch'
  BY <1>3 DEF Arrive, TenancyInv, TenancyTypeOK, WritesPatch, Patch
<1>4. ASSUME NEW q \in Requests, Begin(q) \/ SetContext(q) PROVE WritesPatch'
  BY <1>4 DEF Begin, SetContext, TenancyInv, TenancyTypeOK, WritesPatch, Patch
<1>5. ASSUME NEW q \in Requests, Execute(q) PROVE WritesPatch'
  <2>1. /\ pc' = [pc EXCEPT ![q] = "executed"] /\ pc[q] = "scoped"
        /\ UNCHANGED <<target, row>>
    BY <1>5 DEF Execute
  <2>2. CASE UNCHANGED pending
    BY <2>1, <2>2 DEF TenancyInv, TenancyTypeOK, WritesPatch, Patch
  <2>3. ASSUME NEW p \in Partners, NEW b \in Bureaus \cup {NoBureau},
               target[q].kind \in Columns \cup {"create"}, ~Locked(q, p),
               pending' = [pending EXCEPT ![q] = Written(q, p, b)]
        PROVE  WritesPatch'
    <3>1. \A r \in Requests : r # q => pending[r].partner # p
      BY <2>3 DEF Locked, WritesPatch
    <3>2. /\ pending'[q].partner = p /\ p # NoPartner
          /\ \A col \in Columns :
                pending'[q].row[col] = IF col \in Patch(q) THEN q ELSE row[p][col]
      BY <2>3 DEF Written, TenancyInv, TenancyTypeOK
    <3>3. \A r \in Requests : r # q => pending'[r] = pending[r]
      BY <2>3 DEF TenancyInv, TenancyTypeOK
    <3>4. pending'[q] # NoWrite
      BY <3>2 DEF NoWrite
    <3> QED
      BY <2>1, <2>3, <3>1, <3>2, <3>3, <3>4
      DEF TenancyInv, TenancyTypeOK, WritesPatch, Patch
  <2> QED
    BY <1>5, <2>2, <2>3, ExecuteCases DEF TenancyInv
<1>6. ASSUME NEW q \in Requests, AcquireTimesOut(q) \/ Abandon(q) PROVE WritesPatch'
  <2>1. Ends(q, "failed") /\ row' = row
    BY <1>6 DEF AcquireTimesOut, Abandon
  <2>2. \A r \in Requests : r # q =>
           pc'[r] = pc[r] /\ target'[r] = target[r] /\ pending'[r] = pending[r]
    BY <2>1 DEF Ends, TenancyInv, TenancyTypeOK
  <2>3. pending'[q] = NoWrite /\ NoWrite.partner = NoPartner
    BY <2>1 DEF Ends, TenancyInv, TenancyTypeOK, NoWrite
  <2> QED
    BY <2>1, <2>2, <2>3 DEF WritesPatch, Patch
<1>7. ASSUME NEW q \in Requests, Commit(q) PROVE WritesPatch'
  <2>1. Ends(q, "done")
    BY <1>7 DEF Commit
  <2>2. \A r \in Requests : r # q =>
           pc'[r] = pc[r] /\ target'[r] = target[r] /\ pending'[r] = pending[r]
    BY <2>1 DEF Ends, TenancyInv, TenancyTypeOK
  <2>3. pending'[q] = NoWrite /\ NoWrite.partner = NoPartner
    BY <2>1 DEF Ends, TenancyInv, TenancyTypeOK, NoWrite
  <2>4. \A p \in Partners : p # pending[q].partner => row'[p] = row[p]
    BY <1>7 DEF Commit, TenancyInv, TenancyTypeOK
  <2>5. \A r \in Requests : r # q /\ pending[r].partner # NoPartner =>
           pending[r].partner \in Partners /\ pending[r].partner # pending[q].partner
    BY DEF TenancyInv, TenancyTypeOK, WritesPatch
  <2> QED
    BY <2>2, <2>3, <2>4, <2>5 DEF WritesPatch, Patch
<1>8. ASSUME NEW c \in Connections, Rollback(c) PROVE WritesPatch'
  BY <1>8 DEF Rollback, WritesPatch, Patch
<1>9. CASE UNCHANGED tenancy
  BY <1>9 DEF tenancy, WritesPatch, Patch
<1> QED
  BY <1>1, <1>2, <1>3, <1>4, <1>5, <1>6, <1>7, <1>8, <1>9, TenancyCases

\* Of two patches that overlap neither undoes the other: a column changes only
\* by the commit of a request that was sent it.
THEOREM PatchesKept == DeploymentSpec => PatchesNotLost
<1> DEFINE Changed ==
      \A p \in Partners, col \in Columns :
          row'[p][col] # row[p][col] =>
             \E q \in Requests :
                /\ row'[p][col] = q /\ pc[q] = "executed" /\ pc'[q] = "done"
                /\ target[q].kind \in {col, "create"}
<1>1. DeploymentInit => WritesPatch
  BY DEF DeploymentInit, TenancyInit, WritesPatch, NoWrite
<1>2. TenancyInv /\ WritesPatch /\ [DeploymentNext]_dvars => [Changed]_<<row, pc>>
  <2> SUFFICES ASSUME TenancyInv, WritesPatch, [DeploymentNext]_dvars,
                      NEW p \in Partners, NEW col \in Columns,
                      row'[p][col] # row[p][col]
               PROVE  \E q \in Requests :
                         /\ row'[p][col] = q /\ pc[q] = "executed" /\ pc'[q] = "done"
                         /\ target[q].kind \in {col, "create"}
    OBVIOUS
  <2>1. row' # row
    OBVIOUS
  <2>2. PICK q \in Requests : Commit(q)
    BY <2>1, TenancyCases
    DEF Serve, Gone, Arrive, Begin, AcquireTimesOut, SetContext, Execute, Abandon,
        Rollback, tenancy
  <2>3. /\ pending[q] # NoWrite
        /\ row' = [row EXCEPT ![pending[q].partner] = pending[q].row]
    BY <2>1, <2>2 DEF Commit
  <2>4. p = pending[q].partner /\ row'[p] = pending[q].row
    BY <2>3 DEF TenancyInv, TenancyTypeOK
  <2>5. col \in Patch(q) /\ row'[p][col] = q /\ target[q].kind \in Columns \cup {"create"}
    BY <2>3, <2>4 DEF WritesPatch
  <2>6. target[q].kind \in {col, "create"}
    BY <2>5 DEF Patch
  <2>7. pc[q] = "executed" /\ pc'[q] = "done"
    BY <2>2 DEF Commit, Ends, TenancyInv, TenancyTypeOK
  <2> QED
    BY <2>5, <2>6, <2>7
<1> QED
  BY <1>1, <1>2, TenancyInvariant, PatchStep, PTL DEF DeploymentSpec, PatchesNotLost

-----------------------------------------------------------------------------
(* Migrations.                                                             *)

\* The history records exactly the migrations whose objects exist.
HistoryTrue ==
    /\ schema = history /\ schema \subseteq Migrations
    /\ outcome \in [Operators -> {"none", "applied", "already exists"}]

MigrateInv == HistoryTrue /\ MigrateIsIdempotent

\* Min picks one of the versions it is given.
LEMMA LeastOfTwo ==
    ASSUME NEW S, S # {}, S \subseteq 1 .. 2
    PROVE  Min(S) \in S
<1>1. S = {1} \/ S = {2} \/ S = {1, 2}
  <2>1. \A x \in S : x = 1 \/ x = 2
    OBVIOUS
  <2> QED
    BY <2>1, Zenon
<1>2. \E x \in S : \A y \in S : x <= y
  <2>1. CASE S = {1}
    BY <2>1
  <2>2. CASE S = {2}
    BY <2>2
  <2>3. CASE S = {1, 2}
    BY <2>3
  <2> QED
    BY <1>1, <2>1, <2>2, <2>3
<1> QED
  BY <1>2 DEF Min

\* Each script and its record are committed together, so the next version to
\* apply is never one that is there.
LEMMA MigrateStep == MigrateInv /\ [DeploymentNext]_dvars => MigrateInv'
<1> SUFFICES ASSUME MigrateInv, [DeploymentNext]_dvars PROVE MigrateInv'
  OBVIOUS
<1> USE DEF MigrateInv, HistoryTrue, MigrateIsIdempotent
<1>1. ASSUME NEW o \in Operators, ApplyMigration(o) PROVE MigrateInv'
  <2> DEFINE missing == Migrations \ RecordedVersions
             v == Min(missing)
  <2>1. missing # {} /\ missing \subseteq 1 .. 2
    BY <1>1 DEF ApplyMigration, Migrations
  <2>2. v \in missing
    BY <2>1, LeastOfTwo
  <2>3. v \in Migrations /\ v \notin schema
    BY <2>2 DEF RecordedVersions
  <2>4. schema' = schema \cup {v} /\ history' = history \cup {v} /\ outcome' = outcome
    BY <1>1, <2>3 DEF ApplyMigration, admin
  <2> QED
    BY <2>3, <2>4
<1>2. ASSUME NEW o \in Operators, MigrateEnd(o) PROVE MigrateInv'
  BY <1>2 DEF MigrateEnd, MigrateEnds, RecordedVersions, database
<1>3. ASSUME NEW o \in Operators,
             \/ \E e \in Environments : MigrateStart(o, e)
             \/ RemoveStray(o) \/ LockMigrations(o) \/ CommandKilled(o)
      PROVE  MigrateInv'
  BY <1>3 DEF MigrateStart, RemoveStray, LockMigrations, CommandKilled, database
<1>4. CASE EarlierRelease
  BY <1>4 DEF EarlierRelease, Migrations
<1>5. CASE UNCHANGED <<schema, history, outcome>>
  BY <1>5
<1>6. CASE \/ \E e \in Environments : Serve(e) \/ Bootstrap(e)
           \/ Ready \/ Stop \/ Exit \/ Kill
  BY <1>5, <1>6 DEF Serve, Bootstrap, Ready, Stop, Exit, Kill, Gone, database, admin
<1>7. CASE \/ \E q \in Requests : Request(q) \/ RequestStep(q) \/ Dropped(q)
           \/ \E c \in Connections : PoolStep(c)
  BY <1>5, <1>7 DEF Request, RequestStep, Dropped, PoolStep, database, admin
<1>8. CASE UNCHANGED dvars
  BY <1>5, <1>8 DEF dvars, database, admin
<1> QED
  BY <1>1, <1>2, <1>3, <1>4, <1>6, <1>7, <1>8 DEF DeploymentNext, Migrate

\* migrate may be run any number of times, beside itself, after a kill and after
\* an earlier release: it replays nothing and ends with everything there.
THEOREM MigrationsRepeat == DeploymentSpec => []MigrateIsIdempotent
<1>1. DeploymentInit => MigrateInv
  BY DEF DeploymentInit, MigrateInv, HistoryTrue, MigrateIsIdempotent
<1>2. MigrateInv => MigrateIsIdempotent
  BY DEF MigrateInv
<1> QED
  BY <1>1, <1>2, MigrateStep, PTL DEF DeploymentSpec

-----------------------------------------------------------------------------
(* Configuration and readiness.                                            *)

\* Numbers that Config::load accepts are in the ranges that session_open,
\* session_touch and the throttle need.
LEMMA LoadedNumbers ==
    ASSUME NEW e \in Environments, Loads(e)
    PROVE  SessionTimes(Settings(e)) /\ Settings(e).failures >= 1
<1>1. SessionTimes(Settings(e))
  BY DEF Loads
<1>2. ValueOr(e.failures, 10) \in Nat
  BY EnvironmentAssumption DEF Loads, NumbersParse, ValueOr
<1>3. Max({ValueOr(e.failures, 10), 1}) >= 1
  <2>1. ASSUME NEW n \in Nat PROVE Max({n, 1}) >= 1
    <3>1. \E x \in {n, 1} : \A y \in {n, 1} : x >= y
      OBVIOUS
    <3> QED
      BY <3>1 DEF Max
  <2> QED
    BY <1>2, <2>1
<1> QED
  BY <1>1, <1>3 DEF Settings

\* A running server has settings that were loaded, and says that it is ready
\* only while it serves and its bureau exists.
ServesLoaded ==
    /\ server # "down" => \E e \in Environments : Loads(e) /\ settings = Settings(e)
    /\ readiness = "ready" => server # "down" /\ settings.slug \in bureaus

\* No command takes a bureau away, and every new process asks again.
LEMMA ServesStep == ServesLoaded /\ [DeploymentNext]_dvars => ServesLoaded'
<1> SUFFICES ASSUME ServesLoaded, [DeploymentNext]_dvars PROVE ServesLoaded'
  OBVIOUS
<1> USE DEF ServesLoaded
<1>1. ASSUME NEW e \in Environments, Serve(e) PROVE ServesLoaded'
  BY <1>1 DEF Serve
<1>2. CASE Ready
  BY <1>2 DEF Ready, database
<1>3. CASE Stop
  BY <1>3 DEF Stop
<1>4. CASE Exit \/ Kill
  BY <1>4 DEF Exit, Kill, Gone
<1>5. CASE UNCHANGED <<server, settings, readiness>> /\ bureaus \subseteq bureaus'
  BY <1>5
<1>6. ASSUME NEW e \in Environments, Bootstrap(e) PROVE ServesLoaded'
  BY <1>5, <1>6 DEF Bootstrap, process
<1>7. CASE \/ \E q \in Requests : Request(q) \/ RequestStep(q) \/ Dropped(q)
           \/ \E c \in Connections : PoolStep(c)
  BY <1>5, <1>7 DEF Request, RequestStep, Dropped, PoolStep, database, process
<1>8. ASSUME NEW o \in Operators,
             (\E e \in Environments : MigrateStart(o, e)) \/ Migrate(o) \/ CommandKilled(o)
      PROVE  ServesLoaded'
  BY <1>5, <1>8 DEF MigrateStart, Migrate, RemoveStray, LockMigrations, ApplyMigration,
                    MigrateEnd, MigrateEnds, CommandKilled, database, process
<1>9. CASE EarlierRelease
  BY <1>5, <1>9 DEF EarlierRelease, process
<1>10. CASE UNCHANGED dvars
  BY <1>5, <1>10 DEF dvars, database, process
<1> QED
  BY <1>1, <1>2, <1>3, <1>4, <1>6, <1>7, <1>8, <1>9, <1>10 DEF DeploymentNext

\* Whatever the environment says, a server that answers ready was given session
\* times and limits with which a login can succeed.
THEOREM ReadyServersWork == DeploymentSpec => []ReadyMeansLoginWorks
<1>1. DeploymentInit => ServesLoaded
  BY DEF DeploymentInit, ServesLoaded
<1>2. ServesLoaded => ReadyMeansLoginWorks
  <2> SUFFICES ASSUME ServesLoaded, readiness = "ready" PROVE LoginWorks
    BY DEF ReadyMeansLoginWorks
  <2>1. PICK e \in Environments : Loads(e) /\ settings = Settings(e)
    BY DEF ServesLoaded
  <2>2. SessionTimes(settings) /\ settings.failures >= 1 /\ settings.slug \in bureaus
    BY <2>1, LoadedNumbers DEF ServesLoaded
  <2> QED
    BY <2>2, SMT DEF LoginWorks, SessionTimes, SecondsMin, TtlMax
<1> QED
  BY <1>1, <1>2, ServesStep, PTL DEF DeploymentSpec
=============================================================================
