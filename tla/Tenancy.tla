------------------------------ MODULE Tenancy ------------------------------
(***************************************************************************)
(* Bureau-scoped transactions on a pool of PostgreSQL connections, and the *)
(* partner operations that run in them.                                    *)
(*                                                                         *)
(*   crates/otdel-db/src/tenancy.rs            ScopedTx                    *)
(*   crates/otdel-db/src/partners.rs           list, create, get, update   *)
(*   crates/otdel-api/src/routes/partners.rs   the handlers                *)
(*   migrations/0001_schema.sql                current_bureau_id, policies *)
(*                                                                         *)
(* A partner is kept as its owner and, per column, the request that wrote  *)
(* the committed value last.  The pool and the transactions are those of   *)
(* sqlx and PostgreSQL: a dropped transaction is rolled back before its    *)
(* connection is idle again, and a row that an open transaction has        *)
(* updated makes a second UPDATE wait.                                     *)
(***************************************************************************)
EXTENDS Naturals

CONSTANTS Requests, Connections, Bureaus, Partners,
          Home,       \* the bureau of every partner row, NoBureau if unused
          NoBureau, NoConnection, NoRequest, NoPartner

ASSUME TenancyAssumption ==
    /\ NoBureau \notin Bureaus /\ NoConnection \notin Connections
    /\ NoRequest \notin Requests /\ NoPartner \notin Partners
    /\ Home \in [Partners -> Bureaus \cup {NoBureau}]

VARIABLES
    pc,        \* where the handler of a request is
    bureau,    \* the bureau of its session record
    target,    \* what it asks for: a kind of operation and a partner id
    on,        \* the connection of its transaction
    pending,   \* its uncommitted write
    conn,      \* the pool's connections
    context,   \* otdel.bureau_id on a connection
    role,      \* attributes of the database role of the pool
    owner,     \* bureau_id of the committed partner rows
    row        \* last writers of the committed columns

tenancy == <<pc, bureau, target, on, pending, conn, context, role, owner, row>>

Columns == {"name", "note"}
NoWrite == [partner |-> NoPartner, owner |-> NoBureau,
            row |-> [col \in Columns |-> NoRequest]]
Homed == {p \in Partners : Home[p] # NoBureau}
NoTarget == [kind |-> "none", partner |-> NoPartner]

\* The requests a handler accepts; `patch` names the columns that were sent.
Kinds == {"read", "create", "name", "note"}
Patch(q) == IF target[q].kind \in Columns THEN {target[q].kind} ELSE Columns

Row == [Columns -> Requests \cup {NoRequest}]

TenancyTypeOK ==
    /\ pc \in [Requests -> {"idle", "waiting", "begun", "scoped", "executed",
                            "done", "failed"}]
    /\ bureau \in [Requests -> Bureaus \cup {NoBureau}]
    /\ target \in [Requests -> [kind : Kinds \cup {"none"},
                               partner : Partners \cup {NoPartner}]]
    /\ on \in [Requests -> Connections \cup {NoConnection}]
    /\ pending \in [Requests -> [partner : Partners \cup {NoPartner},
                                owner : Bureaus \cup {NoBureau}, row : Row]]
    /\ conn \in [Connections -> {"closed", "idle", "held", "returning"}]
    /\ context \in [Connections -> Bureaus \cup {NoBureau}]
    /\ owner \in [Partners -> Bureaus \cup {NoBureau}]
    /\ row \in [Partners -> Row]

TenancyInit ==
    /\ pc = [q \in Requests |-> "idle"]
    /\ bureau = [q \in Requests |-> NoBureau]
    /\ target = [q \in Requests |-> NoTarget]
    /\ on = [q \in Requests |-> NoConnection]
    /\ pending = [q \in Requests |-> NoWrite]
    /\ conn = [c \in Connections |-> "closed"]
    /\ context = [c \in Connections |-> NoBureau]
    /\ role = {}
    /\ owner = Home
    /\ row = [p \in Partners |-> [col \in Columns |-> NoRequest]]

-----------------------------------------------------------------------------
(* Row-level security.                                                     *)

\* row_security_active: FORCE ROW LEVEL SECURITY binds the owner as well.
PolicyApplies(attributes) == attributes \cap {"superuser", "bypassrls"} = {}

\* USING and WITH CHECK: bureau_id = otdel.current_bureau_id(), an unset
\* context being NULL, which equals nothing.
PolicyAllows(c, b) ==
    \/ ~PolicyApplies(role)
    \/ context[c] # NoBureau /\ b = context[c]

\* What the policies alone let a statement on this connection see.
Shown(c) == {p \in Partners : owner[p] # NoBureau /\ PolicyAllows(c, owner[p])}

-----------------------------------------------------------------------------
(* The life of a request.                                                  *)

\* The session extractor has resolved the bureau; the payload is valid and a
\* patch has one column.  Ids of partners that never existed end as foreign
\* ones do and are left out.
Arrive(q) ==
    /\ pc[q] = "idle"
    /\ \E b \in Bureaus, k \in Kinds, p \in Homed \cup {NoPartner} :
          /\ (p = NoPartner) <=> (k \in {"read", "create"})
          /\ bureau' = [bureau EXCEPT ![q] = b]
          /\ target' = [target EXCEPT ![q] = [kind |-> k, partner |-> p]]
    /\ pc' = [pc EXCEPT ![q] = "waiting"]
    /\ UNCHANGED <<on, pending, conn, context, role, owner, row>>

\* pool.begin: an idle connection, BEGIN.
Begin(q) ==
    /\ pc[q] = "waiting"
    /\ \E c \in Connections :
          /\ conn[c] = "idle"
          /\ conn' = [conn EXCEPT ![c] = "held"]
          /\ on' = [on EXCEPT ![q] = c]
    /\ pc' = [pc EXCEPT ![q] = "begun"]
    /\ UNCHANGED <<bureau, target, pending, context, role, owner, row>>

\* The handler is through with its request.
Ends(q, outcome) ==
    /\ pc' = [pc EXCEPT ![q] = outcome]
    /\ bureau' = [bureau EXCEPT ![q] = NoBureau]
    /\ target' = [target EXCEPT ![q] = NoTarget]
    /\ on' = [on EXCEPT ![q] = NoConnection]
    /\ pending' = [pending EXCEPT ![q] = NoWrite]

\* acquire_timeout passes while every connection is taken.
AcquireTimesOut(q) ==
    /\ pc[q] = "waiting"
    /\ \A c \in Connections : conn[c] # "idle"
    /\ Ends(q, "failed")
    /\ UNCHANGED <<conn, context, role, owner, row>>

\* Mutant: the result of set_config is not looked at.
SetContextUnchecked(q) ==
    /\ pc[q] = "begun"
    /\ \E b \in {bureau[q], context[on[q]]} :
          context' = [context EXCEPT ![on[q]] = b]
    /\ pc' = [pc EXCEPT ![q] = "scoped"]
    /\ UNCHANGED <<bureau, target, on, pending, conn, role, owner, row>>

\* set_config('otdel.bureau_id', $1, true).
SetContext(q) ==
    /\ pc[q] = "begun"
    /\ context' = [context EXCEPT ![on[q]] = bureau[q]]
    /\ pc' = [pc EXCEPT ![q] = "scoped"]
    /\ UNCHANGED <<bureau, target, on, pending, conn, role, owner, row>>

\* A row that this request may name: its own bureau's, by the WHERE clause and
\* by the policy.
Reachable(q, p) ==
    owner[p] = bureau[q] /\ PolicyAllows(on[q], owner[p])

\* Another transaction has updated the row and is still open.
Locked(q, p) ==
    \E r \in Requests \ {q} : pc[r] = "executed" /\ pending[r].partner = p

\* The row an INSERT or UPDATE leaves: the columns sent carry this request.
Written(q, p, b) ==
    [partner |-> p, owner |-> b,
     row |-> [col \in Columns |-> IF col \in Patch(q) THEN q ELSE row[p][col]]]

\* list, get and exists: SELECT.
Select(q) ==
    /\ target[q].kind = "read"
    /\ UNCHANGED pending

\* create: a fresh id, the session's bureau, checked by the policy.
Insert(q) ==
    /\ target[q].kind = "create"
    /\ PolicyAllows(on[q], bureau[q])
    /\ \E p \in Partners :
          /\ owner[p] = NoBureau /\ ~Locked(q, p)
          /\ pending' = [pending EXCEPT ![q] = Written(q, p, bureau[q])]

\* Mutant: the row is read and written back without waiting for its lock.
UpdateUnlocked(q) ==
    /\ target[q].kind \in Columns
    /\ LET p == target[q].partner IN
       pending' = IF Reachable(q, p)
                    THEN [pending EXCEPT ![q] = Written(q, p, owner[p])]
                    ELSE pending

\* update: COALESCE and CASE keep the columns that were not sent; a row that
\* does not match ends as 404.
Update(q) ==
    /\ target[q].kind \in Columns
    /\ LET p == target[q].partner IN
       IF Reachable(q, p)
         THEN /\ ~Locked(q, p)
              /\ pending' = [pending EXCEPT ![q] = Written(q, p, owner[p])]
         ELSE UNCHANGED pending

Execute(q) ==
    /\ pc[q] = "scoped"
    /\ Select(q) \/ Insert(q) \/ Update(q)
    /\ pc' = [pc EXCEPT ![q] = "executed"]
    /\ UNCHANGED <<bureau, target, on, conn, context, role, owner, row>>

\* Mutant: is_local is false, the parameter stays on the connection.
ContextKept(c) == context

\* The end of a transaction takes its local parameters with it.
ContextForgotten(c) == [context EXCEPT ![c] = NoBureau]

Commit(q) ==
    LET w == pending[q] IN
    /\ pc[q] = "executed"
    /\ conn' = [conn EXCEPT ![on[q]] = "idle"]
    /\ context' = ContextForgotten(on[q])
    /\ IF w = NoWrite
         THEN UNCHANGED <<owner, row>>
         ELSE /\ owner' = [owner EXCEPT ![w.partner] = w.owner]
              /\ row' = [row EXCEPT ![w.partner] = w.row]
    /\ Ends(q, "done")
    /\ UNCHANGED role

\* Mutant: the dropped transaction keeps its connection.
AbandonHolding(q) ==
    /\ pc[q] \in {"begun", "scoped", "executed"}
    /\ UNCHANGED conn
    /\ Ends(q, "failed")
    /\ UNCHANGED <<context, role, owner, row>>

\* A statement fails, or the client goes away: the transaction is dropped and
\* the pool rolls it back in a task of its own.
Abandon(q) ==
    /\ pc[q] \in {"begun", "scoped", "executed"}
    /\ conn' = [conn EXCEPT ![on[q]] = "returning"]
    /\ Ends(q, "failed")
    /\ UNCHANGED <<context, role, owner, row>>

Rollback(c) ==
    /\ conn[c] = "returning"
    /\ conn' = [conn EXCEPT ![c] = "idle"]
    /\ context' = ContextForgotten(c)
    /\ UNCHANGED <<pc, bureau, target, on, pending, role, owner, row>>

Proceed(q) == \/ Begin(q) \/ AcquireTimesOut(q) \/ SetContext(q)
              \/ Execute(q) \/ Commit(q)

-----------------------------------------------------------------------------

\* Whoever runs in a scoped transaction sees exactly its own bureau's rows by
\* the policies alone, whatever its SQL says (0001_schema.sql: "a bug in the
\* application cannot read another bureau's rows even with a hand-written
\* query"), on a connection that served other bureaus before.
PolicyAlone ==
    \A q \in Requests : pc[q] \in {"scoped", "executed"} =>
        Shown(on[q]) = {p \in Partners : owner[p] = bureau[q]}

\* A connection in the pool carries no bureau, whether its last transaction
\* was committed, failed or abandoned half-way (tenancy.rs: "a pooled
\* connection handed to the next request never carries the previous request's
\* context").
IdleConnectionsForget ==
    \A c \in Connections : conn[c] = "idle" => context[c] = NoBureau

\* A committed patch changes only the columns that were sent: of a rename and
\* a new note that overlap, neither undoes the other (update's COALESCE and
\* CASE in one statement).
PatchesNotLost ==
    [][\A p \in Partners, col \in Columns :
          row'[p][col] # row[p][col] =>
             \E q \in Requests :
                /\ row'[p][col] = q /\ pc[q] = "executed" /\ pc'[q] = "done"
                /\ target[q].kind \in {col, "create"}]_<<row, pc>>

\* A connection that a request took comes back to the pool or closes with it,
\* also when the handler is dropped (ScopedTx: "Dropping the transaction also
\* rolls back").
ConnectionsReturn ==
    \A c \in Connections : (conn[c] = "held") ~> (conn[c] \in {"idle", "closed"})
=============================================================================
