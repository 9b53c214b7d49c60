--------------------------- MODULE SessionsProofs ---------------------------
(***************************************************************************)
(* A logged-out session stays out, and a session is accepted for as long   *)
(* as its two limits say, for any number of sign-ins and requests and any  *)
(* wait for a row lock.                                                    *)
(***************************************************************************)
EXTENDS Sessions, TLAPS

\* Only a token whose login was answered is carried by a request.
KnownTokens ==
    \A q \in Requests : req[q].at # "idle" =>
        req[q].token \in Tokens /\ login[req[q].token].at = "opened"

\* A row that session_close removed is gone, and its login is over: no INSERT for
\* it is still to come.
ClosedForGood == \A t \in ended : t \notin rows /\ login[t].at = "opened"

IInv == TypeOK /\ KnownTokens /\ ClosedForGood

-----------------------------------------------------------------------------
\* Every action keeps the types; expiry times stay within Time because a
\* statement starts no later than the clock stops.
LEMMA TypeStep == TypeOK /\ KnownTokens /\ [Next]_vars => TypeOK'
<1> SUFFICES ASSUME TypeOK, KnownTokens, [Next]_vars PROVE TypeOK'
  OBVIOUS
<1> USE SessionsAssumption
<1>1. ASSUME NEW t \in Tokens, OpenStart(t) PROVE TypeOK'
  BY <1>1 DEF TypeOK, OpenStart, Moment
<1>2. ASSUME NEW t \in Tokens, Open(t) PROVE TypeOK'
  <2>1. login' \in [Tokens -> [at : {"none", "opening", "opened", "failed"}, start : Moment]]
    BY <1>2 DEF TypeOK, Open
  <2>2. /\ rows' \subseteq Tokens
        /\ expires' \in [Tokens -> 0..(MaxTime + Ttl)]
        /\ seen' \in [Tokens -> Moment]
        /\ used' \in [Tokens -> Moment]
    BY <1>2 DEF TypeOK, Open, Insert, Moment
  <2> QED
    BY <1>2, <2>1, <2>2 DEF TypeOK, Open
<1>3. ASSUME NEW q \in Requests, TouchStart(q) PROVE TypeOK'
  BY <1>3 DEF TypeOK, TouchStart, Accepts, Moment
<1>4. ASSUME NEW q \in Requests, Touch(q) PROVE TypeOK'
  <2>1. /\ seen' \in [Tokens -> Moment]
        /\ used' \in [Tokens -> Moment]
    <3>1. \/ UNCHANGED <<seen, used>>
          \/ /\ seen' = [seen EXCEPT ![req[q].token] = req[q].start]
             /\ used' = [used EXCEPT ![req[q].token] = now]
      BY <1>4 DEF Touch
    <3>2. req[q].token \in Tokens /\ req[q].start \in Moment /\ now \in Moment
      BY <1>4 DEF TypeOK, KnownTokens, Touch, Moment
    <3>3. seen \in [Tokens -> Moment] /\ used \in [Tokens -> Moment]
      BY DEF TypeOK
    <3> QED
      BY <3>1, <3>2, <3>3
  <2>2. \/ req' = [req EXCEPT ![q] = IdleRequest]
        \/ req' = [req EXCEPT ![q].at = "admitted"]
        \/ req' = [req EXCEPT ![q].at = "refused"]
    BY <1>4 DEF Touch
  <2>3. IdleRequest.start \in Moment /\ IdleRequest.since \in Moment
    BY DEF IdleRequest, Moment
  <2>4. req' \in [Requests -> [at : {"idle", "touching", "admitted", "refused"},
                               token : Tokens \cup {NoToken}, start : Moment,
                               logout : BOOLEAN, missed : BOOLEAN, since : Moment]]
    <3>1. CASE req' = [req EXCEPT ![q] = IdleRequest]
      BY <3>1, <2>3 DEF TypeOK, IdleRequest
    <3>2. CASE req' = [req EXCEPT ![q].at = "admitted"]
      BY <3>2 DEF TypeOK
    <3>3. CASE req' = [req EXCEPT ![q].at = "refused"]
      BY <3>3 DEF TypeOK
    <3> QED
      BY <2>2, <3>1, <3>2, <3>3
  <2> QED
    BY <1>4, <2>1, <2>4 DEF TypeOK, Touch
<1>5. ASSUME NEW q \in Requests, Done(q) PROVE TypeOK'
  BY <1>5 DEF TypeOK, Done, IdleRequest, Moment
<1>6. ASSUME NEW q \in Requests, Close(q) PROVE TypeOK'
  BY <1>6 DEF TypeOK, KnownTokens, Close, IdleRequest, Moment
<1>7. CASE PurgeStart
  BY <1>7 DEF TypeOK, PurgeStart, Moment
<1>8. CASE Purge
  BY <1>8 DEF TypeOK, Purge, Moment
<1>9. CASE Tick
  BY <1>9 DEF TypeOK, Tick, Moment
<1>10. CASE UNCHANGED vars
  BY <1>10 DEF TypeOK, vars
<1> QED
  BY <1>1, <1>2, <1>3, <1>4, <1>5, <1>6, <1>7, <1>8, <1>9, <1>10 DEF Next

\* A request takes its token from an answered login, and a login never leaves
\* "opened".
LEMMA KnownStep == TypeOK /\ KnownTokens /\ [Next]_vars => KnownTokens'
<1> SUFFICES ASSUME TypeOK, KnownTokens, [Next]_vars PROVE KnownTokens'
  OBVIOUS
<1>1. ASSUME NEW t \in Tokens, OpenStart(t) PROVE KnownTokens'
  BY <1>1 DEF TypeOK, KnownTokens, OpenStart
<1>2. ASSUME NEW t \in Tokens, Open(t) PROVE KnownTokens'
  BY <1>2 DEF TypeOK, KnownTokens, Open
<1>3. ASSUME NEW q \in Requests, TouchStart(q) PROVE KnownTokens'
  BY <1>3 DEF TypeOK, KnownTokens, TouchStart
<1>4. ASSUME NEW q \in Requests, Touch(q) PROVE KnownTokens'
  <2>1. login' = login /\ req[q].at # "idle"
    BY <1>4 DEF Touch
  <2>2. \/ req' = [req EXCEPT ![q] = IdleRequest]
        \/ req' = [req EXCEPT ![q].at = "admitted"]
        \/ req' = [req EXCEPT ![q].at = "refused"]
    BY <1>4 DEF Touch
  <2>3. CASE req' = [req EXCEPT ![q] = IdleRequest]
    BY <2>1, <2>3 DEF TypeOK, KnownTokens, IdleRequest
  <2>4. CASE req' = [req EXCEPT ![q].at = "admitted"]
    BY <2>1, <2>4 DEF TypeOK, KnownTokens
  <2>5. CASE req' = [req EXCEPT ![q].at = "refused"]
    BY <2>1, <2>5 DEF TypeOK, KnownTokens
  <2> QED
    BY <2>2, <2>3, <2>4, <2>5
<1>5. ASSUME NEW q \in Requests, Done(q) PROVE KnownTokens'
  BY <1>5 DEF TypeOK, KnownTokens, Done, IdleRequest
<1>6. ASSUME NEW q \in Requests, Close(q) PROVE KnownTokens'
  BY <1>6 DEF TypeOK, KnownTokens, Close, IdleRequest
<1>7. CASE PurgeStart \/ Purge \/ Tick \/ UNCHANGED vars
  BY <1>7 DEF KnownTokens, PurgeStart, Purge, Tick, vars
<1> QED
  BY <1>1, <1>2, <1>3, <1>4, <1>5, <1>6, <1>7 DEF Next

\* Rows are added only by the login that makes their token, which is over.
LEMMA ClosedStep == TypeOK /\ KnownTokens /\ ClosedForGood /\ [Next]_vars => ClosedForGood'
<1> SUFFICES ASSUME TypeOK, KnownTokens, ClosedForGood, [Next]_vars PROVE ClosedForGood'
  OBVIOUS
<1>1. ASSUME NEW t \in Tokens, OpenStart(t) PROVE ClosedForGood'
  BY <1>1 DEF TypeOK, ClosedForGood, OpenStart
<1>2. ASSUME NEW t \in Tokens, Open(t) PROVE ClosedForGood'
  BY <1>2 DEF TypeOK, ClosedForGood, Open, Insert
<1>3. ASSUME NEW q \in Requests, TouchStart(q) \/ Touch(q) \/ Done(q) PROVE ClosedForGood'
  BY <1>3 DEF ClosedForGood, TouchStart, Touch, Done
<1>4. ASSUME NEW q \in Requests, Close(q) PROVE ClosedForGood'
  BY <1>4 DEF KnownTokens, ClosedForGood, Close
<1>5. CASE PurgeStart \/ Purge \/ Tick \/ UNCHANGED vars
  BY <1>5 DEF ClosedForGood, PurgeStart, Purge, Tick, vars
<1> QED
  BY <1>1, <1>2, <1>3, <1>4, <1>5 DEF Next

\* The inductive invariant holds in every state of Sessions.
THEOREM SessionsInvariant == Spec => []IInv
<1>1. Init => IInv
  BY SessionsAssumption DEF Init, IInv, TypeOK, KnownTokens, ClosedForGood, IdleRequest, Moment
<1>2. IInv /\ [Next]_vars => IInv'
  BY TypeStep, KnownStep, ClosedStep DEF IInv
<1> QED
  BY <1>1, <1>2, PTL DEF Spec

\* Type correctness of Sessions: what the four session functions of the schema
\* write stays in range, for every lifetime and idle timeout.
THEOREM TypeCorrect == Spec => []TypeOK
<1>1. IInv => TypeOK
  BY DEF IInv
<1> QED
  BY <1>1, SessionsInvariant, PTL

\* Once session_close took effect for a token, session_touch admits no request
\* with it, whatever statements were waiting for the row at that moment.
THEOREM LogoutIsFinal == Spec => LoggedOutIsOut
<1>1. IInv /\ [Next]_vars => [\A t \in Tokens : Admitted(t) => t \notin ended]_vars
  <2> SUFFICES ASSUME IInv, [Next]_vars, NEW t \in Tokens, Admitted(t), t \in ended PROVE FALSE
    BY DEF vars
  <2>1. PICK q \in Requests : /\ req[q].at = "touching" /\ req[q].token = t
                              /\ req'[q].at = "admitted"
    BY DEF Admitted
  <2>2. ~ Accepts(t, req[q].start)
    BY DEF IInv, ClosedForGood, Accepts
  <2>3. ASSUME NEW p \in Requests, Touch(p) PROVE FALSE
    BY <2>1, <2>2, <2>3 DEF IInv, TypeOK, Touch, IdleRequest
  <2>4. ASSUME NEW p \in Requests, TouchStart(p) \/ Done(p) \/ Close(p) PROVE FALSE
    BY <2>1, <2>4 DEF IInv, TypeOK, TouchStart, Done, Close, IdleRequest
  <2>5. req' # req
    BY <2>1
  <2> QED
    BY <2>3, <2>4, <2>5 DEF Next, OpenStart, Open, PurgeStart, Purge, Tick, vars
<1> QED
  BY <1>1, SessionsInvariant, PTL DEF Spec, LoggedOutIsOut

-----------------------------------------------------------------------------
(* The limits of a session.                                                *)

\* A statement that has not taken effect started in the past, and waits no longer
\* than a lock is held.
StatementsFresh ==
    /\ purge <= now
    /\ \A t \in Tokens : login[t].at = "opening" =>
          login[t].start <= now /\ now <= login[t].start + MaxWait
    /\ \A q \in Requests : req[q].at = "touching" =>
          req[q].start <= now /\ now <= req[q].start + MaxWait

\* What the row of an opened session says of its sign-in and of its last use, or
\* said when it was removed.
RowsTrue ==
    \A t \in Tokens : login[t].at = "opened" =>
        /\ expires[t] = login[t].start + Ttl
        /\ seen[t] <= used[t] /\ used[t] <= seen[t] + MaxWait /\ used[t] <= now
        /\ t \notin rows => t \in ended \/ expires[t] <= now \/ seen[t] + Idle <= now

\* The token may be refused for what it was when the request arrived.
Due(q) ==
    LET t == req[q].token IN
    \/ t \in ended
    \/ req[q].start >= login[t].start + Ttl - MaxWait
    \/ req[q].start - req[q].since >= Idle - 2 * MaxWait

\* What a waiting request has read before it waits.
SnapshotsTrue ==
    \A q \in Requests : req[q].at = "touching" =>
        /\ req[q].since <= used[req[q].token]
        /\ req[q].missed => Due(q)

LimitsInv == IInv /\ StatementsFresh /\ RowsTrue /\ SnapshotsTrue /\ RefusedOnlyWhenDue

\* Times are natural numbers.
LEMMA Times ==
    ASSUME TypeOK
    PROVE  /\ now \in Nat /\ purge \in Nat /\ MaxWait \in Nat /\ Ttl \in Nat /\ Idle \in Nat
           /\ \A t \in Tokens : /\ expires[t] \in Nat /\ seen[t] \in Nat /\ used[t] \in Nat
                                 /\ login[t].start \in Nat
           /\ \A q \in Requests : req[q].start \in Nat /\ req[q].since \in Nat
BY SessionsAssumption DEF TypeOK, Moment

\* A reason to refuse a request does not go away: it is about the past.
LEMMA DueStays ==
    ASSUME NEW q \in Requests, Due(q), ended \subseteq ended',
           req'[q].token = req[q].token, req'[q].start = req[q].start,
           req'[q].since = req[q].since,
           login'[req[q].token].start = login[req[q].token].start
    PROVE  Due(q)'
BY DEF Due

\* Requests that a step leaves alone keep what is said of them.
LEMMA RequestsLeft ==
    ASSUME LimitsInv, TypeOK', NEW q \in Requests, req'[q] = req[q], ended \subseteq ended',
           \A t \in Tokens : used[t] <= used'[t],
           \A t \in Tokens : login[t].at = "opened" => login'[t].start = login[t].start
    PROVE  /\ req'[q].at = "touching" => /\ req'[q].since <= used'[req'[q].token]
                                         /\ req'[q].missed => Due(q)'
           /\ req'[q].at = "refused" => Due(q)'
<1>1. req[q].at # "idle" => /\ req[q].token \in Tokens
                            /\ login'[req[q].token].start = login[req[q].token].start
    BY DEF LimitsInv, IInv, KnownTokens
<1>2. req[q].at # "idle" /\ Due(q) => Due(q)'
    BY <1>1, DueStays
<1>3. /\ req[q].at = "touching" => req[q].since <= used[req[q].token]
      /\ req[q].at = "touching" /\ req[q].missed => Due(q)
      /\ req[q].at = "refused" => Due(q)
    BY DEF LimitsInv, SnapshotsTrue, RefusedOnlyWhenDue, Due
<1>4. req[q].at = "touching" => req[q].since <= used'[req[q].token]
    <2>1. SUFFICES ASSUME req[q].at = "touching" PROVE req[q].since <= used'[req[q].token]
        OBVIOUS
    <2>. DEFINE t == req[q].token
    <2>2. t \in Tokens /\ used[t] <= used'[t] /\ req[q].since <= used[t]
        BY <1>1, <1>3, <2>1
    <2>3. used[t] \in Nat /\ used'[t] \in Nat /\ req[q].since \in Nat
        BY <2>2, Times DEF LimitsInv, IInv, TypeOK, Moment
    <2>. QED  BY <2>2, <2>3
<1>. QED  BY <1>2, <1>3, <1>4

\* When every request is left alone.
LEMMA AllRequestsLeft ==
    ASSUME LimitsInv, TypeOK', req' = req, ended \subseteq ended',
           \A t \in Tokens : used[t] <= used'[t],
           \A t \in Tokens : login[t].at = "opened" => login'[t].start = login[t].start
    PROVE  SnapshotsTrue' /\ RefusedOnlyWhenDue'
<1>1. \A q \in Requests : req'[q] = req[q]
    OBVIOUS
<1>. QED  BY <1>1, RequestsLeft DEF SnapshotsTrue, RefusedOnlyWhenDue, Due

\* When one request goes back to idle or is admitted.
LEMMA RequestOver ==
    ASSUME LimitsInv, TypeOK', NEW q \in Requests, req'[q].at \in {"idle", "admitted"},
           \A p \in Requests : p # q => req'[p] = req[p], ended \subseteq ended',
           \A t \in Tokens : used[t] <= used'[t], login' = login
    PROVE  SnapshotsTrue' /\ RefusedOnlyWhenDue'
<1>1. \A t \in Tokens : login[t].at = "opened" => login'[t].start = login[t].start
    OBVIOUS
<1>2. \A p \in Requests : req'[p].at \in {"touching", "refused"} => req'[p] = req[p]
    OBVIOUS
<1>. QED  BY <1>1, <1>2, RequestsLeft DEF SnapshotsTrue, RefusedOnlyWhenDue, Due

-----------------------------------------------------------------------------
\* session_open starts, or takes effect with the time it started at.
LEMMA OpenLimits ==
    ASSUME LimitsInv, TypeOK', NEW u \in Tokens, OpenStart(u) \/ Open(u)
    PROVE  StatementsFresh' /\ RowsTrue' /\ SnapshotsTrue' /\ RefusedOnlyWhenDue'
<1>0. TypeOK /\ login \in [Tokens -> [at : {"none", "opening", "opened", "failed"}, start : Moment]]
    BY DEF LimitsInv, IInv, TypeOK
<1>1. now' = now /\ req' = req /\ purge' = purge /\ ended' = ended
    BY DEF OpenStart, Open
<1>2. login[u].at \in {"none", "opening"}
    BY DEF OpenStart, Open
<1>3. \A t \in Tokens : t # u => /\ login'[t] = login[t] /\ expires'[t] = expires[t]
                                 /\ seen'[t] = seen[t] /\ used'[t] = used[t]
                                 /\ (t \in rows' <=> t \in rows)
    BY <1>0 DEF OpenStart, Open, Insert, TypeOK
<1>4. /\ login'[u].at = "opening" => login'[u].start = now
      /\ login'[u].at = "opened" => /\ login[u].at = "opening" /\ login'[u].start = login[u].start
                                    /\ expires'[u] = login[u].start + Ttl
                                    /\ seen'[u] = login[u].start /\ used'[u] = now /\ u \in rows'
    <2>1. CASE OpenStart(u)
        BY <1>0, <2>1 DEF OpenStart
    <2>2. CASE Open(u)
        BY <1>0, <2>2 DEF Open, Insert, TypeOK
    <2>. QED  BY <2>1, <2>2
<1>5. used'[u] \in {used[u], now}
    <2>1. CASE OpenStart(u)
        BY <2>1 DEF OpenStart
    <2>2. CASE Open(u)
        BY <1>0, <2>2 DEF Open, Insert, TypeOK
    <2>. QED  BY <2>1, <2>2
<1>6. StatementsFresh'
    BY <1>0, <1>1, <1>3, <1>4, Times DEF LimitsInv, StatementsFresh
<1>7. RowsTrue'
    <2>1. SUFFICES ASSUME NEW t \in Tokens, login'[t].at = "opened"
                   PROVE  /\ expires'[t] = login'[t].start + Ttl
                          /\ seen'[t] <= used'[t] /\ used'[t] <= seen'[t] + MaxWait
                          /\ used'[t] <= now'
                          /\ t \notin rows' => \/ t \in ended' \/ expires'[t] <= now'
                                               \/ seen'[t] + Idle <= now'
        BY DEF RowsTrue
    <2>2. CASE t = u
        BY <1>0, <1>1, <1>4, <2>1, <2>2, Times DEF LimitsInv, StatementsFresh
    <2>3. CASE t # u
        BY <1>1, <1>3, <2>1, <2>3 DEF LimitsInv, RowsTrue
    <2>. QED  BY <2>2, <2>3
<1>8. SnapshotsTrue' /\ RefusedOnlyWhenDue'
    \* no request carries the token of a login that is not answered
    <2>1. ASSUME NEW q \in Requests, req[q].at # "idle"
          PROVE  /\ req[q].token \in Tokens /\ req[q].token # u
                 /\ login'[req[q].token] = login[req[q].token]
                 /\ used'[req[q].token] = used[req[q].token]
        BY <1>2, <1>3, <2>1 DEF LimitsInv, IInv, KnownTokens
    <2>. QED  BY <1>1, <2>1 DEF LimitsInv, SnapshotsTrue, RefusedOnlyWhenDue, Due
<1>. QED  BY <1>6, <1>7, <1>8

\* The row that a request finds, or finds missing, says when it is due.
LEMMA MissedIsDue ==
    ASSUME LimitsInv, NEW t \in Tokens, login[t].at = "opened",
           NEW start \in Nat, NEW since \in Nat, start <= now, now <= start + MaxWait,
           since <= used[t], ~Accepts(t, start)
    PROVE  \/ t \in ended
           \/ start >= login[t].start + Ttl - MaxWait
           \/ start - since >= Idle - 2 * MaxWait
<1>1. /\ now \in Nat /\ MaxWait \in Nat /\ Ttl \in Nat /\ Idle \in Nat /\ expires[t] \in Nat
      /\ seen[t] \in Nat /\ used[t] \in Nat /\ login[t].start \in Nat
    BY Times DEF LimitsInv, IInv
<1>2. /\ expires[t] = login[t].start + Ttl /\ used[t] <= seen[t] + MaxWait
      /\ t \notin rows => t \in ended \/ expires[t] <= now \/ seen[t] + Idle <= now
    BY DEF LimitsInv, RowsTrue
<1>3. CASE t \notin rows
    BY <1>1, <1>2, <1>3
<1>4. CASE t \in rows
    <2>1. expires[t] <= start \/ seen[t] <= start - Idle
        BY <1>1, <1>4 DEF Accepts
    <2>. QED  BY <1>1, <1>2, <2>1
<1>. QED  BY <1>3, <1>4

\* session_touch starts: the request remembers what the row was.
LEMMA TouchStartLimits ==
    ASSUME LimitsInv, TypeOK', NEW q \in Requests, TouchStart(q)
    PROVE  StatementsFresh' /\ RowsTrue' /\ SnapshotsTrue' /\ RefusedOnlyWhenDue'
<1>0. TypeOK
    BY DEF LimitsInv, IInv
<1>1. UNCHANGED <<now, rows, expires, seen, login, purge, ended, used>>
    BY DEF TouchStart
<1>2. PICK t \in Tokens, out \in BOOLEAN :
         /\ login[t].at = "opened"
         /\ req' = [req EXCEPT ![q] = [at |-> "touching", token |-> t, start |-> now,
                                       logout |-> out, missed |-> ~ Accepts(t, now),
                                       since |-> used[t]]]
    BY DEF TouchStart
<1>3. /\ req'[q].at = "touching" /\ req'[q].token = t /\ req'[q].start = now
      /\ req'[q].missed = ~ Accepts(t, now) /\ req'[q].since = used[t]
      /\ \A p \in Requests : p # q => req'[p] = req[p]
    BY <1>0, <1>2 DEF TypeOK
<1>4. StatementsFresh'
    BY <1>0, <1>1, <1>3, Times DEF LimitsInv, StatementsFresh
<1>5. RowsTrue'
    BY <1>1 DEF LimitsInv, RowsTrue
<1>6. \A p \in Requests : p # q =>
         /\ req'[p].at = "touching" => /\ req'[p].since <= used'[req'[p].token]
                                       /\ req'[p].missed => Due(p)'
         /\ req'[p].at = "refused" => Due(p)'
    <2>1. \A u \in Tokens : used[u] <= used'[u] /\ login'[u].start = login[u].start
        BY <1>0, <1>1, Times
    <2>. QED  BY <1>1, <1>3, <2>1, RequestsLeft
<1>7. /\ req'[q].since <= used'[req'[q].token]
      /\ req'[q].missed => Due(q)'
    <2>1. used[t] \in Nat /\ now \in Nat /\ MaxWait \in Nat
        BY <1>0, Times
    <2>2. req'[q].missed => \/ t \in ended
                            \/ now >= login[t].start + Ttl - MaxWait
                            \/ now - used[t] >= Idle - 2 * MaxWait
        <3>1. now <= now /\ now <= now + MaxWait /\ used[t] <= used[t]
            BY <2>1
        <3>. QED  BY <1>2, <1>3, <2>1, <3>1, MissedIsDue
    <2>. QED  BY <1>1, <1>3, <2>1, <2>2 DEF Due
<1>8. SnapshotsTrue'
    BY <1>6, <1>7 DEF SnapshotsTrue
<1>9. RefusedOnlyWhenDue'
    BY <1>3, <1>6 DEF RefusedOnlyWhenDue, Due
<1>. QED  BY <1>4, <1>5, <1>8, <1>9

\* session_touch takes effect: it admits, refuses or fails.
LEMMA TouchLimits ==
    ASSUME LimitsInv, TypeOK', NEW q \in Requests, Touch(q)
    PROVE  StatementsFresh' /\ RowsTrue' /\ SnapshotsTrue' /\ RefusedOnlyWhenDue'
<1>. DEFINE t == req[q].token
<1>0. TypeOK
    BY DEF LimitsInv, IInv
<1>1. UNCHANGED <<now, rows, expires, login, purge, ended>> /\ req[q].at = "touching"
    BY DEF Touch
<1>2. /\ t \in Tokens /\ login[t].at = "opened" /\ req[q].start <= now
      /\ now <= req[q].start + MaxWait /\ req[q].since <= used[t]
      /\ req[q].missed => Due(q)
    BY <1>1 DEF LimitsInv, IInv, KnownTokens, StatementsFresh, SnapshotsTrue
<1>3. \A p \in Requests : p # q => req'[p] = req[p]
    BY <1>0 DEF Touch, TypeOK
<1>4. req'[q].at # "touching"
    BY <1>0 DEF Touch, TypeOK, IdleRequest
<1>5. \/ UNCHANGED <<seen, used>>
      \/ seen' = [seen EXCEPT ![t] = req[q].start] /\ used' = [used EXCEPT ![t] = now]
    BY DEF Touch
<1>6. seen \in [Tokens -> Moment] /\ used \in [Tokens -> Moment]
    BY <1>0 DEF TypeOK
<1>7. req'[q].at = "refused" =>
         /\ req'[q].token = t /\ req'[q].start = req[q].start /\ req'[q].since = req[q].since
         /\ req[q].missed \/ ~ Accepts(t, req[q].start)
    <2>1. \/ req' = [req EXCEPT ![q].at = "admitted"]
          \/ req' = [req EXCEPT ![q] = IdleRequest]
          \/ /\ req' = [req EXCEPT ![q].at = "refused"]
             /\ req[q].missed \/ ~ Accepts(t, req[q].start)
        BY DEF Touch
    <2>2. CASE req' = [req EXCEPT ![q].at = "admitted"]
        BY <1>0, <2>2 DEF TypeOK
    <2>3. CASE req' = [req EXCEPT ![q] = IdleRequest]
        BY <1>0, <2>3 DEF TypeOK, IdleRequest
    <2>4. CASE /\ req' = [req EXCEPT ![q].at = "refused"]
               /\ req[q].missed \/ ~ Accepts(t, req[q].start)
        BY <1>0, <2>4 DEF TypeOK
    <2>. QED  BY <2>1, <2>2, <2>3, <2>4
<1>. HIDE DEF t
<1>8. \A u \in Tokens : u # t => seen'[u] = seen[u] /\ used'[u] = used[u]
    BY <1>2, <1>5, <1>6
<1>9. \/ seen'[t] = seen[t] /\ used'[t] = used[t]
      \/ seen'[t] = req[q].start /\ used'[t] = now /\ t \in rows
    <2>1. seen' # seen \/ used' # used => t \in rows
        BY DEF Touch, Accepts, t
    <2>. QED  BY <1>2, <1>5, <1>6, <2>1
<1>10. StatementsFresh'
    BY <1>1, <1>3, <1>4 DEF LimitsInv, StatementsFresh
<1>11. RowsTrue'
    <2>1. SUFFICES ASSUME NEW u \in Tokens, login'[u].at = "opened"
                   PROVE  /\ expires'[u] = login'[u].start + Ttl
                          /\ seen'[u] <= used'[u] /\ used'[u] <= seen'[u] + MaxWait
                          /\ used'[u] <= now'
                          /\ u \notin rows' => \/ u \in ended' \/ expires'[u] <= now'
                                               \/ seen'[u] + Idle <= now'
        BY DEF RowsTrue
    <2>2. CASE seen'[u] = seen[u] /\ used'[u] = used[u]
        BY <1>1, <2>1, <2>2 DEF LimitsInv, RowsTrue
    <2>3. CASE u = t /\ seen'[t] = req[q].start /\ used'[t] = now /\ t \in rows
        <3>1. expires'[u] = login'[u].start + Ttl
            BY <1>1, <2>1 DEF LimitsInv, RowsTrue
        <3>2. now \in Nat
            BY <1>0, Times
        <3>. QED  BY <1>1, <1>2, <2>3, <3>1, <3>2
    <2>. QED  BY <1>8, <1>9, <2>2, <2>3
<1>12. \A u \in Tokens : used[u] <= used'[u]
    <2>1. \A u \in Tokens : used[u] \in Nat
        BY <1>0, Times
    <2>2. used[t] <= now
        BY <1>2 DEF LimitsInv, RowsTrue
    <2>. QED  BY <1>8, <1>9, <2>1, <2>2
<1>13. \A p \in Requests : p # q =>
         /\ req'[p].at = "touching" => /\ req'[p].since <= used'[req'[p].token]
                                       /\ req'[p].missed => Due(p)'
         /\ req'[p].at = "refused" => Due(p)'
    <2>1. \A u \in Tokens : login'[u].start = login[u].start
        BY <1>1
    <2>. QED  BY <1>1, <1>3, <1>12, <2>1, RequestsLeft
<1>14. req'[q].at = "refused" => Due(q)'
    <2>1. SUFFICES ASSUME req'[q].at = "refused" PROVE Due(q)'
        OBVIOUS
    <2>2. ~ Accepts(t, req[q].start) => Due(q)
        <3>1. req[q].start \in Nat /\ req[q].since \in Nat
            BY <1>0, Times
        <3>. QED  BY <1>2, <3>1, MissedIsDue DEF Due, t
    <2>3. Due(q)
        BY <1>2, <1>7, <2>1, <2>2
    <2>. QED  BY <1>1, <1>7, <2>1, <2>3, DueStays DEF t
<1>15. SnapshotsTrue'
    BY <1>4, <1>13 DEF SnapshotsTrue
<1>16. RefusedOnlyWhenDue'
    BY <1>13, <1>14 DEF RefusedOnlyWhenDue, Due
<1>. QED  BY <1>10, <1>11, <1>15, <1>16

\* A request ends; session_close removes the row of its token.
LEMMA CloseLimits ==
    ASSUME LimitsInv, TypeOK', NEW q \in Requests, Done(q) \/ Close(q)
    PROVE  StatementsFresh' /\ RowsTrue' /\ SnapshotsTrue' /\ RefusedOnlyWhenDue'
<1>0. TypeOK
    BY DEF LimitsInv, IInv
<1>1. /\ UNCHANGED <<now, expires, seen, login, purge, used>>
      /\ req' = [req EXCEPT ![q] = IdleRequest]
      /\ ended \subseteq ended'
      /\ \A t \in rows \ rows' : t \in ended'
    BY DEF Done, Close
<1>2. req'[q].at = "idle" /\ \A p \in Requests : p # q => req'[p] = req[p]
    BY <1>0, <1>1 DEF TypeOK, IdleRequest
<1>3. StatementsFresh'
    BY <1>1, <1>2 DEF LimitsInv, StatementsFresh
<1>4. RowsTrue'
    BY <1>1 DEF LimitsInv, RowsTrue
<1>5. \A t \in Tokens : used[t] <= used'[t]
    BY <1>0, <1>1, Times
<1>6. SnapshotsTrue' /\ RefusedOnlyWhenDue'
    BY <1>1, <1>2, <1>5, RequestOver
<1>. QED  BY <1>3, <1>4, <1>6

\* The purge starts, removes rows that were dead when it did, or time passes.
LEMMA PurgeLimits ==
    ASSUME LimitsInv, TypeOK', PurgeStart \/ Purge \/ Tick
    PROVE  StatementsFresh' /\ RowsTrue' /\ SnapshotsTrue' /\ RefusedOnlyWhenDue'
<1>0. TypeOK
    BY DEF LimitsInv, IInv
<1>1. UNCHANGED <<expires, seen, login, req, ended, used>>
    BY DEF PurgeStart, Purge, Tick
<1>2. now' \in {now, now + 1} /\ purge' \in {0, now, purge}
    BY DEF PurgeStart, Purge, Tick
<1>3. /\ \A t \in Tokens : login[t].at = "opening" => now' <= login[t].start + MaxWait
      /\ \A q \in Requests : req[q].at = "touching" => now' <= req[q].start + MaxWait
    <2>1. CASE now' = now
        BY <2>1 DEF LimitsInv, StatementsFresh
    <2>2. CASE Tick
        <3>1. now' = now + 1 /\ \A s \in Waiting : now - s < MaxWait
            BY <2>2 DEF Tick
        <3>2. /\ \A t \in Tokens : login[t].at = "opening" => login[t].start \in Waiting
              /\ \A q \in Requests : req[q].at = "touching" => req[q].start \in Waiting
            BY DEF Waiting
        <3>. QED  BY <1>0, <3>1, <3>2, Times
    <2>. QED  BY <2>1, <2>2 DEF PurgeStart, Purge
<1>4. StatementsFresh'
    BY <1>0, <1>1, <1>2, <1>3, Times DEF LimitsInv, StatementsFresh
<1>5. RowsTrue'
    <2>1. \A t \in rows \ rows' : expires[t] <= purge \/ seen[t] <= purge - Idle
        BY DEF PurgeStart, Purge, Tick, Dead
    <2>2. purge <= now /\ now <= now'
        BY <1>0, <1>2, Times DEF LimitsInv, StatementsFresh
    <2>3. ASSUME NEW t \in Tokens, login[t].at = "opened", t \notin rows'
          PROVE  t \in ended \/ expires[t] <= now' \/ seen[t] + Idle <= now'
        <3>1. /\ now \in Nat /\ now' \in Nat /\ purge \in Nat /\ expires[t] \in Nat
              /\ seen[t] \in Nat /\ Idle \in Nat
            BY <1>0, <1>2, Times
        <3>2. CASE t \in rows
            BY <2>1, <2>2, <2>3, <3>1, <3>2
        <3>3. CASE t \notin rows
            BY <2>2, <2>3, <3>1, <3>3 DEF LimitsInv, RowsTrue
        <3>. QED  BY <3>2, <3>3
    <2>4. \A t \in Tokens : login[t].at = "opened" => used[t] <= now'
        BY <1>0, <1>2, Times DEF LimitsInv, RowsTrue
    <2>. QED  BY <1>1, <2>3, <2>4 DEF LimitsInv, RowsTrue
<1>6. SnapshotsTrue' /\ RefusedOnlyWhenDue'
    <2>1. \A t \in Tokens : used[t] <= used'[t] /\ login'[t].start = login[t].start
        BY <1>0, <1>1, Times
    <2>. QED  BY <1>1, <2>1, AllRequestsLeft
<1>. QED  BY <1>4, <1>5, <1>6

LEMMA LimitsStep == LimitsInv /\ [Next]_vars => LimitsInv'
<1>. SUFFICES ASSUME LimitsInv, [Next]_vars PROVE LimitsInv'
    OBVIOUS
<1>1. IInv' /\ TypeOK'
    BY TypeStep, KnownStep, ClosedStep DEF LimitsInv, IInv
<1>. DEFINE Kept == StatementsFresh' /\ RowsTrue' /\ SnapshotsTrue' /\ RefusedOnlyWhenDue'
<1>2. ASSUME NEW t \in Tokens, OpenStart(t) \/ Open(t) PROVE Kept
    BY <1>1, <1>2, OpenLimits
<1>3. ASSUME NEW q \in Requests, TouchStart(q) PROVE Kept
    BY <1>1, <1>3, TouchStartLimits
<1>4. ASSUME NEW q \in Requests, Touch(q) PROVE Kept
    BY <1>1, <1>4, TouchLimits
<1>5. ASSUME NEW q \in Requests, Done(q) \/ Close(q) PROVE Kept
    BY <1>1, <1>5, CloseLimits
<1>6. ASSUME PurgeStart \/ Purge \/ Tick PROVE Kept
    BY <1>1, <1>6, PurgeLimits
<1>7. ASSUME UNCHANGED vars PROVE Kept
    BY <1>7 DEF vars, LimitsInv, StatementsFresh, RowsTrue, SnapshotsTrue, RefusedOnlyWhenDue, Due
<1>8. Kept
    BY <1>2, <1>3, <1>4, <1>5, <1>6, <1>7 DEF Next
<1>. QED  BY <1>1, <1>8 DEF LimitsInv

\* What rows, waiting statements and requests know of time holds in every state.
THEOREM LimitsInvariant == Spec => []LimitsInv
<1>1. Init => LimitsInv
    <2>. SUFFICES ASSUME Init PROVE LimitsInv
        OBVIOUS
    <2>1. IInv
        BY SessionsAssumption DEF Init, IInv, TypeOK, KnownTokens, ClosedForGood, IdleRequest,
                                  Moment
    <2>2. StatementsFresh /\ RowsTrue /\ SnapshotsTrue /\ RefusedOnlyWhenDue
        BY DEF Init, StatementsFresh, RowsTrue, SnapshotsTrue, RefusedOnlyWhenDue, IdleRequest
    <2>. QED  BY <2>1, <2>2 DEF LimitsInv
<1>. QED  BY <1>1, LimitsStep, PTL DEF Spec

\* session_touch: a request is refused with 401 only when the session was over or
\* due, up to the waits for a row lock.
THEOREM RefusalsAreDue == Spec => []RefusedOnlyWhenDue
<1>1. LimitsInv => RefusedOnlyWhenDue
    BY DEF LimitsInv
<1>. QED  BY <1>1, LimitsInvariant, PTL

\* session_touch: nobody is admitted after session_ttl or session_idle_timeout,
\* up to the wait for a row lock.
THEOREM AdmissionsInTime == Spec => AdmittedInTime
<1>1. LimitsInv /\ [Next]_vars =>
        [\A t \in Tokens : Admitted(t) =>
            /\ now < login[t].start + Ttl + MaxWait
            /\ now - used[t] < Idle + MaxWait]_vars
    <2>. SUFFICES ASSUME LimitsInv, [Next]_vars, NEW t \in Tokens, Admitted(t)
                  PROVE  /\ now < login[t].start + Ttl + MaxWait
                         /\ now - used[t] < Idle + MaxWait
        BY DEF vars
    <2>0. TypeOK
        BY DEF LimitsInv, IInv
    <2>1. PICK q \in Requests : /\ req[q].at = "touching" /\ req[q].token = t
                                /\ req'[q].at = "admitted"
        BY DEF Admitted
    <2>2. ASSUME NEW p \in Requests, TouchStart(p) \/ Done(p) \/ Close(p) PROVE FALSE
        BY <2>0, <2>1, <2>2 DEF TypeOK, TouchStart, Done, Close, IdleRequest
    <2>3. req' # req
        BY <2>1
    <2>4. PICK p \in Requests : Touch(p)
        BY <2>2, <2>3 DEF Next, OpenStart, Open, PurgeStart, Purge, Tick, vars
    <2>5. Accepts(t, req[q].start)
        <3>1. CASE p # q
            BY <2>0, <2>1, <2>4, <3>1 DEF TypeOK, Touch
        <3>2. CASE p = q
            BY <2>0, <2>1, <2>4, <3>2 DEF TypeOK, Touch, IdleRequest
        <3>. QED  BY <3>1, <3>2
    <2>6. /\ now \in Nat /\ MaxWait \in Nat /\ Ttl \in Nat /\ Idle \in Nat /\ expires[t] \in Nat
          /\ seen[t] \in Nat /\ used[t] \in Nat /\ login[t].start \in Nat /\ req[q].start \in Nat
        BY <2>0, Times
    <2>7. login[t].at = "opened" /\ now <= req[q].start + MaxWait
        BY <2>1 DEF LimitsInv, IInv, KnownTokens, StatementsFresh
    <2>8. expires[t] = login[t].start + Ttl /\ seen[t] <= used[t]
        BY <2>7 DEF LimitsInv, RowsTrue
    <2>. QED  BY <2>5, <2>6, <2>7, <2>8 DEF Accepts
<1>. QED  BY <1>1, LimitsInvariant, PTL DEF Spec, AdmittedInTime

\* session_purge_expired: what it removes, session_touch would refuse.
THEOREM PurgesTakeOnlyDead == Spec => PurgeTakesOnlyDead
<1>1. LimitsInv /\ [Next]_vars =>
        [\A t \in rows \ rows' : purge # 0 /\ purge' = 0 => ~ Accepts(t, now)]_vars
    <2>. SUFFICES ASSUME LimitsInv, [Next]_vars, NEW t \in rows \ rows', purge # 0, purge' = 0
                  PROVE  ~ Accepts(t, now)
        BY DEF vars
    <2>0. TypeOK /\ purge <= now
        BY DEF LimitsInv, IInv, StatementsFresh
    <2>1. Purge
        BY SessionsAssumption
           DEF Next, OpenStart, Open, TouchStart, Touch, Done, Close, PurgeStart, Tick, vars
    <2>2. t \in Tokens /\ Dead(t, purge)
        BY <2>0, <2>1 DEF Purge, TypeOK
    <2>3. /\ now \in Nat /\ purge \in Nat /\ Idle \in Nat /\ expires[t] \in Nat
          /\ seen[t] \in Nat
        BY <2>0, <2>2, Times
    <2>. QED  BY <2>0, <2>2, <2>3 DEF Dead, Accepts
<1>. QED  BY <1>1, LimitsInvariant, PTL DEF Spec, PurgeTakesOnlyDead
=============================================================================
