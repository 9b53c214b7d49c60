------------------------------ MODULE Sessions ------------------------------
(***************************************************************************)
(* Server-side sessions: opening one at sign-in, the check every           *)
(* authenticated request passes, logout, and the worker's purge.           *)
(*                                                                         *)
(*   migrations/0001_schema.sql                session_open, session_touch,*)
(*                                    session_close, session_purge_expired *)
(*   crates/otdel-db/src/sessions.rs           open, touch, close          *)
(*   crates/otdel-api/src/auth/mod.rs          Session                     *)
(*   crates/otdel-api/src/routes/session.rs    login, logout               *)
(*                                                                         *)
(* now() of a statement is the start of its transaction; the statement may *)
(* then wait for the lock of the row.  So each statement is two steps: it  *)
(* starts, and it takes effect with the time it started at.  An UPDATE     *)
(* applies to a row that satisfies its WHERE in the snapshot of the        *)
(* statement and still does once the row is locked.  A login makes a token *)
(* of its own, so a token names the login that opened it.                  *)
(***************************************************************************)
EXTENDS Integers

CONSTANTS Tokens,      \* sign-ins, each with its random token
          Requests,    \* connections that carry authenticated requests
          NoToken,
          Ttl,         \* session_ttl, in ticks
          Idle,        \* session_idle_timeout, in ticks
          MaxTime,     \* bound: the clock stops here
          MaxWait      \* bound: ticks a statement waits for a row lock

ASSUME SessionsAssumption ==
    /\ NoToken \notin Tokens
    /\ Ttl \in Nat \ {0} /\ Idle \in Nat \ {0}
    /\ MaxTime \in Nat \ {0} /\ MaxWait \in Nat

VARIABLES
    now,
    rows,       \* tokens with a row in otdel.sessions
    expires,    \* expires_at of each row
    seen,       \* last_seen_at of each row
    login,      \* where each sign-in is, and the start of its statement
    req,        \* where each request is, its token and the start of its statement;
                \* missed: the row failed the WHERE then; since: used of the token then
    purge,      \* start of the running purge, 0 when none runs
    ended,      \* history: tokens session_close took effect for
    used        \* history: when each token was opened or last passed session_touch

vars == <<now, rows, expires, seen, login, req, purge, ended, used>>

Moment == 0..MaxTime
IdleRequest == [at |-> "idle", token |-> NoToken, start |-> 0, logout |-> FALSE,
                missed |-> FALSE, since |-> 0]

TypeOK ==
    /\ now \in 1..MaxTime
    /\ rows \subseteq Tokens
    /\ expires \in [Tokens -> 0..(MaxTime + Ttl)]
    /\ seen \in [Tokens -> Moment]
    /\ login \in [Tokens -> [at : {"none", "opening", "opened", "failed"}, start : Moment]]
    /\ req \in [Requests -> [at : {"idle", "touching", "admitted", "refused"},
                             token : Tokens \cup {NoToken}, start : Moment, logout : BOOLEAN,
                             missed : BOOLEAN, since : Moment]]
    /\ purge \in Moment
    /\ ended \subseteq Tokens
    /\ used \in [Tokens -> Moment]

Init ==
    /\ now = 1
    /\ rows = {}
    /\ expires = [t \in Tokens |-> 0]
    /\ seen = [t \in Tokens |-> 0]
    /\ login = [t \in Tokens |-> [at |-> "none", start |-> 0]]
    /\ req = [q \in Requests |-> IdleRequest]
    /\ purge = 0
    /\ ended = {}
    /\ used = [t \in Tokens |-> 0]

-----------------------------------------------------------------------------
(* login: session_open, once the password is verified.                     *)

OpenStart(t) ==
    /\ login[t].at = "none"
    /\ login' = [login EXCEPT ![t] = [at |-> "opening", start |-> now]]
    /\ UNCHANGED <<now, rows, expires, seen, req, purge, ended, used>>

Insert(t, ttl) ==
    /\ rows' = rows \cup {t}
    /\ expires' = [expires EXCEPT ![t] = login[t].start + ttl]
    /\ seen' = [seen EXCEPT ![t] = login[t].start]
    /\ used' = [used EXCEPT ![t] = now]

\* The bureau may be missing or the statement fail: 503 and no row, unless only
\* its answer was lost.
Open(t) ==
    /\ login[t].at = "opening"
    /\ \/ /\ login' = [login EXCEPT ![t].at = "opened"]
          /\ Insert(t, Ttl)
       \/ /\ login' = [login EXCEPT ![t].at = "failed"]
          /\ Insert(t, Ttl) \/ UNCHANGED <<rows, expires, seen, used>>
    /\ UNCHANGED <<now, req, purge, ended>>

-----------------------------------------------------------------------------
(* Session: session_touch, then Origin and CSRF of a state-changing request.*)

\* Mutant: a session is still accepted at the moment it becomes idle.
AcceptsAtLimit(t, at) == t \in rows /\ expires[t] > at /\ seen[t] >= at - Idle

\* The WHERE of session_touch.
Accepts(t, at) == t \in rows /\ expires[t] > at /\ seen[t] > at - Idle

\* A client knows a token once its login was answered.
TouchStart(q) ==
    /\ req[q].at = "idle"
    /\ \E t \in Tokens, out \in BOOLEAN :
          /\ login[t].at = "opened"
          /\ req' = [req EXCEPT ![q] = [at |-> "touching", token |-> t, start |-> now,
                                        logout |-> out, missed |-> ~ Accepts(t, now),
                                        since |-> used[t]]]
    /\ UNCHANGED <<now, rows, expires, seen, login, purge, ended, used>>

\* Mutant: each admitted request also renews the absolute expiry.
TouchProlongs(q) ==
    LET t == req[q].token IN
    /\ req[q].at = "touching"
    /\ Accepts(t, req[q].start)
    /\ seen' = [seen EXCEPT ![t] = req[q].start]
    /\ expires' = [expires EXCEPT ![t] = req[q].start + Ttl]
    /\ used' = [used EXCEPT ![t] = now]
    /\ req' = [req EXCEPT ![q].at = "admitted"]
    /\ UNCHANGED <<now, rows, login, purge, ended>>

\* Mutant: last_seen_at is read but never refreshed.
TouchWithoutRefresh(q) ==
    LET t == req[q].token IN
    /\ req[q].at = "touching"
    /\ \/ /\ Accepts(t, req[q].start)
          /\ used' = [used EXCEPT ![t] = now]
          /\ req' = [req EXCEPT ![q].at = "admitted"]
       \/ /\ ~ Accepts(t, req[q].start)
          /\ req' = [req EXCEPT ![q].at = "refused"]
          /\ UNCHANGED used
    /\ UNCHANGED <<now, rows, expires, seen, login, purge, ended>>

\* The idle timer is refreshed before Origin and CSRF are looked at: a request
\* that is answered with 403 has refreshed it too.  No row: 401.  A row that was
\* missed is refused, or found by a snapshot taken after another request's touch.
Touch(q) ==
    LET t == req[q].token IN
    /\ req[q].at = "touching"
    /\ \/ /\ Accepts(t, req[q].start)
          /\ seen' = [seen EXCEPT ![t] = req[q].start]
          /\ used' = [used EXCEPT ![t] = now]
          /\ \/ req' = [req EXCEPT ![q].at = "admitted"]
             \/ req' = [req EXCEPT ![q] = IdleRequest]
       \/ /\ req[q].missed \/ ~ Accepts(t, req[q].start)
          /\ req' = [req EXCEPT ![q].at = "refused"]
          /\ UNCHANGED <<seen, used>>
       \/ /\ req' = [req EXCEPT ![q] = IdleRequest]     \* the statement fails: 503
          /\ UNCHANGED <<seen, used>>
    /\ UNCHANGED <<now, rows, expires, login, purge, ended>>

\* The handler of a request that is not a logout ends; it keeps the bureau it was
\* admitted with, whatever becomes of the session meanwhile.
Done(q) ==
    /\ \/ req[q].at = "admitted" /\ ~ req[q].logout
       \/ req[q].at = "refused"
    /\ req' = [req EXCEPT ![q] = IdleRequest]
    /\ UNCHANGED <<now, rows, expires, seen, login, purge, ended, used>>

-----------------------------------------------------------------------------
(* logout: session_close.                                                  *)

\* Mutant: the session is closed by letting it expire now.
CloseByExpiry(q) ==
    /\ req[q].at = "admitted"
    /\ req[q].logout
    /\ expires' = [expires EXCEPT ![req[q].token] = now]
    /\ ended' = ended \cup {req[q].token}
    /\ req' = [req EXCEPT ![q] = IdleRequest]
    /\ UNCHANGED <<now, rows, seen, login, purge, used>>

\* 200 whether the row was still there or not, unless the answer is lost; or the
\* statement fails.
Close(q) ==
    /\ req[q].at = "admitted"
    /\ req[q].logout
    /\ \/ /\ rows' = rows \ {req[q].token}
          /\ ended' = ended \cup {req[q].token}
       \/ UNCHANGED <<rows, ended>>
    /\ req' = [req EXCEPT ![q] = IdleRequest]
    /\ UNCHANGED <<now, expires, seen, login, purge, used>>

-----------------------------------------------------------------------------
(* The maintenance worker: session_purge_expired.                          *)

\* The WHERE of session_purge_expired.
Dead(t, at) == expires[t] <= at \/ seen[t] <= at - Idle

PurgeStart ==
    /\ purge = 0
    /\ purge' = now
    /\ UNCHANGED <<now, rows, expires, seen, login, req, ended, used>>

\* Mutant: only the absolute expiry is looked at.
PurgeExpiredOnly ==
    /\ purge # 0
    /\ rows' = {t \in rows : expires[t] > purge}
    /\ purge' = 0
    /\ UNCHANGED <<now, expires, seen, login, req, ended, used>>

Purge ==
    /\ purge # 0
    /\ rows' = {t \in rows : ~ Dead(t, purge)}
    /\ purge' = 0
    /\ UNCHANGED <<now, expires, seen, login, req, ended, used>>

-----------------------------------------------------------------------------
\* Starts of the statements that have not taken effect yet.
Waiting == {login[t].start : t \in {u \in Tokens : login[u].at = "opening"}}
           \cup {req[q].start : q \in {p \in Requests : req[p].at = "touching"}}
           \cup (IF purge = 0 THEN {} ELSE {purge})

\* Time passes, but no statement waits for a lock longer than MaxWait.
Tick ==
    /\ now < MaxTime
    /\ \A s \in Waiting : now - s < MaxWait
    /\ now' = now + 1
    /\ UNCHANGED <<rows, expires, seen, login, req, purge, ended, used>>

Next ==
    \/ \E t \in Tokens : OpenStart(t) \/ Open(t)
    \/ \E q \in Requests : TouchStart(q) \/ Touch(q) \/ Done(q) \/ Close(q)
    \/ PurgeStart
    \/ Purge
    \/ Tick

\* The worker runs a purge at every tick of its interval.
Fairness == WF_vars(PurgeStart) /\ WF_vars(Purge)

Spec == Init /\ [][Next]_vars /\ Fairness

-----------------------------------------------------------------------------
(* Correctness.                                                            *)

\* A step in which a request of token t passes session_touch.
Admitted(t) == \E q \in Requests : /\ req[q].at = "touching" /\ req[q].token = t
                                   /\ req'[q].at = "admitted"

\* Once a logout took effect, no request is admitted with its token:
\* not one that waited for the row lock across the close, not one that comes
\* later, and no purge or sign-in brings the session back.
LoggedOutIsOut == [][\A t \in Tokens : Admitted(t) => t \notin ended]_vars

\* A session is used for at most session_ttl after its sign-in, and never again
\* after it was idle for session_idle_timeout, up to the wait for a lock: last_seen_at
\* written by requests that overtake each other does not keep a session alive.
AdmittedInTime ==
    [][\A t \in Tokens : Admitted(t) =>
          /\ now < login[t].start + Ttl + MaxWait
          /\ now - used[t] < Idle + MaxWait]_vars

\* A user who keeps working is not thrown out: a request is refused with 401 only
\* if its token was logged out, or had outlived session_ttl or been idle for
\* session_idle_timeout when the request arrived, less the waits for a lock: its own,
\* in which a purge may overtake it, and that of the request before it.
RefusedOnlyWhenDue ==
    \A q \in Requests : LET t == req[q].token IN
        req[q].at = "refused" =>
            \/ t \in ended
            \/ req[q].start >= login[t].start + Ttl - MaxWait
            \/ req[q].start - req[q].since >= Idle - 2 * MaxWait

\* The purge removes only rows that session_touch would refuse from now on: the
\* two conditions meet without overlap at the moment of expiry.
PurgeTakesOnlyDead ==
    [][\A t \in rows \ rows' : purge # 0 /\ purge' = 0 => ~ Accepts(t, now)]_vars

\* Every row goes away in the end although nobody asks for it again: a session
\* that can no longer be used does not stay in the table.
DeadRowsPurged ==
    \A t \in Tokens : (t \in rows /\ Dead(t, now)) ~> (t \notin rows \/ ~ Dead(t, now))
=============================================================================
