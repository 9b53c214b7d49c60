---------------------------- MODULE WebSession -----------------------------
(***************************************************************************)
(* Authentication in the browser: tabs that share one cookie, calls in     *)
(* flight, and the recovery from a stale CSRF token.                       *)
(*                                                                         *)
(*   apps/web/src/auth/AuthContext.tsx   AuthProvider                      *)
(*   apps/web/src/App.tsx                which screen is shown             *)
(*   apps/web/src/api/client.ts          apiRequest, error classes         *)
(*   apps/web/src/hooks/useMaterials.ts  when the workspace reads          *)
(*                                                                         *)
(* The server is what Sessions promises: a set of live sessions, each with *)
(* a CSRF token that is known by the session's name here.  A call carries  *)
(* the cookie of the moment it is sent; an answer sets the cookie when it  *)
(* arrives.  Of the materials panel only what makes it read again is kept; *)
(* the rest is in MaterialsPolling.                                        *)
(***************************************************************************)
EXTENDS Naturals, FiniteSets

CONSTANTS Tabs, Mutations,
          MaxSessions,   \* bound on sign-ins
          MaxLosses,     \* bound on calls that the network breaks
          None

Verdicts == {"ok", "401", "invalid_csrf_token", "network"}

ASSUME WebAssumption ==
    /\ MaxSessions \in Nat /\ MaxLosses \in Nat
    /\ None \notin Mutations \cup Verdicts

VARIABLES
    auth,      \* AuthState of a tab
    csrf,      \* its csrfToken while it is authenticated
    call,      \* calls of a tab: one that concerns the session, one mutation, one read
    panel,     \* the materials panel of a tab, and whether its poll timer is set
    cookie,    \* the browser's session cookie
    live,      \* sessions that the server accepts
    opened,    \* sessions opened so far
    asked,     \* mutations that the user has asked for
    applied,   \* how often the server has applied a mutation
    losses,
    late       \* lost requests that the server may still handle

vars == <<auth, csrf, call, panel, cookie, live, opened, asked, applied, losses, late>>

Slots == {"session", "mutation", "read"}
Idle  == [kind |-> "idle", token |-> None, csrf |-> None, what |-> None,
          answer |-> None]

\* App: the workspace is on screen.
Mounted(t) == auth[t] \in {"authenticated", "expired"}

CallKinds == {"idle", "check", "login", "logout", "first", "refresh", "replay", "read",
              "poll"}

\* Calls that change something on the server.
Changes == {"logout", "first", "replay"}

Call == [kind : CallKinds, token : 0 .. MaxSessions \cup {None},
         csrf : 0 .. MaxSessions \cup {None}, what : Mutations \cup {None},
         answer : Verdicts \cup {None}]

TypeOK ==
    /\ auth \in [Tabs -> {"checking", "unreachable", "initial", "expired",
                          "logged-out", "authenticated"}]
    /\ csrf \in [Tabs -> 0 .. MaxSessions]
    /\ call \in [Tabs -> [Slots -> Call]]
    /\ panel \in [Tabs -> {"closed", "shown", "armed"}]
    /\ cookie \in 0 .. MaxSessions /\ live \subseteq 1 .. MaxSessions
    /\ opened \in 0 .. MaxSessions
    /\ asked \subseteq Mutations
    /\ applied \in [Mutations -> Nat]
    /\ losses \in 0 .. MaxLosses
    /\ late \subseteq Call

Init ==
    /\ auth = [t \in Tabs |-> "checking"]
    /\ csrf = [t \in Tabs |-> 0]
    /\ call = [t \in Tabs |-> [s \in Slots |->
                 IF s = "session"
                   THEN [Idle EXCEPT !.kind = "check", !.token = 0, !.csrf = 0]
                   ELSE Idle]]
    /\ panel = [t \in Tabs |-> "closed"]
    /\ cookie = 0 /\ live = {} /\ opened = 0 /\ asked = {}
    /\ applied = [m \in Mutations |-> 0]
    /\ losses = 0 /\ late = {}

-----------------------------------------------------------------------------
(* What the user, and the workspace, begin.                                *)

\* apiRequest: the cookie goes along.
Sent(kind, token, what) ==
    [kind |-> kind, token |-> cookie, csrf |-> token, what |-> what, answer |-> None]

Send(t, s, c) ==
    /\ call[t][s] = Idle
    /\ call' = [call EXCEPT ![t][s] = c]

\* setState; the workspace goes with its panel unless it stays on screen.
SetState(t, status, token) ==
    /\ auth' = [auth EXCEPT ![t] = status]
    /\ csrf' = [csrf EXCEPT ![t] = token]
    /\ panel' = IF status \in {"authenticated", "expired"}
                  THEN panel ELSE [panel EXCEPT ![t] = "closed"]

\* The retry button beside "unreachable".
Recheck(t) ==
    /\ auth[t] = "unreachable"
    /\ Send(t, "session", Sent("check", 0, None))
    /\ auth' = [auth EXCEPT ![t] = "checking"]
    /\ UNCHANGED <<csrf, panel, cookie, live, opened, asked, applied, losses, late>>

\* login, from the login page or from the overlay.
Login(t) ==
    /\ auth[t] \in {"initial", "logged-out", "expired"}
    /\ Send(t, "session", Sent("login", 0, None))
    /\ UNCHANGED <<auth, csrf, panel, cookie, live, opened, asked, applied, losses, late>>

\* logout; a tab that is not authenticated asks nobody.
Logout(t) ==
    /\ Mounted(t)
    /\ \/ /\ auth[t] = "authenticated"
          /\ Send(t, "session", Sent("logout", csrf[t], None))
          /\ UNCHANGED <<auth, csrf, panel>>
       \/ /\ auth[t] = "expired"
          /\ SetState(t, "logged-out", 0)
          /\ UNCHANGED call
    /\ UNCHANGED <<cookie, live, opened, asked, applied, losses, late>>

\* runMutation; the user asks for every mutation once.
RunMutation(t, m) ==
    /\ auth[t] = "authenticated"
    /\ m \notin asked /\ asked' = asked \cup {m}
    /\ Send(t, "mutation", Sent("first", csrf[t], m))
    /\ UNCHANGED <<auth, csrf, panel, cookie, live, opened, applied, losses, late>>

\* runRead: the workspace loads its partners when it appears, or one by its link,
\* and again when the user asks for it.
RunRead(t) ==
    /\ Mounted(t)
    /\ Send(t, "read", Sent("read", 0, None))
    /\ UNCHANGED <<auth, csrf, panel, cookie, live, opened, asked, applied, losses, late>>

\* The user selects a partner: the effect clears the timer and loads.
OpenPanel(t) ==
    /\ Mounted(t)
    /\ Send(t, "read", Sent("poll", 0, None))
    /\ panel' = [panel EXCEPT ![t] = "shown"]
    /\ UNCHANGED <<auth, csrf, cookie, live, opened, asked, applied, losses, late>>

\* reload, from the error shown beside the materials.
Reload(t) ==
    /\ panel[t] # "closed"
    /\ Send(t, "read", Sent("poll", 0, None))
    /\ UNCHANGED <<auth, csrf, panel, cookie, live, opened, asked, applied, losses, late>>

\* The partner is not selected any more: the effect is cleaned up.
ClosePanel(t) ==
    /\ panel[t] # "closed"
    /\ panel' = [panel EXCEPT ![t] = "closed"]
    /\ UNCHANGED <<auth, csrf, call, cookie, live, opened, asked, applied, losses, late>>

\* armPoll: the timer fires.
Poll(t) ==
    /\ panel[t] = "armed"
    /\ Send(t, "read", Sent("poll", 0, None))
    /\ panel' = [panel EXCEPT ![t] = "shown"]
    /\ UNCHANGED <<auth, csrf, cookie, live, opened, asked, applied, losses, late>>

-----------------------------------------------------------------------------
(* The server and the network.                                             *)

Answered(t, s, a) == call' = [call EXCEPT ![t][s].answer = a]

\* A password is accepted and opens a session of its own.
HandleLogin(t) ==
    /\ call[t]["session"].kind = "login" /\ call[t]["session"].answer = None
    /\ opened < MaxSessions
    /\ opened' = opened + 1 /\ live' = live \cup {opened'}
    /\ call' = [call EXCEPT ![t]["session"].answer = "ok", ![t]["session"].csrf = opened']
    /\ UNCHANGED <<auth, csrf, panel, cookie, asked, applied, losses, late>>

\* What the handler of a call that is let through does.
Effect(c) ==
    /\ live' = IF c.kind = "logout" THEN live \ {c.token} ELSE live
    /\ applied' = IF c.what # None /\ c.kind \in Changes
                    THEN [applied EXCEPT ![c.what] = @ + 1] ELSE applied

\* The session extractor: 401 without a live session, 403 on a state change
\* with another session's token; else the work is done.
Handle(t, s) ==
    LET c == call[t][s] IN
    /\ c # Idle /\ c.answer = None /\ c.kind # "login"
    /\ \/ c.token \notin live /\ Answered(t, s, "401") /\ UNCHANGED <<live, applied>>
       \/ /\ c.token \in live /\ c.kind \in Changes /\ c.csrf # c.token
          /\ Answered(t, s, "invalid_csrf_token") /\ UNCHANGED <<live, applied>>
       \/ /\ c.token \in live /\ (c.kind \in Changes => c.csrf = c.token)
          /\ call' = [call EXCEPT ![t][s].answer = "ok", ![t][s].csrf = c.token]
          /\ Effect(c)
    /\ UNCHANGED <<auth, csrf, panel, cookie, opened, asked, losses, late>>

\* The request, or its answer after it took effect, is lost; or the client gives
\* up on a request that is still on its way.
Lose(t, s) ==
    /\ call[t][s] # Idle /\ call[t][s].answer # "network" /\ losses < MaxLosses
    /\ Answered(t, s, "network") /\ losses' = losses + 1
    /\ \/ UNCHANGED late
       \/ /\ call[t][s].answer = None /\ call[t][s].kind \in Changes
          /\ late' = late \cup {call[t][s]}
    /\ UNCHANGED <<auth, csrf, panel, cookie, live, opened, asked, applied>>

\* Such a request arrives after all; nobody waits for its answer.
HandleLate ==
    /\ \E c \in late :
          /\ late' = late \ {c}
          /\ IF c.token \in live /\ c.csrf = c.token
               THEN Effect(c) ELSE UNCHANGED <<live, applied>>
    /\ UNCHANGED <<auth, csrf, call, panel, cookie, opened, asked, losses>>

\* A tab that is not looked at here signs in, or signs out, with the same
\* cookie; its own calls are over in one step.
SignInElsewhere ==
    /\ opened < MaxSessions
    /\ opened' = opened + 1 /\ live' = live \cup {opened'} /\ cookie' = opened'
    /\ UNCHANGED <<auth, csrf, call, panel, asked, applied, losses, late>>

SignOutElsewhere ==
    /\ cookie \in live
    /\ live' = live \ {cookie} /\ cookie' = 0
    /\ UNCHANGED <<auth, csrf, call, panel, opened, asked, applied, losses, late>>

\* The absolute or the idle limit passes.
Expire ==
    /\ \E k \in live : live' = live \ {k}
    /\ UNCHANGED <<auth, csrf, call, panel, cookie, opened, asked, applied, losses, late>>

-----------------------------------------------------------------------------
(* What an answer does to its tab.                                         *)

Settle(t, s) == call' = [call EXCEPT ![t][s] = Idle]

\* checkSession.
CheckAnswered(t) ==
    LET c == call[t]["session"] IN
    /\ c.kind = "check" /\ c.answer # None
    /\ CASE c.answer = "ok"  -> SetState(t, "authenticated", c.csrf)
         [] c.answer = "401" -> SetState(t, "initial", 0)
         [] OTHER            -> SetState(t, "unreachable", 0)
    /\ Settle(t, "session")
    /\ UNCHANGED <<cookie, live, opened, asked, applied, losses, late>>

\* login; a failure leaves the tab as it is.
LoginAnswered(t) ==
    LET c == call[t]["session"] IN
    /\ c.kind = "login" /\ c.answer # None
    /\ IF c.answer = "ok"
         THEN SetState(t, "authenticated", c.csrf) /\ cookie' = c.csrf
         ELSE UNCHANGED <<auth, csrf, panel, cookie>>
    /\ Settle(t, "session")
    /\ UNCHANGED <<live, opened, asked, applied, losses, late>>

\* Mutant: whatever the answer, the tab says that the user is logged out.
LogoutAnsweredAnyhow(t) ==
    LET c == call[t]["session"] IN
    /\ c.kind = "logout" /\ c.answer # None
    /\ SetState(t, "logged-out", 0)
    /\ cookie' = IF c.answer = "ok" THEN 0 ELSE cookie
    /\ Settle(t, "session")
    /\ UNCHANGED <<live, opened, asked, applied, losses, late>>

\* logout; only a 401 is as good as a success.
LogoutAnswered(t) ==
    LET c == call[t]["session"] IN
    /\ c.kind = "logout" /\ c.answer # None
    /\ IF c.answer \in {"ok", "401"}
         THEN SetState(t, "logged-out", 0) ELSE UNCHANGED <<auth, csrf, panel>>
    /\ cookie' = IF c.answer = "ok" THEN 0 ELSE cookie
    /\ Settle(t, "session")
    /\ UNCHANGED <<live, opened, asked, applied, losses, late>>

\* load, armPoll and upsert: what the call brings may be pending, which sets the
\* timer; after an error it is not set again.
MayArm(t, c) ==
    \/ UNCHANGED panel
    \/ /\ panel[t] # "closed"
       /\ c.kind \in {"poll", "first", "replay"} /\ c.answer = "ok"
       /\ panel' = [panel EXCEPT ![t] = "armed"]

\* toExpiry, and the caller gets the error; or it gets what it asked for.
ToExpiry(t, s) ==
    /\ \/ call[t][s].answer = "401" /\ SetState(t, "expired", 0)
       \/ call[t][s].answer # "401" /\ MayArm(t, call[t][s]) /\ UNCHANGED <<auth, csrf>>
    /\ Settle(t, s)
    /\ UNCHANGED <<cookie, live, opened, asked, applied, losses, late>>

Continue(t, c) == call' = [call EXCEPT ![t]["mutation"] = c]

\* Mutant: a broken call is recovered from as well.
RecoverableOrBroken(answer) == answer \in {"invalid_csrf_token", "network"}

\* isCsrfError.
Recoverable(answer) == answer = "invalid_csrf_token"

\* The first attempt: a stale token asks for a fresh one.
FirstAnswered(t) ==
    LET c == call[t]["mutation"] IN
    /\ c.kind = "first" /\ c.answer # None
    /\ \/ ~Recoverable(c.answer) /\ ToExpiry(t, "mutation")
       \/ /\ Recoverable(c.answer)
          /\ Continue(t, Sent("refresh", 0, c.what))
          /\ UNCHANGED <<auth, csrf, panel, cookie, live, opened, asked, applied, losses, late>>

\* The fresh token becomes the tab's, and the call is replayed with it.
RefreshAnswered(t) ==
    LET c == call[t]["mutation"] IN
    /\ c.kind = "refresh" /\ c.answer # None
    /\ \/ c.answer # "ok" /\ ToExpiry(t, "mutation")
       \/ /\ c.answer = "ok"
          /\ SetState(t, "authenticated", c.csrf)
          /\ Continue(t, Sent("replay", c.csrf, c.what))
          /\ UNCHANGED <<cookie, live, opened, asked, applied, losses, late>>

\* The replay, and nothing after it.
ReplayAnswered(t) ==
    LET c == call[t]["mutation"] IN
    c.kind = "replay" /\ c.answer # None /\ ToExpiry(t, "mutation")

\* Mutant: a read's error goes to its panel and nowhere else.
ReadAnsweredQuietly(t) ==
    /\ call[t]["read"].answer # None
    /\ Settle(t, "read")
    /\ UNCHANGED <<auth, csrf, panel, cookie, live, opened, asked, applied, losses, late>>

ReadAnswered(t) == call[t]["read"].answer # None /\ ToExpiry(t, "read")

Receive(t) ==
    \/ CheckAnswered(t) \/ LoginAnswered(t) \/ LogoutAnswered(t)
    \/ FirstAnswered(t) \/ RefreshAnswered(t) \/ ReplayAnswered(t) \/ ReadAnswered(t)

User(t) ==
    \/ Recheck(t) \/ Login(t) \/ Logout(t) \/ OpenPanel(t) \/ Reload(t) \/ ClosePanel(t)
    \/ \E m \in Mutations : RunMutation(t, m)

Next ==
    \/ \E t \in Tabs : User(t) \/ RunRead(t) \/ Poll(t) \/ HandleLogin(t) \/ Receive(t)
    \/ \E t \in Tabs, s \in Slots : Handle(t, s) \/ Lose(t, s)
    \/ HandleLate \/ SignInElsewhere \/ SignOutElsewhere \/ Expire

\* A timer that is set fires, reads are answered or break, and their answers are
\* handled.  Nobody has to sign in or out, to mutate, or to open or load anything.
Spec ==
    /\ Init /\ [][Next]_vars
    /\ \A t \in Tabs :
          /\ WF_vars(Poll(t)) /\ WF_vars(ReadAnswered(t))
          /\ WF_vars(Handle(t, "read"))

-----------------------------------------------------------------------------

\* A mutation that the user asked for once is applied at most once, whatever
\* is lost, delayed, replayed or refused in between and however often another tab
\* signs in (runMutation: "an ambiguous failure must never be silently replayed").
AppliedAtMostOnce == \A m \in Mutations : applied[m] <= 1

\* A tab says "logged out" on the answer to its call only when the session that
\* the call went out with is really over (logout: "claiming the user is logged out
\* would just be a UI lie").
LogoutIsReal ==
    [][\A t \in Tabs :
          (/\ call[t]["session"].kind = "logout" /\ call'[t]["session"] = Idle
           /\ auth'[t] = "logged-out" /\ auth[t] # "logged-out")
          => call[t]["session"].token \notin live]_vars

\* A workspace whose materials are being polled does not stay in front of the user
\* as if nothing had happened once its session is over, whatever is in flight
\* (runRead: "a materials poll ticking in the background is often the very first
\* request to notice"), unless the network breaks a call or the user leaves the
\* partner.  A workspace with nothing to poll for does not notice.
DeadSessionSurfaces ==
    \A t \in Tabs, n \in 0 .. MaxLosses :
        (/\ auth[t] = "authenticated" /\ cookie \notin live
         /\ panel[t] = "armed" /\ losses = n)
        ~> (\/ auth[t] # "authenticated" \/ cookie \in live
            \/ panel[t] = "closed" \/ losses > n)
=============================================================================
