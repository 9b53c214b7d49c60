-------------------------- MODULE WebSessionProofs ---------------------------
(***************************************************************************)
(* A mutation is applied at most once and a shown logout happened, for any *)
(* number of tabs, mutations, sign-ins and lost calls.                     *)
(***************************************************************************)
EXTENDS WebSession, TLAPS

\* TypeOK but for the panels, on which no call depends.
CallsTyped ==
    /\ auth \in [Tabs -> {"checking", "unreachable", "initial", "expired",
                          "logged-out", "authenticated"}]
    /\ csrf \in [Tabs -> 0 .. MaxSessions]
    /\ call \in [Tabs -> [Slots -> Call]]
    /\ cookie \in 0 .. MaxSessions /\ live \subseteq 1 .. MaxSessions
    /\ opened \in 0 .. MaxSessions
    /\ asked \subseteq Mutations
    /\ applied \in [Mutations -> Nat]
    /\ losses \in 0 .. MaxLosses
    /\ late \subseteq Call

\* Sessions are numbered in the order in which they are opened, and nobody knows
\* one before it is.
SessionsKnown ==
    /\ cookie <= opened
    /\ \A k \in live : k <= opened
    /\ \A t \in Tabs : csrf[t] <= opened
    /\ \A t \in Tabs, s \in Slots : call[t][s].kind # "idle" =>
          /\ call[t][s].token \in 0 .. opened
          /\ call[t][s].csrf \in 0 .. opened

\* What a call of each slot may be.
SlotsKept ==
    \A t \in Tabs :
        /\ call[t]["session"].kind \in {"idle", "check", "login", "logout"}
        /\ call[t]["mutation"].kind \in {"idle", "first", "refresh", "replay"}
        /\ call[t]["read"].kind \in {"idle", "read", "poll"}
        /\ call[t]["session"].what = None /\ call[t]["read"].what = None
        /\ call[t]["mutation"].what = None <=> call[t]["mutation"].kind = "idle"
        /\ \A s \in Slots : call[t][s].kind = "idle" => call[t][s] = Idle

\* The server may have applied what the call asks for.
MayBeApplied(c) == c.kind \in {"first", "replay"} /\ c.answer \in {"ok", "network"}

\* A mutation has one call at a time; until the server has answered with a
\* success, or the network has broken the call, it is not applied.
OneCallPerMutation ==
    /\ \A m \in Mutations : applied[m] <= 1
    /\ \A m \in Mutations \ asked : applied[m] = 0
    /\ \A t \in Tabs : call[t]["mutation"].what # None =>
          /\ call[t]["mutation"].what \in asked
          /\ ~MayBeApplied(call[t]["mutation"]) => applied[call[t]["mutation"].what] = 0
    /\ \A t, u \in Tabs :
          t # u /\ call[t]["mutation"].what = call[u]["mutation"].what
              => call[t]["mutation"].what = None

\* A logout that was answered with success or 401 went out with a session that
\* is over.
LogoutsReal ==
    \A t \in Tabs :
        call[t]["session"].kind = "logout" /\ call[t]["session"].answer \in {"ok", "401"}
            => call[t]["session"].token \notin live

\* A request that is still on its way when its client has given it up is the only
\* one that may apply its mutation: the client asks for nothing more.
LateKept ==
    /\ \A c \in late : c.kind \in Changes
    /\ \A c \in late : c.what # None =>
          /\ c.what \in asked /\ applied[c.what] = 0
          /\ \A d \in late : d.what = c.what => d = c
          /\ \A t \in Tabs : call[t]["mutation"].what = c.what =>
                call[t]["mutation"].kind \in {"first", "replay"}
                   /\ call[t]["mutation"].answer = "network"

WebInv ==
    CallsTyped /\ SessionsKnown /\ SlotsKept /\ OneCallPerMutation /\ LogoutsReal /\ LateKept

-----------------------------------------------------------------------------
(* What a step does to the calls.                                          *)

\* The call of one slot becomes c, and every other one stays.
OnlySlot(t, s, c) ==
    /\ call' \in [Tabs -> [Slots -> Call]]
    /\ call'[t][s] = c
    /\ \A u \in Tabs, z \in Slots : u # t \/ z # s => call'[u][z] = call[u][z]

\* A call is replaced in its slot.
LEMMA SlotReplaced ==
    ASSUME call \in [Tabs -> [Slots -> Call]],
           NEW t \in Tabs, NEW s \in Slots, NEW c \in Call,
           call' = [call EXCEPT ![t][s] = c]
    PROVE  OnlySlot(t, s, c)
<1>1. [call[t] EXCEPT ![s] = c] \in [Slots -> Call]
    OBVIOUS
<1>2. call' = [call EXCEPT ![t] = [call[t] EXCEPT ![s] = c]]
    OBVIOUS
<1>. QED  BY <1>1, <1>2 DEF OnlySlot

\* The server, or the network, answers a call in its slot.
LEMMA SlotAnswered ==
    ASSUME call \in [Tabs -> [Slots -> Call]],
           NEW t \in Tabs, NEW s \in Slots, NEW a \in Verdicts,
           Answered(t, s, a)
    PROVE  OnlySlot(t, s, [call[t][s] EXCEPT !.answer = a])
<1>1. call[t][s] \in Call
    OBVIOUS
<1>2. [call[t][s] EXCEPT !.answer = a] \in Call
    BY <1>1 DEF Call
<1>3. call' = [call EXCEPT ![t][s] = [call[t][s] EXCEPT !.answer = a]]
    BY DEF Answered
<1>. QED  BY <1>2, <1>3, SlotReplaced

\* A success that also hands out a token.
LEMMA SlotSucceeded ==
    ASSUME call \in [Tabs -> [Slots -> Call]],
           NEW t \in Tabs, NEW s \in Slots, NEW k \in 0 .. MaxSessions,
           call' = [call EXCEPT ![t][s].answer = "ok", ![t][s].csrf = k]
    PROVE  OnlySlot(t, s, [call[t][s] EXCEPT !.answer = "ok", !.csrf = k])
<1>1. call[t][s] \in Call
    OBVIOUS
<1>2. [call[t][s] EXCEPT !.answer = "ok", !.csrf = k] \in Call
    BY <1>1 DEF Call, Verdicts
<1>3. call' = [call EXCEPT ![t][s] = [call[t][s] EXCEPT !.answer = "ok", !.csrf = k]]
    OBVIOUS
<1>. QED  BY <1>2, <1>3, SlotReplaced

LEMMA IdleIsCall == Idle \in Call /\ Idle.kind = "idle" /\ Idle.what = None /\ Idle.answer = None
BY DEF Idle, Call, CallKinds

\* What is sent is a call with the cookie of now and no answer yet.
LEMMA SentIsCall ==
    ASSUME cookie \in 0 .. MaxSessions, NEW kind \in CallKinds,
           NEW token \in 0 .. MaxSessions, NEW what \in Mutations \cup {None}
    PROVE  Sent(kind, token, what) \in Call
BY DEF Sent, Call

-----------------------------------------------------------------------------
(* What a step keeps by leaving things alone.                              *)

LEMMA MutationsAlone ==
    ASSUME OneCallPerMutation, UNCHANGED <<asked, applied>>,
           \A u \in Tabs : call'[u]["mutation"] = call[u]["mutation"]
    PROVE  OneCallPerMutation'
BY DEF OneCallPerMutation, MayBeApplied

LEMMA LogoutsAlone ==
    ASSUME LogoutsReal, live' \subseteq live,
           \A u \in Tabs : call'[u]["session"] = call[u]["session"]
    PROVE  LogoutsReal'
BY DEF LogoutsReal

\* Nothing is late for a mutation whose call is not yet broken.
LEMMA LateAlone ==
    ASSUME LateKept, late' = late, asked \subseteq asked',
           \A c \in late : c.what # None => applied'[c.what] = applied[c.what],
           \A u \in Tabs :
              \/ call'[u]["mutation"] = call[u]["mutation"]
              \/ call'[u]["mutation"].what = None
              \/ \A c \in late : c.what # call'[u]["mutation"].what
    PROVE  LateKept'
BY DEF LateKept

\* A call that replaces another, in a slot it may be in.
LEMMA SlotsAfter ==
    ASSUME SlotsKept, SessionsKnown, CallsTyped, NEW t \in Tabs, NEW s \in Slots, NEW c,
           OnlySlot(t, s, c),
           opened' \in Nat, opened <= opened',
           cookie' <= opened', \A k \in live' : k <= opened',
           \A u \in Tabs : csrf'[u] <= opened',
           s = "session"  => c.kind \in {"idle", "check", "login", "logout"} /\ c.what = None,
           s = "mutation" => c.kind \in {"idle", "first", "refresh", "replay"},
           s = "mutation" => (c.what = None <=> c.kind = "idle"),
           s = "read"     => c.kind \in {"idle", "read", "poll"} /\ c.what = None,
           c.kind = "idle" => c = Idle,
           c.kind # "idle" => c.token \in 0 .. opened' /\ c.csrf \in 0 .. opened'
    PROVE  SlotsKept' /\ SessionsKnown'
<1>1. ASSUME NEW u \in Tabs, NEW z \in Slots
      PROVE  \/ u = t /\ z = s /\ call'[u][z] = c
             \/ call'[u][z] = call[u][z]
    BY DEF OnlySlot
<1>2. SlotsKept'
    BY <1>1 DEF SlotsKept, Slots
<1>3. ASSUME NEW u \in Tabs, NEW z \in Slots, call'[u][z].kind # "idle"
      PROVE  call'[u][z].token \in 0 .. opened' /\ call'[u][z].csrf \in 0 .. opened'
    <2>1. CASE call'[u][z] = call[u][z]
        BY <1>3, <2>1 DEF SessionsKnown, CallsTyped
    <2>2. CASE call'[u][z] = c
        BY <1>3, <2>2
    <2>. QED  BY <1>1, <2>1, <2>2
<1>. QED  BY <1>2, <1>3 DEF SessionsKnown

\* The tab with the changed session call may claim no logout that did not happen.
LEMMA LogoutsAfter ==
    ASSUME LogoutsReal, NEW t \in Tabs, NEW c, OnlySlot(t, "session", c), live' \subseteq live,
           c.kind = "logout" /\ c.answer \in {"ok", "401"} => c.token \notin live'
    PROVE  LogoutsReal'
<1>1. \A u \in Tabs : \/ u = t /\ call'[u]["session"] = c
                      \/ call'[u]["session"] = call[u]["session"]
    BY DEF OnlySlot, Slots
<1>. QED  BY <1>1 DEF LogoutsReal

LEMMA OtherSlotsAlone ==
    ASSUME NEW t \in Tabs, NEW s \in Slots, NEW c, OnlySlot(t, s, c)
    PROVE  /\ s # "mutation" => \A u \in Tabs : call'[u]["mutation"] = call[u]["mutation"]
           /\ s # "session" => \A u \in Tabs : call'[u]["session"] = call[u]["session"]
BY DEF OnlySlot, Slots

-----------------------------------------------------------------------------
(* Every step keeps the invariant.                                         *)

Statuses == {"checking", "unreachable", "initial", "expired", "logged-out", "authenticated"}

\* A call that is no mutation is sent.
LEMMA SendKeeps ==
    ASSUME WebInv, NEW t \in Tabs, NEW s \in {"session", "read"}, NEW kind,
           NEW token \in 0 .. opened,
           s = "session" => kind \in {"check", "login", "logout"},
           s = "read" => kind \in {"read", "poll"},
           Send(t, s, Sent(kind, token, None)),
           auth' \in [Tabs -> Statuses],
           UNCHANGED <<csrf, cookie, live, opened, asked, applied, losses, late>>
    PROVE  WebInv'
<1>. DEFINE c == Sent(kind, token, None)
<1>1. c \in Call
    <2>1. token \in 0 .. MaxSessions /\ cookie \in 0 .. MaxSessions
        BY WebAssumption DEF WebInv, CallsTyped
    <2>2. kind \in CallKinds
        BY DEF CallKinds
    <2>. QED  BY <2>1, <2>2, SentIsCall
<1>2. OnlySlot(t, s, c)
    BY <1>1, SlotReplaced DEF WebInv, CallsTyped, Send, Slots
<1>3. c.kind = kind /\ c.what = None /\ c.token = cookie /\ c.csrf = token /\ c.answer = None
    BY DEF Sent
<1>. HIDE DEF c
<1>4. CallsTyped'
    BY <1>2 DEF WebInv, CallsTyped, OnlySlot, Statuses
<1>5. cookie \in 0 .. opened /\ opened \in Nat
    BY DEF WebInv, CallsTyped, SessionsKnown
<1>6. SlotsKept' /\ SessionsKnown'
    <2>1. /\ cookie' <= opened' /\ \A k \in live' : k <= opened'
          /\ \A u \in Tabs : csrf'[u] <= opened'
        BY DEF WebInv, SessionsKnown
    <2>2. s \in Slots /\ opened' \in Nat /\ opened <= opened'
        BY <1>5 DEF Slots
    <2>3. c.token \in 0 .. opened' /\ c.csrf \in 0 .. opened'
        BY <1>3, <1>5
    <2>4. /\ c.kind # "idle" /\ s # "mutation"
          /\ s = "session" => c.kind \in {"idle", "check", "login", "logout"}
          /\ s = "read" => c.kind \in {"idle", "read", "poll"}
        BY <1>3
    <2>. QED  BY <1>2, <1>3, <2>1, <2>2, <2>3, <2>4, SlotsAfter DEF WebInv
<1>7. OneCallPerMutation'
    BY <1>2, OtherSlotsAlone, MutationsAlone DEF WebInv, Slots
<1>8. LogoutsReal'
    <2>1. CASE s = "session"
        <3>1. None \notin {"ok", "401"}
            BY WebAssumption DEF Verdicts
        <3>. QED  BY <1>2, <1>3, <2>1, <3>1, LogoutsAfter DEF WebInv
    <2>2. CASE s = "read"
        BY <1>2, <2>2, OtherSlotsAlone, LogoutsAlone DEF WebInv, Slots
    <2>. QED  BY <2>1, <2>2
<1>9. LateKept'
    BY <1>2, OtherSlotsAlone, LateAlone DEF WebInv, Slots
<1>. QED  BY <1>4, <1>6, <1>7, <1>8, <1>9 DEF WebInv

\* An answer has been dealt with, and nothing follows.
LEMMA SettleKeeps ==
    ASSUME WebInv, NEW t \in Tabs, NEW s \in Slots, Settle(t, s),
           auth' \in [Tabs -> Statuses], csrf' \in [Tabs -> 0 .. opened],
           cookie' \in 0 .. opened, UNCHANGED <<live, opened, asked, applied, losses, late>>
    PROVE  WebInv'
<1>1. OnlySlot(t, s, Idle)
    BY IdleIsCall, SlotReplaced DEF WebInv, CallsTyped, Settle
<1>2. opened \in 0 .. MaxSessions /\ MaxSessions \in Nat
    BY WebAssumption DEF WebInv, CallsTyped
<1>3. CallsTyped'
    <2>1. csrf' \in [Tabs -> 0 .. MaxSessions] /\ cookie' \in 0 .. MaxSessions
        BY <1>2
    <2>. QED  BY <1>1, <2>1 DEF WebInv, CallsTyped, OnlySlot, Statuses
<1>4. SlotsKept' /\ SessionsKnown'
    <2>1. /\ cookie' <= opened' /\ \A k \in live' : k <= opened'
          /\ \A u \in Tabs : csrf'[u] <= opened'
          /\ opened' \in Nat /\ opened <= opened'
        BY <1>2 DEF WebInv, SessionsKnown
    <2>. QED  BY <1>1, <2>1, IdleIsCall, SlotsAfter DEF WebInv
<1>5. OneCallPerMutation'
    <2>1. CASE s # "mutation"
        BY <1>1, <2>1, OtherSlotsAlone, MutationsAlone DEF WebInv
    <2>2. CASE s = "mutation"
        <3>1. \A u \in Tabs : \/ call'[u]["mutation"] = Idle
                               \/ call'[u]["mutation"] = call[u]["mutation"]
            BY <1>1, <2>2 DEF OnlySlot, Slots
        <3>. QED  BY <3>1, IdleIsCall DEF WebInv, OneCallPerMutation, MayBeApplied
    <2>. QED  BY <2>1, <2>2
<1>6. LogoutsReal'
    <2>1. CASE s = "session"
        BY <1>1, <2>1, IdleIsCall, LogoutsAfter DEF WebInv
    <2>2. CASE s # "session"
        BY <1>1, <2>2, OtherSlotsAlone, LogoutsAlone DEF WebInv
    <2>. QED  BY <2>1, <2>2
<1>7. LateKept'
    <2>1. \A u \in Tabs : \/ call'[u]["mutation"] = Idle
                           \/ call'[u]["mutation"] = call[u]["mutation"]
        BY <1>1 DEF OnlySlot, Slots
    <2>. QED  BY <2>1, IdleIsCall, LateAlone DEF WebInv
<1>. QED  BY <1>3, <1>4, <1>5, <1>6, <1>7 DEF WebInv

\* A call is refused, or broken on its way.
LEMMA RefusalKeeps ==
    ASSUME WebInv, NEW t \in Tabs, NEW s \in Slots,
           NEW a \in {"401", "invalid_csrf_token", "network"},
           Answered(t, s, a), call[t][s] # Idle,
           a # "network" => call[t][s].answer = None,
           a = "401" => call[t][s].token \notin live,
           losses' \in 0 .. MaxLosses,
           \/ late' = late
           \/ /\ a = "network" /\ call[t][s].answer = None /\ call[t][s].kind \in Changes
              /\ late' = late \cup {call[t][s]},
           UNCHANGED <<auth, csrf, cookie, live, opened, asked, applied>>
    PROVE  WebInv'
<1>. DEFINE c == [call[t][s] EXCEPT !.answer = a]
<1>1. OnlySlot(t, s, c)
    BY SlotAnswered DEF WebInv, CallsTyped, Verdicts
<1>2. /\ c.kind = call[t][s].kind /\ c.token = call[t][s].token /\ c.csrf = call[t][s].csrf
      /\ c.what = call[t][s].what /\ c.answer = a
    <2>1. call[t][s] \in Call
        BY DEF WebInv, CallsTyped
    <2>. QED  BY <2>1 DEF Call
<1>3. c.kind # "idle"
    BY <1>2 DEF WebInv, SlotsKept
<1>. HIDE DEF c
<1>4. CallsTyped'
    <2>1. late' \subseteq Call
        BY DEF WebInv, CallsTyped
    <2>. QED  BY <1>1, <2>1 DEF WebInv, CallsTyped, OnlySlot
<1>5. SlotsKept' /\ SessionsKnown'
    <2>1. /\ cookie' <= opened' /\ \A k \in live' : k <= opened'
          /\ \A u \in Tabs : csrf'[u] <= opened'
          /\ opened' \in Nat /\ opened <= opened'
        BY DEF WebInv, CallsTyped, SessionsKnown
    <2>2. c.token \in 0 .. opened' /\ c.csrf \in 0 .. opened'
        BY <1>2, <1>3 DEF WebInv, SessionsKnown
    <2>3. /\ s = "session" => c.kind \in {"idle", "check", "login", "logout"} /\ c.what = None
          /\ s = "mutation" => c.kind \in {"idle", "first", "refresh", "replay"}
          /\ s = "mutation" => (c.what = None <=> c.kind = "idle")
          /\ s = "read" => c.kind \in {"idle", "read", "poll"} /\ c.what = None
        BY <1>2 DEF WebInv, SlotsKept
    <2>. QED  BY <1>1, <1>3, <2>1, <2>2, <2>3, SlotsAfter DEF WebInv
<1>6. OneCallPerMutation'
    <2>1. CASE s # "mutation"
        BY <1>1, <2>1, OtherSlotsAlone, MutationsAlone DEF WebInv
    <2>2. CASE s = "mutation"
        <3>1. \A u \in Tabs : \/ u = t /\ call'[u]["mutation"] = c
                              \/ call'[u]["mutation"] = call[u]["mutation"]
            BY <1>1, <2>2 DEF OnlySlot, Slots
        <3>2. ~MayBeApplied(c) => ~MayBeApplied(call[t]["mutation"])
            BY <1>2, <2>2, WebAssumption DEF MayBeApplied, Verdicts
        <3>. QED  BY <1>2, <2>2, <3>1, <3>2 DEF WebInv, OneCallPerMutation, MayBeApplied
    <2>. QED  BY <2>1, <2>2
<1>7. LogoutsReal'
    <2>1. CASE s = "session"
        BY <1>1, <1>2, <2>1, LogoutsAfter DEF WebInv
    <2>2. CASE s # "session"
        BY <1>1, <2>2, OtherSlotsAlone, LogoutsAlone DEF WebInv
    <2>. QED  BY <2>1, <2>2
<1>8. LateKept'
    <2>1. \A u \in Tabs : \/ u = t /\ s = "mutation" /\ call'[u]["mutation"] = c
                          \/ call'[u]["mutation"] = call[u]["mutation"]
        BY <1>1 DEF OnlySlot, Slots
    <2>2. s # "mutation" => \A u \in Tabs : call'[u]["mutation"] = call[u]["mutation"]
        BY <2>1
    <2>3. CASE a # "network"
        <3>1. ASSUME NEW d \in late, s = "mutation", d.what # None PROVE d.what # c.what
            BY <1>2, <2>3, <3>1, WebAssumption DEF WebInv, LateKept, Verdicts
        <3>2. \A u \in Tabs : \/ call'[u]["mutation"] = call[u]["mutation"]
                               \/ call'[u]["mutation"].what = None
                               \/ \A d \in late : d.what # call'[u]["mutation"].what
            BY <2>1, <3>1
        <3>. QED  BY <2>3, <3>2, LateAlone DEF WebInv
    <2>4. CASE late' = late /\ a = "network"
        <3>1. ASSUME NEW d \in late, s = "mutation", d.what # None, d.what = c.what
              PROVE  c.kind \in {"first", "replay"} /\ c.answer = "network"
            BY <1>2, <2>4, <3>1 DEF WebInv, LateKept
        <3>. QED  BY <2>1, <2>4, <3>1 DEF WebInv, LateKept
    <2>5. CASE /\ a = "network" /\ call[t][s].answer = None /\ call[t][s].kind \in Changes
               /\ late' = late \cup {call[t][s]}
        <3>. DEFINE b == call[t][s]
        <3>1. s # "mutation" => b.what = None
            BY DEF WebInv, SlotsKept, Slots
        <3>2. s = "mutation" => b.kind \in {"first", "replay"}
            BY <2>5 DEF WebInv, SlotsKept, Changes
        <3>3. b.what # None =>
                 /\ s = "mutation" /\ b.what \in asked /\ applied[b.what] = 0
                 /\ \A d \in late : d.what # b.what
                 /\ \A u \in Tabs : u # t => call[u]["mutation"].what # b.what
            <4>1. ASSUME b.what # None PROVE s = "mutation"
                BY <3>1, <4>1
            <4>2. ASSUME b.what # None
                  PROVE  b.what \in asked /\ applied[b.what] = 0
                <5>1. ~MayBeApplied(call[t]["mutation"])
                    BY <2>5, <4>1, <4>2, WebAssumption DEF MayBeApplied, Verdicts
                <5>. QED  BY <4>1, <4>2, <5>1 DEF WebInv, OneCallPerMutation
            <4>3. ASSUME b.what # None, NEW d \in late PROVE d.what # b.what
                BY <2>5, <4>1, <4>3, WebAssumption DEF WebInv, LateKept, Verdicts
            <4>4. ASSUME b.what # None, NEW u \in Tabs, u # t
                  PROVE  call[u]["mutation"].what # b.what
                BY <4>1, <4>4 DEF WebInv, OneCallPerMutation
            <4>. QED  BY <4>1, <4>2, <4>3, <4>4
        <3>4. c.what = b.what /\ c.kind = b.kind /\ c.answer = "network"
            BY <1>2, <2>5
        <3>5. late' = late \cup {b} /\ b.kind \in Changes
            BY <2>5
        <3>8. s = "mutation" => call'[t]["mutation"] = c
            BY <1>1 DEF OnlySlot
        <3>. HIDE DEF b
        <3>6. \A d \in late' : d.kind \in Changes
            BY <3>5 DEF WebInv, LateKept
        <3>7. ASSUME NEW d \in late', d.what # None
              PROVE  /\ d.what \in asked' /\ applied'[d.what] = 0
                     /\ \A e \in late' : e.what = d.what => e = d
                     /\ \A u \in Tabs : call'[u]["mutation"].what = d.what =>
                           call'[u]["mutation"].kind \in {"first", "replay"}
                              /\ call'[u]["mutation"].answer = "network"
            <4>1. CASE d = b
                <5>1. s = "mutation" /\ call'[t]["mutation"] = c
                    BY <3>3, <3>7, <3>8, <4>1
                <5>2. \A u \in Tabs : u # t => call'[u]["mutation"].what # b.what
                    BY <2>1, <3>3, <3>7, <4>1
                <5>3. \A e \in late' : e.what = b.what => e = b
                    BY <3>3, <3>5, <3>7, <4>1
                <5>. QED  BY <3>2, <3>3, <3>4, <3>7, <4>1, <5>1, <5>2, <5>3
            <4>2. CASE d \in late
                BY <2>1, <3>2, <3>3, <3>4, <3>5, <3>7, <4>2 DEF WebInv, LateKept
            <4>. QED  BY <3>5, <4>1, <4>2
        <3>. QED  BY <3>6, <3>7 DEF LateKept
    <2>. QED  BY <2>3, <2>4, <2>5
<1>. QED  BY <1>4, <1>5, <1>6, <1>7, <1>8 DEF WebInv

\* The third case of Handle: the work is done.
Done(t, s) ==
    LET c == call[t][s] IN
    /\ c.token \in live /\ (c.kind \in Changes => c.csrf = c.token)
    /\ call' = [call EXCEPT ![t][s].answer = "ok", ![t][s].csrf = c.token]
    /\ Effect(c)

\* A call succeeds.  A mutation that is applied here had not been: its call was
\* unanswered, and no other call carries it.
LEMMA SuccessKeeps ==
    ASSUME WebInv, NEW t \in Tabs, NEW s \in Slots, Done(t, s),
           call[t][s] # Idle, call[t][s].answer = None,
           UNCHANGED <<auth, csrf, cookie, opened, asked, losses, late>>
    PROVE  WebInv'
<1>. DEFINE d == call[t][s]
            c == [call[t][s] EXCEPT !.answer = "ok", !.csrf = call[t][s].token]
<1>1. d \in Call /\ d.kind # "idle" /\ d.token \in 0 .. opened /\ d.token \in 0 .. MaxSessions
    <2>1. d \in Call /\ d.kind # "idle"
        BY DEF WebInv, CallsTyped, SlotsKept
    <2>2. d.token \in 0 .. opened /\ opened \in 0 .. MaxSessions /\ MaxSessions \in Nat
        BY <2>1, WebAssumption DEF WebInv, SessionsKnown, CallsTyped
    <2>. QED  BY <2>1, <2>2
<1>2. OnlySlot(t, s, c)
    BY <1>1, SlotSucceeded DEF WebInv, CallsTyped, Done
<1>3. /\ c.kind = d.kind /\ c.token = d.token /\ c.csrf = d.token
      /\ c.what = d.what /\ c.answer = "ok"
    BY <1>1 DEF Call
<1>4. live' \subseteq live /\ (c.kind = "logout" => c.token \notin live')
    BY <1>3 DEF Done, Effect
<1>5. /\ s = "session" => c.kind \in {"idle", "check", "login", "logout"} /\ c.what = None
      /\ s = "mutation" => c.kind \in {"idle", "first", "refresh", "replay"}
      /\ s = "mutation" => (c.what = None <=> c.kind = "idle")
      /\ s = "read" => c.kind \in {"idle", "read", "poll"} /\ c.what = None
    BY <1>3 DEF WebInv, SlotsKept
<1>6. /\ c.what = None => applied' = applied
      /\ c.kind \notin {"first", "replay"} => applied' = applied
    BY <1>3, <1>5 DEF Done, Effect, Changes, Slots
<1>7. c.what # None /\ c.kind \in {"first", "replay"} =>
         applied' = [applied EXCEPT ![c.what] = @ + 1]
    BY <1>3 DEF Done, Effect, Changes
<1>8. d.what = c.what /\ d.kind = c.kind /\ d.answer = None /\ c.what \in Mutations \cup {None}
    BY <1>1, <1>3 DEF Call
<1>. HIDE DEF c, d
<1>9. CallsTyped'
    <2>1. applied' \in [Mutations -> Nat]
        BY <1>6, <1>7, <1>8 DEF WebInv, CallsTyped
    <2>. QED  BY <1>2, <1>4, <2>1 DEF WebInv, CallsTyped, OnlySlot
<1>10. SlotsKept' /\ SessionsKnown'
    <2>1. /\ cookie' <= opened' /\ \A k \in live' : k <= opened'
          /\ \A u \in Tabs : csrf'[u] <= opened'
          /\ opened' \in Nat /\ opened <= opened'
        BY <1>4 DEF WebInv, CallsTyped, SessionsKnown
    <2>. QED  BY <1>1, <1>2, <1>3, <1>5, <2>1, SlotsAfter DEF WebInv
<1>11. OneCallPerMutation'
    <2>1. CASE s # "mutation"
        BY <1>2, <1>5, <1>6, <2>1, OtherSlotsAlone, MutationsAlone DEF WebInv, Slots
    <2>2. CASE s = "mutation"
        <3>1. /\ call'[t]["mutation"] = c
              /\ \A u \in Tabs : u # t => call'[u]["mutation"] = call[u]["mutation"]
            <4>1. call'[t]["mutation"] = c
                BY <1>2, <2>2 DEF OnlySlot
            <4>2. \A u \in Tabs : u # t => call'[u]["mutation"] = call[u]["mutation"]
                BY <1>2 DEF OnlySlot, Slots
            <4>. QED  BY <4>1, <4>2
        <3>2. d = call[t]["mutation"]
            BY <2>2 DEF d
        <3>3. CASE c.kind = "refresh"
            BY <1>6, <1>8, <2>2, <3>1, <3>2, <3>3 DEF WebInv, OneCallPerMutation, MayBeApplied
        <3>4. CASE c.kind \in {"first", "replay"}
            <4>1. c.what \in Mutations /\ c.what \in asked /\ applied[c.what] = 0
                <5>1. c.what # None
                    BY <1>5, <2>2, <3>4
                <5>2. ~MayBeApplied(d)
                    BY <1>8, WebAssumption DEF MayBeApplied, Verdicts
                <5>. QED  BY <1>8, <3>2, <5>1, <5>2 DEF WebInv, OneCallPerMutation
            <4>2. /\ applied'[c.what] = 1
                  /\ \A m \in Mutations : m # c.what => applied'[m] = applied[m]
                BY <1>7, <3>4, <4>1, WebAssumption DEF WebInv, CallsTyped
            <4>3. \A u \in Tabs : u # t => call[u]["mutation"].what # c.what
                BY <1>8, <3>2, <4>1, WebAssumption DEF WebInv, OneCallPerMutation
            <4>4. MayBeApplied(c)
                BY <1>3, <3>4 DEF MayBeApplied
            <4>5. \A u \in Tabs : call[u]["mutation"].what \in Mutations \cup {None}
                BY DEF WebInv, CallsTyped, Slots, Call
            <4>6. \A m \in Mutations : applied'[m] <= 1
                BY <4>2 DEF WebInv, OneCallPerMutation
            <4>7. \A m \in Mutations \ asked' : applied'[m] = 0
                BY <4>1, <4>2 DEF WebInv, OneCallPerMutation
            <4>8. ASSUME NEW u \in Tabs, call'[u]["mutation"].what # None
                  PROVE  /\ call'[u]["mutation"].what \in asked'
                         /\ ~MayBeApplied(call'[u]["mutation"])
                               => applied'[call'[u]["mutation"].what] = 0
                BY <3>1, <4>1, <4>2, <4>3, <4>4, <4>5, <4>8
                   DEF WebInv, OneCallPerMutation, MayBeApplied
            <4>9. \A u, v \in Tabs :
                     u # v /\ call'[u]["mutation"].what = call'[v]["mutation"].what
                         => call'[u]["mutation"].what = None
                BY <3>1, <4>3 DEF WebInv, OneCallPerMutation
            <4>. QED  BY <4>6, <4>7, <4>8, <4>9 DEF OneCallPerMutation, MayBeApplied
        <3>. QED  BY <1>1, <1>3, <1>5, <2>2, <3>3, <3>4
    <2>. QED  BY <2>1, <2>2
<1>12. LogoutsReal'
    <2>1. CASE s = "session"
        BY <1>2, <1>4, <2>1, LogoutsAfter DEF WebInv
    <2>2. CASE s # "session"
        BY <1>2, <1>4, <2>2, OtherSlotsAlone, LogoutsAlone DEF WebInv
    <2>. QED  BY <2>1, <2>2
<1>13. LateKept'
    <2>1. \A u \in Tabs : \/ u = t /\ s = "mutation" /\ call'[u]["mutation"] = c
                          \/ call'[u]["mutation"] = call[u]["mutation"]
        BY <1>2 DEF OnlySlot, Slots
    <2>2. d = call[t][s]
        BY DEF d
    <2>3. ASSUME NEW e \in late, e.what # None PROVE s = "mutation" => e.what # c.what
        BY <1>8, <2>2, <2>3, WebAssumption DEF WebInv, LateKept, Verdicts
    <2>4. ASSUME NEW e \in late, e.what # None PROVE applied'[e.what] = applied[e.what]
        <3>1. CASE s = "mutation"
            <4>1. e.what # c.what /\ e.what \in Mutations
                BY <2>3, <2>4, <3>1 DEF WebInv, LateKept, CallsTyped
            <4>. QED  BY <1>6, <1>7, <4>1 DEF WebInv, CallsTyped
        <3>2. CASE s # "mutation"
            BY <1>5, <1>6, <3>2 DEF Slots
        <3>. QED  BY <3>1, <3>2
    <2>5. \A u \in Tabs : \/ call'[u]["mutation"] = call[u]["mutation"]
                          \/ call'[u]["mutation"].what = None
                          \/ \A e \in late : e.what # call'[u]["mutation"].what
        BY <2>1, <2>3
    <2>. QED  BY <2>4, <2>5, LateAlone DEF WebInv
<1>. QED  BY <1>9, <1>10, <1>11, <1>12, <1>13 DEF WebInv

\* The first attempt, the refresh or the replay of a mutation is sent.  The
\* mutation has not been applied, and no other tab has a call for it.
LEMMA MutationSent ==
    ASSUME WebInv, NEW t \in Tabs, NEW kind \in {"first", "refresh", "replay"},
           NEW token \in 0 .. opened, NEW m \in Mutations,
           call' = [call EXCEPT ![t]["mutation"] = Sent(kind, token, m)],
           m \in asked', asked \subseteq asked', asked' \subseteq Mutations,
           applied[m] = 0,
           \A u \in Tabs : u # t => call[u]["mutation"].what # m,
           \A c \in late : c.what # m,
           auth' \in [Tabs -> Statuses], csrf' \in [Tabs -> 0 .. opened],
           UNCHANGED <<cookie, live, opened, applied, losses, late>>
    PROVE  WebInv'
<1>. DEFINE c == Sent(kind, token, m)
<1>1. opened \in 0 .. MaxSessions /\ MaxSessions \in Nat /\ cookie \in 0 .. MaxSessions
    BY WebAssumption DEF WebInv, CallsTyped
<1>2. c \in Call
    <2>1. token \in 0 .. MaxSessions
        BY <1>1
    <2>2. kind \in CallKinds
        BY DEF CallKinds
    <2>. QED  BY <1>1, <2>1, <2>2, SentIsCall
<1>3. OnlySlot(t, "mutation", c)
    BY <1>2, SlotReplaced DEF WebInv, CallsTyped, Slots
<1>4. c.kind = kind /\ c.what = m /\ c.token = cookie /\ c.csrf = token /\ c.answer = None
    BY DEF Sent
<1>. HIDE DEF c
<1>5. CallsTyped'
    <2>1. csrf' \in [Tabs -> 0 .. MaxSessions]
        BY <1>1
    <2>. QED  BY <1>3, <2>1 DEF WebInv, CallsTyped, OnlySlot, Statuses
<1>6. SlotsKept' /\ SessionsKnown'
    <2>0. \A u \in Tabs : csrf'[u] \in 0 .. opened
        OBVIOUS
    <2>1. /\ cookie' <= opened' /\ \A k \in live' : k <= opened'
          /\ \A u \in Tabs : csrf'[u] <= opened'
          /\ opened' \in Nat /\ opened <= opened'
        BY <1>1, <2>0 DEF WebInv, SessionsKnown
    <2>2. c.token \in 0 .. opened' /\ c.csrf \in 0 .. opened'
        BY <1>1, <1>4 DEF WebInv, SessionsKnown
    <2>3. c.what # None /\ c.kind # "idle"
        BY <1>4, WebAssumption
    <2>4. "mutation" \in Slots /\ c.kind \in {"idle", "first", "refresh", "replay"}
        BY <1>4 DEF Slots
    <2>. QED  BY <1>3, <2>1, <2>2, <2>3, <2>4, SlotsAfter DEF WebInv
<1>7. OneCallPerMutation'
    <2>1. call'[t]["mutation"] = c
        BY <1>3 DEF OnlySlot
    <2>2. \A u \in Tabs : u # t => call'[u]["mutation"] = call[u]["mutation"]
        BY <1>3 DEF OnlySlot, Slots
    <2>3. /\ \A n \in Mutations : applied'[n] <= 1
          /\ \A n \in Mutations \ asked' : applied'[n] = 0
        BY DEF WebInv, OneCallPerMutation
    <2>4. ASSUME NEW u \in Tabs, call'[u]["mutation"].what # None
          PROVE  /\ call'[u]["mutation"].what \in asked'
                 /\ ~MayBeApplied(call'[u]["mutation"])
                       => applied'[call'[u]["mutation"].what] = 0
        <3>1. CASE u = t
            BY <1>4, <2>1, <3>1
        <3>2. CASE u # t
            BY <2>2, <2>4, <3>2 DEF WebInv, OneCallPerMutation, MayBeApplied
        <3>. QED  BY <3>1, <3>2
    <2>5. \A u, v \in Tabs :
             u # v /\ call'[u]["mutation"].what = call'[v]["mutation"].what
                 => call'[u]["mutation"].what = None
        BY <1>4, <2>1, <2>2 DEF WebInv, OneCallPerMutation
    <2>. QED  BY <2>3, <2>4, <2>5 DEF OneCallPerMutation, MayBeApplied
<1>8. LogoutsReal'
    <2>1. "mutation" \in Slots /\ "mutation" # "session"
        BY DEF Slots
    <2>. QED  BY <1>3, <2>1, OtherSlotsAlone, LogoutsAlone DEF WebInv
<1>9. LateKept'
    <2>1. \A u \in Tabs : call'[u]["mutation"] = c \/ call'[u]["mutation"] = call[u]["mutation"]
        BY <1>3 DEF OnlySlot, Slots
    <2>. QED  BY <1>4, <2>1, LateAlone DEF WebInv
<1>. QED  BY <1>5, <1>6, <1>7, <1>8, <1>9 DEF WebInv

\* A session is opened under a number nobody knows yet.
LEMMA SessionOpened ==
    ASSUME WebInv, opened < MaxSessions
    PROVE  /\ opened + 1 \in 1 .. MaxSessions /\ opened \in Nat
           /\ live \cup {opened + 1} \subseteq 1 .. MaxSessions
           /\ \A k \in live \cup {opened + 1} : k <= opened + 1
           /\ cookie <= opened + 1 /\ \A u \in Tabs : csrf[u] <= opened + 1
<1>1. opened \in Nat /\ MaxSessions \in Nat /\ live \subseteq 1 .. MaxSessions
    BY WebAssumption DEF WebInv, CallsTyped
<1>2. cookie \in Nat /\ \A u \in Tabs : csrf[u] \in Nat
    BY <1>1 DEF WebInv, CallsTyped
<1>3. cookie <= opened /\ (\A k \in live : k <= opened) /\ \A u \in Tabs : csrf[u] <= opened
    BY DEF WebInv, SessionsKnown
<1>. QED  BY <1>1, <1>2, <1>3

\* A logout that is known to be real stays so when a session is opened.
LEMMA LogoutsOld ==
    ASSUME WebInv, NEW u \in Tabs, call[u]["session"].kind = "logout",
           call[u]["session"].answer \in {"ok", "401"}
    PROVE  call[u]["session"].token \notin live \cup {opened + 1}
<1>1. call[u]["session"].token \in 0 .. opened /\ opened \in Nat
    BY WebAssumption DEF WebInv, SessionsKnown, CallsTyped, Slots
<1>. QED  BY <1>1 DEF WebInv, LogoutsReal

LEMMA HandleLoginKeeps ==
    ASSUME WebInv, NEW t \in Tabs, HandleLogin(t)
    PROVE  WebInv'
<1>. DEFINE d == call[t]["session"]
            c == [call[t]["session"] EXCEPT !.answer = "ok", !.csrf = opened + 1]
<1>1. /\ opened' = opened + 1 /\ live' = live \cup {opened + 1} /\ d.kind = "login"
      /\ call' = [call EXCEPT ![t]["session"].answer = "ok", ![t]["session"].csrf = opened + 1]
      /\ UNCHANGED <<auth, csrf, cookie, asked, applied, losses, late>>
      /\ opened < MaxSessions
    BY DEF HandleLogin
<1>2. opened + 1 \in 0 .. MaxSessions
    BY <1>1, SessionOpened, WebAssumption
<1>3. OnlySlot(t, "session", c)
    BY <1>1, <1>2, SlotSucceeded DEF WebInv, CallsTyped, Slots
<1>4. c.kind = "login" /\ c.what = None /\ c.csrf = opened + 1 /\ c.token \in 0 .. opened
    <2>1. d \in Call
        BY DEF WebInv, CallsTyped, Slots
    <2>2. d.what = None /\ d.token \in 0 .. opened
        BY <1>1 DEF WebInv, SlotsKept, SessionsKnown, Slots
    <2>. QED  BY <1>1, <2>1, <2>2 DEF Call
<1>. HIDE DEF c, d
<1>5. CallsTyped'
    <2>1. live' \subseteq 1 .. MaxSessions
        BY <1>1, SessionOpened
    <2>. QED  BY <1>1, <1>2, <1>3, <2>1 DEF WebInv, CallsTyped, OnlySlot
<1>6. SlotsKept' /\ SessionsKnown'
    <2>1. /\ cookie' <= opened' /\ \A k \in live' : k <= opened'
          /\ \A u \in Tabs : csrf'[u] <= opened'
          /\ opened' \in Nat /\ opened <= opened'
        BY <1>1, SessionOpened
    <2>2. c.token \in 0 .. opened' /\ c.csrf \in 0 .. opened'
        BY <1>1, <1>4, SessionOpened
    <2>3. "session" \in Slots
        BY DEF Slots
    <2>. QED  BY <1>3, <1>4, <2>1, <2>2, <2>3, SlotsAfter DEF WebInv
<1>7. OneCallPerMutation'
    <2>1. "session" \in Slots /\ "mutation" # "session"
        BY DEF Slots
    <2>. QED  BY <1>1, <1>3, <2>1, OtherSlotsAlone, MutationsAlone DEF WebInv
<1>8. LogoutsReal'
    <2>1. \A u \in Tabs : u # t => call'[u]["session"] = call[u]["session"]
        BY <1>3 DEF OnlySlot, Slots
    <2>2. call'[t]["session"].kind = "login"
        BY <1>3, <1>4 DEF OnlySlot
    <2>3. SUFFICES ASSUME NEW u \in Tabs, call'[u]["session"].kind = "logout",
                          call'[u]["session"].answer \in {"ok", "401"}
                   PROVE  call'[u]["session"].token \notin live'
        BY DEF LogoutsReal
    <2>4. u # t
        BY <2>2, <2>3
    <2>5. call'[u]["session"] = call[u]["session"]
        BY <2>1, <2>4
    <2>6. call[u]["session"].token \notin live \cup {opened + 1}
        BY <2>3, <2>5, LogoutsOld
    <2>7. live' = live \cup {opened + 1}
        BY <1>1
    <2>. QED  BY <2>5, <2>6, <2>7
<1>9. LateKept'
    <2>1. "session" \in Slots /\ "mutation" # "session"
        BY DEF Slots
    <2>. QED  BY <1>1, <1>3, <2>1, OtherSlotsAlone, LateAlone DEF WebInv
<1>. QED  BY <1>5, <1>6, <1>7, <1>8, <1>9 DEF WebInv

\* Another tab signs in or out, or a session runs out: no call of these tabs is
\* touched.
LEMMA ElsewhereKeeps ==
    ASSUME WebInv, SignInElsewhere \/ SignOutElsewhere \/ Expire
    PROVE  WebInv'
<1>1. UNCHANGED <<auth, csrf, call, asked, applied, losses, late>>
    BY DEF SignInElsewhere, SignOutElsewhere, Expire
<1>2. OneCallPerMutation' /\ SlotsKept' /\ LateKept'
    BY <1>1, MutationsAlone, LateAlone DEF WebInv, SlotsKept
<1>3. CASE SignInElsewhere
    <2>1. /\ opened' = opened + 1 /\ live' = live \cup {opened + 1} /\ cookie' = opened + 1
          /\ opened < MaxSessions
        BY <1>3 DEF SignInElsewhere
    <2>2. CallsTyped'
        <3>1. /\ live' \subseteq 1 .. MaxSessions /\ opened' \in 0 .. MaxSessions
              /\ cookie' \in 0 .. MaxSessions
            BY <2>1, SessionOpened, WebAssumption
        <3>. QED  BY <1>1, <3>1 DEF WebInv, CallsTyped
    <2>3. SessionsKnown'
        <3>1. /\ cookie' <= opened' /\ \A k \in live' : k <= opened'
              /\ \A u \in Tabs : csrf'[u] <= opened'
            BY <1>1, <2>1, SessionOpened
        <3>2. \A i \in 0 .. opened : i \in 0 .. opened'
            BY <2>1, SessionOpened
        <3>. QED  BY <1>1, <3>1, <3>2 DEF WebInv, SessionsKnown
    <2>4. LogoutsReal'
        BY <1>1, <2>1, LogoutsOld DEF LogoutsReal
    <2>. QED  BY <1>2, <2>2, <2>3, <2>4 DEF WebInv
<1>4. CASE SignOutElsewhere \/ Expire
    <2>1. live' \subseteq live /\ cookie' \in {0, cookie} /\ opened' = opened
        BY <1>4 DEF SignOutElsewhere, Expire
    <2>2. CallsTyped'
        BY <1>1, <2>1, WebAssumption DEF WebInv, CallsTyped
    <2>3. SessionsKnown'
        BY <1>1, <2>1 DEF WebInv, SessionsKnown, CallsTyped
    <2>4. LogoutsReal'
        BY <1>1, <2>1, LogoutsAlone DEF WebInv
    <2>. QED  BY <1>2, <2>2, <2>3, <2>4 DEF WebInv
<1>. QED  BY <1>3, <1>4

\* A request that the client has given up is handled after all: if it is let
\* through, it applies its mutation for the first time, and the last.
LEMMA HandleLateKeeps ==
    ASSUME WebInv, HandleLate
    PROVE  WebInv'
<1>1. PICK c \in late :
         /\ late' = late \ {c}
         /\ IF c.token \in live /\ c.csrf = c.token
              THEN Effect(c) ELSE UNCHANGED <<live, applied>>
    BY DEF HandleLate
<1>2. UNCHANGED <<auth, csrf, call, cookie, opened, asked, losses>>
    BY DEF HandleLate
<1>3. /\ c \in Call /\ c.kind \in Changes /\ c.what \in Mutations \cup {None}
      /\ live' \subseteq live
    BY <1>1 DEF WebInv, CallsTyped, LateKept, Call, Effect
<1>4. \/ UNCHANGED applied
      \/ c.what \in Mutations /\ c.what # None /\ applied' = [applied EXCEPT ![c.what] = @ + 1]
    BY <1>1, <1>3 DEF Effect
<1>5. c.what # None =>
         /\ c.what \in asked /\ applied[c.what] = 0
         /\ \A d \in late : d.what = c.what => d = c
         /\ \A t \in Tabs : call[t]["mutation"].what = c.what => MayBeApplied(call[t]["mutation"])
    BY DEF WebInv, LateKept, MayBeApplied
<1>6. \A m \in Mutations : m # c.what => applied'[m] = applied[m]
    BY <1>4 DEF WebInv, CallsTyped
<1>7. c.what # None => applied'[c.what] \in {0, 1}
    BY <1>3, <1>4, <1>5 DEF WebInv, CallsTyped
<1>8. CallsTyped'
    <2>1. applied' \in [Mutations -> Nat]
        BY <1>4 DEF WebInv, CallsTyped
    <2>. QED  BY <1>1, <1>2, <1>3, <2>1 DEF WebInv, CallsTyped
<1>9. SessionsKnown' /\ SlotsKept' /\ LogoutsReal'
    BY <1>2, <1>3, LogoutsAlone DEF WebInv, SessionsKnown, SlotsKept
<1>10. OneCallPerMutation'
    <2>1. \A m \in Mutations : applied'[m] <= 1
        <3>1. \A m \in Mutations : m # None
            BY WebAssumption
        <3>. QED  BY <1>6, <1>7, <3>1 DEF WebInv, OneCallPerMutation
    <2>2. \A m \in Mutations \ asked' : applied'[m] = 0
        BY <1>2, <1>5, <1>6, WebAssumption DEF WebInv, OneCallPerMutation
    <2>3. ASSUME NEW t \in Tabs, call[t]["mutation"].what # None
          PROVE  /\ call[t]["mutation"].what \in asked
                 /\ ~MayBeApplied(call[t]["mutation"])
                       => applied'[call[t]["mutation"].what] = 0
        <3>1. call[t]["mutation"].what \in Mutations
            BY <2>3 DEF WebInv, CallsTyped, Slots, Call
        <3>. QED  BY <1>5, <1>6, <2>3, <3>1 DEF WebInv, OneCallPerMutation
    <2>. QED  BY <1>2, <2>1, <2>2, <2>3 DEF WebInv, OneCallPerMutation, MayBeApplied
<1>11. LateKept'
    <2>1. \A d \in late' : d \in late /\ d # c /\ d \in Call
        BY <1>1 DEF WebInv, CallsTyped
    <2>2. ASSUME NEW d \in late', d.what # None PROVE applied'[d.what] = 0
        <3>1. d.what \in Mutations /\ d.what # c.what
            BY <1>5, <2>1, <2>2 DEF Call
        <3>. QED  BY <1>6, <2>1, <2>2, <3>1 DEF WebInv, LateKept
    <2>. QED  BY <1>2, <2>1, <2>2 DEF WebInv, LateKept
<1>. QED  BY <1>8, <1>9, <1>10, <1>11 DEF WebInv

-----------------------------------------------------------------------------
(* The actions, one by one.                                                *)

\* Only the state of a tab changes.
LEMMA StateOnlyKeeps ==
    ASSUME WebInv, auth' \in [Tabs -> Statuses], csrf' \in [Tabs -> 0 .. opened],
           UNCHANGED <<call, cookie, live, opened, asked, applied, losses, late>>
    PROVE  WebInv'
<1>1. opened \in 0 .. MaxSessions /\ MaxSessions \in Nat
    BY WebAssumption DEF WebInv, CallsTyped
<1>2. csrf' \in [Tabs -> 0 .. MaxSessions] /\ \A u \in Tabs : csrf'[u] <= opened
    BY <1>1
<1>3. CallsTyped'
    BY <1>2 DEF WebInv, CallsTyped, Statuses
<1>4. SessionsKnown' /\ SlotsKept' /\ LogoutsReal'
    BY <1>2 DEF WebInv, SessionsKnown, SlotsKept, LogoutsReal
<1>5. OneCallPerMutation' /\ LateKept'
    BY MutationsAlone, LateAlone DEF WebInv
<1>. QED  BY <1>3, <1>4, <1>5 DEF WebInv

LEMMA UserKeeps ==
    ASSUME WebInv, NEW t \in Tabs, User(t) \/ RunRead(t) \/ Poll(t)
    PROVE  WebInv'
<1>1. /\ auth \in [Tabs -> Statuses] /\ csrf \in [Tabs -> 0 .. opened] /\ 0 \in 0 .. opened
      /\ csrf[t] \in 0 .. opened /\ cookie \in 0 .. opened
    <2>1. auth \in [Tabs -> Statuses] /\ csrf \in [Tabs -> 0 .. MaxSessions] /\ opened \in Nat
        BY WebAssumption DEF WebInv, CallsTyped, Statuses
    <2>2. \A u \in Tabs : csrf[u] \in 0 .. opened
        BY <2>1 DEF WebInv, SessionsKnown
    <2>3. cookie \in 0 .. opened
        BY <2>1 DEF WebInv, SessionsKnown, CallsTyped
    <2>. QED  BY <2>1, <2>2, <2>3
<1>2. CASE Recheck(t)
    BY <1>1, <1>2, SendKeeps DEF Recheck, Statuses
<1>3. CASE Login(t)
    BY <1>1, <1>3, SendKeeps DEF Login
<1>4. CASE Logout(t)
    <2>1. CASE auth[t] = "authenticated"
        BY <1>1, <1>4, <2>1, SendKeeps DEF Logout
    <2>2. CASE auth[t] # "authenticated"
        <3>1. /\ auth' = [auth EXCEPT ![t] = "logged-out"] /\ csrf' = [csrf EXCEPT ![t] = 0]
              /\ UNCHANGED <<call, cookie, live, opened, asked, applied, losses, late>>
            BY <1>4, <2>2 DEF Logout, SetState
        <3>. QED  BY <1>1, <3>1, StateOnlyKeeps DEF Statuses
    <2>. QED  BY <2>1, <2>2
<1>5. CASE RunRead(t)
    BY <1>1, <1>5, SendKeeps DEF RunRead
<1>7. CASE OpenPanel(t) \/ Reload(t) \/ Poll(t)
    BY <1>1, <1>7, SendKeeps DEF OpenPanel, Reload, Poll
<1>8. CASE ClosePanel(t)
    BY <1>1, <1>8, StateOnlyKeeps DEF ClosePanel
<1>6. ASSUME NEW m \in Mutations, RunMutation(t, m)
      PROVE  WebInv'
    <2>1. applied[m] = 0 /\ \A u \in Tabs : call[u]["mutation"].what # m
        BY <1>6, WebAssumption DEF WebInv, OneCallPerMutation, RunMutation
    <2>2. /\ call' = [call EXCEPT ![t]["mutation"] = Sent("first", csrf[t], m)]
          /\ asked' = asked \cup {m}
          /\ UNCHANGED <<auth, csrf, cookie, live, opened, applied, losses, late>>
          /\ \A c \in late : c.what # m
        BY <1>6, WebAssumption DEF WebInv, LateKept, RunMutation, Send
    <2>3. m \in asked' /\ asked \subseteq asked' /\ asked' \subseteq Mutations
        BY <2>2 DEF WebInv, CallsTyped
    <2>4. auth' \in [Tabs -> Statuses] /\ csrf' \in [Tabs -> 0 .. opened]
        BY <1>1, <2>2
    <2>5. \A u \in Tabs : u # t => call[u]["mutation"].what # m
        BY <2>1
    <2>6. "first" \in {"first", "refresh", "replay"} /\ csrf[t] \in 0 .. opened
        BY <1>1
    <2>. QED  BY <2>1, <2>2, <2>3, <2>4, <2>5, <2>6, MutationSent
<1>. QED  BY <1>2, <1>3, <1>4, <1>5, <1>6, <1>7, <1>8 DEF User

LEMMA HandleKeeps ==
    ASSUME WebInv, NEW t \in Tabs, NEW s \in Slots, Handle(t, s) \/ Lose(t, s)
    PROVE  WebInv'
<1>1. losses \in 0 .. MaxLosses /\ MaxLosses \in Nat
    BY WebAssumption DEF WebInv, CallsTyped
<1>2. CASE Lose(t, s)
    <2>1. losses' \in 0 .. MaxLosses
        BY <1>1, <1>2 DEF Lose
    <2>. QED  BY <1>2, <2>1, RefusalKeeps DEF Lose
<1>3. CASE Handle(t, s)
    <2>1. /\ call[t][s] # Idle /\ call[t][s].answer = None
          /\ UNCHANGED <<auth, csrf, cookie, opened, asked, losses, late>>
        BY <1>3 DEF Handle
    <2>2. \/ /\ call[t][s].token \notin live /\ Answered(t, s, "401")
             /\ UNCHANGED <<live, applied>>
          \/ Answered(t, s, "invalid_csrf_token") /\ UNCHANGED <<live, applied>>
          \/ Done(t, s)
        BY <1>3 DEF Handle, Done
    <2>3. CASE /\ call[t][s].token \notin live /\ Answered(t, s, "401")
               /\ UNCHANGED <<live, applied>>
        BY <1>1, <2>1, <2>3, RefusalKeeps
    <2>4. CASE Answered(t, s, "invalid_csrf_token") /\ UNCHANGED <<live, applied>>
        BY <1>1, <2>1, <2>4, RefusalKeeps
    <2>5. CASE Done(t, s)
        BY <2>1, <2>5, SuccessKeeps
    <2>. QED  BY <2>2, <2>3, <2>4, <2>5
<1>. QED  BY <1>2, <1>3

\* A tab's new state comes from an answer, whose token is known.
LEMMA StateSet ==
    ASSUME WebInv, NEW t \in Tabs, NEW status \in Statuses, NEW token \in 0 .. opened,
           SetState(t, status, token)
    PROVE  auth' \in [Tabs -> Statuses] /\ csrf' \in [Tabs -> 0 .. opened]
<1>1. auth \in [Tabs -> Statuses] /\ csrf \in [Tabs -> 0 .. MaxSessions] /\ opened \in Nat
    BY WebAssumption DEF WebInv, CallsTyped, Statuses
<1>2. \A u \in Tabs : csrf[u] \in 0 .. opened
    BY <1>1 DEF WebInv, SessionsKnown
<1>3. csrf \in [Tabs -> 0 .. opened]
    BY <1>1, <1>2
<1>. QED  BY <1>1, <1>3 DEF SetState

LEMMA StateLeft ==
    ASSUME WebInv, UNCHANGED <<auth, csrf>>
    PROVE  auth' \in [Tabs -> Statuses] /\ csrf' \in [Tabs -> 0 .. opened]
<1>1. auth \in [Tabs -> Statuses] /\ csrf \in [Tabs -> 0 .. MaxSessions] /\ opened \in Nat
    BY WebAssumption DEF WebInv, CallsTyped, Statuses
<1>2. \A u \in Tabs : csrf[u] \in 0 .. opened
    BY <1>1 DEF WebInv, SessionsKnown
<1>. QED  BY <1>1, <1>2

LEMMA ToExpiryKeeps ==
    ASSUME WebInv, NEW t \in Tabs, NEW s \in Slots, ToExpiry(t, s)
    PROVE  WebInv'
<1>1. 0 \in 0 .. opened /\ cookie \in 0 .. opened
    BY WebAssumption DEF WebInv, CallsTyped, SessionsKnown
<1>2. auth' \in [Tabs -> Statuses] /\ csrf' \in [Tabs -> 0 .. opened]
    <2>1. CASE call[t][s].answer = "401"
        BY <1>1, <2>1, StateSet DEF ToExpiry, MayArm, Statuses
    <2>2. CASE call[t][s].answer # "401"
        BY <2>2, StateLeft DEF ToExpiry
    <2>. QED  BY <2>1, <2>2
<1>. QED  BY <1>1, <1>2, SettleKeeps DEF ToExpiry

LEMMA ReceiveKeeps ==
    ASSUME WebInv, NEW t \in Tabs, Receive(t)
    PROVE  WebInv'
<1>1. /\ 0 \in 0 .. opened /\ cookie \in 0 .. opened
      /\ "session" \in Slots /\ "mutation" \in Slots /\ "read" \in Slots
    BY WebAssumption DEF WebInv, CallsTyped, SessionsKnown, Slots
<1>2. \A s \in Slots : call[t][s].kind # "idle" => call[t][s].csrf \in 0 .. opened
    BY DEF WebInv, SessionsKnown
<1>3. CASE CheckAnswered(t)
    <2>1. call[t]["session"].csrf \in 0 .. opened
        BY <1>1, <1>2, <1>3 DEF CheckAnswered
    <2>2. auth' \in [Tabs -> Statuses] /\ csrf' \in [Tabs -> 0 .. opened]
        <3>1. CASE call[t]["session"].answer = "ok"
            BY <1>3, <2>1, <3>1, StateSet DEF CheckAnswered, Statuses
        <3>2. CASE call[t]["session"].answer = "401"
            BY <1>1, <1>3, <3>2, StateSet DEF CheckAnswered, Statuses
        <3>3. CASE call[t]["session"].answer \notin {"ok", "401"}
            BY <1>1, <1>3, <3>3, StateSet DEF CheckAnswered, Statuses
        <3>. QED  BY <3>1, <3>2, <3>3
    <2>. QED  BY <1>1, <1>3, <2>2, SettleKeeps DEF CheckAnswered
<1>4. CASE LoginAnswered(t)
    <2>1. call[t]["session"].csrf \in 0 .. opened
        BY <1>1, <1>2, <1>4 DEF LoginAnswered
    <2>2. CASE call[t]["session"].answer = "ok"
        <3>1. auth' \in [Tabs -> Statuses] /\ csrf' \in [Tabs -> 0 .. opened]
            BY <1>4, <2>1, <2>2, StateSet DEF LoginAnswered, Statuses
        <3>2. cookie' \in 0 .. opened
            BY <1>4, <2>1, <2>2 DEF LoginAnswered
        <3>. QED  BY <1>1, <1>4, <3>1, <3>2, SettleKeeps DEF LoginAnswered
    <2>3. CASE call[t]["session"].answer # "ok"
        <3>1. auth' \in [Tabs -> Statuses] /\ csrf' \in [Tabs -> 0 .. opened]
            BY <1>4, <2>3, StateLeft DEF LoginAnswered
        <3>2. cookie' \in 0 .. opened
            BY <1>1, <1>4, <2>3 DEF LoginAnswered
        <3>. QED  BY <1>1, <1>4, <3>1, <3>2, SettleKeeps DEF LoginAnswered
    <2>. QED  BY <2>2, <2>3
<1>5. CASE LogoutAnswered(t)
    <2>1. auth' \in [Tabs -> Statuses] /\ csrf' \in [Tabs -> 0 .. opened]
        <3>1. CASE call[t]["session"].answer \in {"ok", "401"}
            BY <1>1, <1>5, <3>1, StateSet DEF LogoutAnswered, Statuses
        <3>2. CASE call[t]["session"].answer \notin {"ok", "401"}
            BY <1>5, <3>2, StateLeft DEF LogoutAnswered
        <3>. QED  BY <3>1, <3>2
    <2>2. cookie' \in 0 .. opened
        BY <1>1, <1>5 DEF LogoutAnswered
    <2>. QED  BY <1>1, <1>5, <2>1, <2>2, SettleKeeps DEF LogoutAnswered
<1>. DEFINE c == call[t]["mutation"]
<1>6. ASSUME c.kind \in {"first", "refresh"}, ~MayBeApplied(c)
      PROVE  /\ c.what \in Mutations /\ c.what \in asked /\ applied[c.what] = 0
             /\ \A u \in Tabs : u # t => call[u]["mutation"].what # c.what
    <2>1. c.what \in Mutations
        BY <1>6 DEF WebInv, CallsTyped, Slots, Call, SlotsKept
    <2>2. c.what # None
        BY <2>1, WebAssumption
    <2>. QED  BY <1>6, <2>1, <2>2 DEF WebInv, OneCallPerMutation
<1>12. ASSUME c.kind \in {"first", "refresh"}, ~MayBeApplied(c), NEW d \in late
       PROVE  d.what # c.what
    <2>1. c.what # None
        BY <1>12 DEF WebInv, SlotsKept
    <2>. QED  BY <1>12, <2>1 DEF WebInv, LateKept, MayBeApplied
<1>7. asked \subseteq asked /\ asked \subseteq Mutations
    BY DEF WebInv, CallsTyped
<1>8. CASE FirstAnswered(t)
    <2>1. CASE ToExpiry(t, "mutation")
        BY <1>1, <2>1, ToExpiryKeeps
    <2>2. CASE ~ToExpiry(t, "mutation")
        <3>1. /\ c.kind = "first" /\ c.answer = "invalid_csrf_token"
              /\ call' = [call EXCEPT ![t]["mutation"] = Sent("refresh", 0, c.what)]
              /\ UNCHANGED <<auth, csrf, cookie, live, opened, asked, applied, losses, late>>
            BY <1>8, <2>2 DEF FirstAnswered, Recoverable, Continue
        <3>2. ~MayBeApplied(c)
            BY <3>1 DEF MayBeApplied
        <3>3. auth' \in [Tabs -> Statuses] /\ csrf' \in [Tabs -> 0 .. opened]
            BY <3>1, StateLeft
        <3>. HIDE DEF c
        <3>4. /\ c.what \in Mutations /\ c.what \in asked /\ applied[c.what] = 0
              /\ \A u \in Tabs : u # t => call[u]["mutation"].what # c.what
            BY <1>6, <3>1, <3>2
        <3>5. c.what \in asked' /\ asked \subseteq asked' /\ asked' \subseteq Mutations
            BY <1>7, <3>1, <3>4
        <3>6. "refresh" \in {"first", "refresh", "replay"} /\ 0 \in 0 .. opened
            BY <1>1
        <3>7. /\ call' = [call EXCEPT ![t]["mutation"] = Sent("refresh", 0, c.what)]
              /\ UNCHANGED <<cookie, live, opened, applied, losses, late>>
              /\ \A d \in late : d.what # c.what
            BY <1>12, <3>1, <3>2
        <3>. QED  BY <3>3, <3>4, <3>5, <3>6, <3>7, MutationSent
    <2>. QED  BY <2>1, <2>2
<1>9. CASE RefreshAnswered(t)
    <2>1. CASE ToExpiry(t, "mutation")
        BY <1>1, <2>1, ToExpiryKeeps
    <2>2. CASE ~ToExpiry(t, "mutation")
        <3>1. /\ c.kind = "refresh" /\ SetState(t, "authenticated", c.csrf)
              /\ call' = [call EXCEPT ![t]["mutation"] = Sent("replay", c.csrf, c.what)]
              /\ UNCHANGED <<cookie, live, opened, asked, applied, losses, late>>
            BY <1>9, <2>2 DEF RefreshAnswered, Continue
        <3>2. ~MayBeApplied(c) /\ c.csrf \in 0 .. opened
            BY <1>1, <1>2, <3>1 DEF MayBeApplied
        <3>. HIDE DEF c
        <3>3. auth' \in [Tabs -> Statuses] /\ csrf' \in [Tabs -> 0 .. opened]
            BY <3>1, <3>2, StateSet DEF Statuses
        <3>4. /\ c.what \in Mutations /\ c.what \in asked /\ applied[c.what] = 0
              /\ \A u \in Tabs : u # t => call[u]["mutation"].what # c.what
            BY <1>6, <3>1, <3>2
        <3>5. c.what \in asked' /\ asked \subseteq asked' /\ asked' \subseteq Mutations
            BY <1>7, <3>1, <3>4
        <3>6. "replay" \in {"first", "refresh", "replay"} /\ \A d \in late : d.what # c.what
            BY <1>12, <3>1, <3>2
        <3>. QED  BY <1>1, <3>1, <3>2, <3>3, <3>4, <3>5, <3>6, MutationSent
    <2>. QED  BY <2>1, <2>2
<1>10. CASE ReplayAnswered(t)
    BY <1>1, <1>10, ToExpiryKeeps DEF ReplayAnswered
<1>11. CASE ReadAnswered(t)
    BY <1>1, <1>11, ToExpiryKeeps DEF ReadAnswered
<1>. QED  BY <1>3, <1>4, <1>5, <1>8, <1>9, <1>10, <1>11 DEF Receive

-----------------------------------------------------------------------------
(* The theorems.                                                           *)

LEMMA WebInvInit == Init => WebInv
<1>. SUFFICES ASSUME Init PROVE WebInv
    OBVIOUS
<1>. DEFINE check == [Idle EXCEPT !.kind = "check", !.token = 0, !.csrf = 0]
<1>1. MaxSessions \in Nat /\ MaxLosses \in Nat /\ 0 \in 0 .. MaxSessions /\ 0 \in 0 .. MaxLosses
    BY WebAssumption
<1>2. /\ check \in Call /\ check.kind = "check" /\ check.what = None /\ check.answer = None
      /\ check.token = 0 /\ check.csrf = 0
    BY <1>1 DEF Idle, Call, CallKinds
<1>. HIDE DEF check
<1>3. call = [t \in Tabs |-> [s \in Slots |-> IF s = "session" THEN check ELSE Idle]]
    BY DEF Init, check
<1>4. CallsTyped
    BY <1>1, <1>2, <1>3, IdleIsCall DEF Init, CallsTyped
<1>5. \A t \in Tabs : call[t]["session"] = check /\ call[t]["mutation"] = Idle
                       /\ call[t]["read"] = Idle
    BY <1>3 DEF Slots
<1>6. SessionsKnown
    BY <1>2, <1>5, IdleIsCall DEF Init, SessionsKnown, Slots
<1>7. SlotsKept
    BY <1>2, <1>5, IdleIsCall DEF SlotsKept, Slots
<1>8. OneCallPerMutation
    BY <1>5, IdleIsCall DEF Init, OneCallPerMutation
<1>9. LogoutsReal
    BY <1>2, <1>5 DEF LogoutsReal
<1>10. LateKept
    BY DEF Init, LateKept
<1>. QED  BY <1>4, <1>6, <1>7, <1>8, <1>9, <1>10 DEF WebInv

LEMMA WebInvStep == WebInv /\ [Next]_vars => WebInv'
<1>. SUFFICES ASSUME WebInv, [Next]_vars PROVE WebInv'
    OBVIOUS
<1>1. CASE UNCHANGED vars
    BY <1>1 DEF vars, WebInv, CallsTyped, SessionsKnown, SlotsKept, OneCallPerMutation,
                MayBeApplied, LogoutsReal, LateKept
<1>2. ASSUME NEW t \in Tabs, User(t) \/ RunRead(t) \/ Poll(t) PROVE WebInv'
    BY <1>2, UserKeeps
<1>3. ASSUME NEW t \in Tabs, HandleLogin(t) PROVE WebInv'
    BY <1>3, HandleLoginKeeps
<1>4. ASSUME NEW t \in Tabs, Receive(t) PROVE WebInv'
    BY <1>4, ReceiveKeeps
<1>5. ASSUME NEW t \in Tabs, NEW s \in Slots, Handle(t, s) \/ Lose(t, s) PROVE WebInv'
    BY <1>5, HandleKeeps
<1>6. CASE SignInElsewhere \/ SignOutElsewhere \/ Expire
    BY <1>6, ElsewhereKeeps
<1>7. CASE HandleLate
    BY <1>7, HandleLateKeeps
<1>. QED  BY <1>1, <1>2, <1>3, <1>4, <1>5, <1>6, <1>7 DEF Next

\* What the tabs, the cookie and the server know of each other (apiRequest,
\* runMutation, the session extractor) holds in every reachable state.
THEOREM WebInvariant == Spec => []WebInv
BY WebInvInit, WebInvStep, PTL DEF Spec

\* The panels.
PanelsTyped == panel \in [Tabs -> {"closed", "shown", "armed"}]

LEMMA PanelsStep == PanelsTyped /\ [Next]_vars => PanelsTyped'
<1>. SUFFICES ASSUME PanelsTyped, [Next]_vars PROVE PanelsTyped'
    OBVIOUS
<1>1. ASSUME UNCHANGED panel PROVE PanelsTyped'
    BY <1>1 DEF PanelsTyped
<1>2. ASSUME NEW t \in Tabs, NEW status, NEW token, SetState(t, status, token)
      PROVE  PanelsTyped'
    BY <1>2 DEF PanelsTyped, SetState
<1>3. ASSUME NEW t \in Tabs, NEW s \in Slots, ToExpiry(t, s) PROVE PanelsTyped'
    BY <1>2, <1>3 DEF PanelsTyped, ToExpiry, MayArm
<1>4. ASSUME NEW t \in Tabs, User(t) \/ RunRead(t) \/ Poll(t) PROVE PanelsTyped'
    BY <1>1, <1>2, <1>4
    DEF PanelsTyped, User, Recheck, Login, Logout, RunMutation, RunRead, OpenPanel, Reload,
        ClosePanel, Poll
<1>5. ASSUME NEW t \in Tabs, Receive(t) PROVE PanelsTyped'
    <2>1. "session" \in Slots /\ "mutation" \in Slots /\ "read" \in Slots
        BY DEF Slots
    <2>2. CASE CheckAnswered(t)
        BY <1>2, <2>2 DEF CheckAnswered
    <2>3. CASE LoginAnswered(t) \/ LogoutAnswered(t)
        BY <1>1, <1>2, <2>3 DEF LoginAnswered, LogoutAnswered
    <2>4. CASE FirstAnswered(t) \/ RefreshAnswered(t)
        BY <1>1, <1>2, <1>3, <2>1, <2>4 DEF FirstAnswered, RefreshAnswered
    <2>5. CASE ReplayAnswered(t) \/ ReadAnswered(t)
        BY <1>3, <2>1, <2>5 DEF ReplayAnswered, ReadAnswered
    <2>. QED  BY <1>5, <2>2, <2>3, <2>4, <2>5 DEF Receive
<1>6. ASSUME NEW t \in Tabs, HandleLogin(t) PROVE PanelsTyped'
    BY <1>1, <1>6 DEF HandleLogin
<1>7. ASSUME NEW t \in Tabs, NEW s \in Slots, Handle(t, s) \/ Lose(t, s) PROVE PanelsTyped'
    BY <1>1, <1>7 DEF Handle, Lose
<1>8. CASE HandleLate \/ SignInElsewhere \/ SignOutElsewhere \/ Expire
    BY <1>1, <1>8 DEF HandleLate, SignInElsewhere, SignOutElsewhere, Expire
<1>9. CASE UNCHANGED vars
    BY <1>1, <1>9 DEF vars
<1>. QED  BY <1>4, <1>5, <1>6, <1>7, <1>8, <1>9 DEF Next

\* Every variable keeps its type.
THEOREM WebTypeCorrect == Spec => []TypeOK
<1>1. WebInv /\ PanelsTyped => TypeOK
    BY DEF WebInv, CallsTyped, PanelsTyped, TypeOK
<1>2. Init => PanelsTyped
    BY DEF Init, PanelsTyped
<1>. QED  BY <1>1, <1>2, PanelsStep, WebInvariant, PTL DEF Spec

\* runMutation: for any number of tabs, sign-ins and lost calls, a mutation is
\* applied at most once.
THEOREM MutationsApplyOnce == Spec => []AppliedAtMostOnce
<1>1. WebInv => AppliedAtMostOnce
    BY DEF WebInv, OneCallPerMutation, AppliedAtMostOnce
<1>. QED  BY <1>1, WebInvariant, PTL

\* A tab whose logout call is settled comes to say "logged out" only on the answer
\* to it: the user's own word leaves the call alone.
LEMMA WhoLogsOut ==
    ASSUME WebInv, Next, NEW t \in Tabs, auth'[t] = "logged-out", auth[t] # "logged-out",
           call'[t]["session"] # call[t]["session"]
    PROVE  call[t]["session"].answer \in {"ok", "401"}
<1>0. auth \in [Tabs -> Statuses]
    BY DEF WebInv, CallsTyped, Statuses
<1>1. ASSUME NEW u \in Tabs, User(u) \/ RunRead(u) \/ Poll(u)
      PROVE  FALSE
    <2>1. CASE Logout(u)
        BY <1>0, <2>1 DEF Logout
    <2>2. CASE Recheck(u)
        BY <1>0, <2>2 DEF Recheck
    <2>3. CASE ~Logout(u) /\ ~Recheck(u)
        BY <1>1, <2>3
        DEF User, Login, RunMutation, RunRead, OpenPanel, Reload, ClosePanel, Poll
    <2>. QED  BY <2>1, <2>2, <2>3
<1>2. ASSUME NEW u \in Tabs, NEW s \in Slots, ToExpiry(u, s)
      PROVE  FALSE
    BY <1>0, <1>2 DEF ToExpiry, SetState
<1>3. ASSUME NEW u \in Tabs, Receive(u)
      PROVE  call[t]["session"].answer \in {"ok", "401"}
    <2>1. CASE CheckAnswered(u)
        BY <1>0, <2>1 DEF CheckAnswered, SetState
    <2>2. CASE LoginAnswered(u)
        BY <1>0, <2>2 DEF LoginAnswered, SetState
    <2>3. CASE LogoutAnswered(u)
        BY <1>0, <2>3 DEF LogoutAnswered, SetState
    <2>4. CASE FirstAnswered(u)
        BY <1>2, <2>4 DEF FirstAnswered, Slots
    <2>5. CASE RefreshAnswered(u)
        BY <1>0, <1>2, <2>5 DEF RefreshAnswered, SetState, Slots
    <2>6. CASE ReplayAnswered(u) \/ ReadAnswered(u)
        BY <1>2, <2>6 DEF ReplayAnswered, ReadAnswered, Slots
    <2>. QED  BY <1>3, <2>1, <2>2, <2>3, <2>4, <2>5, <2>6 DEF Receive
<1>4. ASSUME UNCHANGED auth PROVE FALSE
    BY <1>4
<1>5. ASSUME NEW u \in Tabs, HandleLogin(u) PROVE FALSE
    BY <1>4, <1>5 DEF HandleLogin
<1>6. ASSUME NEW u \in Tabs, NEW s \in Slots, Handle(u, s) \/ Lose(u, s) PROVE FALSE
    BY <1>4, <1>6 DEF Handle, Lose
<1>7. CASE HandleLate \/ SignInElsewhere \/ SignOutElsewhere \/ Expire
    BY <1>4, <1>7 DEF HandleLate, SignInElsewhere, SignOutElsewhere, Expire
<1>. QED  BY <1>1, <1>3, <1>5, <1>6, <1>7 DEF Next

\* logout: a tab that was waiting for the answer to its logout says "logged out"
\* only when the session that the call went out with is over.
THEOREM ShownLogoutsAreReal == Spec => LogoutIsReal
<1>1. WebInv /\ [Next]_vars =>
        [\A t \in Tabs :
            (/\ call[t]["session"].kind = "logout" /\ call'[t]["session"] = Idle
             /\ auth'[t] = "logged-out" /\ auth[t] # "logged-out")
            => call[t]["session"].token \notin live]_vars
    <2>. SUFFICES ASSUME WebInv, Next, NEW t \in Tabs, call[t]["session"].kind = "logout",
                         call'[t]["session"] = Idle,
                         auth'[t] = "logged-out", auth[t] # "logged-out"
                  PROVE  call[t]["session"].token \notin live
        OBVIOUS
    <2>1. call'[t]["session"] # call[t]["session"]
        BY IdleIsCall
    <2>2. call[t]["session"].answer \in {"ok", "401"}
        BY <2>1, WhoLogsOut
    <2>. QED  BY <2>2 DEF WebInv, LogoutsReal
<1>. QED  BY <1>1, WebInvariant, PTL DEF Spec, LogoutIsReal
=============================================================================
