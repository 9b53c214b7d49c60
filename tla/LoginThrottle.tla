---------------------------- MODULE LoginThrottle ----------------------------
(***************************************************************************)
(* POST /api/session up to the opening of the session: the per-client      *)
(* attempt counter with its window and lockout, and the slots that bound   *)
(* how many Argon2 verifications run at once.                              *)
(*                                                                         *)
(*   crates/otdel-api/src/auth/throttle.rs    LoginThrottle                *)
(*   crates/otdel-api/src/routes/session.rs   login                        *)
(*                                                                         *)
(* reserve reads the clock before it takes the mutex, so calls may enter   *)
(* the critical section out of the order of their times.                   *)
(***************************************************************************)
EXTENDS Integers, FiniteSets, Sequences

CONSTANTS Logins,        \* connections; each carries one sign-in request at a time
          Clients,       \* throttle keys (client addresses)
          MaxFailures,   \* config.max_failures
          Window,        \* config.window, in ticks
          Lockout,       \* config.lockout, in ticks
          HashSlots,     \* MAX_CONCURRENT_PASSWORD_HASHES
          MaxTime,       \* bound: the clock stops here
          MaxSkew        \* bound: ticks between reading the clock and the mutex

ASSUME ThrottleAssumption ==
    /\ MaxFailures \in Nat \ {0}
    /\ Window \in Nat /\ Lockout \in Nat
    /\ HashSlots \in Nat \ {0}
    /\ MaxTime \in Nat \ {0} /\ MaxSkew \in Nat
    /\ IsFiniteSet(Logins)

VARIABLES
    now,        \* the monotonic clock
    client,     \* who is behind each connection
    pc,         \* where the handler of each login is; "idle": none runs
    stamp,      \* the time each login read before it took the mutex
    state,      \* the map of attempts, by client
    free,       \* free permits of the semaphore
    hashing,    \* logins whose blocking task runs
    admitted    \* history: times of a client's admissions since its last success

vars == <<now, client, pc, stamp, state, free, hashing, admitted>>

NoAttempts == [started |-> -1, window |-> 0, locked |-> 0]   \* no entry in the map
Fresh(t)   == [started |-> 0, window |-> t, locked |-> 0]    \* locked 0: None

Time == 0..(MaxTime + Lockout)

TypeOK ==
    /\ now \in 1..MaxTime
    /\ client \in [Logins -> Clients]
    /\ pc \in [Logins -> {"idle", "stamped", "admitted", "hashing", "hashed", "gone"}]
    /\ stamp \in [Logins -> 0..MaxTime]
    /\ state \in [Clients -> [started : -1..MaxFailures, window : Time, locked : Time]]
    /\ free \in 0..HashSlots
    /\ hashing \subseteq Logins
    /\ admitted \in [Clients -> Seq(1..MaxTime)]

Init ==
    /\ now = 1
    /\ client \in [Logins -> Clients]
    /\ pc = [l \in Logins |-> "idle"]
    /\ stamp = [l \in Logins |-> 0]
    /\ state = [c \in Clients |-> NoAttempts]
    /\ free = HashSlots
    /\ hashing = {}
    /\ admitted = [c \in Clients |-> <<>>]

-----------------------------------------------------------------------------
(* reserve_at.                                                             *)

IsStale(a, t) == a.locked <= t /\ t - a.window > Window

\* state.retain, then entry(key).or_insert.
Retain(t) == [c \in Clients |-> IF IsStale(state[c], t) THEN NoAttempts ELSE state[c]]
EntryAt(c, t) == IF Retain(t)[c] = NoAttempts THEN Fresh(t) ELSE Retain(t)[c]

LockedAt(a, t) == a.locked > t

\* Mutant: the window closes one tick early.
WindowClosesEarly(a, t) == IF a.locked # 0 \/ t - a.window >= Window THEN Fresh(t) ELSE a

\* A served lockout, or the end of the window, starts a fresh window.
Renew(a, t) == IF a.locked # 0 \/ t - a.window > Window THEN Fresh(t) ELSE a

LimitReached(a) == a.started >= MaxFailures

\* The last n elements of s.
Suffix(s, n) == IF Len(s) <= n THEN s ELSE SubSeq(s, Len(s) - n + 1, Len(s))

Reserve(l) ==
    LET c == client[l]
        t == stamp[l]
        a == EntryAt(c, t)
        b == Renew(a, t)
    IN  /\ pc[l] = "stamped"
        /\ \/ /\ LockedAt(a, t)
              /\ state' = [Retain(t) EXCEPT ![c] = a]
              /\ pc' = [pc EXCEPT ![l] = "idle"]
              /\ UNCHANGED admitted
           \/ /\ ~ LockedAt(a, t) /\ LimitReached(b)
              /\ state' = [Retain(t) EXCEPT ![c] = [b EXCEPT !.locked = t + Lockout]]
              /\ pc' = [pc EXCEPT ![l] = "idle"]
              /\ UNCHANGED admitted
           \/ /\ ~ LockedAt(a, t) /\ ~ LimitReached(b)
              /\ state' = [Retain(t) EXCEPT ![c] = [b EXCEPT !.started = @ + 1]]
              /\ pc' = [pc EXCEPT ![l] = "admitted"]
              /\ admitted' = [admitted EXCEPT ![c] = Suffix(Append(@, now), 2 * MaxFailures)]
        /\ stamp' = [stamp EXCEPT ![l] = 0]
        /\ UNCHANGED <<now, client, free, hashing>>

-----------------------------------------------------------------------------
(* login.                                                                  *)

\* reserve: Instant::now(), evaluated before the mutex is taken.
ReadClock(l) ==
    /\ pc[l] = "idle"
    /\ pc' = [pc EXCEPT ![l] = "stamped"]
    /\ stamp' = [stamp EXCEPT ![l] = now]
    /\ UNCHANGED <<now, client, state, free, hashing, admitted>>

\* hash_permit().await, then spawn_blocking takes the permit with it.
HashPermit(l) ==
    /\ pc[l] = "admitted"
    /\ free > 0
    /\ free' = free - 1
    /\ hashing' = hashing \cup {l}
    /\ pc' = [pc EXCEPT ![l] = "hashing"]
    /\ UNCHANGED <<now, client, stamp, state, admitted>>

\* Mutant: the permit of a dropped request is lost.
LosePermitOfDropped(l) ==
    /\ l \in hashing
    /\ hashing' = hashing \ {l}
    /\ free' = IF pc[l] = "hashing" THEN free + 1 ELSE free
    /\ pc' = [pc EXCEPT ![l] = IF @ = "hashing" THEN "hashed" ELSE "idle"]
    /\ UNCHANGED <<now, client, stamp, state, admitted>>

\* The blocking task ends and drops the permit, whether or not the request that
\* started it still exists.
HashEnds(l) ==
    /\ l \in hashing
    /\ hashing' = hashing \ {l}
    /\ free' = free + 1
    /\ pc' = [pc EXCEPT ![l] = IF @ = "hashing" THEN "hashed" ELSE "idle"]
    /\ UNCHANGED <<now, client, stamp, state, admitted>>

\* The handler gets the verdict; a correct password calls record_success.  A
\* wrong one, and a panic of the task, refuse the login.
Resume(l) ==
    /\ pc[l] = "hashed"
    /\ pc' = [pc EXCEPT ![l] = "idle"]
    /\ \/ /\ state' = [state EXCEPT ![client[l]] = NoAttempts]
          /\ admitted' = [admitted EXCEPT ![client[l]] = <<>>]
       \/ UNCHANGED <<state, admitted>>
    /\ UNCHANGED <<now, client, stamp, free, hashing>>

\* Mutant: the permit belongs to the request and comes back when it is dropped.
DropReleasesPermit(l) ==
    /\ pc[l] \in {"admitted", "hashing", "hashed"}
    /\ free' = IF pc[l] = "hashing" THEN free + 1 ELSE free
    /\ pc' = [pc EXCEPT ![l] = IF @ = "hashing" THEN "gone" ELSE "idle"]
    /\ UNCHANGED <<now, client, stamp, state, hashing, admitted>>

\* The client disconnects: the future is dropped at an await, a blocking task
\* it started runs on.
Disconnect(l) ==
    /\ pc[l] \in {"admitted", "hashing", "hashed"}
    /\ pc' = [pc EXCEPT ![l] = IF @ = "hashing" THEN "gone" ELSE "idle"]
    /\ UNCHANGED <<now, client, stamp, state, free, hashing, admitted>>

\* Time passes, but nobody stays between the clock and the mutex for long.
Tick ==
    /\ now < MaxTime
    /\ \A l \in Logins : pc[l] = "stamped" => now - stamp[l] < MaxSkew
    /\ now' = now + 1
    /\ UNCHANGED <<client, pc, stamp, state, free, hashing, admitted>>

Login(l) == ReadClock(l) \/ Reserve(l) \/ HashPermit(l) \/ HashEnds(l) \/ Resume(l)

Next == (\E l \in Logins : Login(l) \/ Disconnect(l)) \/ Tick

\* The runtime keeps polling handlers and running blocking tasks, and tokio's
\* semaphore serves its waiters in order: none is passed over forever.
Fairness == \A l \in Logins : SF_vars(HashPermit(l)) /\ WF_vars(HashEnds(l)) /\ WF_vars(Resume(l))

Spec == Init /\ [][Next]_vars /\ Fairness

-----------------------------------------------------------------------------
(* Correctness.                                                            *)

\* At most HashSlots Argon2 verifications run at once, even when the clients
\* that asked for them disconnected (the permit moves into the blocking task).
HashesBounded == Cardinality(hashing) <= HashSlots

\* A burst of guesses is bounded however requests overlap: between two
\* successes, 2 * max_failures admissions of one client never fit into less
\* than a window or a lockout (up to the time lost before the mutex).
BurstBounded ==
    \A c \in Clients :
        LET s == admitted[c]
            n == 2 * MaxFailures
            span == s[Len(s)] - s[1]
        IN  Len(s) = n => span > Window - MaxSkew \/ span >= Lockout - MaxSkew

\* Every admitted login ends: permits of cancelled requests come back.
AdmittedLoginEnds == \A l \in Logins : pc[l] = "admitted" ~> pc[l] = "idle"
=============================================================================
