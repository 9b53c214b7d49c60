------------------------- MODULE LoginThrottleProofs -------------------------
(***************************************************************************)
(* The bounds on concurrent password hashes and on bursts of guesses, for  *)
(* any number of connections, clients and slots and any configuration of   *)
(* the throttle.                                                           *)
(***************************************************************************)
EXTENDS LoginThrottle, FiniteSetTheorems, SequenceTheorems, TLAPS

\* Permits are conserved: a slot is free or its blocking task runs, and a task
\* runs exactly for the logins that wait for it or were dropped meanwhile.
PermitsConserved ==
    /\ hashing \subseteq Logins
    /\ free \in Nat
    /\ free + Cardinality(hashing) = HashSlots
    /\ DOMAIN pc = Logins
    /\ \A l \in Logins : l \in hashing <=> pc[l] \in {"hashing", "gone"}

\* The running tasks can be counted: there are finitely many connections.
LEMMA HashingFinite ==
    ASSUME hashing \subseteq Logins
    PROVE  IsFiniteSet(hashing) /\ Cardinality(hashing) \in Nat
  BY ThrottleAssumption, FS_Subset, FS_CardinalityType

\* Steps that start and end no task.
LEMMA PermitsUntouched ==
    ASSUME PermitsConserved, UNCHANGED <<free, hashing>>, NEW l \in Logins,
           NEW place \in {"idle", "stamped", "admitted"},
           pc[l] \notin {"hashing", "gone"}, pc' = [pc EXCEPT ![l] = place]
    PROVE  PermitsConserved'
  BY DEF PermitsConserved

\* A permit is taken when a task starts and given back when it ends, also when the
\* request that waits for it was dropped in between.
LEMMA PermitsStep == PermitsConserved /\ [Next]_vars => PermitsConserved'
<1> SUFFICES ASSUME PermitsConserved, [Next]_vars PROVE PermitsConserved'
  OBVIOUS
<1>1. ASSUME NEW l \in Logins, ReadClock(l) PROVE PermitsConserved'
  BY <1>1, PermitsUntouched DEF ReadClock
<1>2. ASSUME NEW l \in Logins, Reserve(l) PROVE PermitsConserved'
  <2>1. /\ pc[l] = "stamped" /\ UNCHANGED <<free, hashing>>
        /\ \E place \in {"idle", "admitted"} : pc' = [pc EXCEPT ![l] = place]
    BY <1>2, Zenon DEF Reserve
  <2>2. QED
    BY <2>1, PermitsUntouched
<1>3. ASSUME NEW l \in Logins, HashPermit(l) PROVE PermitsConserved'
  <2>1. l \notin hashing /\ hashing' = hashing \cup {l}
    BY <1>3 DEF HashPermit, PermitsConserved
  <2>2. Cardinality(hashing') = Cardinality(hashing) + 1 /\ Cardinality(hashing) \in Nat
    BY <2>1, HashingFinite, FS_AddElement DEF PermitsConserved
  <2>3. QED
    BY <1>3, <2>1, <2>2 DEF HashPermit, PermitsConserved
<1>4. ASSUME NEW l \in Logins, HashEnds(l) PROVE PermitsConserved'
  <2>1. l \in hashing /\ hashing' = hashing \ {l}
    BY <1>4 DEF HashEnds
  <2>2. Cardinality(hashing') = Cardinality(hashing) - 1 /\ Cardinality(hashing) \in Nat
    BY <2>1, HashingFinite, FS_RemoveElement DEF PermitsConserved
  <2>3. QED
    BY <1>4, <2>1, <2>2 DEF HashEnds, PermitsConserved
<1>5. ASSUME NEW l \in Logins, Resume(l) PROVE PermitsConserved'
  BY <1>5, PermitsUntouched DEF Resume
<1>6. ASSUME NEW l \in Logins, Disconnect(l) PROVE PermitsConserved'
  BY <1>6 DEF Disconnect, PermitsConserved
<1>7. CASE Tick
  BY <1>7 DEF Tick, PermitsConserved
<1>8. CASE UNCHANGED vars
  BY <1>8 DEF vars, PermitsConserved
<1>9. QED
  BY <1>1, <1>2, <1>3, <1>4, <1>5, <1>6, <1>7, <1>8 DEF Next, Login

\* Cancelled or not, no more than HashSlots password hashes run at once.
THEOREM HashesAlwaysBounded == Spec => []HashesBounded
<1>1. Init => PermitsConserved
  <2> SUFFICES ASSUME Init PROVE PermitsConserved
    OBVIOUS
  <2>1. Cardinality(hashing) = 0
    BY FS_EmptySet DEF Init
  <2>2. QED
    BY <2>1, ThrottleAssumption DEF Init, PermitsConserved
<1>2. PermitsConserved => HashesBounded
  <2> SUFFICES ASSUME PermitsConserved PROVE HashesBounded
    OBVIOUS
  <2>1. Cardinality(hashing) \in Nat
    BY HashingFinite DEF PermitsConserved
  <2>2. QED
    BY <2>1, ThrottleAssumption DEF PermitsConserved, HashesBounded
<1>3. QED
  BY <1>1, <1>2, PermitsStep, PTL DEF Spec

-----------------------------------------------------------------------------
(* Bursts.  The admissions of a client fall into the windows its entry in  *)
(* the map went through, at most MaxFailures into each.  The last one of a *)
(* window and the first one of the next but one are a window, or a         *)
(* lockout, apart.                                                         *)

\* The d-th admission, counted from the last.
Back(s, d) == s[Len(s) - d + 1]

\* Two admissions are far enough apart.
Apart(x, y) == y - x > Window - MaxSkew \/ y - x >= Lockout - MaxSkew

Sorted(s) == \A d, e \in 1 .. Len(s) : d <= e => Back(s, e) <= Back(s, d)

\* No entry: its last window was over when it was dropped from the map.
WindowOver(s, t) == Len(s) >= MaxFailures => Apart(Back(s, MaxFailures), t)

\* An entry: the first admission of its window is counted by started, came when
\* the window began, and is far from the one MaxFailures before it.
WindowOpen(s, a) ==
    /\ a.started \in 1 .. MaxFailures /\ a.started <= Len(s)
    /\ Back(s, a.started) <= a.window + MaxSkew
    /\ Len(s) >= a.started + MaxFailures =>
          Apart(Back(s, a.started + MaxFailures), Back(s, a.started))
    /\ a.locked # 0 => Back(s, 1) + Lockout <= a.locked + MaxSkew

Spread(s) == Len(s) = 2 * MaxFailures => Apart(Back(s, 2 * MaxFailures), Back(s, 1))

ClientInv(s, a, t) ==
    /\ Len(s) <= 2 * MaxFailures
    /\ Sorted(s) /\ \A d \in 1 .. Len(s) : Back(s, d) <= t
    /\ a = NoAttempts => WindowOver(s, t)
    /\ a # NoAttempts => WindowOpen(s, a)
    /\ Spread(s)

StampsFresh == \A l \in Logins : pc[l] = "stamped" => stamp[l] <= now /\ now <= stamp[l] + MaxSkew

BurstInv == TypeOK /\ StampsFresh /\ \A c \in Clients : ClientInv(admitted[c], state[c], now)

-----------------------------------------------------------------------------
(* Lemmas about the record of admissions.                                  *)

\* An admission is recorded: the others move back by one, and the oldest one
\* beyond the bound of the record is forgotten.
LEMMA Recorded ==
    ASSUME NEW S, NEW s \in Seq(S), NEW x \in S, NEW m \in Nat \ {0}, Len(s) <= m
    PROVE  LET r == Suffix(Append(s, x), m) IN
           /\ r \in Seq(S) /\ Len(r) = IF Len(s) < m THEN Len(s) + 1 ELSE m
           /\ Back(r, 1) = x
           /\ \A d \in 2 .. Len(r) : Back(r, d) = Back(s, d - 1)
<1>. DEFINE q == Append(s, x)
            r == Suffix(q, m)
<1>1. Len(s) \in Nat
    BY LenProperties
<1>2. /\ q \in Seq(S) /\ Len(q) = Len(s) + 1 /\ q[Len(s) + 1] = x
      /\ \A i \in 1 .. Len(s) : q[i] = s[i]
    BY AppendProperties
<1>3. \A i \in 1 .. Len(s) + 1 : q[i] \in S
    BY <1>2, ElementOfSeq
<1>. HIDE DEF q
<1>4. CASE Len(s) < m
    <2>1. r = q
        BY <1>1, <1>2, <1>4 DEF Suffix
    <2>. HIDE DEF r
    <2>2. Len(r) = Len(s) + 1 /\ Back(r, 1) = x
        BY <1>1, <1>2, <2>1 DEF Back
    <2>3. \A d \in 2 .. Len(r) : Back(r, d) = Back(s, d - 1)
        BY <1>1, <1>2, <2>1 DEF Back
    <2>4. r \in Seq(S)
        BY <1>2, <2>1
    <2>. QED  BY <1>4, <2>2, <2>3, <2>4 DEF r, q
<1>5. CASE Len(s) = m
    <2>1. r = SubSeq(q, 2, m + 1)
        BY <1>1, <1>2, <1>5 DEF Suffix
    <2>. HIDE DEF r
    <2>2. /\ SubSeq(q, 2, m + 1) \in Seq(S) /\ Len(SubSeq(q, 2, m + 1)) = m
          /\ \A i \in 1 .. m : SubSeq(q, 2, m + 1)[i] = q[i + 1]
        <3>1. \A i \in 2 .. m + 1 : q[i] \in S
            BY <1>3, <1>5
        <3>2. /\ SubSeq(q, 2, m + 1) \in Seq(S)
              /\ Len(SubSeq(q, 2, m + 1)) = IF 2 <= m + 1 THEN (m + 1) - 2 + 1 ELSE 0
              /\ \A i \in 1 .. (m + 1) - 2 + 1 : SubSeq(q, 2, m + 1)[i] = q[2 + i - 1]
            BY <3>1, SubSeqProperties
        <3>. QED  BY <3>2
    <2>3. Len(r) = m /\ r \in Seq(S) /\ \A i \in 1 .. m : r[i] = q[i + 1]
        BY <2>1, <2>2
    <2>4. Back(r, 1) = x
        BY <1>2, <1>5, <2>3 DEF Back
    <2>5. \A d \in 2 .. Len(r) : Back(r, d) = Back(s, d - 1)
        BY <1>2, <1>5, <2>3 DEF Back
    <2>. QED  BY <1>5, <2>3, <2>4, <2>5 DEF r, q
<1>. QED  BY <1>1, <1>4, <1>5

\* Times are natural numbers, counted from either end.
LEMMA BackIsTime ==
    ASSUME NEW S \in SUBSET Nat, NEW s \in Seq(S)
    PROVE  Len(s) \in Nat /\ \A d \in 1 .. Len(s) : Back(s, d) \in Nat
<1>1. Len(s) \in Nat /\ \A i \in 1 .. Len(s) : s[i] \in Nat
    BY LenProperties, ElementOfSeq
<1>. QED  BY <1>1 DEF Back

\* Moving two moments away from each other keeps them apart.
LEMMA ApartGrows ==
    ASSUME NEW x \in Nat, NEW y \in Nat, NEW w \in Nat, NEW z \in Nat,
           w <= x, y <= z, Apart(x, y)
    PROVE  Apart(w, z)
BY ThrottleAssumption DEF Apart

-----------------------------------------------------------------------------
(* What the throttle does with the entry of one client.                    *)

Moments == 1 .. MaxTime
Attempts == [started : -1 .. MaxFailures, window : Time, locked : Time]

\* The constants are numbers, and so is what an entry and a record hold.
LEMMA Numbers ==
    ASSUME NEW s \in Seq(Moments), NEW a \in Attempts
    PROVE  /\ MaxFailures \in Nat \ {0} /\ Window \in Nat /\ Lockout \in Nat
           /\ MaxSkew \in Nat /\ MaxTime \in Nat
           /\ a.started \in Int /\ a.window \in Nat /\ a.locked \in Nat
           /\ Len(s) \in Nat /\ \A d \in 1 .. Len(s) : Back(s, d) \in Nat
<1>1. Moments \in SUBSET Nat
    BY ThrottleAssumption DEF Moments
<1>2. Len(s) \in Nat /\ \A d \in 1 .. Len(s) : Back(s, d) \in Nat
    BY <1>1, BackIsTime
<1>. QED  BY <1>2, ThrottleAssumption DEF Attempts, Time

\* A window that is over, or whose lockout is served, is far from its admissions.
LEMMA OverNow ==
    ASSUME NEW s \in Seq(Moments), NEW a \in Attempts, NEW u \in Nat, NEW t \in Nat, t <= u,
           ClientInv(s, a, u),
           \/ a = NoAttempts
           \/ a.locked # 0 /\ a.locked <= t
           \/ t - a.window > Window
    PROVE  WindowOver(s, u)
<1>1. CASE a = NoAttempts
    BY <1>1 DEF ClientInv
<1>2. CASE a # NoAttempts
    <2>. SUFFICES ASSUME Len(s) >= MaxFailures
                  PROVE  Apart(Back(s, MaxFailures), u)
        BY DEF WindowOver
    <2>1. /\ MaxFailures \in Nat \ {0} /\ Window \in Nat /\ Lockout \in Nat
          /\ MaxSkew \in Nat /\ a.started \in Int /\ a.window \in Nat /\ a.locked \in Nat
          /\ Len(s) \in Nat /\ \A d \in 1 .. Len(s) : Back(s, d) \in Nat
        BY Numbers
    <2>2. WindowOpen(s, a) /\ Sorted(s)
        BY <1>2 DEF ClientInv
    <2>3. /\ 1 \in 1 .. Len(s) /\ MaxFailures \in 1 .. Len(s) /\ a.started \in 1 .. Len(s)
          /\ a.started <= MaxFailures /\ 1 <= MaxFailures
        BY <2>1, <2>2 DEF WindowOpen
    <2>4. Back(s, MaxFailures) <= Back(s, a.started) /\ Back(s, MaxFailures) <= Back(s, 1)
        BY <2>2, <2>3 DEF Sorted
    <2>5. /\ Back(s, MaxFailures) \in Nat /\ Back(s, a.started) \in Nat /\ Back(s, 1) \in Nat
        BY <2>1, <2>3
    <2>6. /\ Back(s, a.started) <= a.window + MaxSkew
          /\ a.locked # 0 => Back(s, 1) + Lockout <= a.locked + MaxSkew
        BY <2>2 DEF WindowOpen
    <2>7. CASE t - a.window > Window
        BY <2>1, <2>4, <2>5, <2>6, <2>7 DEF Apart
    <2>8. CASE a.locked # 0 /\ a.locked <= t
        BY <2>1, <2>4, <2>5, <2>6, <2>8 DEF Apart
    <2>. QED  BY <1>2, <2>7, <2>8
<1>. QED  BY <1>1, <1>2

\* Time passes, and nothing else.
LEMMA ClientWaits ==
    ASSUME NEW s \in Seq(Moments), NEW a \in Attempts, NEW u \in Nat, NEW v \in Nat, u <= v,
           ClientInv(s, a, u)
    PROVE  ClientInv(s, a, v)
<1>1. /\ MaxFailures \in Nat \ {0} /\ Len(s) \in Nat
      /\ \A d \in 1 .. Len(s) : Back(s, d) \in Nat
    BY Numbers
<1>2. \A d \in 1 .. Len(s) : Back(s, d) <= v
    BY <1>1 DEF ClientInv
<1>3. a = NoAttempts => WindowOver(s, v)
    <2>. SUFFICES ASSUME a = NoAttempts, Len(s) >= MaxFailures
                  PROVE  Apart(Back(s, MaxFailures), v)
        BY DEF WindowOver
    <2>1. Apart(Back(s, MaxFailures), u) /\ Back(s, MaxFailures) \in Nat
        BY <1>1 DEF ClientInv, WindowOver
    <2>2. Back(s, MaxFailures) <= Back(s, MaxFailures)
        BY <2>1
    <2>. QED  BY <2>1, <2>2, ApartGrows
<1>. QED  BY <1>2, <1>3 DEF ClientInv

\* state.retain drops an entry that is stale.
LEMMA EntryDropped ==
    ASSUME NEW s \in Seq(Moments), NEW a \in Attempts, NEW u \in Nat, NEW t \in Nat, t <= u,
           ClientInv(s, a, u), IsStale(a, t)
    PROVE  ClientInv(s, NoAttempts, u)
<1>1. WindowOver(s, u)
    BY OverNow DEF IsStale
<1>. QED  BY <1>1 DEF ClientInv

\* The limit is reached: the client is locked out.
LEMMA EntryLocked ==
    ASSUME NEW s \in Seq(Moments), NEW a \in Attempts, NEW u \in Nat, NEW t \in Nat,
           u <= t + MaxSkew, ClientInv(s, a, u), a # NoAttempts
    PROVE  ClientInv(s, [a EXCEPT !.locked = t + Lockout], u)
<1>. DEFINE b == [a EXCEPT !.locked = t + Lockout]
<1>1. b.started = a.started /\ b.window = a.window /\ b.locked = t + Lockout
    BY DEF Attempts
<1>2. /\ MaxFailures \in Nat \ {0} /\ Lockout \in Nat /\ MaxSkew \in Nat
      /\ Len(s) \in Nat /\ \A d \in 1 .. Len(s) : Back(s, d) \in Nat
    BY Numbers
<1>3. WindowOpen(s, a)
    BY DEF ClientInv
<1>4. Back(s, 1) <= u /\ Back(s, 1) \in Nat
    <2>1. 1 \in 1 .. Len(s)
        BY <1>2, <1>3 DEF WindowOpen
    <2>. QED  BY <1>2, <2>1 DEF ClientInv
<1>5. b # NoAttempts
    BY <1>1, <1>2, <1>3 DEF WindowOpen, NoAttempts
<1>. HIDE DEF b
<1>6. WindowOpen(s, b)
    BY <1>1, <1>2, <1>3, <1>4 DEF WindowOpen
<1>7. ClientInv(s, b, u)
    BY <1>5, <1>6 DEF ClientInv
<1>. QED  BY <1>7 DEF b

\* One more admission is in order, and no later than now.
LEMMA RecordedInOrder ==
    ASSUME NEW s \in Seq(Moments), NEW a \in Attempts, NEW u \in Moments, ClientInv(s, a, u)
    PROVE  LET r == Suffix(Append(s, u), 2 * MaxFailures) IN
           /\ r \in Seq(Moments) /\ Len(r) \in Nat /\ Len(r) <= 2 * MaxFailures
           /\ Len(r) = IF Len(s) < 2 * MaxFailures THEN Len(s) + 1 ELSE 2 * MaxFailures
           /\ Back(r, 1) = u /\ \A d \in 2 .. Len(r) : Back(r, d) = Back(s, d - 1)
           /\ Sorted(r) /\ \A d \in 1 .. Len(r) : Back(r, d) <= u
<1>. DEFINE m == 2 * MaxFailures
            r == Suffix(Append(s, u), m)
<1>1. /\ MaxFailures \in Nat \ {0} /\ Len(s) \in Nat /\ m \in Nat \ {0} /\ Len(s) <= m
      /\ \A d \in 1 .. Len(s) : Back(s, d) \in Nat
    BY Numbers DEF ClientInv
<1>. HIDE DEF m
<1>2. /\ r \in Seq(Moments) /\ Len(r) = IF Len(s) < m THEN Len(s) + 1 ELSE m
      /\ Back(r, 1) = u /\ \A d \in 2 .. Len(r) : Back(r, d) = Back(s, d - 1)
    BY <1>1, Recorded
<1>. HIDE DEF r
<1>3. Len(r) \in Nat /\ Len(r) <= m /\ u \in Nat
    BY <1>1, <1>2, ThrottleAssumption DEF Moments
<1>4. \A d \in 2 .. Len(r) : d - 1 \in 1 .. Len(s)
    BY <1>1, <1>2
<1>5. \A d \in 1 .. Len(r) : Back(r, d) <= u
    <2>1. SUFFICES ASSUME NEW d \in 1 .. Len(r) PROVE Back(r, d) <= u
        OBVIOUS
    <2>2. CASE d = 1
        BY <1>2, <1>3, <2>2
    <2>3. CASE d # 1
        <3>1. d \in 2 .. Len(r)
            BY <1>3, <2>3
        <3>. QED  BY <1>2, <1>4, <3>1 DEF ClientInv
    <2>. QED  BY <2>2, <2>3
<1>6. Sorted(r)
    <2>1. SUFFICES ASSUME NEW d \in 1 .. Len(r), NEW e \in 1 .. Len(r), d <= e
                   PROVE  Back(r, e) <= Back(r, d)
        BY DEF Sorted
    <2>2. CASE d = 1
        BY <1>2, <1>5, <2>2
    <2>3. CASE d # 1
        <3>1. d \in 2 .. Len(r) /\ e \in 2 .. Len(r) /\ d - 1 <= e - 1
            BY <1>3, <2>1, <2>3
        <3>2. Back(r, d) = Back(s, d - 1) /\ Back(r, e) = Back(s, e - 1)
            BY <1>2, <3>1
        <3>. QED  BY <1>4, <3>1, <3>2 DEF ClientInv, Sorted
    <2>. QED  BY <2>2, <2>3
<1>. QED  BY <1>2, <1>3, <1>5, <1>6 DEF r, m

\* An admission in the window that is open.
LEMMA AdmittedInWindow ==
    ASSUME NEW s \in Seq(Moments), NEW a \in Attempts, NEW u \in Moments, ClientInv(s, a, u),
           a # NoAttempts, a.locked = 0, a.started < MaxFailures
    PROVE  ClientInv(Suffix(Append(s, u), 2 * MaxFailures), [a EXCEPT !.started = @ + 1], u)
<1>. DEFINE n == MaxFailures
            r == Suffix(Append(s, u), 2 * MaxFailures)
            b == [a EXCEPT !.started = @ + 1]
            k == a.started
<1>1. /\ n \in Nat \ {0} /\ Len(s) \in Nat /\ MaxSkew \in Nat /\ a.window \in Nat
      /\ \A d \in 1 .. Len(s) : Back(s, d) \in Nat
    BY Numbers
<1>2. /\ Len(r) \in Nat /\ Len(r) <= 2 * n
      /\ Len(r) = IF Len(s) < 2 * n THEN Len(s) + 1 ELSE 2 * n
      /\ Back(r, 1) = u /\ \A d \in 2 .. Len(r) : Back(r, d) = Back(s, d - 1)
      /\ Sorted(r) /\ \A d \in 1 .. Len(r) : Back(r, d) <= u
    BY RecordedInOrder
<1>3. b.started = k + 1 /\ b.window = a.window /\ b.locked = 0
    BY DEF Attempts
<1>4. /\ k \in 1 .. n /\ k <= Len(s) /\ Back(s, k) <= a.window + MaxSkew
      /\ Len(s) >= k + n => Apart(Back(s, k + n), Back(s, k))
      /\ Sorted(s) /\ \A d \in 1 .. Len(s) : Back(s, d) <= u
      /\ Len(s) <= 2 * n
    BY DEF ClientInv, WindowOpen
<1>5. k < n /\ u \in Nat
    BY ThrottleAssumption DEF Moments
<1>6. b # NoAttempts
    BY <1>3, <1>4, <1>1 DEF NoAttempts
<1>. HIDE DEF n, r, b, k
<1>7. WindowOpen(r, b)
    <2>1. k + 1 \in 1 .. n /\ k + 1 <= Len(r)
        BY <1>1, <1>2, <1>4, <1>5
    <2>2. Back(r, k + 1) = Back(s, k)
        <3>1. k + 1 \in 2 .. Len(r) /\ (k + 1) - 1 = k
            BY <1>1, <1>2, <1>4, <2>1
        <3>. QED  BY <1>2, <3>1
    <2>3. ASSUME Len(r) >= (k + 1) + n
          PROVE  Apart(Back(r, (k + 1) + n), Back(r, k + 1))
        <3>1. (k + 1) + n \in 2 .. Len(r) /\ ((k + 1) + n) - 1 = k + n /\ Len(s) >= k + n
            BY <1>1, <1>2, <1>4, <2>3
        <3>2. Back(r, (k + 1) + n) = Back(s, k + n)
            BY <1>2, <3>1
        <3>. QED  BY <1>4, <2>2, <3>1, <3>2
    <2>. QED  BY <1>3, <1>4, <2>1, <2>2, <2>3 DEF WindowOpen, n
<1>8. Spread(r)
    <2>. SUFFICES ASSUME Len(r) = 2 * n PROVE Apart(Back(r, 2 * n), Back(r, 1))
        BY DEF Spread, n
    <2>1. /\ 2 * n \in 2 .. Len(r) /\ 2 * n - 1 \in 1 .. Len(s)
          /\ k + n \in 1 .. Len(s) /\ k \in 1 .. Len(s)
          /\ k + n <= 2 * n - 1 /\ Len(s) >= k + n
        BY <1>1, <1>2, <1>4, <1>5
    <2>2. Back(r, 2 * n) = Back(s, 2 * n - 1) /\ Back(r, 1) = u
        BY <1>2, <2>1
    <2>3. Back(s, 2 * n - 1) <= Back(s, k + n) /\ Back(s, k) <= u
        BY <1>4, <2>1 DEF Sorted
    <2>4. Back(s, 2 * n - 1) \in Nat /\ Back(s, k + n) \in Nat /\ Back(s, k) \in Nat
        BY <1>1, <2>1
    <2>5. Apart(Back(s, k + n), Back(s, k))
        BY <1>4, <2>1
    <2>. QED  BY <1>5, <2>2, <2>3, <2>4, <2>5, ApartGrows
<1>9. ClientInv(r, b, u)
    BY <1>2, <1>6, <1>7, <1>8 DEF ClientInv, n
<1>. QED  BY <1>9 DEF r, b

\* An admission that opens a window.
LEMMA AdmittedAfresh ==
    ASSUME NEW s \in Seq(Moments), NEW a \in Attempts, NEW u \in Moments, ClientInv(s, a, u),
           WindowOver(s, u), NEW t \in Nat, u <= t + MaxSkew
    PROVE  ClientInv(Suffix(Append(s, u), 2 * MaxFailures), [Fresh(t) EXCEPT !.started = @ + 1], u)
<1>. DEFINE n == MaxFailures
            r == Suffix(Append(s, u), 2 * MaxFailures)
            b == [Fresh(t) EXCEPT !.started = @ + 1]
<1>1. /\ n \in Nat \ {0} /\ Len(s) \in Nat /\ MaxSkew \in Nat
      /\ \A d \in 1 .. Len(s) : Back(s, d) \in Nat
    BY Numbers
<1>2. /\ Len(r) \in Nat /\ Len(r) <= 2 * n
      /\ Len(r) = IF Len(s) < 2 * n THEN Len(s) + 1 ELSE 2 * n
      /\ Back(r, 1) = u /\ \A d \in 2 .. Len(r) : Back(r, d) = Back(s, d - 1)
      /\ Sorted(r) /\ \A d \in 1 .. Len(r) : Back(r, d) <= u
    BY RecordedInOrder
<1>3. b.started = 1 /\ b.window = t /\ b.locked = 0
    BY DEF Fresh
<1>4. Sorted(s) /\ Len(s) <= 2 * n /\ (Len(s) >= n => Apart(Back(s, n), u))
    BY DEF ClientInv, WindowOver
<1>5. u \in Nat
    BY ThrottleAssumption DEF Moments
<1>6. b # NoAttempts
    BY <1>3 DEF NoAttempts
<1>. HIDE DEF n, r, b
<1>7. WindowOpen(r, b)
    <2>1. 1 \in 1 .. n /\ 1 <= Len(r)
        BY <1>1, <1>2
    <2>2. ASSUME Len(r) >= 1 + n
          PROVE  Apart(Back(r, 1 + n), Back(r, 1))
        <3>1. 1 + n \in 2 .. Len(r) /\ (1 + n) - 1 = n /\ Len(s) >= n
            BY <1>1, <1>2, <2>2
        <3>2. Back(r, 1 + n) = Back(s, n)
            BY <1>2, <3>1
        <3>. QED  BY <1>2, <1>4, <3>1, <3>2
    <2>. QED  BY <1>2, <1>3, <2>1, <2>2 DEF WindowOpen, n
<1>8. Spread(r)
    <2>. SUFFICES ASSUME Len(r) = 2 * n PROVE Apart(Back(r, 2 * n), Back(r, 1))
        BY DEF Spread, n
    <2>1. /\ 2 * n \in 2 .. Len(r) /\ 2 * n - 1 \in 1 .. Len(s)
          /\ n \in 1 .. Len(s) /\ n <= 2 * n - 1 /\ Len(s) >= n
        BY <1>1, <1>2, <1>4
    <2>2. Back(r, 2 * n) = Back(s, 2 * n - 1) /\ Back(r, 1) = u
        BY <1>2, <2>1
    <2>3. Back(s, 2 * n - 1) <= Back(s, n)
        BY <1>4, <2>1 DEF Sorted
    <2>4. Back(s, 2 * n - 1) \in Nat /\ Back(s, n) \in Nat /\ u <= u
        BY <1>1, <1>5, <2>1
    <2>. QED  BY <1>4, <1>5, <2>1, <2>2, <2>3, <2>4, ApartGrows
<1>9. ClientInv(r, b, u)
    BY <1>2, <1>6, <1>7, <1>8 DEF ClientInv, n
<1>. QED  BY <1>9 DEF r, b

-----------------------------------------------------------------------------
(* One call of reserve_at, seen from the entry of its client.              *)

Retained(a, t) == IF IsStale(a, t) THEN NoAttempts ELSE a
Found(a, t) == IF Retained(a, t) = NoAttempts THEN Fresh(t) ELSE Retained(a, t)

\* The call finds no usable entry, or one whose window or lockout is over: it is
\* admitted and opens a window.
Opens(a, t) ==
    /\ ~ LockedAt(Found(a, t), t) /\ Renew(Found(a, t), t) = Fresh(t)
    /\ a = NoAttempts \/ (a.locked # 0 /\ a.locked <= t) \/ t - a.window > Window

\* The call finds an entry that still counts.
Continues(a, t) == a # NoAttempts /\ Found(a, t) = a /\ Renew(a, t) = a /\ a.locked = 0

\* The client is locked out.
Rejects(a, t) == a # NoAttempts /\ Found(a, t) = a /\ LockedAt(a, t)

\* Nothing else can happen to the entry.
LEMMA ThreeOutcomes ==
    ASSUME NEW a \in Attempts, NEW t \in Nat
    PROVE  Opens(a, t) \/ Continues(a, t) \/ Rejects(a, t)
<1>1. a.locked \in Nat /\ a.window \in Nat /\ Window \in Nat
    BY ThrottleAssumption DEF Attempts, Time
<1>2. Fresh(t).locked = 0 /\ Fresh(t).window = t
    BY DEF Fresh
<1>3. CASE IsStale(a, t) \/ a = NoAttempts
    <2>1. Found(a, t) = Fresh(t)
        BY <1>3 DEF Found, Retained
    <2>2. Renew(Fresh(t), t) = Fresh(t) /\ ~ LockedAt(Fresh(t), t)
        BY <1>1, <1>2 DEF Renew, LockedAt
    <2>3. a = NoAttempts \/ t - a.window > Window
        BY <1>3 DEF IsStale
    <2>. QED  BY <2>1, <2>2, <2>3 DEF Opens
<1>4. CASE ~ IsStale(a, t) /\ a # NoAttempts
    <2>1. Found(a, t) = a
        BY <1>4 DEF Found, Retained
    <2>2. CASE LockedAt(a, t)
        BY <1>4, <2>1, <2>2 DEF Rejects
    <2>3. CASE ~ LockedAt(a, t) /\ (a.locked # 0 \/ t - a.window > Window)
        <3>1. Renew(a, t) = Fresh(t)
            BY <2>3 DEF Renew
        <3>2. (a.locked # 0 /\ a.locked <= t) \/ t - a.window > Window
            BY <1>1, <2>3 DEF LockedAt
        <3>. QED  BY <2>1, <2>3, <3>1, <3>2 DEF Opens
    <2>4. CASE ~ (a.locked # 0 \/ t - a.window > Window)
        <3>1. Renew(a, t) = a
            BY <2>4 DEF Renew
        <3>. QED  BY <1>4, <2>1, <2>4, <3>1 DEF Continues
    <2>. QED  BY <2>2, <2>3, <2>4
<1>. QED  BY <1>3, <1>4

\* A client that is locked out keeps its entry.
LEMMA CallRejected ==
    ASSUME NEW s \in Seq(Moments), NEW a \in Attempts, NEW u \in Nat, NEW t \in Nat,
           ClientInv(s, a, u), LockedAt(Found(a, t), t)
    PROVE  Found(a, t) \in Attempts /\ ClientInv(s, Found(a, t), u)
<1>1. ~ Opens(a, t)
    BY DEF Opens
<1>2. CASE Continues(a, t)
    BY <1>2 DEF Continues
<1>3. CASE Rejects(a, t)
    BY <1>3 DEF Rejects
<1>. QED  BY <1>1, <1>2, <1>3, ThreeOutcomes

\* A call beyond the limit starts the lockout.
LEMMA CallLocksOut ==
    ASSUME NEW s \in Seq(Moments), NEW a \in Attempts, NEW u \in Nat, NEW t \in Nat,
           t <= MaxTime, u <= t + MaxSkew, ClientInv(s, a, u),
           ~ LockedAt(Found(a, t), t), LimitReached(Renew(Found(a, t), t))
    PROVE  LET b == [Renew(Found(a, t), t) EXCEPT !.locked = t + Lockout] IN
           b \in Attempts /\ ClientInv(s, b, u)
<1>1. ~ Opens(a, t)
    BY ThrottleAssumption DEF Opens, LimitReached, Fresh
<1>2. ~ Rejects(a, t)
    BY DEF Rejects
<1>3. a # NoAttempts /\ Found(a, t) = a /\ Renew(a, t) = a
    BY <1>1, <1>2, ThreeOutcomes DEF Continues
<1>4. [a EXCEPT !.locked = t + Lockout] \in Attempts
    <2>1. t + Lockout \in Time
        BY ThrottleAssumption DEF Time
    <2>. QED  BY <2>1 DEF Attempts
<1>5. ClientInv(s, [a EXCEPT !.locked = t + Lockout], u)
    BY <1>3, EntryLocked
<1>. QED  BY <1>3, <1>4, <1>5

\* A call below the limit is admitted, in the window that is open or in a new one.
LEMMA CallAdmitted ==
    ASSUME NEW s \in Seq(Moments), NEW a \in Attempts, NEW u \in Moments, NEW t \in Nat,
           t <= u, u <= t + MaxSkew, ClientInv(s, a, u),
           ~ LockedAt(Found(a, t), t), ~ LimitReached(Renew(Found(a, t), t))
    PROVE  LET b == [Renew(Found(a, t), t) EXCEPT !.started = @ + 1]
               r == Suffix(Append(s, u), 2 * MaxFailures)
           IN  b \in Attempts /\ r \in Seq(Moments) /\ ClientInv(r, b, u)
<1>. DEFINE r == Suffix(Append(s, u), 2 * MaxFailures)
<1>1. r \in Seq(Moments)
    BY RecordedInOrder
<1>2. u \in Nat /\ u <= MaxTime
    BY ThrottleAssumption DEF Moments
<1>. HIDE DEF r
<1>3. CASE Opens(a, t)
    <2>1. Renew(Found(a, t), t) = Fresh(t)
        BY <1>3 DEF Opens
    <2>2. WindowOver(s, u)
        BY <1>2, <1>3, OverNow DEF Opens
    <2>3. ClientInv(r, [Fresh(t) EXCEPT !.started = @ + 1], u)
        BY <2>2, AdmittedAfresh DEF r
    <2>4. [Fresh(t) EXCEPT !.started = @ + 1] \in Attempts
        <3>1. t \in Time /\ 0 \in Time /\ 1 \in -1 .. MaxFailures
            BY <1>2, ThrottleAssumption DEF Time
        <3>. QED  BY <3>1 DEF Fresh, Attempts
    <2>. QED  BY <1>1, <2>1, <2>3, <2>4 DEF r
<1>4. CASE Continues(a, t)
    <2>1. a # NoAttempts /\ Renew(Found(a, t), t) = a /\ a.locked = 0
        BY <1>4 DEF Continues
    <2>2. a.started \in -1 .. MaxFailures /\ a.started < MaxFailures
        BY <2>1, ThrottleAssumption DEF LimitReached, Attempts
    <2>3. ClientInv(r, [a EXCEPT !.started = @ + 1], u)
        BY <2>1, <2>2, AdmittedInWindow DEF r
    <2>4. [a EXCEPT !.started = @ + 1] \in Attempts
        <3>1. a.started + 1 \in -1 .. MaxFailures
            BY <2>2, ThrottleAssumption
        <3>. QED  BY <3>1 DEF Attempts
    <2>. QED  BY <1>1, <2>1, <2>3, <2>4 DEF r
<1>5. ~ Rejects(a, t)
    BY DEF Rejects
<1>. QED  BY <1>3, <1>4, <1>5, ThreeOutcomes

-----------------------------------------------------------------------------
(* The invariant.                                                          *)

Places == {"idle", "stamped", "admitted", "hashing", "hashed", "gone"}

\* What holds of every client.
ClientsKept ==
    /\ state \in [Clients -> Attempts] /\ admitted \in [Clients -> Seq(Moments)]
    /\ \A c \in Clients : ClientInv(admitted[c], state[c], now)

\* Where the handlers are, and when they read the clock.
HandlersKept ==
    /\ now \in Moments /\ client \in [Logins -> Clients] /\ pc \in [Logins -> Places]
    /\ stamp \in [Logins -> 0 .. MaxTime] /\ StampsFresh

LEMMA BurstParts == BurstInv <=> ClientsKept /\ HandlersKept /\ free \in 0 .. HashSlots /\ hashing \subseteq Logins
BY DEF BurstInv, ClientsKept, HandlersKept, TypeOK, Attempts, Moments, Places

\* A client without entry and without admissions.
LEMMA ForgottenClient ==
    ASSUME NEW u \in Nat
    PROVE  NoAttempts \in Attempts /\ <<>> \in Seq(Moments) /\ ClientInv(<<>>, NoAttempts, u)
<1>1. NoAttempts \in Attempts
    BY ThrottleAssumption DEF NoAttempts, Attempts, Time
<1>2. <<>> \in Seq(Moments) /\ Len(<<>>) = 0
    BY EmptySeq
<1>3. ClientInv(<<>>, NoAttempts, u)
    BY <1>2, ThrottleAssumption DEF ClientInv, Sorted, WindowOver, Spread
<1>. QED  BY <1>1, <1>2, <1>3

\* The map after reserve_at: the entry of the caller is written, stale entries of
\* the others are dropped.
LEMMA CallKeepsClients ==
    ASSUME ClientsKept, HandlersKept, NEW c \in Clients, NEW t \in Nat, t <= now, now' = now,
           NEW b \in Attempts, NEW r \in Seq(Moments), ClientInv(r, b, now),
           state' = [Retain(t) EXCEPT ![c] = b], admitted' = [admitted EXCEPT ![c] = r]
    PROVE  ClientsKept'
<1>1. now \in Nat
    BY ThrottleAssumption DEF HandlersKept, Moments
<1>2. ASSUME NEW d \in Clients
      PROVE  /\ state'[d] \in Attempts /\ admitted'[d] \in Seq(Moments)
             /\ ClientInv(admitted'[d], state'[d], now')
    <2>1. CASE d = c
        <3>1. state'[d] = b /\ admitted'[d] = r
            BY <2>1 DEF Retain, ClientsKept
        <3>. QED  BY <3>1
    <2>2. CASE d # c
        <3>1. admitted'[d] = admitted[d]
            BY <2>2 DEF ClientsKept
        <3>2. state'[d] = IF IsStale(state[d], t) THEN NoAttempts ELSE state[d]
            BY <2>2 DEF Retain
        <3>3. /\ state[d] \in Attempts /\ admitted[d] \in Seq(Moments)
              /\ ClientInv(admitted[d], state[d], now)
            BY DEF ClientsKept
        <3>4. CASE IsStale(state[d], t)
            <4>1. ClientInv(admitted[d], NoAttempts, now)
                BY <1>1, <3>3, <3>4, EntryDropped
            <4>. QED  BY <1>1, <3>1, <3>2, <3>3, <3>4, <4>1, ForgottenClient
        <3>5. CASE ~ IsStale(state[d], t)
            BY <3>1, <3>2, <3>3, <3>5
        <3>. QED  BY <3>4, <3>5
    <2>. QED  BY <2>1, <2>2
<1>3. state' = [d \in Clients |-> state'[d]] /\ admitted' = [d \in Clients |-> admitted'[d]]
    BY DEF Retain, ClientsKept
<1>. QED  BY <1>2, <1>3 DEF ClientsKept

\* Reserve, whatever it decides.
LEMMA ReserveKeepsClients ==
    ASSUME ClientsKept, HandlersKept, NEW l \in Logins, Reserve(l)
    PROVE  ClientsKept'
<1>. DEFINE c == client[l]
            t == stamp[l]
            s == admitted[c]
            a == state[c]
<1>1. /\ c \in Clients /\ t \in Nat /\ t <= MaxTime /\ t <= now /\ now <= t + MaxSkew
      /\ now' = now /\ now \in Moments /\ now \in Nat
    BY ThrottleAssumption DEF Reserve, HandlersKept, StampsFresh, Moments
<1>2. a \in Attempts /\ s \in Seq(Moments) /\ ClientInv(s, a, now)
    BY <1>1 DEF ClientsKept
<1>3. EntryAt(c, t) = Found(a, t)
    BY <1>1 DEF EntryAt, Retain, Found, Retained
<1>4. admitted = [admitted EXCEPT ![c] = s]
    BY <1>1 DEF ClientsKept
<1>5. \/ /\ LockedAt(Found(a, t), t)
         /\ state' = [Retain(t) EXCEPT ![c] = Found(a, t)]
         /\ admitted' = admitted
      \/ /\ ~ LockedAt(Found(a, t), t) /\ LimitReached(Renew(Found(a, t), t))
         /\ state' = [Retain(t) EXCEPT ![c] = [Renew(Found(a, t), t) EXCEPT !.locked = t + Lockout]]
         /\ admitted' = admitted
      \/ /\ ~ LockedAt(Found(a, t), t) /\ ~ LimitReached(Renew(Found(a, t), t))
         /\ state' = [Retain(t) EXCEPT ![c] = [Renew(Found(a, t), t) EXCEPT !.started = @ + 1]]
         /\ admitted' = [admitted EXCEPT ![c] = Suffix(Append(s, now), 2 * MaxFailures)]
    BY <1>3, Zenon DEF Reserve
<1>. HIDE DEF c, t, s, a
<1>6. CASE LockedAt(Found(a, t), t) /\ state' = [Retain(t) EXCEPT ![c] = Found(a, t)]
           /\ admitted' = admitted
    <2>1. Found(a, t) \in Attempts /\ ClientInv(s, Found(a, t), now)
        BY <1>1, <1>2, <1>6, CallRejected
    <2>. QED  BY <1>1, <1>2, <1>4, <1>6, <2>1, CallKeepsClients
<1>7. CASE /\ ~ LockedAt(Found(a, t), t) /\ LimitReached(Renew(Found(a, t), t))
           /\ state' = [Retain(t) EXCEPT ![c] = [Renew(Found(a, t), t) EXCEPT !.locked = t + Lockout]]
           /\ admitted' = admitted
    <2>. DEFINE b == [Renew(Found(a, t), t) EXCEPT !.locked = t + Lockout]
    <2>1. b \in Attempts /\ ClientInv(s, b, now)
        BY <1>1, <1>2, <1>7, CallLocksOut
    <2>2. state' = [Retain(t) EXCEPT ![c] = b] /\ admitted' = [admitted EXCEPT ![c] = s]
        BY <1>4, <1>7
    <2>. HIDE DEF b
    <2>. QED  BY <1>1, <1>2, <2>1, <2>2, CallKeepsClients
<1>8. CASE /\ ~ LockedAt(Found(a, t), t) /\ ~ LimitReached(Renew(Found(a, t), t))
           /\ state' = [Retain(t) EXCEPT ![c] = [Renew(Found(a, t), t) EXCEPT !.started = @ + 1]]
           /\ admitted' = [admitted EXCEPT ![c] = Suffix(Append(s, now), 2 * MaxFailures)]
    <2>. DEFINE b == [Renew(Found(a, t), t) EXCEPT !.started = @ + 1]
                r == Suffix(Append(s, now), 2 * MaxFailures)
    <2>1. b \in Attempts /\ r \in Seq(Moments) /\ ClientInv(r, b, now)
        BY <1>1, <1>2, <1>8, CallAdmitted
    <2>2. state' = [Retain(t) EXCEPT ![c] = b] /\ admitted' = [admitted EXCEPT ![c] = r]
        BY <1>8
    <2>. HIDE DEF b, r
    <2>. QED  BY <1>1, <1>2, <2>1, <2>2, CallKeepsClients
<1>. QED  BY <1>5, <1>6, <1>7, <1>8

\* A success forgets the attempts of the client; any other verdict leaves them.
LEMMA ResumeKeepsClients ==
    ASSUME ClientsKept, HandlersKept, NEW l \in Logins, Resume(l)
    PROVE  ClientsKept'
<1>1. client[l] \in Clients /\ now' = now /\ now \in Nat
    BY ThrottleAssumption DEF Resume, HandlersKept, Moments
<1>2. CASE UNCHANGED <<state, admitted>>
    BY <1>1, <1>2 DEF ClientsKept
<1>3. CASE /\ state' = [state EXCEPT ![client[l]] = NoAttempts]
           /\ admitted' = [admitted EXCEPT ![client[l]] = <<>>]
    <2>1. NoAttempts \in Attempts /\ <<>> \in Seq(Moments) /\ ClientInv(<<>>, NoAttempts, now)
        BY <1>1, ForgottenClient
    <2>. QED  BY <1>1, <1>3, <2>1 DEF ClientsKept
<1>. QED  BY <1>2, <1>3 DEF Resume

\* Time passes for every client.
LEMMA TickKeepsClients ==
    ASSUME ClientsKept, HandlersKept, Tick
    PROVE  ClientsKept'
<1>1. now \in Nat /\ now' \in Nat /\ now <= now' /\ state' = state /\ admitted' = admitted
    BY ThrottleAssumption DEF Tick, HandlersKept, Moments
<1>2. ASSUME NEW c \in Clients PROVE ClientInv(admitted[c], state[c], now')
    <2>1. /\ state[c] \in Attempts /\ admitted[c] \in Seq(Moments)
          /\ ClientInv(admitted[c], state[c], now)
        BY DEF ClientsKept
    <2>. QED  BY <1>1, <2>1, ClientWaits
<1>. QED  BY <1>1, <1>2 DEF ClientsKept

\* What the handlers do to their own state: a login that is stamped keeps its time,
\* and time does not pass it by.
LEMMA HandlersStep ==
    ASSUME HandlersKept, [Next]_vars
    PROVE  HandlersKept'
<1>. USE DEF HandlersKept, StampsFresh, Moments, Places
<1>0. MaxTime \in Nat /\ MaxSkew \in Nat /\ now \in Nat
    BY ThrottleAssumption
<1>1. ASSUME NEW l \in Logins, ReadClock(l) PROVE HandlersKept'
    BY <1>0, <1>1 DEF ReadClock
<1>2. ASSUME NEW l \in Logins, Reserve(l) PROVE HandlersKept'
    <2>1. /\ stamp' = [stamp EXCEPT ![l] = 0] /\ UNCHANGED <<now, client>>
          /\ \E place \in {"idle", "admitted"} : pc' = [pc EXCEPT ![l] = place]
        BY <1>2, Zenon DEF Reserve
    <2>. QED  BY <1>0, <2>1
<1>3. ASSUME NEW l \in Logins, HashPermit(l) PROVE HandlersKept'
    BY <1>0, <1>3 DEF HashPermit
<1>4. ASSUME NEW l \in Logins, HashEnds(l) PROVE HandlersKept'
    BY <1>0, <1>4 DEF HashEnds
<1>5. ASSUME NEW l \in Logins, Resume(l) PROVE HandlersKept'
    BY <1>0, <1>5 DEF Resume
<1>6. ASSUME NEW l \in Logins, Disconnect(l) PROVE HandlersKept'
    BY <1>0, <1>6 DEF Disconnect
<1>7. CASE Tick
    BY <1>0, <1>7 DEF Tick
<1>8. CASE UNCHANGED vars
    BY <1>0, <1>8 DEF vars
<1>. QED
    BY <1>1, <1>2, <1>3, <1>4, <1>5, <1>6, <1>7, <1>8 DEF Next, Login

\* Only reserve, a success and the clock concern the clients.
LEMMA ClientsStep ==
    ASSUME ClientsKept, HandlersKept, [Next]_vars
    PROVE  ClientsKept'
<1>1. ASSUME UNCHANGED <<now, state, admitted>> PROVE ClientsKept'
    BY <1>1 DEF ClientsKept
<1>2. ASSUME NEW l \in Logins, ReadClock(l) \/ HashPermit(l) \/ HashEnds(l) \/ Disconnect(l)
      PROVE  ClientsKept'
    BY <1>1, <1>2, Zenon DEF ReadClock, HashPermit, HashEnds, Disconnect
<1>3. ASSUME UNCHANGED vars PROVE ClientsKept'
    BY <1>1, <1>3 DEF vars
<1>. QED
    BY <1>2, <1>3, ReserveKeepsClients, ResumeKeepsClients, TickKeepsClients DEF Next, Login

\* The invariant holds: permits are conserved, and every client's admissions fall
\* into windows that are apart.
THEOREM BurstInvariant == Spec => [](BurstInv /\ PermitsConserved)
<1>1. Init => BurstInv /\ PermitsConserved
    <2>. SUFFICES ASSUME Init PROVE BurstInv /\ PermitsConserved
        OBVIOUS
    <2>1. Cardinality(hashing) = 0 /\ hashing = {} /\ free = HashSlots /\ HashSlots \in Nat
        BY FS_EmptySet, ThrottleAssumption DEF Init
    <2>2. PermitsConserved
        BY <2>1, ThrottleAssumption DEF Init, PermitsConserved
    <2>3. HandlersKept
        BY ThrottleAssumption DEF Init, HandlersKept, StampsFresh, Moments, Places
    <2>4. ClientsKept
        <3>1. now \in Nat /\ now = 1
            BY DEF Init
        <3>2. NoAttempts \in Attempts /\ <<>> \in Seq(Moments) /\ ClientInv(<<>>, NoAttempts, now)
            BY <3>1, ForgottenClient
        <3>. QED  BY <3>2 DEF Init, ClientsKept
    <2>. QED  BY <2>1, <2>2, <2>3, <2>4, BurstParts
<1>2. BurstInv /\ PermitsConserved /\ [Next]_vars => (BurstInv /\ PermitsConserved)'
    <2>. SUFFICES ASSUME BurstInv, PermitsConserved, [Next]_vars
                  PROVE  BurstInv' /\ PermitsConserved'
        OBVIOUS
    <2>1. PermitsConserved'
        BY PermitsStep
    <2>2. ClientsKept /\ HandlersKept
        BY BurstParts
    <2>3. ClientsKept' /\ HandlersKept'
        BY <2>2, ClientsStep, HandlersStep
    <2>4. (free \in 0 .. HashSlots)' /\ (hashing \subseteq Logins)'
        <3>1. hashing' \subseteq Logins /\ free' \in Nat /\ free' + Cardinality(hashing') = HashSlots
            BY <2>1 DEF PermitsConserved
        <3>2. Cardinality(hashing') \in Nat
            BY <3>1, ThrottleAssumption, FS_Subset, FS_CardinalityType
        <3>. QED  BY <3>1, <3>2, ThrottleAssumption
    <2>5. BurstInv' <=> (ClientsKept /\ HandlersKept /\ free \in 0 .. HashSlots /\ hashing \subseteq Logins)'
        BY BurstParts, PTL
    <2>. QED  BY <2>1, <2>3, <2>4, <2>5
<1>. QED  BY <1>1, <1>2, PTL DEF Spec

\* The throttle's state keeps its shape: counters stay within the limit, lockouts
\* end in time, and there are never more free permits than slots.
THEOREM ThrottleTypeCorrect == Spec => []TypeOK
<1>1. BurstInv => TypeOK
    BY DEF BurstInv
<1>. QED  BY <1>1, BurstInvariant, PTL

\* However requests overlap, and whatever they read the clock as, 2 * max_failures
\* guesses of one client between two successes take more than a window or at least
\* a lockout, up to the time lost before the mutex.
THEOREM BurstsAlwaysBounded == Spec => []BurstBounded
<1>1. BurstInv => BurstBounded
    <2>. SUFFICES ASSUME BurstInv, NEW c \in Clients, Len(admitted[c]) = 2 * MaxFailures
                  PROVE  LET s == admitted[c]
                             span == s[Len(s)] - s[1]
                         IN  span > Window - MaxSkew \/ span >= Lockout - MaxSkew
        BY Zenon DEF BurstBounded
    <2>. DEFINE s == admitted[c]
    <2>1. s \in Seq(Moments) /\ Spread(s) /\ Len(s) = 2 * MaxFailures /\ MaxFailures \in Nat \ {0}
        BY ThrottleAssumption DEF BurstInv, ClientInv, TypeOK, Moments
    <2>. HIDE DEF s
    <2>2. Back(s, 2 * MaxFailures) = s[1] /\ Back(s, 1) = s[Len(s)]
        BY <2>1 DEF Back
    <2>3. Apart(s[1], s[Len(s)])
        BY <2>1, <2>2 DEF Spread
    <2>. QED  BY <2>3 DEF Apart, s
<1>. QED  BY <1>1, BurstInvariant, PTL
=============================================================================
