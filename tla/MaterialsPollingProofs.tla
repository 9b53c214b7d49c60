------------------------ MODULE MaterialsPollingProofs ------------------------
(***************************************************************************)
(* The panel shows its own partner only, a closed panel does not poll and  *)
(* polling does not die, for any number of partners, materials, calls in   *)
(* flight and failures.                                                    *)
(***************************************************************************)
EXTENDS MaterialsPolling, TLAPS

\* The epoch of an open panel is the current one; that of a closed one is past.
ActiveEpoch ==
    /\ Mounted => active = epoch /\ epoch # 0
    /\ ~Mounted /\ epoch # 0 => active # epoch

\* A read of the current epoch is a read of the open partner, and an answer lists
\* nothing but materials of the partner it was asked for.
ReadsTagged ==
    \A r \in Reads : reads[r].at # "idle" =>
        /\ reads[r].epoch # 0
        /\ reads[r].epoch = epoch => Mounted /\ reads[r].partner = partner
        /\ \A m \in Materials : reads[r].items[m] # "none" => OwnerOf(m) = reads[r].partner

\* A write of the current epoch is about a material of the open partner.
WritesTagged ==
    \A w \in Writes : writes[w].at # "idle" =>
        /\ writes[w].epoch # 0 /\ writes[w].material \in Materials
        /\ writes[w].epoch = epoch => Mounted /\ OwnerOf(writes[w].material) = partner

\* An armed timer is the open panel's.
TimerTagged ==
    timer # NoTimer => Mounted /\ timer.epoch = epoch /\ timer.partner = partner

PollingInv ==
    /\ TypeOK /\ ActiveEpoch /\ ReadsTagged /\ WritesTagged /\ TimerTagged
    /\ ShowsOnlyItsPartner /\ PendingIsPolled

-----------------------------------------------------------------------------
(* What a step does to the calls in flight.                                *)

ReadSet(e) == [at : {"idle", "sent", "answered", "failed"}, kind : {"load", "poll"},
               epoch : 0..e, partner : Partners \cup {Nobody}, items : List]
WriteSet(e) == [at : {"idle", "sent", "answered"}, kind : {"upload", "retry"}, epoch : 0..e,
                material : Materials \cup {Nobody}, status : Status]

\* One read, or one write, becomes c and every other one stays.
OnlyRead(r, c) ==
    /\ reads' \in [Reads -> ReadSet(epoch')]
    /\ reads'[r] = c
    /\ \A q \in Reads : q # r => reads'[q] = reads[q]

OnlyWrite(w, c) ==
    /\ writes' \in [Writes -> WriteSet(epoch')]
    /\ writes'[w] = c
    /\ \A q \in Writes : q # w => writes'[q] = writes[q]

LEMMA CallTypes ==
    ASSUME TypeOK
    PROVE  /\ reads \in [Reads -> ReadSet(epoch)] /\ writes \in [Writes -> WriteSet(epoch)]
           /\ epoch \in Nat /\ active \in 0..epoch /\ MaxEpoch \in Nat
BY PollingAssumption DEF TypeOK, ReadSet, WriteSet

\* The epoch of a call stays one that has been.
LEMMA EpochsGrow ==
    ASSUME NEW e \in Nat, NEW f \in Nat, e <= f
    PROVE  ReadSet(e) \subseteq ReadSet(f) /\ WriteSet(e) \subseteq WriteSet(f)
BY DEF ReadSet, WriteSet

LEMMA NothingCalled ==
    ASSUME NEW e \in Nat
    PROVE  /\ NoRead \in ReadSet(e) /\ NoRead.at = "idle"
           /\ NoWrite \in WriteSet(e) /\ NoWrite.at = "idle"
BY DEF NoRead, NoWrite, ReadSet, WriteSet, List, EmptyList, Status

LEMMA ReadReplaced ==
    ASSUME TypeOK, NEW r \in Reads, epoch' \in Nat, epoch <= epoch', NEW c \in ReadSet(epoch'),
           reads' = [reads EXCEPT ![r] = c]
    PROVE  OnlyRead(r, c)
<1>1. reads \in [Reads -> ReadSet(epoch')]
    BY CallTypes, EpochsGrow
<1>. QED  BY <1>1 DEF OnlyRead

LEMMA WriteReplaced ==
    ASSUME TypeOK, NEW w \in Writes, epoch' = epoch, NEW c \in WriteSet(epoch),
           writes' = [writes EXCEPT ![w] = c]
    PROVE  OnlyWrite(w, c)
BY CallTypes DEF OnlyWrite

\* Calls that a step leaves alone keep their type.
LEMMA CallsLeft ==
    ASSUME TypeOK, epoch' \in Nat, epoch <= epoch'
    PROVE  /\ reads' = reads => reads' \in [Reads -> ReadSet(epoch')]
           /\ writes' = writes => writes' \in [Writes -> WriteSet(epoch')]
BY CallTypes, EpochsGrow

\* A read that has just been sent.
SentRead(kind, e, p) ==
    [NoRead EXCEPT !.at = "sent", !.kind = kind, !.epoch = e, !.partner = p]

LEMMA SentReadIs ==
    ASSUME NEW f \in Nat, NEW kind \in {"load", "poll"}, NEW e \in 0..f,
           NEW p \in Partners \cup {Nobody}
    PROVE  /\ SentRead(kind, e, p) \in ReadSet(f)
           /\ SentRead(kind, e, p).at = "sent" /\ SentRead(kind, e, p).epoch = e
           /\ SentRead(kind, e, p).partner = p
           /\ \A m \in Materials : SentRead(kind, e, p).items[m] = "none"
<1>1. NoRead \in ReadSet(f) /\ NoRead.items = EmptyList
    BY NothingCalled DEF NoRead
<1>2. \A m \in Materials : EmptyList[m] = "none"
    BY DEF EmptyList
<1>. QED  BY <1>1, <1>2 DEF ReadSet, SentRead

LEMMA Fetched ==
    ASSUME TypeOK, epoch' \in Nat, epoch <= epoch', NEW r \in Reads,
           NEW kind \in {"load", "poll"}, NEW e \in 0..epoch', NEW p \in Partners \cup {Nobody},
           Fetch(r, kind, e, p)
    PROVE  OnlyRead(r, SentRead(kind, e, p))
<1>1. SentRead(kind, e, p) \in ReadSet(epoch')
    BY SentReadIs
<1>2. reads' = [reads EXCEPT ![r] = SentRead(kind, e, p)]
    BY DEF Fetch, SentRead
<1>. QED  BY <1>1, <1>2, ReadReplaced

LEMMA NothingShown ==
    /\ EmptyList \in List /\ ~HasPending(EmptyList)
    /\ \A m \in Materials : EmptyList[m] = "none"
BY DEF EmptyList, List, Status, HasPending

-----------------------------------------------------------------------------
(* Every step keeps the invariant.                                         *)

LEMMA OpenKeeps ==
    ASSUME PollingInv, NEW p \in Partners, Open(p)
    PROVE  PollingInv'
<1>. DEFINE e == IF Mounted THEN epoch + 2 ELSE epoch + 1
<1>1. PICK r \in Free : Fetch(r, "load", e, p)
    BY DEF Open
<1>2. /\ epoch' = e /\ active' = e /\ partner' = p /\ shown' = EmptyList /\ error' = FALSE
      /\ timer' = NoTimer /\ e <= MaxEpoch
      /\ UNCHANGED <<server, runs, writes, failures>>
    BY DEF Open
<1>3. e \in Nat /\ epoch < e /\ e # 0 /\ e \in 0..MaxEpoch /\ epoch \in Nat
    BY <1>2, CallTypes DEF PollingInv
<1>. HIDE DEF e
<1>4. r \in Reads /\ OnlyRead(r, SentRead("load", e, p))
    <2>1. r \in Reads
        BY DEF Free
    <2>2. epoch' \in Nat /\ epoch <= epoch' /\ e \in 0..epoch'
        BY <1>2, <1>3
    <2>. QED  BY <1>1, <2>1, <2>2, Fetched DEF PollingInv
<1>5. p # Nobody /\ Mounted'
    BY <1>2, PollingAssumption DEF Mounted
<1>6. TypeOK'
    <2>1. writes' \in [Writes -> WriteSet(epoch')]
        BY <1>2, <1>3, CallsLeft DEF PollingInv
    <2>2. epoch' \in 0..MaxEpoch /\ active' \in 0..epoch'
        BY <1>2, <1>3
    <2>3. timer' \in [epoch : 0..epoch', partner : Partners \cup {Nobody}]
        BY <1>2, <1>3 DEF NoTimer
    <2>. QED  BY <1>2, <1>4, <2>1, <2>2, <2>3, NothingShown
              DEF PollingInv, TypeOK, OnlyRead, ReadSet, WriteSet
<1>7. ActiveEpoch'
    BY <1>2, <1>3, <1>5 DEF ActiveEpoch
<1>8. ReadsTagged'
    <2>1. SUFFICES ASSUME NEW q \in Reads, reads'[q].at # "idle"
                   PROVE  /\ reads'[q].epoch # 0
                          /\ reads'[q].epoch = epoch' => Mounted' /\ reads'[q].partner = partner'
                          /\ \A m \in Materials : reads'[q].items[m] # "none"
                                => OwnerOf(m) = reads'[q].partner
        BY DEF ReadsTagged
    <2>2. CASE q = r
        BY <1>2, <1>3, <1>4, <1>5, <2>2, SentReadIs DEF OnlyRead
    <2>3. CASE q # r
        <3>1. reads'[q] = reads[q] /\ reads[q].epoch \in 0..epoch
            BY <1>4, <2>3, CallTypes DEF OnlyRead, PollingInv, ReadSet
        <3>2. reads[q].epoch # epoch'
            BY <1>2, <1>3, <3>1
        <3>. QED  BY <2>1, <3>1, <3>2 DEF PollingInv, ReadsTagged
    <2>. QED  BY <2>2, <2>3
<1>9. WritesTagged'
    <2>1. \A w \in Writes : writes[w].epoch \in 0..epoch
        BY CallTypes DEF PollingInv, WriteSet
    <2>2. \A w \in Writes : writes[w].epoch # epoch'
        BY <1>2, <1>3, <2>1
    <2>. QED  BY <1>2, <2>2 DEF PollingInv, WritesTagged
<1>10. TimerTagged' /\ ShowsOnlyItsPartner' /\ PendingIsPolled'
    BY <1>2, NothingShown DEF TimerTagged, ShowsOnlyItsPartner, PendingIsPolled, HasPending
<1>. QED  BY <1>6, <1>7, <1>8, <1>9, <1>10 DEF PollingInv

LEMMA CloseKeeps ==
    ASSUME PollingInv, Close
    PROVE  PollingInv'
<1>1. /\ Mounted /\ epoch' = epoch + 1 /\ partner' = Nobody /\ shown' = EmptyList
      /\ timer' = NoTimer /\ epoch < MaxEpoch
      /\ UNCHANGED <<server, runs, active, error, reads, writes, failures>>
    BY DEF Close
<1>2. epoch \in Nat /\ epoch' \in Nat /\ epoch' \in 0..MaxEpoch /\ active \in 0..epoch
    BY <1>1, CallTypes DEF PollingInv
<1>3. ~Mounted'
    BY <1>1 DEF Mounted
<1>4. TypeOK'
    <2>1. /\ writes' \in [Writes -> WriteSet(epoch')] /\ reads' \in [Reads -> ReadSet(epoch')]
        BY <1>1, <1>2, CallsLeft DEF PollingInv
    <2>2. active' \in 0..epoch'
        BY <1>1, <1>2
    <2>3. timer' \in [epoch : 0..epoch', partner : Partners \cup {Nobody}]
        BY <1>1, <1>2 DEF NoTimer
    <2>. QED  BY <1>1, <1>2, <2>1, <2>2, <2>3, NothingShown
              DEF PollingInv, TypeOK, ReadSet, WriteSet
<1>5. ActiveEpoch'
    BY <1>1, <1>2, <1>3 DEF ActiveEpoch
<1>6. ReadsTagged'
    <2>1. \A r \in Reads : reads[r].epoch \in 0..epoch
        BY CallTypes DEF PollingInv, ReadSet
    <2>2. \A r \in Reads : reads[r].epoch # epoch'
        BY <1>1, <1>2, <2>1
    <2>. QED  BY <1>1, <2>2 DEF PollingInv, ReadsTagged
<1>7. WritesTagged'
    <2>1. \A w \in Writes : writes[w].epoch \in 0..epoch
        BY CallTypes DEF PollingInv, WriteSet
    <2>2. \A w \in Writes : writes[w].epoch # epoch'
        BY <1>1, <1>2, <2>1
    <2>. QED  BY <1>1, <2>2 DEF PollingInv, WritesTagged
<1>8. TimerTagged' /\ ShowsOnlyItsPartner' /\ PendingIsPolled'
    BY <1>1, <1>3, NothingShown DEF TimerTagged, ShowsOnlyItsPartner, PendingIsPolled
<1>. QED  BY <1>4, <1>5, <1>6, <1>7, <1>8 DEF PollingInv

Timers == [epoch : 0..epoch, partner : Partners \cup {Nobody}]

ReadTagged(c) ==
    /\ c.epoch # 0
    /\ c.epoch = epoch => Mounted /\ c.partner = partner
    /\ \A m \in Materials : c.items[m] # "none" => OwnerOf(m) = c.partner

WriteTagged(c) ==
    /\ c.epoch # 0 /\ c.material \in Materials
    /\ c.epoch = epoch => Mounted /\ OwnerOf(c.material) = partner

\* One read changes while the panel stays open, or closed.
LEMMA ReadStep ==
    ASSUME PollingInv, NEW r \in Reads, NEW c, OnlyRead(r, c),
           c.at # "idle" => ReadTagged(c),
           UNCHANGED <<server, runs, partner, epoch, active, writes>>,
           failures' \in 0..MaxFailures, shown' \in List, error' \in BOOLEAN, timer' \in Timers,
           TimerTagged', ShowsOnlyItsPartner', PendingIsPolled'
    PROVE  PollingInv'
<1>1. TypeOK'
    BY DEF PollingInv, TypeOK, OnlyRead, ReadSet, Timers
<1>2. ActiveEpoch' /\ WritesTagged'
    BY DEF PollingInv, ActiveEpoch, WritesTagged, Mounted
<1>3. ReadsTagged'
    <2>1. SUFFICES ASSUME NEW q \in Reads, reads'[q].at # "idle"
                   PROVE  ReadTagged(reads'[q])
        BY DEF ReadsTagged, ReadTagged, Mounted
    <2>2. CASE q = r
        BY <2>1, <2>2 DEF OnlyRead
    <2>3. CASE q # r
        <3>1. reads'[q] = reads[q]
            BY <2>3 DEF OnlyRead
        <3>. QED  BY <2>1, <3>1 DEF PollingInv, ReadsTagged, ReadTagged
    <2>. QED  BY <2>2, <2>3
<1>. QED  BY <1>1, <1>2, <1>3 DEF PollingInv

\* One write changes, and what the server and the panel have with it.
LEMMA WriteStep ==
    ASSUME PollingInv, NEW w \in Writes, NEW c, OnlyWrite(w, c),
           c.at # "idle" => WriteTagged(c),
           UNCHANGED <<partner, epoch, active, error, reads>>,
           server' \in List, runs' \in [Materials -> 0..MaxRuns],
           failures' \in 0..MaxFailures, shown' \in List, timer' \in Timers,
           TimerTagged', ShowsOnlyItsPartner', PendingIsPolled'
    PROVE  PollingInv'
<1>1. TypeOK'
    BY DEF PollingInv, TypeOK, OnlyWrite, WriteSet, Timers
<1>2. ActiveEpoch' /\ ReadsTagged'
    BY DEF PollingInv, ActiveEpoch, ReadsTagged, Mounted
<1>3. WritesTagged'
    <2>1. SUFFICES ASSUME NEW q \in Writes, writes'[q].at # "idle"
                   PROVE  WriteTagged(writes'[q])
        BY DEF WritesTagged, WriteTagged, Mounted
    <2>2. CASE q = w
        BY <2>1, <2>2 DEF OnlyWrite
    <2>3. CASE q # w
        <3>1. writes'[q] = writes[q]
            BY <2>3 DEF OnlyWrite
        <3>. QED  BY <2>1, <3>1 DEF PollingInv, WritesTagged, WriteTagged
    <2>. QED  BY <2>2, <2>3
<1>. QED  BY <1>1, <1>2, <1>3 DEF PollingInv

\* The panel, its timer and its reads stay as they are.
LEMMA PanelLeft ==
    ASSUME PollingInv, UNCHANGED <<partner, epoch, shown, error, timer>>
    PROVE  /\ TimerTagged' /\ ShowsOnlyItsPartner'
           /\ timer' \in Timers /\ shown' \in List /\ error' \in BOOLEAN
BY DEF PollingInv, TimerTagged, ShowsOnlyItsPartner, TypeOK, Timers, Mounted

LEMMA ReloadKeeps ==
    ASSUME PollingInv, Reload
    PROVE  PollingInv'
<1>1. PICK r \in Free : Fetch(r, "load", active, partner)
    BY DEF Reload
<1>2. /\ Mounted /\ error' = FALSE
      /\ UNCHANGED <<server, runs, partner, epoch, active, shown, timer, writes, failures>>
    BY DEF Reload
<1>3. /\ epoch \in Nat /\ active = epoch /\ epoch # 0 /\ epoch' = epoch /\ r \in Reads
      /\ partner \in Partners \cup {Nobody}
    BY <1>2, CallTypes DEF PollingInv, ActiveEpoch, Free, TypeOK
<1>. DEFINE c == SentRead("load", epoch, partner)
<1>4. OnlyRead(r, c)
    BY <1>1, <1>3, Fetched DEF PollingInv
<1>5. c.at = "sent" /\ c.epoch = epoch /\ ReadTagged(c)
    BY <1>2, <1>3, SentReadIs DEF ReadTagged
<1>. HIDE DEF c
<1>6. PendingIsPolled'
    <2>1. reads'[r].at # "idle" /\ reads'[r].epoch = epoch'
        BY <1>3, <1>4, <1>5 DEF OnlyRead
    <2>. QED  BY <1>3, <2>1 DEF PendingIsPolled
<1>7. /\ TimerTagged' /\ ShowsOnlyItsPartner' /\ timer' \in Timers
      /\ shown' \in List /\ error' \in BOOLEAN /\ failures' \in 0..MaxFailures
    BY <1>2 DEF PollingInv, TimerTagged, ShowsOnlyItsPartner, TypeOK, Timers, Mounted
<1>. QED  BY <1>2, <1>3, <1>4, <1>5, <1>6, <1>7, ReadStep

LEMMA TimerFiresKeeps ==
    ASSUME PollingInv, TimerFires
    PROVE  PollingInv'
<1>1. PICK r \in Free : Fetch(r, "poll", timer.epoch, timer.partner)
    BY DEF TimerFires
<1>2. /\ timer.epoch # 0 /\ timer' = NoTimer
      /\ UNCHANGED <<server, runs, partner, epoch, active, shown, error, writes, failures>>
    BY DEF TimerFires
<1>3. Mounted /\ timer.epoch = epoch /\ timer.partner = partner
    BY <1>2 DEF PollingInv, TimerTagged, NoTimer
<1>4. /\ epoch \in Nat /\ epoch # 0 /\ epoch' = epoch /\ r \in Reads
      /\ partner \in Partners \cup {Nobody}
    BY <1>2, <1>3, CallTypes DEF PollingInv, Free, TypeOK
<1>. DEFINE c == SentRead("poll", epoch, partner)
<1>5. OnlyRead(r, c)
    BY <1>1, <1>3, <1>4, Fetched DEF PollingInv
<1>6. c.at = "sent" /\ c.epoch = epoch /\ ReadTagged(c)
    BY <1>3, <1>4, SentReadIs DEF ReadTagged
<1>. HIDE DEF c
<1>7. PendingIsPolled'
    <2>1. reads'[r].at # "idle" /\ reads'[r].epoch = epoch'
        BY <1>4, <1>5, <1>6 DEF OnlyRead
    <2>. QED  BY <1>4, <2>1 DEF PendingIsPolled
<1>8. TimerTagged' /\ timer' \in Timers
    BY <1>2, <1>4 DEF TimerTagged, Timers, NoTimer
<1>9. /\ ShowsOnlyItsPartner' /\ shown' \in List /\ error' \in BOOLEAN
      /\ failures' \in 0..MaxFailures
    BY <1>2 DEF PollingInv, ShowsOnlyItsPartner, TypeOK
<1>. QED  BY <1>2, <1>4, <1>5, <1>6, <1>7, <1>8, <1>9, ReadStep

\* A read that is over: the others go on.
LEMMA ReadOver ==
    ASSUME PollingInv, NEW r \in Reads, reads' = [reads EXCEPT ![r] = NoRead],
           UNCHANGED epoch
    PROVE  OnlyRead(r, NoRead) /\ NoRead.at = "idle"
<1>1. epoch \in Nat /\ epoch' = epoch
    BY CallTypes DEF PollingInv
<1>2. epoch' \in Nat /\ epoch <= epoch' /\ NoRead \in ReadSet(epoch')
    BY <1>1, NothingCalled
<1>. QED  BY <1>2, NothingCalled, ReadReplaced DEF PollingInv

\* Polling survives a step that leaves the current reads alone.
LEMMA StillPolled ==
    ASSUME PollingInv, UNCHANGED <<partner, epoch, shown, timer>>, error' = error,
           \A q \in Reads : reads[q].at # "idle" /\ reads[q].epoch = epoch =>
                             reads'[q].at # "idle" /\ reads'[q].epoch = epoch
    PROVE  PendingIsPolled'
BY DEF PollingInv, PendingIsPolled, HasPending, Mounted

LEMMA ReceiveKeeps ==
    ASSUME PollingInv, NEW r \in Reads, Receive(r)
    PROVE  PollingInv'
<1>1. /\ reads[r].at = "answered" /\ reads' = [reads EXCEPT ![r] = NoRead]
      /\ UNCHANGED <<server, runs, partner, epoch, active, writes, failures>>
    BY DEF Receive
<1>2. OnlyRead(r, NoRead) /\ NoRead.at = "idle"
    BY <1>1, ReadOver
<1>3. failures' \in 0..MaxFailures
    BY <1>1 DEF PollingInv, TypeOK
<1>4. CASE Current(r)
    <2>1. /\ shown' = reads[r].items
          /\ error' = IF reads[r].kind = "poll" THEN FALSE ELSE error
          /\ timer' = IF HasPending(reads[r].items)
                      THEN [epoch |-> reads[r].epoch, partner |-> reads[r].partner] ELSE timer
        BY <1>4 DEF Receive
    <2>2. /\ reads[r].epoch = epoch /\ epoch # 0 /\ Mounted /\ reads[r].partner = partner
          /\ \A m \in Materials : reads[r].items[m] # "none" => OwnerOf(m) = partner
        BY <1>1, <1>4 DEF PollingInv, ReadsTagged, Current
    <2>3. shown' \in List /\ error' \in BOOLEAN
        BY <2>1, CallTypes DEF PollingInv, ReadSet, TypeOK
    <2>4. epoch \in 0..epoch /\ partner \in Partners \cup {Nobody}
        BY CallTypes DEF PollingInv, TypeOK
    <2>5. /\ HasPending(shown') => timer' = [epoch |-> epoch, partner |-> partner]
          /\ ~HasPending(shown') => timer' = timer
        BY <2>1, <2>2
    <2>6. timer' \in Timers /\ TimerTagged'
        <3>1. CASE HasPending(shown')
            BY <1>1, <2>2, <2>4, <2>5, <3>1 DEF Timers, TimerTagged, Mounted
        <3>2. CASE ~HasPending(shown')
            BY <1>1, <2>5, <3>2 DEF Timers, TimerTagged, Mounted, PollingInv, TypeOK
        <3>. QED  BY <3>1, <3>2
    <2>7. ShowsOnlyItsPartner'
        BY <1>1, <2>1, <2>2 DEF ShowsOnlyItsPartner
    <2>8. PendingIsPolled'
        <3>1. HasPending(shown') => timer'.epoch = epoch'
            BY <1>1, <2>5
        <3>. QED  BY <3>1 DEF PendingIsPolled, HasPending
    <2>. QED  BY <1>1, <1>2, <1>3, <2>3, <2>6, <2>7, <2>8, ReadStep
<1>5. CASE ~Current(r)
    <2>1. UNCHANGED <<shown, error, timer>>
        BY <1>5 DEF Receive
    <2>2. PendingIsPolled'
        <3>1. \A q \in Reads : reads[q].epoch = epoch => reads'[q] = reads[q]
            BY <1>2, <1>5 DEF OnlyRead, Current
        <3>. QED  BY <1>1, <2>1, <3>1, StillPolled
    <2>. QED  BY <1>1, <1>2, <1>3, <2>1, <2>2, PanelLeft, ReadStep
<1>. QED  BY <1>4, <1>5

LEMMA ReceiveFailureKeeps ==
    ASSUME PollingInv, NEW r \in Reads, ReceiveFailure(r)
    PROVE  PollingInv'
<1>1. /\ reads[r].at = "failed" /\ reads' = [reads EXCEPT ![r] = NoRead]
      /\ error' = IF Current(r) THEN TRUE ELSE error
      /\ UNCHANGED <<server, runs, partner, epoch, active, shown, timer, writes, failures>>
    BY DEF ReceiveFailure
<1>2. OnlyRead(r, NoRead) /\ NoRead.at = "idle"
    BY <1>1, ReadOver
<1>3. /\ failures' \in 0..MaxFailures /\ error' \in BOOLEAN /\ shown' \in List
      /\ timer' \in Timers /\ TimerTagged' /\ ShowsOnlyItsPartner'
    BY <1>1 DEF PollingInv, TypeOK, Timers, TimerTagged, ShowsOnlyItsPartner, Mounted
<1>4. PendingIsPolled'
    <2>1. CASE Current(r)
        BY <1>1, <2>1 DEF PendingIsPolled
    <2>2. CASE ~Current(r)
        <3>1. \A q \in Reads : reads[q].epoch = epoch => reads'[q] = reads[q]
            BY <1>2, <2>2 DEF OnlyRead, Current
        <3>. QED  BY <1>1, <2>2, <3>1, StillPolled
    <2>. QED  BY <2>1, <2>2
<1>. QED  BY <1>1, <1>2, <1>3, <1>4, ReadStep

\* A read in flight moves on: answered with what the server lists for its
\* partner, or failed.
LEMMA ReadMoves ==
    ASSUME PollingInv, NEW r \in Reads, reads[r].at # "idle",
           NEW at \in {"answered", "failed"}, NEW items \in List,
           \A m \in Materials : items[m] # "none" => OwnerOf(m) = reads[r].partner,
           reads' = [reads EXCEPT ![r].at = at, ![r].items = items],
           failures' \in 0..MaxFailures,
           UNCHANGED <<server, runs, partner, epoch, active, shown, error, timer, writes>>
    PROVE  PollingInv'
<1>. DEFINE c == [reads[r] EXCEPT !.at = at, !.items = items]
<1>1. epoch \in Nat /\ epoch' = epoch /\ reads[r] \in ReadSet(epoch)
    BY CallTypes DEF PollingInv
<1>2. /\ c \in ReadSet(epoch) /\ c.at = at /\ c.items = items
      /\ c.epoch = reads[r].epoch /\ c.partner = reads[r].partner
    BY <1>1 DEF ReadSet
<1>3. reads' = [reads EXCEPT ![r] = c]
    OBVIOUS
<1>. HIDE DEF c
<1>4. OnlyRead(r, c)
    <2>1. epoch' \in Nat /\ epoch <= epoch' /\ c \in ReadSet(epoch')
        BY <1>1, <1>2
    <2>. QED  BY <1>3, <2>1, ReadReplaced DEF PollingInv
<1>5. ReadTagged(c)
    BY <1>2 DEF PollingInv, ReadsTagged, ReadTagged
<1>6. PendingIsPolled'
    <2>1. \A q \in Reads : reads[q].at # "idle" /\ reads[q].epoch = epoch =>
                            reads'[q].at # "idle" /\ reads'[q].epoch = epoch
        BY <1>2, <1>4 DEF OnlyRead
    <2>. QED  BY <2>1, StillPolled
<1>. QED  BY <1>4, <1>5, <1>6, PanelLeft, ReadStep

LEMMA AnswerReadKeeps ==
    ASSUME PollingInv, NEW r \in Reads, AnswerRead(r) \/ FailRead(r)
    PROVE  PollingInv'
<1>1. CASE AnswerRead(r)
    <2>1. Listing(reads[r].partner) \in List
        BY DEF Listing, List, Status, PollingInv, TypeOK
    <2>2. \A m \in Materials : Listing(reads[r].partner)[m] # "none"
                               => OwnerOf(m) = reads[r].partner
        BY DEF Listing
    <2>3. failures' \in 0..MaxFailures /\ reads[r].at # "idle"
        BY <1>1 DEF AnswerRead, PollingInv, TypeOK
    <2>. QED  BY <1>1, <2>1, <2>2, <2>3, ReadMoves DEF AnswerRead
<1>2. CASE FailRead(r)
    <2>1. failures' \in 0..MaxFailures /\ reads[r].at # "idle"
        BY <1>2, PollingAssumption DEF FailRead, PollingInv, TypeOK
    <2>. QED  BY <1>2, <2>1, NothingShown, ReadMoves DEF FailRead
<1>. QED  BY <1>1, <1>2

\* A write that has just been sent.
SentWrite(kind, m) ==
    [NoWrite EXCEPT !.at = "sent", !.kind = kind, !.epoch = active, !.material = m]

LEMMA SubmitKeeps ==
    ASSUME PollingInv, NEW w \in Writes, NEW kind \in {"upload", "retry"}, NEW m \in Materials,
           Submit(w, kind, m)
    PROVE  PollingInv'
<1>1. /\ OwnerOf(m) = partner
      /\ writes' = [writes EXCEPT ![w] = SentWrite(kind, m)]
      /\ UNCHANGED <<server, runs, partner, epoch, active, shown, error, timer, reads, failures>>
    BY DEF Submit, SentWrite
<1>2. Mounted
    BY <1>1, PollingAssumption DEF Mounted, OwnerOf, Materials
<1>3. epoch \in Nat /\ active = epoch /\ epoch # 0
    BY <1>2, CallTypes DEF PollingInv, ActiveEpoch
<1>4. /\ SentWrite(kind, m) \in WriteSet(epoch)
      /\ SentWrite(kind, m).epoch = epoch /\ SentWrite(kind, m).material = m
    <2>1. NoWrite \in WriteSet(epoch) /\ active \in 0..epoch
        BY <1>3, NothingCalled
    <2>2. SentWrite(kind, m) \in WriteSet(epoch)
        BY <2>1 DEF SentWrite, WriteSet
    <2>3. SentWrite(kind, m).epoch = active /\ SentWrite(kind, m).material = m
        BY <2>1 DEF SentWrite, WriteSet
    <2>. QED  BY <1>3, <2>2, <2>3
<1>5. OnlyWrite(w, SentWrite(kind, m))
    BY <1>1, <1>4, WriteReplaced DEF PollingInv
<1>6. WriteTagged(SentWrite(kind, m))
    BY <1>1, <1>2, <1>3, <1>4 DEF WriteTagged
<1>7. PendingIsPolled'
    BY <1>1, StillPolled
<1>8. /\ server' \in List /\ runs' \in [Materials -> 0..MaxRuns] /\ failures' \in 0..MaxFailures
    BY <1>1 DEF PollingInv, TypeOK
<1>. QED  BY <1>1, <1>5, <1>6, <1>7, <1>8, PanelLeft, WriteStep

\* upsert: the timer is armed unless it already is, and it is this panel's.
LEMMA UpsertKeeps ==
    ASSUME PollingInv, NEW w \in Writes, Upsert(w)
    PROVE  PollingInv'
<1>. DEFINE next == [shown EXCEPT ![writes[w].material] = writes[w].status]
<1>1. /\ writes[w].at = "answered" /\ writes' = [writes EXCEPT ![w] = NoWrite]
      /\ UNCHANGED <<server, runs, partner, epoch, active, error, reads, failures>>
    BY DEF Upsert
<1>2. epoch \in Nat /\ writes[w] \in WriteSet(epoch)
    BY CallTypes DEF PollingInv
<1>3. OnlyWrite(w, NoWrite) /\ NoWrite.at = "idle"
    BY <1>1, <1>2, NothingCalled, WriteReplaced DEF PollingInv
<1>4. server' \in List /\ runs' \in [Materials -> 0..MaxRuns] /\ failures' \in 0..MaxFailures
    BY <1>1 DEF PollingInv, TypeOK
<1>5. CASE UpsertApplies(w)
    <2>1. /\ shown' = next
          /\ timer' = IF HasPending(next) /\ timer = NoTimer
                      THEN [epoch |-> active, partner |-> OwnerOf(writes[w].material)] ELSE timer
        BY <1>5 DEF Upsert
    <2>2. Mounted /\ active = epoch /\ epoch # 0 /\ writes[w].epoch = epoch
        BY <1>5 DEF UpsertApplies, PollingInv, ActiveEpoch
    <2>3. writes[w].material \in Materials /\ OwnerOf(writes[w].material) = partner
        BY <1>1, <2>2 DEF PollingInv, WritesTagged
    <2>4. shown \in List /\ writes[w].status \in Status
        BY <1>2 DEF WriteSet, PollingInv, TypeOK
    <2>5. shown' \in List
        BY <2>1, <2>3, <2>4 DEF List
    <2>6. ShowsOnlyItsPartner'
        BY <1>1, <2>1, <2>3, <2>4 DEF ShowsOnlyItsPartner, PollingInv, List
    <2>. HIDE DEF next
    <2>7. \/ timer' = timer /\ (HasPending(shown') => timer # NoTimer)
          \/ timer' = [epoch |-> epoch, partner |-> partner]
        BY <2>1, <2>2, <2>3
    <2>8. epoch \in 0..epoch /\ partner \in Partners \cup {Nobody}
        BY CallTypes DEF PollingInv, TypeOK
    <2>9. timer' \in Timers /\ TimerTagged'
        <3>1. CASE timer' = timer
            BY <1>1, <3>1 DEF Timers, TimerTagged, Mounted, PollingInv, TypeOK
        <3>2. CASE timer' = [epoch |-> epoch, partner |-> partner]
            BY <1>1, <2>2, <2>8, <3>2 DEF Timers, TimerTagged, Mounted
        <3>. QED  BY <2>7, <3>1, <3>2
    <2>10. PendingIsPolled'
        <3>1. HasPending(shown') => timer'.epoch = epoch'
            BY <1>1, <2>7 DEF PollingInv, TimerTagged
        <3>. QED  BY <3>1 DEF PendingIsPolled, HasPending
    <2>. QED  BY <1>1, <1>3, <1>4, <2>5, <2>6, <2>9, <2>10, WriteStep
<1>6. CASE ~UpsertApplies(w)
    <2>1. UNCHANGED <<shown, timer>>
        BY <1>6 DEF Upsert
    <2>2. PendingIsPolled'
        BY <1>1, <2>1, StillPolled
    <2>. QED  BY <1>1, <1>3, <1>4, <2>1, <2>2, PanelLeft, WriteStep
<1>. QED  BY <1>5, <1>6

LEMMA AnswerWriteKeeps ==
    ASSUME PollingInv, NEW w \in Writes, AnswerWrite(w)
    PROVE  PollingInv'
<1>. DEFINE m == writes[w].material
            c == [writes[w] EXCEPT !.at = "answered", !.status = server'[m]]
<1>1. /\ writes[w].at = "sent"
      /\ writes' = [writes EXCEPT ![w].at = "answered", ![w].status = server'[m]]
      /\ UNCHANGED <<partner, epoch, active, shown, error, timer, reads, failures>>
    BY DEF AnswerWrite
<1>2. /\ writes[w] \in WriteSet(epoch) /\ m \in Materials /\ WriteTagged(writes[w])
    BY <1>1, CallTypes DEF PollingInv, WritesTagged, WriteTagged
<1>3. server' \in List /\ runs' \in [Materials -> 0..MaxRuns]
    <2>1. server \in List /\ runs \in [Materials -> 0..MaxRuns] /\ MaxRuns \in Nat
        BY PollingAssumption DEF PollingInv, TypeOK
    <2>2. \/ /\ runs[m] < MaxRuns /\ server' = [server EXCEPT ![m] = "queued"]
             /\ runs' = [runs EXCEPT ![m] = @ + 1]
          \/ UNCHANGED <<server, runs>>
        BY DEF AnswerWrite
    <2>. HIDE DEF m
    <2>3. CASE /\ runs[m] < MaxRuns /\ server' = [server EXCEPT ![m] = "queued"]
               /\ runs' = [runs EXCEPT ![m] = @ + 1]
        <3>1. runs[m] + 1 \in 0..MaxRuns
            BY <1>2, <2>1, <2>3
        <3>2. server' \in List
            BY <2>1, <2>3 DEF List, Status
        <3>. QED  BY <2>1, <2>3, <3>1, <3>2
    <2>4. CASE UNCHANGED <<server, runs>>
        BY <2>1, <2>4
    <2>. QED  BY <2>2, <2>3, <2>4
<1>4. /\ c \in WriteSet(epoch) /\ c.epoch = writes[w].epoch /\ c.material = m
    <2>1. server'[m] \in Status
        BY <1>2, <1>3 DEF List
    <2>. QED  BY <1>2, <2>1 DEF WriteSet
<1>5. OnlyWrite(w, c)
    <2>1. writes' = [writes EXCEPT ![w] = c]
        BY <1>1
    <2>. QED  BY <1>1, <1>4, <2>1, WriteReplaced DEF PollingInv
<1>6. WriteTagged(c)
    BY <1>2, <1>4 DEF WriteTagged
<1>. HIDE DEF c, m
<1>7. PendingIsPolled' /\ failures' \in 0..MaxFailures
    BY <1>1, StillPolled DEF PollingInv, TypeOK
<1>. QED  BY <1>1, <1>3, <1>5, <1>6, <1>7, PanelLeft, WriteStep

\* A write that is refused or fails leaves no trace in the panel.
LEMMA DroppedWriteKeeps ==
    ASSUME PollingInv, NEW w \in Writes, RefuseRetry(w) \/ FailWrite(w)
    PROVE  PollingInv'
<1>1. /\ writes' = [writes EXCEPT ![w] = NoWrite]
      /\ UNCHANGED <<server, runs, partner, epoch, active, shown, error, timer, reads>>
    BY DEF RefuseRetry, FailWrite
<1>2. OnlyWrite(w, NoWrite) /\ NoWrite.at = "idle"
    BY <1>1, CallTypes, NothingCalled, WriteReplaced DEF PollingInv
<1>3. /\ server' \in List /\ runs' \in [Materials -> 0..MaxRuns] /\ failures' \in 0..MaxFailures
    BY PollingAssumption DEF RefuseRetry, FailWrite, PollingInv, TypeOK
<1>4. PendingIsPolled'
    BY <1>1, StillPolled
<1>. QED  BY <1>1, <1>2, <1>3, <1>4, PanelLeft, WriteStep

LEMMA ExtractKeeps ==
    ASSUME PollingInv, NEW m \in Materials, Extract(m)
    PROVE  PollingInv'
<1>1. UNCHANGED <<runs, partner, epoch, active, shown, error, timer, reads, writes, failures>>
    BY DEF Extract
<1>2. server' \in List
    BY DEF Extract, PollingInv, TypeOK, List, Status
<1>3. TypeOK'
    BY <1>1, <1>2 DEF PollingInv, TypeOK
<1>4. ActiveEpoch' /\ ReadsTagged' /\ WritesTagged'
    BY <1>1 DEF PollingInv, ActiveEpoch, ReadsTagged, WritesTagged, Mounted
<1>5. PendingIsPolled'
    BY <1>1, StillPolled
<1>. QED  BY <1>1, <1>3, <1>4, <1>5, PanelLeft DEF PollingInv

-----------------------------------------------------------------------------
(* The theorems.                                                           *)

LEMMA PollingInvInit == Init => PollingInv
<1>. SUFFICES ASSUME Init PROVE PollingInv
    OBVIOUS
<1>1. /\ epoch = 0 /\ active = 0 /\ partner = Nobody /\ shown = EmptyList /\ timer = NoTimer
      /\ reads = [r \in Reads |-> NoRead] /\ writes = [w \in Writes |-> NoWrite]
      /\ error = FALSE /\ failures = 0 /\ runs = [m \in Materials |-> 0]
      /\ server \in [Materials -> {"none", "failed"}]
    BY DEF Init
<1>2. ~Mounted
    BY <1>1 DEF Mounted
<1>3. TypeOK
    <2>1. reads \in [Reads -> ReadSet(epoch)] /\ writes \in [Writes -> WriteSet(epoch)]
        BY <1>1, NothingCalled
    <2>2. /\ epoch \in 0..MaxEpoch /\ active \in 0..epoch /\ failures \in 0..MaxFailures
          /\ runs \in [Materials -> 0..MaxRuns]
        BY <1>1, PollingAssumption
    <2>3. timer \in [epoch : 0..epoch, partner : Partners \cup {Nobody}]
        BY <1>1 DEF NoTimer
    <2>4. server \in List
        BY <1>1 DEF List, Status
    <2>. QED  BY <1>1, <2>1, <2>2, <2>3, <2>4, NothingShown DEF TypeOK, ReadSet, WriteSet
<1>4. ReadsTagged /\ WritesTagged
    BY <1>1, NothingCalled DEF ReadsTagged, WritesTagged
<1>5. ActiveEpoch /\ TimerTagged /\ ShowsOnlyItsPartner /\ PendingIsPolled
    BY <1>1, <1>2, NothingShown DEF ActiveEpoch, TimerTagged, ShowsOnlyItsPartner, PendingIsPolled
<1>. QED  BY <1>3, <1>4, <1>5 DEF PollingInv

LEMMA PollingInvStep == PollingInv /\ [Next]_vars => PollingInv'
<1>. SUFFICES ASSUME PollingInv, [Next]_vars PROVE PollingInv'
    OBVIOUS
<1>1. CASE UNCHANGED vars
    BY <1>1 DEF vars, PollingInv, TypeOK, ActiveEpoch, ReadsTagged, WritesTagged, TimerTagged,
                ShowsOnlyItsPartner, PendingIsPolled, HasPending, Mounted
<1>2. ASSUME NEW p \in Partners, Open(p) PROVE PollingInv'
    BY <1>2, OpenKeeps
<1>3. CASE Close
    BY <1>3, CloseKeeps
<1>4. CASE Reload
    BY <1>4, ReloadKeeps
<1>5. CASE TimerFires
    BY <1>5, TimerFiresKeeps
<1>6. ASSUME NEW r \in Reads, Receive(r) \/ ReceiveFailure(r) \/ AnswerRead(r) \/ FailRead(r)
      PROVE  PollingInv'
    BY <1>6, ReceiveKeeps, ReceiveFailureKeeps, AnswerReadKeeps
<1>7. ASSUME NEW w \in Writes, NEW kind \in {"upload", "retry"}, NEW m \in Materials,
             Submit(w, kind, m)
      PROVE  PollingInv'
    BY <1>7, SubmitKeeps
<1>8. ASSUME NEW w \in Writes, Upsert(w) \/ AnswerWrite(w) \/ RefuseRetry(w) \/ FailWrite(w)
      PROVE  PollingInv'
    BY <1>8, UpsertKeeps, AnswerWriteKeeps, DroppedWriteKeeps
<1>9. ASSUME NEW m \in Materials, Extract(m) PROVE PollingInv'
    BY <1>9, ExtractKeeps
<1>. QED  BY <1>1, <1>2, <1>3, <1>4, <1>5, <1>6, <1>7, <1>8, <1>9 DEF Next

\* What the epochs of useMaterials say of timers, reads and writes holds in every
\* reachable state.
THEOREM PollingInvariant == Spec => []PollingInv
BY PollingInvInit, PollingInvStep, PTL DEF Spec

\* Every variable keeps its type.
THEOREM PollingTypeCorrect == Spec => []TypeOK
<1>1. PollingInv => TypeOK
    BY DEF PollingInv
<1>. QED  BY <1>1, PollingInvariant, PTL

\* useMaterials: nothing of another partner ever lands in the list.
THEOREM PanelShowsItsPartner == Spec => []ShowsOnlyItsPartner
<1>1. PollingInv => ShowsOnlyItsPartner
    BY DEF PollingInv
<1>. QED  BY <1>1, PollingInvariant, PTL

\* The effect's cleanup: a closed panel has no poll.
THEOREM ClosedPanelsDoNotPoll == Spec => []NoPollWithoutPanel
<1>1. PollingInv => NoPollWithoutPanel
    BY DEF PollingInv, TimerTagged, NoPollWithoutPanel
<1>. QED  BY <1>1, PollingInvariant, PTL

\* armPoll and upsert: while something pending is shown and no error is, a poll is
\* armed or a read of this panel is on its way.
THEOREM PendingStaysPolled == Spec => []PendingIsPolled
<1>1. PollingInv => PendingIsPolled
    BY DEF PollingInv
<1>. QED  BY <1>1, PollingInvariant, PTL
===============================================================================
