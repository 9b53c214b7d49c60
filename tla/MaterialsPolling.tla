-------------------------- MODULE MaterialsPolling --------------------------
(***************************************************************************)
(* The materials panel of the web client: the list it shows, its poll      *)
(* timer, the reads it has in flight and the uploads and retries that      *)
(* report back to it.                                                      *)
(*                                                                         *)
(*   apps/web/src/hooks/useMaterials.ts            the hook                *)
(*   apps/web/src/components/MaterialsPanel.tsx    handleRetry             *)
(*   apps/web/src/components/MaterialRow.tsx       the Retry button        *)
(*   apps/web/src/components/MaterialUploadDialog.tsx  runQueue            *)
(*   apps/web/src/pages/WorkspacePage.tsx          key of the panel        *)
(*                                                                         *)
(* A callback works with the partner of the render it was created in and   *)
(* with the refs of its hook instance.  WorkspacePage gives the panel the  *)
(* key of its partner, so every partner gets an instance of its own; one   *)
(* epoch counter stands for the counters of all instances.                 *)
(***************************************************************************)
EXTENDS Naturals, FiniteSets

CONSTANTS Partners,
          Names,         \* materials of one partner
          Reads,         \* bound: GET .../materials in flight at once
          Writes,        \* bound: uploads and retries in flight at once
          Nobody,        \* no partner is open
          MaxEpoch,      \* bound: openings and closings of the panel
          MaxRuns,       \* bound: runs of the extraction of one material
          MaxFailures    \* bound: calls that fail

ASSUME PollingAssumption ==
    /\ Nobody \notin Partners
    /\ MaxEpoch \in Nat /\ MaxRuns \in Nat /\ MaxFailures \in Nat

Materials == Partners \X Names
OwnerOf(m) == m[1]

VARIABLES
    server,     \* status of each material on the server; "none": not uploaded
    runs,       \* how often each material was queued
    partner,    \* the open partner (partnerId), or Nobody
    epoch,      \* epochRef
    active,     \* activeEpochRef
    shown,      \* materialsRef and materials: status of each material in the list
    error,      \* loadError is shown
    timer,      \* timerRef: the epoch and partner of the armed poll; epoch 0: null
    reads,      \* reads in flight
    writes,     \* uploads and retries in flight
    failures    \* calls that failed

vars == <<server, runs, partner, epoch, active, shown, error, timer, reads, writes, failures>>

Status == {"none", "queued", "completed", "failed"}
List == [Materials -> Status]
EmptyList == [m \in Materials |-> "none"]
NoTimer == [epoch |-> 0, partner |-> Nobody]
NoRead == [at |-> "idle", kind |-> "load", epoch |-> 0, partner |-> Nobody, items |-> EmptyList]
NoWrite == [at |-> "idle", kind |-> "upload", epoch |-> 0, material |-> Nobody, status |-> "none"]

TypeOK ==
    /\ server \in List
    /\ runs \in [Materials -> 0..MaxRuns]
    /\ partner \in Partners \cup {Nobody}
    /\ epoch \in 0..MaxEpoch /\ active \in 0..epoch
    /\ shown \in List
    /\ error \in BOOLEAN
    /\ timer \in [epoch : 0..epoch, partner : Partners \cup {Nobody}]
    /\ reads \in [Reads -> [at : {"idle", "sent", "answered", "failed"}, kind : {"load", "poll"},
                            epoch : 0..epoch, partner : Partners \cup {Nobody}, items : List]]
    /\ writes \in [Writes -> [at : {"idle", "sent", "answered"}, kind : {"upload", "retry"},
                              epoch : 0..epoch, material : Materials \cup {Nobody}, status : Status]]
    /\ failures \in 0..MaxFailures

Init ==
    /\ server \in [Materials -> {"none", "failed"}]
    /\ runs = [m \in Materials |-> 0]
    /\ partner = Nobody
    /\ epoch = 0 /\ active = 0
    /\ shown = EmptyList
    /\ error = FALSE
    /\ timer = NoTimer
    /\ reads = [r \in Reads |-> NoRead]
    /\ writes = [w \in Writes |-> NoWrite]
    /\ failures = 0

Mounted == partner # Nobody
HasPending(list) == \E m \in Materials : list[m] = "queued"
Free == {r \in Reads : reads[r].at = "idle"}

\* One more GET is sent, in any free slot, tagged with its epoch.
Fetch(r, kind, e, p) ==
    reads' = [reads EXCEPT ![r] = [NoRead EXCEPT !.at = "sent", !.kind = kind, !.epoch = e,
                                                 !.partner = p]]

-----------------------------------------------------------------------------
(* The effect of useMaterials: mount, partner switch, unmount.             *)

\* The cleanup of the previous run bumps the epoch once more.
Open(p) ==
    LET e == IF Mounted THEN epoch + 2 ELSE epoch + 1 IN
    /\ p # partner
    /\ e <= MaxEpoch
    /\ epoch' = e /\ active' = e
    /\ partner' = p
    /\ shown' = EmptyList
    /\ error' = FALSE
    /\ timer' = NoTimer
    /\ \E r \in Free : Fetch(r, "load", e, p)
    /\ UNCHANGED <<server, runs, writes, failures>>

\* Mutant: the timer survives the unmount.
CloseKeepsTimer ==
    /\ Mounted
    /\ epoch < MaxEpoch
    /\ epoch' = epoch + 1
    /\ partner' = Nobody
    /\ shown' = EmptyList
    /\ UNCHANGED <<server, runs, active, error, timer, reads, writes, failures>>

\* What is shown is gone with the component.
Close ==
    /\ Mounted
    /\ epoch < MaxEpoch
    /\ epoch' = epoch + 1
    /\ partner' = Nobody
    /\ shown' = EmptyList
    /\ timer' = NoTimer
    /\ UNCHANGED <<server, runs, active, error, reads, writes, failures>>

\* The Retry button of the error banner.
Reload ==
    /\ Mounted
    /\ error
    /\ error' = FALSE
    /\ \E r \in Free : Fetch(r, "load", active, partner)
    /\ UNCHANGED <<server, runs, partner, epoch, active, shown, timer, writes, failures>>

-----------------------------------------------------------------------------
(* load and armPoll.                                                       *)

TimerFires ==
    /\ timer.epoch # 0
    /\ timer' = NoTimer
    /\ \E r \in Free : Fetch(r, "poll", timer.epoch, timer.partner)
    /\ UNCHANGED <<server, runs, partner, epoch, active, shown, error, writes, failures>>

\* Mutant: a response is applied whichever epoch it belongs to.
AnyEpoch(r) == TRUE

Current(r) == reads[r].epoch = epoch

\* Mutant: the poll is not armed again after a response.
ArmOnLoadOnly(r) ==
    /\ reads[r].at = "answered"
    /\ reads' = [reads EXCEPT ![r] = NoRead]
    /\ IF Current(r)
       THEN /\ shown' = reads[r].items
            /\ error' = IF reads[r].kind = "poll" THEN FALSE ELSE error
            /\ timer' = IF reads[r].kind = "load" /\ HasPending(reads[r].items)
                        THEN [epoch |-> reads[r].epoch, partner |-> reads[r].partner] ELSE timer
       ELSE UNCHANGED <<shown, error, timer>>
    /\ UNCHANGED <<server, runs, partner, epoch, active, writes, failures>>

\* The list replaces what is shown; armPoll replaces the timer.  A list without
\* pending materials leaves a timer armed by someone else alone.
Receive(r) ==
    /\ reads[r].at = "answered"
    /\ reads' = [reads EXCEPT ![r] = NoRead]
    /\ IF Current(r)
       THEN /\ shown' = reads[r].items
            /\ error' = IF reads[r].kind = "poll" THEN FALSE ELSE error
            /\ timer' = IF HasPending(reads[r].items)
                        THEN [epoch |-> reads[r].epoch, partner |-> reads[r].partner] ELSE timer
       ELSE UNCHANGED <<shown, error, timer>>
    /\ UNCHANGED <<server, runs, partner, epoch, active, writes, failures>>

\* A failed read is shown and not repeated.
ReceiveFailure(r) ==
    /\ reads[r].at = "failed"
    /\ reads' = [reads EXCEPT ![r] = NoRead]
    /\ error' = IF Current(r) THEN TRUE ELSE error
    /\ UNCHANGED <<server, runs, partner, epoch, active, shown, timer, writes, failures>>

-----------------------------------------------------------------------------
(* Uploads and retries.                                                    *)

\* A file for the open partner, whose bytes may be there already, or the Retry
\* button of a material that is shown as failed.
Submit(w, kind, m) ==
    /\ writes[w].at = "idle"
    /\ OwnerOf(m) = partner
    /\ kind = "retry" => shown[m] = "failed"
    /\ writes' = [writes EXCEPT ![w] = [NoWrite EXCEPT !.at = "sent", !.kind = kind,
                                                       !.epoch = active, !.material = m]]
    /\ UNCHANGED <<server, runs, partner, epoch, active, shown, error, timer, reads, failures>>

\* mountedRef of the instance the write was started in.  The check of partner_id
\* compares the material with the partner of that same render, so it always holds.
UpsertApplies(w) ==
    /\ Mounted
    /\ writes[w].epoch = active

\* Mutant: upsert leaves polling to the next load.
UpsertListOnly(w) ==
    /\ writes[w].at = "answered"
    /\ writes' = [writes EXCEPT ![w] = NoWrite]
    /\ shown' = IF UpsertApplies(w) THEN [shown EXCEPT ![writes[w].material] = writes[w].status]
                ELSE shown
    /\ UNCHANGED <<server, runs, partner, epoch, active, error, timer, reads, failures>>

\* upsert: the material into the list, and a poll unless one is armed.
Upsert(w) ==
    LET next == [shown EXCEPT ![writes[w].material] = writes[w].status] IN
    /\ writes[w].at = "answered"
    /\ writes' = [writes EXCEPT ![w] = NoWrite]
    /\ IF UpsertApplies(w)
       THEN /\ shown' = next
            /\ timer' = IF HasPending(next) /\ timer = NoTimer
                        THEN [epoch |-> active, partner |-> OwnerOf(writes[w].material)]
                        ELSE timer
       ELSE UNCHANGED <<shown, timer>>
    /\ UNCHANGED <<server, runs, partner, epoch, active, error, reads, failures>>

-----------------------------------------------------------------------------
(* The server and the network.                                             *)

\* What the server lists for a partner now.
Listing(p) == [m \in Materials |-> IF OwnerOf(m) = p THEN server[m] ELSE "none"]

AnswerRead(r) ==
    /\ reads[r].at = "sent"
    /\ reads' = [reads EXCEPT ![r].at = "answered", ![r].items = Listing(reads[r].partner)]
    /\ UNCHANGED <<server, runs, partner, epoch, active, shown, error, timer, writes, failures>>

FailRead(r) ==
    /\ reads[r].at \in {"sent", "answered"}
    /\ failures < MaxFailures
    /\ failures' = failures + 1
    /\ reads' = [reads EXCEPT ![r].at = "failed", ![r].items = EmptyList]
    /\ UNCHANGED <<server, runs, partner, epoch, active, shown, error, timer, writes>>

\* A new material, or one that failed and is retried, is queued.
Queues(w) ==
    server[writes[w].material] = IF writes[w].kind = "upload" THEN "none" ELSE "failed"

\* An upload creates the material or finds it as it is; a retry requeues it.
AnswerWrite(w) ==
    LET m == writes[w].material IN
    /\ writes[w].at = "sent"
    /\ \/ /\ Queues(w)
          /\ runs[m] < MaxRuns
          /\ server' = [server EXCEPT ![m] = "queued"]
          /\ runs' = [runs EXCEPT ![m] = @ + 1]
       \/ writes[w].kind = "upload" /\ ~ Queues(w) /\ UNCHANGED <<server, runs>>
    /\ writes' = [writes EXCEPT ![w].at = "answered", ![w].status = server'[m]]
    /\ UNCHANGED <<partner, epoch, active, shown, error, timer, reads, failures>>

\* 409, can_retry: what is shown as failed is queued or done by now.  The answer
\* becomes an error next to the material; upsert is not called.
RefuseRetry(w) ==
    /\ writes[w].at = "sent" /\ writes[w].kind = "retry" /\ ~ Queues(w)
    /\ writes' = [writes EXCEPT ![w] = NoWrite]
    /\ UNCHANGED <<server, runs, partner, epoch, active, shown, error, timer, reads, failures>>

\* The call fails, or its answer is lost after the server acted: an error is
\* shown next to the file and upsert is not called.
FailWrite(w) ==
    /\ writes[w].at # "idle"
    /\ failures < MaxFailures
    /\ failures' = failures + 1
    /\ writes' = [writes EXCEPT ![w] = NoWrite]
    /\ UNCHANGED <<server, runs, partner, epoch, active, shown, error, timer, reads>>

Extract(m) ==
    /\ server[m] = "queued"
    /\ \E s \in {"completed", "failed"} : server' = [server EXCEPT ![m] = s]
    /\ UNCHANGED <<runs, partner, epoch, active, shown, error, timer, reads, writes, failures>>

-----------------------------------------------------------------------------
Next ==
    \/ \E p \in Partners : Open(p)
    \/ Close
    \/ Reload
    \/ TimerFires
    \/ \E r \in Reads : Receive(r) \/ ReceiveFailure(r) \/ AnswerRead(r) \/ FailRead(r)
    \/ \E w \in Writes, kind \in {"upload", "retry"}, m \in Materials : Submit(w, kind, m)
    \/ \E w \in Writes : Upsert(w) \/ AnswerWrite(w) \/ RefuseRetry(w) \/ FailWrite(w)
    \/ \E m \in Materials : Extract(m)

\* Timers fire, calls are answered and their promises settle, and the extraction
\* comes to an end.  What the user does is not assumed.
Fairness ==
    /\ WF_vars(TimerFires)
    /\ \A r \in Reads : WF_vars(Receive(r)) /\ WF_vars(ReceiveFailure(r)) /\ WF_vars(AnswerRead(r))
    /\ \A w \in Writes : WF_vars(Upsert(w)) /\ WF_vars(AnswerWrite(w)) /\ WF_vars(RefuseRetry(w))
    /\ \A m \in Materials : WF_vars(Extract(m))

Spec == Init /\ [][Next]_vars /\ Fairness

-----------------------------------------------------------------------------
(* Correctness.                                                            *)

\* The panel shows only materials of its partner, whatever reads, timers and
\* writes of earlier partners come back ("no in-flight request/timer from the
\* previous partner can ever land on the new one").
ShowsOnlyItsPartner == \A m \in Materials : shown[m] # "none" => OwnerOf(m) = partner

\* A closed panel has no timer: late responses never start a poll that nothing
\* will clear.
NoPollWithoutPanel == ~ Mounted => timer = NoTimer

\* As long as a pending material is shown and no error is, a poll is armed or a
\* read of this panel is on its way: no order of responses, uploads and timers
\* lets polling die silently.
PendingIsPolled ==
    Mounted /\ ~ error /\ HasPending(shown) =>
        timer.epoch = epoch \/ \E r \in Reads : reads[r].at # "idle" /\ reads[r].epoch = epoch

\* A material shown as queued does not stay so: its outcome is shown, or an error,
\* or the panel is left.
PendingSettles ==
    \A m \in Materials : shown[m] = "queued" ~> (shown[m] # "queued" \/ error)

\* useMaterials.ts: it polls "so status text reflects real, persisted server
\* state" - once nothing is on its way any more, the list is the server's.
SettledListIsServers ==
    /\ Mounted /\ ~ error /\ timer = NoTimer /\ failures = 0
    /\ \A r \in Reads : reads[r].at = "idle"
    /\ \A w \in Writes : writes[w].at = "idle"
    => shown = Listing(partner)
=============================================================================
