------------------------------ MODULE Originals ------------------------------
(***************************************************************************)
(* What intake of originals promises, with no staging files, transactions  *)
(* or disk faults: an original is stored, then listed and queued for       *)
(* extraction in one step; nothing listed or queued is ever taken back and *)
(* nothing stored either, except by a loss of power; and an accepted       *)
(* upload names the one listed material that has its bytes.  Translated    *)
(* from the outcome of crates/otdel-api's upload.                          *)
(***************************************************************************)
CONSTANTS Requests,   \* uploads; an upload names the material it creates
          Key         \* (partner, digest)

VARIABLES key,        \* what each upload carries
          stored,     \* keys with an object
          catalog,    \* listed materials
          queue,      \* materials with an extraction job
          answer      \* what each upload was told

avars == <<key, stored, catalog, queue, answer>>

Init ==
    /\ key \in [Requests -> Key]
    /\ stored = {} /\ catalog = {} /\ queue = {}
    /\ answer = [r \in Requests |-> "none"]

SameOriginal(k) == {m \in catalog : key[m] = k}

\* The bytes of an upload are kept, whatever becomes of it.
Store(r) ==
    /\ stored' = stored \cup {key[r]}
    /\ answer' \in {answer, [answer EXCEPT ![r] = "failed"]}
    /\ UNCHANGED <<key, catalog, queue>>

\* A stored original that is not listed yet is listed and queued.
Publish(r) ==
    /\ answer[r] = "none"
    /\ key[r] \in stored
    /\ SameOriginal(key[r]) = {}
    /\ catalog' = catalog \cup {r}
    /\ queue' = queue \cup {r}
    /\ UNCHANGED <<key, stored, answer>>

\* The upload is told whether it created the listed material.
Accept(r) ==
    /\ answer[r] = "none"
    /\ \E m \in SameOriginal(key[r]) :
          answer' = [answer EXCEPT ![r] = IF m = r THEN "created" ELSE "duplicate"]
    /\ UNCHANGED <<key, stored, catalog, queue>>

\* Some uploads fail together, possibly after their material was listed.
Fail ==
    /\ \E F \in SUBSET {r \in Requests : answer[r] = "none"} :
          answer' = [r \in Requests |-> IF r \in F THEN "failed" ELSE answer[r]]
    /\ UNCHANGED <<key, stored, catalog, queue>>

\* The machine loses power: uploads fail and originals that were not on the disk
\* yet are gone.  What is listed and queued stays.
LosePower ==
    /\ stored' \in SUBSET stored
    /\ \E F \in SUBSET {r \in Requests : answer[r] = "none"} :
          answer' = [r \in Requests |-> IF r \in F THEN "failed" ELSE answer[r]]
    /\ UNCHANGED <<key, catalog, queue>>

Next == (\E r \in Requests : Store(r) \/ Publish(r) \/ Accept(r)) \/ Fail \/ LosePower

Spec == Init /\ [][Next]_avars
=============================================================================
