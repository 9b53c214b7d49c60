------------------------------- MODULE Forms -------------------------------
(***************************************************************************)
(* What a client sends, before anything is published: a multipart upload   *)
(* that arrives in chunks of any size, and the fields of a partner card.   *)
(*                                                                         *)
(*   crates/otdel-api/src/upload.rs      receive_file, read_file_field,    *)
(*                                       field_stream, limit_size          *)
(*   crates/otdel-core/src/media.rs      MediaType                         *)
(*   crates/otdel-core/src/validate.rs   partner_name, partner_note,       *)
(*                                       display_filename                  *)
(*                                                                         *)
(* The store's side of put_stream is in Intake; here it is the count of    *)
(* bytes it was given.  The outer body limit of the router lies a mebibyte *)
(* above the limits below, which answer first.  Text is a sequence of      *)
(* character classes: "a" for anything visible, "." and "/" for dots and   *)
(* separators, " " for space, "n" for line feed and tab, "0" for the other *)
(* control characters.                                                     *)
(***************************************************************************)
EXTENDS Integers, Sequences, FiniteSetsExt, SequencesExt

CONSTANTS Uploads,      \* forms: sequences of parts
          Cards,        \* partner cards: a name and a note
          ChunkSizes,   \* how many bytes may arrive at once
          PrefixLen,    \* SIGNATURE_PREFIX_LEN
          MaxUpload,    \* max_upload_bytes
          MaxOther,     \* MAX_OTHER_FIELD_BYTES
          NameMax,      \* FILENAME_MAX_CHARS and PARTNER_NAME_MAX_CHARS
          NoteMax,      \* PARTNER_NOTE_MAX_CHARS
          None

Signature == [pdf  |-> <<37, 80, 68, 70, 45>>,
              png  |-> <<137, 80, 78, 71, 13, 10, 26, 10>>,
              jpeg |-> <<255, 216, 255>>]

MediaTypes == DOMAIN Signature

Char == {"a", ".", "/", " ", "n", "0"}
Text == Seq(Char)
Part == [file : BOOLEAN, body : Seq(Nat), declared : STRING, filename : Text]
Card == [name : Text, note : Text]
ReceivedFile == [media : MediaTypes, size : Nat, filename : Text]

ASSUME FormsAssumption ==
    /\ Uploads \subseteq Seq(Part) /\ Cards \subseteq Card
    /\ ChunkSizes \subseteq Nat
    /\ PrefixLen \in Nat /\ \A m \in MediaTypes : Len(Signature[m]) <= PrefixLen
    /\ MaxUpload \in Nat /\ MaxOther \in Nat /\ NameMax \in Nat \ {0} /\ NoteMax \in Nat
    /\ None \notin MediaTypes \cup {"validation", "unsupported", "too_large"}
    /\ None \notin ReceivedFile \cup Card

VARIABLES
    form,      \* the parts of the upload a client sends
    fields,    \* or the fields of the partner card
    part,      \* the part that is being read
    place,     \* where the handler is
    got,       \* bytes of the part that have arrived
    media,     \* the type that the signature of the file showed
    head,      \* sizes of the chunks that are held back
    others,    \* other_field_bytes
    written,   \* bytes that the object store was given
    received,  \* the file that was received
    card,      \* name and note of the partner that was stored
    verdict    \* the answer

sent == <<form, fields>>
vars == <<sent, media, part, place, got, head, others, written, received, card, verdict>>

Places == {"field", "drain", "head", "stream", "card", "answered"}

TypeOK ==
    /\ form \in Seq(Part) /\ fields \in Card \cup {None}
    /\ part \in 1 .. Len(form) + 1 /\ place \in Places
    /\ got \in Nat /\ head \in Seq(Nat) /\ others \in Nat /\ written \in Nat
    /\ media \in MediaTypes \cup {None}
    /\ received \in ReceivedFile \cup {None}
    /\ card \in Card \cup {None}

Init ==
    /\ \/ form \in Uploads /\ fields = None /\ place = "field"
       \/ form = <<>> /\ fields \in Cards /\ place = "card"
    /\ part = 1 /\ got = 0 /\ head = <<>> /\ others = 0 /\ written = 0
    /\ media = None /\ received = None /\ card = None /\ verdict = None

-----------------------------------------------------------------------------
(* Media types and text.                                                   *)

\* MediaType::detect: the signatures exclude each other.
Detect(prefix) ==
    LET found == {m \in MediaTypes : IsPrefix(Signature[m], prefix)} IN
    IF Len(prefix) >= 4 /\ found # {} THEN CHOOSE m \in found : TRUE ELSE None

\* MediaType::parse: parameters are cut off, unknown types are ignored.
Declares(declared) == IF declared \in MediaTypes THEN declared ELSE None

Space   == {" ", "n"}
Control == {"0", "n"}

\* trim, trim_matches.
Trim(s, class) ==
    LET kept == {i \in DOMAIN s : s[i] \notin class} IN
    IF kept = {} THEN <<>> ELSE SubSeq(s, Min(kept), Max(kept))

LastSegment(s) ==
    SubSeq(s, Max({0} \cup {i \in DOMAIN s : s[i] = "/"}) + 1, Len(s))

\* Mutant: nothing is put in place of a name of which nothing is left.
DisplayFilenameOrNothing(raw) ==
    LET clean == [i \in DOMAIN LastSegment(raw) |->
                     IF LastSegment(raw)[i] \in Control THEN " " ELSE LastSegment(raw)[i]]
        inner == Trim(Trim(Trim(clean, Space), {"."}), Space) IN
    Trim(SubSeq(inner, 1, Min({NameMax, Len(inner)})), Space)

\* The neutral name "upload.<extension>" is a name of visible characters.
DisplayFilename(raw) ==
    LET clean == [i \in DOMAIN LastSegment(raw) |->
                     IF LastSegment(raw)[i] \in Control THEN " " ELSE LastSegment(raw)[i]]
        inner == Trim(Trim(Trim(clean, Space), {"."}), Space)
        short == Trim(SubSeq(inner, 1, Min({NameMax, Len(inner)})), Space) IN
    IF short = <<>> THEN <<"a">> ELSE short

\* The name as it is stored, None if it is refused.
PartnerName(raw) ==
    LET name == Trim(raw, Space) IN
    IF Len(name) \in 1 .. NameMax /\ Range(name) \cap Control = {}
      THEN name ELSE None

\* The note as it is stored: <<>> stands for null.
PartnerNote(raw) ==
    LET note == Trim(raw, Space) IN
    IF Len(note) <= NoteMax /\ Range(note) \cap (Control \ {"n"}) = {}
      THEN note ELSE None

-----------------------------------------------------------------------------
(* receive_file.                                                           *)

Body == form[part].body

\* The sizes a next chunk of this part may have.
Chunks == {Min({n, Len(Body) - got}) : n \in ChunkSizes} \ {0}

Answer(v) ==
    /\ verdict' = v /\ place' = "answered"
    /\ UNCHANGED <<sent, media, part, got, head, others, written, received, card>>

\* next_field; a second file is refused before it is read.
NextField ==
    /\ place = "field"
    /\ \/ /\ part > Len(form)
          /\ Answer(IF received = None THEN "validation" ELSE "accepted")
       \/ /\ part <= Len(form) /\ form[part].file /\ received # None
          /\ Answer("validation")
       \/ /\ part <= Len(form) /\ ~(form[part].file /\ received # None)
          /\ place' = IF form[part].file THEN "head" ELSE "drain"
          /\ got' = 0
          /\ UNCHANGED <<sent, media, part, head, others, written, received, card, verdict>>

PartDone ==
    /\ place' = "field" /\ part' = part + 1
    /\ UNCHANGED <<sent, media, got, head, others, written, card, verdict>>

DrainChunk(n) ==
    /\ place = "drain"
    /\ IF others + n > MaxOther
         THEN Answer("too_large")
         ELSE /\ others' = others + n /\ got' = got + n
              /\ UNCHANGED <<sent, media, part, place, head, written, received, card, verdict>>

DrainEnd == place = "drain" /\ got = Len(Body) /\ UNCHANGED received /\ PartDone

\* Mutant: four bytes are held back, enough for the shortest signature.
HoldsBackFour == got < 4

\* The signature needs more bytes.
HoldsBack == got < PrefixLen

HeadChunk(n) ==
    /\ place = "head" /\ HoldsBack
    /\ got' = got + n /\ head' = Append(head, n)
    /\ UNCHANGED <<sent, media, part, place, others, written, received, card, verdict>>

\* The prefix is judged: empty, unknown, or not what was declared.
HeadEnd ==
    LET found    == Detect(SubSeq(Body, 1, got))
        declared == Declares(form[part].declared) IN
    /\ place = "head" /\ (~HoldsBack \/ got = Len(Body))
    /\ \/ got = 0 /\ Answer("validation")
       \/ got # 0 /\ (found = None \/ declared \notin {None, found})
             /\ Answer("unsupported")
       \/ /\ got # 0 /\ found # None /\ declared \in {None, found}
          /\ place' = "stream" /\ media' = found
          /\ UNCHANGED <<sent, part, got, head, others, written, received, card, verdict>>

\* Mutant: the limit is looked at before the chunk is added.
LimitBehind(n, arrived, held) ==
    IF written > MaxUpload
      THEN Answer("too_large")
      ELSE /\ written' = written + n /\ got' = arrived /\ head' = held
           /\ UNCHANGED <<sent, media, part, place, others, received, card, verdict>>

\* limit_size lets a chunk of n bytes through to the store.
LimitSize(n, arrived, held) ==
    IF written + n > MaxUpload
      THEN Answer("too_large")
      ELSE /\ written' = written + n /\ got' = arrived /\ head' = held
           /\ UNCHANGED <<sent, media, part, place, others, received, card, verdict>>

\* The chunks held back go first.
HeldChunk ==
    /\ place = "stream" /\ head # <<>>
    /\ LimitSize(Head(head), got, Tail(head))

FieldStream(n) ==
    /\ place = "stream" /\ head = <<>>
    /\ LimitSize(n, got + n, head)

\* put_stream returns; the material takes its media type and display name.
StreamEnd ==
    /\ place = "stream" /\ head = <<>> /\ got = Len(Body)
    /\ received' = [media    |-> media,
                    size     |-> written,
                    filename |-> DisplayFilename(form[part].filename)]
    /\ PartDone

\* The client goes away in the middle of a part, or the form is malformed.
Interrupted == place \in {"field", "drain", "head", "stream"} /\ Answer("bad_request")

\* create and update of a partner card.
SubmitCard ==
    LET name == PartnerName(fields.name)
        note == PartnerNote(fields.note) IN
    /\ place = "card" /\ place' = "answered"
    /\ \/ name # None /\ note # None /\ verdict' = "accepted"
             /\ card' = [name |-> name, note |-> note]
       \/ None \in {name, note} /\ verdict' = "validation" /\ UNCHANGED card
    /\ UNCHANGED <<sent, media, part, got, head, others, written, received>>

Next ==
    \/ NextField \/ DrainEnd \/ HeadEnd \/ HeldChunk \/ StreamEnd
    \/ place \in {"drain", "head", "stream"} /\ \E n \in Chunks :
          DrainChunk(n) \/ HeadChunk(n) \/ FieldStream(n)
    \/ Interrupted \/ SubmitCard

Spec == Init /\ [][Next]_vars

-----------------------------------------------------------------------------
(* What the answer should be, read off the whole form.                     *)

IsFile(i) == form[i].file

\* Every byte of the other parts, by its part and its position there.
OtherBytes(i) ==
    Cardinality(UNION {{j} \X (1 .. Len(form[j].body)) : j \in {j \in 1 .. i : ~IsFile(j)}})

Carries(body, m) == Len(body) >= 4 /\ IsPrefix(Signature[m], body)

FileFault(p) ==
    IF p.body = <<>> THEN "validation"
    ELSE IF ~\E m \in MediaTypes :
               Carries(p.body, m) /\ p.declared \notin MediaTypes \ {m}
      THEN "unsupported"
    ELSE IF Len(p.body) > MaxUpload THEN "too_large" ELSE None

Fault(i) ==
    IF ~IsFile(i) THEN IF OtherBytes(i) > MaxOther THEN "too_large" ELSE None
    ELSE IF \E j \in 1 .. i - 1 : IsFile(j) THEN "validation" ELSE FileFault(form[i])

Deserved ==
    LET faulty == {i \in DOMAIN form : Fault(i) # None} IN
    IF faulty # {} THEN Fault(Min(faulty))
    ELSE IF \E i \in DOMAIN form : IsFile(i) THEN "accepted" ELSE "validation"

\* However the network cuts a form into chunks, an upload that is not broken
\* off gets the answer that its whole content deserves, and an accepted file
\* is stored in full under the type its content carries (read_file_field:
\* "Hold back just enough bytes to recognise the signature").
VerdictOfContent ==
    (fields = None /\ verdict \notin {None, "bad_request"}) =>
        /\ verdict = Deserved
        /\ verdict = "accepted" => \E i \in DOMAIN form :
              /\ IsFile(i) /\ received.size = Len(form[i].body)
              /\ Carries(form[i].body, received.media)

\* At no moment has the object store been given more than the limit, also by a
\* body that will be refused or never ends (limit_size: "so the writer never
\* stores more than the configured maximum").
WriterStaysInLimit == written <= MaxUpload

\* Whatever text a client sends, what reaches an INSERT satisfies the CHECKs
\* of materials and partners, so a bad name ends as a validation error and
\* never as a database error.
StoredFitsSchema ==
    /\ received # None =>
         /\ received.size > 0
         /\ Len(received.filename) \in 1 .. NameMax
         /\ Range(received.filename) \cap (Control \cup {"/"}) = {}
    /\ card # None =>
         /\ Len(Trim(card.name, {" "})) \in 1 .. NameMax
         /\ Len(card.note) <= NoteMax
=============================================================================
