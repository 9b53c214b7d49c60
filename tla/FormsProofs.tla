---------------------------- MODULE FormsProofs ----------------------------
(***************************************************************************)
(* Proofs about Forms, for every upload, every partner card, every way of  *)
(* cutting a body into chunks and every limit.                             *)
(***************************************************************************)
EXTENDS Forms, FiniteSetTheorems, SequenceTheorems, WellFoundedInduction, TLAPS

\* The sizes in s lead from a to b; p holds the subtotals.
Leads(a, s, b) ==
    \E p \in [0 .. Len(s) -> 0 .. b] :
        /\ p[0] = a /\ p[Len(s)] = b
        /\ \A i \in 1 .. Len(s) : p[i] = p[i - 1] + s[i]

\* A file with these bytes carries m and does not claim to be something else.
Honest(p, m) == Carries(p.body, m) /\ p.declared \notin MediaTypes \ {m}

\* The bytes that OtherBytes counts.
Positions(i) == UNION {{j} \X (1 .. Len(form[j].body)) : j \in {j \in 1 .. i : ~IsFile(j)}}

Reading == {"field", "drain", "head", "stream"}

\* A form is being read: the parts before this one are faultless, and what was
\* received and counted is what they hold.
PartsRead ==
    place \in Reading =>
        /\ fields = None
        /\ \A i \in 1 .. part - 1 : Fault(i) = None
        /\ received = None <=> \A i \in 1 .. part - 1 : ~IsFile(i)
        /\ IsFiniteSet(Positions(part - 1))
        /\ others = OtherBytes(part - 1) + (IF place = "drain" THEN got ELSE 0)
        /\ others <= MaxOther
        /\ received = None /\ place \in {"field", "drain"} => written = 0 /\ head = <<>>

\* A part is being read.
PartBegun ==
    /\ place \in {"drain", "head", "stream"} => part <= Len(form) /\ got <= Len(Body)
    /\ place = "drain" => ~IsFile(part)
    /\ place \in {"head", "stream"} => IsFile(part) /\ received = None
    /\ place = "head" => written = 0
    /\ place \in {"head", "stream"} => Leads(written, head, got)
    /\ place = "stream" => got > 0 /\ media \in MediaTypes /\ Honest(form[part], media)

\* The file that was received is one of the form's, in full.
FileWhole ==
    received # None => \E i \in DOMAIN form :
        /\ IsFile(i) /\ received.size = Len(form[i].body) /\ received.size > 0
        /\ Carries(form[i].body, received.media)

\* What is to be stored fits the tables.
NamesFit ==
    /\ received # None =>
         /\ Len(received.filename) \in 1 .. NameMax
         /\ Range(received.filename) \cap (Control \cup {"/"}) = {}
    /\ card # None =>
         /\ Len(Trim(card.name, {" "})) \in 1 .. NameMax
         /\ Len(card.note) <= NoteMax

\* An upload that was answered got what it deserves.
AnswerDeserved ==
    /\ place # "answered" => verdict = None
    /\ place = "answered" /\ fields = None /\ verdict \notin {None, "bad_request"} =>
          verdict = Deserved /\ (verdict = "accepted" => received # None)

FormsInv ==
    /\ TypeOK /\ PartsRead /\ PartBegun /\ FileWhole /\ NamesFit /\ AnswerDeserved
    /\ WriterStaysInLimit /\ (place = "card" => fields \in Card)

-----------------------------------------------------------------------------
(* Signatures.                                                             *)

\* The signatures are told apart by their first byte.
LEMMA Signatures ==
    /\ MediaTypes = {"pdf", "png", "jpeg"}
    /\ \A m \in MediaTypes : Signature[m] \in Seq(Nat) /\ Len(Signature[m]) \in 1 .. PrefixLen
    /\ \A m, k \in MediaTypes : Signature[m][1] = Signature[k][1] => m = k
<1>1. MediaTypes = {"pdf", "png", "jpeg"}
    BY DEF MediaTypes, Signature
<1>2. /\ Signature["pdf"] = <<37, 80, 68, 70, 45>>
      /\ Signature["png"] = <<137, 80, 78, 71, 13, 10, 26, 10>>
      /\ Signature["jpeg"] = <<255, 216, 255>>
    BY DEF Signature
<1>3. \A m \in MediaTypes : Signature[m] \in Seq(Nat) /\ Len(Signature[m]) \in 1 .. PrefixLen
    <2>1. Signature["pdf"] \in Seq(Nat) /\ Len(Signature["pdf"]) = 5
        BY <1>2
    <2>2. Signature["png"] \in Seq(Nat) /\ Len(Signature["png"]) = 8
        BY <1>2
    <2>3. Signature["jpeg"] \in Seq(Nat) /\ Len(Signature["jpeg"]) = 3
        BY <1>2
    <2>4. ASSUME NEW m \in MediaTypes
          PROVE  Signature[m] \in Seq(Nat) /\ Len(Signature[m]) \in {3, 5, 8}
        BY <1>1, <2>1, <2>2, <2>3, Zenon
    <2>5. ASSUME NEW m \in MediaTypes PROVE Len(Signature[m]) \in 1 .. PrefixLen
        <3>1. PrefixLen \in Nat /\ Len(Signature[m]) <= PrefixLen
            BY FormsAssumption
        <3>. DEFINE n == Len(Signature[m])
        <3>2. n \in {3, 5, 8} /\ n <= PrefixLen
            BY <2>4, <3>1
        <3>. HIDE DEF n
        <3>3. n \in 1 .. PrefixLen
            BY <3>1, <3>2
        <3>. QED  BY <3>3 DEF n
    <2>. QED  BY <2>4, <2>5
<1>4. Signature["pdf"][1] = 37 /\ Signature["png"][1] = 137 /\ Signature["jpeg"][1] = 255
    BY <1>2
<1>5. ASSUME NEW m \in MediaTypes, NEW k \in MediaTypes, Signature[m][1] = Signature[k][1]
      PROVE  m = k
    BY <1>1, <1>4, <1>5
<1>. QED  BY <1>1, <1>3, <1>5

\* What it means to start with s.
LEMMA PrefixElements ==
    ASSUME NEW s \in Seq(Nat), NEW t \in Seq(Nat)
    PROVE  IsPrefix(s, t) <=> Len(s) <= Len(t) /\ \A i \in 1 .. Len(s) : s[i] = t[i]
<1>1. Len(s) \in Nat /\ Len(t) \in Nat
    BY LenProperties
<1>. SUFFICES ASSUME Len(s) <= Len(t)
              PROVE  SubSeq(s, 1, Len(s)) = SubSeq(t, 1, Len(s)) <=> \A i \in 1 .. Len(s) : s[i] = t[i]
    BY DEF IsPrefix
<1>2. \A i \in 1 .. Len(s) : s[i] \in Nat /\ t[i] \in Nat
    BY <1>1, ElementOfSeq
<1>. DEFINE u == SubSeq(s, 1, Len(s))
            v == SubSeq(t, 1, Len(s))
<1>3. u \in Seq(Nat) /\ Len(u) = Len(s) /\ \A i \in 1 .. Len(s) : u[i] = s[i]
    <2>1. /\ u \in Seq(Nat) /\ Len(u) = IF 1 <= Len(s) THEN Len(s) - 1 + 1 ELSE 0
          /\ \A i \in 1 .. Len(s) - 1 + 1 : u[i] = s[1 + i - 1]
        BY <1>1, <1>2, SubSeqProperties
    <2>. HIDE DEF u
    <2>. QED  BY <1>1, <2>1
<1>4. v \in Seq(Nat) /\ Len(v) = Len(s) /\ \A i \in 1 .. Len(s) : v[i] = t[i]
    <2>1. /\ v \in Seq(Nat) /\ Len(v) = IF 1 <= Len(s) THEN Len(s) - 1 + 1 ELSE 0
          /\ \A i \in 1 .. Len(s) - 1 + 1 : v[i] = t[1 + i - 1]
        BY <1>1, <1>2, SubSeqProperties
    <2>. HIDE DEF v
    <2>. QED  BY <1>1, <2>1
<1>. HIDE DEF u, v
<1>5. (\A i \in 1 .. Len(s) : u[i] = v[i]) => u = v
    BY <1>3, <1>4, SeqEqual
<1>6. u = v <=> \A i \in 1 .. Len(s) : s[i] = t[i]
    BY <1>3, <1>4, <1>5
<1>. QED  BY <1>6 DEF u, v

\* The bytes that are held back are enough to recognise a signature.
LEMMA PrefixSuffices ==
    ASSUME NEW s \in Seq(Nat), NEW b \in Seq(Nat), NEW g \in 0 .. Len(b),
           Len(s) <= g \/ g = Len(b)
    PROVE  /\ IsPrefix(s, SubSeq(b, 1, g)) <=> IsPrefix(s, b)
           /\ Len(SubSeq(b, 1, g)) = g
<1>. DEFINE h == SubSeq(b, 1, g)
<1>1. Len(s) \in Nat /\ Len(b) \in Nat /\ g \in Nat
    BY LenProperties
<1>2. \A i \in 1 .. g : b[i] \in Nat
    BY <1>1, ElementOfSeq
<1>3. /\ h \in Seq(Nat) /\ Len(h) = IF 1 <= g THEN g - 1 + 1 ELSE 0
      /\ \A i \in 1 .. g - 1 + 1 : h[i] = b[1 + i - 1]
    BY <1>1, <1>2, SubSeqProperties
<1>. HIDE DEF h
<1>4. h \in Seq(Nat) /\ Len(h) = g /\ \A i \in 1 .. g : h[i] = b[i]
    BY <1>1, <1>3
<1>5. IsPrefix(s, h) <=> Len(s) <= g /\ \A i \in 1 .. Len(s) : s[i] = h[i]
    BY <1>4, PrefixElements
<1>6. IsPrefix(s, b) <=> Len(s) <= Len(b) /\ \A i \in 1 .. Len(s) : s[i] = b[i]
    BY PrefixElements
<1>7. IsPrefix(s, h) <=> IsPrefix(s, b)
    <2>1. Len(s) <= g <=> Len(s) <= Len(b)
        BY <1>1
    <2>2. Len(s) <= g => \A i \in 1 .. Len(s) : h[i] = b[i]
        BY <1>1, <1>4
    <2>. QED  BY <1>5, <1>6, <2>1, <2>2
<1>. QED  BY <1>4, <1>7 DEF h

\* A body carries at most one signature.
LEMMA OneSignature ==
    ASSUME NEW b \in Seq(Nat), NEW m \in MediaTypes, NEW k \in MediaTypes,
           IsPrefix(Signature[m], b), IsPrefix(Signature[k], b)
    PROVE  m = k
<1>1. /\ Signature[m] \in Seq(Nat) /\ Len(Signature[m]) \in 1 .. PrefixLen
      /\ Signature[k] \in Seq(Nat) /\ Len(Signature[k]) \in 1 .. PrefixLen
    BY Signatures
<1>2. Signature[m][1] = b[1] /\ Signature[k][1] = b[1]
    <2>1. 1 \in 1 .. Len(Signature[m]) /\ 1 \in 1 .. Len(Signature[k])
        BY <1>1
    <2>. QED  BY <1>1, <2>1, PrefixElements
<1>. QED  BY <1>2, Signatures

\* detect judges the whole body by the bytes held back.
LEMMA DetectContent ==
    ASSUME NEW b \in Seq(Nat), NEW g \in 0 .. Len(b), g >= PrefixLen \/ g = Len(b)
    PROVE  LET found == Detect(SubSeq(b, 1, g)) IN
           /\ found = None => \A m \in MediaTypes : ~ Carries(b, m)
           /\ found # None => found \in MediaTypes /\ Carries(b, found)
<1>. DEFINE h == SubSeq(b, 1, g)
            F == {m \in MediaTypes : IsPrefix(Signature[m], h)}
<1>1. Len(b) \in Nat /\ g \in Nat /\ PrefixLen \in Nat
    BY LenProperties, FormsAssumption
<1>2. \A m \in MediaTypes : IsPrefix(Signature[m], h) <=> IsPrefix(Signature[m], b)
    <2>. TAKE m \in MediaTypes
    <2>1. Signature[m] \in Seq(Nat) /\ (Len(Signature[m]) <= g \/ g = Len(b))
        BY <1>1, Signatures
    <2>. QED  BY <2>1, PrefixSuffices
<1>3. Len(h) = g
    <2>1. Signature["jpeg"] \in Seq(Nat) /\ (Len(Signature["jpeg"]) <= g \/ g = Len(b))
        BY <1>1, Signatures
    <2>. QED  BY <2>1, PrefixSuffices
<1>4. g >= 4 <=> Len(b) >= 4
    <2>1. PrefixLen >= 4
        <3>1. Signature["pdf"] = <<37, 80, 68, 70, 45>> /\ "pdf" \in MediaTypes
            BY Signatures DEF Signature
        <3>2. Len(Signature["pdf"]) = 5
            BY <3>1
        <3>3. Len(Signature["pdf"]) <= PrefixLen
            BY <3>1, FormsAssumption
        <3>. QED  BY <1>1, <3>2, <3>3
    <2>. QED  BY <1>1, <2>1
<1>5. Detect(h) = IF g >= 4 /\ F # {} THEN CHOOSE m \in F : TRUE ELSE None
    BY <1>3 DEF Detect
<1>6. None \notin MediaTypes
    BY FormsAssumption
<1>7. CASE g >= 4 /\ F # {}
    <2>1. Detect(h) \in F
        BY <1>5, <1>7
    <2>2. Detect(h) \in MediaTypes /\ Carries(b, Detect(h))
        BY <1>2, <1>4, <1>7, <2>1 DEF Carries
    <2>. QED  BY <1>6, <2>2
<1>8. CASE ~ (g >= 4 /\ F # {})
    <2>1. Detect(h) = None
        BY <1>5, <1>8
    <2>2. \A m \in MediaTypes : ~ Carries(b, m)
        BY <1>2, <1>4, <1>8 DEF Carries
    <2>. QED  BY <2>1, <2>2
<1>. QED  BY <1>7, <1>8

-----------------------------------------------------------------------------
(* Text.                                                                   *)

\* Every set of natural numbers has a least element.
LEMMA MinIsLeast ==
    ASSUME NEW S \in SUBSET Nat, S # {}
    PROVE  Min(S) \in S /\ \A y \in S : Min(S) <= y
<1>1. \E x \in S : \A y \in S : ~ (<<y, x>> \in OpToRel(<, Nat))
    BY NatLessThanWellFounded, WFMin
<1>2. \A x, y \in Nat : <<y, x>> \in OpToRel(<, Nat) <=> y < x
    BY DEF OpToRel
<1>3. \E x \in S : \A y \in S : x <= y
    <2>1. PICK x \in S : \A y \in S : ~ (<<y, x>> \in OpToRel(<, Nat))
        BY <1>1
    <2>2. ASSUME NEW y \in S PROVE x <= y
        <3>1. x \in Nat /\ y \in Nat /\ ~ (y < x)
            BY <1>2, <2>1
        <3>. QED  BY <3>1
    <2>. QED  BY <2>2
<1>. QED  BY <1>3, Zenon DEF Min

\* And a greatest one if it is bounded.
LEMMA MaxIsGreatest ==
    ASSUME NEW n \in Nat, NEW S \in SUBSET (0 .. n), S # {}
    PROVE  Max(S) \in S /\ \A y \in S : y <= Max(S)
<1>. DEFINE T == {i \in 0 .. n : n - i \in S}
<1>1. T \in SUBSET Nat /\ T # {}
    <2>1. PICK y \in S : TRUE
        OBVIOUS
    <2>2. y \in 0 .. n /\ n - y \in 0 .. n /\ n - (n - y) = y
        BY <2>1
    <2>3. n - y \in T
        BY <2>1, <2>2
    <2>4. T \subseteq 0 .. n /\ 0 .. n \subseteq Nat
        OBVIOUS
    <2>. QED  BY <2>3, <2>4
<1>2. Min(T) \in T /\ \A y \in T : Min(T) <= y
    BY <1>1, MinIsLeast
<1>3. \E x \in S : \A y \in S : x >= y
    <2>1. Min(T) \in 0 .. n /\ n - Min(T) \in S
        BY <1>2
    <2>2. ASSUME NEW y \in S PROVE n - Min(T) >= y
        <3>1. y \in 0 .. n /\ n - y \in 0 .. n /\ n - (n - y) = y
            OBVIOUS
        <3>2. Min(T) <= n - y
            BY <1>2, <3>1
        <3>. QED  BY <2>1, <3>1, <3>2
    <2>. QED  BY <2>1, <2>2
<1>4. Max(S) \in S /\ \A y \in S : Max(S) >= y
    BY <1>3, Zenon DEF Max
<1>5. S \subseteq Nat
    OBVIOUS
<1>. QED  BY <1>4, <1>5

\* The smaller of two.
LEMMA MinOfTwo ==
    ASSUME NEW x \in Nat, NEW y \in Nat
    PROVE  Min({x, y}) \in {x, y} /\ Min({x, y}) <= x /\ Min({x, y}) <= y
<1>1. Min({x, y}) \in {x, y} /\ \A z \in {x, y} : Min({x, y}) <= z
    BY MinIsLeast
<1>. QED  BY <1>1

\* A piece of a text has no new characters.
LEMMA PieceOfText ==
    ASSUME NEW s \in Text, NEW a \in Nat \ {0}, NEW b \in Nat, b <= Len(s)
    PROVE  LET t == SubSeq(s, a, b) IN
           /\ t \in Text /\ Len(t) = (IF a <= b THEN b - a + 1 ELSE 0) /\ Len(t) <= Len(s)
           /\ \A i \in 1 .. Len(t) : t[i] = s[a + i - 1] /\ a + i - 1 \in 1 .. Len(s)
<1>. DEFINE t == SubSeq(s, a, b)
<1>1. Len(s) \in Nat
    BY LenProperties DEF Text
<1>2. \A i \in a .. b : s[i] \in Char
    BY <1>1, ElementOfSeq DEF Text
<1>3. /\ t \in Text /\ Len(t) = IF a <= b THEN b - a + 1 ELSE 0
      /\ \A i \in 1 .. b - a + 1 : t[i] = s[a + i - 1]
    BY <1>2, SubSeqProperties DEF Text
<1>. HIDE DEF t
<1>4. Len(t) <= Len(s) /\ \A i \in 1 .. Len(t) : i \in 1 .. b - a + 1 /\ a + i - 1 \in 1 .. Len(s)
    BY <1>1, <1>3
<1>. QED  BY <1>3, <1>4 DEF t

\* trim cuts characters of one class off the ends; what is left of a text with
\* another character is not empty, and begins with such a character.
LEMMA Trimmed ==
    ASSUME NEW s \in Text, NEW class
    PROVE  LET t == Trim(s, class) IN
           /\ t \in Text /\ Len(t) <= Len(s)
           /\ \A i \in 1 .. Len(t) : \E j \in 1 .. Len(s) : t[i] = s[j]
           /\ (\E j \in 1 .. Len(s) : s[j] \notin class) => Len(t) >= 1
           /\ Len(t) >= 1 => t[1] \notin class
<1>. DEFINE kept == {i \in DOMAIN s : s[i] \notin class}
            t == Trim(s, class)
<1>1. Len(s) \in Nat /\ DOMAIN s = 1 .. Len(s)
    BY LenProperties DEF Text
<1>2. CASE kept = {}
    <2>1. t = <<>>
        BY <1>2 DEF Trim
    <2>2. <<>> \in Text /\ Len(<<>>) = 0
        BY EmptySeq DEF Text
    <2>3. ~ \E j \in 1 .. Len(s) : s[j] \notin class
        BY <1>1, <1>2
    <2>. QED  BY <1>1, <2>1, <2>2, <2>3
<1>3. CASE kept # {}
    <2>1. kept \in SUBSET Nat /\ kept \in SUBSET (0 .. Len(s))
        BY <1>1
    <2>2. t = SubSeq(s, Min(kept), Max(kept))
        BY <1>3 DEF Trim
    <2>. HIDE DEF t
    <2>3. Min(kept) \in kept /\ \A y \in kept : Min(kept) <= y
        BY <1>3, <2>1, MinIsLeast
    <2>4. Max(kept) \in kept
        BY <1>1, <1>3, <2>1, MaxIsGreatest
    <2>. DEFINE a == Min(kept)
                b == Max(kept)
    <2>5. /\ a \in 1 .. Len(s) /\ b \in 1 .. Len(s) /\ a <= b /\ s[a] \notin class
        BY <1>1, <2>3, <2>4
    <2>. HIDE DEF a, b
    <2>6. t = SubSeq(s, a, b)
        BY <2>2 DEF a, b
    <2>7. a \in Nat \ {0} /\ b \in Nat /\ b <= Len(s)
        BY <1>1, <2>5
    <2>8. /\ t \in Text /\ Len(t) = (IF a <= b THEN b - a + 1 ELSE 0) /\ Len(t) <= Len(s)
          /\ \A i \in 1 .. Len(t) : t[i] = s[a + i - 1] /\ a + i - 1 \in 1 .. Len(s)
        BY <2>6, <2>7, PieceOfText
    <2>9. Len(t) >= 1 /\ t[1] = s[a]
        <3>1. Len(t) = b - a + 1 /\ Len(t) >= 1 /\ 1 \in 1 .. Len(t)
            BY <2>5, <2>7, <2>8
        <3>2. t[1] = s[a + 1 - 1] /\ a + 1 - 1 = a
            BY <2>7, <2>8, <3>1
        <3>. QED  BY <3>1, <3>2
    <2>10. \A i \in 1 .. Len(t) : \E j \in 1 .. Len(s) : t[i] = s[j]
        BY <2>8
    <2>. QED  BY <2>5, <2>8, <2>9, <2>10 DEF t
<1>. QED  BY <1>2, <1>3

\* No control character and no separator.
Plain(t) == t \in Text /\ \A i \in 1 .. Len(t) : t[i] \notin Control \cup {"/"}

LEMMA PlainTrim ==
    ASSUME NEW s, Plain(s), NEW class
    PROVE  Plain(Trim(s, class)) /\ Len(Trim(s, class)) <= Len(s)
<1>1. /\ Trim(s, class) \in Text /\ Len(Trim(s, class)) <= Len(s)
      /\ \A i \in 1 .. Len(Trim(s, class)) : \E j \in 1 .. Len(s) : Trim(s, class)[i] = s[j]
    BY Trimmed DEF Plain
<1>. QED  BY <1>1 DEF Plain

\* Behind the last separator there is none.
LEMMA SegmentFree ==
    ASSUME NEW s \in Text
    PROVE  LET t == LastSegment(s) IN t \in Text /\ \A i \in 1 .. Len(t) : t[i] # "/"
<1>. DEFINE T == {0} \cup {i \in DOMAIN s : s[i] = "/"}
            k == Max(T)
            t == LastSegment(s)
<1>1. Len(s) \in Nat /\ DOMAIN s = 1 .. Len(s)
    BY LenProperties DEF Text
<1>2. T \in SUBSET (0 .. Len(s)) /\ T # {}
    BY <1>1
<1>3. k \in T /\ \A y \in T : y <= k
    BY <1>1, <1>2, MaxIsGreatest
<1>4. k \in Nat /\ k <= Len(s) /\ \A i \in 1 .. Len(s) : i > k => s[i] # "/"
    <2>1. k \in 0 .. Len(s)
        BY <1>2, <1>3
    <2>2. ASSUME NEW i \in 1 .. Len(s), i > k, s[i] = "/" PROVE FALSE
        <3>1. i \in T
            BY <1>1, <2>2
        <3>2. i <= k
            BY <1>3, <3>1
        <3>. QED  BY <1>1, <2>1, <2>2, <3>2
    <2>. QED  BY <1>1, <2>1, <2>2
<1>5. t = SubSeq(s, k + 1, Len(s))
    BY DEF LastSegment
<1>. HIDE DEF k, t
<1>6. /\ t \in Text
      /\ \A i \in 1 .. Len(t) : t[i] = s[(k + 1) + i - 1] /\ (k + 1) + i - 1 \in 1 .. Len(s)
    <2>1. k + 1 \in Nat \ {0} /\ Len(s) \in Nat /\ Len(s) <= Len(s)
        BY <1>1, <1>4
    <2>. QED  BY <1>5, <2>1, PieceOfText
<1>7. ASSUME NEW i \in 1 .. Len(t) PROVE t[i] # "/"
    <2>1. Len(t) \in Nat
        BY <1>6, LenProperties DEF Text
    <2>2. (k + 1) + i - 1 > k
        BY <1>4, <2>1
    <2>. QED  BY <1>4, <1>6, <2>2
<1>. QED  BY <1>6, <1>7 DEF t

\* A file name as it is stored, whatever the client called the file.
LEMMA DisplayFilenameFits ==
    ASSUME NEW raw \in Text
    PROVE  LET name == DisplayFilename(raw) IN
           /\ name \in Text /\ Len(name) \in 1 .. NameMax
           /\ Range(name) \cap (Control \cup {"/"}) = {}
<1>. DEFINE seg == LastSegment(raw)
            clean == [i \in DOMAIN seg |-> IF seg[i] \in Control THEN " " ELSE seg[i]]
            inner == Trim(Trim(Trim(clean, Space), {"."}), Space)
            cut == SubSeq(inner, 1, Min({NameMax, Len(inner)}))
            short == Trim(cut, Space)
            name == DisplayFilename(raw)
<1>0. NameMax \in Nat \ {0}
    BY FormsAssumption
<1>1. seg \in Text /\ \A i \in 1 .. Len(seg) : seg[i] # "/"
    BY SegmentFree
<1>. HIDE DEF seg
<1>2. Plain(clean)
    <2>1. Len(seg) \in Nat /\ DOMAIN seg = 1 .. Len(seg) /\ \A i \in 1 .. Len(seg) : seg[i] \in Char
        BY <1>1, LenProperties, ElementOfSeq DEF Text
    <2>2. clean \in [1 .. Len(seg) -> Char]
        BY <2>1 DEF Char
    <2>. HIDE DEF clean
    <2>3. clean \in Text
        BY <2>1, <2>2, SeqDef DEF Text
    <2>4. DOMAIN clean = 1 .. Len(clean)
        BY <2>3, LenProperties DEF Text
    <2>5. \A i \in DOMAIN clean : clean[i] \notin Control \cup {"/"}
        BY <1>1, <2>1 DEF Control, clean
    <2>. QED  BY <2>3, <2>4, <2>5 DEF Plain
<1>. HIDE DEF clean
<1>3. Plain(inner)
    <2>1. Plain(Trim(clean, Space))
        BY <1>2, PlainTrim
    <2>2. Plain(Trim(Trim(clean, Space), {"."}))
        BY <2>1, PlainTrim
    <2>. QED  BY <2>2, PlainTrim
<1>. HIDE DEF inner
<1>4. Plain(cut) /\ Len(cut) <= NameMax
    <2>. DEFINE b == Min({NameMax, Len(inner)})
    <2>1. inner \in Text /\ Len(inner) \in Nat
        BY <1>3, LenProperties DEF Plain, Text
    <2>2. b \in {NameMax, Len(inner)} /\ b <= NameMax /\ b <= Len(inner)
        BY <1>0, <2>1, MinOfTwo
    <2>. HIDE DEF b
    <2>3. b \in Nat
        BY <1>0, <2>1, <2>2
    <2>4. cut = SubSeq(inner, 1, b)
        BY DEF b
    <2>. HIDE DEF cut
    <2>5. /\ cut \in Text /\ Len(cut) = (IF 1 <= b THEN b - 1 + 1 ELSE 0)
          /\ \A i \in 1 .. Len(cut) : cut[i] = inner[1 + i - 1] /\ 1 + i - 1 \in 1 .. Len(inner)
        BY <2>1, <2>2, <2>3, <2>4, PieceOfText
    <2>6. Len(cut) <= NameMax
        BY <1>0, <2>2, <2>3, <2>5
    <2>. QED  BY <1>3, <2>5, <2>6 DEF Plain
<1>. HIDE DEF cut
<1>5. Plain(short) /\ Len(short) <= Len(cut)
    BY <1>4, PlainTrim
<1>6. name = IF short = <<>> THEN <<"a">> ELSE short
    BY DEF DisplayFilename, short, cut, inner, clean, seg
<1>. HIDE DEF short, name
<1>7. Plain(name) /\ Len(name) \in 1 .. NameMax
    <2>1. CASE short = <<>>
        <3>1. name = <<"a">>
            BY <1>6, <2>1
        <3>2. <<"a">> \in Text /\ Len(<<"a">>) = 1 /\ <<"a">>[1] = "a"
            <4>1. <<"a">> \in Seq({"a"}) /\ Len(<<"a">>) = 1 /\ <<"a">>[1] = "a"
                OBVIOUS
            <4>. QED  BY <4>1, SeqMonotonic DEF Text, Char
        <3>3. "a" \notin Control \cup {"/"}
            BY DEF Control
        <3>. QED  BY <1>0, <3>1, <3>2, <3>3 DEF Plain
    <2>2. CASE short # <<>>
        <3>1. name = short /\ short \in Text
            BY <1>5, <1>6, <2>2 DEF Plain
        <3>2. Len(short) \in Nat /\ Len(short) # 0
            BY <2>2, <3>1, LenProperties, EmptySeq DEF Text
        <3>3. Len(cut) \in Nat
            BY <1>4, LenProperties DEF Plain, Text
        <3>4. Len(short) \in 1 .. NameMax
            BY <1>0, <1>4, <1>5, <3>2, <3>3
        <3>. QED  BY <1>5, <3>1, <3>4
    <2>. QED  BY <2>1, <2>2
<1>8. name \in Text /\ DOMAIN name = 1 .. Len(name)
    BY <1>7, LenProperties DEF Plain, Text
<1>9. Range(name) \cap (Control \cup {"/"}) = {}
    BY <1>7, <1>8 DEF Plain, Range
<1>. QED  BY <1>7, <1>8, <1>9 DEF name

\* A partner's name that was not refused passes the CHECK of the table.
LEMMA PartnerNameFits ==
    ASSUME NEW raw \in Text, PartnerName(raw) # None
    PROVE  /\ PartnerName(raw) \in Text
           /\ Len(Trim(PartnerName(raw), {" "})) \in 1 .. NameMax
<1>. DEFINE name == Trim(raw, Space)
            t == Trim(name, {" "})
<1>1. name \in Text /\ (Len(name) >= 1 => name[1] \notin Space)
    BY Trimmed
<1>2. PartnerName(raw) = name /\ Len(name) \in 1 .. NameMax
    BY DEF PartnerName
<1>. HIDE DEF name
<1>3. NameMax \in Nat /\ Len(name) \in Nat /\ 1 \in 1 .. Len(name) /\ Len(name) <= NameMax
    BY <1>2, FormsAssumption
<1>4. name[1] \notin {" "}
    <2>1. name[1] \notin Space
        BY <1>1, <1>3
    <2>. QED  BY <2>1 DEF Space
<1>5. t \in Text /\ Len(t) <= Len(name) /\ Len(t) >= 1
    BY <1>1, <1>3, <1>4, Trimmed
<1>. HIDE DEF t
<1>6. Len(t) \in Nat
    BY <1>5, LenProperties DEF Text
<1>7. Len(t) \in 1 .. NameMax
    BY <1>3, <1>5, <1>6
<1>. QED  BY <1>1, <1>2, <1>7 DEF t

\* And so does a note.
LEMMA PartnerNoteFits ==
    ASSUME NEW raw \in Text, PartnerNote(raw) # None
    PROVE  PartnerNote(raw) \in Text /\ Len(PartnerNote(raw)) <= NoteMax
BY Trimmed DEF PartnerNote

-----------------------------------------------------------------------------
(* Sizes.                                                                  *)

\* Nothing held back.
LEMMA LeadsNowhere ==
    ASSUME NEW a \in Nat, NEW b \in Nat
    PROVE  Leads(a, <<>>, b) <=> a = b
<1>1. Len(<<>>) = 0
    OBVIOUS
<1>2. Leads(a, <<>>, b) <=> \E p \in [0 .. 0 -> 0 .. b] : p[0] = a /\ p[0] = b
    BY <1>1 DEF Leads
<1>3. ASSUME a = b PROVE \E p \in [0 .. 0 -> 0 .. b] : p[0] = a /\ p[0] = b
    <2>. DEFINE p == [i \in 0 .. 0 |-> b]
    <2>1. p \in [0 .. 0 -> 0 .. b] /\ p[0] = a /\ p[0] = b
        BY <1>3
    <2>. QED  BY <2>1
<1>. QED  BY <1>2, <1>3

\* One more chunk is held back.
LEMMA LeadsAppend ==
    ASSUME NEW a \in Nat, NEW s \in Seq(Nat), NEW b \in Nat, NEW n \in Nat, Leads(a, s, b)
    PROVE  Leads(a, Append(s, n), b + n)
<1>. DEFINE t == Append(s, n)
<1>1. PICK p \in [0 .. Len(s) -> 0 .. b] :
          /\ p[0] = a /\ p[Len(s)] = b
          /\ \A i \in 1 .. Len(s) : p[i] = p[i - 1] + s[i]
    BY DEF Leads
<1>2. /\ t \in Seq(Nat) /\ Len(t) = Len(s) + 1 /\ Len(s) \in Nat
      /\ \A i \in 1 .. Len(s) : t[i] = s[i]
      /\ t[Len(s) + 1] = n
    BY AppendProperties, LenProperties
<1>. HIDE DEF t
<1>. DEFINE q == [i \in 0 .. Len(t) |-> IF i <= Len(s) THEN p[i] ELSE b + n]
<1>3. q \in [0 .. Len(t) -> 0 .. b + n]
    <2>1. ASSUME NEW i \in 0 .. Len(t) PROVE q[i] \in 0 .. b + n
        <3>1. CASE i <= Len(s)
            <4>1. i \in 0 .. Len(s) /\ q[i] = p[i]
                BY <1>2, <3>1
            <4>2. p[i] \in 0 .. b
                BY <4>1
            <4>. QED  BY <4>1, <4>2
        <3>2. CASE ~ (i <= Len(s))
            BY <3>2
        <3>. QED  BY <3>1, <3>2
    <2>. QED  BY <2>1
<1>4. q[0] = a /\ q[Len(t)] = b + n
    BY <1>1, <1>2
<1>5. ASSUME NEW i \in 1 .. Len(t) PROVE q[i] = q[i - 1] + t[i]
    <2>1. CASE i <= Len(s)
        BY <1>1, <1>2, <2>1
    <2>2. CASE ~ (i <= Len(s))
        <3>1. i = Len(s) + 1 /\ i - 1 = Len(s) /\ Len(s) \in 0 .. Len(t) /\ i \in 0 .. Len(t)
            BY <1>2, <2>2
        <3>2. q[i] = b + n /\ q[i - 1] = p[Len(s)] /\ t[i] = n
            BY <1>2, <2>2, <3>1
        <3>. QED  BY <1>1, <3>2
    <2>. QED  BY <2>1, <2>2
<1>. HIDE DEF q
<1>. QED  BY <1>3, <1>4, <1>5 DEF Leads, t

\* The first chunk that was held back moves on.
LEMMA LeadsTail ==
    ASSUME NEW a \in Nat, NEW s \in Seq(Nat), NEW b \in Nat, Leads(a, s, b), s # <<>>
    PROVE  /\ Head(s) \in Nat /\ Tail(s) \in Seq(Nat) /\ a + Head(s) <= b
           /\ Leads(a + Head(s), Tail(s), b)
<1>. DEFINE t == Tail(s)
<1>1. PICK p \in [0 .. Len(s) -> 0 .. b] :
          /\ p[0] = a /\ p[Len(s)] = b
          /\ \A i \in 1 .. Len(s) : p[i] = p[i - 1] + s[i]
    BY DEF Leads
<1>2. /\ Head(s) \in Nat /\ t \in Seq(Nat) /\ Len(t) = Len(s) - 1
      /\ \A i \in 1 .. Len(t) : t[i] = s[i + 1]
    BY HeadTailProperties
<1>3. Len(s) \in Nat /\ Len(s) >= 1 /\ Head(s) = s[1] /\ Len(t) \in Nat
    BY <1>2, LenProperties, EmptySeq
<1>. HIDE DEF t
<1>. DEFINE q == [i \in 0 .. Len(t) |-> p[i + 1]]
<1>4. q \in [0 .. Len(t) -> 0 .. b]
    <2>1. \A i \in 0 .. Len(t) : i + 1 \in 0 .. Len(s)
        BY <1>2, <1>3
    <2>. QED  BY <2>1
<1>5. p[1] = a + Head(s) /\ p[1] \in 0 .. b
    <2>1. 1 \in 1 .. Len(s) /\ 1 \in 0 .. Len(s) /\ 1 - 1 = 0
        BY <1>3
    <2>2. p[1] = p[1 - 1] + s[1]
        BY <1>1, <2>1
    <2>. QED  BY <1>1, <1>3, <2>1, <2>2
<1>6. q[0] = a + Head(s) /\ q[Len(t)] = b
    <2>1. 0 \in 0 .. Len(t) /\ Len(t) \in 0 .. Len(t) /\ Len(t) + 1 = Len(s)
        BY <1>2, <1>3
    <2>2. q[0] = p[0 + 1] /\ q[Len(t)] = p[Len(s)]
        BY <2>1
    <2>. QED  BY <1>1, <1>5, <2>2
<1>7. ASSUME NEW i \in 1 .. Len(t) PROVE q[i] = q[i - 1] + t[i]
    <2>1. /\ i \in 0 .. Len(t) /\ i - 1 \in 0 .. Len(t) /\ i + 1 \in 1 .. Len(s)
          /\ (i - 1) + 1 = i /\ (i + 1) - 1 = i
        BY <1>2, <1>3
    <2>2. q[i] = p[i + 1] /\ q[i - 1] = p[i] /\ t[i] = s[i + 1]
        BY <1>2, <2>1
    <2>3. p[i + 1] = p[(i + 1) - 1] + s[i + 1]
        BY <1>1, <2>1
    <2>. QED  BY <2>1, <2>2, <2>3
<1>8. Leads(a + Head(s), t, b)
    <2>. HIDE DEF q
    <2>. QED  BY <1>4, <1>6, <1>7 DEF Leads
<1>. QED  BY <1>2, <1>3, <1>5, <1>8 DEF t

\* One more part is read: its bytes count if it is no file.
LEMMA PositionsGrow ==
    ASSUME form \in Seq(Part), NEW i \in 1 .. Len(form), IsFiniteSet(Positions(i - 1))
    PROVE  /\ IsFiniteSet(Positions(i)) /\ OtherBytes(i - 1) \in Nat
           /\ OtherBytes(i) = OtherBytes(i - 1) + (IF IsFile(i) THEN 0 ELSE Len(form[i].body))
<1>. DEFINE n == Len(form[i].body)
            here == {i} \X (1 .. n)
<1>0. Len(form) \in Nat
    BY LenProperties
<1>1. n \in Nat
    <2>1. form[i] \in Part
        BY ElementOfSeq
    <2>2. form[i].body \in Seq(Nat)
        BY <2>1 DEF Part
    <2>. QED  BY <2>2, LenProperties
<1>2. OtherBytes(i - 1) = Cardinality(Positions(i - 1)) /\ OtherBytes(i) = Cardinality(Positions(i))
    BY DEF OtherBytes, Positions
<1>3. Cardinality(Positions(i - 1)) \in Nat
    BY FS_CardinalityType
<1>4. CASE IsFile(i)
    <2>1. {j \in 1 .. i : ~IsFile(j)} = {j \in 1 .. i - 1 : ~IsFile(j)}
        BY <1>0, <1>4
    <2>2. Positions(i) = Positions(i - 1)
        BY <2>1 DEF Positions
    <2>. QED  BY <1>2, <1>3, <1>4, <2>2
<1>5. CASE ~ IsFile(i)
    <2>. HIDE DEF n
    <2>1. IsFiniteSet(here) /\ Cardinality(here) = n
        <3>1. IsFiniteSet({i}) /\ Cardinality({i}) = 1
            BY FS_Singleton
        <3>2. IsFiniteSet(1 .. n) /\ Cardinality(1 .. n) = n
            <4>1. 1 \in Int /\ n \in Int
                BY <1>1
            <4>2. /\ IsFiniteSet(1 .. n)
                  /\ Cardinality(1 .. n) = IF 1 > n THEN 0 ELSE n - 1 + 1
                BY <4>1, FS_Interval
            <4>3. (IF 1 > n THEN 0 ELSE n - 1 + 1) = n
                BY <1>1
            <4>. QED  BY <4>2, <4>3
        <3>3. IsFiniteSet(here) /\ Cardinality(here) = Cardinality({i}) * Cardinality(1 .. n)
            BY <3>1, <3>2, FS_Product
        <3>4. 1 * n = n
            BY <1>1
        <3>. QED  BY <3>1, <3>2, <3>3, <3>4
    <2>2. Positions(i) = Positions(i - 1) \cup here
        <3>1. \A j : j \in 1 .. i <=> j \in 1 .. i - 1 \/ j = i
            BY <1>0
        <3>2. ASSUME NEW x PROVE x \in Positions(i) <=> x \in Positions(i - 1) \cup here
            <4>1. /\ x \in Positions(i) <=>
                       \E j \in 1 .. i : ~IsFile(j) /\ x \in {j} \X (1 .. Len(form[j].body))
                  /\ x \in Positions(i - 1) <=>
                       \E j \in 1 .. i - 1 : ~IsFile(j) /\ x \in {j} \X (1 .. Len(form[j].body))
                BY Zenon DEF Positions
            <4>2. x \in here <=> x \in {i} \X (1 .. Len(form[i].body))
                BY DEF n
            <4>. HIDE DEF here
            <4>. QED  BY <1>5, <3>1, <4>1, <4>2, Zenon
        <3>. QED  BY <3>2
    <2>3. Positions(i - 1) \cap here = {}
        <3>1. ASSUME NEW x \in Positions(i - 1), x \in here PROVE FALSE
            <4>1. PICK j \in 1 .. i - 1 : x \in {j} \X (1 .. Len(form[j].body))
                BY <3>1 DEF Positions
            <4>2. x[1] = j /\ x[1] = i
                BY <3>1, <4>1
            <4>. QED  BY <1>0, <4>1, <4>2
        <3>. QED  BY <3>1
    <2>. HIDE DEF here
    <2>4. /\ IsFiniteSet(Positions(i))
          /\ Cardinality(Positions(i)) = Cardinality(Positions(i - 1)) + n - Cardinality({})
        BY <2>1, <2>2, <2>3, FS_Union
    <2>5. Cardinality({}) = 0
        BY FS_EmptySet
    <2>. QED  BY <1>1, <1>2, <1>3, <1>5, <2>4, <2>5 DEF n
<1>. QED  BY <1>4, <1>5

\* The first fault of a form decides the answer.
LEMMA FirstFault ==
    ASSUME form \in Seq(Part), NEW i \in 1 .. Len(form), Fault(i) # None,
           \A j \in 1 .. i - 1 : Fault(j) = None
    PROVE  Deserved = Fault(i)
<1>. DEFINE faulty == {j \in DOMAIN form : Fault(j) # None}
<1>1. Len(form) \in Nat /\ DOMAIN form = 1 .. Len(form)
    BY LenProperties
<1>2. i \in faulty /\ faulty \in SUBSET Nat /\ faulty # {}
    BY <1>1
<1>3. Min(faulty) \in faulty /\ \A j \in faulty : Min(faulty) <= j
    BY <1>2, MinIsLeast
<1>4. Min(faulty) = i
    <2>1. Min(faulty) \in 1 .. Len(form) /\ Min(faulty) <= i /\ Fault(Min(faulty)) # None
        BY <1>1, <1>2, <1>3
    <2>2. Min(faulty) \notin 1 .. i - 1
        BY <2>1
    <2>. HIDE DEF faulty
    <2>. QED  BY <1>1, <2>1, <2>2
<1>. QED  BY <1>2, <1>4 DEF Deserved

\* A form without fault is accepted if it holds a file.
LEMMA NoFault ==
    ASSUME form \in Seq(Part), \A j \in 1 .. Len(form) : Fault(j) = None
    PROVE  Deserved = IF \E j \in 1 .. Len(form) : IsFile(j) THEN "accepted" ELSE "validation"
<1>1. DOMAIN form = 1 .. Len(form)
    BY LenProperties
<1>2. {j \in DOMAIN form : Fault(j) # None} = {}
    BY <1>1
<1>. QED  BY <1>1, <1>2 DEF Deserved

-----------------------------------------------------------------------------
(* The invariant, step by step.                                            *)

\* The client has sent what it sends: what the form deserves does not change.
LEMMA FormStays ==
    ASSUME form' = form
    PROVE  /\ Deserved' = Deserved
           /\ \A i : Fault(i)' = Fault(i) /\ IsFile(i)' = IsFile(i)
           /\ \A i : OtherBytes(i)' = OtherBytes(i) /\ Positions(i)' = Positions(i)
<1>1. \A i : IsFile(i)' = IsFile(i)
    BY DEF IsFile
<1>2. \A i : OtherBytes(i)' = OtherBytes(i) /\ Positions(i)' = Positions(i)
    BY DEF IsFile, OtherBytes, Positions
<1>3. \A i : Fault(i)' = Fault(i)
    BY <1>1, <1>2 DEF Fault
<1>4. Deserved' = Deserved
    BY <1>1, <1>3 DEF Deserved
<1>. QED  BY <1>1, <1>2, <1>3, <1>4

\* The part that is being read, and the chunks it may arrive in.
LEMMA PartTyped ==
    ASSUME TypeOK, part <= Len(form)
    PROVE  /\ part \in 1 .. Len(form) /\ Len(form) \in Nat /\ form[part] \in Part
           /\ Body = form[part].body /\ Body \in Seq(Nat) /\ Len(Body) \in Nat
           /\ form[part].filename \in Text
<1>1. Len(form) \in Nat /\ part \in 1 .. Len(form)
    BY LenProperties DEF TypeOK
<1>2. form[part] \in Part
    BY <1>1, ElementOfSeq DEF TypeOK
<1>3. Body = form[part].body /\ Body \in Seq(Nat) /\ form[part].filename \in Text
    BY <1>2 DEF Body, Part
<1>. QED  BY <1>1, <1>2, <1>3, LenProperties

LEMMA ChunkFits ==
    ASSUME TypeOK, part <= Len(form), got <= Len(Body), NEW n \in Chunks
    PROVE  n \in Nat \ {0} /\ got + n <= Len(Body)
<1>1. Len(Body) \in Nat /\ got \in Nat /\ Len(Body) - got \in Nat
    BY PartTyped DEF TypeOK
<1>2. PICK c \in ChunkSizes : n = Min({c, Len(Body) - got}) /\ n # 0
    BY DEF Chunks
<1>3. c \in Nat
    BY FormsAssumption
<1>4. n \in {c, Len(Body) - got} /\ n <= Len(Body) - got
    BY <1>1, <1>2, <1>3, MinOfTwo
<1>. QED  BY <1>1, <1>2, <1>3, <1>4

\* A request is answered.
LEMMA AnswerStep ==
    ASSUME FormsInv, NEW v, Answer(v),
           v = "bad_request" \/ (v = Deserved /\ (v = "accepted" => received # None))
    PROVE  FormsInv'
<1>1. form' = form /\ fields' = fields
    BY DEF Answer, sent
<1>2. Deserved' = Deserved /\ \A i : IsFile(i)' = IsFile(i)
    BY <1>1, FormStays
<1>3. TypeOK'
    BY <1>1 DEF FormsInv, TypeOK, Answer, Places
<1>4. PartsRead' /\ PartBegun' /\ (place' # "card")
    BY DEF Answer, PartsRead, PartBegun, Reading
<1>5. FileWhole'
    BY <1>1, <1>2 DEF FormsInv, FileWhole, Answer
<1>6. NamesFit' /\ WriterStaysInLimit'
    BY DEF FormsInv, NamesFit, WriterStaysInLimit, Answer
<1>7. AnswerDeserved'
    BY <1>2 DEF AnswerDeserved, Answer
<1>. QED  BY <1>3, <1>4, <1>5, <1>6, <1>7 DEF FormsInv

\* A step of reading that receives nothing and answers nothing.
LEMMA ReadingStep ==
    ASSUME FormsInv, UNCHANGED <<sent, received, card, verdict>>,
           place \in Reading, place' \in Reading, TypeOK', PartsRead', PartBegun', WriterStaysInLimit'
    PROVE  FormsInv'
<1>1. form' = form /\ fields' = fields
    BY DEF sent
<1>2. \A i : IsFile(i)' = IsFile(i)
    BY <1>1, FormStays
<1>3. FileWhole'
    BY <1>1, <1>2 DEF FormsInv, FileWhole
<1>4. NamesFit'
    BY DEF FormsInv, NamesFit
<1>5. AnswerDeserved' /\ place' # "card"
    BY DEF FormsInv, AnswerDeserved, Reading
<1>. QED  BY <1>3, <1>4, <1>5 DEF FormsInv

\* next_field.
LEMMA NextFieldStep ==
    ASSUME FormsInv, NextField
    PROVE  FormsInv'
<1>1. /\ TypeOK /\ form \in Seq(Part) /\ part \in 1 .. Len(form) + 1 /\ Len(form) \in Nat
      /\ place = "field" /\ place \in Reading
    BY LenProperties DEF FormsInv, TypeOK, NextField, Reading
<1>2. /\ fields = None /\ \A i \in 1 .. part - 1 : Fault(i) = None
      /\ received = None <=> \A i \in 1 .. part - 1 : ~IsFile(i)
      /\ IsFiniteSet(Positions(part - 1))
      /\ others = OtherBytes(part - 1) /\ others <= MaxOther
      /\ received = None => written = 0 /\ head = <<>>
    <2>1. others = OtherBytes(part - 1) + 0 /\ others \in Nat
        BY <1>1 DEF FormsInv, PartsRead, TypeOK
    <2>2. /\ fields = None /\ \A i \in 1 .. part - 1 : Fault(i) = None
          /\ received = None <=> \A i \in 1 .. part - 1 : ~IsFile(i)
          /\ IsFiniteSet(Positions(part - 1)) /\ others <= MaxOther
          /\ received = None => written = 0 /\ head = <<>>
        BY <1>1 DEF FormsInv, PartsRead
    <2>3. OtherBytes(part - 1) \in Nat
        BY <2>2, FS_CardinalityType DEF OtherBytes, Positions
    <2>. QED  BY <2>1, <2>2, <2>3
<1>3. CASE part > Len(form) /\ Answer(IF received = None THEN "validation" ELSE "accepted")
    <2>. DEFINE v == IF received = None THEN "validation" ELSE "accepted"
    <2>1. part - 1 = Len(form)
        BY <1>1, <1>3
    <2>2. Deserved = IF \E j \in 1 .. Len(form) : IsFile(j) THEN "accepted" ELSE "validation"
        BY <1>1, <1>2, <2>1, NoFault
    <2>3. v = Deserved /\ (v = "accepted" => received # None)
        BY <1>2, <2>1, <2>2
    <2>. HIDE DEF v
    <2>4. Answer(v)
        BY <1>3 DEF v
    <2>. QED  BY <2>3, <2>4, AnswerStep
<1>4. CASE part <= Len(form) /\ form[part].file /\ received # None /\ Answer("validation")
    <2>1. part \in 1 .. Len(form)
        BY <1>1, <1>4
    <2>2. IsFile(part) /\ \E j \in 1 .. part - 1 : IsFile(j)
        BY <1>2, <1>4 DEF IsFile
    <2>3. Fault(part) = "validation" /\ Fault(part) # None
        BY <2>2, FormsAssumption DEF Fault
    <2>4. Deserved = "validation"
        BY <1>1, <1>2, <2>1, <2>3, FirstFault
    <2>5. "validation" # "accepted"
        OBVIOUS
    <2>. QED  BY <1>4, <2>4, <2>5, AnswerStep
<1>5. CASE /\ part <= Len(form) /\ ~(form[part].file /\ received # None)
           /\ place' = (IF form[part].file THEN "head" ELSE "drain")
           /\ got' = 0
           /\ UNCHANGED <<sent, media, part, head, others, written, received, card, verdict>>
    <2>1. form' = form /\ fields' = fields
        BY <1>5 DEF sent
    <2>2. /\ \A i : Fault(i)' = Fault(i) /\ IsFile(i)' = IsFile(i)
          /\ \A i : OtherBytes(i)' = OtherBytes(i) /\ Positions(i)' = Positions(i)
        BY <2>1, FormStays
    <2>3. place' \in Reading /\ place' \in {"head", "drain"}
        BY <1>5 DEF Reading
    <2>4. TypeOK'
        BY <1>1, <1>5, <2>1, <2>3 DEF TypeOK, Places
    <2>5. PartsRead'
        <3>1. OtherBytes(part - 1) + 0 = OtherBytes(part - 1)
            BY <1>1, <1>2 DEF TypeOK
        <3>2. (others = OtherBytes(part - 1) + (IF place = "drain" THEN got ELSE 0))'
            BY <1>2, <1>5, <2>2, <3>1
        <3>3. /\ fields' = None /\ \A i \in 1 .. part' - 1 : Fault(i)' = None
              /\ received' = None <=> \A i \in 1 .. part' - 1 : ~IsFile(i)'
              /\ IsFiniteSet(Positions(part - 1)') /\ others' <= MaxOther
              /\ received' = None => written' = 0 /\ head' = <<>>
            BY <1>2, <1>5, <2>1, <2>2
        <3>4. IsFiniteSet(Positions(part - 1))'
            BY <3>3, <1>5, <2>1 DEF Positions, IsFile
        <3>. QED  BY <3>2, <3>3, <3>4 DEF PartsRead
    <2>6. PartBegun'
        <3>1. Len(Body) \in Nat /\ Body' = Body /\ form[part] \in Part
            BY <1>1, <1>5, <2>1, PartTyped DEF Body
        <3>2. place' = "head" => IsFile(part) /\ received = None
            BY <1>5 DEF IsFile
        <3>3. place' = "drain" => ~IsFile(part)
            BY <1>5 DEF IsFile
        <3>4. place' = "head" => written' = 0 /\ Leads(written, head, got)'
            <4>1. Leads(0, <<>>, 0)
                BY LeadsNowhere
            <4>. QED  BY <1>2, <1>5, <3>2, <4>1
        <3>5. got' <= Len(Body')
            BY <1>5, <3>1
        <3>. QED
            BY <1>5, <2>1, <2>2, <2>3, <3>2, <3>3, <3>4, <3>5 DEF PartBegun
    <2>7. WriterStaysInLimit' /\ UNCHANGED <<sent, received, card, verdict>>
        BY <1>5 DEF FormsInv, WriterStaysInLimit
    <2>. QED  BY <1>1, <2>3, <2>4, <2>5, <2>6, <2>7, ReadingStep
<1>. QED  BY <1>3, <1>4, <1>5 DEF NextField

\* What is known while a part is read.
LEMMA WhileReading ==
    ASSUME FormsInv, place \in {"drain", "head", "stream"}
    PROVE  /\ TypeOK /\ form \in Seq(Part) /\ part \in 1 .. Len(form) /\ part <= Len(form)
           /\ place \in Reading /\ fields = None
           /\ got \in Nat /\ written \in Nat /\ others \in Nat /\ head \in Seq(Nat)
           /\ Len(Body) \in Nat /\ got <= Len(Body)
           /\ \A i \in 1 .. part - 1 : Fault(i) = None
           /\ received = None <=> \A i \in 1 .. part - 1 : ~IsFile(i)
           /\ IsFiniteSet(Positions(part - 1)) /\ OtherBytes(part - 1) \in Nat
           /\ others = OtherBytes(part - 1) + (IF place = "drain" THEN got ELSE 0)
           /\ others <= MaxOther /\ written <= MaxUpload
           /\ MaxOther \in Nat /\ MaxUpload \in Nat
<1>1. /\ TypeOK /\ form \in Seq(Part) /\ place \in Reading /\ part <= Len(form) /\ got <= Len(Body)
      /\ got \in Nat /\ written \in Nat /\ others \in Nat /\ head \in Seq(Nat) /\ written <= MaxUpload
    BY DEF FormsInv, TypeOK, Reading, PartBegun, WriterStaysInLimit
<1>2. part \in 1 .. Len(form) /\ Len(Body) \in Nat
    BY <1>1, PartTyped
<1>3. /\ fields = None /\ \A i \in 1 .. part - 1 : Fault(i) = None
      /\ received = None <=> \A i \in 1 .. part - 1 : ~IsFile(i)
      /\ IsFiniteSet(Positions(part - 1))
      /\ others = OtherBytes(part - 1) + (IF place = "drain" THEN got ELSE 0)
      /\ others <= MaxOther
    BY <1>1 DEF FormsInv, PartsRead
<1>4. OtherBytes(part - 1) \in Nat
    BY <1>3, FS_CardinalityType DEF OtherBytes, Positions
<1>. QED  BY <1>1, <1>2, <1>3, <1>4, FormsAssumption

\* A chunk of another part is counted and dropped, or is one too many.
LEMMA DrainChunkStep ==
    ASSUME FormsInv, place = "drain", NEW n \in Chunks, DrainChunk(n)
    PROVE  FormsInv'
<1>1. /\ TypeOK /\ form \in Seq(Part) /\ part \in 1 .. Len(form) /\ part <= Len(form)
      /\ place \in Reading /\ fields = None
      /\ got \in Nat /\ written \in Nat /\ others \in Nat
      /\ Len(Body) \in Nat /\ got <= Len(Body)
      /\ \A i \in 1 .. part - 1 : Fault(i) = None
      /\ received = None <=> \A i \in 1 .. part - 1 : ~IsFile(i)
      /\ IsFiniteSet(Positions(part - 1)) /\ OtherBytes(part - 1) \in Nat
      /\ others = OtherBytes(part - 1) + got
      /\ MaxOther \in Nat
    BY WhileReading
<1>2. n \in Nat \ {0} /\ got + n <= Len(Body)
    BY <1>1, ChunkFits
<1>3. ~IsFile(part) /\ (received = None => written = 0 /\ head = <<>>)
    BY <1>1 DEF FormsInv, PartBegun, PartsRead
<1>4. OtherBytes(part) = OtherBytes(part - 1) + Len(Body)
    BY <1>1, <1>3, PositionsGrow DEF Body
<1>5. CASE others + n > MaxOther
    <2>1. OtherBytes(part) > MaxOther
        BY <1>1, <1>2, <1>4, <1>5
    <2>2. Fault(part) = "too_large" /\ Fault(part) # None
        BY <1>3, <2>1, FormsAssumption DEF Fault
    <2>3. Deserved = "too_large" /\ "too_large" # "accepted"
        BY <1>1, <2>2, FirstFault
    <2>4. Answer("too_large")
        BY <1>5 DEF DrainChunk
    <2>. QED  BY <2>3, <2>4, AnswerStep
<1>6. CASE ~ (others + n > MaxOther)
    <2>0. /\ others' = others + n /\ got' = got + n
          /\ UNCHANGED <<sent, media, part, place, head, written, received, card, verdict>>
        BY <1>6 DEF DrainChunk
    <2>1. form' = form /\ fields' = fields
        BY <2>0 DEF sent
    <2>2. /\ \A i : Fault(i)' = Fault(i) /\ IsFile(i)' = IsFile(i)
          /\ \A i : OtherBytes(i)' = OtherBytes(i) /\ Positions(i)' = Positions(i)
        BY <2>1, FormStays
    <2>3. TypeOK'
        BY <1>1, <1>2, <2>0, <2>1 DEF TypeOK
    <2>4. PartsRead'
        <3>1. others' = OtherBytes(part - 1) + got' /\ others' <= MaxOther
            BY <1>1, <1>2, <1>6, <2>0
        <3>2. OtherBytes(part - 1)' = OtherBytes(part - 1) /\ Positions(part - 1)' = Positions(part - 1)
            BY <2>0, <2>1 DEF OtherBytes, Positions, IsFile
        <3>. QED  BY <1>1, <1>3, <2>0, <2>1, <2>2, <3>1, <3>2 DEF PartsRead
    <2>5. PartBegun'
        <3>1. Body' = Body
            BY <2>0, <2>1 DEF Body
        <3>. QED  BY <1>1, <1>2, <1>3, <2>0, <2>1, <2>2, <3>1 DEF PartBegun
    <2>6. WriterStaysInLimit' /\ UNCHANGED <<sent, received, card, verdict>> /\ place' \in Reading
        BY <1>1, <2>0 DEF FormsInv, WriterStaysInLimit
    <2>. QED  BY <1>1, <2>3, <2>4, <2>5, <2>6, ReadingStep
<1>. QED  BY <1>5, <1>6

\* A part without fault is over: the next one is looked at.
LEMMA PartOver ==
    ASSUME FormsInv, place \in {"drain", "head", "stream"}, PartDone, Fault(part) = None,
           others = OtherBytes(part), received' = None <=> received = None /\ ~IsFile(part),
           received' = None => written = 0 /\ head = <<>>
    PROVE  PartsRead' /\ PartBegun' /\ form' = form /\ fields' = fields
<1>1. /\ TypeOK /\ form \in Seq(Part) /\ part \in 1 .. Len(form) /\ fields = None
      /\ others \in Nat /\ Len(form) \in Nat
      /\ \A i \in 1 .. part - 1 : Fault(i) = None
      /\ received = None <=> \A i \in 1 .. part - 1 : ~IsFile(i)
      /\ IsFiniteSet(Positions(part - 1)) /\ others <= MaxOther
    BY WhileReading, LenProperties
<1>2. /\ part' = part + 1 /\ part' - 1 = part /\ place' = "field" /\ form' = form /\ fields' = fields
      /\ others' = others /\ written' = written /\ head' = head
    BY <1>1 DEF PartDone, sent
<1>3. \A i : Fault(i)' = Fault(i) /\ IsFile(i)' = IsFile(i)
    BY <1>2, FormStays
<1>4. IsFiniteSet(Positions(part))
    BY <1>1, PositionsGrow
<1>5. \A i \in 1 .. part : i \in 1 .. part - 1 \/ i = part
    BY <1>1
<1>6. \A i \in 1 .. part - 1 : i \in 1 .. part
    BY <1>1
<1>7. (\A i \in 1 .. part - 1 : Fault(i) = None)'
    BY <1>1, <1>2, <1>3, <1>5
<1>8. (received = None <=> \A i \in 1 .. part - 1 : ~IsFile(i))'
    <2>1. part \in 1 .. part
        BY <1>1
    <2>2. received' = None <=> \A i \in 1 .. part : ~IsFile(i)
        BY <1>1, <1>5, <1>6, <2>1
    <2>. QED  BY <1>2, <1>3, <2>2
<1>9. OtherBytes(part - 1)' = OtherBytes(part) /\ Positions(part - 1)' = Positions(part)
    BY <1>2 DEF OtherBytes, Positions, IsFile
<1>10. (others = OtherBytes(part - 1) + (IF place = "drain" THEN got ELSE 0))'
    <2>1. others = others + 0
        BY <1>1
    <2>. QED  BY <1>2, <1>9, <2>1
<1>11. PartsRead'
    BY <1>1, <1>2, <1>4, <1>7, <1>8, <1>9, <1>10 DEF PartsRead
<1>12. PartBegun'
    BY <1>2 DEF PartBegun
<1>. QED  BY <1>2, <1>11, <1>12

LEMMA DrainEndStep ==
    ASSUME FormsInv, DrainEnd
    PROVE  FormsInv'
<1>0. place = "drain" /\ got = Len(Body) /\ received' = received /\ PartDone
    BY DEF DrainEnd
<1>1. /\ TypeOK /\ form \in Seq(Part) /\ part \in 1 .. Len(form) /\ Len(form) \in Nat
      /\ place \in Reading /\ others \in Nat
      /\ IsFiniteSet(Positions(part - 1)) /\ OtherBytes(part - 1) \in Nat
      /\ others = OtherBytes(part - 1) + got
      /\ others <= MaxOther /\ MaxOther \in Nat
    BY <1>0, WhileReading, LenProperties
<1>2. ~IsFile(part) /\ (received = None => written = 0 /\ head = <<>>)
    BY <1>0, <1>1 DEF FormsInv, PartBegun, PartsRead
<1>3. others = OtherBytes(part)
    BY <1>0, <1>1, <1>2, PositionsGrow DEF Body
<1>4. Fault(part) = None
    BY <1>1, <1>2, <1>3 DEF Fault
<1>5. PartsRead' /\ PartBegun' /\ form' = form /\ fields' = fields
    BY <1>0, <1>2, <1>3, <1>4, PartOver
<1>6. /\ part' = part + 1 /\ place' = "field"
      /\ UNCHANGED <<sent, media, got, head, others, written, card, verdict>>
    BY <1>0 DEF PartDone
<1>7. TypeOK'
    BY <1>0, <1>1, <1>5, <1>6 DEF TypeOK, Places
<1>8. WriterStaysInLimit' /\ UNCHANGED <<sent, received, card, verdict>> /\ place' \in Reading
    BY <1>0, <1>6 DEF FormsInv, WriterStaysInLimit, Reading
<1>. QED  BY <1>1, <1>5, <1>7, <1>8, ReadingStep

\* A step inside a file.
LEMMA FileStep ==
    ASSUME FormsInv, place \in {"head", "stream"}, place' \in {"head", "stream"},
           UNCHANGED <<sent, part, others, received, card, verdict>>,
           got' \in Nat, got' <= Len(Body), head' \in Seq(Nat), written' \in Nat,
           written' <= MaxUpload, Leads(written', head', got'), media' \in MediaTypes \cup {None},
           place' = "head" => written' = 0,
           place' = "stream" => got' > 0 /\ media' \in MediaTypes /\ Honest(form[part], media')
    PROVE  FormsInv'
<1>1. /\ TypeOK /\ form \in Seq(Part) /\ part \in 1 .. Len(form) /\ part <= Len(form)
      /\ place \in Reading /\ fields = None /\ others \in Nat
      /\ \A i \in 1 .. part - 1 : Fault(i) = None
      /\ received = None <=> \A i \in 1 .. part - 1 : ~IsFile(i)
      /\ IsFiniteSet(Positions(part - 1)) /\ OtherBytes(part - 1) \in Nat
      /\ others = OtherBytes(part - 1) + 0 /\ others <= MaxOther
    BY WhileReading
<1>2. IsFile(part) /\ received = None
    BY DEF FormsInv, PartBegun
<1>3. form' = form /\ fields' = fields /\ part' = part
    BY DEF sent
<1>4. /\ \A i : Fault(i)' = Fault(i) /\ IsFile(i)' = IsFile(i)
      /\ OtherBytes(part - 1)' = OtherBytes(part - 1) /\ Positions(part - 1)' = Positions(part - 1)
    <2>1. OtherBytes(part - 1)' = OtherBytes(part - 1) /\ Positions(part - 1)' = Positions(part - 1)
        BY <1>3 DEF OtherBytes, Positions, IsFile
    <2>. QED  BY <1>3, <2>1, FormStays
<1>5. TypeOK'
    BY <1>1, <1>3 DEF TypeOK, Places
<1>6. PartsRead'
    BY <1>1, <1>3, <1>4 DEF PartsRead
<1>7. PartBegun'
    <2>1. Body' = Body /\ form'[part'] = form[part]
        BY <1>3 DEF Body
    <2>. QED  BY <1>1, <1>2, <1>3, <1>4, <2>1 DEF PartBegun
<1>8. WriterStaysInLimit' /\ UNCHANGED <<sent, received, card, verdict>> /\ place' \in Reading
    BY DEF WriterStaysInLimit, Reading
<1>. QED  BY <1>1, <1>5, <1>6, <1>7, <1>8, ReadingStep

\* A chunk is held back until the signature is known.
LEMMA HeadChunkStep ==
    ASSUME FormsInv, place = "head", NEW n \in Chunks, HeadChunk(n)
    PROVE  FormsInv'
<1>1. /\ TypeOK /\ part <= Len(form) /\ got \in Nat /\ written \in Nat /\ head \in Seq(Nat)
      /\ got <= Len(Body) /\ Len(Body) \in Nat /\ written <= MaxUpload
    BY WhileReading
<1>2. n \in Nat \ {0} /\ got + n <= Len(Body)
    BY <1>1, ChunkFits
<1>3. written = 0 /\ Leads(written, head, got) /\ media \in MediaTypes \cup {None}
    BY <1>1 DEF FormsInv, PartBegun, TypeOK
<1>4. /\ got' = got + n /\ head' = Append(head, n) /\ place' = place /\ written' = written
      /\ UNCHANGED <<sent, part, others, received, card, verdict>> /\ media' = media
    BY DEF HeadChunk
<1>5. got' \in Nat /\ got' <= Len(Body) /\ written' \in Nat /\ written' <= MaxUpload
    BY <1>1, <1>2, <1>4
<1>6. head' \in Seq(Nat) /\ Leads(written', head', got')
    <2>1. Leads(written, Append(head, n), got + n)
        BY <1>1, <1>2, <1>3, LeadsAppend
    <2>2. Append(head, n) \in Seq(Nat)
        BY <1>1, <1>2, AppendProperties
    <2>. QED  BY <1>4, <2>1, <2>2
<1>7. place' = "head" /\ "head" # "stream" /\ written' = 0
    BY <1>3, <1>4
<1>. QED  BY <1>3, <1>4, <1>5, <1>6, <1>7, FileStep

\* A file that is what it says has no other fault than its size.
LEMMA HonestFault ==
    ASSUME NEW p, NEW m \in MediaTypes, Honest(p, m), p.body # <<>>
    PROVE  FileFault(p) = IF Len(p.body) > MaxUpload THEN "too_large" ELSE None
BY DEF FileFault, Honest

\* The first file of a form is judged by itself.
LEMMA FirstFile ==
    ASSUME FormsInv, place \in {"head", "stream"}
    PROVE  Fault(part) = FileFault(form[part])
<1>1. place \in Reading /\ IsFile(part) /\ received = None
    BY DEF FormsInv, PartBegun, Reading
<1>2. \A j \in 1 .. part - 1 : ~IsFile(j)
    BY <1>1 DEF FormsInv, PartsRead
<1>. QED  BY <1>1, <1>2 DEF Fault

\* A file is refused: for the fault it has.
LEMMA FileRefused ==
    ASSUME FormsInv, place \in {"head", "stream"}, NEW v \in {"validation", "unsupported", "too_large"},
           Answer(v), FileFault(form[part]) = v
    PROVE  FormsInv'
<1>1. Fault(part) = v /\ v # None /\ v # "accepted"
    BY FirstFile, FormsAssumption
<1>2. form \in Seq(Part) /\ part \in 1 .. Len(form) /\ \A i \in 1 .. part - 1 : Fault(i) = None
    BY WhileReading
<1>3. Deserved = v
    BY <1>1, <1>2, FirstFault
<1>. QED  BY <1>1, <1>3, AnswerStep

\* The signature is judged, from the bytes held back.
LEMMA HeadEndStep ==
    ASSUME FormsInv, HeadEnd
    PROVE  FormsInv'
<1>. DEFINE p == form[part]
            found == Detect(SubSeq(Body, 1, got))
            declared == Declares(p.declared)
<1>0. place = "head" /\ (~HoldsBack \/ got = Len(Body))
    BY DEF HeadEnd
<1>1. /\ TypeOK /\ part <= Len(form) /\ got \in Nat /\ written \in Nat /\ head \in Seq(Nat)
      /\ got <= Len(Body) /\ Len(Body) \in Nat /\ written <= MaxUpload
    BY <1>0, WhileReading
<1>2. Body \in Seq(Nat) /\ Body = p.body
    BY <1>1, PartTyped
<1>3. PrefixLen \in Nat /\ PrefixLen >= 1
    <2>1. "pdf" \in MediaTypes
        BY Signatures
    <2>2. Len(Signature["pdf"]) \in 1 .. PrefixLen
        BY <2>1, Signatures
    <2>. QED  BY <2>2, FormsAssumption
<1>4. got >= PrefixLen \/ got = Len(Body)
    BY <1>0, <1>1, <1>3 DEF HoldsBack
<1>5. /\ found = None => \A m \in MediaTypes : ~ Carries(p.body, m)
      /\ found # None => found \in MediaTypes /\ Carries(p.body, found)
    <2>1. got \in 0 .. Len(Body)
        BY <1>1
    <2>2. /\ found = None => \A m \in MediaTypes : ~ Carries(Body, m)
          /\ found # None => found \in MediaTypes /\ Carries(Body, found)
        BY <1>2, <1>4, <2>1, DetectContent
    <2>. QED  BY <1>2, <2>2
<1>6. p.body = <<>> <=> Len(Body) = 0
    BY <1>2, EmptySeq
<1>7. declared = IF p.declared \in MediaTypes THEN p.declared ELSE None
    BY DEF Declares
<1>8. None \notin MediaTypes
    BY FormsAssumption
<1>9. \/ got = 0 /\ Answer("validation")
      \/ got # 0 /\ (found = None \/ declared \notin {None, found}) /\ Answer("unsupported")
      \/ /\ got # 0 /\ found # None /\ declared \in {None, found}
         /\ place' = "stream" /\ media' = found
         /\ UNCHANGED <<sent, part, got, head, others, written, received, card, verdict>>
    BY DEF HeadEnd
<1>. HIDE DEF found, declared
<1>10. CASE got = 0 /\ Answer("validation")
    <2>1. Len(Body) = 0
        BY <1>1, <1>3, <1>4, <1>10
    <2>2. FileFault(p) = "validation"
        BY <1>6, <2>1 DEF FileFault
    <2>. QED  BY <1>0, <1>10, <2>2, FileRefused
<1>11. CASE got # 0 /\ (found = None \/ declared \notin {None, found}) /\ Answer("unsupported")
    <2>1. p.body # <<>>
        BY <1>1, <1>6, <1>11
    <2>2. ASSUME NEW m \in MediaTypes, Carries(p.body, m), p.declared \notin MediaTypes \ {m}
          PROVE  FALSE
        <3>1. found # None /\ found \in MediaTypes /\ Carries(p.body, found)
            BY <1>5, <2>2
        <3>2. found = m
            BY <1>2, <2>2, <3>1, OneSignature DEF Carries
        <3>. QED  BY <1>7, <1>11, <2>2, <3>1, <3>2
    <2>3. FileFault(p) = "unsupported"
        BY <2>1, <2>2 DEF FileFault
    <2>. QED  BY <1>0, <1>11, <2>3, FileRefused
<1>12. CASE /\ got # 0 /\ found # None /\ declared \in {None, found}
            /\ place' = "stream" /\ media' = found
            /\ UNCHANGED <<sent, part, got, head, others, written, received, card, verdict>>
    <2>1. media' \in MediaTypes /\ Honest(p, media')
        BY <1>5, <1>7, <1>8, <1>12 DEF Honest
    <2>2. Leads(written', head', got')
        BY <1>0, <1>12 DEF FormsInv, PartBegun
    <2>3. got' \in Nat /\ got' <= Len(Body) /\ got' > 0 /\ written' \in Nat /\ written' <= MaxUpload
        BY <1>1, <1>12
    <2>4. head' \in Seq(Nat) /\ place' # "head"
        BY <1>1, <1>12
    <2>5. UNCHANGED <<sent, part, others, received, card, verdict>> /\ place' = "stream"
        BY <1>12
    <2>. QED  BY <1>0, <2>1, <2>2, <2>3, <2>4, <2>5, FileStep
<1>. QED  BY <1>9, <1>10, <1>11, <1>12

\* A chunk on its way to the store: it stays within the limit, or the file does not.
LEMMA LimitSizeStep ==
    ASSUME FormsInv, place = "stream", NEW n \in Nat, NEW arrived \in Nat, NEW held \in Seq(Nat),
           LimitSize(n, arrived, held), arrived > 0, arrived <= Len(Body), written + n <= arrived,
           Leads(written + n, held, arrived)
    PROVE  FormsInv'
<1>1. /\ TypeOK /\ part <= Len(form) /\ got \in Nat /\ written \in Nat /\ head \in Seq(Nat)
      /\ got <= Len(Body) /\ Len(Body) \in Nat /\ MaxUpload \in Nat
    BY WhileReading
<1>2. Body \in Seq(Nat) /\ Body = form[part].body
    BY <1>1, PartTyped
<1>3. media \in MediaTypes /\ Honest(form[part], media)
    BY DEF FormsInv, PartBegun
<1>4. CASE written + n > MaxUpload
    <2>1. Len(form[part].body) > MaxUpload /\ form[part].body # <<>>
        <3>1. Len(Body) > MaxUpload /\ Len(Body) # 0
            BY <1>1, <1>4
        <3>. QED  BY <1>2, <3>1, EmptySeq
    <2>2. FileFault(form[part]) = "too_large"
        BY <1>3, <2>1, HonestFault
    <2>3. Answer("too_large")
        BY <1>4 DEF LimitSize
    <2>. QED  BY <2>2, <2>3, FileRefused
<1>5. CASE ~ (written + n > MaxUpload)
    <2>1. /\ written' = written + n /\ got' = arrived /\ head' = held
          /\ UNCHANGED <<sent, part, others, received, card, verdict>>
          /\ media' = media /\ place' = place
        BY <1>5 DEF LimitSize
    <2>2. written' \in Nat /\ written' <= MaxUpload /\ got' \in Nat /\ got' > 0 /\ got' <= Len(Body)
        BY <1>1, <1>5, <2>1
    <2>3. head' \in Seq(Nat) /\ Leads(written', head', got') /\ place' = "stream" /\ place' # "head"
        BY <2>1
    <2>4. media' \in MediaTypes /\ Honest(form[part], media')
        BY <1>3, <2>1
    <2>. QED  BY <2>1, <2>2, <2>3, <2>4, FileStep
<1>. QED  BY <1>4, <1>5

LEMMA HeldChunkStep ==
    ASSUME FormsInv, HeldChunk
    PROVE  FormsInv'
<1>0. place = "stream" /\ head # <<>> /\ LimitSize(Head(head), got, Tail(head))
    BY DEF HeldChunk
<1>1. got \in Nat /\ written \in Nat /\ head \in Seq(Nat) /\ got <= Len(Body)
    BY <1>0, WhileReading
<1>2. got > 0 /\ Leads(written, head, got)
    BY <1>0 DEF FormsInv, PartBegun
<1>3. /\ Head(head) \in Nat /\ Tail(head) \in Seq(Nat) /\ written + Head(head) <= got
      /\ Leads(written + Head(head), Tail(head), got)
    BY <1>0, <1>1, <1>2, LeadsTail
<1>. QED  BY <1>0, <1>1, <1>2, <1>3, LimitSizeStep

LEMMA FieldStreamStep ==
    ASSUME FormsInv, place = "stream", NEW n \in Chunks, FieldStream(n)
    PROVE  FormsInv'
<1>0. head = <<>> /\ LimitSize(n, got + n, head)
    BY DEF FieldStream
<1>1. /\ TypeOK /\ part <= Len(form) /\ got \in Nat /\ written \in Nat /\ head \in Seq(Nat)
      /\ got <= Len(Body)
    BY WhileReading
<1>2. n \in Nat \ {0} /\ got + n <= Len(Body)
    BY <1>1, ChunkFits
<1>3. Leads(written, <<>>, got)
    BY <1>0 DEF FormsInv, PartBegun
<1>4. written = got
    BY <1>1, <1>3, LeadsNowhere
<1>5. n \in Nat /\ got + n \in Nat /\ written + n \in Nat /\ got + n > 0 /\ written + n <= got + n
    BY <1>1, <1>2, <1>4
<1>6. Leads(written + n, head, got + n)
    BY <1>0, <1>4, <1>5, LeadsNowhere
<1>. QED  BY <1>0, <1>1, <1>2, <1>5, <1>6, LimitSizeStep

\* The file is received.
LEMMA StreamEndStep ==
    ASSUME FormsInv, StreamEnd
    PROVE  FormsInv'
<1>. DEFINE name == DisplayFilename(form[part].filename)
<1>0. /\ place = "stream" /\ head = <<>> /\ got = Len(Body) /\ PartDone
      /\ received' = [media |-> media, size |-> written, filename |-> name]
    BY DEF StreamEnd
<1>1. /\ TypeOK /\ form \in Seq(Part) /\ part \in 1 .. Len(form) /\ part <= Len(form)
      /\ got \in Nat /\ written \in Nat /\ others \in Nat
      /\ IsFiniteSet(Positions(part - 1)) /\ OtherBytes(part - 1) \in Nat
      /\ others = OtherBytes(part - 1) + 0
      /\ written <= MaxUpload /\ MaxUpload \in Nat
    BY <1>0, WhileReading
<1>2. /\ Body \in Seq(Nat) /\ Body = form[part].body /\ Len(form) \in Nat
      /\ form[part].filename \in Text
    BY <1>1, PartTyped
<1>3. /\ IsFile(part) /\ received = None /\ got > 0 /\ media \in MediaTypes
      /\ Honest(form[part], media) /\ Leads(written, <<>>, got)
    BY <1>0 DEF FormsInv, PartBegun
<1>4. written = got /\ written > 0
    BY <1>1, <1>3, LeadsNowhere
<1>5. /\ name \in Text /\ Len(name) \in 1 .. NameMax
      /\ Range(name) \cap (Control \cup {"/"}) = {}
    BY <1>2, DisplayFilenameFits
<1>. HIDE DEF name
<1>6. /\ received' \in ReceivedFile /\ received' # None
      /\ received'.media = media /\ received'.size = written /\ received'.filename = name
    <2>1. received' \in ReceivedFile
        BY <1>0, <1>1, <1>3, <1>5 DEF ReceivedFile
    <2>2. received'.media = media /\ received'.size = written /\ received'.filename = name
        BY <1>0
    <2>. QED  BY <2>1, <2>2, FormsAssumption
<1>7. Fault(part) = None
    <2>1. form[part].body # <<>> /\ ~ (Len(form[part].body) > MaxUpload)
        <3>1. Len(Body) # 0 /\ ~ (Len(Body) > MaxUpload)
            BY <1>0, <1>1, <1>4
        <3>. QED  BY <1>2, <3>1, EmptySeq
    <2>2. FileFault(form[part]) = None
        BY <1>3, <2>1, HonestFault
    <2>. QED  BY <1>0, <2>2, FirstFile
<1>8. others = OtherBytes(part)
    BY <1>1, <1>3, PositionsGrow
<1>9. PartsRead' /\ PartBegun' /\ form' = form /\ fields' = fields
    BY <1>0, <1>3, <1>6, <1>7, <1>8, PartOver
<1>10. /\ part' = part + 1 /\ place' = "field"
       /\ UNCHANGED <<sent, media, got, head, others, written, card, verdict>>
    BY <1>0 DEF PartDone
<1>11. TypeOK'
    BY <1>1, <1>2, <1>6, <1>9, <1>10 DEF TypeOK, Places
<1>12. FileWhole'
    <2>1. part \in DOMAIN form'
        BY <1>1, <1>9, LenProperties
    <2>2. /\ form'[part].file /\ received'.size = Len(form'[part].body) /\ received'.size > 0
          /\ Carries(form'[part].body, received'.media)
        BY <1>0, <1>2, <1>3, <1>4, <1>6, <1>9 DEF Honest, IsFile
    <2>. QED  BY <2>1, <2>2 DEF FileWhole, IsFile
<1>13. NamesFit'
    BY <1>5, <1>6, <1>10 DEF FormsInv, NamesFit
<1>14. WriterStaysInLimit' /\ AnswerDeserved' /\ place' # "card"
    BY <1>0, <1>10 DEF FormsInv, WriterStaysInLimit, AnswerDeserved
<1>. QED  BY <1>9, <1>11, <1>12, <1>13, <1>14 DEF FormsInv

\* A partner card is stored or refused.
LEMMA SubmitCardStep ==
    ASSUME FormsInv, SubmitCard
    PROVE  FormsInv'
<1>. DEFINE name == PartnerName(fields.name)
            note == PartnerNote(fields.note)
<1>0. /\ place = "card" /\ place' = "answered" /\ fields \in Card
      /\ UNCHANGED <<sent, media, part, got, head, others, written, received>>
    BY DEF SubmitCard, FormsInv
<1>1. form' = form /\ fields' = fields
    BY <1>0 DEF sent
<1>2. fields.name \in Text /\ fields.note \in Text
    BY <1>0 DEF Card
<1>3. name # None => name \in Text /\ Len(Trim(name, {" "})) \in 1 .. NameMax
    BY <1>2, PartnerNameFits
<1>4. note # None => note \in Text /\ Len(note) <= NoteMax
    BY <1>2, PartnerNoteFits
<1>5. \/ name # None /\ note # None /\ card' = [name |-> name, note |-> note]
      \/ card' = card
    BY DEF SubmitCard
<1>. HIDE DEF name, note
<1>6. card' \in Card \cup {None} /\ (card' # None =>
         /\ Len(Trim(card'.name, {" "})) \in 1 .. NameMax
         /\ Len(card'.note) <= NoteMax)
    <2>1. CASE name # None /\ note # None /\ card' = [name |-> name, note |-> note]
        <3>1. card' \in Card
            BY <1>3, <1>4, <2>1 DEF Card
        <3>2. card'.name = name /\ card'.note = note
            BY <2>1
        <3>. QED  BY <1>3, <1>4, <2>1, <3>1, <3>2
    <2>2. CASE card' = card
        BY <2>2 DEF FormsInv, TypeOK, NamesFit
    <2>. QED  BY <1>5, <2>1, <2>2
<1>7. TypeOK'
    BY <1>0, <1>1, <1>6 DEF FormsInv, TypeOK, Places
<1>8. PartsRead' /\ PartBegun' /\ place' # "card"
    BY <1>0 DEF PartsRead, PartBegun, Reading
<1>9. FileWhole'
    BY <1>0, <1>1, FormStays DEF FormsInv, FileWhole
<1>10. NamesFit' /\ WriterStaysInLimit'
    BY <1>0, <1>6 DEF FormsInv, NamesFit, WriterStaysInLimit
<1>11. AnswerDeserved'
    <2>1. fields' # None
        BY <1>0, <1>1, FormsAssumption
    <2>. QED  BY <1>0, <2>1 DEF AnswerDeserved
<1>. QED  BY <1>7, <1>8, <1>9, <1>10, <1>11 DEF FormsInv

LEMMA InitFormsInv == Init => FormsInv
<1>. SUFFICES ASSUME Init PROVE FormsInv
    OBVIOUS
<1>1. /\ part = 1 /\ got = 0 /\ head = <<>> /\ others = 0 /\ written = 0
      /\ media = None /\ received = None /\ card = None /\ verdict = None
      /\ form \in Seq(Part) /\ fields \in Card \cup {None}
      /\ (place = "field" /\ fields = None) \/ (place = "card" /\ fields \in Card)
    BY FormsAssumption, EmptySeq DEF Init
<1>2. Len(form) \in Nat /\ <<>> \in Seq(Nat)
    BY <1>1, LenProperties, EmptySeq
<1>3. TypeOK
    BY <1>1, <1>2 DEF TypeOK, Places
<1>4. Positions(0) = {} /\ OtherBytes(0) = 0 /\ IsFiniteSet(Positions(0))
    <2>1. {j \in 1 .. 0 : ~IsFile(j)} = {}
        OBVIOUS
    <2>2. Positions(0) = {}
        BY <2>1 DEF Positions
    <2>. QED  BY <2>2, FS_EmptySet DEF OtherBytes, Positions
<1>5. PartsRead
    <2>1. part - 1 = 0 /\ 1 .. 0 = {} /\ 0 + 0 = 0 /\ 0 <= MaxOther
        BY <1>1, FormsAssumption
    <2>. QED  BY <1>1, <1>4, <2>1 DEF PartsRead, Reading
<1>6. PartBegun /\ FileWhole /\ NamesFit /\ AnswerDeserved
    BY <1>1 DEF PartBegun, FileWhole, NamesFit, AnswerDeserved
<1>7. WriterStaysInLimit
    BY <1>1, FormsAssumption DEF WriterStaysInLimit
<1>. QED  BY <1>1, <1>3, <1>5, <1>6, <1>7 DEF FormsInv

LEMMA NextFormsInv == FormsInv /\ [Next]_vars => FormsInv'
<1>. SUFFICES ASSUME FormsInv, [Next]_vars PROVE FormsInv'
    OBVIOUS
<1>1. ASSUME NEW n \in Chunks, DrainChunk(n) PROVE FormsInv'
    BY <1>1, DrainChunkStep DEF DrainChunk
<1>2. ASSUME NEW n \in Chunks, HeadChunk(n) PROVE FormsInv'
    BY <1>2, HeadChunkStep DEF HeadChunk
<1>3. ASSUME NEW n \in Chunks, FieldStream(n) PROVE FormsInv'
    BY <1>3, FieldStreamStep DEF FieldStream
<1>4. ASSUME Interrupted PROVE FormsInv'
    BY <1>4, AnswerStep DEF Interrupted
<1>5. ASSUME UNCHANGED vars PROVE FormsInv'
    <2>1. /\ form' = form
          /\ UNCHANGED <<fields, media, part, place, got, head, others, written, received, card, verdict>>
        BY <1>5 DEF vars, sent
    <2>2. Body' = Body
        BY <2>1 DEF Body
    <2>3. /\ \A i : IsFile(i)' = IsFile(i) /\ Fault(i)' = Fault(i)
          /\ Deserved' = Deserved
        BY <2>1, FormStays
    <2>4. OtherBytes(part - 1)' = OtherBytes(part - 1) /\ Positions(part - 1)' = Positions(part - 1)
        BY <2>1 DEF OtherBytes, Positions, IsFile
    <2>5. TypeOK' /\ NamesFit' /\ WriterStaysInLimit' /\ (place = "card" => fields \in Card)'
        BY <2>1 DEF FormsInv, TypeOK, NamesFit, WriterStaysInLimit
    <2>6. PartsRead'
        BY <2>1, <2>3, <2>4 DEF FormsInv, PartsRead
    <2>7. PartBegun'
        BY <2>1, <2>2, <2>3 DEF FormsInv, PartBegun
    <2>8. FileWhole' /\ AnswerDeserved'
        BY <2>1, <2>3 DEF FormsInv, FileWhole, AnswerDeserved
    <2>. QED  BY <2>5, <2>6, <2>7, <2>8 DEF FormsInv
<1>. QED
    BY <1>1, <1>2, <1>3, <1>4, <1>5, NextFieldStep, DrainEndStep, HeadEndStep, HeldChunkStep,
       StreamEndStep, SubmitCardStep DEF Next

\* The invariant holds of every form, however it is cut.
THEOREM FormsInvariant == Spec => []FormsInv
BY InitFormsInv, NextFormsInv, PTL DEF Spec

\* The state of a request keeps its shape: sizes stay natural numbers, the part in
\* hand is one of the form's, and what was received or stored is a file or a card.
THEOREM FormsTypeCorrect == Spec => []TypeOK
<1>1. FormsInv => TypeOK
    BY DEF FormsInv
<1>. QED  BY <1>1, FormsInvariant, PTL

\* receive_file gives every upload the answer its content deserves, and stores an
\* accepted file in full under the type its content carries: cutting a form into
\* other chunks changes nothing, for all signatures that fit into the bytes held back.
THEOREM ContentDecides == Spec => []VerdictOfContent
<1>1. FormsInv => VerdictOfContent
    <2>. SUFFICES ASSUME FormsInv, fields = None, verdict \notin {None, "bad_request"}
                  PROVE  /\ verdict = Deserved
                         /\ verdict = "accepted" => \E i \in DOMAIN form :
                               /\ IsFile(i) /\ received.size = Len(form[i].body)
                               /\ Carries(form[i].body, received.media)
        BY DEF VerdictOfContent
    <2>1. verdict = Deserved /\ (verdict = "accepted" => received # None)
        BY DEF FormsInv, AnswerDeserved
    <2>. QED  BY <2>1 DEF FormsInv, FileWhole
<1>. QED  BY <1>1, FormsInvariant, PTL

\* limit_size never lets more than max_upload_bytes through to the object store.
THEOREM WriterAlwaysInLimit == Spec => []WriterStaysInLimit
<1>1. FormsInv => WriterStaysInLimit
    BY DEF FormsInv
<1>. QED  BY <1>1, FormsInvariant, PTL

\* What display_filename, partner_name and partner_note let through satisfies the
\* CHECKs of the tables, for texts of every length and every limit.
THEOREM StoredAlwaysFits == Spec => []StoredFitsSchema
<1>1. FormsInv => StoredFitsSchema
    BY DEF FormsInv, FileWhole, NamesFit, StoredFitsSchema
<1>. QED  BY <1>1, FormsInvariant, PTL

=============================================================================
