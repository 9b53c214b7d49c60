------------------------------ MODULE MCForms ------------------------------
(* Bodies at the edges of the signatures, of the prefix and of the limit,   *)
(* every text of up to four characters as a file name, a partner's name and *)
(* a note.                                                                  *)
EXTENDS Forms

Texts   == UNION {[1 .. n -> Char] : n \in 0 .. 4}
Visible == <<"a">>

\* The signature followed by n bytes.
With(m, n) == Signature[m] \o [i \in 1 .. n |-> 7]

Bodies ==
    {<<>>, Signature.jpeg, With("jpeg", 1), SubSeq(Signature.pdf, 1, 4),
     Signature.pdf, With("pdf", 9), With("pdf", 10), SubSeq(Signature.png, 1, 7),
     Signature.png, With("png", 5), <<7, 7, 7, 7, 7>> \o Signature.pdf}

File(body, declared, name) ==
    [file |-> TRUE, body |-> body, declared |-> declared, filename |-> name]
Other(n) == [file |-> FALSE, body |-> [i \in 1 .. n |-> 7],
             declared |-> "none", filename |-> <<>>]

OneFile == {<<File(b, d, Visible)>> : b \in Bodies, d \in {"none", "octets", "pdf", "png"}}
Named   == {<<File(Signature.pdf, "pdf", t)>> : t \in Texts}
Mixed   == LET f == File(With("jpeg", 1), "jpeg", Visible) IN
           {<<>>, <<Other(2)>>, <<Other(4)>>, <<Other(2), f>>, <<f, Other(3)>>,
            <<Other(2), f, Other(2)>>, <<f, f>>, <<f, Other(1), f>>}

MCUploads == OneFile \cup Named \cup Mixed
MCCards   == {[name |-> t, note |-> Visible] : t \in Texts}
             \cup {[name |-> Visible, note |-> t] : t \in Texts}
=============================================================================
