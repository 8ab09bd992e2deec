-------------------------- MODULE MCAsiproListing ---------------------------
(* A small instance of AsiproListing for TLC: every text of up to ShortLines  *)
(* lines of MCAsipro, and texts of every program of up to two lines and of    *)
(* those of three that begin with one cell and use an address.                *)
EXTENDS AsiproListing, MCAsipro

LOCAL INSTANCE SequencesExt

Piece ==
    {<<"ret">>, <<"cp", ID_AX, ID_BX>>, <<"const", ID_AX, 9>>, <<"int", 258>>,
     <<"string", <<65>>>>}
    \cup ({"address"} \X {ID_BX} \X (1..4))
Pieces(n) == [1..n -> Piece]
Complete(p) == \A i \in DOMAIN p : p[i][1] = "address" => p[i][3] <= Len(p) + 1
MCPrograms ==
    {p \in UNION {Pieces(n) : n \in 0..2} : Complete(p)}
    \cup {p \in Pieces(3) : /\ Complete(p) /\ p[1] = <<"ret">>
                             /\ \E i \in 2..3 : p[i][1] = "address"}

\* In front of a line nothing, a label, or two with a comment between them; the
\* first is the one that const uses.
Mark(k) == [t |-> "label", sym |-> k]
Used(p, k) == \E i \in DOMAIN p : p[i][1] = "address" /\ p[i][3] = k
Marks(p, k) ==
    {<<Mark(k)>>} \cup
    IF Used(p, k) THEN {<<Mark(k), [t |-> "skip"], Mark(k + 4)>>} ELSE {<<>>}
TextOf(ins) ==
    CASE ins[1] = "const" -> [t |-> "number", reg |-> ins[2], val |-> ins[3]]
      [] ins[1] = "address" -> [t |-> "const", reg |-> ins[2], sym |-> ins[3]]
      [] ins[1] = "int" -> [t |-> "data", bytes |-> Bytes(ins[2])]
      [] ins[1] = "string" -> [t |-> "data", bytes |-> ins[2] \o <<0>>]
      [] OTHER -> [t |-> "bytes", bytes |-> <<opcode[ins[1]]>> \o Tail(ins)]
Texts(p) ==
    LET n == Len(p)
        Markings == {m \in [1..(n + 1) -> UNION {Marks(p, k) : k \in 1..(n + 1)}] :
                        \A k \in 1..(n + 1) : m[k] \in Marks(p, k)}
        q == Append(p, <<"int", 0>>)
    IN {FlattenSeq([k \in 1..(n + 1) |-> Append(m[k], TextOf(q[k]))]) : m \in Markings}

MCListing ==
    {TextOf(ins) : ins \in Piece \cup {<<"int", 0>>}}
    \cup LinesWith(Symbols)

ShortLines == 5
ShortTexts == UNION {[1..n -> LinesWith({1, 2})] : n \in 0..ShortLines}
ListingInit ==
    \/ \E text \in ShortTexts : StartOn(text)
    \/ \E p \in Programs : \E text \in Texts(p) : LabelsFit(text) /\ StartOn(text)
ListingSpec == ListingInit /\ [][Next]_vars
=============================================================================
