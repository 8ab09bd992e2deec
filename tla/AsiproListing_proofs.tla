------------------------ MODULE AsiproListing_proofs -------------------------
(***************************************************************************)
(* Theorem about the assembler and the text of a program, for every        *)
(* program, every way to write labels and comments between its lines and   *)
(* every size of the table of symbols: the text is assembled, and the file *)
(* is the image the emulator is started with.                              *)
(***************************************************************************)
EXTENDS AsiproListing, Asipro_proofs, Sipro_operator_proofs

-----------------------------------------------------------------------------
(* The lines of the text and the lines of the program.                     *)

\* The text is one of program p, whose lines stand at the places at.
Listed(p, at) ==
    /\ p \in Programs
    /\ at \in [1..(Len(p) + 1) -> DOMAIN source \ Between(source)]
    /\ ListsAt(source, p, at)
    /\ LabelsFit(source)
    /\ AddressesFit(p)

\* The places of the lines, in order and without a gap but for labels,
\* comments and empty lines.
LEMMA ListedFacts ==
    ASSUME TypeInv, NEW p, NEW at, Listed(p, at)
    PROVE  /\ p \in Program /\ Addressed(p) /\ Len(p) \in Nat /\ DOMAIN p = 1..Len(p)
           /\ Laid(p, cells(p))
           /\ Len(source) \in Nat /\ DOMAIN source = 1..Len(source)
           /\ \A j \in 1..Len(source) : source[j] \in Lines
           /\ DOMAIN at = 1..(Len(p) + 1)
           /\ \A i \in 1..(Len(p) + 1) : at[i] \in 1..Len(source) /\ at[i] \notin Between(source)
           /\ \A i, j \in 1..(Len(p) + 1) : i < j => at[i] < at[j]
           /\ \A j \in 1..Len(source) :
                j \in Between(source) \/ \E i \in 1..(Len(p) + 1) : at[i] = j
           /\ \A i \in 1..Len(p) : p[i] \in Instr \cup Constante
           /\ \A i \in 1..Len(p) : Denotes(source, at, i, p[i])
           /\ source[at[Len(p) + 1]] = [t |-> "data", bytes |-> <<0, 0>>]
<1>1. p \in Program /\ Addressed(p)
  BY CodeAssumption DEF Listed, Program
<1>2. /\ Len(p) \in Nat /\ DOMAIN p = 1..Len(p)
      /\ \A i \in 1..Len(p) : p[i] \in Instr \cup Constante
  BY <1>1, LinesOf
<1>3. Laid(p, cells(p))
  BY <1>1, CellsLaid
<1>4. /\ Len(source) \in Nat /\ DOMAIN source = 1..Len(source)
      /\ \A j \in 1..Len(source) : source[j] \in Lines
  BY DEF TypeInv
<1>5. at \in [1..(Len(p) + 1) -> 1..Len(source) \ Between(source)] /\ ListsAt(source, p, at)
  BY <1>4 DEF Listed
<1>6. DOMAIN at = 1..(Len(p) + 1)
  BY <1>5
<1>7. /\ \A i, j \in 1..(Len(p) + 1) : i < j => at[i] < at[j]
      /\ \A j \in 1..Len(source) :
           j \in Between(source) \/ \E i \in 1..(Len(p) + 1) : at[i] = j
      /\ \A i \in 1..Len(p) : Denotes(source, at, i, p[i])
      /\ source[at[Len(p) + 1]] = [t |-> "data", bytes |-> <<0, 0>>]
  BY <1>2, <1>4, <1>5, <1>6, Zenon DEF ListsAt
<1>8. \A i \in 1..(Len(p) + 1) : at[i] \in 1..Len(source) /\ at[i] \notin Between(source)
  BY <1>5
<1> QED
  BY <1>1, <1>2, <1>3, <1>4, <1>6, <1>7, <1>8

\* How the text writes a line of the program.
WrittenAs(line, at, ins) ==
    \/ /\ ins[1] = "const" /\ line.t = "number"
       /\ line.reg = ins[2] /\ line.val = ins[3]
    \/ /\ ins[1] = "address" /\ line.t = "const"
       /\ line.reg = ins[2]
       /\ ins[3] \in DOMAIN at /\ NamesLine(source, at, line.sym, ins[3])
    \/ ins[1] = "int" /\ line.t = "data" /\ line.bytes = Bytes(ins[2])
    \/ ins[1] = "string" /\ line.t = "data" /\ line.bytes = Joint(ins[2], <<0>>)
    \/ /\ ins \in Plain /\ line.t = "bytes"
       /\ line.bytes = Joint(<<opcode[ins[1]]>>, Tail(ins))

\* There is no other way.
LEMMA LineWritten ==
    ASSUME TypeInv, NEW p, NEW at, Listed(p, at), NEW i \in 1..Len(p)
    PROVE  WrittenAs(source[at[i]], at, p[i])
<1> DEFINE ins == p[i]
           line == source[at[i]]
<1>1. ins \in Instr \cup Constante /\ Denotes(source, at, i, ins)
  BY ListedFacts
<1>2. CASE ins[1] = "const"
  BY <1>1, <1>2 DEF Denotes, WrittenAs
<1>3. CASE ins[1] = "address"
  BY <1>1, <1>3 DEF Denotes, WrittenAs
<1>4. CASE ins[1] = "int"
  BY <1>1, <1>4 DEF Denotes, WrittenAs
<1>5. CASE ins[1] = "string"
  BY <1>1, <1>5 DEF Denotes, WrittenAs, Joint
<1>6. CASE ins \in Plain
  <2>1. ins[1] \notin {"const", "address", "int", "string"}
    BY <1>6, PlainShape DEF IsConst, IsData
  <2>2. line = [t |-> "bytes", bytes |-> <<opcode[ins[1]]>> \o Tail(ins)]
    BY <1>1, <2>1 DEF Denotes
  <2> QED
    BY <1>6, <2>2 DEF WrittenAs, Joint
<1> QED
  BY <1>1, <1>2, <1>3, <1>4, <1>5, <1>6, Kinds

\* Every line of the text is one a handler takes.
LEMMA EveryLineTaken ==
    ASSUME TypeInv, NEW p, NEW at, Listed(p, at), NEW j \in 1..Len(source)
    PROVE  /\ source[j].t \in {"label", "skip"} \cup Writing
           /\ j \in Between(source) <=> source[j].t \in {"label", "skip"}
           /\ j \in Between(source) <=> ~Writes(j)
           /\ source[j].t = "const" =>
                \E i \in 1..Len(p) : at[i] = j /\ p[i][1] = "address"
<1>1. DOMAIN source = 1..Len(source) /\ Len(p) \in Nat
  BY ListedFacts
<1>2. j \in Between(source) <=> source[j].t \in {"label", "skip"}
  BY <1>1 DEF Between
<1>3. CASE j \in Between(source)
  BY <1>2, <1>3 DEF Writes, Writing
<1>4. CASE j \notin Between(source)
  <2>1. PICK i \in 1..(Len(p) + 1) : at[i] = j
    BY <1>4, ListedFacts
  <2>2. CASE i = Len(p) + 1
    <3>1. source[j].t = "data"
      BY <2>1, <2>2, ListedFacts
    <3> QED
      BY <1>2, <1>4, <3>1 DEF Writes, Writing
  <2>3. CASE i # Len(p) + 1
    <3>1. i \in 1..Len(p)
      BY <1>1, <2>3
    <3>2. WrittenAs(source[j], at, p[i])
      BY <2>1, <3>1, LineWritten
    <3>3. source[j].t \in Writing /\ (source[j].t = "const" => p[i][1] = "address")
      BY <3>2 DEF WrittenAs, Writing
    <3> QED
      BY <1>2, <1>4, <2>1, <3>1, <3>3 DEF Writes, Writing
  <2> QED
    BY <2>2, <2>3
<1> QED
  BY <1>3, <1>4

-----------------------------------------------------------------------------
(* The cells of the lines.                                                 *)

\* The hole in front of an odd cell.
LEMMA HoleOfOdd ==
    ASSUME NEW cell \in Nat
    PROVE  trou(cell) = IF Odd(cell) THEN 1 ELSE 0
  BY DEF trou, Odd

\* A line of the text takes the cells of its line of the program.
LEMMA SizesAgree ==
    ASSUME TypeInv, NEW p, NEW at, Listed(p, at), NEW i \in 1..Len(p), NEW cell \in Nat
    PROVE  LineSize(source[at[i]], cell) = Size(p[i], cell)
<1> DEFINE ins == p[i]
           line == source[at[i]]
           t == trou(cell)
<1>1. ins \in Instr \cup Constante
  BY ListedFacts
<1>2. WrittenAs(line, at, ins)
  BY LineWritten
<1>3. t = (IF Odd(cell) THEN 1 ELSE 0) /\ t \in Nat
  BY HoleOfOdd
<1> HIDE DEF ins, line, t
<1>4. ASSUME IsConst(ins)
      PROVE  LineSize(line, cell) = Size(ins, cell)
  <2>1. line.t \in {"const", "number"}
    <3>1. ins[1] \in {"const", "address"} /\ ins \notin Plain
      BY <1>4, PlainShape DEF IsConst
    <3> QED
      BY <1>2, <3>1 DEF WrittenAs
  <2>2. LineSize(line, cell) = IF Odd(cell) THEN 5 ELSE 4
    BY <2>1 DEF LineSize, Writing
  <2>3. Size(ins, cell) = 4 + t
    BY <1>4 DEF Size, IsConst, t
  <2> QED
    BY <1>3, <2>2, <2>3
<1>5. ASSUME ins[1] = "int"
      PROVE  LineSize(line, cell) = Size(ins, cell)
  <2>1. line.t = "data" /\ line.bytes = Bytes(ins[2])
    <3>1. ins \notin Plain
      BY <1>5, PlainShape DEF IsData
    <3> QED
      BY <1>2, <1>5, <3>1 DEF WrittenAs
  <2>2. Len(Bytes(ins[2])) = 2
    <3>1. ins[2] \in WordValue
      BY <1>1, <1>5, Kinds, PlainShape DEF IsData
    <3> QED
      BY <3>1, ByteSequences
  <2>3. LineSize(line, cell) = (IF Odd(cell) THEN 1 ELSE 0) + 2
    BY <2>1, <2>2 DEF LineSize, Writing
  <2>4. Size(ins, cell) = t + 2
    BY <1>5 DEF Size, IsConst, Alignment, IsData, t
  <2> QED
    BY <1>3, <2>3, <2>4
<1>6. ASSUME ins[1] = "string"
      PROVE  LineSize(line, cell) = Size(ins, cell)
  <2>1. line.t = "data" /\ line.bytes = Joint(ins[2], <<0>>)
    <3>1. ins \notin Plain
      BY <1>6, PlainShape DEF IsData
    <3> QED
      BY <1>2, <1>6, <3>1 DEF WrittenAs
  <2>2. Len(Joint(ins[2], <<0>>)) = Len(ins[2]) + 1 /\ Len(ins[2]) \in Nat
    <3>1. ins[2] \in Seq(Byte \ {0})
      BY <1>1, <1>6, Kinds, PlainShape DEF IsData
    <3> DEFINE s == ins[2]
               e == <<0>>
    <3>2. s \in Seq(Byte)
      BY <3>1
    <3>3. e \in Seq(Byte) /\ Len(e) = 1
      <4>1. 0 \in Byte
        BY ByteRange
      <4> QED
        BY <4>1
    <3> HIDE DEF s, e
    <3>4. Len(Joint(s, e)) = Len(s) + Len(e) /\ Len(s) \in Nat
      BY <3>2, <3>3, Joined
    <3>5. Len(Joint(s, e)) = Len(s) + 1
      BY <3>3, <3>4
    <3> QED
      BY <3>4, <3>5 DEF s, e
  <2>3. LineSize(line, cell) = (IF Odd(cell) THEN 1 ELSE 0) + Len(line.bytes)
    BY <2>1 DEF LineSize, Writing
  <2>4. Size(ins, cell) = t + Len(ins[2]) + 1
    BY <1>6 DEF Size, IsConst, Alignment, IsData, t
  <2>5. Len(line.bytes) = Len(ins[2]) + 1
    BY <2>1, <2>2
  <2> DEFINE m == Len(ins[2])
             b == Len(line.bytes)
             e == IF Odd(cell) THEN 1 ELSE 0
  <2>6. m \in Nat /\ b = m + 1 /\ t = e /\ e \in Nat
    BY <1>3, <2>2, <2>5
  <2> HIDE DEF m, b, e
  <2>7. e + b = t + m + 1
    BY <2>6
  <2> QED
    BY <2>3, <2>4, <2>7 DEF m, b, e
<1>7. ASSUME ins \in Plain
      PROVE  LineSize(line, cell) = Size(ins, cell)
  <2>1. ~IsConst(ins) /\ ~IsData(ins) /\ Len(ins) \in 1..3
    BY <1>7, PlainShape
  <2>2. line.t = "bytes" /\ line.bytes = Joint(<<opcode[ins[1]]>>, Tail(ins))
    BY <1>2, <2>1 DEF WrittenAs, IsConst, IsData
  <2>3. Len(Joint(<<opcode[ins[1]]>>, Tail(ins))) = Len(ins)
    <3> DEFINE h == <<opcode[ins[1]]>>
               r == Tail(ins)
    <3>1. r \in Seq(AnyRegister) /\ Len(r) = Len(ins) - 1 /\ ins[1] \in DOMAIN opcode
      BY <1>7, PlainShape
    <3>2. r \in Seq(Byte) /\ h \in Seq(Byte) /\ Len(h) = 1
      <4>1. \A k \in 1..Len(r) : r[k] \in Byte
        <5>1. \A k \in 1..Len(r) : r[k] \in AnyRegister
          BY <3>1, ElementOfSeq
        <5> QED
          BY <5>1, Opcodes
      <4>2. opcode[ins[1]] \in Byte
        BY <3>1, Opcodes
      <4> HIDE DEF r
      <4>3. r = [k \in 1..Len(r) |-> r[k]] /\ Len(r) \in Nat
        BY <3>1
      <4> QED
        BY <4>1, <4>2, <4>3
    <3> HIDE DEF h, r
    <3>3. Len(Joint(h, r)) = Len(h) + Len(r) /\ Len(h) \in Nat /\ Len(r) \in Nat
      BY <3>2, Joined
    <3>4. Len(Joint(h, r)) = Len(ins)
      BY <2>1, <3>1, <3>2, <3>3
    <3> QED
      BY <3>4 DEF h, r
  <2>4. LineSize(line, cell) = Len(line.bytes)
    BY <2>2 DEF LineSize, Writing
  <2>5. Size(ins, cell) = Len(ins)
    BY <2>1 DEF Size, IsData
  <2> QED
    BY <2>2, <2>3, <2>4, <2>5
<1>8. LineSize(line, cell) = Size(ins, cell)
  BY <1>1, <1>4, <1>5, <1>6, <1>7, Kinds DEF IsConst
<1> QED
  BY <1>8 DEF ins, line

\* The last line of the text is the stack's: two zeros at an even cell.
LEMMA LastSize ==
    ASSUME TypeInv, NEW p, NEW at, Listed(p, at), NEW cell \in Nat
    PROVE  /\ source[at[Len(p) + 1]].t = "data"
           /\ source[at[Len(p) + 1]].bytes = <<0, 0>>
           /\ LineSize(source[at[Len(p) + 1]], cell) = trou(cell) + 2
<1> DEFINE line == source[at[Len(p) + 1]]
<1>1. line = [t |-> "data", bytes |-> <<0, 0>>]
  BY ListedFacts
<1> HIDE DEF line
<1>2. line.t = "data" /\ line.bytes = <<0, 0>> /\ Len(line.bytes) = 2
  BY <1>1
<1>3. LineSize(line, cell) = trou(cell) + 2
  BY <1>2, HoleOfOdd DEF LineSize, Writing
<1> QED
  BY <1>2, <1>3 DEF line

\* Labels, comments and empty lines take no cell.
LEMMA Stretch ==
    ASSUME LayoutInv, NEW a \in 1..Len(layout), NEW b \in 1..Len(layout), a <= b,
           \A j \in a..(b - 1) : j \in Between(source)
    PROVE  layout[b] = layout[a]
<1>1. /\ layout \in Seq(Nat) /\ Len(layout) \in Nat
      /\ \A i \in 1..(Len(layout) - 1) : /\ i <= Len(source)
                                         /\ layout[i + 1] = layout[i] + LineSize(source[i], layout[i])
  BY DEF LayoutInv, LinesLaid, TypeInv
<1> DEFINE T == {d \in Nat : a + d <= b => layout[a + d] = layout[a]}
<1>2. 0 \in T
  OBVIOUS
<1>3. ASSUME NEW d \in T \cap Nat PROVE d + 1 \in T
  <2> SUFFICES ASSUME a + (d + 1) <= b PROVE layout[a + (d + 1)] = layout[a]
    OBVIOUS
  <2> DEFINE k == a + d
  <2>1. k \in 1..(Len(layout) - 1) /\ k \in a..(b - 1) /\ a + (d + 1) = k + 1 /\ a + d <= b
    BY <1>1
  <2>2. layout[k] = layout[a]
    BY <1>3, <2>1
  <2> HIDE DEF k
  <2>3. LineSize(source[k], layout[k]) = 0
    <3>1. source[k].t \in {"label", "skip"}
      BY <2>1 DEF Between
    <3> QED
      BY <3>1 DEF LineSize, Writing
  <2>4. layout[k + 1] = layout[k] /\ layout[k] \in Nat
    <3>1. layout[k + 1] = layout[k] + 0 /\ k \in 1..Len(layout)
      BY <1>1, <2>1, <2>3
    <3>2. layout[k] \in Nat
      BY <1>1, <3>1
    <3> QED
      BY <3>1, <3>2
  <2> QED
    BY <2>1, <2>2, <2>4
<1>4. b - a \in T
  <2>1. b - a \in Nat
    OBVIOUS
  <2> HIDE DEF T
  <2> QED
    BY <1>2, <1>3, <2>1, Induction
<1> QED
  BY <1>1, <1>4

\* Between two lines of the program stand only labels, comments and empty lines.
LEMMA NothingBetween ==
    ASSUME TypeInv, NEW p, NEW at, Listed(p, at), NEW j \in 1..Len(source)
    PROVE  /\ j < at[1] => j \in Between(source)
           /\ \A i \in 1..Len(p) : at[i] < j /\ j < at[i + 1] => j \in Between(source)
           /\ at[Len(p) + 1] < j => j \in Between(source)
<1> DEFINE n == Len(p)
<1>1. /\ n \in Nat
      /\ \A i \in 1..(n + 1) : at[i] \in 1..Len(source)
      /\ \A i, k \in 1..(n + 1) : i < k => at[i] < at[k]
  BY ListedFacts
<1> SUFFICES ASSUME j \notin Between(source)
             PROVE  /\ ~(j < at[1])
                    /\ \A i \in 1..n : ~(at[i] < j /\ j < at[i + 1])
                    /\ ~(at[n + 1] < j)
  OBVIOUS
<1>2. PICK m \in 1..(n + 1) : at[m] = j
  BY ListedFacts
<1> HIDE DEF n
<1>3. at[m] \in Nat
  BY <1>1
<1>4. ~(j < at[1])
  <2>1. at[1] \in Nat /\ (m # 1 => at[1] < at[m])
    BY <1>1
  <2> QED
    BY <1>2, <1>3, <2>1
<1>5. ASSUME NEW i \in 1..n, at[i] < j, j < at[i + 1]
      PROVE  FALSE
  <2>1. at[i] \in Nat /\ at[i + 1] \in Nat /\ i \in 1..(n + 1) /\ i + 1 \in 1..(n + 1)
    BY <1>1
  <2>2. CASE m < i \/ m = i
    <3>1. m < i => at[m] < at[i]
      BY <1>1, <2>1
    <3> QED
      BY <1>2, <1>3, <1>5, <2>1, <2>2, <3>1
  <2>3. CASE i + 1 < m \/ m = i + 1
    <3>1. i + 1 < m => at[i + 1] < at[m]
      BY <1>1, <2>1
    <3> QED
      BY <1>2, <1>3, <1>5, <2>1, <2>3, <3>1
  <2> QED
    BY <1>1, <2>2, <2>3
<1>6. ~(at[n + 1] < j)
  <2>1. at[n + 1] \in Nat /\ (m # n + 1 => at[m] < at[n + 1])
    BY <1>1
  <2> QED
    BY <1>2, <1>3, <2>1
<1> QED
  BY <1>4, <1>5, <1>6

\* The cell of a line of the text, once it is laid out, is that of its line of
\* the program.
LEMMA Placed ==
    ASSUME LayoutInv, NEW p, NEW at, Listed(p, at),
           NEW i \in 1..(Len(p) + 1), at[i] <= Len(layout)
    PROVE  layout[at[i]] = cells(p)[i]
<1> DEFINE n == Len(p)
           c == cells(p)
           T == {k \in Nat : k + 1 <= n + 1 /\ at[k + 1] <= Len(layout)
                               => layout[at[k + 1]] = c[k + 1]}
<1>1. /\ TypeInv /\ n \in Nat /\ layout \in Seq(Nat) /\ Len(layout) \in Nat
      /\ Len(layout) >= 1 /\ layout[1] = 0
  <2>1. TypeInv
    BY DEF LayoutInv
  <2>2. n \in Nat
    BY <2>1, ListedFacts
  <2> QED
    BY <2>1, <2>2 DEF LayoutInv, LinesLaid, TypeInv
<1>2. \A k \in 1..(Len(layout) - 1) :
        layout[k + 1] = layout[k] + LineSize(source[k], layout[k])
  BY DEF LayoutInv, LinesLaid
<1>3. /\ \A k \in 1..(n + 1) : at[k] \in 1..Len(source)
      /\ \A k, l \in 1..(n + 1) : k < l => at[k] < at[l]
      /\ Len(source) \in Nat
  BY <1>1, ListedFacts
<1>4. c[1] = 0 /\ \A k \in 1..n : c[k + 1] = c[k] + Size(p[k], c[k])
  BY <1>1, ListedFacts DEF Laid
<1> HIDE DEF c
<1>5. 0 \in T
  <2> SUFFICES ASSUME at[1] <= Len(layout) PROVE layout[at[1]] = c[1]
    BY <1>1
  <2>1. at[1] \in 1..Len(layout) /\ 1 \in 1..Len(layout) /\ 1 <= at[1] /\ at[1] \in 1..Len(source)
    BY <1>1, <1>3
  <2>2. \A j \in 1..(at[1] - 1) : j \in Between(source)
    <3>1. \A j \in 1..(at[1] - 1) : j \in 1..Len(source) /\ j < at[1]
      BY <1>3, <2>1
    <3> QED
      BY <1>1, <3>1, NothingBetween
  <2>3. layout[at[1]] = layout[1]
    BY <2>1, <2>2, Stretch
  <2> QED
    BY <1>1, <1>4, <2>3
<1>6. ASSUME NEW k \in T \cap Nat PROVE k + 1 \in T
  <2> SUFFICES ASSUME (k + 1) + 1 <= n + 1, at[(k + 1) + 1] <= Len(layout)
               PROVE  layout[at[(k + 1) + 1]] = c[(k + 1) + 1]
    OBVIOUS
  <2> DEFINE m == k + 1
  <2>1. m \in 1..n /\ m \in 1..(n + 1) /\ m + 1 \in 1..(n + 1) /\ m < m + 1
    BY <1>1
  <2>2. at[m] < at[m + 1] /\ at[m] \in 1..Len(source) /\ at[m + 1] \in 1..Len(source)
    BY <1>3, <2>1
  <2>3. at[m] \in 1..(Len(layout) - 1) /\ at[m] + 1 \in 1..Len(layout) /\ at[m + 1] \in 1..Len(layout)
    <3>1. Len(layout) \in Nat /\ at[m + 1] <= Len(layout)
      BY <1>1
    <3> QED
      BY <2>2, <3>1
  <2>4. layout[at[m]] = c[m]
    BY <1>6, <2>1, <2>3
  <2> HIDE DEF m
  <2>5. layout[at[m] + 1] = layout[at[m]] + LineSize(source[at[m]], layout[at[m]])
    <3> DEFINE q == at[m]
    <3>1. q \in 1..(Len(layout) - 1)
      BY <2>3
    <3> HIDE DEF q
    <3>2. layout[q + 1] = layout[q] + LineSize(source[q], layout[q])
      BY <1>2, <3>1, Zenon
    <3> QED
      BY <3>2 DEF q
  <2>6. layout[at[m]] \in Nat
    <3>1. layout \in Seq(Nat) /\ Len(layout) \in Nat
      BY <1>1
    <3> DEFINE q == at[m]
    <3>2. q \in 1..Len(layout)
      BY <2>3, <3>1
    <3> HIDE DEF q
    <3>3. layout[q] \in Nat
      BY <3>1, <3>2, ElementOfSeq
    <3> QED
      BY <3>3 DEF q
  <2>7. LineSize(source[at[m]], layout[at[m]]) = Size(p[m], c[m])
    BY <1>1, <2>1, <2>4, <2>6, SizesAgree
  <2>8. layout[at[m] + 1] = c[m + 1]
    BY <1>4, <2>1, <2>4, <2>5, <2>7
  <2>9. \A j \in (at[m] + 1)..(at[m + 1] - 1) : j \in Between(source)
    <3>1. ASSUME NEW j \in (at[m] + 1)..(at[m + 1] - 1)
          PROVE  j \in 1..Len(source) /\ at[m] < j /\ j < at[m + 1]
      BY <1>3, <2>2
    <3> QED
      BY <1>1, <2>1, <3>1, NothingBetween
  <2>10. layout[at[m + 1]] = layout[at[m] + 1]
    <3>1. at[m] + 1 <= at[m + 1]
      BY <2>2
    <3> QED
      BY <2>3, <2>9, <3>1, Stretch
  <2> QED
    BY <2>8, <2>10 DEF m
<1>7. i - 1 \in T
  <2>1. i - 1 \in Nat
    BY <1>1
  <2> HIDE DEF T
  <2> QED
    BY <1>5, <1>6, <2>1, Induction
<1>8. (i - 1) + 1 = i
  OBVIOUS
<1> QED
  BY <1>1, <1>7, <1>8 DEF c

\* The cell of the first byte of a line is that of a label in front of it.
LEMMA StartOfLine ==
    ASSUME LayoutInv, NEW p, NEW at, Listed(p, at),
           NEW k \in 1..(Len(p) + 1), at[k] <= Len(layout)
    PROVE  Start(at[k]) = LabelAddress(p, cells(p), k)
<1> DEFINE n == Len(p)
           c == cells(p)
<1>1. TypeInv /\ n \in Nat /\ layout[at[k]] = c[k] /\ layout[at[k]] \in Nat
  <2>1. TypeInv /\ layout \in Seq(Nat) /\ at[k] \in 1..Len(source) /\ Len(p) \in Nat
    BY ListedFacts DEF LayoutInv, TypeInv
  <2> QED
    BY <2>1, Placed
<1>2. trou(c[k]) = IF Odd(c[k]) THEN 1 ELSE 0
  BY <1>1, HoleOfOdd
<1>3. ASSUME k = n + 1
      PROVE  Start(at[k]) = LabelAddress(p, c, k)
  <2>1. source[at[k]].t = "data"
    BY <1>1, <1>3, LastSize
  <2>2. Start(at[k]) = IF Odd(c[k]) THEN c[k] + 1 ELSE c[k]
    BY <1>1, <2>1 DEF Start
  <2>3. Len(c) = n + 1
    BY <1>1, ListedFacts DEF Laid
  <2>4. LabelAddress(p, c, k) = c[k] + trou(c[k])
    BY <1>1, <1>3, <2>3 DEF LabelAddress, PileBehind
  <2> HIDE DEF c
  <2> QED
    BY <1>1, <1>2, <2>2, <2>4
<1>4. ASSUME k # n + 1
      PROVE  Start(at[k]) = LabelAddress(p, c, k)
  <2>1. k \in 1..n
    BY <1>1, <1>4
  <2>2. WrittenAs(source[at[k]], at, p[k])
    BY <1>1, <2>1, LineWritten
  <2>3. source[at[k]].t = "data" <=> IsData(p[k])
    <3>1. p[k] \in Plain => ~IsData(p[k])
      BY PlainShape
    <3> QED
      BY <2>2, <3>1 DEF WrittenAs, IsData
  <2>4. Start(at[k]) = IF IsData(p[k]) /\ Odd(c[k]) THEN c[k] + 1 ELSE c[k]
    BY <1>1, <2>3 DEF Start
  <2>5. LabelAddress(p, c, k) = c[k] + (IF IsData(p[k]) THEN trou(c[k]) ELSE 0)
    BY <1>1, <2>1 DEF LabelAddress, Alignment
  <2> HIDE DEF c
  <2> QED
    BY <1>1, <1>2, <2>4, <2>5
<1> QED
  BY <1>3, <1>4

-----------------------------------------------------------------------------
(* The labels of the text.                                                 *)

\* The lines the first pass reads are lines of the text, and none stops it.
LEMMA LinesReadFacts ==
    ASSUME LayoutInv, NEW p, NEW at, Listed(p, at)
    PROVE  /\ TypeInv /\ Len(layout) \in Nat /\ Len(source) \in Nat
           /\ LinesRead \subseteq 1..Len(source)
           /\ symbolePasse = 2 => Len(layout) = Len(source) + 1 /\ LinesRead = 1..Len(source)
<1>1. TypeInv /\ Len(layout) \in Nat /\ Len(source) \in Nat /\ Len(layout) >= 1
  BY DEF LayoutInv, TypeInv, LinesLaid
<1>2. \A i \in 1..(Len(layout) - 1) : i <= Len(source)
  BY DEF LayoutInv, LinesLaid
<1>3. LinesRead \subseteq 1..Len(source)
  BY <1>1, <1>2 DEF LinesRead
<1>4. ASSUME symbolePasse = 2
      PROVE  Len(layout) = Len(source) + 1
  <2>1. FirstPassEnded
    BY <1>4 DEF LayoutInv
  <2> SUFFICES ASSUME Len(layout) <= Len(source), source[Len(layout)].t = "unknown"
               PROVE  FALSE
    BY <2>1 DEF FirstPassEnded
  <2>2. source[Len(layout)].t \in {"label", "skip"} \cup Writing
    BY <1>1, EveryLineTaken
  <2> QED
    BY <2>2 DEF Writing
<1>5. Len(layout) = Len(source) + 1 => LinesRead = 1..Len(source)
  BY <1>1 DEF LinesRead
<1> QED
  BY <1>1, <1>3, <1>4, <1>5

\* A label in front of line k of the program and behind the line before it.
InFrontOf(at, j, k) ==
    /\ j \in 1..Len(source) /\ source[j].t = "label"
    /\ j < at[k]
    /\ k > 1 => at[k - 1] < j

\* It stands for that line and for no other, once the line was read.
LEMMA StandsForItsLine ==
    ASSUME LayoutInv, NEW p, NEW at, Listed(p, at),
           NEW k \in 1..(Len(p) + 1), NEW j, InFrontOf(at, j, k)
    PROVE  /\ at[k] \in LinesRead => FirstBehind(j, at[k])
           /\ \A f : FirstBehind(j, f) =>
                f = at[k] /\ Start(f) = LabelAddress(p, cells(p), k)
<1> DEFINE n == Len(p)
<1>1. TypeInv /\ LinesRead \subseteq 1..Len(source)
  BY LinesReadFacts
<1>2. /\ n \in Nat
      /\ \A i \in 1..(n + 1) : at[i] \in 1..Len(source) /\ at[i] \notin Between(source)
      /\ \A i, l \in 1..(n + 1) : i < l => at[i] < at[l]
      /\ \A i \in 1..Len(source) :
           i \in Between(source) \/ \E l \in 1..(n + 1) : at[l] = i
      /\ Len(source) \in Nat
  BY <1>1, ListedFacts
<1> HIDE DEF n
<1>3. at[k] \in 1..Len(source) /\ Writes(at[k]) /\ j < at[k] /\ j \in 1..Len(source)
  <2>1. at[k] \in 1..Len(source) /\ at[k] \notin Between(source)
    BY <1>2 DEF n
  <2> QED
    BY <1>1, <2>1, EveryLineTaken DEF InFrontOf
\* No line that writes stands between the label and line k.
<1>4. ASSUME NEW f \in 1..Len(source), j < f, Writes(f)
      PROVE  at[k] <= f
  <2>1. PICK m \in 1..(n + 1) : at[m] = f
    <3>1. f \notin Between(source)
      BY <1>1, <1>4, EveryLineTaken
    <3> QED
      BY <1>2, <3>1
  <2>2. CASE m < k
    <3>1. k > 1 /\ k - 1 \in 1..(n + 1) /\ (m < k - 1 \/ m = k - 1)
      BY <1>2, <2>2 DEF n
    <3>2. at[k - 1] < j /\ at[k - 1] \in Nat
      BY <1>2, <3>1 DEF InFrontOf
    <3>3. at[m] < at[k - 1] \/ at[m] = at[k - 1]
      BY <1>2, <3>1
    <3> QED
      BY <1>3, <1>4, <2>1, <3>2, <3>3
  <2>3. CASE m = k
    BY <1>4, <2>1, <2>3
  <2>4. CASE k < m
    <3>1. at[k] < at[m]
      BY <1>2, <2>4 DEF n
    <3> QED
      BY <1>3, <2>1, <3>1
  <2> QED
    BY <1>2, <2>2, <2>3, <2>4 DEF n
<1>5. ASSUME at[k] \in LinesRead
      PROVE  FirstBehind(j, at[k])
  BY <1>1, <1>3, <1>4, <1>5 DEF FirstBehind
<1>6. ASSUME NEW f, FirstBehind(j, f)
      PROVE  f = at[k] /\ Start(f) = LabelAddress(p, cells(p), k)
  <2>1. f \in LinesRead /\ f > j /\ Writes(f) /\ f \in 1..Len(source)
    BY <1>1, <1>6 DEF FirstBehind
  <2>2. at[k] <= f
    BY <1>3, <1>4, <2>1
  <2>3. Len(layout) \in Nat /\ LinesRead = 1..(Len(layout) - 1)
    BY LinesReadFacts DEF LinesRead
  <2>4. at[k] \in LinesRead /\ at[k] <= Len(layout)
    BY <1>3, <2>1, <2>2, <2>3
  <2>5. f <= at[k]
    BY <1>3, <1>6, <2>4 DEF FirstBehind
  <2>6. f = at[k]
    BY <1>3, <2>1, <2>2, <2>5
  <2>7. Start(at[k]) = LabelAddress(p, cells(p), k)
    BY <2>4, StartOfLine
  <2> QED
    BY <2>6, <2>7
<1> QED
  BY <1>5, <1>6

\* The label a const line of the text uses stands once in the text.
LEMMA LabelOfConst ==
    ASSUME TypeInv, NEW p, NEW at, Listed(p, at),
           NEW i \in 1..Len(p), p[i][1] = "address"
    PROVE  /\ p[i][3] \in 1..(Len(p) + 1)
           /\ \E j : /\ InFrontOf(at, j, p[i][3])
                     /\ source[j] = [t |-> "label", sym |-> source[at[i]].sym]
                     /\ \A l \in 1..Len(source) :
                          source[l].t = "label" /\ source[l].sym = source[at[i]].sym => l = j
<1> DEFINE s == source[at[i]].sym
           k == p[i][3]
<1>1. DOMAIN at = 1..(Len(p) + 1) /\ DOMAIN source = 1..Len(source)
  BY ListedFacts
<1>2. k \in DOMAIN at /\ NamesLine(source, at, s, k)
  <2>1. WrittenAs(source[at[i]], at, p[i])
    BY LineWritten
  <2>2. p[i] \notin Plain
    BY PlainShape DEF IsConst
  <2> QED
    BY <2>1, <2>2 DEF WrittenAs
<1> HIDE DEF s, k
<1>3. PICK j \in 1..Len(source) : /\ source[j] = [t |-> "label", sym |-> s]
                                  /\ j < at[k] /\ (k > 1 => at[k - 1] < j)
  BY <1>1, <1>2 DEF NamesLine
<1>4. source[j].t = "label" /\ source[j].sym = s
  BY <1>3
<1>5. InFrontOf(at, j, k)
  BY <1>3, <1>4 DEF InFrontOf
<1>6. ASSUME NEW l \in 1..Len(source), source[l].t = "label", source[l].sym = s
      PROVE  l = j
  <2>1. l \in LabelLines(source) /\ j \in LabelLines(source)
    BY <1>1, <1>4, <1>6 DEF LabelLines
  <2> QED
    BY <1>4, <1>6, <2>1 DEF Listed, LabelsFit
<1> QED
  BY <1>1, <1>2, <1>3, <1>5, <1>6 DEF s, k

\* The value the table has for it is the address in the program.
LEMMA ValueInTable ==
    ASSUME TableInv, NEW p, NEW at, Listed(p, at),
           NEW i \in 1..Len(p), p[i][1] = "address",
           NEW e \in DOMAIN symboleTable, symboleTable[e].nom = source[at[i]].sym
    PROVE  symbolePasse = 2 \/ symboleTable[e].valeur # SYMBOLE_NOTDEFINED
             => symboleTable[e].valeur = LabelAddress(p, cells(p), p[i][3])
<1>1. LayoutInv /\ TypeInv /\ symbolePasse \in {1, 2}
  BY DEF TableInv, LayoutInv, TypeInv
<1>2. LinesRead \subseteq 1..Len(source)
  BY <1>1, LinesReadFacts
<1> DEFINE k == p[i][3]
<1>3. k \in 1..(Len(p) + 1)
  BY <1>1, LabelOfConst
<1>4. PICK j : /\ InFrontOf(at, j, k)
               /\ source[j] = [t |-> "label", sym |-> source[at[i]].sym]
               /\ \A l \in 1..Len(source) :
                    source[l].t = "label" /\ source[l].sym = source[at[i]].sym => l = j
  BY <1>1, LabelOfConst
<1> HIDE DEF k
<1>5. j \in LinesRead /\ StandsFor(e, j)
  <2>1. PICK l \in LinesRead : StandsFor(e, l)
    BY DEF TableInv
  <2>2. l = j
    BY <1>2, <1>4, <2>1 DEF StandsFor
  <2> QED
    BY <2>1, <2>2
<1>6. \A f : FirstBehind(j, f) => Start(f) = LabelAddress(p, cells(p), k)
  BY <1>1, <1>3, <1>4, StandsForItsLine
<1>7. ASSUME NEW f \in LinesRead, FirstBehind(j, f)
      PROVE  symboleTable[e].valeur = LabelAddress(p, cells(p), k)
  <2>1. symboleTable[e].valeur = Start(f)
    BY <1>5, <1>7 DEF TableInv
  <2> QED
    BY <1>6, <1>7, <2>1
<1>8. CASE symbolePasse = 2
  <2>1. at[k] \in LinesRead
    <3>1. at[k] \in 1..Len(source)
      BY <1>1, <1>3, ListedFacts
    <3> QED
      BY <1>1, <1>8, <3>1, LinesReadFacts
  <2>2. FirstBehind(j, at[k])
    BY <1>1, <1>3, <1>4, <2>1, StandsForItsLine
  <2> QED
    BY <1>7, <2>1, <2>2 DEF k
<1>9. CASE symbolePasse = 1 /\ symboleTable[e].valeur # SYMBOLE_NOTDEFINED
  <2>1. \E f \in LinesRead : FirstBehind(j, f)
    BY <1>5, <1>9 DEF TableInv
  <2> QED
    BY <1>7, <2>1 DEF k
<1> QED
  BY <1>1, <1>8, <1>9

-----------------------------------------------------------------------------
(* No line of the text is refused.                                         *)

\* The table has room for a label that is read: the entries so far are other
\* labels of the text, and no label stands twice.
LEMMA LabelAccepted ==
    ASSUME TableInv, NEW p, NEW at, Listed(p, at),
           Reading, symbolePasse = 1, Current.t = "label"
    PROVE  ~Refused(Current.sym)
<1> DEFINE T == symboleTable
           D == 1..Len(T)
           L == LabelLines(source)
           R == L \ {nligne}
           f == [e \in D |-> CHOOSE i \in LinesRead : StandsFor(e, i)]
<1>1. LayoutInv /\ TypeInv
  BY DEF TableInv, LayoutInv
<1>2. /\ Len(layout) = nligne /\ nligne \in 1..Len(source) /\ Len(source) \in Nat
      /\ LinesRead = 1..(nligne - 1) /\ DOMAIN source = 1..Len(source)
  BY <1>1, CurrentLine DEF LayoutInv, LinesRead, TypeInv
<1>3. Len(T) \in Nat /\ DOMAIN T = D
  BY <1>1 DEF TypeInv
<1>4. L \subseteq 1..Len(source) /\ nligne \in L
      /\ (\A i, j \in L : source[i].sym = source[j].sym => i = j)
      /\ Cardinality(L) <= MAXSYMBOLES
  BY <1>2 DEF LabelLines, Current, Listed, LabelsFit
\* Every entry is a label in front of this one.
<1>5. ASSUME NEW e \in D
      PROVE  /\ f[e] \in LinesRead /\ StandsFor(e, f[e])
             /\ f[e] \in R /\ source[f[e]].sym = T[e].nom
  <2>1. \E i \in LinesRead : StandsFor(e, i)
    BY <1>3 DEF TableInv
  <2>2. f[e] \in LinesRead /\ StandsFor(e, f[e])
    BY <2>1
  <2> HIDE DEF f
  <2>3. f[e] \in 1..Len(source) /\ f[e] # nligne
    BY <1>2, <2>2
  <2>4. source[f[e]].t = "label" /\ source[f[e]].sym = T[e].nom
    BY <2>2 DEF StandsFor
  <2> QED
    BY <1>2, <2>2, <2>3, <2>4 DEF LabelLines
<1>6. f \in [D -> R]
  BY <1>5
<1> HIDE DEF f, L, R, D
<1>7. ~Defined(Current.sym)
  <2> SUFFICES ASSUME NEW e \in D, T[e].nom = Current.sym
               PROVE  FALSE
    BY <1>3 DEF Defined
  <2>1. f[e] \in L /\ f[e] # nligne /\ source[f[e]].sym = source[nligne].sym
    BY <1>5 DEF R, Current
  <2> QED
    BY <1>4, <2>1
<1>8. Len(T) # MAXSYMBOLES
  <2> SUFFICES ASSUME Len(T) = MAXSYMBOLES
               PROVE  FALSE
    OBVIOUS
  <2>1. IsFiniteSet(1..Len(source))
    BY <1>2, FS_Interval
  <2>2. IsFiniteSet(L) /\ Cardinality(L) \in Nat
    BY <1>4, <2>1, FS_Subset, FS_CardinalityType
  <2>3. IsFiniteSet(R) /\ Cardinality(R) = Cardinality(L) - 1
    BY <1>4, <2>2, FS_RemoveElement DEF R
  <2>4. IsFiniteSet(D) /\ Cardinality(D) = Len(T)
    <3> DEFINE m == Len(T)
    <3>1. m \in Nat
      BY <1>3
    <3> HIDE DEF m
    <3>2. IsFiniteSet(1..m) /\ Cardinality(1..m) = IF 1 > m THEN 0 ELSE m - 1 + 1
      BY <3>1, FS_Interval
    <3>3. Cardinality(1..m) = m
      BY <3>1, <3>2
    <3> QED
      BY <3>2, <3>3 DEF m, D
  <2>5. Cardinality(R) < Cardinality(D)
    BY <1>3, <1>4, <2>2, <2>3, <2>4, AsiproAssumption
  <2>6. PICK e, d \in D : e # d /\ f[e] = f[d]
    BY <1>6, <2>3, <2>4, <2>5, FS_PigeonHole
  <2>7. T[e].nom = T[d].nom
    BY <1>5, <2>6
  <2>8. e \in 1..Len(T) /\ d \in 1..Len(T) /\ (e < d \/ d < e)
    BY <1>3, <2>6 DEF D
  <2>9. \A i, j \in DOMAIN T : i < j => T[i].nom # T[j].nom
    BY DEF TableInv, UnresolvedLast
  <2> QED
    BY <1>3, <2>7, <2>8, <2>9
<1> QED
  BY <1>7, <1>8 DEF Refused

\* const finds a label in the second pass, and a value it takes.
LEMMA ConstAccepted ==
    ASSUME TableInv, NEW p, NEW at, Listed(p, at), Reading, Current.t = "const"
    PROVE  /\ symbolePasse = 2 => /\ Defined(Current.sym)
                                  /\ findSymbole(Current.sym).valeur # SYMBOLE_NOTDEFINED
           /\ Defined(Current.sym) /\ findSymbole(Current.sym).valeur # SYMBOLE_NOTDEFINED
                => ~(findSymbole(Current.sym).valeur > UINTMAX)
<1> DEFINE s == Current.sym
           e == CHOOSE k \in DOMAIN symboleTable : symboleTable[k].nom = s
<1>1. LayoutInv /\ TypeInv /\ nligne \in 1..Len(source)
  BY CurrentLine DEF TableInv, LayoutInv
<1>2. PICK i \in 1..Len(p) : at[i] = nligne /\ p[i][1] = "address"
  BY <1>1, EveryLineTaken DEF Current
<1> DEFINE k == p[i][3]
           a == LabelAddress(p, cells(p), k)
<1>3. s = source[at[i]].sym
  BY <1>2 DEF Current
<1>4. k \in 1..(Len(p) + 1)
      /\ \E j : /\ InFrontOf(at, j, k)
                /\ source[j] = [t |-> "label", sym |-> source[at[i]].sym]
  BY <1>1, <1>2, LabelOfConst
<1>5. ASSUME Defined(s)
      PROVE  /\ e \in DOMAIN symboleTable /\ symboleTable[e].nom = s
             /\ findSymbole(s) = symboleTable[e]
  BY <1>5 DEF Defined, findSymbole
<1> HIDE DEF e, s
<1>6. ASSUME Defined(s), symbolePasse = 2 \/ findSymbole(s).valeur # SYMBOLE_NOTDEFINED
      PROVE  findSymbole(s).valeur = a
  BY <1>1, <1>2, <1>3, <1>5, <1>6, ValueInTable
<1>7. a <= UINTMAX
  <2>1. i \in DOMAIN p
    BY <1>1, ListedFacts
  <2> QED
    BY <1>2, <2>1 DEF Listed, AddressesFit
<1>8. a \in Nat
  <2>1. i \in DOMAIN p /\ Addressed(p)
    BY <1>1, ListedFacts
  <2>2. a \in WordValue
    BY <1>2, <2>1 DEF Addressed
  <2>3. 2^16 = 65536
    OBVIOUS
  <2> HIDE DEF a
  <2> QED
    BY <2>2, <2>3 DEF WordValue
<1>9. ASSUME symbolePasse = 2
      PROVE  Defined(s)
  <2>1. PICK j : /\ InFrontOf(at, j, k)
                 /\ source[j] = [t |-> "label", sym |-> source[at[i]].sym]
    BY <1>4
  <2>2. j \in LinesRead /\ source[j].t = "label" /\ source[j].sym = s
    BY <1>1, <1>3, <1>9, <2>1, LinesReadFacts DEF InFrontOf
  <2>3. PICK d \in DOMAIN symboleTable : StandsFor(d, j)
    BY <2>2 DEF TableInv
  <2> QED
    BY <2>2, <2>3 DEF StandsFor, Defined
<1> HIDE DEF a
<1>10. a # SYMBOLE_NOTDEFINED /\ ~(a > UINTMAX)
  BY <1>7, <1>8, AsiproAssumption DEF SYMBOLE_NOTDEFINED
<1> QED
  BY <1>6, <1>9, <1>10 DEF s

\* assemblage goes on, or it returned behind the last line of the second pass.
Accepted ==
    /\ status \in {"running", "done"}
    /\ status = "done" => symbolePasse = 2 /\ nligne > Len(source)

ListingInv ==
    /\ ImageInv
    /\ \A p \in Programs : \A at : Listed(p, at) => Accepted

\* Every step keeps the text, and refuses none of its lines.
LEMMA NextAccepted ==
    ASSUME TableInv, NEW p, NEW at, Listed(p, at), Accepted, [Next]_vars
    PROVE  Accepted'
<1>1. LayoutInv /\ TypeInv /\ symbolePasse \in {1, 2}
  BY DEF TableInv, LayoutInv, TypeInv
<1>2. ASSUME Reading
      PROVE  Current.t \notin {"wrong", "unknown"}
  <2>1. nligne \in 1..Len(source)
    BY <1>1, <1>2, CurrentLine
  <2>2. source[nligne].t \in {"label", "skip"} \cup Writing
    BY <1>1, <2>1, EveryLineTaken
  <2> QED
    BY <2>2 DEF Current, Writing
<1>3. ASSUME Reading, NextLine
      PROVE  Accepted'
  BY <1>3 DEF Reading, NextLine, Accepted
<1>4. CASE Data \/ Instruction \/ Number \/ Skip
  BY <1>3, <1>4 DEF Data, Instruction, Number, Skip, Write
<1>5. CASE Label
  <2>1. symbolePasse = 1 => ~Refused(Current.sym)
    BY <1>5, LabelAccepted DEF Label
  <2>2. Reading /\ NextLine
    BY <1>1, <1>5, <2>1 DEF Label
  <2> QED
    BY <1>3, <2>2
<1>6. CASE Const
  <2> DEFINE s == Current.sym
             known == Defined(s) /\ findSymbole(s).valeur # SYMBOLE_NOTDEFINED
             v == IF known THEN findSymbole(s).valeur ELSE 0
  <2>1. Reading /\ Current.t = "const"
    BY <1>6 DEF Const
  <2>2. symbolePasse = 2 => known
    BY <2>1, ConstAccepted
  <2>3. ~(v > UINTMAX)
    <3>1. known => ~(findSymbole(s).valeur > UINTMAX)
      BY <2>1, ConstAccepted
    <3>2. ~(0 > UINTMAX)
      BY AsiproAssumption
    <3> HIDE DEF known
    <3> QED
      BY <3>1, <3>2
  <2>4. Write(<<>>, ConstBytes(Current.reg, v))
    <3>1. known \/ symbolePasse = 1
      BY <1>1, <2>2
    <3>2. CASE ~known /\ symbolePasse = 2
      BY <2>2, <3>2
    <3>3. CASE ~(~known /\ symbolePasse = 2)
      BY <1>6, <2>3, <3>1, <3>3 DEF Const
    <3> QED
      BY <3>2, <3>3
  <2> QED
    BY <1>3, <2>1, <2>4 DEF Write
<1>7. CASE Wrong \/ Unknown
  BY <1>2, <1>7 DEF Wrong, Unknown
<1>8. CASE EndOfFile
  BY <1>1, <1>8 DEF EndOfFile, PassReturns, Accepted
<1>9. CASE Ended \/ UNCHANGED vars
  BY <1>9 DEF Ended, vars, Accepted
<1> QED
  BY <1>4, <1>5, <1>6, <1>7, <1>8, <1>9 DEF Next

\* ListingInv holds in every state.
THEOREM ListingInvariant == Spec => []ListingInv
<1>1. Init => ListingInv
  <2> SUFFICES ASSUME Init PROVE ListingInv
    OBVIOUS
  <2>1. ImageInv
    BY InitTable DEF Init, StartOn, ImageInv, ImageCorrect
  <2>2. status = "running"
    BY DEF Init, StartOn
  <2> QED
    BY <2>1, <2>2 DEF ListingInv, Accepted
<1>2. ListingInv /\ [Next]_vars => ListingInv'
  <2> SUFFICES ASSUME ListingInv, [Next]_vars PROVE ListingInv'
    OBVIOUS
  <2>1. ImageInv' /\ TableInv
    BY NextImage DEF ListingInv, ImageInv
  <2>2. source' = source
    <3>1. Puts \/ Enters \/ Quiet \/ Stops \/ Second
      BY <2>1, StepKinds DEF TableInv, LayoutInv
    <3> QED
      BY <3>1 DEF Puts, Write, Enters, Quiet, NextLine, Stops, Second
  <2>3. ASSUME NEW p \in Programs, NEW at, Listed(p, at)'
        PROVE  Accepted'
    <3>1. Listed(p, at)
      BY <2>2, <2>3 DEF Listed
    <3>2. Accepted
      BY <3>1 DEF ListingInv
    <3> QED
      BY <2>1, <3>1, <3>2, NextAccepted
  <2> QED
    BY <2>1, <2>3 DEF ListingInv
<1> QED
  BY <1>1, <1>2, PTL DEF Spec

-----------------------------------------------------------------------------
(* The file is the image of the program.                                   *)

\* The cell the text's label stands for is the address in the program.
LEMMA AddressAgrees ==
    ASSUME TableInv, symbolePasse = 2, NEW p, NEW at, Listed(p, at),
           NEW i \in 1..Len(p), p[i][1] = "address"
    PROVE  /\ Address(source[at[i]].sym) = LabelAddress(p, cells(p), p[i][3])
           /\ Address(source[at[i]].sym) # SYMBOLE_NOTDEFINED
<1> DEFINE s == source[at[i]].sym
           k == p[i][3]
           a == CHOOSE l \in LinesRead : source[l] = [t |-> "label", sym |-> s]
           After == {l \in LinesRead : l > a /\ Writes(l)}
           f == CHOOSE l \in After : \A m \in After : l =< m
<1>1. LayoutInv /\ TypeInv
  BY DEF TableInv, LayoutInv
<1>2. LinesRead = 1..Len(source) /\ Len(layout) = Len(source) + 1 /\ Len(source) \in Nat
  BY <1>1, LinesReadFacts
<1>3. k \in 1..(Len(p) + 1) /\ at[k] \in LinesRead
  BY <1>1, <1>2, LabelOfConst, ListedFacts
<1>4. PICK j : /\ InFrontOf(at, j, k)
               /\ source[j] = [t |-> "label", sym |-> s]
               /\ \A l \in 1..Len(source) :
                    source[l].t = "label" /\ source[l].sym = s => l = j
  BY <1>1, LabelOfConst
<1>5. a = j
  <2>1. a \in LinesRead /\ source[a] = [t |-> "label", sym |-> s]
    BY <1>2, <1>4 DEF InFrontOf
  <2> HIDE DEF a
  <2>2. source[a].t = "label" /\ source[a].sym = s
    BY <2>1
  <2> QED
    BY <1>2, <1>4, <2>1, <2>2
<1>6. Address(s) = IF After = {} THEN SYMBOLE_NOTDEFINED ELSE Start(f)
  BY DEF Address
<1> HIDE DEF a, s
<1>7. FirstBehind(j, at[k])
  BY <1>1, <1>3, <1>4, StandsForItsLine
<1>8. at[k] \in After /\ \A m \in After : at[k] =< m
  BY <1>5, <1>7 DEF FirstBehind
<1>9. f \in After /\ \A m \in After : f =< m
  BY <1>8
<1> HIDE DEF f
<1>10. FirstBehind(j, f) /\ f \in 1..Len(layout)
  BY <1>2, <1>5, <1>9 DEF FirstBehind
<1>11. Start(f) = LabelAddress(p, cells(p), k)
  BY <1>1, <1>3, <1>4, <1>10, StandsForItsLine
<1>12. Start(f) # SYMBOLE_NOTDEFINED
  BY <1>1, <1>10, StartIsNat
<1> QED
  BY <1>6, <1>8, <1>11, <1>12 DEF s

\* The cells asipro skips are zeros.
LEMMA HoleIsZeros ==
    ASSUME NEW cell \in Nat
    PROVE  (IF Odd(cell) THEN <<0>> ELSE <<>>) = Zeros(trou(cell))
<1>1. Zeros(0) = <<>>
  BY DEF Zeros
<1>2. Zeros(1) = <<0>>
  BY DEF Zeros
<1> QED
  BY <1>1, <1>2, HoleOfOdd

\* What a line of the text is in the file is what its line of the program is in
\* the image.
LEMMA EncodingAgrees ==
    ASSUME TableInv, symbolePasse = 2, NEW p, NEW at, Listed(p, at), NEW i \in 1..Len(p)
    PROVE  Encoding(at[i]) = Encode(p, cells(p), i)
<1> DEFINE ins == p[i]
           line == source[at[i]]
           c == cells(p)
<1>1. LayoutInv /\ TypeInv
  BY DEF TableInv, LayoutInv
<1>2. layout[at[i]] = c[i] /\ c[i] \in Nat
  <2>1. /\ at[i] \in 1..Len(source) /\ Len(layout) = Len(source) + 1 /\ Len(source) \in Nat
        /\ i \in 1..(Len(p) + 1) /\ Len(p) \in Nat
    BY <1>1, ListedFacts, LinesReadFacts
  <2>2. layout[at[i]] = c[i]
    BY <1>1, <2>1, Placed
  <2> DEFINE q == at[i]
  <2>3. q \in 1..Len(layout) /\ layout \in Seq(Nat)
    BY <1>1, <2>1 DEF TypeInv
  <2> HIDE DEF q
  <2>4. layout[q] \in Nat
    BY <2>3, ElementOfSeq
  <2> QED
    BY <2>2, <2>4 DEF q
<1>3. (IF Odd(c[i]) THEN <<0>> ELSE <<>>) = Zeros(trou(c[i]))
  BY <1>2, HoleIsZeros
<1>4. WrittenAs(line, at, ins) /\ ins \in Instr \cup Constante
  BY <1>1, ListedFacts, LineWritten
<1>5. \A v : codeValue(v) = Bytes(v)
  BY DEF codeValue, Bytes
<1>6. ASSUME ins[1] = "const"
      PROVE  Encoding(at[i]) = Encode(p, c, i)
  <2>1. line.t = "number" /\ line.reg = ins[2] /\ line.val = ins[3]
    BY <1>4, <1>6, PlainShape DEF WrittenAs, IsConst
  <2>2. opcode[ins[1]] = 53
    BY <1>6 DEF opcode
  <2>3. Encoding(at[i]) = <<53, ins[2]>> \o Zeros(trou(c[i])) \o Bytes(ins[3])
    BY <1>2, <1>3, <1>5, <2>1 DEF Encoding
  <2>4. Encode(p, c, i) = <<53, ins[2]>> \o Zeros(trou(c[i])) \o Bytes(ins[3])
    BY <1>6, <2>2 DEF Encode, IsConst
  <2> QED
    BY <2>3, <2>4
<1>7. ASSUME ins[1] = "address"
      PROVE  Encoding(at[i]) = Encode(p, c, i)
  <2> DEFINE v == LabelAddress(p, c, ins[3])
  <2>1. line.t = "const" /\ line.reg = ins[2]
    BY <1>4, <1>7, PlainShape DEF WrittenAs, IsConst
  <2>2. opcode[ins[1]] = 53
    BY <1>7 DEF opcode
  <2>3. Address(line.sym) = v
    BY <1>7, AddressAgrees
  <2>4. Encoding(at[i]) = <<53, ins[2]>> \o Zeros(trou(c[i])) \o Bytes(v)
    BY <1>2, <1>3, <1>5, <2>1, <2>3 DEF Encoding
  <2>5. Encode(p, c, i) = <<53, ins[2]>> \o Zeros(trou(c[i])) \o Bytes(v)
    BY <1>7, <2>2 DEF Encode, IsConst
  <2> QED
    BY <2>4, <2>5
<1>8. ASSUME ins[1] = "int"
      PROVE  Encoding(at[i]) = Encode(p, c, i)
  <2>1. line.t = "data" /\ line.bytes = Bytes(ins[2])
    BY <1>4, <1>8, PlainShape DEF WrittenAs, IsData
  <2>2. Encoding(at[i]) = Zeros(trou(c[i])) \o Bytes(ins[2])
    BY <1>2, <1>3, <2>1 DEF Encoding
  <2> QED
    BY <1>8, <2>2 DEF Encode, IsConst
<1>9. ASSUME ins[1] = "string"
      PROVE  Encoding(at[i]) = Encode(p, c, i)
  <2> DEFINE z == Zeros(trou(c[i]))
             str == ins[2]
             e == <<0>>
  <2>1. line.t = "data" /\ line.bytes = Joint(str, e)
    BY <1>4, <1>9, PlainShape DEF WrittenAs, IsData
  <2>2. Encoding(at[i]) = z \o (str \o e)
    BY <1>2, <1>3, <2>1 DEF Encoding, Joint
  <2>3. Encode(p, c, i) = (z \o str) \o e
    BY <1>9 DEF Encode, IsConst
  <2>4. z \in Seq(Byte)
    <3>1. trou(c[i]) \in Nat
      BY <1>2, Holes
    <3> QED
      BY <3>1, ByteSequences
  <2>5. str \in Seq(Byte)
    <3>1. str \in Seq(Byte \ {0})
      BY <1>4, <1>9, Kinds, PlainShape DEF IsData
    <3> QED
      BY <3>1
  <2>6. e \in Seq(Byte)
    <3>1. 0 \in Byte
      BY ByteRange
    <3> QED
      BY <3>1
  <2> HIDE DEF z, str, e
  <2>7. (z \o str) \o e = z \o (str \o e)
    BY <2>4, <2>5, <2>6, ConcatAssociative
  <2> QED
    BY <2>2, <2>3, <2>7
<1>10. ASSUME ins \in Plain
       PROVE  Encoding(at[i]) = Encode(p, c, i)
  <2>1. ~IsConst(ins) /\ ~IsData(ins)
    BY <1>10, PlainShape
  <2>2. line.t = "bytes" /\ line.bytes = <<opcode[ins[1]]>> \o Tail(ins)
    BY <1>4, <2>1 DEF WrittenAs, IsConst, IsData, Joint
  <2>3. Encoding(at[i]) = line.bytes
    BY <2>2 DEF Encoding
  <2>4. Encode(p, c, i) = <<opcode[ins[1]]>> \o Tail(ins)
    BY <2>1 DEF Encode, IsData
  <2> QED
    BY <2>2, <2>3, <2>4
<1>11. Encoding(at[i]) = Encode(p, c, i)
  BY <1>4, <1>6, <1>7, <1>8, <1>9, <1>10, Kinds
<1> QED
  BY <1>11

\* The lines of the program and the stack's word fill the file.
LEMMA FileIsImage ==
    ASSUME ImageInv, symbolePasse = 2, nligne > Len(source),
           NEW p, NEW at, Listed(p, at)
    PROVE  output = Image(p)
<1> DEFINE n == Len(p)
           c == cells(p)
           N == Len(source)
           last == at[n + 1]
           size == c[n + 1]
           W(i) == Size(p[i], c[i])
<1>1. /\ TableInv /\ LayoutInv /\ TypeInv /\ p \in Program /\ Addressed(p)
      /\ n \in Nat /\ N \in Nat /\ Len(layout) = N + 1 /\ nligne = N + 1
      /\ output \in Seq(Int) /\ layout \in Seq(Nat)
      /\ Len(output) = layout[N + 1]
  <2>1. TableInv /\ LayoutInv /\ TypeInv
    BY DEF ImageInv, TableInv, LayoutInv
  <2>2. p \in Program /\ Addressed(p) /\ n \in Nat /\ N \in Nat /\ Len(layout) = N + 1
    BY <2>1, ListedFacts, LinesReadFacts
  <2>3. nligne <= Len(layout) /\ Len(output) = layout[nligne] /\ nligne \in Nat
    BY <2>1 DEF LayoutInv, PassesAgree, TypeInv
  <2>4. nligne = N + 1
    BY <2>2, <2>3
  <2> QED
    BY <2>1, <2>2, <2>3, <2>4 DEF TypeInv
<1>2. /\ Laid(p, c)
      /\ \A i \in 1..(n + 1) : c[i] \in Nat
      /\ \A i \in 1..n : c[i + 1] = c[i] + W(i)
      /\ \A i \in 1..n : W(i) \in Nat
      /\ size \in Nat
  <2>1. Laid(p, c) /\ \A i \in 1..n : p[i] \in Instr \cup Constante
    BY <1>1, ListedFacts
  <2>2. \A i \in 1..(n + 1) : c[i] \in Nat
    BY <1>1, <2>1, Ordered
  <2>3. \A i \in 1..n : c[i + 1] = c[i] + W(i)
    BY <2>1 DEF Laid
  <2>4. \A i \in 1..n : W(i) \in Nat
    <3>1. \A i \in 1..n : i \in 1..(n + 1)
      BY <1>1
    <3> HIDE DEF c
    <3> QED
      BY <2>1, <2>2, <3>1, SizeNat
  <2>5. n + 1 \in 1..(n + 1)
    BY <1>1
  <2> QED
    BY <2>1, <2>2, <2>3, <2>4, <2>5
<1>3. \A i \in 1..(n + 1) : at[i] \in 1..N /\ layout[at[i]] = c[i]
  <2>1. ASSUME NEW i \in 1..(n + 1) PROVE at[i] \in 1..N /\ layout[at[i]] = c[i]
    <3>1. at[i] \in 1..N /\ at[i] <= Len(layout)
      BY <1>1, ListedFacts
    <3> QED
      BY <1>1, <3>1, Placed
  <2> QED
    BY <2>1
\* What stands in the file where a line was laid.
<1>4. ASSUME NEW j \in 1..N,
             source[j].t = "const" => Address(source[j].sym) # SYMBOLE_NOTDEFINED
      PROVE  /\ layout[j] \in Nat /\ layout[j + 1] \in Nat
             /\ layout[j + 1] = layout[j] + LineSize(source[j], layout[j])
             /\ layout[j + 1] <= Len(output)
             /\ \A k \in 1..(layout[j + 1] - layout[j]) : output[layout[j] + k] = Encoding(j)[k]
  <2>1. j \in 1..(N + 1) /\ j + 1 \in 1..(N + 1) /\ j + 1 <= N + 1 /\ N + 1 \in 1..(N + 1)
    BY <1>1
  <2>2. layout[j] \in Nat /\ layout[j + 1] \in Nat
    <3> DEFINE l == j + 1
    <3>1. j \in 1..Len(layout) /\ l \in 1..Len(layout) /\ layout \in Seq(Nat)
      BY <1>1, <2>1
    <3> HIDE DEF l
    <3>2. layout[j] \in Nat /\ layout[l] \in Nat
      BY <3>1, ElementOfSeq
    <3> QED
      BY <3>2 DEF l
  <2>3. layout[j + 1] = layout[j] + LineSize(source[j], layout[j])
    <3>1. j \in 1..(Len(layout) - 1)
      BY <1>1, <2>1
    <3> QED
      BY <1>1, <3>1, Zenon DEF LayoutInv, LinesLaid
  <2>4. layout[j + 1] <= Len(output)
    BY <1>1, <2>1 DEF LayoutInv, LinesLaid
  <2>5. SubSeq(output, layout[j] + 1, layout[j + 1]) = Encoding(j)
    <3>1. j \in 1..(nligne - 1)
      BY <1>1, <2>1
    <3> QED
      BY <1>4, <3>1 DEF ImageInv, ImageCorrect
  <2> DEFINE a == layout[j] + 1
             b == layout[j + 1]
  <2>6. a \in Int /\ b \in Int /\ a >= 1 /\ b <= Len(output) /\ Len(output) \in Nat
    BY <1>1, <2>2, <2>4
  <2>7. b - a + 1 = layout[j + 1] - layout[j]
        /\ \A k \in 1..(b - a + 1) : a + k - 1 = layout[j] + k
    BY <2>2
  <2> HIDE DEF a, b
  <2>8. \A k \in 1..(b - a + 1) : SubSeq(output, a, b)[k] = output[a + k - 1]
    <3>1. \A i \in a..b : output[i] \in Int
      <4>1. \A i \in a..b : i \in 1..Len(output)
        BY <2>6
      <4> QED
        BY <1>1, <4>1, ElementOfSeq
    <3> QED
      BY <2>6, <3>1, SubSeqProperties
  <2>9. SubSeq(output, a, b) = Encoding(j)
    BY <2>5 DEF a, b
  <2>10. \A k \in 1..(b - a + 1) : output[layout[j] + k] = Encoding(j)[k]
    BY <2>7, <2>8, <2>9
  <2> QED
    BY <2>2, <2>3, <2>4, <2>7, <2>10
<1> HIDE DEF N, n, c, W, size
<1>5. size \in Nat
  BY <1>2
<1>6. ASSUME NEW i \in 1..n, NEW k \in 1..W(i)
      PROVE  output[c[i] + k] = Encode(p, c, i)[k]
  <2>1. at[i] \in 1..N /\ layout[at[i]] = c[i] /\ c[i] \in Nat /\ W(i) \in Nat
    BY <1>1, <1>2, <1>3
  <2>2. Encoding(at[i]) = Encode(p, c, i)
    BY <1>1, EncodingAgrees DEF n, c
  <2>3. source[at[i]].t = "const" => Address(source[at[i]].sym) # SYMBOLE_NOTDEFINED
    <3>1. WrittenAs(source[at[i]], at, p[i])
      BY <1>1, LineWritten DEF n
    <3>2. source[at[i]].t = "const" => p[i][1] = "address"
      BY <3>1 DEF WrittenAs
    <3> QED
      BY <1>1, <3>2, AddressAgrees DEF n
  <2>4. LineSize(source[at[i]], c[i]) = W(i)
    BY <1>1, <2>1, SizesAgree DEF n, c, W
  <2> DEFINE q == at[i]
  <2> HIDE DEF q
  <2>5. q \in 1..N /\ layout[q] = c[i] /\ Encoding(q) = Encode(p, c, i)
        /\ (source[q].t = "const" => Address(source[q].sym) # SYMBOLE_NOTDEFINED)
        /\ LineSize(source[q], c[i]) = W(i)
    BY <2>1, <2>2, <2>3, <2>4 DEF q
  <2>6. /\ layout[q + 1] = layout[q] + LineSize(source[q], layout[q])
        /\ \A l \in 1..(layout[q + 1] - layout[q]) : output[layout[q] + l] = Encoding(q)[l]
    BY <1>4, <2>5
  <2>7. layout[q + 1] - layout[q] = W(i)
    BY <2>1, <2>5, <2>6
  <2> QED
    BY <2>5, <2>6, <2>7
\* The word of the stack.
<1>7. /\ Len(output) = size + trou(size) + 2
      /\ \A k \in 1..(trou(size) + 2) : output[size + k] = 0
  <2>1. last \in 1..N /\ layout[last] = size /\ trou(size) \in Nat
    <3>1. n + 1 \in 1..(n + 1)
      BY <1>1
    <3>2. last \in 1..N /\ layout[last] = size
      BY <1>3, <3>1 DEF size
    <3> QED
      BY <1>2, <3>2, Holes
  <2>2. /\ source[last].t = "data" /\ source[last].bytes = <<0, 0>>
        /\ LineSize(source[last], size) = trou(size) + 2
    BY <1>1, <1>2, LastSize DEF n
  <2>3. /\ layout[last + 1] = size + (trou(size) + 2)
        /\ layout[last + 1] <= Len(output)
        /\ \A k \in 1..(layout[last + 1] - layout[last]) :
             output[layout[last] + k] = Encoding(last)[k]
    <3>1. source[last].t # "const"
      BY <2>2
    <3> HIDE DEF last
    <3> QED
      BY <1>4, <2>1, <2>2, <3>1
  <2>4. layout[N + 1] = layout[last + 1]
    <3>1. last + 1 \in 1..Len(layout) /\ N + 1 \in 1..Len(layout) /\ last + 1 <= N + 1
      BY <1>1, <2>1
    <3>2. \A j \in (last + 1)..((N + 1) - 1) : j \in Between(source)
      <4>1. \A j \in (last + 1)..((N + 1) - 1) : j \in 1..N /\ last < j
        BY <1>1, <2>1
      <4> QED
        BY <1>1, <4>1, NothingBetween DEF N, n
    <3> HIDE DEF last
    <3> QED
      BY <1>1, <3>1, <3>2, Stretch
  <2>5. Encoding(last) = Joint(Zeros(trou(size)), <<0, 0>>)
    <3>1. (IF Odd(size) THEN <<0>> ELSE <<>>) = Zeros(trou(size))
      BY <1>2, HoleIsZeros
    <3> HIDE DEF last
    <3> QED
      BY <2>1, <2>2, <3>1 DEF Encoding, Joint
  <2>6. \A k \in 1..(trou(size) + 2) : Encoding(last)[k] = 0
    <3> DEFINE t == trou(size)
               z == Zeros(t)
               w == <<0, 0>>
    <3>1. t \in Nat /\ z \in Seq(Byte) /\ Len(z) = t /\ \A k \in 1..t : z[k] = 0
      BY <2>1, ByteSequences
    <3>2. w \in Seq(Byte) /\ Len(w) = 2 /\ w[1] = 0 /\ w[2] = 0
      <4>1. 0 \in Byte
        BY ByteRange
      <4> QED
        BY <4>1
    <3> HIDE DEF t, z, w
    <3>3. /\ \A k \in 1..Len(z) : Joint(z, w)[k] = z[k]
          /\ \A k \in 1..Len(w) : Joint(z, w)[Len(z) + k] = w[k]
      BY <3>1, <3>2, Joined
    <3>4. ASSUME NEW k \in 1..(t + 2)
          PROVE  Joint(z, w)[k] = 0
      <4>1. CASE k \in 1..t
        BY <3>1, <3>3, <4>1
      <4>2. CASE k = t + 1
        BY <3>1, <3>2, <3>3, <4>2
      <4>3. CASE k = t + 2
        BY <3>1, <3>2, <3>3, <4>3
      <4> QED
        BY <3>1, <4>1, <4>2, <4>3
    <3> QED
      BY <2>5, <3>4 DEF t, z, w
  <2>7. layout[last + 1] - layout[last] = trou(size) + 2
    BY <1>2, <2>1, <2>3
  <2>8. Len(output) = size + trou(size) + 2
    BY <1>1, <1>2, <2>1, <2>3, <2>4
  <2>9. \A k \in 1..(trou(size) + 2) : output[size + k] = 0
    BY <2>1, <2>3, <2>6, <2>7
  <2> QED
    BY <2>8, <2>9
\* The image has the same cells.
<1>8. /\ Image(p) \in Seq(Byte) /\ Len(Image(p)) = size + trou(size) + 2
      /\ \A i \in 1..n : \A k \in 1..W(i) : Image(p)[c[i] + k] = Encode(p, c, i)[k]
      /\ \A k \in 1..(trou(size) + 2) : Image(p)[size + k] = 0
  <2>1. Pile(p) = size + trou(size)
    <3>1. Len(c) = n + 1
      BY <1>2 DEF Laid, n
    <3> QED
      BY <3>1 DEF Pile, PileBehind, c, size
  <2>2. trou(size) \in Nat
    BY <1>5, Holes
  <2>3. Pile(p) + 2 - size = trou(size) + 2
    BY <1>2, <2>1, <2>2
  <2> QED
    BY <1>1, <2>1, <2>3, ImageCells DEF c, n, W, size
<1>9. ASSUME NEW a \in 1..Len(output)
      PROVE  output[a] = Image(p)[a]
  <2>1. trou(size) \in Nat
    BY <1>5, Holes
  <2>2. CASE a <= size
    <3>1. PICK i \in 1..n : c[i] < a /\ a <= c[i + 1]
      <4>1. a \in 1..size
        BY <1>2, <2>2
      <4> QED
        BY <1>1, <1>2, <4>1, LineOf DEF n, size
    <3>2. c[i] \in Nat /\ W(i) \in Nat /\ c[i + 1] = c[i] + W(i)
      BY <1>1, <1>2
    <3> DEFINE k == a - c[i]
    <3>3. k \in 1..W(i) /\ a = c[i] + k
      BY <3>1, <3>2
    <3> HIDE DEF k
    <3>4. output[c[i] + k] = Encode(p, c, i)[k] /\ Image(p)[c[i] + k] = Encode(p, c, i)[k]
      BY <1>6, <1>8, <3>3
    <3> QED
      BY <3>3, <3>4
  <2>3. CASE a > size
    <3> DEFINE k == a - size
    <3>1. k \in 1..(trou(size) + 2) /\ a = size + k
      BY <1>2, <1>7, <2>1, <2>3
    <3> HIDE DEF k
    <3>2. output[size + k] = 0 /\ Image(p)[size + k] = 0
      BY <1>7, <1>8, <3>1
    <3> QED
      BY <3>1, <3>2
  <2> QED
    BY <1>2, <2>2, <2>3
<1>10. Image(p) \in Seq(Int)
  <2> DEFINE s == Image(p)
             m == Len(s)
  <2>1. s \in Seq(Byte)
    BY <1>8
  <2> HIDE DEF s
  <2>2. m \in Nat /\ s = [i \in 1..m |-> s[i]]
    BY <2>1
  <2>3. \A i \in 1..m : s[i] \in Int
    <3>1. \A i \in 1..m : s[i] \in Byte
      BY <2>1, ElementOfSeq
    <3> QED
      BY <3>1, ByteRange
  <2> HIDE DEF m
  <2>4. s \in Seq(Int)
    BY <2>2, <2>3
  <2> QED
    BY <2>4 DEF s
<1>11. Len(output) = Len(Image(p))
  BY <1>7, <1>8
<1> QED
  BY <1>1, <1>9, <1>10, <1>11, SeqEqual

\* The text of every program is assembled, whatever labels and comments stand in
\* it, and the file is the image the emulator is started with.
THEOREM TextsAreAssembled == Spec => []AssemblesPrograms
<1>1. ListingInv => AssemblesPrograms
  <2> SUFFICES ASSUME ListingInv, NEW p \in Programs, status # "running",
                      Lists(source, p), LabelsFit(source), AddressesFit(p)
               PROVE  status = "done" /\ output = Image(p)
    BY DEF AssemblesPrograms
  <2>1. PICK at \in [1..(Len(p) + 1) -> DOMAIN source \ Between(source)] : ListsAt(source, p, at)
    BY DEF Lists
  <2>2. Listed(p, at)
    BY <2>1 DEF Listed
  <2>3. status = "done" /\ symbolePasse = 2 /\ nligne > Len(source)
    BY <2>2 DEF ListingInv, Accepted
  <2> QED
    BY <2>2, <2>3, FileIsImage DEF ListingInv
<1> QED
  BY <1>1, ListingInvariant, PTL
=============================================================================
