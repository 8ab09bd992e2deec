--------------------------- MODULE Asipro_proofs ----------------------------
(***************************************************************************)
(* Theorems about the assembler for every set of lines, every length of    *)
(* the source text and every size of the table of symbols: the types, the  *)
(* agreement of both passes, the values of the labels and the image.       *)
(***************************************************************************)
EXTENDS Asipro, TLAPS, SequenceTheorems

-----------------------------------------------------------------------------
(* Lines and what they write. *)

LineKinds == {"label", "const", "number", "bytes", "data", "skip", "unknown", "wrong"}
Writing == {"bytes", "data", "const", "number"}

\* The fields of a line and what they hold.
LEMMA LineFacts ==
    ASSUME NEW l \in Lines
    PROVE  /\ l.t \in LineKinds
           /\ l.t = "label" => l.sym \in Symbols /\ l = [t |-> "label", sym |-> l.sym]
           /\ l.t = "const" => l.sym \in Symbols
           /\ l.t \in {"const", "number"} => l.reg \in Octet
           /\ l.t = "number" => l.val \in 0..UINTMAX
           /\ l.t \in {"bytes", "data"} => l.bytes \in Seq(Octet) /\ l.bytes # <<>>
<1>1. \/ l \in [t : {"label"}, sym : Symbols]
      \/ l \in [t : {"const"}, reg : Octet, sym : Symbols]
      \/ l \in [t : {"number"}, reg : Octet, val : 0..UINTMAX]
      \/ l.t \in {"bytes", "data"} /\ l.bytes \in Seq(Octet) /\ l.bytes # <<>>
      \/ l \in [t : {"skip", "unknown", "wrong"}]
  BY AsiproAssumption
<1> QED
  BY <1>1 DEF LineKinds

\* The cells line l takes when it is read at cell c.
LineSize(l, c) ==
    CASE l.t = "bytes" -> Len(l.bytes)
      [] l.t = "data" -> (IF Odd(c) THEN 1 ELSE 0) + Len(l.bytes)
      [] l.t \in {"const", "number"} -> IF Odd(c) THEN 5 ELSE 4
      [] l.t \notin Writing -> 0

TypeInv ==
    /\ source \in Seq(Lines)
    /\ symbolePasse \in {1, 2}
    /\ nligne \in Nat \ {0}
    /\ ncellule \in Nat
    /\ symboleTable \in Seq(Symbole)
    /\ output \in Seq(Int)
    /\ layout \in Seq(Nat)

\* What the handlers of the lines that write give to Write.
Handed(pad, bytes) ==
    \/ Current.t = "bytes" /\ pad = <<>> /\ bytes = Current.bytes
    \/ Current.t = "data" /\ pad = Padding /\ bytes = Current.bytes
    \/ /\ Current.t = "number" /\ pad = <<>>
       /\ bytes = ConstBytes(Current.reg, Current.val)
    \/ /\ Current.t = "const" /\ pad = <<>>
       /\ \E v \in Nat :
            /\ v =< UINTMAX
            /\ bytes = ConstBytes(Current.reg, v)
            /\ symbolePasse = 2 => Defined(Current.sym) /\ findSymbole(Current.sym).valeur = v

\* The line that is read is one of the text.
LEMMA CurrentLine ==
    ASSUME TypeInv, Reading
    PROVE  nligne \in 1..Len(source) /\ Current \in Lines
<1>1. nligne \in 1..Len(source)
  BY DEF TypeInv, Reading
<1> QED
  BY <1>1 DEF TypeInv, Current

\* A sequence of bytes is a sequence of integers.
LEMMA BytesAreInts ==
    ASSUME NEW s \in Seq(Octet)
    PROVE  s \in Seq(Int) /\ Len(s) \in Nat
<1> DEFINE n == Len(s)
<1>1. n \in Nat /\ DOMAIN s = 1..n /\ s = [i \in 1..n |-> s[i]]
  OBVIOUS
<1>2. ASSUME NEW i \in 1..n
      PROVE  s[i] \in Int
  <2>1. s[i] \in Octet
    OBVIOUS
  <2>2. \A x \in Octet : x \in Int
    BY DEF Octet
  <2> QED
    BY <2>1, <2>2
<1> HIDE DEF n
<1>3. s \in [1..n -> Int]
  BY <1>1, <1>2
<1>4. s \in Seq(Int)
  BY <1>1, <1>3
<1> QED
  BY <1>1, <1>4 DEF n

\* The length of three sequences one behind the other.
LEMMA ConcatThree ==
    ASSUME NEW S, NEW a \in Seq(S), NEW b \in Seq(S), NEW c \in Seq(S)
    PROVE  a \o b \o c \in Seq(S) /\ Len(a \o b \o c) = Len(a) + Len(b) + Len(c)
<1> DEFINE d == a \o b
<1>1. d \in Seq(S) /\ Len(d) = Len(a) + Len(b)
  BY ConcatProperties
<1> HIDE DEF d
<1>2. d \o c \in Seq(S) /\ Len(d \o c) = Len(d) + Len(c)
  BY <1>1, ConcatProperties
<1> QED
  BY <1>1, <1>2 DEF d

\* const takes four cells, or five from an odd cell on.
LEMMA ConstShape ==
    ASSUME ncellule \in Nat, NEW r \in Octet, NEW v \in Nat
    PROVE  /\ ConstBytes(r, v) \in Seq(Int)
           /\ Len(ConstBytes(r, v)) = IF Odd(ncellule) THEN 5 ELSE 4
           /\ v =< 65535 => ConstBytes(r, v) \in Seq(Octet)
<1> DEFINE a == <<53, r>>
           b == IF Odd(ncellule) THEN <<0>> ELSE <<>>
           c == codeValue(v)
<1>1. v \div 256 \in Int /\ v % 256 \in Octet /\ (v =< 65535 => v \div 256 \in Octet)
  BY DEF Octet
<1>2. /\ a \in Seq(Octet) /\ b \in Seq(Octet) /\ c \in Seq(Int)
      /\ v =< 65535 => c \in Seq(Octet)
      /\ Len(a) = 2 /\ Len(c) = 2 /\ Len(b) = IF Odd(ncellule) THEN 1 ELSE 0
  <2> DEFINE x == v \div 256
             y == v % 256
  <2>1. c = <<x, y>>
    BY DEF codeValue
  <2>2. x \in Int /\ y \in Octet /\ (v =< 65535 => x \in Octet)
    BY <1>1
  <2> HIDE DEF x, y, c
  <2>3. c \in Seq(Int) /\ Len(c) = 2 /\ (v =< 65535 => c \in Seq(Octet))
    BY <2>1, <2>2 DEF Octet
  <2>4. a \in Seq(Octet) /\ Len(a) = 2
    BY DEF Octet
  <2>5. b \in Seq(Octet) /\ Len(b) = IF Odd(ncellule) THEN 1 ELSE 0
    <3>1. <<>> \in Seq(Octet) /\ Len(<<>>) = 0 /\ <<0>> \in Seq(Octet) /\ Len(<<0>>) = 1
      BY DEF Octet
    <3> QED
      BY <3>1
  <2> QED
    BY <2>3, <2>4, <2>5
<1>3. ConstBytes(r, v) = a \o b \o c
  BY DEF ConstBytes
<1> HIDE DEF a, b, c
<1>4. a \in Seq(Int) /\ b \in Seq(Int)
  BY <1>2, BytesAreInts
<1>5. a \o b \o c \in Seq(Int) /\ Len(a \o b \o c) = Len(a) + Len(b) + Len(c)
  <2>1. c \in Seq(Int)
    BY <1>2
  <2> QED
    BY <1>4, <2>1, ConcatThree
<1>6. v =< 65535 => a \o b \o c \in Seq(Octet)
  BY <1>2, ConcatThree
<1> QED
  BY <1>2, <1>3, <1>5, <1>6

\* What a line writes has the size of the line; the padding is that of the data.
LEMMA WroteShape ==
    ASSUME TypeInv, Reading, NEW pad, NEW bytes, Handed(pad, bytes)
    PROVE  /\ pad \in Seq(Octet) /\ bytes \in Seq(Int)
           /\ Len(pad) \in Nat /\ Len(bytes) \in Nat
           /\ Len(pad) + Len(bytes) = LineSize(Current, ncellule)
           /\ Current.t \in Writing
           /\ Current.t # "data" => pad = <<>> /\ Len(pad) = 0
           /\ Current.t = "data" => Len(pad) = IF Odd(ncellule) THEN 1 ELSE 0
           /\ UINTMAX =< 65535 => bytes \in Seq(Octet)
<1>1. Current \in Lines /\ ncellule \in Nat
  BY CurrentLine DEF TypeInv
<1>2. /\ Padding \in Seq(Octet) /\ <<>> \in Seq(Octet) /\ Len(<<>>) = 0
      /\ Len(Padding) = IF Odd(ncellule) THEN 1 ELSE 0
  <2>1. <<>> \in Seq(Octet) /\ Len(<<>>) = 0 /\ <<0>> \in Seq(Octet) /\ Len(<<0>>) = 1
    BY DEF Octet
  <2> QED
    BY <2>1 DEF Padding
<1>3. ASSUME Current.t \in {"bytes", "data"}
      PROVE  Current.bytes \in Seq(Octet) /\ Current.bytes \in Seq(Int) /\ Len(Current.bytes) \in Nat
  <2> DEFINE b == Current.bytes
  <2>1. b \in Seq(Octet)
    BY <1>1, <1>3, LineFacts
  <2> HIDE DEF b
  <2>2. b \in Seq(Int) /\ Len(b) \in Nat
    BY <2>1, BytesAreInts
  <2> QED
    BY <2>1, <2>2 DEF b
<1>4. CASE Current.t = "bytes"
  <2>1. pad = <<>> /\ bytes = Current.bytes
    BY <1>4 DEF Handed
  <2>2. LineSize(Current, ncellule) = Len(Current.bytes)
    BY <1>4 DEF LineSize, Writing
  <2> QED
    BY <1>2, <1>3, <1>4, <2>1, <2>2 DEF Writing
<1>5. CASE Current.t = "data"
  <2>1. pad = Padding /\ bytes = Current.bytes
    BY <1>5 DEF Handed
  <2>2. LineSize(Current, ncellule) = (IF Odd(ncellule) THEN 1 ELSE 0) + Len(Current.bytes)
    BY <1>5 DEF LineSize, Writing
  <2>3. Len(pad) = IF Odd(ncellule) THEN 1 ELSE 0
    BY <1>2, <2>1
  <2>4. pad \in Seq(Octet) /\ bytes \in Seq(Octet) /\ bytes \in Seq(Int) /\ Len(bytes) \in Nat
    BY <1>2, <1>3, <1>5, <2>1
  <2>5. Len(pad) + Len(bytes) = LineSize(Current, ncellule)
    BY <2>1, <2>2, <2>3
  <2> QED
    BY <1>5, <2>3, <2>4, <2>5 DEF Writing
<1>6. CASE Current.t \in {"const", "number"}
  <2>1. PICK v \in Nat : bytes = ConstBytes(Current.reg, v) /\ v =< UINTMAX
    <3>1. UINTMAX \in Nat
      BY AsiproAssumption
    <3>2. Current.t = "number" => Current.val \in Nat /\ Current.val =< UINTMAX
      BY <1>1, <3>1, LineFacts
    <3> QED
      BY <1>6, <3>2 DEF Handed
  <2>2. Current.reg \in Octet /\ pad = <<>>
    BY <1>1, <1>6, LineFacts DEF Handed
  <2>3. UINTMAX \in Nat /\ (UINTMAX =< 65535 => v =< 65535)
    BY <2>1, AsiproAssumption
  <2>4. /\ bytes \in Seq(Int) /\ Len(bytes) = (IF Odd(ncellule) THEN 5 ELSE 4)
        /\ v =< 65535 => bytes \in Seq(Octet)
        /\ Len(bytes) \in Nat
    <3> DEFINE r == Current.reg
    <3>1. r \in Octet /\ bytes = ConstBytes(r, v)
      BY <2>1, <2>2
    <3> HIDE DEF r
    <3> QED
      BY <1>1, <3>1, ConstShape
  <2>5. LineSize(Current, ncellule) = IF Odd(ncellule) THEN 5 ELSE 4
    BY <1>6 DEF LineSize, Writing
  <2> QED
    BY <1>2, <1>6, <2>2, <2>3, <2>4, <2>5 DEF Writing, Handed
<1> QED
  BY <1>4, <1>5, <1>6 DEF Handed

\* The symbols outputBytes gives a cell to.
LEMMA ResolveShape ==
    ASSUME symboleTable \in Seq(Symbole), NEW c \in Nat
    PROVE  /\ Resolve(c) \in Seq(Symbole) /\ Len(Resolve(c)) = Len(symboleTable)
           /\ \A i \in 1..Len(symboleTable) :
                /\ Resolve(c)[i].nom = symboleTable[i].nom
                /\ Resolve(c)[i].valeur = IF Unresolved(i) THEN c ELSE symboleTable[i].valeur
<1> DEFINE n == Len(symboleTable)
<1>1. n \in Nat /\ DOMAIN symboleTable = 1..n
  OBVIOUS
<1>2. ASSUME NEW i \in 1..n
      PROVE  /\ Resolve(c)[i] \in Symbole
             /\ Resolve(c)[i].nom = symboleTable[i].nom
             /\ Resolve(c)[i].valeur = IF Unresolved(i) THEN c ELSE symboleTable[i].valeur
  <2>1. symboleTable[i] \in Symbole
    BY <1>2
  <2>2. Resolve(c)[i] = IF Unresolved(i) THEN [symboleTable[i] EXCEPT !.valeur = c]
                                         ELSE symboleTable[i]
    BY <1>1, <1>2 DEF Resolve
  <2> QED
    BY <2>1, <2>2 DEF Symbole
<1>3. DOMAIN Resolve(c) = 1..n
  BY <1>1 DEF Resolve
<1>4. Resolve(c) \in [1..n -> Symbole]
  <2>1. Resolve(c) = [i \in 1..n |-> Resolve(c)[i]]
    BY <1>1 DEF Resolve
  <2> HIDE DEF n
  <2> QED
    BY <1>2, <2>1
<1>5. Resolve(c) \in Seq(Symbole) /\ Len(Resolve(c)) = n
  <2> HIDE DEF n
  <2> QED
    BY <1>1, <1>3, <1>4
<1> QED
  BY <1>2, <1>5

\* A line takes a number of cells.
LEMMA SizeIsNat ==
    ASSUME NEW l \in Lines, NEW c \in Nat
    PROVE  LineSize(l, c) \in Nat
<1>1. l.t \in {"bytes", "data"} => Len(l.bytes) \in Nat
  BY LineFacts, BytesAreInts
<1>2. CASE l.t = "bytes"
  BY <1>1, <1>2 DEF LineSize, Writing
<1>3. CASE l.t = "data"
  <2> DEFINE e == IF Odd(c) THEN 1 ELSE 0
             n == Len(l.bytes)
  <2>1. LineSize(l, c) = e + n
    BY <1>3 DEF LineSize, Writing
  <2>2. e \in Nat /\ n \in Nat
    BY <1>1, <1>3
  <2> HIDE DEF e, n
  <2> QED
    BY <2>1, <2>2
<1>4. CASE l.t \in {"const", "number"}
  BY <1>4 DEF LineSize, Writing
<1>5. CASE l.t \notin Writing
  BY <1>5 DEF LineSize, Writing
<1> QED
  BY <1>2, <1>3, <1>4, <1>5 DEF Writing

-----------------------------------------------------------------------------
(* What a step does, seen from the layout and the table. *)

\* A line that writes.
Puts ==
    /\ Reading
    /\ \E pad \in Seq(Octet), bytes \in Seq(Int) :
         /\ Handed(pad, bytes)
         /\ Write(pad, bytes)

\* A label of the first pass.
Enters ==
    /\ Reading /\ Current.t = "label" /\ symbolePasse = 1 /\ ~Refused(Current.sym)
    /\ symboleTable' = Append(symboleTable, [nom |-> Current.sym,
                                            valeur |-> SYMBOLE_NOTDEFINED])
    /\ UNCHANGED <<ncellule, output>>
    /\ NextLine

\* A line that does nothing.
Quiet ==
    /\ Reading
    /\ Current.t = "skip" \/ (Current.t = "label" /\ symbolePasse = 2)
    /\ UNCHANGED <<ncellule, symboleTable, output>>
    /\ NextLine

\* The assembler returns, or nothing happens.
Stops ==
    UNCHANGED <<source, symbolePasse, nligne, ncellule, symboleTable, output, layout>>

\* The second pass begins.
Second ==
    /\ symbolePasse = 1
    /\ nligne > Len(source) \/ (nligne =< Len(source) /\ Current.t = "unknown")
    /\ symbolePasse' = 2 /\ nligne' = 1 /\ ncellule' = 0
    /\ UNCHANGED <<source, symboleTable, output, layout>>

\* There are no other steps.
LEMMA StepKinds ==
    ASSUME TypeInv, [Next]_vars
    PROVE  Puts \/ Enters \/ Quiet \/ Stops \/ Second
<1>1. ASSUME Reading, NEW pad, NEW bytes, Handed(pad, bytes), Write(pad, bytes)
      PROVE  Puts
  <2>1. pad \in Seq(Octet) /\ bytes \in Seq(Int)
    BY <1>1, WroteShape
  <2> QED
    BY <1>1, <2>1 DEF Puts
<1>2. CASE Data
  <2>1. Reading /\ Handed(Padding, Current.bytes) /\ Write(Padding, Current.bytes)
    BY <1>2 DEF Data, Handed
  <2> QED
    BY <1>1, <2>1
<1>3. CASE Instruction
  <2>1. Reading /\ Handed(<<>>, Current.bytes) /\ Write(<<>>, Current.bytes)
    BY <1>3 DEF Instruction, Handed
  <2> QED
    BY <1>1, <2>1
<1>4. CASE Number
  <2> DEFINE b == ConstBytes(Current.reg, Current.val)
  <2>1. Reading /\ Handed(<<>>, b) /\ Write(<<>>, b)
    BY <1>4 DEF Number, Handed
  <2> QED
    BY <1>1, <2>1
<1>5. CASE Const
  <2> DEFINE s == Current.sym
             known == Defined(s) /\ findSymbole(s).valeur # SYMBOLE_NOTDEFINED
             v == IF known THEN findSymbole(s).valeur ELSE 0
             b == ConstBytes(Current.reg, v)
  <2>1. Reading /\ Current.t = "const"
    BY <1>5 DEF Const
  <2>2. CASE ~known /\ symbolePasse = 2
    BY <1>5, <2>2 DEF Const, Fail, Stops
  <2>3. CASE (known \/ symbolePasse = 1) /\ v > UINTMAX
    BY <1>5, <2>3 DEF Const, Fail, Stops
  <2>4. CASE (known \/ symbolePasse = 1) /\ ~(v > UINTMAX)
    <3>1. Write(<<>>, b)
      BY <1>5, <2>4 DEF Const
    <3>2. v \in Nat
      <4>1. ASSUME Defined(s)
            PROVE  findSymbole(s) \in Symbole
        BY <4>1 DEF Defined, findSymbole, TypeInv
      <4> QED
        BY <4>1 DEF Symbole
    <3>3. v =< UINTMAX
      BY <2>4, <3>2, AsiproAssumption
    <3>4. symbolePasse = 2 => Defined(s) /\ findSymbole(s).valeur = v
      BY <2>4
    <3>5. Handed(<<>>, b)
      <4> HIDE DEF v
      <4> QED
        BY <2>1, <3>2, <3>3, <3>4 DEF Handed
    <3> QED
      BY <1>1, <2>1, <3>1, <3>5
  <2>5. symbolePasse \in {1, 2}
    BY DEF TypeInv
  <2> HIDE DEF known, v
  <2> QED
    BY <2>2, <2>3, <2>4, <2>5
<1>6. CASE Label
  <2>1. symbolePasse \in {1, 2}
    BY DEF TypeInv
  <2>2. CASE symbolePasse = 2
    BY <1>6, <2>2 DEF Label, Quiet
  <2>3. CASE symbolePasse = 1 /\ Refused(Current.sym)
    BY <1>6, <2>3 DEF Label, Fail, Stops
  <2>4. CASE symbolePasse = 1 /\ ~Refused(Current.sym)
    BY <1>6, <2>4 DEF Label, Enters
  <2> QED
    BY <2>1, <2>2, <2>3, <2>4
<1>7. CASE Skip
  BY <1>7 DEF Skip, Quiet
<1>8. CASE Wrong
  BY <1>8 DEF Wrong, Fail, Stops
<1>9. CASE Unknown \/ EndOfFile
  BY <1>9 DEF Unknown, EndOfFile, PassReturns, Reading, Second, Stops
<1>10. CASE Ended \/ UNCHANGED vars
  BY <1>10 DEF Ended, vars, Stops
<1> QED
  BY <1>2, <1>3, <1>4, <1>5, <1>6, <1>7, <1>8, <1>9, <1>10 DEF Next

-----------------------------------------------------------------------------
(* Where the lines stand. *)

\* The cells of the lines read in the first pass, one behind the other.
LinesLaid ==
    /\ Len(layout) >= 1 /\ layout[1] = 0
    /\ \A i \in 1..(Len(layout) - 1) :
         /\ i =< Len(source)
         /\ source[i].t \notin {"unknown", "wrong"}
         /\ layout[i + 1] = layout[i] + LineSize(source[i], layout[i])
    /\ \A i, j \in 1..Len(layout) : i =< j => layout[i] =< layout[j]

\* Where the first pass ended: behind the text, or in front of an unknown line.
FirstPassEnded ==
    \/ Len(layout) = Len(source) + 1
    \/ Len(layout) =< Len(source) /\ source[Len(layout)].t = "unknown"

LayoutInv ==
    /\ TypeInv
    /\ LinesLaid
    /\ symbolePasse = 1 =>
         Len(layout) = nligne /\ layout[nligne] = ncellule /\ output = <<>>
    /\ symbolePasse = 2 => PassesAgree /\ FirstPassEnded

\* Before the first line one cell is laid out, the cell 0.
LEMMA InitLayout ==
    ASSUME Init
    PROVE  LayoutInv
<1>1. source \in Seq(Lines)
  <2>1. PICK n \in 0..MaxLines : source \in [1..n -> Lines]
    BY DEF Init, StartOn
  <2>2. n \in Nat
    BY <2>1, AsiproAssumption
  <2> QED
    BY <2>1, <2>2
<1>2. layout = <<0>> /\ layout \in Seq(Nat) /\ Len(layout) = 1 /\ layout[1] = 0
  BY DEF Init, StartOn
<1>3. TypeInv
  BY <1>1, <1>2 DEF Init, StartOn, TypeInv
<1>4. LinesLaid
  BY <1>2 DEF LinesLaid
<1> QED
  BY <1>2, <1>3, <1>4 DEF Init, StartOn, LayoutInv

\* In the second pass a line that is not unknown was read in the first.
LEMMA SecondPassLine ==
    ASSUME LayoutInv, Reading, symbolePasse = 2, Current.t # "unknown"
    PROVE  /\ nligne \in 1..(Len(layout) - 1)
           /\ layout[nligne + 1] = ncellule + LineSize(Current, ncellule)
<1>1. nligne =< Len(layout) /\ ncellule = layout[nligne] /\ nligne \in 1..Len(source)
  BY CurrentLine DEF LayoutInv, PassesAgree
<1>2. nligne # Len(layout)
  BY <1>1 DEF LayoutInv, TypeInv, FirstPassEnded, Current
<1>3. nligne \in 1..(Len(layout) - 1)
  BY <1>1, <1>2 DEF LayoutInv, TypeInv
<1> QED
  BY <1>1, <1>3 DEF LayoutInv, LinesLaid, Current

\* A step to the next line, whatever the line is.
LEMMA NextLineKeepsLayout ==
    ASSUME LayoutInv, Reading, NextLine,
           Current.t \notin {"unknown", "wrong"},
           ncellule' = ncellule + LineSize(Current, ncellule),
           symboleTable' \in Seq(Symbole),
           output' \in Seq(Int),
           symbolePasse = 1 => output' = output,
           symbolePasse = 2 => Len(output') = Len(output) + LineSize(Current, ncellule)
    PROVE  LayoutInv'
<1> DEFINE d == LineSize(Current, ncellule)
<1>1. TypeInv /\ LinesLaid /\ nligne \in 1..Len(source) /\ Current \in Lines
  BY CurrentLine DEF LayoutInv
<1>2. d \in Nat
  BY <1>1, SizeIsNat DEF TypeInv
<1>3. source' = source /\ symbolePasse' = symbolePasse /\ nligne' = nligne + 1
  BY DEF NextLine
<1>4. ncellule' = ncellule + d /\ ncellule' \in Nat
  BY <1>1, <1>2 DEF TypeInv
<1> HIDE DEF d
<1>5. CASE symbolePasse = 1
  <2>1. layout' = Append(layout, ncellule')
    BY <1>5 DEF NextLine
  <2>2. Len(layout) = nligne /\ layout[nligne] = ncellule /\ output = <<>>
    BY <1>5 DEF LayoutInv
  <2>3. /\ layout' \in Seq(Nat) /\ Len(layout') = nligne + 1
        /\ layout'[nligne + 1] = ncellule'
        /\ \A i \in 1..nligne : layout'[i] = layout[i] /\ layout[i] \in Nat
    <3>1. layout \in Seq(Nat) /\ nligne \in Nat /\ nligne = Len(layout)
      BY <1>1, <2>2 DEF TypeInv
    <3> DEFINE l == layout
               x == ncellule'
    <3>2. l \in Seq(Nat) /\ x \in Nat /\ layout' = Append(l, x)
      BY <1>4, <2>1, <3>1
    <3> HIDE DEF l, x
    <3>3. /\ layout' \in Seq(Nat) /\ Len(layout') = Len(l) + 1
          /\ layout'[Len(l) + 1] = x
          /\ \A i \in 1..Len(l) : layout'[i] = l[i] /\ l[i] \in Nat
      BY <3>2
    <3> QED
      BY <3>1, <3>3 DEF l, x
  <2>4. TypeInv'
    BY <1>1, <1>3, <1>4, <2>3 DEF TypeInv
  <2>5. LinesLaid'
    <3>1. Len(layout') >= 1 /\ layout'[1] = 0
      <4>1. nligne >= 1 /\ nligne \in Nat /\ layout[1] = 0
        BY <1>1, <2>2 DEF LinesLaid, TypeInv
      <4>2. layout'[1] = layout[1] /\ Len(layout') = nligne + 1
        BY <2>3, <4>1
      <4> QED
        BY <4>1, <4>2
    <3>2. ASSUME NEW i \in 1..(Len(layout') - 1)
          PROVE  /\ i =< Len(source)
                 /\ source[i].t \notin {"unknown", "wrong"}
                 /\ layout'[i + 1] = layout'[i] + LineSize(source[i], layout'[i])
      <4>1. i \in 1..nligne
        BY <1>1, <2>3, <3>2
      <4>2. CASE i = nligne
        BY <1>1, <1>4, <2>2, <2>3, <4>1, <4>2 DEF Current, d
      <4>3. CASE i # nligne
        <5>1. i \in 1..(Len(layout) - 1) /\ i + 1 \in 1..nligne
          BY <1>1, <2>2, <4>1, <4>3
        <5> QED
          BY <1>1, <2>3, <4>1, <5>1 DEF LinesLaid
      <4> QED
        BY <4>2, <4>3
    <3>3. ASSUME NEW i \in 1..Len(layout'), NEW j \in 1..Len(layout'), i =< j
          PROVE  layout'[i] =< layout'[j]
      <4>1. \A k \in 1..nligne : layout[k] =< ncellule /\ layout[k] =< ncellule'
        <5>1. ASSUME NEW k \in 1..nligne
              PROVE  layout[k] =< ncellule /\ layout[k] =< ncellule'
          <6>1. layout[k] =< layout[nligne]
            BY <1>1, <2>2 DEF LinesLaid
          <6>2. layout[k] \in Nat /\ ncellule \in Nat
            BY <1>1, <2>3 DEF TypeInv
          <6> QED
            BY <1>2, <1>4, <2>2, <6>1, <6>2
        <5> QED
          BY <5>1
      <4>2. CASE j = nligne + 1
        <5>1. i \in 1..nligne \/ i = j
          BY <1>1, <2>3, <4>2
        <5> QED
          BY <1>4, <2>3, <4>1, <4>2, <5>1
      <4>3. CASE j # nligne + 1
        <5>1. i \in 1..nligne /\ j \in 1..nligne
          BY <1>1, <2>3, <3>3, <4>3
        <5> QED
          BY <1>1, <2>2, <2>3, <3>3, <5>1 DEF LinesLaid
      <4> QED
        BY <4>2, <4>3
    <3> QED
      BY <1>3, <3>1, <3>2, <3>3 DEF LinesLaid
  <2> QED
    BY <1>3, <1>5, <2>2, <2>3, <2>4, <2>5 DEF LayoutInv
<1>6. CASE symbolePasse = 2
  <2>1. layout' = layout
    BY <1>6 DEF NextLine
  <2>2. TypeInv'
    BY <1>1, <1>3, <1>4, <2>1 DEF TypeInv
  <2>3. LinesLaid'
    BY <1>1, <1>3, <2>1 DEF LinesLaid
  <2>4. nligne \in 1..(Len(layout) - 1) /\ layout[nligne + 1] = ncellule + d
    BY <1>6, SecondPassLine DEF d
  <2>5. PassesAgree'
    <3>1. Len(output') = ncellule'
      BY <1>4, <1>6 DEF LayoutInv, PassesAgree, d
    <3>2. nligne + 1 =< Len(layout)
      BY <1>1, <2>4 DEF TypeInv
    <3> QED
      BY <1>3, <1>4, <2>1, <2>4, <3>1, <3>2 DEF PassesAgree
  <2>6. FirstPassEnded'
    BY <1>3, <1>6, <2>1 DEF LayoutInv, FirstPassEnded
  <2> QED
    BY <1>3, <1>6, <2>2, <2>3, <2>5, <2>6 DEF LayoutInv
<1> QED
  BY <1>1, <1>5, <1>6 DEF TypeInv

\* The table and the file behind a line that writes.
LEMMA PutsShape ==
    ASSUME TypeInv, Reading, NEW pad, NEW bytes, Handed(pad, bytes), Write(pad, bytes)
    PROVE  /\ ncellule + Len(pad) \in Nat
           /\ symboleTable' = Resolve(ncellule + Len(pad))
           /\ symboleTable' \in Seq(Symbole)
           /\ ncellule' = ncellule + LineSize(Current, ncellule)
           /\ Current.t \in Writing
           /\ NextLine
           /\ symbolePasse = 1 => output' = output
           /\ symbolePasse = 2 => /\ output' = output \o pad \o bytes
                                 /\ Len(output') = Len(output) + LineSize(Current, ncellule)
           /\ output' \in Seq(Int)
<1>1. /\ pad \in Seq(Octet) /\ bytes \in Seq(Int)
      /\ Len(pad) \in Nat /\ Len(bytes) \in Nat
      /\ Len(pad) + Len(bytes) = LineSize(Current, ncellule)
      /\ Current.t \in Writing
  BY WroteShape
<1>2. pad \in Seq(Int) /\ output \in Seq(Int)
  BY <1>1, BytesAreInts DEF TypeInv
<1>3. /\ output \o pad \o bytes \in Seq(Int)
      /\ Len(output \o pad \o bytes) = Len(output) + Len(pad) + Len(bytes)
  <2>1. bytes \in Seq(Int)
    BY <1>1
  <2> QED
    BY <1>2, <2>1, ConcatThree
<1>4. Len(output) \in Nat /\ ncellule \in Nat
  BY DEF TypeInv
<1>5. ncellule + Len(pad) \in Nat
  BY <1>1, <1>4
<1>6. symboleTable' = Resolve(ncellule + Len(pad)) /\ symboleTable' \in Seq(Symbole)
  <2>1. symboleTable' = Resolve(ncellule + Len(pad)) /\ symboleTable \in Seq(Symbole)
    BY DEF Write, ResolveBehindPadding, TypeInv
  <2> QED
    BY <1>5, <2>1, ResolveShape
<1>7. ncellule' = ncellule + LineSize(Current, ncellule)
  BY <1>1, <1>4 DEF Write
<1>8. symbolePasse = 1 => output' = output
  BY DEF Write
<1>9. symbolePasse = 2 => /\ output' = output \o pad \o bytes
                          /\ Len(output') = Len(output) + LineSize(Current, ncellule)
  BY <1>1, <1>3, <1>4 DEF Write
<1>10. output' \in Seq(Int)
  BY <1>2, <1>3, <1>8, <1>9 DEF TypeInv
<1> QED
  BY <1>1, <1>5, <1>6, <1>7, <1>8, <1>9, <1>10 DEF Write

\* Every step keeps the layout.
LEMMA NextLayout ==
    ASSUME LayoutInv, [Next]_vars
    PROVE  LayoutInv'
<1>1. TypeInv /\ LinesLaid
  BY DEF LayoutInv
<1>2. CASE Puts
  <2>1. PICK pad \in Seq(Octet), bytes \in Seq(Int) : Handed(pad, bytes) /\ Write(pad, bytes)
    BY <1>2 DEF Puts
  <2>2. Reading
    BY <1>2 DEF Puts
  <2> QED
    BY <1>1, <2>1, <2>2, PutsShape, NextLineKeepsLayout DEF Writing
<1>3. CASE Enters
  <2>1. LineSize(Current, ncellule) = 0
    BY <1>3 DEF Enters, LineSize, Writing
  <2>2. symboleTable' \in Seq(Symbole)
    <3>1. Current.sym \in Symbols
      BY <1>1, <1>3, CurrentLine, LineFacts DEF Enters
    <3> QED
      BY <1>1, <1>3, <3>1 DEF Enters, TypeInv, Symbole
  <2>3. ncellule' = ncellule + 0 /\ output' = output /\ output \in Seq(Int)
    BY <1>1, <1>3 DEF Enters, TypeInv
  <2>4. Reading /\ NextLine /\ Current.t = "label" /\ symbolePasse = 1
    BY <1>3 DEF Enters
  <2> QED
    BY <2>1, <2>2, <2>3, <2>4, NextLineKeepsLayout
<1>4. CASE Quiet
  <2>1. LineSize(Current, ncellule) = 0
    BY <1>4 DEF Quiet, LineSize, Writing
  <2>2. symboleTable' \in Seq(Symbole)
    BY <1>1, <1>4 DEF Quiet, TypeInv
  <2>3. /\ ncellule' = ncellule + 0 /\ output' = output /\ output \in Seq(Int)
        /\ Len(output') = Len(output) + 0
    BY <1>1, <1>4 DEF Quiet, TypeInv
  <2>4. Reading /\ NextLine /\ Current.t \in {"label", "skip"}
    BY <1>4 DEF Quiet
  <2> QED
    BY <2>1, <2>2, <2>3, <2>4, NextLineKeepsLayout
<1>5. CASE Stops
  BY <1>5 DEF Stops, LayoutInv, TypeInv, LinesLaid, PassesAgree, FirstPassEnded
<1>6. CASE Second
  <2>1. TypeInv' /\ LinesLaid'
    BY <1>1, <1>6 DEF Second, TypeInv, LinesLaid
  <2>2. Len(layout) = nligne /\ output = <<>>
    BY <1>6 DEF Second, LayoutInv
  <2>3. FirstPassEnded
    <3>1. CASE nligne > Len(source)
      <4>1. nligne - 1 =< Len(source)
        <5>1. nligne = 1 \/ nligne - 1 \in 1..(Len(layout) - 1)
          BY <1>1, <2>2 DEF TypeInv
        <5>2. nligne \in Nat /\ Len(source) \in Nat
          BY <1>1 DEF TypeInv
        <5>3. \A i \in 1..(Len(layout) - 1) : i =< Len(source)
          BY <1>1 DEF LinesLaid
        <5> QED
          BY <5>1, <5>2, <5>3
      <4> QED
        BY <1>1, <2>2, <3>1, <4>1 DEF FirstPassEnded, TypeInv
    <3>2. CASE nligne =< Len(source) /\ Current.t = "unknown"
      BY <2>2, <3>2 DEF FirstPassEnded, Current
    <3> QED
      BY <1>6, <3>1, <3>2 DEF Second
  <2>4. PassesAgree'
    BY <1>1, <1>6, <2>2 DEF Second, PassesAgree, LinesLaid, TypeInv
  <2> QED
    BY <1>6, <2>1, <2>3, <2>4 DEF Second, LayoutInv, FirstPassEnded
<1> QED
  BY <1>1, <1>2, <1>3, <1>4, <1>5, <1>6, StepKinds

\* LayoutInv holds in every state.
THEOREM LayoutInvariant == Spec => []LayoutInv
<1>1. Init => LayoutInv
  BY InitLayout
<1>2. LayoutInv /\ [Next]_vars => LayoutInv'
  BY NextLayout
<1> QED
  BY <1>1, <1>2, PTL DEF Spec

\* The second pass puts every line where the first pass counted it.
THEOREM PassesAgreeAlways == Spec => []PassesAgree
<1>1. LayoutInv => PassesAgree
  BY DEF LayoutInv, PassesAgree
<1> QED
  BY <1>1, LayoutInvariant, PTL

\* The bytes of the file and how assemblage returned: TypeInv leaves them open.
BytesInv == output \in Seq(Octet) /\ status \in Statuses

\* assemblage returns in one of the ways of Statuses.
LEMMA StatusKept ==
    ASSUME status \in Statuses, [Next]_vars
    PROVE  status' \in Statuses
<1>1. CASE NextLine
  BY <1>1 DEF NextLine
<1>2. CASE Fail
  BY <1>2 DEF Fail, Statuses
<1>3. CASE PassReturns
  BY <1>3 DEF PassReturns, Statuses
<1>4. CASE Const
  <2>1. NextLine \/ Fail \/ status' = "crashed"
    BY <1>4, Zenon DEF Const, Write
  <2> QED
    BY <1>1, <1>2, <2>1 DEF Statuses
<1> QED
  BY <1>1, <1>2, <1>3, <1>4
     DEF Next, vars, Data, Instruction, Number, Write, Label, Skip, Wrong, Unknown,
         EndOfFile, Ended

\* Every field has its type as long as a word has at most 16 bits.
THEOREM TypesAreKept ==
    ASSUME UINTMAX =< 65535
    PROVE  Spec => []TypeOK
<1>1. Init => BytesInv
  BY DEF Init, StartOn, BytesInv, Statuses
<1>2. LayoutInv /\ BytesInv /\ [Next]_vars => BytesInv'
  <2> SUFFICES ASSUME LayoutInv, BytesInv, [Next]_vars
               PROVE  BytesInv'
    OBVIOUS
  <2>1. status' \in Statuses
    BY StatusKept DEF BytesInv
  <2>2. TypeInv
    BY DEF LayoutInv
  <2>3. CASE Puts
    <3>1. PICK pad \in Seq(Octet), bytes \in Seq(Int) : Handed(pad, bytes) /\ Write(pad, bytes)
      BY <2>3 DEF Puts
    <3>2. Reading /\ output \in Seq(Octet)
      BY <2>3 DEF Puts, BytesInv
    <3>3. bytes \in Seq(Octet)
      BY <2>2, <3>1, <3>2, WroteShape
    <3>4. output \o pad \o bytes \in Seq(Octet)
      BY <3>2, <3>3, ConcatThree
    <3>5. output' \in Seq(Octet)
      BY <3>1, <3>2, <3>4 DEF Write
    <3> QED
      BY <2>1, <3>5 DEF BytesInv
  <2>4. CASE Enters \/ Quiet \/ Stops \/ Second
    BY <2>1, <2>4 DEF BytesInv, Enters, Quiet, Stops, Second
  <2> QED
    BY <2>2, <2>3, <2>4, StepKinds
<1>3. LayoutInv /\ BytesInv => TypeOK
  BY DEF LayoutInv, TypeInv, BytesInv, TypeOK
<1> QED
  BY <1>1, <1>2, <1>3, LayoutInvariant, PTL DEF Spec

-----------------------------------------------------------------------------
(* The values of the labels. *)

\* Line j is the first behind line i that writes, of the lines read so far.
FirstBehind(i, j) ==
    /\ j \in LinesRead /\ j > i /\ Writes(j)
    /\ \A k \in LinesRead : k > i /\ Writes(k) => j =< k

\* Entry e stands for the label of line i.
StandsFor(e, i) == source[i].t = "label" /\ source[i].sym = symboleTable[e].nom

TableInv ==
    /\ LayoutInv
    /\ UnresolvedLast
    \* Entries and labels read belong together.
    /\ \A i \in LinesRead :
         source[i].t = "label" => \E e \in DOMAIN symboleTable : StandsFor(e, i)
    /\ \A e \in DOMAIN symboleTable : \E i \in LinesRead : StandsFor(e, i)
    \* Where a line writes behind line i, there is a first one.
    /\ \A i, k \in LinesRead : k > i /\ Writes(k) => \E j \in LinesRead : FirstBehind(i, j)
    \* A label has the value of the first line behind it that writes.
    /\ \A e \in DOMAIN symboleTable, i \in LinesRead : StandsFor(e, i) =>
         /\ \A j \in LinesRead : FirstBehind(i, j) => symboleTable[e].valeur = Start(j)
         /\ symbolePasse = 1 /\ symboleTable[e].valeur # SYMBOLE_NOTDEFINED =>
              \E j \in LinesRead : FirstBehind(i, j)

\* Addresses are cells, never the mark of a symbol without a value.
LEMMA StartIsNat ==
    ASSUME LayoutInv, NEW j \in 1..Len(layout)
    PROVE  Start(j) \in Nat /\ Start(j) # SYMBOLE_NOTDEFINED
<1>1. layout[j] \in Nat
  BY DEF LayoutInv, TypeInv
<1>2. Start(j) \in Nat
  BY <1>1 DEF Start
<1> QED
  BY <1>2 DEF SYMBOLE_NOTDEFINED

\* outputBytes gives the value to the symbols that have none, and to no other.
LEMMA ResolvesTheUnresolved ==
    ASSUME TypeInv, UnresolvedLast, NEW e \in DOMAIN symboleTable, NEW c \in Nat
    PROVE  Resolve(c)[e].valeur =
             IF symboleTable[e].valeur = SYMBOLE_NOTDEFINED THEN c
             ELSE symboleTable[e].valeur
<1>1. symboleTable \in Seq(Symbole) /\ e \in 1..Len(symboleTable)
  BY DEF TypeInv
<1>2. CASE symboleTable[e].valeur = SYMBOLE_NOTDEFINED
  <2>1. ASSUME NEW f \in e..Len(symboleTable)
        PROVE  symboleTable[f].valeur = SYMBOLE_NOTDEFINED
    BY <1>1, <1>2 DEF UnresolvedLast
  <2>2. Unresolved(e)
    BY <2>1 DEF Unresolved
  <2> QED
    BY <1>1, <1>2, <2>2, ResolveShape
<1>3. CASE symboleTable[e].valeur # SYMBOLE_NOTDEFINED
  <2>1. ~Unresolved(e)
    BY <1>1, <1>3 DEF Unresolved
  <2> QED
    BY <1>1, <1>3, <2>1, ResolveShape
<1> QED
  BY <1>2, <1>3

\* No line read, no symbol.
LEMMA InitTable ==
    ASSUME Init
    PROVE  TableInv
<1>1. LayoutInv
  BY InitLayout
<1>2. symboleTable = <<>> /\ DOMAIN symboleTable = {} /\ LinesRead = {}
  BY DEF Init, StartOn, LinesRead
<1> QED
  BY <1>1, <1>2 DEF TableInv, UnresolvedLast

\* A step that reads no line of the first pass and keeps the values it must.
LEMMA SameLinesKeepTable ==
    ASSUME TableInv, LayoutInv', source' = source, layout' = layout,
           Len(symboleTable') = Len(symboleTable),
           symbolePasse' = 2 \/ symbolePasse' = symbolePasse,
           symboleTable' = symboleTable \/ symbolePasse' = 2,
           \A e \in DOMAIN symboleTable :
             /\ symboleTable'[e].nom = symboleTable[e].nom
             /\ symboleTable[e].valeur # SYMBOLE_NOTDEFINED =>
                  symboleTable'[e].valeur = symboleTable[e].valeur
             /\ symboleTable'[e].valeur = SYMBOLE_NOTDEFINED =>
                  symboleTable' = symboleTable
    PROVE  TableInv'
<1>1. /\ LinesRead' = LinesRead
      /\ \A i, j : FirstBehind(i, j)' <=> FirstBehind(i, j)
      /\ \A j : Start(j)' = Start(j)
  BY DEF LinesRead, FirstBehind, Writes, Start
<1>2. DOMAIN symboleTable' = DOMAIN symboleTable
  BY DEF TableInv, LayoutInv, TypeInv
<1>3. \A e \in DOMAIN symboleTable : \A i : StandsFor(e, i)' <=> StandsFor(e, i)
  BY DEF StandsFor
<1>4. UnresolvedLast'
  BY <1>2 DEF TableInv, UnresolvedLast
<1>5. ASSUME NEW e \in DOMAIN symboleTable, NEW i \in LinesRead, StandsFor(e, i)
      PROVE  /\ \A j \in LinesRead : FirstBehind(i, j) => symboleTable'[e].valeur = Start(j)
             /\ symbolePasse' = 1 /\ symboleTable'[e].valeur # SYMBOLE_NOTDEFINED =>
                  \E j \in LinesRead : FirstBehind(i, j)
  <2>1. ASSUME NEW j \in LinesRead, FirstBehind(i, j)
        PROVE  symboleTable'[e].valeur = Start(j)
    <3>1. symboleTable[e].valeur = Start(j)
      BY <1>5, <2>1 DEF TableInv
    <3>2. Start(j) # SYMBOLE_NOTDEFINED
      BY <2>1, StartIsNat DEF LinesRead, TableInv, LayoutInv, TypeInv
    <3> QED
      BY <3>1, <3>2
  <2>2. symbolePasse' = 1 => symboleTable' = symboleTable /\ symbolePasse = 1
    OBVIOUS
  <2> QED
    BY <1>5, <2>1, <2>2 DEF TableInv
<1>6. \A i \in LinesRead :
        source[i].t = "label" => \E e \in DOMAIN symboleTable : StandsFor(e, i)
  BY DEF TableInv
<1>7. \A e \in DOMAIN symboleTable : \E i \in LinesRead : StandsFor(e, i)
  BY DEF TableInv
<1>8. \A i, k \in LinesRead : k > i /\ Writes(k) => \E j \in LinesRead : FirstBehind(i, j)
  BY DEF TableInv
<1>9. \A k : Writes(k)' <=> Writes(k)
  BY DEF Writes
<1>10. /\ \A i \in LinesRead :
            source[i].t = "label" => \E e \in DOMAIN symboleTable : StandsFor(e, i)'
       /\ \A e \in DOMAIN symboleTable : \E i \in LinesRead : StandsFor(e, i)'
       /\ \A i, k \in LinesRead : k > i /\ Writes(k)' =>
            \E j \in LinesRead : FirstBehind(i, j)'
  BY <1>1, <1>3, <1>6, <1>7, <1>8, <1>9
<1>11. \A e \in DOMAIN symboleTable, i \in LinesRead : StandsFor(e, i)' =>
         /\ \A j \in LinesRead : FirstBehind(i, j)' => symboleTable'[e].valeur = Start(j)'
         /\ symbolePasse' = 1 /\ symboleTable'[e].valeur # SYMBOLE_NOTDEFINED =>
              \E j \in LinesRead : FirstBehind(i, j)'
  BY <1>1, <1>3, <1>5
<1> HIDE DEF LinesRead, FirstBehind, StandsFor, Writes, Start
<1> QED
  BY <1>1, <1>2, <1>4, <1>10, <1>11 DEF TableInv

\* A line of the first pass is read: the lines in front of it stay as they are.
LEMMA OneLineMore ==
    ASSUME LayoutInv, Reading, NextLine, symbolePasse = 1
    PROVE  /\ nligne \in Nat /\ LinesRead = 1..(nligne - 1) /\ LinesRead' = 1..nligne
           /\ source' = source /\ symbolePasse' = 1
           /\ \A i \in 1..nligne : Writes(i)' <=> Writes(i)
           /\ \A i \in 1..nligne : Start(i)' = Start(i)
           /\ layout[nligne] = ncellule
<1>1. /\ source' = source /\ symbolePasse' = 1 /\ layout' = Append(layout, ncellule')
      /\ layout \in Seq(Nat) /\ Len(layout) = nligne /\ nligne \in Nat
      /\ layout[nligne] = ncellule
  BY DEF NextLine, LayoutInv, TypeInv
<1>2. Len(layout') = nligne + 1 /\ \A i \in 1..nligne : layout'[i] = layout[i]
  BY <1>1
<1> QED
  BY <1>1, <1>2 DEF LinesRead, Writes, Start

\* A line that writes gives the labels in front of it their value.
LEMMA PutsInFirstPass ==
    ASSUME TableInv, LayoutInv', Reading, NextLine, symbolePasse = 1, Writes(nligne),
           symboleTable' = Resolve(Start(nligne))
    PROVE  TableInv'
<1> SUFFICES ASSUME NEW n \in Nat \ {0}, n = nligne
             PROVE  TableInv'
  BY DEF TableInv, LayoutInv, TypeInv
<1> DEFINE T == symboleTable
           c == Start(n)
<1>1. /\ LayoutInv /\ TypeInv /\ T \in Seq(Symbole) /\ Writes(n) /\ T' = Resolve(c)
      /\ LinesRead = 1..(n - 1) /\ LinesRead' = 1..n
      /\ source' = source /\ symbolePasse' = 1
      /\ \A i \in 1..n : Writes(i)' <=> Writes(i)
      /\ \A i \in 1..n : Start(i)' = Start(i)
  BY OneLineMore DEF TableInv, LayoutInv, TypeInv
<1>2. c \in Nat /\ c # SYMBOLE_NOTDEFINED
  BY <1>1, StartIsNat DEF LayoutInv
<1>3. DOMAIN T' = DOMAIN T
  BY <1>2, ResolveShape, <1>1
<1>4. \A e \in DOMAIN T :
        /\ T'[e].nom = T[e].nom
        /\ T'[e].valeur = IF T[e].valeur = SYMBOLE_NOTDEFINED THEN c ELSE T[e].valeur
  <2>1. ASSUME NEW e \in DOMAIN T
        PROVE  T'[e].nom = T[e].nom
    <3>1. e \in 1..Len(symboleTable)
      BY <1>1
    <3> QED
      BY <1>1, <1>2, <3>1, ResolveShape
  <2>2. ASSUME NEW e \in DOMAIN T
        PROVE  T'[e].valeur = IF T[e].valeur = SYMBOLE_NOTDEFINED THEN c ELSE T[e].valeur
    BY <1>1, <1>2, ResolvesTheUnresolved DEF TableInv
  <2> QED
    BY <2>1, <2>2
<1>5. \A e \in DOMAIN T : \A i : StandsFor(e, i)' <=> StandsFor(e, i)
  BY <1>1, <1>4 DEF StandsFor
<1>6. source[n].t # "label"
  BY <1>1 DEF Writes
<1> HIDE DEF c
\* The first line behind line i: the one there was, or this line.
<1>7. \A i, j \in 1..(n - 1) : FirstBehind(i, j) => FirstBehind(i, j)'
  BY <1>1 DEF FirstBehind
<1>8. ASSUME NEW i \in 1..(n - 1), \A k \in 1..(n - 1) : ~(k > i /\ Writes(k))
      PROVE  FirstBehind(i, n)'
  BY <1>1, <1>8 DEF FirstBehind
<1>9. ASSUME NEW i \in 1..n, NEW j \in 1..n, FirstBehind(i, j)'
      PROVE  \/ i \in 1..(n - 1) /\ j \in 1..(n - 1) /\ FirstBehind(i, j)
             \/ /\ i \in 1..(n - 1) /\ j = n
                /\ \A k \in 1..(n - 1) : ~(k > i /\ Writes(k))
  <2>1. i < j /\ i \in 1..(n - 1) /\ \A k \in 1..n : k > i /\ Writes(k) => j =< k
    BY <1>1, <1>9 DEF FirstBehind
  <2>2. CASE j = n
    BY <1>1, <2>1, <2>2
  <2>3. CASE j # n
    BY <1>1, <1>9, <2>1, <2>3 DEF FirstBehind
  <2> QED
    BY <2>2, <2>3
<1>10. UnresolvedLast'
  BY <1>2, <1>3, <1>4 DEF TableInv, UnresolvedLast
<1>11. \A i \in 1..n : source[i].t = "label" => \E e \in DOMAIN T : StandsFor(e, i)'
  <2>1. \A i \in 1..(n - 1) : source[i].t = "label" => \E e \in DOMAIN T : StandsFor(e, i)
    BY <1>1 DEF TableInv
  <2> QED
    BY <1>1, <1>5, <1>6, <2>1
<1>12. \A e \in DOMAIN T : \E i \in 1..n : StandsFor(e, i)'
  <2>1. \A e \in DOMAIN T : \E i \in 1..(n - 1) : StandsFor(e, i)
    BY <1>1 DEF TableInv
  <2> QED
    BY <1>1, <1>5, <2>1
<1>13. ASSUME NEW i \in 1..n, NEW k \in 1..n, k > i, Writes(k)'
       PROVE  \E j \in 1..n : FirstBehind(i, j)'
  <2>1. i \in 1..(n - 1)
    BY <1>1, <1>13
  <2>2. CASE \E m \in 1..(n - 1) : m > i /\ Writes(m)
    <3>1. PICK j \in 1..(n - 1) : FirstBehind(i, j)
      BY <1>1, <2>1, <2>2 DEF TableInv
    <3> QED
      BY <1>1, <1>7, <2>1, <3>1
  <2>3. CASE ~(\E m \in 1..(n - 1) : m > i /\ Writes(m))
    BY <1>1, <1>8, <2>1, <2>3
  <2> QED
    BY <2>2, <2>3
<1>14. ASSUME NEW e \in DOMAIN T, NEW i \in 1..n, StandsFor(e, i)'
       PROVE  /\ \A j \in 1..n : FirstBehind(i, j)' => T'[e].valeur = Start(j)'
              /\ \E j \in 1..n : FirstBehind(i, j)'
  <2>1. StandsFor(e, i) /\ i \in 1..(n - 1)
    BY <1>1, <1>5, <1>6, <1>14 DEF StandsFor
  <2>2. ASSUME NEW j \in 1..n, FirstBehind(i, j)'
        PROVE  T'[e].valeur = Start(j)'
    <3>1. CASE j \in 1..(n - 1) /\ FirstBehind(i, j)
      <4>1. T[e].valeur = Start(j)
        BY <1>1, <2>1, <3>1 DEF TableInv
      <4>2. Start(j) # SYMBOLE_NOTDEFINED
        BY <1>1, <3>1, StartIsNat DEF LayoutInv
      <4> QED
        BY <1>1, <1>4, <2>2, <4>1, <4>2
    <3>2. CASE j = n /\ \A k \in 1..(n - 1) : ~(k > i /\ Writes(k))
      <4>1. T[e].valeur = SYMBOLE_NOTDEFINED
        <5>1. ~(\E m \in 1..(n - 1) : FirstBehind(i, m))
          BY <3>2 DEF FirstBehind
        <5> QED
          BY <1>1, <2>1, <5>1 DEF TableInv
      <4>2. T'[e].valeur = c
        BY <1>4, <4>1
      <4> QED
        BY <1>1, <2>2, <3>2, <4>2 DEF c
    <3> QED
      BY <1>9, <2>2, <3>1, <3>2
  <2>3. \E j \in 1..n : FirstBehind(i, j)'
    <3>1. n > i /\ n \in 1..n /\ Writes(n)'
      BY <1>1, <2>1
    <3> QED
      BY <1>13, <3>1
  <2> QED
    BY <2>2, <2>3
<1> QED
  BY <1>1, <1>3, <1>10, <1>11, <1>12, <1>13, <1>14 DEF TableInv

\* A line that writes nothing is the first behind no line.
LEMMA QuietLineMore ==
    ASSUME LayoutInv, Reading, NextLine, symbolePasse = 1, ~Writes(nligne),
           NEW n, n = nligne
    PROVE  /\ \A i, k \in 1..n : k > i /\ Writes(k)' =>
                i \in 1..(n - 1) /\ k \in 1..(n - 1) /\ Writes(k)
           /\ \A i, j \in 1..n : FirstBehind(i, j)' =>
                i \in 1..(n - 1) /\ j \in 1..(n - 1) /\ FirstBehind(i, j)
           /\ \A i, j \in 1..(n - 1) : FirstBehind(i, j) => FirstBehind(i, j)'
<1>1. /\ n \in Nat /\ LinesRead = 1..(n - 1) /\ LinesRead' = 1..n
      /\ \A i \in 1..n : Writes(i)' <=> Writes(i)
      /\ ~Writes(n)
  BY OneLineMore
<1>2. \A i, k \in 1..n : k > i /\ Writes(k)' =>
        i \in 1..(n - 1) /\ k \in 1..(n - 1) /\ Writes(k)
  <2>1. ASSUME NEW i \in 1..n, NEW k \in 1..n, k > i, Writes(k)'
        PROVE  i \in 1..(n - 1) /\ k \in 1..(n - 1) /\ Writes(k)
    <3>1. Writes(k) /\ k # n
      BY <1>1, <2>1
    <3> QED
      BY <1>1, <2>1, <3>1
  <2> QED
    BY <2>1
<1>3. ASSUME NEW i \in 1..n, NEW j \in 1..n, FirstBehind(i, j)'
      PROVE  i \in 1..(n - 1) /\ j \in 1..(n - 1) /\ FirstBehind(i, j)
  <2>1. j > i /\ Writes(j)' /\ \A k \in 1..n : k > i /\ Writes(k)' => j =< k
    BY <1>1, <1>3 DEF FirstBehind
  <2>2. i \in 1..(n - 1) /\ j \in 1..(n - 1) /\ Writes(j)
    BY <1>2, <2>1
  <2>3. ASSUME NEW k \in 1..(n - 1), k > i, Writes(k)
        PROVE  j =< k
    <3>1. k \in 1..n
      BY <1>1
    <3> QED
      BY <1>1, <2>1, <2>3, <3>1
  <2> QED
    BY <1>1, <2>1, <2>2, <2>3 DEF FirstBehind
<1>4. ASSUME NEW i \in 1..(n - 1), NEW j \in 1..(n - 1), FirstBehind(i, j)
      PROVE  FirstBehind(i, j)'
  <2>1. j > i /\ Writes(j) /\ \A k \in 1..(n - 1) : k > i /\ Writes(k) => j =< k
    BY <1>1, <1>4 DEF FirstBehind
  <2>2. j \in 1..n /\ i \in 1..n /\ Writes(j)'
    BY <1>1, <2>1
  <2>3. ASSUME NEW k \in 1..n, k > i, Writes(k)'
        PROVE  j =< k
    BY <1>2, <2>1, <2>2, <2>3
  <2> QED
    BY <1>1, <2>1, <2>2, <2>3 DEF FirstBehind
<1> QED
  BY <1>2, <1>3, <1>4

\* A label of the first pass becomes the last entry and has no value.
LEMMA EntersKeepsTable ==
    ASSUME TableInv, LayoutInv', Enters
    PROVE  TableInv'
<1> SUFFICES ASSUME NEW n \in Nat \ {0}, n = nligne,
                    NEW m \in Nat \ {0}, m = Len(symboleTable) + 1
             PROVE  TableInv'
  BY DEF TableInv, LayoutInv, TypeInv
<1> DEFINE T == symboleTable
           s == Current.sym
<1>1. /\ LayoutInv /\ TypeInv /\ T \in Seq(Symbole) /\ Reading /\ NextLine
      /\ symbolePasse = 1 /\ source[n].t = "label" /\ source[n].sym = s
      /\ ~Defined(s) /\ s \in Symbols
      /\ T' = Append(T, [nom |-> s, valeur |-> SYMBOLE_NOTDEFINED])
  BY CurrentLine, LineFacts DEF TableInv, LayoutInv, Enters, Refused, Current, TypeInv
<1>2. /\ LinesRead = 1..(n - 1) /\ LinesRead' = 1..n
      /\ source' = source /\ symbolePasse' = 1
      /\ \A i \in 1..n : Start(i)' = Start(i)
  BY <1>1, OneLineMore
<1>3. ~Writes(n)
  BY <1>1 DEF Writes
<1>4. /\ \A i, k \in 1..n : k > i /\ Writes(k)' =>
           i \in 1..(n - 1) /\ k \in 1..(n - 1) /\ Writes(k)
      /\ \A i, j \in 1..n : FirstBehind(i, j)' =>
           i \in 1..(n - 1) /\ j \in 1..(n - 1) /\ FirstBehind(i, j)
      /\ \A i, j \in 1..(n - 1) : FirstBehind(i, j) => FirstBehind(i, j)'
  BY <1>1, <1>3, QuietLineMore
<1>5. /\ DOMAIN T = 1..(m - 1) /\ DOMAIN T' = 1..m
      /\ \A e \in 1..(m - 1) : T'[e] = T[e]
      /\ T'[m].nom = s /\ T'[m].valeur = SYMBOLE_NOTDEFINED
  <2>1. Len(T) \in Nat /\ DOMAIN T = 1..Len(T)
    BY <1>1
  <2> DEFINE x == [nom |-> s, valeur |-> SYMBOLE_NOTDEFINED]
  <2>2. x.nom = s /\ x.valeur = SYMBOLE_NOTDEFINED /\ x \in Symbole
    BY <1>1 DEF Symbole
  <2> HIDE DEF x
  <2>3. T' = Append(T, x)
    BY <1>1 DEF x
  <2> QED
    BY <1>1, <2>1, <2>2, <2>3
<1> HIDE DEF s
<1>6. \A e \in 1..(m - 1) : \A i : StandsFor(e, i)' <=> StandsFor(e, i)
  BY <1>2, <1>5 DEF StandsFor
<1>7. \A e \in 1..(m - 1) : T[e].nom # s
  BY <1>1, <1>5 DEF Defined
<1>8. \A i \in 1..(n - 1) : source[i].t = "label" => source[i].sym # s
  <2>1. ASSUME NEW i \in 1..(n - 1), source[i].t = "label"
        PROVE  \E e \in 1..(m - 1) : T[e].nom = source[i].sym
    BY <1>2, <1>5, <2>1 DEF TableInv, StandsFor
  <2> QED
    BY <1>7, <2>1
<1>9. ASSUME NEW e \in 1..m, NEW i \in 1..n
      PROVE  StandsFor(e, i)' <=>
               \/ e \in 1..(m - 1) /\ i \in 1..(n - 1) /\ StandsFor(e, i)
               \/ e = m /\ i = n
  <2>1. CASE e \in 1..(m - 1) /\ i \in 1..(n - 1)
    <3>1. e # m
      BY <2>1
    <3> QED
      BY <1>6, <2>1, <3>1
  <2>2. CASE e = m /\ i \in 1..(n - 1)
    BY <1>2, <1>5, <1>8, <2>2 DEF StandsFor
  <2>3. CASE e \in 1..(m - 1) /\ i = n
    BY <1>1, <1>2, <1>5, <1>7, <2>3 DEF StandsFor
  <2>4. CASE e = m /\ i = n
    BY <1>1, <1>2, <1>5, <2>4 DEF StandsFor
  <2> QED
    BY <2>1, <2>2, <2>3, <2>4
<1>10. UnresolvedLast'
  <2>1. ASSUME NEW i \in 1..m, NEW j \in 1..m, i < j
        PROVE  /\ T'[i].nom # T'[j].nom
               /\ T'[i].valeur = SYMBOLE_NOTDEFINED => T'[j].valeur = SYMBOLE_NOTDEFINED
    <3>1. i \in 1..(m - 1)
      BY <2>1
    <3>2. CASE j = m
      BY <1>5, <1>7, <3>1, <3>2
    <3>3. CASE j \in 1..(m - 1)
      BY <1>5, <2>1, <3>1, <3>3 DEF TableInv, UnresolvedLast
    <3> QED
      BY <3>2, <3>3
  <2> QED
    BY <1>5, <2>1 DEF UnresolvedLast
<1>11. \A i \in 1..n : source[i].t = "label" => \E e \in 1..m : StandsFor(e, i)'
  <2>1. ASSUME NEW i \in 1..(n - 1), source[i].t = "label"
        PROVE  \E e \in 1..(m - 1) : StandsFor(e, i)
    BY <1>2, <1>5, <2>1 DEF TableInv
  <2>2. m \in 1..m /\ n \in 1..n /\ StandsFor(m, n)'
    BY <1>9
  <2>3. ASSUME NEW i \in 1..n, source[i].t = "label"
        PROVE  \E e \in 1..m : StandsFor(e, i)'
    <3>1. CASE i = n
      BY <2>2, <3>1
    <3>2. CASE i \in 1..(n - 1)
      <4>1. PICK e \in 1..(m - 1) : StandsFor(e, i)
        BY <2>1, <2>3, <3>2
      <4>2. e \in 1..m
        OBVIOUS
      <4> QED
        BY <1>9, <3>2, <4>1, <4>2
    <3> QED
      BY <3>1, <3>2
  <2> QED
    BY <2>3
<1>12. \A e \in 1..m : \E i \in 1..n : StandsFor(e, i)'
  <2>1. ASSUME NEW e \in 1..(m - 1)
        PROVE  \E i \in 1..(n - 1) : StandsFor(e, i)
    BY <1>2, <1>5, <2>1 DEF TableInv
  <2>2. m \in 1..m /\ n \in 1..n /\ StandsFor(m, n)'
    BY <1>9
  <2>3. ASSUME NEW e \in 1..m
        PROVE  \E i \in 1..n : StandsFor(e, i)'
    <3>1. CASE e = m
      BY <2>2, <3>1
    <3>2. CASE e \in 1..(m - 1)
      <4>1. PICK i \in 1..(n - 1) : StandsFor(e, i)
        BY <2>1, <3>2
      <4>2. i \in 1..n
        OBVIOUS
      <4> QED
        BY <1>9, <3>2, <4>1, <4>2
    <3> QED
      BY <3>1, <3>2
  <2> QED
    BY <2>3
<1>13. \A i, k \in 1..n : k > i /\ Writes(k)' => \E j \in 1..n : FirstBehind(i, j)'
  <2>1. ASSUME NEW i \in 1..(n - 1), NEW k \in 1..(n - 1), k > i, Writes(k)
        PROVE  \E j \in 1..(n - 1) : FirstBehind(i, j)
    BY <1>2, <2>1 DEF TableInv
  <2> QED
    BY <1>4, <2>1
<1>14. ASSUME NEW e \in 1..m, NEW i \in 1..n, StandsFor(e, i)'
       PROVE  /\ \A j \in 1..n : FirstBehind(i, j)' => T'[e].valeur = Start(j)'
              /\ T'[e].valeur # SYMBOLE_NOTDEFINED => \E j \in 1..n : FirstBehind(i, j)'
  <2>1. CASE e = m /\ i = n
    BY <1>4, <1>5, <2>1
  <2>2. CASE e \in 1..(m - 1) /\ i \in 1..(n - 1) /\ StandsFor(e, i)
    <3>1. /\ \A j \in 1..(n - 1) : FirstBehind(i, j) => T[e].valeur = Start(j)
          /\ T[e].valeur # SYMBOLE_NOTDEFINED => \E j \in 1..(n - 1) : FirstBehind(i, j)
      BY <1>1, <1>2, <1>5, <2>2 DEF TableInv
    <3>2. T'[e] = T[e]
      BY <1>5, <2>2
    <3>3. \A j \in 1..n : FirstBehind(i, j)' => T'[e].valeur = Start(j)'
      BY <1>2, <1>4, <3>1, <3>2
    <3>4. T'[e].valeur # SYMBOLE_NOTDEFINED => \E j \in 1..n : FirstBehind(i, j)'
      BY <1>4, <2>2, <3>1, <3>2
    <3> QED
      BY <3>3, <3>4
  <2> QED
    BY <1>9, <1>14, <2>1, <2>2
<1>15. \A e \in 1..m, i \in 1..n : StandsFor(e, i)' =>
         /\ \A j \in 1..n : FirstBehind(i, j)' => T'[e].valeur = Start(j)'
         /\ symbolePasse' = 1 /\ T'[e].valeur # SYMBOLE_NOTDEFINED =>
              \E j \in 1..n : FirstBehind(i, j)'
  BY <1>14
<1>16. LinesRead' = 1..n /\ DOMAIN T' = 1..m /\ source' = source
  BY <1>2, <1>5
<1> QED
  BY <1>10, <1>11, <1>12, <1>13, <1>15, <1>16 DEF TableInv

\* A comment or an empty line of the first pass.
LEMMA SkipKeepsTable ==
    ASSUME TableInv, LayoutInv', Quiet, symbolePasse = 1
    PROVE  TableInv'
<1> SUFFICES ASSUME NEW n \in Nat \ {0}, n = nligne
             PROVE  TableInv'
  BY DEF TableInv, LayoutInv, TypeInv
<1> DEFINE T == symboleTable
<1>1. LayoutInv /\ Reading /\ NextLine /\ source[n].t = "skip" /\ T' = T
  BY DEF TableInv, Quiet, Current
<1>2. /\ LinesRead = 1..(n - 1) /\ LinesRead' = 1..n
      /\ source' = source /\ symbolePasse' = 1
      /\ \A i \in 1..n : Start(i)' = Start(i)
  BY <1>1, OneLineMore
<1>3. ~Writes(n)
  BY <1>1 DEF Writes
<1>4. /\ \A i, k \in 1..n : k > i /\ Writes(k)' =>
           i \in 1..(n - 1) /\ k \in 1..(n - 1) /\ Writes(k)
      /\ \A i, j \in 1..n : FirstBehind(i, j)' =>
           i \in 1..(n - 1) /\ j \in 1..(n - 1) /\ FirstBehind(i, j)
      /\ \A i, j \in 1..(n - 1) : FirstBehind(i, j) => FirstBehind(i, j)'
  BY <1>1, <1>3, QuietLineMore
<1>5. \A e, i : StandsFor(e, i)' <=> StandsFor(e, i)
  BY <1>1, <1>2 DEF StandsFor
<1>6. UnresolvedLast'
  BY <1>1 DEF TableInv, UnresolvedLast
<1>7. \A i \in 1..n : source[i].t = "label" => \E e \in DOMAIN T : StandsFor(e, i)'
  <2>1. \A i \in 1..(n - 1) : source[i].t = "label" => \E e \in DOMAIN T : StandsFor(e, i)
    BY <1>2 DEF TableInv
  <2> QED
    BY <1>1, <1>5, <2>1
<1>8. \A e \in DOMAIN T : \E i \in 1..n : StandsFor(e, i)'
  <2>1. \A e \in DOMAIN T : \E i \in 1..(n - 1) : StandsFor(e, i)
    BY <1>2 DEF TableInv
  <2> QED
    BY <1>5, <2>1
<1>9. \A i, k \in 1..n : k > i /\ Writes(k)' => \E j \in 1..n : FirstBehind(i, j)'
  <2>1. ASSUME NEW i \in 1..(n - 1), NEW k \in 1..(n - 1), k > i, Writes(k)
        PROVE  \E j \in 1..(n - 1) : FirstBehind(i, j)
    BY <1>2, <2>1 DEF TableInv
  <2> QED
    BY <1>4, <2>1
<1>10. ASSUME NEW e \in DOMAIN T, NEW i \in 1..n, StandsFor(e, i)'
       PROVE  /\ \A j \in 1..n : FirstBehind(i, j)' => T[e].valeur = Start(j)'
              /\ T[e].valeur # SYMBOLE_NOTDEFINED => \E j \in 1..n : FirstBehind(i, j)'
  <2>1. StandsFor(e, i) /\ i \in 1..(n - 1)
    BY <1>1, <1>5, <1>10 DEF StandsFor
  <2>2. /\ \A j \in 1..(n - 1) : FirstBehind(i, j) => T[e].valeur = Start(j)
        /\ T[e].valeur # SYMBOLE_NOTDEFINED => \E j \in 1..(n - 1) : FirstBehind(i, j)
    BY <1>2, <2>1 DEF TableInv
  <2> QED
    BY <1>2, <1>4, <2>1, <2>2
<1> QED
  BY <1>1, <1>2, <1>6, <1>7, <1>8, <1>9, <1>10 DEF TableInv

\* Every step keeps the table.
LEMMA NextTable ==
    ASSUME TableInv, [Next]_vars
    PROVE  TableInv'
<1>1. LayoutInv /\ TypeInv /\ LayoutInv'
  BY NextLayout DEF TableInv, LayoutInv
<1>2. CASE Puts
  <2>1. PICK pad \in Seq(Octet), bytes \in Seq(Int) : Handed(pad, bytes) /\ Write(pad, bytes)
    BY <1>2 DEF Puts
  <2>2. Reading
    BY <1>2 DEF Puts
  <2>3. /\ ncellule + Len(pad) \in Nat /\ NextLine
        /\ symboleTable' = Resolve(ncellule + Len(pad))
        /\ Current.t \in Writing
    BY <1>1, <2>1, <2>2, PutsShape
  <2>4. CASE symbolePasse = 1
    <3>1. Writes(nligne)
      BY <2>3 DEF Writes, Writing, Current
    <3>2. Start(nligne) = ncellule + Len(pad)
      <4>1. layout[nligne] = ncellule /\ ncellule \in Nat
        BY <1>1, <2>4 DEF LayoutInv, TypeInv
      <4>2. Len(pad) = IF Current.t = "data" /\ Odd(ncellule) THEN 1 ELSE 0
        BY <1>1, <2>1, <2>2, WroteShape
      <4> QED
        BY <4>1, <4>2 DEF Start, Current
    <3> QED
      BY <1>1, <2>2, <2>3, <2>4, <3>1, <3>2, PutsInFirstPass
  <2>5. CASE symbolePasse = 2
    <3>1. source' = source /\ layout' = layout /\ symbolePasse' = 2
      BY <2>3, <2>5 DEF NextLine
    <3>2. Len(symboleTable') = Len(symboleTable)
      BY <1>1, <2>3, ResolveShape DEF TypeInv
    <3>3. ASSUME NEW e \in DOMAIN symboleTable
          PROVE  /\ symboleTable'[e].nom = symboleTable[e].nom
                 /\ symboleTable[e].valeur # SYMBOLE_NOTDEFINED =>
                      symboleTable'[e].valeur = symboleTable[e].valeur
                 /\ symboleTable'[e].valeur # SYMBOLE_NOTDEFINED
      <4>1. symboleTable \in Seq(Symbole) /\ e \in 1..Len(symboleTable)
        BY <1>1 DEF TypeInv
      <4>2. symboleTable'[e].nom = symboleTable[e].nom
        BY <2>3, <4>1, ResolveShape
      <4>3. symboleTable'[e].valeur =
              IF symboleTable[e].valeur = SYMBOLE_NOTDEFINED THEN ncellule + Len(pad)
              ELSE symboleTable[e].valeur
        BY <1>1, <2>3, ResolvesTheUnresolved DEF TableInv
      <4> QED
        BY <2>3, <4>2, <4>3 DEF SYMBOLE_NOTDEFINED
    <3> QED
      BY <1>1, <3>1, <3>2, <3>3, SameLinesKeepTable
  <2> QED
    BY <1>1, <2>4, <2>5 DEF TypeInv
<1>3. CASE Enters
  BY <1>1, <1>3, EntersKeepsTable
<1>4. CASE Quiet
  <2>1. CASE symbolePasse = 2
    BY <1>1, <1>4, <2>1, SameLinesKeepTable DEF Quiet, NextLine
  <2> QED
    BY <1>1, <1>4, <2>1, SkipKeepsTable DEF TypeInv
<1>5. CASE Stops
  BY <1>1, <1>5, SameLinesKeepTable DEF Stops
<1>6. CASE Second
  BY <1>1, <1>6, SameLinesKeepTable DEF Second
<1> QED
  BY <1>1, <1>2, <1>3, <1>4, <1>5, <1>6, StepKinds

\* TableInv holds in every state.
THEOREM TableInvariant == Spec => []TableInv
<1>1. Init => TableInv
  BY InitTable
<1>2. TableInv /\ [Next]_vars => TableInv'
  BY NextTable
<1> QED
  BY <1>1, <1>2, PTL DEF Spec

\* The loop of outputBytes may stop at the first symbol that has a value.
THEOREM UnresolvedStayLast == Spec => []UnresolvedLast
<1>1. TableInv => UnresolvedLast
  BY DEF TableInv
<1> QED
  BY <1>1, TableInvariant, PTL

-----------------------------------------------------------------------------
(* The image. *)

\* What stands in front in a concatenation.
LEMMA SubSeqFirst ==
    ASSUME NEW s \in Seq(Int), NEW x \in Seq(Int), NEW a \in Nat \ {0}, NEW b \in Nat,
           b =< Len(s)
    PROVE  SubSeq(s \o x, a, b) = SubSeq(s, a, b)
<1>1. CASE b < a
  BY <1>1, SubSeqEmpty
<1>2. CASE a =< b
  <2>1. a \in 1..Len(s) /\ b \in 1..Len(s)
    BY <1>2
  <2> QED
    BY <2>1, SubSeqOfConcat1
<1> QED
  BY <1>1, <1>2

\* What stands behind in a concatenation.
LEMMA SubSeqLast ==
    ASSUME NEW s \in Seq(Int), NEW x \in Seq(Int)
    PROVE  SubSeq(s \o x, Len(s) + 1, Len(s) + Len(x)) = x
<1> DEFINE y == s \o x
           n == Len(s)
           m == Len(x)
<1>1. n \in Nat /\ m \in Nat /\ y \in Seq(Int) /\ \A i \in 1..m : y[i + n] = x[i]
  OBVIOUS
<1>2. x = [i \in 1..m |-> x[i]]
  OBVIOUS
<1> HIDE DEF y, n, m
<1>3. SubSeq(y, n + 1, n + m) = [i \in 1..((n + m) - (n + 1) + 1) |-> y[i + (n + 1) - 1]]
  BY <1>1
<1>4. (n + m) - (n + 1) + 1 = m /\ \A i \in 1..m : y[i + (n + 1) - 1] = x[i]
  BY <1>1
<1> QED
  BY <1>2, <1>3, <1>4 DEF y, n, m

\* Addresses depend on the text and its layout only.
LEMMA AddressKept ==
    ASSUME source' = source, layout' = layout, NEW s
    PROVE  Address(s)' = Address(s)
  BY DEF Address, LinesRead, Writes, Start

\* The table gives a label the cell it stands for, if a line behind it writes.
LEMMA AddressOfEntry ==
    ASSUME TableInv, NEW s, Defined(s), Address(s) # SYMBOLE_NOTDEFINED
    PROVE  findSymbole(s).valeur = Address(s)
<1> DEFINE e == CHOOSE k \in DOMAIN symboleTable : symboleTable[k].nom = s
           i == CHOOSE k \in LinesRead : source[k] = [t |-> "label", sym |-> s]
           After == {k \in LinesRead : k > i /\ Writes(k)}
           j == CHOOSE k \in After : \A l \in After : k =< l
<1>1. e \in DOMAIN symboleTable /\ symboleTable[e].nom = s /\ findSymbole(s) = symboleTable[e]
  BY DEF Defined, findSymbole
<1>2. \E k \in LinesRead : source[k] = [t |-> "label", sym |-> s]
  <2>1. PICK k \in LinesRead : StandsFor(e, k)
    BY <1>1 DEF TableInv
  <2>2. source[k] \in Lines
    <3>1. k \in 1..Len(source)
      BY DEF LinesRead, TableInv, LayoutInv, LinesLaid, TypeInv
    <3> QED
      BY <3>1 DEF TableInv, LayoutInv, TypeInv
  <2>3. source[k].t = "label" /\ source[k].sym = s
    BY <1>1, <2>1 DEF StandsFor
  <2> QED
    BY <2>2, <2>3, LineFacts
<1>3. i \in LinesRead /\ source[i] = [t |-> "label", sym |-> s]
  BY <1>2
<1>4. Address(s) = IF After = {} THEN SYMBOLE_NOTDEFINED ELSE Start(j)
  BY DEF Address
<1> HIDE DEF e, i
<1>5. PICK k \in LinesRead : k > i /\ Writes(k)
  BY <1>4
<1>6. PICK f \in LinesRead : FirstBehind(i, f)
  BY <1>3, <1>5 DEF TableInv
<1>7. f \in After /\ \A l \in After : f =< l
  BY <1>6 DEF FirstBehind
<1>8. j \in After /\ \A l \in After : j =< l
  BY <1>7
<1> HIDE DEF j
<1>9. FirstBehind(i, j)
  BY <1>8 DEF FirstBehind
<1>10. StandsFor(e, i)
  BY <1>1, <1>3 DEF StandsFor
<1>11. symboleTable[e].valeur = Start(j)
  BY <1>1, <1>3, <1>8, <1>9, <1>10 DEF TableInv
<1> QED
  BY <1>1, <1>4, <1>7, <1>11

\* What a handler writes in the second pass is the encoding of its line.
LEMMA WroteTheEncoding ==
    ASSUME TableInv, Reading, symbolePasse = 2,
           NEW pad \in Seq(Octet), NEW bytes \in Seq(Int), Handed(pad, bytes),
           Current.t = "const" => Address(Current.sym) # SYMBOLE_NOTDEFINED
    PROVE  Encoding(nligne) = pad \o bytes
<1>1. layout[nligne] = ncellule /\ source[nligne] = Current
  BY DEF TableInv, LayoutInv, PassesAgree, Current
<1>2. <<>> \o bytes = bytes
  BY ConcatEmptySeq
<1>3. CASE Current.t = "bytes"
  BY <1>1, <1>2, <1>3 DEF Handed, Encoding
<1>4. CASE Current.t = "data"
  <2>1. pad = Padding /\ bytes = Current.bytes
    BY <1>4 DEF Handed
  <2>2. Encoding(nligne) = Padding \o Current.bytes
    BY <1>1, <1>4 DEF Encoding, Padding
  <2> QED
    BY <2>1, <2>2
<1>5. CASE Current.t = "number"
  <2>1. pad = <<>> /\ bytes = ConstBytes(Current.reg, Current.val)
    BY <1>5 DEF Handed
  <2>2. Encoding(nligne) = ConstBytes(Current.reg, Current.val)
    BY <1>1, <1>5 DEF Encoding, ConstBytes
  <2> QED
    BY <1>2, <2>1, <2>2
<1>6. CASE Current.t = "const"
  <2> DEFINE a == Address(Current.sym)
  <2>1. pad = <<>> /\ bytes = ConstBytes(Current.reg, a)
    <3>1. PICK v \in Nat : /\ bytes = ConstBytes(Current.reg, v)
                          /\ Defined(Current.sym) /\ findSymbole(Current.sym).valeur = v
      BY <1>6 DEF Handed
    <3>2. v = a
      BY <1>6, <3>1, AddressOfEntry
    <3> QED
      BY <1>6, <3>1, <3>2 DEF Handed
  <2>2. Encoding(nligne) = ConstBytes(Current.reg, a)
    BY <1>1, <1>6 DEF Encoding, ConstBytes
  <2> QED
    BY <1>2, <2>1, <2>2
<1> QED
  BY <1>3, <1>4, <1>5, <1>6 DEF Handed

\* So do the encodings of the lines.
LEMMA EncodingKept ==
    ASSUME source' = source, layout' = layout, NEW i
    PROVE  /\ Encoding(i)' = Encoding(i)
           /\ Address(source[i].sym)' = Address(source[i].sym)
<1>1. \A s : Address(s)' = Address(s)
  BY AddressKept
<1>2. Address(source[i].sym)' = Address(source[i].sym)
  BY AddressKept
<1> QED
  BY <1>2 DEF Encoding

ImageInv == TableInv /\ ImageCorrect

\* Every step keeps the image.
LEMMA NextImage ==
    ASSUME ImageInv, [Next]_vars
    PROVE  ImageInv'
<1>1. TableInv /\ LayoutInv /\ TypeInv /\ TableInv'
  BY NextTable DEF ImageInv, TableInv, LayoutInv
\* A line of the second pass: the lines in front of it are in the file already.
<1>2. ASSUME symbolePasse = 2, Reading, NextLine, Current.t # "unknown",
             NEW x \in Seq(Int), output' = output \o x,
             Len(x) = LineSize(Current, ncellule),
             (Current.t = "const" => Address(Current.sym) # SYMBOLE_NOTDEFINED)
               => x = Encoding(nligne)
      PROVE  ImageCorrect'
  <2> SUFFICES ASSUME NEW n \in Nat \ {0}, n = nligne
               PROVE  ImageCorrect'
    BY <1>1 DEF TypeInv
  <2>1. /\ source' = source /\ layout' = layout /\ symbolePasse' = 2 /\ nligne' = n + 1
        /\ source[n] = Current
    BY <1>2 DEF NextLine, Current
  <2>2. /\ n \in 1..(Len(layout) - 1) /\ layout[n + 1] = ncellule + LineSize(Current, ncellule)
        /\ ncellule = layout[n] /\ Len(output) = ncellule /\ ncellule \in Nat
        /\ output \in Seq(Int) /\ layout \in Seq(Nat) /\ Len(x) \in Nat
    BY <1>1, <1>2, SecondPassLine DEF LayoutInv, PassesAgree, TypeInv
  <2>3. \A i : /\ Encoding(i)' = Encoding(i)
               /\ Address(source[i].sym)' = Address(source[i].sym)
    BY <2>1, EncodingKept
  <2>4. ASSUME NEW i \in 1..n,
               source[i].t = "const" => Address(source[i].sym) # SYMBOLE_NOTDEFINED
        PROVE  SubSeq(output', layout[i] + 1, layout[i + 1]) = Encoding(i)
    <3>1. CASE i = n
      <4>1. x = Encoding(i)
        BY <1>2, <2>1, <2>4, <3>1
      <4>2. SubSeq(output \o x, Len(output) + 1, Len(output) + Len(x)) = x
        BY <2>2, SubSeqLast
      <4>3. layout[i] = Len(output) /\ layout[i + 1] = Len(output) + Len(x)
        BY <1>2, <2>2, <3>1
      <4> QED
        BY <1>2, <4>1, <4>2, <4>3
    <3>2. CASE i # n
      <4>1. i \in 1..(n - 1)
        BY <3>2
      <4>2. SubSeq(output, layout[i] + 1, layout[i + 1]) = Encoding(i)
        BY <1>2, <2>4, <4>1 DEF ImageInv, ImageCorrect
      <4>3. layout[i] + 1 \in Nat \ {0} /\ layout[i + 1] \in Nat /\ layout[i + 1] =< Len(output)
        <5>1. i \in 1..Len(layout) /\ i + 1 \in 1..Len(layout) /\ n \in 1..Len(layout) /\ i + 1 =< n
          BY <2>2, <4>1
        <5> DEFINE l == layout
                   k == i + 1
        <5>2. l[i] \in Nat /\ l[k] \in Nat
          <6>1. l \in Seq(Nat) /\ i \in 1..Len(l) /\ k \in 1..Len(l)
            BY <2>2, <5>1
          <6> HIDE DEF l, k
          <6> QED
            BY <6>1
        <5>3. layout[i + 1] =< layout[n]
          BY <1>1, <5>1 DEF LayoutInv, LinesLaid
        <5>4. ncellule = layout[n] /\ Len(output) = ncellule
          BY <2>2
        <5> QED
          BY <5>2, <5>3, <5>4
      <4> DEFINE a == layout[i] + 1
                 b == layout[i + 1]
      <4>4. a \in Nat \ {0} /\ b \in Nat /\ b =< Len(output)
        BY <4>3
      <4> HIDE DEF a, b
      <4>5. SubSeq(output \o x, a, b) = SubSeq(output, a, b)
        BY <2>2, <4>4, SubSeqFirst
      <4> QED
        BY <1>2, <4>2, <4>5 DEF a, b
    <3> QED
      BY <3>1, <3>2
  <2>5. 1..(nligne' - 1) = 1..n
    BY <2>1
  <2> QED
    BY <2>1, <2>3, <2>4, <2>5 DEF ImageCorrect
<1>3. CASE Puts
  <2>1. PICK pad \in Seq(Octet), bytes \in Seq(Int) : Handed(pad, bytes) /\ Write(pad, bytes)
    BY <1>3 DEF Puts
  <2>2. Reading
    BY <1>3 DEF Puts
  <2>3. /\ NextLine /\ Current.t \in Writing
        /\ symbolePasse = 2 => output' = output \o pad \o bytes
    BY <1>1, <2>1, <2>2, PutsShape
  <2>4. Len(pad) + Len(bytes) = LineSize(Current, ncellule)
    BY <1>1, <2>1, <2>2, WroteShape
  <2>5. CASE symbolePasse = 2
    <3> DEFINE x == pad \o bytes
    <3>1. pad \in Seq(Int) /\ output \in Seq(Int)
      BY <1>1, BytesAreInts DEF TypeInv
    <3>2. x \in Seq(Int) /\ Len(x) = Len(pad) + Len(bytes)
      BY <3>1, ConcatProperties
    <3>3. output' = output \o x
      <4>1. output' = (output \o pad) \o bytes
        BY <2>3, <2>5
      <4>2. bytes \in Seq(Int)
        OBVIOUS
      <4> QED
        BY <3>1, <4>1, <4>2, ConcatAssociative
    <3>4. (Current.t = "const" => Address(Current.sym) # SYMBOLE_NOTDEFINED)
            => x = Encoding(nligne)
      BY <1>1, <2>1, <2>2, <2>5, WroteTheEncoding
    <3>5. Current.t # "unknown"
      BY <2>3 DEF Writing
    <3> HIDE DEF x
    <3>6. Len(x) = LineSize(Current, ncellule)
      BY <2>4, <3>2
    <3> QED
      BY <1>1, <1>2, <2>2, <2>3, <2>5, <3>2, <3>3, <3>4, <3>5, <3>6 DEF ImageInv
  <2>6. CASE symbolePasse = 1
    BY <1>1, <2>3, <2>6 DEF NextLine, ImageInv, ImageCorrect
  <2> QED
    BY <1>1, <2>5, <2>6 DEF TypeInv
<1>4. CASE Quiet
  <2>1. CASE symbolePasse = 2
    <3>1. /\ Reading /\ NextLine /\ Current.t \in {"label", "skip"} /\ output' = output
          /\ source[nligne] = Current
      BY <1>4 DEF Quiet, Current
    <3>2. LineSize(Current, ncellule) = 0
      BY <3>1 DEF LineSize, Writing
    <3>3. Encoding(nligne) = <<>>
      BY <3>1 DEF Encoding
    <3>4. output' = output \o <<>> /\ <<>> \in Seq(Int) /\ Len(<<>>) = 0
      BY <1>1, <3>1, ConcatEmptySeq DEF TypeInv
    <3>5. Current.t # "unknown"
      BY <3>1
    <3> QED
      BY <1>1, <1>2, <2>1, <3>1, <3>2, <3>3, <3>4, <3>5 DEF ImageInv
  <2>2. CASE symbolePasse = 1
    BY <1>1, <1>4, <2>2 DEF Quiet, NextLine, ImageInv, ImageCorrect
  <2> QED
    BY <1>1, <2>1, <2>2 DEF TypeInv
<1>5. CASE Enters
  BY <1>1, <1>5 DEF Enters, NextLine, ImageInv, ImageCorrect
<1>6. CASE Stops
  <2>1. \A i : /\ Encoding(i)' = Encoding(i)
               /\ Address(source[i].sym)' = Address(source[i].sym)
    BY <1>6, EncodingKept DEF Stops
  <2> QED
    BY <1>1, <1>6, <2>1 DEF Stops, ImageInv, ImageCorrect
<1>7. CASE Second
  BY <1>1, <1>7 DEF Second, ImageInv, ImageCorrect
<1> QED
  BY <1>1, <1>3, <1>4, <1>5, <1>6, <1>7, StepKinds

\* Every line of the file is the encoding of its line of the text, with the
\* labels replaced by the cells they stand for.
THEOREM ImageIsCorrect == Spec => []ImageCorrect
<1>1. Init => ImageInv
  BY InitTable DEF Init, StartOn, ImageInv, ImageCorrect
<1>2. ImageInv /\ [Next]_vars => ImageInv'
  BY NextImage
<1>3. ImageInv => ImageCorrect
  BY DEF ImageInv
<1> QED
  BY <1>1, <1>2, <1>3, PTL DEF Spec
=============================================================================
