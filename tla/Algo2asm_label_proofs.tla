----------------------- MODULE Algo2asm_label_proofs -----------------------
(***************************************************************************)
(* Theorems about the labels Algo2asm writes, for every value of its       *)
(* constants: none with a number is defined twice, and a complete function *)
(* defines those it uses.                                                  *)
(***************************************************************************)
EXTENDS Algo2asm_statement_proofs

-----------------------------------------------------------------------------
(* The labels of the open statements.                                      *)
(*                                                                         *)
(* c is a stack of constructs, N the number the next statement of each     *)
(* kind takes, l the number of the next operator, D the labels the code    *)
(* defines, U those it defines twice and R those it uses.                  *)

Taken(s) == CASE s = "if" -> {"then", "thenEnd", "else"}
              [] s = "while" -> {"while", "do"}
              [] s = "for" -> {"forbound", "for"}

AllTaken == {"then", "thenEnd", "else", "while", "do", "forbound", "for"}

\* The last label of a statement, and all its labels.
Ending(s) == CASE s = "if" -> "endif" [] s = "while" -> "endwhile" [] s = "for" -> "endfor"

Kinds(s) == CASE s = "if" -> {"else", "endif"}
              [] s = "while" -> {"beginwhile", "endwhile"}
              [] s = "for" -> {"beginfor", "endfor"}

OpKinds == {"err:div0", "fin:div", "eq:true", "endeq:true", "neq:false", "endneq:false",
            "not:true", "endnot:true", "gt:true", "gt:endtrue", "lt:true", "lt:endtrue"}

NamedLabels == {<<k, x>> : k \in {"var", "jump:var", "fun"}, x \in Names}

\* What an open construct f still has to define, and what it has defined.
FreshFrame(f, N, D) ==
    \A s \in Stmts : f.k \in Taken(s) =>
        /\ f.n < N[s]
        /\ <<Ending(s), f.n>> \notin D
        /\ f.k = "then" => <<"else", f.n>> \notin D

BackedFrame(f, D) ==
    /\ f.k \in {"while", "do"} => <<"beginwhile", f.n>> \in D
    /\ f.k \in {"forbound", "for"} => <<"beginfor", f.n>> \in D
    /\ f.k \in ForFrames => <<"var", f.name>> \in D

\* The labels f has used and will define.
Owed(f) == CASE f.k = "then" -> {<<"else", f.n>>}
             [] f.k \in {"thenEnd", "else"} -> {<<"endif", f.n>>}
             [] f.k = "do" -> {<<"endwhile", f.n>>}
             [] f.k = "for" -> {<<"endfor", f.n>>}
             [] f.k \notin {"then", "thenEnd", "else", "do", "for"} -> {}

OwedBy(c) == UNION {Owed(c[i]) : i \in 1..Len(c)}

Distinct(c) ==
    \A s \in Stmts : \A i, j \in 1..Len(c) :
        i < j /\ c[i].k \in Taken(s) /\ c[j].k \in Taken(s) => c[i].n # c[j].n

Labels(c, N, D) ==
    /\ c \in Seq(FrameI)
    /\ Distinct(c)
    /\ \A i \in 1..Len(c) : FreshFrame(c[i], N, D) /\ BackedFrame(c[i], D)

\* No number given out is the number of a label already.
Used(N, l, D) ==
    /\ \A s \in Stmts : N[s] \in Nat
    /\ \A s \in Stmts : \A k \in Kinds(s) : \A m : <<k, m>> \in D => m \in Nat /\ m < N[s]
    /\ l \in Nat
    /\ \A k \in OpKinds : \A m : <<k, m>> \in D => m \in Nat /\ m < l

Resolved(c, D, R) == R \subseteq D \cup OwedBy(c) \cup {<<"var", FileName>>}

Coherent(c, N, l, D, U, R) ==
    /\ Labels(c, N, D)
    /\ Used(N, l, D)
    /\ <<"s_err:div0", 0>> \in D
    /\ U \subseteq NamedLabels
    /\ Resolved(c, D, R)

LEMMA KindFacts ==
    /\ \A s \in Stmts : Taken(s) \subseteq AllTaken /\ Ending(s) \in Kinds(s)
    /\ \A s, r \in Stmts : s # r => /\ Taken(s) \cap Taken(r) = {}
                                    /\ Kinds(s) \cap Kinds(r) = {}
    /\ \A s \in Stmts : Kinds(s) \cap OpKinds = {}
    /\ \A s \in Stmts : \A k \in Kinds(s) \cup OpKinds : k \notin {"var", "jump:var", "fun", "s_err:div0"}
    /\ Taken("if") = {"then", "thenEnd", "else"} /\ Taken("while") = {"while", "do"}
    /\ Taken("for") = {"forbound", "for"}
    /\ Ending("if") = "endif" /\ Ending("while") = "endwhile" /\ Ending("for") = "endfor"
    /\ Kinds("if") = {"else", "endif"} /\ Kinds("while") = {"beginwhile", "endwhile"}
    /\ Kinds("for") = {"beginfor", "endfor"}
BY DEF Stmts, Taken, AllTaken, Ending, Kinds, OpKinds

LEMMA PushFrames ==
    ASSUME NEW c \in Seq(FrameI), NEW f \in FrameI
    PROVE  LET d == Push(f, c) IN
           /\ d \in Seq(FrameI) /\ Len(d) = Len(c) + 1 /\ Len(c) \in Nat
           /\ d[1] = f /\ \A i \in 1..Len(c) : d[i + 1] = c[i]
           /\ \A i \in 1..Len(d) : i # 1 => i - 1 \in 1..Len(c) /\ d[i] = c[i - 1]
<1> DEFINE d == Push(f, c)
<1>1. /\ d \in Seq(FrameI) /\ Len(d) = Len(c) + 1 /\ d[1] = f /\ Len(c) \in Nat
      /\ \A i \in 1..Len(c) : d[i + 1] = c[i]
  <2>1. Len(c) \in Nat
    OBVIOUS
  <2> HIDE DEF d
  <2> QED
    BY <2>1, PushShape DEF d
<1> HIDE DEF d
<1>2. ASSUME NEW i \in 1..Len(d), i # 1
      PROVE  i - 1 \in 1..Len(c) /\ d[i] = c[i - 1]
  <2>1. i - 1 \in 1..Len(c) /\ (i - 1) + 1 = i
    BY <1>1, <1>2
  <2> QED
    BY <1>1, <2>1
<1> QED
  BY <1>1, <1>2 DEF d

LEMMA OwedPush ==
    ASSUME NEW c \in Seq(FrameI), NEW f \in FrameI
    PROVE  OwedBy(Push(f, c)) = Owed(f) \cup OwedBy(c)
<1> DEFINE d == Push(f, c)
<1>1. /\ d \in Seq(FrameI) /\ Len(d) = Len(c) + 1 /\ Len(c) \in Nat
      /\ d[1] = f /\ \A i \in 1..Len(c) : d[i + 1] = c[i]
      /\ \A i \in 1..Len(d) : i # 1 => i - 1 \in 1..Len(c) /\ d[i] = c[i - 1]
  BY PushFrames
<1> HIDE DEF d
<1>2. 1 \in 1..Len(d) /\ \A i \in 1..Len(c) : i + 1 \in 1..Len(d)
  BY <1>1
<1>3. ASSUME NEW r \in OwedBy(d) PROVE r \in Owed(f) \cup OwedBy(c)
  <2>1. PICK i \in 1..Len(d) : r \in Owed(d[i])
    BY <1>3 DEF OwedBy
  <2> QED
    BY <1>1, <2>1 DEF OwedBy
<1>4. ASSUME NEW r \in Owed(f) \cup OwedBy(c) PROVE r \in OwedBy(d)
  <2>1. CASE r \in Owed(f)
    BY <1>1, <1>2, <2>1 DEF OwedBy
  <2>2. CASE r \in OwedBy(c)
    <3>1. PICK i \in 1..Len(c) : r \in Owed(c[i])
      BY <2>2 DEF OwedBy
    <3> QED
      BY <1>1, <1>2, <3>1 DEF OwedBy
  <2> QED
    BY <1>4, <2>1, <2>2
<1> QED
  BY <1>3, <1>4 DEF d

LEMMA OwedTail ==
    ASSUME NEW c \in Seq(FrameI), c # <<>>
    PROVE  OwedBy(c) = Owed(Head(c)) \cup OwedBy(Tail(c))
<1>1. /\ Tail(c) \in Seq(FrameI) /\ Len(c) \in Nat /\ Len(c) >= 1
      /\ Len(Tail(c)) = Len(c) - 1
      /\ \A i \in 1..(Len(c) - 1) : Tail(c)[i] = c[i + 1]
      /\ Head(c) = c[1]
  BY TailShape
<1>2. ASSUME NEW r \in OwedBy(c) PROVE r \in Owed(Head(c)) \cup OwedBy(Tail(c))
  <2>1. PICK i \in 1..Len(c) : r \in Owed(c[i])
    BY <1>2 DEF OwedBy
  <2>2. CASE i = 1
    BY <1>1, <2>1, <2>2
  <2>3. CASE i # 1
    <3>1. i - 1 \in 1..(Len(c) - 1) /\ (i - 1) + 1 = i
      BY <1>1, <2>3
    <3>2. i - 1 \in 1..Len(Tail(c)) /\ Tail(c)[i - 1] = c[i]
      BY <1>1, <3>1
    <3> QED
      BY <2>1, <3>2 DEF OwedBy
  <2> QED
    BY <2>2, <2>3
<1>3. ASSUME NEW r \in Owed(Head(c)) \cup OwedBy(Tail(c)) PROVE r \in OwedBy(c)
  <2>1. CASE r \in Owed(Head(c))
    BY <1>1, <2>1 DEF OwedBy
  <2>2. CASE r \in OwedBy(Tail(c))
    <3>1. PICK i \in 1..Len(Tail(c)) : r \in Owed(Tail(c)[i])
      BY <2>2 DEF OwedBy
    <3>2. i + 1 \in 1..Len(c) /\ Tail(c)[i] = c[i + 1]
      BY <1>1
    <3> QED
      BY <3>1, <3>2 DEF OwedBy
  <2> QED
    BY <1>3, <2>1, <2>2
<1> QED
  BY <1>2, <1>3

-----------------------------------------------------------------------------
(* One lemma per way in which the actions write labels. *)

\* A frame comes: its numbers are its own.
LEMMA LabelsPush ==
    ASSUME NEW c, NEW N, NEW D, Labels(c, N, D), NEW f \in FrameI,
           FreshFrame(f, N, D), BackedFrame(f, D),
           \A s \in Stmts : f.k \in Taken(s) =>
              \A i \in 1..Len(c) : c[i].k \in Taken(s) => c[i].n # f.n
    PROVE  Labels(Push(f, c), N, D)
<1> DEFINE d == Push(f, c)
<1>1. c \in Seq(FrameI)
  BY DEF Labels
<1>2. /\ d \in Seq(FrameI) /\ Len(d) = Len(c) + 1 /\ Len(c) \in Nat
      /\ d[1] = f /\ \A i \in 1..Len(c) : d[i + 1] = c[i]
      /\ \A i \in 1..Len(d) : i # 1 => i - 1 \in 1..Len(c) /\ d[i] = c[i - 1]
  BY <1>1, PushFrames
<1> HIDE DEF d
<1>3. ASSUME NEW i \in 1..Len(d) PROVE FreshFrame(d[i], N, D) /\ BackedFrame(d[i], D)
  BY <1>2 DEF Labels
<1>4. ASSUME NEW s \in Stmts, NEW i \in 1..Len(d), NEW j \in 1..Len(d), i < j,
             d[i].k \in Taken(s), d[j].k \in Taken(s)
      PROVE  d[i].n # d[j].n
  <2>1. j # 1 /\ j - 1 \in 1..Len(c) /\ d[j] = c[j - 1]
    BY <1>2, <1>4
  <2>2. CASE i = 1
    BY <1>2, <1>4, <2>1, <2>2
  <2>3. CASE i # 1
    <3>1. i - 1 \in 1..Len(c) /\ d[i] = c[i - 1] /\ i - 1 < j - 1
      BY <1>2, <1>4, <2>3
    <3> QED
      BY <1>4, <2>1, <3>1 DEF Labels, Distinct
  <2> QED
    BY <2>2, <2>3
<1> QED
  BY <1>2, <1>3, <1>4 DEF Labels, Distinct, d

\* A frame goes: none of the others has its number.
LEMMA LabelsTail ==
    ASSUME NEW c, NEW N, NEW D, Labels(c, N, D), c # <<>>
    PROVE  /\ Labels(Tail(c), N, D)
           /\ Head(c) \in FrameI /\ FreshFrame(Head(c), N, D) /\ BackedFrame(Head(c), D)
           /\ \A s \in Stmts : Head(c).k \in Taken(s) =>
                 \A i \in 1..Len(Tail(c)) : Tail(c)[i].k \in Taken(s) =>
                    Tail(c)[i].n # Head(c).n
<1> DEFINE d == Tail(c)
<1>1. c \in Seq(FrameI)
  BY DEF Labels
<1>2. /\ d \in Seq(FrameI) /\ Len(c) \in Nat /\ Len(c) >= 1 /\ Len(d) = Len(c) - 1
      /\ \A i \in 1..(Len(c) - 1) : d[i] = c[i + 1]
      /\ Head(c) = c[1] /\ Head(c) \in FrameI
  BY <1>1, TailShape
<1> HIDE DEF d
<1>3. \A i \in 1..Len(d) : i + 1 \in 1..Len(c) /\ d[i] = c[i + 1] /\ 1 < i + 1
  BY <1>2
<1>4. 1 \in 1..Len(c)
  BY <1>2
<1>5. Distinct(d)
  <2> SUFFICES ASSUME NEW s \in Stmts, NEW i \in 1..Len(d), NEW j \in 1..Len(d), i < j,
                      d[i].k \in Taken(s), d[j].k \in Taken(s)
               PROVE  d[i].n # d[j].n
    BY DEF Distinct
  <2>1. i + 1 < j + 1
    OBVIOUS
  <2> QED
    BY <1>3, <2>1 DEF Labels, Distinct
<1>6. Labels(d, N, D)
  BY <1>2, <1>3, <1>5 DEF Labels
<1>7. \A s \in Stmts : c[1].k \in Taken(s) =>
          \A i \in 1..Len(d) : d[i].k \in Taken(s) => d[i].n # c[1].n
  BY <1>3, <1>4 DEF Labels, Distinct
<1> QED
  BY <1>2, <1>4, <1>6, <1>7 DEF Labels, d

\* The code grows by labels that no open statement has still to define, and
\* the numbers are not lowered.
LEMMA LabelsMore ==
    ASSUME NEW c, NEW N, NEW M, NEW D, NEW E, Labels(c, N, D), D \subseteq E,
           \A s \in Stmts : N[s] \in Nat /\ M[s] \in Nat /\ N[s] =< M[s],
           \A s \in Stmts : \A i \in 1..Len(c) : c[i].k \in Taken(s) =>
              /\ <<Ending(s), c[i].n>> \notin E \ D
              /\ c[i].k = "then" => <<"else", c[i].n>> \notin E \ D
    PROVE  Labels(c, M, E)
<1>1. ASSUME NEW i \in 1..Len(c)
      PROVE  FreshFrame(c[i], M, E) /\ BackedFrame(c[i], E)
  <2>1. FreshFrame(c[i], N, D) /\ BackedFrame(c[i], D)
    BY <1>1 DEF Labels
  <2>2. BackedFrame(c[i], E)
    BY <2>1 DEF BackedFrame
  <2>3. ASSUME NEW s \in Stmts, c[i].k \in Taken(s)
        PROVE  /\ c[i].n < M[s]
               /\ <<Ending(s), c[i].n>> \notin E
               /\ c[i].k = "then" => <<"else", c[i].n>> \notin E
    <3>1. c[i].n \in Nat
      BY <1>1 DEF Labels, FrameI
    <3>2. c[i].n < N[s] /\ <<Ending(s), c[i].n>> \notin D
          /\ (c[i].k = "then" => <<"else", c[i].n>> \notin D)
      BY <2>1, <2>3 DEF FreshFrame
    <3>3. N[s] \in Nat /\ M[s] \in Nat /\ N[s] =< M[s]
      OBVIOUS
    <3>4. c[i].n < M[s]
      BY <3>1, <3>2, <3>3
    <3> QED
      BY <1>1, <2>3, <3>2, <3>4
  <2> QED
    BY <2>2, <2>3 DEF FreshFrame
<1> QED
  BY <1>1 DEF Labels

\* A frame without a number comes or goes.
LEMMA CoherentPush ==
    ASSUME NEW c, NEW N, NEW l, NEW D, NEW U, NEW R, Coherent(c, N, l, D, U, R),
           NEW f \in FrameI, f.k \notin AllTaken,
           f.k = "forinit" => <<"var", f.name>> \in D
    PROVE  Coherent(Push(f, c), N, l, D, U, R)
<1>1. \A s \in Stmts : f.k \notin Taken(s)
  BY KindFacts
<1>2. FreshFrame(f, N, D) /\ BackedFrame(f, D)
  BY <1>1 DEF FreshFrame, BackedFrame, AllTaken, ForFrames
<1>3. Labels(Push(f, c), N, D)
  BY <1>1, <1>2, LabelsPush DEF Coherent
<1>4. OwedBy(Push(f, c)) = Owed(f) \cup OwedBy(c)
  BY OwedPush DEF Coherent, Labels
<1> QED
  BY <1>3, <1>4 DEF Coherent, Resolved

LEMMA CoherentTail ==
    ASSUME NEW c, NEW N, NEW l, NEW D, NEW U, NEW R, Coherent(c, N, l, D, U, R),
           c # <<>>, Head(c).k \notin AllTaken
    PROVE  Coherent(Tail(c), N, l, D, U, R)
<1>1. Owed(Head(c)) = {}
  BY DEF Owed, AllTaken
<1>2. OwedBy(c) = OwedBy(Tail(c))
  BY <1>1, OwedTail DEF Coherent, Labels
<1>3. Labels(Tail(c), N, D)
  BY LabelsTail DEF Coherent
<1> QED
  BY <1>2, <1>3 DEF Coherent, Resolved

\* Labels named after variables and the function are written, and labels that
\* exist are used.
LEMMA CoherentEmit ==
    ASSUME NEW c, NEW N, NEW l, NEW D, NEW U, NEW R, Coherent(c, N, l, D, U, R),
           NEW E \in SUBSET NamedLabels, NEW X,
           X \subseteq D \cup E \cup {<<"var", FileName>>}
    PROVE  Coherent(c, N, l, D \cup E, U \cup (E \cap D), R \cup X)
<1>1. \A k, m : k \notin {"var", "jump:var", "fun"} => <<k, m>> \notin E
  BY DEF NamedLabels
<1>2. Labels(c, N, D \cup E)
  <2>1. \A s \in Stmts : Ending(s) \notin {"var", "jump:var", "fun"}
    BY KindFacts
  <2>2. \A m : <<"else", m>> \notin (D \cup E) \ D
    BY <1>1
  <2>3. \A s \in Stmts : \A m : <<Ending(s), m>> \notin (D \cup E) \ D
    BY <1>1, <2>1
  <2>4. \A s \in Stmts : N[s] \in Nat /\ N[s] =< N[s]
    BY DEF Coherent, Used
  <2>5. Labels(c, N, D) /\ D \subseteq D \cup E
    BY DEF Coherent
  <2> QED
    BY <2>2, <2>3, <2>4, <2>5, LabelsMore
<1>3. Used(N, l, D \cup E)
  <2>1. \A s \in Stmts : \A k \in Kinds(s) : \A m : <<k, m>> \notin E
    BY <1>1, KindFacts
  <2>2. \A k \in OpKinds : \A m : <<k, m>> \notin E
    BY <1>1 DEF OpKinds
  <2> QED
    BY <2>1, <2>2 DEF Coherent, Used
<1> QED
  BY <1>2, <1>3 DEF Coherent, Resolved

\* An operator writes and uses labels of the next number.
LEMMA CoherentOperator ==
    ASSUME NEW c, NEW N, NEW l, NEW D, NEW U, NEW R, Coherent(c, N, l, D, U, R),
           NEW K \in SUBSET OpKinds, NEW X,
           X \subseteq D \cup (K \X {l}) \cup {<<"var", FileName>>}
    PROVE  Coherent(c, N, l + 1, D \cup (K \X {l}), U \cup ((K \X {l}) \cap D), R \cup X)
<1> DEFINE E == K \X {l}
<1>1. \A k, m : <<k, m>> \in E => k \in OpKinds /\ m = l
  OBVIOUS
<1>2. l \in Nat /\ Used(N, l, D)
  BY DEF Coherent, Used
<1>3. E \cap D = {}
  <2> SUFFICES ASSUME NEW k \in K, <<k, l>> \in D PROVE FALSE
    OBVIOUS
  <2>1. l < l
    BY <1>2 DEF Used
  <2> QED
    BY <1>2, <2>1
<1>4. X \subseteq D \cup E \cup {<<"var", FileName>>}
  OBVIOUS
<1> HIDE DEF E
<1>5. Labels(c, N, D \cup E)
  <2>1. \A s \in Stmts : Ending(s) \notin OpKinds
    BY KindFacts
  <2>2. \A m : <<"else", m>> \notin (D \cup E) \ D
    BY <1>1 DEF OpKinds
  <2>3. \A s \in Stmts : \A m : <<Ending(s), m>> \notin (D \cup E) \ D
    BY <1>1, <2>1
  <2>4. \A s \in Stmts : N[s] \in Nat /\ N[s] =< N[s]
    BY DEF Coherent, Used
  <2>5. Labels(c, N, D) /\ D \subseteq D \cup E
    BY DEF Coherent
  <2> QED
    BY <2>2, <2>3, <2>4, <2>5, LabelsMore
<1>6. Used(N, l + 1, D \cup E)
  <2>1. \A s \in Stmts : \A k \in Kinds(s) : \A m : <<k, m>> \notin E
    BY <1>1, KindFacts
  <2>2. ASSUME NEW k \in OpKinds, NEW m, <<k, m>> \in D \cup E
        PROVE  m \in Nat /\ m < l + 1
    <3>1. CASE <<k, m>> \in E
      BY <1>1, <1>2, <3>1
    <3>2. CASE <<k, m>> \in D
      <4>1. m \in Nat /\ m < l
        BY <1>2, <2>2, <3>2 DEF Used
      <4> QED
        BY <1>2, <4>1
    <3> QED
      BY <2>2, <3>1, <3>2
  <2>3. l + 1 \in Nat
    BY <1>2
  <2> QED
    BY <1>2, <2>1, <2>2, <2>3 DEF Used
<1>7. Coherent(c, N, l + 1, D \cup E, U \cup (E \cap D), R \cup X)
  BY <1>3, <1>4, <1>5, <1>6 DEF Coherent, Resolved
<1> QED
  BY <1>7 DEF E

\* A statement takes the next number, with or without its first label.
LEMMA CoherentTake ==
    ASSUME NEW c, NEW N, NEW l, NEW D, NEW U, NEW R, Coherent(c, N, l, D, U, R),
           NEW s \in Stmts, NEW M, M[s] = N[s] + 1, \A r \in Stmts \ {s} : M[r] = N[r],
           NEW f \in FrameI, f.k \in Taken(s), f.n = N[s],
           NEW K \in SUBSET (Kinds(s) \cap {"beginwhile", "beginfor"}), NEW X,
           BackedFrame(f, D \cup (K \X {N[s]})),
           X \subseteq D \cup (K \X {N[s]}) \cup Owed(f) \cup {<<"var", FileName>>}
    PROVE  Coherent(Push(f, c), M, l, D \cup (K \X {N[s]}),
                    U \cup ((K \X {N[s]}) \cap D), R \cup X)
<1> DEFINE v == N[s]
           E == K \X {v}
           d == Push(f, c)
<1>1. /\ \A k, m : <<k, m>> \in E => k \in Kinds(s) /\ k \in {"beginwhile", "beginfor"} /\ m = v
      /\ K \subseteq Kinds(s) /\ M[s] = v + 1 /\ f.n = v
  OBVIOUS
<1>2. v \in Nat /\ Used(N, l, D) /\ Labels(c, N, D) /\ c \in Seq(FrameI)
  BY DEF Coherent, Used, Labels
<1>3. \A k \in Kinds(s) : <<k, v>> \notin D
  <2> SUFFICES ASSUME NEW k \in Kinds(s), <<k, v>> \in D PROVE FALSE
    OBVIOUS
  <2>1. v < v
    BY <1>2 DEF Used
  <2> QED
    BY <1>2, <2>1
<1>4. E \cap D = {}
  BY <1>1, <1>3
<1>5. /\ X \subseteq D \cup E \cup Owed(f) \cup {<<"var", FileName>>}
      /\ BackedFrame(f, D \cup E)
  OBVIOUS
<1> HIDE DEF E, v
<1>6. /\ \A r \in Stmts : Ending(r) \notin {"beginwhile", "beginfor"}
      /\ \A r \in Stmts : \A m : <<Ending(r), m>> \notin E
      /\ \A m : <<"else", m>> \notin E
  <2>1. \A r \in Stmts : Ending(r) \notin {"beginwhile", "beginfor"}
    BY KindFacts DEF Stmts
  <2> QED
    BY <1>1, <2>1
<1>7. \A r \in Stmts : N[r] \in Nat /\ M[r] \in Nat /\ N[r] =< M[r]
  <2>1. \A r \in Stmts : N[r] \in Nat
    BY <1>2 DEF Used
  <2>2. N[s] = v
    BY DEF v
  <2> QED
    BY <1>1, <1>2, <2>1, <2>2
<1>8. Labels(c, M, D \cup E)
  BY <1>2, <1>6, <1>7, LabelsMore
<1>9. FreshFrame(f, M, D \cup E)
  <2> SUFFICES ASSUME NEW r \in Stmts, f.k \in Taken(r)
               PROVE  /\ f.n < M[r] /\ <<Ending(r), f.n>> \notin D \cup E
                      /\ f.k = "then" => <<"else", f.n>> \notin D \cup E
    BY DEF FreshFrame
  <2>1. r = s /\ Ending(s) \in Kinds(s)
    BY KindFacts
  <2>2. f.k = "then" => "else" \in Kinds(s)
    BY KindFacts DEF Stmts
  <2>3. v < v + 1
    BY <1>2
  <2> QED
    BY <1>1, <1>3, <1>6, <2>1, <2>2, <2>3
<1>10. \A r \in Stmts : f.k \in Taken(r) =>
           \A i \in 1..Len(c) : c[i].k \in Taken(r) => c[i].n # f.n
  <2> SUFFICES ASSUME NEW r \in Stmts, f.k \in Taken(r),
                      NEW i \in 1..Len(c), c[i].k \in Taken(r), c[i].n = f.n
               PROVE  FALSE
    OBVIOUS
  <2>1. r = s
    BY KindFacts
  <2>2. c[i].n < N[s]
    BY <1>2, <2>1 DEF Labels, FreshFrame
  <2>3. v < v
    BY <1>1, <2>2 DEF v
  <2> QED
    BY <1>2, <2>3
<1>11. Labels(d, M, D \cup E)
  BY <1>5, <1>8, <1>9, <1>10, LabelsPush
<1>12. OwedBy(d) = Owed(f) \cup OwedBy(c)
  BY <1>2, OwedPush
<1> HIDE DEF d
<1>13. Used(M, l, D \cup E)
  <2>1. ASSUME NEW r \in Stmts, NEW k \in Kinds(r), NEW m, <<k, m>> \in D \cup E
        PROVE  m \in Nat /\ m < M[r]
    <3>1. CASE <<k, m>> \in E
      <4>1. r = s /\ m = v
        BY <1>1, <2>1, <3>1, KindFacts
      <4> QED
        BY <1>1, <1>2, <4>1
    <3>2. CASE <<k, m>> \in D
      <4>1. m \in Nat /\ m < N[r]
        BY <1>2, <2>1, <3>2 DEF Used
      <4> QED
        BY <1>7, <4>1
    <3> QED
      BY <2>1, <3>1, <3>2
  <2>2. \A k \in OpKinds : \A m : <<k, m>> \notin E
    BY <1>1 DEF OpKinds
  <2> QED
    BY <1>2, <1>7, <2>1, <2>2 DEF Used
<1>14. Coherent(d, M, l, D \cup E, U \cup (E \cap D), R \cup X)
  BY <1>4, <1>5, <1>11, <1>12, <1>13 DEF Coherent, Resolved
<1> QED
  BY <1>14 DEF d, E, v

\* The frame on top becomes the next part of its statement; from the first
\* part of an IF its label else is written.
LEMMA CoherentSwap ==
    ASSUME NEW c, NEW N, NEW l, NEW D, NEW U, NEW R, Coherent(c, N, l, D, U, R),
           c # <<>>, NEW s \in Stmts, Head(c).k \in Taken(s),
           NEW g \in FrameI, g.k \in Taken(s), g.k # "then", g.n = Head(c).n,
           NEW E, \/ E = {} /\ Head(c).k # "then"
                  \/ E = {<<"else", g.n>>} /\ Head(c).k = "then",
           BackedFrame(g, D), NEW X,
           Owed(Head(c)) \subseteq E \cup Owed(g),
           X \subseteq D \cup E \cup Owed(g) \cup {<<"var", FileName>>}
    PROVE  Coherent(Push(g, Tail(c)), N, l, D \cup E, U \cup (E \cap D), R \cup X)
<1> DEFINE t == Tail(c)
           h == Head(c)
           d == Push(g, t)
<1>1. /\ Labels(t, N, D) /\ h \in FrameI /\ FreshFrame(h, N, D)
      /\ \A r \in Stmts : h.k \in Taken(r) =>
            \A i \in 1..Len(t) : t[i].k \in Taken(r) => t[i].n # h.n
      /\ Used(N, l, D) /\ c \in Seq(FrameI) /\ t \in Seq(FrameI)
      /\ Resolved(c, D, R)
  BY LabelsTail DEF Coherent, Labels
<1>2. /\ h.k \in Taken(s) /\ g.n = h.n /\ Owed(h) \subseteq E \cup Owed(g)
      /\ \/ E = {} /\ h.k # "then"
         \/ E = {<<"else", g.n>>} /\ h.k = "then"
  OBVIOUS
<1>3. OwedBy(c) = Owed(h) \cup OwedBy(t)
  BY <1>1, OwedTail
<1>4. OwedBy(d) = Owed(g) \cup OwedBy(t)
  BY <1>1, OwedPush
<1> HIDE DEF h, t, d
<1>5. h.k = "then" => s = "if" /\ Kinds(s) = {"else", "endif"} /\ <<"else", h.n>> \notin D
  <2>1. h.k = "then" => s = "if"
    BY <1>2, KindFacts DEF Stmts
  <2> QED
    BY <1>1, <1>2, <2>1, KindFacts DEF FreshFrame
<1>6. E \cap D = {}
  BY <1>2, <1>5
<1>7. \A r \in Stmts : Ending(r) # "else"
  BY KindFacts DEF Stmts
<1>8. Labels(t, N, D \cup E)
  <2>1. \A r \in Stmts : N[r] \in Nat /\ N[r] =< N[r]
    BY <1>1 DEF Used
  <2>2. ASSUME NEW r \in Stmts, NEW i \in 1..Len(t), t[i].k \in Taken(r)
        PROVE  /\ <<Ending(r), t[i].n>> \notin E
               /\ t[i].k = "then" => <<"else", t[i].n>> \notin E
    <3>1. <<Ending(r), t[i].n>> \notin E
      BY <1>2, <1>7
    <3>2. ASSUME t[i].k = "then", <<"else", t[i].n>> \in E PROVE FALSE
      <4>1. h.k = "then" /\ t[i].n = h.n
        BY <1>2, <3>2
      <4>2. "if" \in Stmts /\ h.k \in Taken("if") /\ t[i].k \in Taken("if")
        BY <3>2, <4>1, KindFacts DEF Stmts
      <4> QED
        BY <1>1, <4>1, <4>2
    <3> QED
      BY <3>1, <3>2
  <2> QED
    BY <1>1, <2>1, <2>2, LabelsMore
<1>9. FreshFrame(g, N, D \cup E)
  <2> SUFFICES ASSUME NEW r \in Stmts, g.k \in Taken(r)
               PROVE  g.n < N[r] /\ <<Ending(r), g.n>> \notin D \cup E
    BY DEF FreshFrame
  <2>1. r = s
    BY KindFacts
  <2> QED
    BY <1>1, <1>2, <1>7, <2>1 DEF FreshFrame
<1>10. BackedFrame(g, D \cup E)
  BY DEF BackedFrame
<1>11. \A r \in Stmts : g.k \in Taken(r) =>
           \A i \in 1..Len(t) : t[i].k \in Taken(r) => t[i].n # g.n
  <2>1. \A r \in Stmts : g.k \in Taken(r) => r = s
    BY KindFacts
  <2> QED
    BY <1>1, <1>2, <2>1
<1>12. Labels(d, N, D \cup E)
  BY <1>8, <1>9, <1>10, <1>11, LabelsPush DEF d
<1>13. Used(N, l, D \cup E)
  <2>1. ASSUME NEW r \in Stmts, NEW k \in Kinds(r), NEW m, <<k, m>> \in D \cup E
        PROVE  m \in Nat /\ m < N[r]
    <3>1. CASE <<k, m>> \in E
      <4>1. h.k = "then" /\ m = h.n /\ k = "else" /\ s = "if" /\ "else" \in Kinds(s)
        BY <1>2, <1>5, <3>1
      <4>2. r = s
        BY <2>1, <4>1, KindFacts
      <4>3. h.n < N[s] /\ h.n \in Nat
        BY <1>1, <1>2 DEF FreshFrame, FrameI
      <4> QED
        BY <4>1, <4>2, <4>3
    <3>2. CASE <<k, m>> \in D
      BY <1>1, <2>1, <3>2 DEF Used
    <3> QED
      BY <2>1, <3>1, <3>2
  <2>2. \A k \in OpKinds : \A m : <<k, m>> \notin E
    BY <1>2 DEF OpKinds
  <2> QED
    BY <1>1, <2>1, <2>2 DEF Used
<1>14. Coherent(d, N, l, D \cup E, U \cup (E \cap D), R \cup X)
  BY <1>1, <1>2, <1>3, <1>4, <1>6, <1>12, <1>13 DEF Coherent, Resolved
<1> QED
  BY <1>14 DEF d, t

\* A statement ends with its last label.
LEMMA CoherentEnd ==
    ASSUME NEW c, NEW N, NEW l, NEW D, NEW U, NEW R, Coherent(c, N, l, D, U, R),
           c # <<>>, NEW s \in Stmts, Head(c).k \in Taken(s), Head(c).k # "then",
           NEW E, E = {<<Ending(s), Head(c).n>>},
           NEW X, X \subseteq D \cup {<<"var", FileName>>}
    PROVE  Coherent(Tail(c), N, l, D \cup E, U \cup (E \cap D), R \cup X)
<1> DEFINE t == Tail(c)
           h == Head(c)
<1>1. /\ Labels(t, N, D) /\ h \in FrameI /\ FreshFrame(h, N, D)
      /\ \A r \in Stmts : h.k \in Taken(r) =>
            \A i \in 1..Len(t) : t[i].k \in Taken(r) => t[i].n # h.n
      /\ Used(N, l, D) /\ c \in Seq(FrameI) /\ t \in Seq(FrameI)
      /\ Resolved(c, D, R)
  BY LabelsTail DEF Coherent, Labels
<1>2. h.k \in Taken(s) /\ h.k # "then" /\ E = {<<Ending(s), h.n>>}
  OBVIOUS
<1>10. \A k, m : <<k, m>> \in E => k = Ending(s) /\ m = h.n
  <2> DEFINE e == Ending(s)
             n == h.n
  <2>1. E = {<<e, n>>}
    BY <1>2
  <2> HIDE DEF e, n
  <2>2. \A k, m : <<k, m>> \in E => k = e /\ m = n
    BY <2>1
  <2> QED
    BY <2>2 DEF e, n
<1>3. OwedBy(c) = Owed(h) \cup OwedBy(t)
  BY <1>1, OwedTail
<1> HIDE DEF h, t
<1>4. Owed(h) \subseteq E
  <2>1. CASE s = "if"
    BY <1>2, <2>1, KindFacts DEF Owed
  <2>2. CASE s = "while"
    BY <1>2, <2>2, KindFacts DEF Owed
  <2>3. CASE s = "for"
    BY <1>2, <2>3, KindFacts DEF Owed
  <2> QED
    BY <2>1, <2>2, <2>3 DEF Stmts
<1>5. E \cap D = {} /\ h.n \in Nat /\ h.n < N[s]
  BY <1>1, <1>2 DEF FreshFrame, FrameI
<1>6. Ending(s) # "else" /\ \A r \in Stmts : Ending(r) = Ending(s) => r = s
  BY KindFacts DEF Stmts
<1>7. Labels(t, N, D \cup E)
  <2>1. \A r \in Stmts : N[r] \in Nat /\ N[r] =< N[r]
    BY <1>1 DEF Used
  <2>2. ASSUME NEW r \in Stmts, NEW i \in 1..Len(t), t[i].k \in Taken(r)
        PROVE  /\ <<Ending(r), t[i].n>> \notin E
               /\ <<"else", t[i].n>> \notin E
    <3>1. <<"else", t[i].n>> \notin E
      BY <1>2, <1>6
    <3>2. ASSUME <<Ending(r), t[i].n>> \in E PROVE FALSE
      <4>1. r = s /\ t[i].n = h.n
        BY <1>6, <1>10, <3>2
      <4> QED
        BY <1>1, <1>2, <2>2, <4>1
    <3> QED
      BY <3>1, <3>2
  <2> QED
    BY <1>1, <2>1, <2>2, LabelsMore
<1>8. Used(N, l, D \cup E)
  <2>1. ASSUME NEW r \in Stmts, NEW k \in Kinds(r), NEW m, <<k, m>> \in D \cup E
        PROVE  m \in Nat /\ m < N[r]
    <3>1. CASE <<k, m>> \in E
      <4>1. k = Ending(s) /\ m = h.n /\ Ending(s) \in Kinds(s)
        BY <1>10, <3>1, KindFacts
      <4>2. r = s
        BY <2>1, <4>1, KindFacts
      <4> QED
        BY <1>5, <4>1, <4>2
    <3>2. CASE <<k, m>> \in D
      BY <1>1, <2>1, <3>2 DEF Used
    <3> QED
      BY <2>1, <3>1, <3>2
  <2>2. \A k \in OpKinds : \A m : <<k, m>> \notin E
    <3>1. Ending(s) \notin OpKinds
      BY KindFacts
    <3> QED
      BY <1>2, <3>1
  <2> QED
    BY <1>1, <2>1, <2>2 DEF Used
<1>9. Coherent(t, N, l, D \cup E, U \cup (E \cap D), R \cup X)
  BY <1>1, <1>3, <1>4, <1>5, <1>7, <1>8 DEF Coherent, Resolved
<1> QED
  BY <1>9 DEF t

-----------------------------------------------------------------------------
(* Every action keeps the labels together. *)

Counters == [s \in Stmts |-> stmts[s].number]

LabelInv == Coherent(ctx, Counters, label, defs, dups, refs)

LEMMA LabelSame ==
    ASSUME LabelInv, UNCHANGED <<ctx, stmts, codeVars>>
    PROVE  LabelInv'
BY DEF LabelInv, Counters, codeVars

LEMMA LabelStop ==
    ASSUME LabelInv, NEW r, Stop(r)
    PROVE  LabelInv'
BY LabelSame DEF Stop

\* Raising or lowering index gives out no number, Take gives out one.
LEMMA CountersIndex ==
    ASSUME ScopeInv, NEW s \in Stmts, NEW v, stmts' = [stmts EXCEPT ![s].index = v]
    PROVE  Counters' = Counters
<1>1. DOMAIN stmts = Stmts /\ \A r \in Stmts : stmts[r] \in
         [stack : [0..(MaxNest - 1) -> Nat], index : Int, number : Nat]
  BY DEF ScopeInv, StmtsTyped
<1>2. \A r \in Stmts : stmts'[r].number = stmts[r].number
  BY <1>1
<1> QED
  BY <1>2 DEF Counters

LEMMA CountersTake ==
    ASSUME ScopeInv, NEW s \in Stmts, NEW i, Take(s, i)
    PROVE  /\ Counters'[s] = Counters[s] + 1 /\ \A r \in Stmts \ {s} : Counters'[r] = Counters[r]
           /\ Counters[s] = Number(s) /\ Number(s) \in Nat
<1>1. DOMAIN stmts = Stmts /\ \A r \in Stmts : stmts[r] \in
         [stack : [0..(MaxNest - 1) -> Nat], index : Int, number : Nat]
  BY DEF ScopeInv, StmtsTyped
<1>2. /\ stmts'[s].number = stmts[s].number + 1
      /\ \A r \in Stmts \ {s} : stmts'[r].number = stmts[r].number
  BY <1>1 DEF Take
<1> QED
  BY <1>1, <1>2 DEF Counters, Number

\* The number an end reads is the one on the top frame.
LEMMA PreviousIsTop ==
    ASSUME Statements(ctx, stmts), ctx # <<>>, NEW s \in Stmts, Top.k \in Opened(s)
    PROVE  Previous(s) = Top.n
BY ClosingNumber DEF Previous, Top

LEMMA EntryFields ==
    ASSUME ScopeInv, NEW i \in 1..Len(symbol_table)
    PROVE  symbol_table[i].class \in Class /\ symbol_table[i].name \in Names
<1>1. symbol_table \in Seq(Entry)
  BY DEF ScopeInv, Scope
<1>2. symbol_table[i] \in Entry
  BY <1>1
<1> QED
  BY <1>2 DEF Entry

\* The address of a name found in the table is a label of the code, or would
\* be the storage of the function.
LEMMA KnownAddress ==
    ASSUME ScopeInv, StorageInv, ctx # <<>>, Top.k \notin FunctionFrames,
           NEW x, Found(x)
    PROVE  <<"var", x>> \in defs \cup {<<"var", FileName>>}
<1>1. num_scope > 0
  BY InsideBlock
<1>2. PICK i \in 1..Len(symbol_table) : symbol_table[i].name = x
  BY DEF Found, ScopeInv, Scope
<1>3. symbol_table[i].class \in Class
  BY <1>2, EntryFields
<1>4. CASE symbol_table[i].class = "LOCAL_VARIABLE"
  BY <1>1, <1>2, <1>4 DEF StorageInv, Storage, Declared
<1>5. CASE symbol_table[i].class = "FUNCTION"
  BY <1>2, <1>5 DEF StorageInv, Storage, FunctionNamed
<1> QED
  BY <1>3, <1>4, <1>5 DEF Class

LEMMA VarLabelsNamed ==
    ASSUME NEW x \in Names
    PROVE  VarLabels(x) \subseteq NamedLabels
BY DEF VarLabels, NamedLabels

LEMMA StorageNamed ==
    ASSUME ScopeInv, NEW I \in SUBSET (1..Len(symbol_table))
    PROVE  StorageOf(I) \subseteq NamedLabels
<1>1. \A i \in I : symbol_table[i].name \in Names
  BY EntryFields
<1> QED
  BY <1>1, VarLabelsNamed DEF StorageOf

\* A block opens, or the current one is marked as holding a statement.
LEMMA CoherentBlock ==
    ASSUME ScopeInv, ctx # <<>>, NEW k, NEW n, OpenBlock(k, n),
           NEW N, NEW l, NEW D, NEW U, NEW R,
           Coherent(Push([Top EXCEPT !.k = k, !.n = n], Tail(ctx)), N, l, D, U, R)
    PROVE  Coherent(ctx', N, l, D, U, R)
<1> DEFINE d == Push([Top EXCEPT !.k = k, !.n = n], Tail(ctx))
           b == [k |-> "block", base |-> 0, name |-> NoName, n |-> 0]
<1>1. b \in FrameI /\ b.k = "block"
  BY DEF FrameI, FrameKinds
<1>2. ctx' = Push(b, d) /\ Coherent(d, N, l, D, U, R)
  BY DEF OpenBlock
<1> HIDE DEF d, b
<1> QED
  BY <1>1, <1>2, CoherentPush DEF AllTaken

LEMMA CoherentEnclosing ==
    ASSUME ScopeInv, In("block"), NEW N, NEW l, NEW D, NEW U, NEW R,
           Coherent(ctx, N, l, D, U, R)
    PROVE  Coherent(Enclosing, N, l, D, U, R)
<1> DEFINE g == [Top EXCEPT !.n = 1]
<1>1. ctx # <<>> /\ Head(ctx).k = "block" /\ Top = Head(ctx)
  BY DEF In, Top
<1>2. g \in FrameI /\ g.k = "block"
  BY <1>1, TopTyped DEF FrameI
<1>3. Enclosing = Push(g, Tail(ctx))
  BY DEF Enclosing
<1> HIDE DEF g
<1>4. Coherent(Tail(ctx), N, l, D, U, R)
  BY <1>1, CoherentTail DEF AllTaken
<1> QED
  BY <1>2, <1>3, <1>4, CoherentPush DEF AllTaken

LEMMA LabelFunctionRule ==
    ASSUME ScopeInv, StorageInv, LabelInv, FunctionRule
    PROVE  LabelInv'
<1> DEFINE C(c, D, U, R) == Coherent(c, Counters, label, D, U, R)
<1>1. C(ctx, defs, dups, refs)
  BY DEF LabelInv
<1>2. ASSUME NEW k \in FunctionFrames \cup Block, In(k)
      PROVE  ctx # <<>> /\ Top.k = k /\ C(Tail(ctx), defs, dups, refs)
  <2>1. ctx # <<>> /\ Top.k = k /\ Head(ctx).k = k /\ k \notin AllTaken
    BY <1>2 DEF In, Top, FunctionFrames, Block, AllTaken
  <2> QED
    BY <1>1, <2>1, CoherentTail
<1>3. ASSUME NEW c, NEW D, NEW U, NEW R, C(c, D, U, R),
             NEW k \in {"begun", "params", "body", "block"}, NEW x \in Names \cup {NoName}
      PROVE  C(Push(NewFrame(k, x, 0), c), D, U, R)
  <2>1. k \in FrameKinds /\ 0 \in Nat /\ (k = "set" => x \in Names)
        /\ k \notin AllTaken /\ k # "forinit"
    BY <1>3 DEF FrameKinds, AllTaken
  <2>2. NewFrame(k, x, 0) \in FrameI /\ NewFrame(k, x, 0).k = k
    BY <2>1, FrameTyped
  <2> QED
    BY <1>3, <2>1, <2>2, CoherentPush
<1>4. ASSUME C(ctx', defs, dups, refs), UNCHANGED <<stmts, codeVars>>
      PROVE  LabelInv'
  BY <1>4 DEF LabelInv, Counters, codeVars
<1>5. "begun" \in FunctionFrames /\ "params" \in FunctionFrames
      /\ "body" \in FunctionFrames /\ "end" \in FunctionFrames /\ "block" \in Block
      /\ NoName \in Names \cup {NoName} /\ FileName \in Names
  BY ConstantsAssumption DEF FunctionFrames, Block
<1> HIDE DEF C
<1>6. ASSUME NEW p \in Packages, BeginPackage(p) PROVE LabelInv'
  <2>1. CASE Stop("aborted")
    BY <2>1, LabelStop
  <2>2. CASE ~Stop("aborted")
    <3>1. ctx' = Push(NewFrame("begun", NoName, 0), ctx) /\ UNCHANGED <<stmts, codeVars>>
      BY <1>6, <2>2 DEF BeginPackage
    <3> QED
      BY <1>1, <1>3, <1>4, <1>5, <3>1
  <2> QED
    BY <2>1, <2>2
<1>7. ASSUME NEW p \in Packages, EndPackage(p) PROVE LabelInv'
  <2>1. \/ Stop("aborted") \/ Stop("crashed")
        \/ In("end") /\ ctx' = Tail(ctx) /\ UNCHANGED <<stmts, codeVars>>
    BY <1>7 DEF EndPackage
  <2> QED
    BY <1>2, <1>4, <1>5, <2>1, LabelStop
<1>8. ASSUME NEW x \in Names, FunctionName(x) PROVE LabelInv'
  <2>1. CASE Stop("aborted")
    BY <2>1, LabelStop
  <2>2. CASE ~Stop("aborted")
    <3>1. /\ In("begun") /\ ctx' = Push(NewFrame("params", x, 0), Tail(ctx))
          /\ UNCHANGED <<stmts, codeVars>>
      BY <1>8, <2>2 DEF FunctionName
    <3> QED
      BY <1>2, <1>3, <1>4, <1>5, <3>1
  <2> QED
    BY <2>1, <2>2
<1>9. ASSUME NEW x \in Names, Parameter(x) PROVE LabelInv'
  <2>1. Stop("aborted") \/ UNCHANGED <<ctx, stmts, codeVars>>
    BY <1>9 DEF Parameter
  <2> QED
    BY <2>1, LabelStop, LabelSame
<1>10. CASE ParamsEnd
  <2>1. CASE Stop("crashed")
    BY <2>1, LabelStop
  <2>2. CASE ~Stop("crashed")
    <3> DEFINE n == search_symbol_table(FileName).nParams
               E == StorageOf(1..n) \cup {<<"fun", FileName>>}
               X == StorageOf(1..n) \cup Addresses(1..n)
               d == Push(NewFrame("body", FileName, 0), Tail(ctx))
               e == Push(NewFrame("block", NoName, 0), d)
    <3>1. /\ In("params") /\ ~(n > Len(symbol_table)) /\ Emit(E, X)
          /\ ctx' = e /\ UNCHANGED <<stmts, label>>
      BY <1>10, <2>2 DEF ParamsEnd
    <3>2. symbol_table \in Seq(Entry) /\ n \in Nat /\ n =< Len(symbol_table)
      <4>1. symbol_table \in Seq(Entry) /\ Len(symbol_table) \in Nat
        BY DEF ScopeInv, Scope
      <4>2. FunctionLast(symbol_table) /\ Ordered(symbol_table, num_scope)
        <5>1. ctx # <<>> /\ Len(ctx) = 1 /\ ctx[1].k = "params"
          BY <3>1, ScopeFacts DEF ScopeInv, In, Top, FunctionFrames
        <5> QED
          BY <5>1 DEF ScopeInv, Scope, FunctionEntry
      <4>3. n \in Nat
        BY <4>1, <4>2, FunctionPosition DEF Entry
      <4> HIDE DEF n
      <4> QED
        BY <3>1, <4>1, <4>3
    <3> HIDE DEF n
    <3>3. 1..n \in SUBSET (1..Len(symbol_table))
      BY <3>2
    <3>4. E \in SUBSET NamedLabels
      <4>1. <<"fun", FileName>> \in NamedLabels
        BY <1>5 DEF NamedLabels
      <4> QED
        BY <3>3, <4>1, StorageNamed
    <3>5. Addresses(1..n) \subseteq StorageOf(1..n) \cup {<<"var", FileName>>}
      <4> SUFFICES ASSUME NEW i \in 1..n, symbol_table[i].name # FileName
                   PROVE  <<"var", symbol_table[i].name>> \in StorageOf(1..n)
        BY DEF Addresses
      <4>1. symbol_table[i].class \in Class /\ i \in 1..Len(symbol_table)
        BY <3>3, EntryFields
      <4>2. symbol_table[i].class = "LOCAL_VARIABLE"
        BY <4>1 DEF Class, StorageInv, Storage, FunctionNamed
      <4> QED
        BY <4>2 DEF StorageOf, VarLabels
    <3>6. X \subseteq defs \cup E \cup {<<"var", FileName>>}
      BY <3>5
    <3> HIDE DEF E, X
    <3>7. C(ctx', defs, dups, refs)
      <4>1. C(d, defs, dups, refs)
        BY <1>2, <1>3, <1>5, <3>1
      <4> HIDE DEF d
      <4> QED
        BY <1>3, <1>5, <3>1, <4>1
    <3>8. C(ctx', defs \cup E, dups \cup (E \cap defs), refs \cup X)
      BY <3>4, <3>6, <3>7, CoherentEmit DEF C
    <3> QED
      BY <3>1, <3>8 DEF C, LabelInv, Counters, Emit
  <2> QED
    BY <2>1, <2>2
<1>11. CASE CloseBlock
  BY <1>2, <1>4, <1>5, <1>11 DEF CloseBlock
<1>12. CASE FreeParameters
  <2> DEFINE g == [Top EXCEPT !.k = "end"]
  <2>1. In("body") /\ ctx' = Push(g, Tail(ctx)) /\ UNCHANGED <<stmts, codeVars>>
    BY <1>12 DEF FreeParameters
  <2>2. g \in FrameI /\ g.k = "end"
    <3>1. ctx # <<>> /\ "end" \in FrameKinds
      BY <2>1 DEF In, FrameKinds
    <3> QED
      BY <3>1, TopTyped DEF FrameI
  <2> HIDE DEF g
  <2>3. C(ctx', defs, dups, refs)
    BY <1>2, <1>5, <2>1, <2>2, CoherentPush DEF C, AllTaken
  <2> QED
    BY <1>4, <2>1, <2>3
<1>13. CASE EndOfFile
  <2> DEFINE I == {i \in DOMAIN symbol_table :
                     symbol_table[i].class = "LOCAL_VARIABLE"}
             E == StorageOf(I)
             X == {<<"jump:var", symbol_table[i].name>> : i \in I}
  <2>1. Emit(E, X) /\ UNCHANGED <<ctx, stmts, label>>
    BY <1>13 DEF EndOfFile
  <2>2. I \in SUBSET (1..Len(symbol_table))
    BY DEF ScopeInv, Scope
  <2>3. E \in SUBSET NamedLabels
    <3> HIDE DEF I
    <3> QED
      BY <2>2, StorageNamed
  <2>4. X \subseteq defs \cup E \cup {<<"var", FileName>>}
    BY DEF StorageOf, VarLabels
  <2> HIDE DEF E, X
  <2>5. C(ctx, defs \cup E, dups \cup (E \cap defs), refs \cup X)
    BY <1>1, <2>3, <2>4, CoherentEmit DEF C
  <2> QED
    BY <2>1, <2>5 DEF C, LabelInv, Counters, Emit
<1>14. CASE SyntaxError
  BY <1>14, LabelStop DEF SyntaxError
<1> QED
  BY <1>6, <1>7, <1>8, <1>9, <1>10, <1>11, <1>12, <1>13, <1>14 DEF FunctionRule

-----------------------------------------------------------------------------
(* Statements. *)

\* What holds after a step that writes the labels E and uses X.
LEMMA LabelEmit ==
    ASSUME NEW E, NEW X, Emit(E, X),
           Coherent(ctx', Counters', label', defs \cup E, dups \cup (E \cap defs), refs \cup X)
    PROVE  LabelInv'
BY DEF LabelInv, Emit

LEMMA EmitNothing ==
    ASSUME UNCHANGED codeVars
    PROVE  Emit({}, {}) /\ label' = label
BY DEF Emit, codeVars

LEMMA TopIs ==
    ASSUME NEW k, In(k) \/ ExprDone(k)
    PROVE  ctx # <<>> /\ Top.k = k /\ Head(ctx).k = k /\ Top = Head(ctx)
BY DEF In, ExprDone, Top

\* A statement begins with the expression of frame k.
LEMMA LabelStart ==
    ASSUME ScopeInv, LabelInv, In("block"),
           NEW k \in {"set", "return", "if", "forinit"}, NEW x \in Names \cup {NoName},
           k = "set" => x \in Names,
           NEW E \in SUBSET NamedLabels, NEW X, X \subseteq defs \cup E \cup {<<"var", FileName>>},
           k = "forinit" => <<"var", x>> \in defs \cup E, Emit(E, X),
           ctx' = Push(NewFrame(k, x, 0), Enclosing), UNCHANGED <<stmts, label>>
    PROVE  LabelInv'
<1> DEFINE f == NewFrame(k, x, 0)
           D == defs \cup E
           U == dups \cup (E \cap defs)
           R == refs \cup X
<1>1. f \in FrameI /\ f.k = k /\ f.name = x
  <2>1. k \in FrameKinds /\ 0 \in Nat
    BY DEF FrameKinds, ExprFrames
  <2> QED
    BY <2>1, FrameTyped
<1>2. Coherent(ctx, Counters, label, D, U, R)
  BY CoherentEmit DEF LabelInv
<1>3. ctx' = Push(f, Enclosing) /\ (k = "forinit" => <<"var", x>> \in D)
  OBVIOUS
<1> HIDE DEF f, D, U, R
<1>4. Coherent(Enclosing, Counters, label, D, U, R)
  BY <1>2, CoherentEnclosing
<1>5. f.k \notin AllTaken
  BY <1>1 DEF AllTaken
<1>6. Coherent(ctx', Counters, label, D, U, R)
  BY <1>1, <1>3, <1>4, <1>5, CoherentPush
<1>7. Counters' = Counters
  BY DEF Counters
<1> QED
  BY <1>6, <1>7, LabelEmit DEF D, U, R

\* A statement that is only an expression is complete.
LEMMA LabelLeave ==
    ASSUME ScopeInv, LabelInv, ctx # <<>>, Top.k \notin AllTaken,
           NEW E \in SUBSET NamedLabels, NEW X, X \subseteq defs \cup E \cup {<<"var", FileName>>},
           Emit(E, X), ctx' = Tail(ctx), UNCHANGED <<stmts, label>>
    PROVE  LabelInv'
<1>1. Coherent(ctx, Counters, label, defs \cup E, dups \cup (E \cap defs), refs \cup X)
  BY CoherentEmit DEF LabelInv
<1>2. Coherent(ctx', Counters, label, defs \cup E, dups \cup (E \cap defs), refs \cup X)
  BY <1>1, CoherentTail DEF Top
<1>3. Counters' = Counters
  BY DEF Counters
<1> QED
  BY <1>2, <1>3, LabelEmit

\* Names: \SET, \INCR, \DECR, the head of \DOFORI; \RETURN and the test of \IF.
LEMMA LabelNames ==
    ASSUME ScopeInv, StorageInv, LabelInv,
           \/ \E x \in Names : SetStart(x) \/ Step(x) \/ ForName(x)
           \/ ReturnStart \/ IfStart \/ Set \/ Return
    PROVE  LabelInv'
<1>1. {} \in SUBSET NamedLabels /\ {} \subseteq defs \cup {} \cup {<<"var", FileName>>}
  OBVIOUS
<1>2. ASSUME NEW k \in {"set", "return", "if"}, NEW x \in Names \cup {NoName},
             k = "set" => x \in Names, In("block"), UNCHANGED <<stmts, codeVars>>,
             ctx' = Push(NewFrame(k, x, 0), Enclosing)
      PROVE  LabelInv'
  BY <1>1, <1>2, EmitNothing, LabelStart
<1>3. ASSUME NEW x \in Names, SetStart(x) PROVE LabelInv'
  BY <1>2, <1>3 DEF SetStart, OpenExpression
<1>4. CASE ReturnStart
  BY <1>2, <1>4 DEF ReturnStart, OpenExpression
<1>5. CASE IfStart
  BY <1>2, <1>5 DEF IfStart, OpenExpression
<1>6. ASSUME NEW x \in Names, Step(x) PROVE LabelInv'
  <2>1. CASE Stop("aborted")
    BY <2>1, LabelStop
  <2>2. CASE ~Stop("aborted")
    <3>1. /\ In("block") /\ Found(x) /\ Emit({}, {<<"var", x>>}) /\ ctx' = Enclosing
          /\ UNCHANGED <<stmts, label>>
      BY <1>6, <2>2 DEF Step
    <3>2. {<<"var", x>>} \subseteq defs \cup {} \cup {<<"var", FileName>>}
      BY <3>1, TopIs, KnownAddress DEF FunctionFrames
    <3>3. Coherent(ctx, Counters, label, defs \cup {}, dups \cup ({} \cap defs),
                   refs \cup {<<"var", x>>})
      BY <1>1, <3>2, CoherentEmit DEF LabelInv
    <3>4. Coherent(ctx', Counters, label, defs \cup {}, dups \cup ({} \cap defs),
                   refs \cup {<<"var", x>>})
      BY <3>1, <3>3, CoherentEnclosing
    <3>5. Counters' = Counters
      BY <3>1 DEF Counters
    <3> QED
      BY <3>1, <3>4, <3>5, LabelEmit
  <2> QED
    BY <2>1, <2>2
<1>7. ASSUME NEW x \in Names, ForName(x) PROVE LabelInv'
  <2>1. CASE Stop("refused")
    BY <2>1, LabelStop
  <2>2. CASE ~Stop("refused")
    <3>1. /\ In("block") /\ Emit(VarLabels(x), {<<"jump:var", x>>})
          /\ ctx' = Push(NewFrame("forinit", x, 0), Enclosing)
          /\ UNCHANGED <<stmts, label>>
      BY <1>7, <2>2 DEF ForName
    <3>2. /\ VarLabels(x) \in SUBSET NamedLabels /\ <<"var", x>> \in defs \cup VarLabels(x)
          /\ {<<"jump:var", x>>} \subseteq defs \cup VarLabels(x) \cup {<<"var", FileName>>}
      <4>1. VarLabels(x) \subseteq NamedLabels
        BY VarLabelsNamed
      <4> QED
        BY <4>1 DEF VarLabels
    <3> QED
      BY <3>1, <3>2, LabelStart
  <2> QED
    BY <2>1, <2>2
<1>8. CASE Set
  <2>1. ctx # <<>> /\ Top.k = "set" /\ Top.name \in Names /\ Top.k \notin AllTaken
    BY <1>8, TopIs, TopTyped DEF Set, AllTaken
  <2>2. ctx' = Tail(ctx) /\ UNCHANGED <<stmts, label>>
    BY <1>8 DEF Set
  <2>3. CASE Found(Top.name)
    <3>1. Emit({}, {<<"var", Top.name>>})
      BY <1>8, <2>3 DEF Set
    <3>2. {<<"var", Top.name>>} \subseteq defs \cup {} \cup {<<"var", FileName>>}
      BY <2>1, <2>3, KnownAddress DEF FunctionFrames
    <3> QED
      BY <1>1, <2>1, <2>2, <3>1, <3>2, LabelLeave
  <2>4. CASE ~Found(Top.name)
    <3>1. Emit(VarLabels(Top.name), VarLabels(Top.name))
      BY <1>8, <2>4 DEF Set
    <3>2. /\ VarLabels(Top.name) \in SUBSET NamedLabels
          /\ VarLabels(Top.name) \subseteq defs \cup VarLabels(Top.name) \cup {<<"var", FileName>>}
      BY <2>1, VarLabelsNamed
    <3> QED
      BY <2>1, <2>2, <3>1, <3>2, LabelLeave
  <2> QED
    BY <2>3, <2>4
<1>9. CASE Return
  <2>1. ctx # <<>> /\ Top.k = "return" /\ Top.k \notin AllTaken
    BY <1>9, TopIs DEF Return, AllTaken
  <2>2. ctx' = Tail(ctx) /\ UNCHANGED <<stmts, codeVars>>
    BY <1>9 DEF Return
  <2> QED
    BY <1>1, <2>1, <2>2, EmitNothing, LabelLeave
<1> QED
  BY <1>3, <1>4, <1>5, <1>6, <1>7, <1>8, <1>9

\* \IF, \WHILE and \DOFORI take their numbers.
LEMMA LabelTake ==
    ASSUME ScopeInv, LabelInv, NEW s \in Stmts, NEW i, Take(s, i),
           NEW c, Coherent(c, Counters, label, defs, dups, refs),
           NEW f \in FrameI, f.k \in Taken(s), f.n = Number(s),
           NEW K \in SUBSET (Kinds(s) \cap {"beginwhile", "beginfor"}),
           NEW E, E = K \X {Number(s)}, NEW X,
           BackedFrame(f, defs \cup E),
           X \subseteq defs \cup E \cup Owed(f) \cup {<<"var", FileName>>}
    PROVE  Coherent(Push(f, c), Counters', label, defs \cup E, dups \cup (E \cap defs), refs \cup X)
<1> DEFINE N == Counters
           M == Counters'
<1>1. M[s] = N[s] + 1 /\ (\A r \in Stmts \ {s} : M[r] = N[r]) /\ N[s] = Number(s)
  BY CountersTake
<1>2. Coherent(c, N, label, defs, dups, refs)
  OBVIOUS
<1> HIDE DEF N, M
<1>3. /\ f.n = N[s] /\ E = K \X {N[s]} /\ BackedFrame(f, defs \cup (K \X {N[s]}))
      /\ X \subseteq defs \cup (K \X {N[s]}) \cup Owed(f) \cup {<<"var", FileName>>}
  BY <1>1
<1>4. Coherent(Push(f, c), M, label, defs \cup (K \X {N[s]}),
               dups \cup ((K \X {N[s]}) \cap defs), refs \cup X)
  BY <1>1, <1>2, <1>3, CoherentTake
<1> QED
  BY <1>3, <1>4 DEF M

LEMMA LabelBeginIf ==
    ASSUME ScopeInv, LabelInv, BeginIf
    PROVE  LabelInv'
<1> DEFINE v == Number("if")
           g == [Top EXCEPT !.k = "then", !.n = v]
           X == {<<"else", v>>}
<1>1. /\ ctx # <<>> /\ Top.k = "if" /\ Head(ctx).k = "if" /\ Take("if", 1)
      /\ Emit({}, X) /\ OpenBlock("then", v) /\ label' = label /\ "if" \in Stmts
  BY TopIs DEF BeginIf, Stmts
<1>2. g \in FrameI /\ g.k = "then" /\ g.n = v
  <2>1. "then" \in FrameKinds \ {"set"} /\ v \in Nat
    BY <1>1, CountersTake DEF FrameKinds
  <2> HIDE DEF v
  <2> QED
    BY <1>1, <2>1, TopBecomes
<1>3. Coherent(Tail(ctx), Counters, label, defs, dups, refs)
  BY <1>1, CoherentTail DEF LabelInv, AllTaken
<1>4. Owed(g) = X
  BY <1>2 DEF Owed
<1> HIDE DEF g, X, v
<1>5. /\ {} \in SUBSET (Kinds("if") \cap {"beginwhile", "beginfor"})
      /\ {} = {} \X {Number("if")} /\ g.k \in Taken("if") /\ BackedFrame(g, defs \cup {})
  BY <1>2, KindFacts DEF BackedFrame, ForFrames
<1>6. Coherent(Push(g, Tail(ctx)), Counters', label, defs \cup {},
               dups \cup ({} \cap defs), refs \cup X)
  BY <1>1, <1>2, <1>3, <1>4, <1>5, LabelTake DEF v
<1>7. Coherent(ctx', Counters', label, defs \cup {}, dups \cup ({} \cap defs), refs \cup X)
  BY <1>1, <1>6, CoherentBlock DEF g
<1> QED
  BY <1>1, <1>7, LabelEmit

LEMMA LabelWhileStart ==
    ASSUME ScopeInv, LabelInv, WhileStart
    PROVE  LabelInv'
<1> DEFINE v == Number("while")
           f == NewFrame("while", NoName, v)
           E == {<<"beginwhile", v>>}
<1>1. /\ In("block") /\ Take("while", 1) /\ Emit(E, {}) /\ ctx' = Push(f, Enclosing)
      /\ label' = label /\ "while" \in Stmts
  BY DEF WhileStart, Stmts
<1>2. f \in FrameI /\ f.k = "while" /\ f.n = v
  <2>1. "while" \in FrameKinds /\ NoName \in Names \cup {NoName} /\ v \in Nat
    BY <1>1, CountersTake DEF FrameKinds, ExprFrames
  <2> HIDE DEF v
  <2> QED
    BY <2>1, FrameTyped DEF NewFrame
<1>3. Coherent(Enclosing, Counters, label, defs, dups, refs)
  BY <1>1, CoherentEnclosing DEF LabelInv
<1>4. E = {"beginwhile"} \X {v} /\ BackedFrame(f, defs \cup E)
  BY <1>2 DEF BackedFrame, ForFrames
<1> HIDE DEF f, v, E
<1>5. /\ {"beginwhile"} \in SUBSET (Kinds("while") \cap {"beginwhile", "beginfor"})
      /\ f.k \in Taken("while")
  BY <1>2, KindFacts
<1>6. Coherent(Push(f, Enclosing), Counters', label, defs \cup E,
               dups \cup (E \cap defs), refs \cup {})
  BY <1>1, <1>2, <1>3, <1>4, <1>5, LabelTake DEF v
<1> QED
  BY <1>1, <1>6, LabelEmit

LEMMA LabelForInit ==
    ASSUME ScopeInv, LabelInv, ForInit
    PROVE  LabelInv'
<1> DEFINE v == Number("for")
           g == [Top EXCEPT !.k = "forbound", !.n = v]
           E == {<<"beginfor", v>>}
           X == {<<"var", Top.name>>}
<1>1. /\ ctx # <<>> /\ Top.k = "forinit" /\ Head(ctx) = Top /\ Take("for", 0)
      /\ Emit(E, X) /\ ctx' = Push(g, Tail(ctx)) /\ label' = label /\ "for" \in Stmts
  BY TopIs DEF ForInit, Stmts
<1>2. g \in FrameI /\ g.k = "forbound" /\ g.n = v /\ g.name = Top.name
  <2>1. "forbound" \in FrameKinds \ {"set"} /\ v \in Nat
    BY <1>1, CountersTake DEF FrameKinds, ExprFrames
  <2>2. Top \in [k : FrameKinds, base : Int, name : Names \cup {NoName}, n : Nat]
    BY <1>1, TopTyped DEF FrameI
  <2> HIDE DEF v
  <2> QED
    BY <1>1, <2>1, <2>2, TopBecomes
<1>3. X \subseteq defs
  <2>1. BackedFrame(Top, defs)
    BY <1>1, LabelsTail DEF LabelInv, Coherent
  <2> QED
    BY <1>1, <2>1 DEF BackedFrame, ForFrames
<1>4. Coherent(Tail(ctx), Counters, label, defs, dups, refs)
  BY <1>1, CoherentTail DEF LabelInv, AllTaken
<1>5. E = {"beginfor"} \X {v} /\ BackedFrame(g, defs \cup E)
  BY <1>2, <1>3 DEF BackedFrame, ForFrames
<1> HIDE DEF g, E, X, v
<1>6. /\ {"beginfor"} \in SUBSET (Kinds("for") \cap {"beginwhile", "beginfor"})
      /\ g.k \in Taken("for") /\ X \subseteq defs \cup E \cup Owed(g) \cup {<<"var", FileName>>}
  BY <1>2, <1>3, KindFacts
<1>7. Coherent(Push(g, Tail(ctx)), Counters', label, defs \cup E,
               dups \cup (E \cap defs), refs \cup X)
  BY <1>1, <1>2, <1>4, <1>5, <1>6, LabelTake DEF v
<1> QED
  BY <1>1, <1>7, LabelEmit

\* The next part of a statement.
LEMMA LabelParts ==
    ASSUME ScopeInv, Statements(ctx, stmts), LabelInv, EndIf \/ Else \/ WhileCondition
    PROVE  LabelInv'
<1>1. \A k : In(k) \/ ExprDone(k) => ctx # <<>> /\ Top.k = k /\ Head(ctx).k = k /\ Top = Head(ctx)
  BY TopIs
<1>2. ASSUME ctx # <<>>, NEW k \in {"thenEnd", "else", "do"}
      PROVE  /\ [Top EXCEPT !.k = k, !.n = Top.n] \in FrameI
             /\ [Top EXCEPT !.k = k, !.n = Top.n].k = k
             /\ [Top EXCEPT !.k = k, !.n = Top.n].n = Top.n
  <2>1. k \in FrameKinds \ {"set"} /\ Top.n \in Nat
    BY <1>2, TopTyped DEF FrameKinds
  <2> QED
    BY <1>2, <2>1, TopBecomes
<1>3. UNCHANGED stmts => Counters' = Counters
  BY DEF Counters
<1>4. ctx # <<>> => FreshFrame(Top, Counters, defs) /\ BackedFrame(Top, defs)
  BY LabelsTail DEF LabelInv, Coherent, Top
<1>5. CASE EndIf
  <2> DEFINE g == [Top EXCEPT !.k = "thenEnd"]
             E == {<<"else", Previous("if")>>}
             X == {<<"endif", Previous("if")>>}
  <2>1. /\ ctx # <<>> /\ Head(ctx).k = "then" /\ Top = Head(ctx) /\ Emit(E, X)
        /\ ctx' = Push(g, Tail(ctx)) /\ UNCHANGED <<stmts, label>>
    BY <1>1, <1>5 DEF EndIf
  <2>2. g \in FrameI /\ g.k = "thenEnd" /\ g.n = Top.n
    <3>1. "thenEnd" \in FrameKinds
      BY DEF FrameKinds
    <3> QED
      BY <2>1, <3>1, TopTyped DEF FrameI
  <2>3. Previous("if") = Top.n
    <3>1. "if" \in Stmts /\ Top.k \in Opened("if")
      BY <2>1, OpenedKinds DEF Stmts
    <3> QED
      BY <2>1, <3>1, PreviousIsTop
  <2>4. E = {<<"else", g.n>>} /\ X = Owed(g) /\ Owed(Head(ctx)) \subseteq E
    BY <2>1, <2>2, <2>3 DEF Owed
  <2> HIDE DEF g, E, X
  <2>5. "if" \in Stmts /\ {"then", "thenEnd"} \subseteq Taken("if") /\ BackedFrame(g, defs)
    BY <2>2, KindFacts DEF Stmts, BackedFrame, ForFrames
  <2>6. /\ Head(ctx).k \in Taken("if") /\ g.k \in Taken("if") /\ g.k # "then"
        /\ g.n = Head(ctx).n /\ Owed(Head(ctx)) \subseteq E \cup Owed(g)
        /\ X \subseteq defs \cup E \cup Owed(g) \cup {<<"var", FileName>>}
        /\ Coherent(ctx, Counters, label, defs, dups, refs)
    BY <2>1, <2>2, <2>4, <2>5 DEF LabelInv
  <2>7. Coherent(Push(g, Tail(ctx)), Counters, label, defs \cup E, dups \cup (E \cap defs),
                 refs \cup X)
    BY <2>1, <2>2, <2>4, <2>5, <2>6, CoherentSwap
  <2> QED
    BY <1>3, <2>1, <2>7, LabelEmit
<1>6. CASE Else
  <2> DEFINE g == [Top EXCEPT !.k = "else", !.n = Top.n]
  <2>1. /\ ctx # <<>> /\ Head(ctx).k = "thenEnd" /\ Top = Head(ctx)
        /\ OpenBlock("else", Top.n) /\ UNCHANGED <<stmts, codeVars>>
    BY <1>1, <1>6 DEF Else
  <2>2. g \in FrameI /\ g.k = "else" /\ g.n = Head(ctx).n
    BY <1>2, <2>1
  <2> HIDE DEF g
  <2>3. /\ "if" \in Stmts /\ {"thenEnd", "else"} \subseteq Taken("if") /\ BackedFrame(g, defs)
        /\ Owed(Head(ctx)) \subseteq {} \cup Owed(g)
    BY <2>1, <2>2, KindFacts DEF Stmts, BackedFrame, Owed, ForFrames
  <2>4. Coherent(Push(g, Tail(ctx)), Counters, label, defs \cup {}, dups \cup ({} \cap defs),
                 refs \cup {})
    BY <2>1, <2>2, <2>3, CoherentSwap DEF LabelInv
  <2>5. Coherent(ctx', Counters, label, defs \cup {}, dups \cup ({} \cap defs), refs \cup {})
    BY <2>1, <2>4, CoherentBlock DEF g
  <2> QED
    BY <1>3, <2>1, <2>5, EmitNothing, LabelEmit
<1>7. CASE WhileCondition
  <2> DEFINE g == [Top EXCEPT !.k = "do", !.n = Top.n]
             X == {<<"endwhile", Previous("while")>>}
  <2>1. /\ ctx # <<>> /\ Head(ctx).k = "while" /\ Top = Head(ctx)
        /\ OpenBlock("do", Top.n) /\ Emit({}, X) /\ UNCHANGED <<stmts, label>>
    BY <1>1, <1>7 DEF WhileCondition
  <2>2. g \in FrameI /\ g.k = "do" /\ g.n = Head(ctx).n
    BY <1>2, <2>1
  <2>3. Previous("while") = Top.n
    <3>1. "while" \in Stmts /\ Top.k \in Opened("while")
      BY <2>1, OpenedKinds DEF Stmts
    <3> QED
      BY <2>1, <3>1, PreviousIsTop
  <2>4. X = Owed(g) /\ Owed(Head(ctx)) = {}
    BY <2>1, <2>2, <2>3 DEF Owed
  <2> HIDE DEF g, X
  <2>5. /\ "while" \in Stmts /\ {"while", "do"} \subseteq Taken("while")
        /\ BackedFrame(g, defs)
    BY <1>4, <2>1, <2>2, KindFacts DEF Stmts, BackedFrame, ForFrames
  <2>6. /\ Head(ctx).k \in Taken("while") /\ Head(ctx).k # "then"
        /\ g.k \in Taken("while") /\ g.k # "then" /\ Owed(Head(ctx)) \subseteq {} \cup Owed(g)
        /\ X \subseteq defs \cup {} \cup Owed(g) \cup {<<"var", FileName>>}
        /\ Coherent(ctx, Counters, label, defs, dups, refs)
    BY <2>1, <2>2, <2>4, <2>5 DEF LabelInv
  <2>7. Coherent(Push(g, Tail(ctx)), Counters, label, defs \cup {}, dups \cup ({} \cap defs),
                 refs \cup X)
    BY <2>1, <2>2, <2>5, <2>6, CoherentSwap
  <2>8. Coherent(ctx', Counters, label, defs \cup {}, dups \cup ({} \cap defs), refs \cup X)
    BY <2>1, <2>7, CoherentBlock DEF g
  <2> QED
    BY <1>3, <2>1, <2>8, LabelEmit
<1> QED
  BY <1>5, <1>6, <1>7

LEMMA LabelForBound ==
    ASSUME ScopeInv, Statements(ctx, stmts), LabelInv, ForBound
    PROVE  LabelInv'
<1>1. CASE Stop("aborted")
  BY <1>1, LabelStop
<1>2. CASE ~Stop("aborted")
  <2> DEFINE g == [Top EXCEPT !.k = "for", !.n = Top.n]
             K == {"lt:true", "lt:endtrue"}
             E == {<<"lt:true", label>>, <<"lt:endtrue", label>>}
             V == {<<"var", Top.name>>}
             X == {<<"endfor", Current("for")>>}
             R == {<<"lt:true", label>>, <<"lt:endtrue", label>>,
                   <<"var", Top.name>>, <<"endfor", Current("for")>>}
  <2>1. /\ ctx # <<>> /\ Top.k = "forbound" /\ Head(ctx) = Top /\ Head(ctx).k = "forbound"
        /\ OpenBlock("for", Top.n) /\ Emit(E, R) /\ label' = label + 1
        /\ stmts' = [stmts EXCEPT !["for"].index = @ + 1] /\ "for" \in Stmts
    BY <1>2, TopIs DEF ForBound, NewLabel, Stmts
  <2>2. g \in FrameI /\ g.k = "for" /\ g.n = Head(ctx).n /\ g.name = Top.name
    <3>1. "for" \in FrameKinds \ {"set"} /\ Top.n \in Nat
      BY <2>1, TopTyped DEF FrameKinds
    <3>2. Top \in [k : FrameKinds, base : Int, name : Names \cup {NoName}, n : Nat]
      BY <2>1, TopTyped DEF FrameI
    <3> QED
      BY <2>1, <3>1, <3>2, TopBecomes
  <2>3. Current("for") = Top.n
    <3>1. 1 \in 1..Len(ctx) /\ ctx[1] = Top
      BY <2>1, TopStands DEF ScopeInv, Scope, Top
    <3> QED
      BY <2>1, <3>1 DEF Statements, BoundNumber, Current
  <2>4. BackedFrame(Top, defs)
    BY <2>1, LabelsTail DEF LabelInv, Coherent
  <2>5. BackedFrame(g, defs) /\ V \subseteq defs
    BY <2>1, <2>2, <2>4 DEF BackedFrame, ForFrames
  <2>6. /\ E = K \X {label} /\ R = (E \cup V) \cup X /\ K \in SUBSET OpKinds
        /\ X = Owed(g) /\ Owed(Head(ctx)) = {}
    BY <2>1, <2>2, <2>3 DEF Owed, OpKinds
  <2>7. Counters' = Counters
    <3> DEFINE v == stmts["for"].index + 1
    <3>1. stmts' = [stmts EXCEPT !["for"].index = v]
      BY <2>1
    <3> HIDE DEF v
    <3> QED
      BY <2>1, <3>1, CountersIndex
  <2> HIDE DEF g, K, E, V, X, R
  <2>8. Coherent(ctx, Counters, label + 1, defs \cup E, dups \cup (E \cap defs),
                 refs \cup (E \cup V))
    BY <2>5, <2>6, CoherentOperator DEF LabelInv
  <2> DEFINE D1 == defs \cup E
             U1 == dups \cup (E \cap defs)
             R1 == refs \cup (E \cup V)
             l1 == label + 1
  <2>9. Coherent(ctx, Counters, l1, D1, U1, R1) /\ BackedFrame(g, D1)
    BY <2>5, <2>8 DEF BackedFrame
  <2>10. R1 \cup X = refs \cup R
    BY <2>6
  <2> HIDE DEF D1, U1, R1, l1
  <2>11. /\ Head(ctx).k \in Taken("for") /\ Head(ctx).k # "then"
         /\ g.k \in Taken("for") /\ g.k # "then" /\ Owed(Head(ctx)) \subseteq {} \cup Owed(g)
         /\ X \subseteq D1 \cup {} \cup Owed(g) \cup {<<"var", FileName>>}
    BY <2>1, <2>2, <2>6, KindFacts
  <2>12. Coherent(Push(g, Tail(ctx)), Counters, l1, D1 \cup {}, U1 \cup ({} \cap D1), R1 \cup X)
    BY <2>1, <2>2, <2>9, <2>11, CoherentSwap
  <2>13. Coherent(Push(g, Tail(ctx)), Counters, l1, D1, U1, refs \cup R)
    <3>1. D1 \cup {} = D1 /\ U1 \cup ({} \cap D1) = U1
      OBVIOUS
    <3> QED
      BY <2>10, <2>12, <3>1
  <2>14. Coherent(ctx', Counters, l1, D1, U1, refs \cup R)
    BY <2>1, <2>13, CoherentBlock DEF g
  <2> QED
    BY <2>1, <2>7, <2>14, LabelEmit DEF l1, D1, U1
<1> QED
  BY <1>1, <1>2

LEMMA LabelEnds ==
    ASSUME ScopeInv, Statements(ctx, stmts), LabelInv, Fi \/ EndWhile \/ EndFor
    PROVE  LabelInv'
<1>1. ASSUME NEW s \in Stmts, ctx # <<>>, Top.k \in Taken(s), Top.k # "then",
             Top.k \in Opened(s), NEW X, X \subseteq defs,
             Emit({<<Ending(s), Previous(s)>>}, X), ctx' = Tail(ctx), label' = label,
             stmts' = [stmts EXCEPT ![s].index = @ - 1]
      PROVE  LabelInv'
  <2> DEFINE E == {<<Ending(s), Previous(s)>>}
  <2>1. Previous(s) = Top.n /\ Top = Head(ctx)
    BY <1>1, PreviousIsTop DEF Top
  <2>2. E = {<<Ending(s), Head(ctx).n>>} /\ Emit(E, X)
    BY <1>1, <2>1
  <2> HIDE DEF E
  <2>3. Coherent(ctx', Counters, label, defs \cup E, dups \cup (E \cap defs), refs \cup X)
    BY <1>1, <2>1, <2>2, CoherentEnd DEF LabelInv
  <2>4. Counters' = Counters
    <3> DEFINE v == stmts[s].index - 1
    <3>1. stmts' = [stmts EXCEPT ![s].index = v]
      BY <1>1
    <3> HIDE DEF v
    <3> QED
      BY <1>1, <3>1, CountersIndex
  <2> QED
    BY <1>1, <2>2, <2>3, <2>4, LabelEmit
<1>2. ctx # <<>> => BackedFrame(Top, defs)
  BY LabelsTail DEF LabelInv, Coherent, Top
<1>3. /\ "if" \in Stmts /\ "while" \in Stmts /\ "for" \in Stmts
      /\ Ending("if") = "endif" /\ Ending("while") = "endwhile" /\ Ending("for") = "endfor"
  BY KindFacts DEF Stmts
<1>4. CASE Fi
  <2> DEFINE X == {}
  <2>1. /\ ctx # <<>> /\ Top.k \in {"thenEnd", "else"} /\ ctx' = Tail(ctx) /\ label' = label
        /\ stmts' = [stmts EXCEPT !["if"].index = @ - 1]
        /\ Emit({<<Ending("if"), Previous("if")>>}, X)
    BY <1>3, <1>4 DEF Fi, In
  <2>2. Top.k \in Taken("if") /\ Top.k # "then" /\ Top.k \in Opened("if") /\ X \subseteq defs
    BY <2>1, KindFacts, OpenedKinds
  <2> HIDE DEF X
  <2> QED
    BY <1>1, <1>3, <2>1, <2>2
<1>5. CASE EndWhile
  <2> DEFINE X == {<<"beginwhile", Previous("while")>>}
  <2>1. /\ ctx # <<>> /\ Top.k = "do" /\ ctx' = Tail(ctx) /\ label' = label
        /\ stmts' = [stmts EXCEPT !["while"].index = @ - 1]
        /\ Emit({<<Ending("while"), Previous("while")>>}, X)
    BY <1>3, <1>5 DEF EndWhile, In
  <2>2. Top.k \in Taken("while") /\ Top.k # "then" /\ Top.k \in Opened("while")
    BY <2>1, KindFacts, OpenedKinds
  <2>3. X \subseteq defs
    BY <1>2, <1>3, <2>1, <2>2, PreviousIsTop DEF BackedFrame
  <2> HIDE DEF X
  <2> QED
    BY <1>1, <1>3, <2>1, <2>2, <2>3
<1>6. CASE EndFor
  <2> DEFINE X == {<<"beginfor", Previous("for")>>, <<"var", Top.name>>}
  <2>1. /\ ctx # <<>> /\ Top.k = "for" /\ ctx' = Tail(ctx) /\ label' = label
        /\ stmts' = [stmts EXCEPT !["for"].index = @ - 1]
        /\ Emit({<<Ending("for"), Previous("for")>>}, X)
    BY <1>3, <1>6 DEF EndFor, In
  <2>2. Top.k \in Taken("for") /\ Top.k # "then" /\ Top.k \in Opened("for")
    BY <2>1, KindFacts, OpenedKinds
  <2>3. X \subseteq defs
    BY <1>2, <1>3, <2>1, <2>2, PreviousIsTop DEF BackedFrame, ForFrames
  <2> HIDE DEF X
  <2> QED
    BY <1>1, <1>3, <2>1, <2>2, <2>3
<1> QED
  BY <1>4, <1>5, <1>6

LEMMA LabelStatement ==
    ASSUME ScopeInv, StorageInv, Statements(ctx, stmts), LabelInv, Statement
    PROVE  LabelInv'
BY LabelNames, LabelBeginIf, LabelWhileStart, LabelForInit, LabelParts, LabelForBound,
   LabelEnds DEF Statement

-----------------------------------------------------------------------------
(* Expressions. *)

LEMMA LabelBranching ==
    ASSUME ScopeInv, LabelInv, NEW op \in Operators, Branching(op)
    PROVE  LabelInv'
<1>1. CASE Stop("aborted")
  BY <1>1, LabelStop
<1>2. CASE ~Stop("aborted")
  <2> DEFINE K == OpLabels(op)
             L == OpLabels(op) \X {label}
             S == IF op \in {"/", "%"} THEN {<<"s_err:div0", 0>>} ELSE {}
             X == L \cup S
  <2>1. label' = label + 1 /\ Emit(L, X) /\ UNCHANGED <<stmts, ctx>>
    BY <1>2 DEF Branching, NewLabel
  <2>2. K \in SUBSET OpKinds
    <3>1. op \in BranchingOps
      BY ConstantsAssumption
    <3> QED
      BY <3>1 DEF BranchingOps, OpLabels, OpKinds
  <2>3. S \subseteq defs /\ Coherent(ctx, Counters, label, defs, dups, refs)
    BY DEF LabelInv, Coherent
  <2>4. L = K \X {label} /\ X = L \cup S
    OBVIOUS
  <2> HIDE DEF K, L, S, X
  <2>5. Coherent(ctx, Counters, label + 1, defs \cup L, dups \cup (L \cap defs), refs \cup X)
    BY <2>2, <2>3, <2>4, CoherentOperator
  <2>6. Counters' = Counters /\ ctx' = ctx
    BY <2>1 DEF Counters
  <2> QED
    BY <2>1, <2>5, <2>6, LabelEmit
<1> QED
  BY <1>1, <1>2

LEMMA LabelExpression ==
    ASSUME ScopeInv, StorageInv, LabelInv, Expression
    PROVE  LabelInv'
<1>1. {} \in SUBSET NamedLabels /\ {} \subseteq defs \cup {} \cup {<<"var", FileName>>}
  OBVIOUS
<1>2. "arg" \in FrameKinds /\ "arg" \notin AllTaken /\ "arg" # "forinit"
      /\ "arg" \notin FunctionFrames /\ ExprFrames \cap FunctionFrames = {}
  BY DEF FrameKinds, ExprFrames, AllTaken, FunctionFrames
<1>3. UNCHANGED stmts => Counters' = Counters
  BY DEF Counters
<1>4. ASSUME NEW x \in Names, Identifier(x) PROVE LabelInv'
  <2>1. CASE Stop("refused")
    BY <2>1, LabelStop
  <2>2. CASE ~Stop("refused")
    <3>1. /\ ctx # <<>> /\ Top.k \in ExprFrames /\ Found(x) /\ Emit({}, {<<"var", x>>})
          /\ UNCHANGED <<stmts, ctx, label>>
      BY <1>4, <2>2 DEF Identifier, InExpr
    <3>2. {<<"var", x>>} \subseteq defs \cup {} \cup {<<"var", FileName>>}
      BY <1>2, <3>1, KnownAddress
    <3>3. Coherent(ctx, Counters, label, defs \cup {}, dups \cup ({} \cap defs),
                   refs \cup {<<"var", x>>})
      BY <1>1, <3>2, CoherentEmit DEF LabelInv
    <3> QED
      BY <1>3, <3>1, <3>3, LabelEmit
  <2> QED
    BY <2>1, <2>2
<1>5. CASE Constant \/ Arithmetic
  BY <1>5, LabelSame DEF Constant, Arithmetic
<1>6. ASSUME NEW x \in Names, CallStart(x) PROVE LabelInv'
  <2> DEFINE f == NewFrame("arg", x, 0)
  <2>1. ctx' = Push(f, ctx) /\ UNCHANGED <<stmts, codeVars>>
    BY <1>6 DEF CallStart
  <2>2. f \in FrameI /\ f.k = "arg"
    <3>1. x \in Names \cup {NoName} /\ 0 \in Nat
      OBVIOUS
    <3> QED
      BY <1>2, <3>1, FrameTyped
  <2> HIDE DEF f
  <2>3. Coherent(ctx', Counters, label, defs, dups, refs)
    BY <1>2, <2>1, <2>2, CoherentPush DEF LabelInv
  <2> QED
    BY <1>3, <2>1, <2>3 DEF LabelInv, codeVars
<1>7. CASE Argument
  <2> DEFINE g == [Top EXCEPT !.n = @ + 1]
  <2>1. /\ ctx # <<>> /\ Head(ctx).k = "arg" /\ ctx' = Push(g, Tail(ctx))
        /\ Top = Head(ctx) /\ UNCHANGED <<stmts, codeVars>>
    BY <1>7, TopIs DEF Argument
  <2>2. g \in FrameI /\ g.k = "arg"
    <3>1. Top \in [k : FrameKinds, base : Int, name : Names \cup {NoName}, n : Nat]
          /\ Top.n + 1 \in Nat
      BY <2>1, TopTyped DEF FrameI
    <3> QED
      BY <2>1, <3>1 DEF FrameI
  <2> HIDE DEF g
  <2>3. Coherent(Tail(ctx), Counters, label, defs, dups, refs)
    BY <1>2, <2>1, CoherentTail DEF LabelInv
  <2>4. Coherent(ctx', Counters, label, defs, dups, refs)
    BY <1>2, <2>1, <2>2, <2>3, CoherentPush
  <2> QED
    BY <1>3, <2>1, <2>4 DEF LabelInv, codeVars
<1>8. CASE Call
  <2>1. CASE Stop("refused")
    BY <2>1, LabelStop
  <2>2. CASE ~Stop("refused")
    <3>1. /\ ctx # <<>> /\ Top.k = "arg" /\ ctx' = Tail(ctx) /\ Emit({}, {<<"fun", FileName>>})
          /\ UNCHANGED <<stmts, label>>
      BY <1>8, <2>2 DEF Call, In
    <3>2. {<<"fun", FileName>>} \subseteq defs \cup {} \cup {<<"var", FileName>>}
      BY <1>2, <3>1, InsideBlock DEF StorageInv, Storage
    <3> QED
      BY <1>1, <1>2, <3>1, <3>2, LabelLeave
  <2> QED
    BY <2>1, <2>2
<1> QED
  BY <1>4, <1>5, <1>6, <1>7, <1>8, LabelBranching DEF Expression

-----------------------------------------------------------------------------
\* What the open statements have written and used, at every step of the
\* compiler and for every program.
THEOREM LabelInvariant == Spec => []LabelInv
<1>1. Init => LabelInv
  <2> SUFFICES ASSUME Init PROVE LabelInv
    OBVIOUS
  <2>1. ctx = <<>> /\ <<>> \in Seq(FrameI) /\ Len(<<>>) = 0 /\ label = 1
        /\ defs = {<<"s_err:div0", 0>>} /\ dups = {} /\ refs = {}
    BY DEF Init
  <2>2. \A s \in Stmts : Counters[s] = 0
    BY DEF Init, Counters
  <2>3. Labels(ctx, Counters, defs)
    BY <2>1 DEF Labels, Distinct
  <2>4. Used(Counters, label, defs)
    <3>1. \A s \in Stmts : \A k \in Kinds(s) \cup OpKinds : k # "s_err:div0"
      BY KindFacts
    <3>2. \A k \in OpKinds : k # "s_err:div0"
      BY DEF OpKinds
    <3>3. \A k, m : <<k, m>> \in defs => k = "s_err:div0"
      BY <2>1
    <3> QED
      BY <2>1, <2>2, <3>1, <3>2, <3>3 DEF Used
  <2> QED
    BY <2>1, <2>3, <2>4 DEF LabelInv, Coherent, Resolved
<1>2. ScopeInv /\ StorageInv /\ Statements(ctx, stmts) /\ LabelInv /\ [Next]_vars
      => LabelInv'
  <2> SUFFICES ASSUME ScopeInv, StorageInv, Statements(ctx, stmts), LabelInv, [Next]_vars
               PROVE  LabelInv'
    OBVIOUS
  <2>1. CASE Ended \/ UNCHANGED vars
    BY <2>1, LabelSame DEF Ended, vars
  <2> QED
    BY <2>1, LabelFunctionRule, LabelStatement, LabelExpression DEF Next
<1> QED
  BY <1>1, <1>2, ScopeInvariant, StorageInvariant, StatementsInvariant, PTL DEF Spec

\* However statements and operators are nested, no label that carries a number
\* is defined twice: only names of variables and of the function can be.
THEOREM NumberedLabelsAreUnique == Spec => []NumberedLabelsUnique
<1>1. LabelInv => NumberedLabelsUnique
  BY DEF LabelInv, Coherent, NumberedLabelsUnique, NamedLabels
<1> QED
  BY <1>1, LabelInvariant, PTL

\* Between functions and at the end of the file every label the code uses is a
\* label it defines, apart from the storage of a variable named like the
\* function.
THEOREM LabelsAreResolved == Spec => []LabelsResolved
<1>1. LabelInv => LabelsResolved
  <2> SUFFICES ASSUME LabelInv, ctx = <<>> PROVE refs \subseteq defs \cup {<<"var", FileName>>}
    BY DEF LabelsResolved
  <2>1. Len(<<>>) = 0
    OBVIOUS
  <2>2. OwedBy(ctx) = {}
    BY <2>1 DEF OwedBy
  <2> QED
    BY <2>2 DEF LabelInv, Coherent, Resolved
<1> QED
  BY <1>1, LabelInvariant, PTL
=============================================================================
