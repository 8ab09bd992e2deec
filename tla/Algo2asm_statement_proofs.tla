--------------------- MODULE Algo2asm_statement_proofs ----------------------
(***************************************************************************)
(* Theorems about the statement numbers, the storage and the types of      *)
(* Algo2asm for every value of its constants, and that the lists it        *)
(* follows are never shorter than it believes: a file with one function    *)
(* does not make it dereference a null pointer, whatever the function      *)
(* holds.  Of two functions TLC finds one that does.                       *)
(***************************************************************************)
EXTENDS Algo2asm_proofs

-----------------------------------------------------------------------------
(* The numbers of the open statements.                                     *)
(*                                                                         *)
(* n is the index of a stack of stmts, st its array, K the frames that     *)
(* hold a place on it.  The invariant behind StatementNumbers adds what is *)
(* true between the two halves of \DOFORI, where the number is written     *)
(* long before index is raised, and the room the array keeps for the       *)
(* statements whose expression is still being read.                        *)

Numbered(K, c, st, n) ==
    /\ n = Outside(K, c, 0)
    /\ \A i \in 1..Len(c) : c[i].k \in K => st[Outside(K, c, i)] = c[i].n

LEMMA NumberedType ==
    ASSUME NEW K, NEW c \in Seq(FrameI), NEW st, NEW n, Numbered(K, c, st, n)
    PROVE  n \in Nat /\ n =< Len(c)
<1>1. 0 \in 0..Len(c) /\ Len(c) \in Nat
  OBVIOUS
<1>2. Outside(K, c, 0) \in Nat /\ Outside(K, c, 0) =< Len(c) - 0
  BY <1>1, OutsideType
<1> QED
  BY <1>1, <1>2 DEF Numbered

LEMMA NumberedPush ==
    ASSUME NEW K, NEW c \in Seq(FrameI), NEW st, NEW n, Numbered(K, c, st, n),
           NEW f \in FrameI
    PROVE  /\ f.k \notin K => Numbered(K, Push(f, c), st, n)
           /\ f.k \in K /\ f.n = st[n] => Numbered(K, Push(f, c), st, n + 1)
<1> DEFINE d == Push(f, c)
<1>1. /\ d \in Seq(FrameI) /\ Len(d) = Len(c) + 1 /\ d[1] = f
      /\ \A i \in 1..Len(c) : d[i + 1] = c[i]
      /\ Len(c) \in Nat
  <2>1. Len(c) \in Nat
    OBVIOUS
  <2> QED
    BY <2>1, PushShape
<1> HIDE DEF d
<1>2. ASSUME NEW i \in 0..Len(c) PROVE Outside(K, d, i + 1) = Outside(K, c, i)
  BY <1>1, OutsideShift
<1>3. Outside(K, d, 1) = n /\ n \in Nat
  <2>1. 0 \in 0..Len(c) /\ 0 + 1 = 1
    BY <1>1
  <2> QED
    BY <1>2, <2>1, NumberedType DEF Numbered
<1>4. /\ f.k \in K => Outside(K, d, 0) = n + 1
      /\ f.k \notin K => Outside(K, d, 0) = n
  <2>1. 1 \in 1..Len(d) /\ 1 - 1 = 0
    BY <1>1
  <2>2. /\ d[1].k \in K => Outside(K, d, 1 - 1) = Outside(K, d, 1) + 1
        /\ d[1].k \notin K => Outside(K, d, 1 - 1) = Outside(K, d, 1)
    BY <1>1, <2>1, OutsideStep
  <2> QED
    BY <1>1, <1>3, <2>1, <2>2
<1>5. ASSUME NEW i \in 1..Len(d), d[i].k \in K, f.k \in K => f.n = st[n]
      PROVE  st[Outside(K, d, i)] = d[i].n
  <2>1. CASE i = 1
    BY <1>1, <1>3, <1>5, <2>1
  <2>2. CASE i # 1
    <3>1. i - 1 \in 1..Len(c) /\ i - 1 \in 0..Len(c) /\ (i - 1) + 1 = i
      BY <1>1, <2>2
    <3>2. d[i] = c[i - 1] /\ Outside(K, d, i) = Outside(K, c, i - 1)
      BY <1>1, <1>2, <3>1
    <3> QED
      BY <1>5, <3>1, <3>2 DEF Numbered
  <2> QED
    BY <2>1, <2>2
<1> QED
  BY <1>4, <1>5 DEF Numbered, d

LEMMA NumberedTail ==
    ASSUME NEW K, NEW c \in Seq(FrameI), c # <<>>, NEW st, NEW n \in Nat, Numbered(K, c, st, n)
    PROVE  /\ Head(c).k \notin K => Numbered(K, Tail(c), st, n)
           /\ Head(c).k \in K =>
                 n - 1 \in Nat /\ Numbered(K, Tail(c), st, n - 1) /\ st[n - 1] = Head(c).n
<1> DEFINE d == Tail(c)
<1>1. /\ d \in Seq(FrameI) /\ Len(c) \in Nat /\ Len(c) >= 1 /\ Len(d) = Len(c) - 1
      /\ \A i \in 1..(Len(c) - 1) : d[i] = c[i + 1]
      /\ Head(c) = c[1]
  BY TailShape
<1> HIDE DEF d
<1>2. ASSUME NEW i \in 0..Len(d) PROVE Outside(K, c, i + 1) = Outside(K, d, i)
  <2>1. Len(c) = Len(d) + 1 /\ \A j \in 1..Len(d) : c[j + 1] = d[j]
    BY <1>1
  <2>2. c \in Seq(FrameI) /\ d \in Seq(FrameI)
    BY <1>1
  <2> QED
    BY <2>1, <2>2, OutsideShift
<1>3. Outside(K, c, 1) = Outside(K, d, 0) /\ Outside(K, c, 1) \in Nat
  <2>1. 0 \in 0..Len(d) /\ 0 + 1 = 1 /\ 1 \in 0..Len(c)
    BY <1>1
  <2> QED
    BY <1>2, <2>1, OutsideType
<1>4. /\ c[1].k \in K => n = Outside(K, c, 1) + 1
      /\ c[1].k \notin K => n = Outside(K, c, 1)
  <2>1. 1 \in 1..Len(c) /\ 1 - 1 = 0
    BY <1>1
  <2>2. /\ c[1].k \in K => Outside(K, c, 1 - 1) = Outside(K, c, 1) + 1
        /\ c[1].k \notin K => Outside(K, c, 1 - 1) = Outside(K, c, 1)
    BY <2>1, OutsideStep
  <2> QED
    BY <2>1, <2>2 DEF Numbered
<1>5. ASSUME NEW i \in 1..Len(d), d[i].k \in K
      PROVE  st[Outside(K, d, i)] = d[i].n
  <2>1. i + 1 \in 1..Len(c) /\ i \in 1..(Len(c) - 1) /\ i \in 0..Len(d)
    BY <1>1
  <2>2. c[i + 1] = d[i] /\ Outside(K, c, i + 1) = Outside(K, d, i)
    BY <1>1, <1>2, <2>1
  <2> QED
    BY <1>5, <2>1, <2>2 DEF Numbered
<1>6. c[1].k \in K => st[Outside(K, c, 1)] = c[1].n
  <2>1. 1 \in 1..Len(c)
    BY <1>1
  <2> QED
    BY <2>1 DEF Numbered
<1>7. c[1].k \in K => n - 1 = Outside(K, c, 1)
  BY <1>3, <1>4
<1> QED
  BY <1>1, <1>3, <1>4, <1>5, <1>6, <1>7 DEF Numbered, d

\* The place at index is free: writing there disturbs no open statement.
LEMMA NumberedWrite ==
    ASSUME NEW K, NEW c \in Seq(FrameI), NEW st, NEW w, NEW n, Numbered(K, c, st, n),
           \A j \in Nat : j < n => w[j] = st[j]
    PROVE  Numbered(K, c, w, n)
<1>1. Len(c) \in Nat /\ n \in Nat
  BY NumberedType
<1>2. ASSUME NEW i \in 1..Len(c), c[i].k \in K
      PROVE  w[Outside(K, c, i)] = c[i].n
  <2>1. i \in 0..Len(c) /\ 0 \in 0..Len(c) /\ i \in (0 + 1)..i
    BY <1>1
  <2>2. \A b \in (0 + 1)..i : c[b].k \in K => Outside(K, c, i) < Outside(K, c, 0)
    BY <2>1, OutsideMonotone
  <2>3. Outside(K, c, i) \in Nat /\ Outside(K, c, i) < n
    BY <1>2, <2>1, <2>2, OutsideType DEF Numbered
  <2> QED
    BY <1>2, <2>3 DEF Numbered
<1> QED
  BY <1>2 DEF Numbered

Numbers(c, S) ==
    \A s \in Stmts : Numbered(Opened(s), c, S[s].stack, S[s].index)

\* A FOR whose bound is being read finds its number at index.
BoundNumber(c, S) ==
    \A i \in 1..Len(c) : c[i].k = "forbound" => S["for"].stack[S["for"].index] = c[i].n

\* Every statement whose expression is read has room for its block.
Reading == {"if", "while", "forinit", "forbound"}
Room(c) == \A i \in 1..Len(c) : c[i].k \in Reading => (Len(c) - i) + 2 =< MaxNest

Statements(c, S) == c \in Seq(FrameI) /\ Numbers(c, S) /\ BoundNumber(c, S) /\ Room(c)

AllOpened == {"then", "thenEnd", "else", "while", "do", "for"}

LEMMA OpenedKinds ==
    /\ \A s \in Stmts : Opened(s) \subseteq AllOpened
    /\ \A s, r \in Stmts : s # r => Opened(s) \cap Opened(r) = {}
    /\ Opened("if") = {"then", "thenEnd", "else"}
    /\ Opened("while") = {"while", "do"} /\ Opened("for") = {"for"}
BY DEF Stmts, Opened, AllOpened

\* What a push and a tail do to the parts that are not about stmts.
LEMMA PushRoom ==
    ASSUME NEW c \in Seq(FrameI), NEW S, BoundNumber(c, S), Room(c), NEW f \in FrameI,
           f.k = "forbound" => S["for"].stack[S["for"].index] = f.n,
           f.k \in Reading => Len(c) + 2 =< MaxNest
    PROVE  Push(f, c) \in Seq(FrameI) /\ BoundNumber(Push(f, c), S) /\ Room(Push(f, c))
<1> DEFINE d == Push(f, c)
<1>1. /\ d \in Seq(FrameI) /\ Len(d) = Len(c) + 1 /\ d[1] = f
      /\ \A i \in 1..Len(c) : d[i + 1] = c[i]
  BY PushShape
<1> HIDE DEF d
<1>2. Len(c) \in Nat /\ MaxNest \in Nat
  BY ConstantsAssumption
<1>3. ASSUME NEW i \in 1..Len(d), i # 1
      PROVE  i - 1 \in 1..Len(c) /\ d[i] = c[i - 1] /\ Len(d) - i = Len(c) - (i - 1)
  <2>1. i - 1 \in 1..Len(c) /\ (i - 1) + 1 = i
    BY <1>1, <1>2, <1>3
  <2> QED
    BY <1>1, <1>2, <2>1
<1>4. BoundNumber(d, S)
  BY <1>1, <1>3 DEF BoundNumber
<1>5. ASSUME NEW i \in 1..Len(d), d[i].k \in Reading
      PROVE  (Len(d) - i) + 2 =< MaxNest
  <2>1. CASE i = 1
    BY <1>1, <1>2, <1>5, <2>1
  <2>2. CASE i # 1
    BY <1>3, <1>5, <2>2 DEF Room
  <2> QED
    BY <2>1, <2>2
<1> QED
  BY <1>1, <1>4, <1>5 DEF Room, d

LEMMA TailRoom ==
    ASSUME NEW c \in Seq(FrameI), c # <<>>, NEW S, BoundNumber(c, S), Room(c)
    PROVE  Tail(c) \in Seq(FrameI) /\ BoundNumber(Tail(c), S) /\ Room(Tail(c))
<1> DEFINE d == Tail(c)
<1>1. /\ d \in Seq(FrameI) /\ Len(c) \in Nat /\ Len(d) = Len(c) - 1
      /\ \A i \in 1..(Len(c) - 1) : d[i] = c[i + 1]
  BY TailShape
<1> HIDE DEF d
<1>2. ASSUME NEW i \in 1..Len(d)
      PROVE  i + 1 \in 1..Len(c) /\ d[i] = c[i + 1] /\ Len(d) - i = Len(c) - (i + 1)
  BY <1>1
<1>3. BoundNumber(d, S)
  BY <1>2 DEF BoundNumber
<1>4. Room(d)
  <2> SUFFICES ASSUME NEW i \in 1..Len(d), d[i].k \in Reading
               PROVE  (Len(d) - i) + 2 =< MaxNest
    BY DEF Room
  <2> QED
    BY <1>2 DEF Room
<1> QED
  BY <1>1, <1>3, <1>4 DEF d

\* A frame that holds no number comes or goes.
LEMMA StatementsPush ==
    ASSUME NEW c, NEW S, Statements(c, S), NEW f \in FrameI,
           f.k \notin AllOpened, f.k # "forbound",
           f.k \in Reading => Len(c) + 2 =< MaxNest
    PROVE  Statements(Push(f, c), S)
<1>1. ASSUME NEW s \in Stmts
      PROVE  Numbered(Opened(s), Push(f, c), S[s].stack, S[s].index)
  <2>1. f.k \notin Opened(s) /\ Numbered(Opened(s), c, S[s].stack, S[s].index)
    BY <1>1, OpenedKinds DEF Statements, Numbers
  <2> QED
    BY <2>1, NumberedPush DEF Statements
<1> QED
  BY <1>1, PushRoom DEF Statements, Numbers

LEMMA StatementsTail ==
    ASSUME NEW c, NEW S, Statements(c, S), c # <<>>, Head(c).k \notin AllOpened
    PROVE  Statements(Tail(c), S)
<1>1. ASSUME NEW s \in Stmts
      PROVE  Numbered(Opened(s), Tail(c), S[s].stack, S[s].index)
  <2>1. Head(c).k \notin Opened(s) /\ Numbered(Opened(s), c, S[s].stack, S[s].index)
    BY <1>1, OpenedKinds DEF Statements, Numbers
  <2>2. S[s].index \in Nat
    BY <2>1, NumberedType DEF Statements
  <2> QED
    BY <2>1, <2>2, NumberedTail DEF Statements
<1> QED
  BY <1>1, TailRoom DEF Statements, Numbers

\* A statement s takes its place: its number is at index, and index is raised.
LEMMA StatementsOpen ==
    ASSUME NEW c, NEW S, Statements(c, S), NEW f \in FrameI, NEW s \in Stmts,
           NEW W, f.k \in Opened(s), f.k \in Reading => Len(c) + 2 =< MaxNest,
           s = "for" => \A i \in 1..Len(c) : c[i].k # "forbound",
           \A r \in Stmts \ {s} : W[r] = S[r],
           W[s].index = S[s].index + 1, W[s].stack[S[s].index] = f.n,
           \A j \in Nat : j < S[s].index => W[s].stack[j] = S[s].stack[j]
    PROVE  Statements(Push(f, c), W)
<1>1. c \in Seq(FrameI) /\ Numbers(c, S) /\ BoundNumber(c, S) /\ Room(c)
  BY DEF Statements
<1>2. ASSUME NEW r \in Stmts
      PROVE  Numbered(Opened(r), Push(f, c), W[r].stack, W[r].index)
  <2>1. Numbered(Opened(r), c, S[r].stack, S[r].index)
    BY <1>1, <1>2 DEF Numbers
  <2>2. CASE r = s
    <3>1. Numbered(Opened(s), c, W[s].stack, S[s].index)
      BY <1>1, <2>1, <2>2, NumberedWrite
    <3> QED
      BY <1>1, <2>2, <3>1, NumberedPush
  <2>3. CASE r # s
    <3>1. f.k \notin Opened(r)
      BY <1>2, <2>3, OpenedKinds
    <3> QED
      BY <1>1, <1>2, <2>1, <2>3, <3>1, NumberedPush
  <2> QED
    BY <2>2, <2>3
<1>3. BoundNumber(c, W)
  <2>1. CASE s = "for"
    BY <2>1 DEF BoundNumber
  <2>2. CASE s # "for"
    BY <1>1, <2>2 DEF BoundNumber, Stmts
  <2> QED
    BY <2>1, <2>2
<1>4. f.k # "forbound"
  BY OpenedKinds DEF AllOpened
<1> QED
  BY <1>1, <1>2, <1>3, <1>4, PushRoom DEF Statements, Numbers

\* The statement s that ends reads its own number below index.
LEMMA ClosingNumber ==
    ASSUME NEW c, NEW S, Statements(c, S), c # <<>>, NEW s \in Stmts,
           Head(c).k \in Opened(s)
    PROVE  /\ S[s].index - 1 \in Nat
           /\ Numbered(Opened(s), Tail(c), S[s].stack, S[s].index - 1)
           /\ S[s].stack[S[s].index - 1] = Head(c).n
<1> DEFINE st == S[s].stack
           n == S[s].index
           K == Opened(s)
<1>1. c \in Seq(FrameI) /\ Numbered(K, c, st, n) /\ Head(c).k \in K
  BY DEF Statements, Numbers
<1> HIDE DEF st, n, K
<1>2. n \in Nat
  BY <1>1, NumberedType
<1>3. n - 1 \in Nat /\ Numbered(K, Tail(c), st, n - 1) /\ st[n - 1] = Head(c).n
  BY <1>1, <1>2, NumberedTail
<1> QED
  BY <1>3 DEF st, n, K

\* A statement s gives its place back.
LEMMA StatementsClose ==
    ASSUME NEW c, NEW S, Statements(c, S), c # <<>>, NEW s \in Stmts,
           NEW W, Head(c).k \in Opened(s),
           s = "for" => \A i \in 1..Len(Tail(c)) : Tail(c)[i].k # "forbound",
           \A r \in Stmts \ {s} : W[r] = S[r],
           W[s].index = S[s].index - 1, W[s].stack = S[s].stack
    PROVE  /\ Statements(Tail(c), W)
           /\ W[s].index \in Nat /\ S[s].stack[W[s].index] = Head(c).n
<1>1. c \in Seq(FrameI) /\ Numbers(c, S) /\ BoundNumber(c, S) /\ Room(c)
  BY DEF Statements
<1>2. ASSUME NEW r \in Stmts
      PROVE  /\ Numbered(Opened(r), Tail(c), W[r].stack, W[r].index)
             /\ r = s => W[s].index \in Nat /\ S[s].stack[W[s].index] = Head(c).n
  <2>1. Numbered(Opened(r), c, S[r].stack, S[r].index)
    BY <1>1, <1>2 DEF Numbers
  <2>2. CASE r = s
    <3>1. /\ S[s].index - 1 \in Nat
          /\ Numbered(Opened(s), Tail(c), S[s].stack, S[s].index - 1)
          /\ S[s].stack[S[s].index - 1] = Head(c).n
      BY ClosingNumber
    <3> QED
      BY <2>2, <3>1
  <2>3. CASE r # s
    <3>1. Head(c).k \notin Opened(r)
      BY <1>2, <2>3, OpenedKinds
    <3>2. S[r].index \in Nat
      BY <1>1, <2>1, NumberedType
    <3> QED
      BY <1>1, <1>2, <2>1, <2>3, <3>1, <3>2, NumberedTail
  <2> QED
    BY <2>2, <2>3
<1>3. /\ Tail(c) \in Seq(FrameI) /\ BoundNumber(Tail(c), S) /\ Room(Tail(c))
  BY <1>1, TailRoom
<1>4. BoundNumber(Tail(c), W)
  <2>1. CASE s = "for"
    BY <2>1 DEF BoundNumber
  <2>2. CASE s # "for"
    BY <1>3, <2>2 DEF BoundNumber, Stmts
  <2> QED
    BY <2>1, <2>2
<1> QED
  BY <1>2, <1>3, <1>4 DEF Statements, Numbers

\* Another frame of the same statement on top, with the same number.
LEMMA StatementsSwap ==
    ASSUME NEW c, NEW S, Statements(c, S), c # <<>>, NEW g \in FrameI,
           <<Head(c).k, g.k>> \in {<<"then", "thenEnd">>, <<"thenEnd", "else">>,
                                   <<"while", "do">>},
           g.n = Head(c).n
    PROVE  Statements(Push(g, Tail(c)), S)
<1>1. c \in Seq(FrameI) /\ Numbers(c, S) /\ BoundNumber(c, S) /\ Room(c)
  BY DEF Statements
<1>2. g.k # "forbound" /\ g.k \notin Reading
  BY DEF Reading
<1>3. /\ Tail(c) \in Seq(FrameI) /\ BoundNumber(Tail(c), S) /\ Room(Tail(c))
  BY <1>1, TailRoom
<1>4. ASSUME NEW s \in Stmts
      PROVE  Numbered(Opened(s), Push(g, Tail(c)), S[s].stack, S[s].index)
  <2> DEFINE st == S[s].stack
             n == S[s].index
  <2>1. Numbered(Opened(s), c, st, n)
    BY <1>1, <1>4 DEF Numbers
  <2>2. Head(c).k \in Opened(s) <=> g.k \in Opened(s)
    BY DEF Opened, Stmts
  <2>3. n \in Nat
    BY <1>1, <2>1, NumberedType
  <2> HIDE DEF st, n
  <2>4. CASE g.k \notin Opened(s)
    <3>1. Numbered(Opened(s), Tail(c), st, n)
      BY <1>1, <2>1, <2>2, <2>3, <2>4, NumberedTail
    <3>2. Numbered(Opened(s), Push(g, Tail(c)), st, n)
      BY <1>3, <2>4, <3>1, NumberedPush
    <3> QED
      BY <3>2 DEF st, n
  <2>5. CASE g.k \in Opened(s)
    <3>1. Numbered(Opened(s), Tail(c), st, n - 1) /\ st[n - 1] = g.n /\ (n - 1) + 1 = n
      BY <1>1, <2>1, <2>2, <2>3, <2>5, NumberedTail
    <3>2. Numbered(Opened(s), Push(g, Tail(c)), st, (n - 1) + 1)
      BY <1>3, <2>5, <3>1, NumberedPush
    <3> QED
      BY <3>1, <3>2 DEF st, n
  <2> QED
    BY <2>4, <2>5
<1> QED
  BY <1>2, <1>3, <1>4, PushRoom DEF Statements, Numbers

-----------------------------------------------------------------------------
(* Every action keeps the numbers. *)

\* Below a frame that is no argument list no expression is open.
LEMMA NothingReadBelow ==
    ASSUME ScopeInv, ctx # <<>>, Top.k # "arg"
    PROVE  /\ \A i \in 1..Len(Tail(ctx)) : Tail(ctx)[i].k \notin ExprFrames
           /\ Len(Tail(ctx)) = Len(ctx) - 1 /\ Len(ctx) \in Nat /\ Len(ctx) >= 1
<1>1. /\ Len(ctx) \in Nat /\ Len(ctx) >= 1 /\ Len(Tail(ctx)) = Len(ctx) - 1
      /\ \A i \in 1..(Len(ctx) - 1) : Tail(ctx)[i] = ctx[i + 1]
      /\ Top = ctx[1]
  BY TailShape DEF ScopeInv, Scope, Stack, Top
<1>2. \A i \in 2..Len(ctx) : ctx[i].k \notin ExprFrames
  BY <1>1, TopStands DEF ScopeInv, Scope
<1>3. ASSUME NEW i \in 1..Len(Tail(ctx)) PROVE Tail(ctx)[i].k \notin ExprFrames
  <2>1. i \in 1..(Len(ctx) - 1) /\ i + 1 \in 2..Len(ctx)
    BY <1>1
  <2> QED
    BY <1>1, <1>2, <2>1
<1> QED
  BY <1>1, <1>3

\* The expression of a statement on top: there is room for its block, and a
\* place for its number in every array.
LEMMA RoomOnTop ==
    ASSUME ScopeInv, Statements(ctx, stmts), ctx # <<>>, Top.k \in Reading
    PROVE  /\ Len(Tail(ctx)) + 2 =< MaxNest
           /\ Statements(Tail(ctx), stmts) \/ Top.k = "while"
           /\ Top.k # "while" =>
                 \A s \in Stmts : stmts[s].index \in Nat /\ stmts[s].index < MaxNest
<1>1. /\ Len(ctx) \in Nat /\ Len(ctx) >= 1 /\ Len(Tail(ctx)) = Len(ctx) - 1
      /\ Tail(ctx) \in Seq(FrameI) /\ Top = ctx[1] /\ MaxNest \in Nat
  BY TailShape, ConstantsAssumption DEF ScopeInv, Scope, Stack, Top
<1>2. Len(Tail(ctx)) + 2 =< MaxNest
  <2>1. 1 \in 1..Len(ctx)
    BY <1>1
  <2>2. (Len(ctx) - 1) + 2 =< MaxNest
    BY <1>1, <2>1 DEF Statements, Room
  <2> QED
    BY <1>1, <2>2
<1>3. ASSUME Top.k # "while" PROVE Statements(Tail(ctx), stmts)
  <2>1. Head(ctx).k \notin AllOpened
    BY <1>3 DEF Top, Reading, AllOpened
  <2> QED
    BY <2>1, StatementsTail
<1>4. ASSUME Top.k # "while", NEW s \in Stmts
      PROVE  stmts[s].index \in Nat /\ stmts[s].index < MaxNest
  <2>1. Numbered(Opened(s), Tail(ctx), stmts[s].stack, stmts[s].index)
    BY <1>3, <1>4 DEF Statements, Numbers
  <2>2. stmts[s].index \in Nat /\ stmts[s].index =< Len(Tail(ctx))
    BY <1>1, <2>1, NumberedType
  <2> QED
    BY <1>1, <1>2, <2>2
<1> QED
  BY <1>2, <1>3, <1>4

\* stack[index] = number++, and index raised by i.
LEMMA TakeShape ==
    ASSUME ScopeInv, NEW s \in Stmts, NEW i \in Nat, Take(s, i),
           stmts[s].index \in Nat, stmts[s].index < MaxNest
    PROVE  /\ Number(s) \in Nat
           /\ stmts'[s].index = stmts[s].index + i
           /\ stmts'[s].stack[stmts[s].index] = Number(s)
           /\ \A j \in Nat : j < stmts[s].index =>
                 stmts'[s].stack[j] = stmts[s].stack[j]
           /\ \A r \in Stmts \ {s} : stmts'[r] = stmts[r]
<1>1. /\ stmts[s].stack \in [0..(MaxNest - 1) -> Nat] /\ stmts[s].number \in Nat
      /\ stmts[s] \in [stack : [0..(MaxNest - 1) -> Nat], index : Int, number : Nat]
      /\ DOMAIN stmts = Stmts
  BY DEF ScopeInv, StmtsTyped
<1>2. stmts' = [stmts EXCEPT ![s].stack[stmts[s].index] = Number(s),
                             ![s].number = @ + 1,
                             ![s].index = @ + i]
  BY DEF Take
<1>3. /\ stmts'[s].index = stmts[s].index + i
      /\ stmts'[s].stack = [stmts[s].stack EXCEPT ![stmts[s].index] = Number(s)]
      /\ \A r \in Stmts \ {s} : stmts'[r] = stmts[r]
  BY <1>1, <1>2
<1>4. MaxNest \in Nat /\ stmts[s].index \in 0..(MaxNest - 1)
  BY ConstantsAssumption
<1>5. ASSUME NEW j \in Nat, j < stmts[s].index
      PROVE  stmts'[s].stack[j] = stmts[s].stack[j]
  <2>1. j \in 0..(MaxNest - 1) /\ j # stmts[s].index
    BY <1>4, <1>5
  <2> QED
    BY <1>1, <1>3, <2>1
<1> QED
  BY <1>1, <1>3, <1>4, <1>5 DEF Number

\* index raised or lowered alone.
LEMMA IndexShape ==
    ASSUME ScopeInv, NEW s \in Stmts, NEW v \in Int,
           stmts' = [stmts EXCEPT ![s].index = v]
    PROVE  /\ stmts'[s].index = v /\ stmts'[s].stack = stmts[s].stack
           /\ \A r \in Stmts \ {s} : stmts'[r] = stmts[r]
<1>1. /\ stmts[s] \in [stack : [0..(MaxNest - 1) -> Nat], index : Int, number : Nat]
      /\ DOMAIN stmts = Stmts
  BY DEF ScopeInv, StmtsTyped
<1> QED
  BY <1>1

\* The current block, marked as holding a statement.
LEMMA StatementsEnclosing ==
    ASSUME ScopeInv, Statements(ctx, stmts), In("block")
    PROVE  /\ Statements(Enclosing, stmts) /\ Enclosing \in Seq(FrameI)
           /\ Len(Enclosing) = Len(ctx)
<1> DEFINE g == [Top EXCEPT !.n = 1]
<1>1. ctx # <<>> /\ Head(ctx).k = "block" /\ Top = Head(ctx) /\ ctx \in Seq(FrameI)
  BY DEF In, Top, ScopeInv, Scope, Stack
<1>2. g \in FrameI /\ g.k = "block"
  BY <1>1, TopTyped DEF FrameI
<1>3. Enclosing = Push(g, Tail(ctx))
  BY DEF Enclosing
<1> HIDE DEF g
<1>4. "block" \notin AllOpened /\ "block" # "forbound" /\ "block" \notin Reading
  BY DEF AllOpened, Reading
<1>5. Statements(Tail(ctx), stmts)
  BY <1>1, <1>4, StatementsTail
<1>6. Statements(Push(g, Tail(ctx)), stmts)
  BY <1>2, <1>4, <1>5, StatementsPush
<1>7. Len(Push(g, Tail(ctx))) = Len(ctx)
  BY <1>1, <1>2, SwapShape
<1> QED
  BY <1>3, <1>6, <1>7 DEF Statements

\* A statement begins in the current block.
LEMMA StatementsStart ==
    ASSUME ScopeInv, Statements(ctx, stmts), In("block"), NEW m \in {1, 2}, Fits(m),
           NEW k \in {"set", "return", "if", "forinit"}, k \in Reading => m = 2,
           NEW x \in Names, NEW y \in {x, NoName}, k = "set" => y = x,
           ctx' = Push(NewFrame(k, y, 0), Enclosing), UNCHANGED stmts
    PROVE  Statements(ctx', stmts')
<1> DEFINE f == NewFrame(k, y, 0)
<1>1. f \in FrameI /\ f.k = k
  <2>1. k \in FrameKinds /\ y \in Names \cup {NoName} /\ 0 \in Nat /\ (k = "set" => y \in Names)
    BY DEF FrameKinds, ExprFrames
  <2> QED
    BY <2>1, FrameTyped
<1> HIDE DEF f
<1>2. k \notin AllOpened /\ k # "forbound"
  BY DEF AllOpened
<1>3. k \in Reading => Len(Enclosing) + 2 =< MaxNest
  BY StatementsEnclosing DEF Fits
<1>4. Statements(Push(f, Enclosing), stmts)
  BY <1>1, <1>2, <1>3, StatementsEnclosing, StatementsPush
<1> QED
  BY <1>4 DEF f

\* Block b opens on the frame g of its statement.
LEMMA StatementsBlock ==
    ASSUME ScopeInv, ctx # <<>>, NEW k, NEW n, OpenBlock(k, n),
           Statements(Push([Top EXCEPT !.k = k, !.n = n], Tail(ctx)), stmts')
    PROVE  Statements(ctx', stmts')
<1> DEFINE d == Push([Top EXCEPT !.k = k, !.n = n], Tail(ctx))
           b == [k |-> "block", base |-> 0, name |-> NoName, n |-> 0]
<1>1. b \in FrameI /\ b.k = "block"
  BY DEF FrameI, FrameKinds
<1>2. ctx' = Push(b, d)
  BY DEF OpenBlock
<1> HIDE DEF d, b
<1>3. "block" \notin AllOpened /\ "block" # "forbound" /\ "block" \notin Reading
  BY DEF AllOpened, Reading
<1>4. Statements(d, stmts')
  BY DEF d
<1>5. Statements(Push(b, d), stmts')
  BY <1>1, <1>3, <1>4, StatementsPush
<1> QED
  BY <1>2, <1>5

LEMMA TopBecomes ==
    ASSUME ScopeInv, ctx # <<>>, NEW k \in FrameKinds \ {"set"}, NEW n \in Nat
    PROVE  /\ [Top EXCEPT !.k = k, !.n = n] \in FrameI
           /\ [Top EXCEPT !.k = k, !.n = n].k = k /\ [Top EXCEPT !.k = k, !.n = n].n = n
BY TopTyped DEF FrameI

LEMMA NumbersFunctionRule ==
    ASSUME ScopeInv, Statements(ctx, stmts), FunctionRule
    PROVE  Statements(ctx', stmts')
<1>1. ASSUME UNCHANGED <<ctx, stmts>>
      PROVE  Statements(ctx', stmts')
  BY <1>1
<1>2. ASSUME NEW k \in {"begun", "params", "body", "end", "block"}
      PROVE  k \notin AllOpened /\ k # "forbound" /\ k \notin Reading /\ k \in FrameKinds
  BY <1>2 DEF AllOpened, Reading, FrameKinds
<1>3. ASSUME NEW k \in {"begun", "params", "body", "end", "block"}, In(k)
      PROVE  ctx # <<>> /\ Top.k = k /\ Statements(Tail(ctx), stmts)
  <2>1. ctx # <<>> /\ Top.k = k /\ Head(ctx).k = k
    BY <1>3 DEF In, Top
  <2> QED
    BY <1>2, <2>1, StatementsTail
<1>4. ASSUME NEW c, Statements(c, stmts), NEW k \in {"begun", "params", "body", "block"},
             NEW x \in Names \cup {NoName}
      PROVE  Statements(Push(NewFrame(k, x, 0), c), stmts)
  <2>1. k \in FrameKinds /\ 0 \in Nat /\ (k = "set" => x \in Names)
    BY <1>2, <1>4
  <2>2. NewFrame(k, x, 0) \in FrameI /\ NewFrame(k, x, 0).k = k
    BY <2>1, FrameTyped
  <2> QED
    BY <1>2, <1>4, <2>2, StatementsPush
<1>5. ASSUME NEW p \in Packages, BeginPackage(p)
      PROVE  Statements(ctx', stmts')
  BY <1>1, <1>4, <1>5 DEF BeginPackage, Stop
<1>6. ASSUME NEW p \in Packages, EndPackage(p)
      PROVE  Statements(ctx', stmts')
  BY <1>1, <1>3, <1>6 DEF EndPackage, Stop
<1>7. ASSUME NEW x \in Names, FunctionName(x)
      PROVE  Statements(ctx', stmts')
  BY <1>1, <1>3, <1>4, <1>7 DEF FunctionName, Stop
<1>8. ASSUME NEW x \in Names, Parameter(x)
      PROVE  Statements(ctx', stmts')
  BY <1>1, <1>8 DEF Parameter, Stop
<1>9. CASE ParamsEnd
  <2>1. CASE Stop("crashed")
    BY <1>1, <2>1 DEF Stop
  <2>2. CASE ~Stop("crashed")
    <3>1. /\ In("params") /\ stmts' = stmts
          /\ ctx' = Push(NewFrame("block", NoName, 0),
                         Push(NewFrame("body", FileName, 0), Tail(ctx)))
      BY <1>9, <2>2 DEF ParamsEnd
    <3>2. Statements(Push(NewFrame("body", FileName, 0), Tail(ctx)), stmts)
      BY <1>3, <1>4, <3>1, ConstantsAssumption
    <3> QED
      BY <1>4, <3>1, <3>2
  <2> QED
    BY <2>1, <2>2
<1>10. CASE CloseBlock
  BY <1>3, <1>10 DEF CloseBlock
<1>11. CASE FreeParameters
  <2>1. In("body") /\ stmts' = stmts /\ ctx' = Push([Top EXCEPT !.k = "end"], Tail(ctx))
    BY <1>11 DEF FreeParameters
  <2>2. [Top EXCEPT !.k = "end"] \in FrameI /\ [Top EXCEPT !.k = "end"].k = "end"
    <3>1. ctx # <<>>
      BY <2>1 DEF In
    <3> QED
      BY <1>2, <3>1, TopTyped DEF FrameI
  <2> QED
    BY <1>2, <1>3, <2>1, <2>2, StatementsPush
<1>12. CASE EndOfFile \/ SyntaxError
  BY <1>1, <1>12 DEF EndOfFile, SyntaxError, Stop
<1> QED
  BY <1>5, <1>6, <1>7, <1>8, <1>9, <1>10, <1>11, <1>12 DEF FunctionRule

\* The statements that take a place, one after the other.
LEMMA NumbersWhileStart ==
    ASSUME ScopeInv, Statements(ctx, stmts), WhileStart
    PROVE  Statements(ctx', stmts')
<1> DEFINE f == NewFrame("while", NoName, Number("while"))
<1>1. /\ In("block") /\ Fits(2) /\ Take("while", 1) /\ ctx' = Push(f, Enclosing)
      /\ "while" \in Stmts
  BY DEF WhileStart, Stmts
<1>2. /\ Statements(Enclosing, stmts) /\ Enclosing \in Seq(FrameI)
      /\ Len(Enclosing) = Len(ctx) /\ Len(Enclosing) + 2 =< MaxNest
      /\ Len(Enclosing) \in Nat /\ MaxNest \in Nat
  BY <1>1, StatementsEnclosing, ConstantsAssumption DEF Fits
<1>3. stmts["while"].index \in Nat /\ stmts["while"].index < MaxNest
  <2>1. Numbered(Opened("while"), Enclosing, stmts["while"].stack, stmts["while"].index)
    BY <1>1, <1>2 DEF Statements, Numbers
  <2>2. stmts["while"].index \in Nat /\ stmts["while"].index =< Len(Enclosing)
    BY <1>2, <2>1, NumberedType
  <2> QED
    BY <1>2, <2>2
<1>4. /\ Number("while") \in Nat
      /\ stmts'["while"].index = stmts["while"].index + 1
      /\ stmts'["while"].stack[stmts["while"].index] = Number("while")
      /\ \A j \in Nat : j < stmts["while"].index =>
            stmts'["while"].stack[j] = stmts["while"].stack[j]
      /\ \A r \in Stmts \ {"while"} : stmts'[r] = stmts[r]
  BY <1>1, <1>3, TakeShape
<1>5. f \in FrameI /\ f.k = "while" /\ f.n = Number("while")
  <2>1. "while" \in FrameKinds /\ NoName \in Names \cup {NoName}
    BY DEF FrameKinds, ExprFrames
  <2> QED
    BY <1>4, <2>1, FrameTyped DEF NewFrame
<1> HIDE DEF f
<1>6. f.k \in Opened("while")
  BY <1>5, OpenedKinds
<1> QED
  BY <1>1, <1>2, <1>4, <1>5, <1>6, StatementsOpen

LEMMA NumbersBeginIf ==
    ASSUME ScopeInv, Statements(ctx, stmts), BeginIf
    PROVE  Statements(ctx', stmts')
<1> DEFINE g == [Top EXCEPT !.k = "then", !.n = Number("if")]
<1>1. /\ ctx # <<>> /\ Top.k = "if" /\ Take("if", 1) /\ OpenBlock("then", Number("if"))
      /\ "if" \in Stmts
  BY DEF BeginIf, ExprDone, In, Stmts
<1>2. /\ Statements(Tail(ctx), stmts)
      /\ stmts["if"].index \in Nat /\ stmts["if"].index < MaxNest
  BY <1>1, RoomOnTop DEF Reading
<1>3. /\ Number("if") \in Nat
      /\ stmts'["if"].index = stmts["if"].index + 1
      /\ stmts'["if"].stack[stmts["if"].index] = Number("if")
      /\ \A j \in Nat : j < stmts["if"].index =>
            stmts'["if"].stack[j] = stmts["if"].stack[j]
      /\ \A r \in Stmts \ {"if"} : stmts'[r] = stmts[r]
  BY <1>1, <1>2, TakeShape
<1>4. g \in FrameI /\ g.k = "then" /\ g.n = Number("if")
  <2>1. "then" \in FrameKinds \ {"set"}
    BY DEF FrameKinds
  <2>2. ctx # <<>> /\ Number("if") \in Nat
    BY <1>1, <1>3
  <2> QED
    BY <2>1, <2>2, TopBecomes
<1> HIDE DEF g
<1>5. g.k \in Opened("if") /\ g.k \notin Reading
  BY <1>4, OpenedKinds DEF Reading
<1>6. Statements(Push(g, Tail(ctx)), stmts')
  BY <1>1, <1>2, <1>3, <1>4, <1>5, StatementsOpen
<1> QED
  BY <1>1, <1>6, StatementsBlock DEF g

LEMMA NumbersForInit ==
    ASSUME ScopeInv, Statements(ctx, stmts), ForInit
    PROVE  Statements(ctx', stmts')
<1> DEFINE g == [Top EXCEPT !.k = "forbound", !.n = Number("for")]
<1>1. /\ ctx # <<>> /\ Top.k = "forinit" /\ Take("for", 0) /\ ctx' = Push(g, Tail(ctx))
      /\ "for" \in Stmts
  BY DEF ForInit, ExprDone, In, Stmts
<1>2. /\ Statements(Tail(ctx), stmts) /\ Len(Tail(ctx)) + 2 =< MaxNest
      /\ stmts["for"].index \in Nat /\ stmts["for"].index < MaxNest
  BY <1>1, RoomOnTop DEF Reading
<1>3. /\ Number("for") \in Nat
      /\ stmts'["for"].index = stmts["for"].index + 0
      /\ stmts'["for"].stack[stmts["for"].index] = Number("for")
      /\ \A j \in Nat : j < stmts["for"].index =>
            stmts'["for"].stack[j] = stmts["for"].stack[j]
      /\ \A r \in Stmts \ {"for"} : stmts'[r] = stmts[r]
  BY <1>1, <1>2, TakeShape
<1>4. stmts'["for"].index = stmts["for"].index
  BY <1>2, <1>3
<1>5. g \in FrameI /\ g.k = "forbound" /\ g.n = Number("for")
  <2>1. "forbound" \in FrameKinds \ {"set"}
    BY DEF FrameKinds, ExprFrames
  <2>2. ctx # <<>> /\ Number("for") \in Nat
    BY <1>1, <1>3
  <2> QED
    BY <2>1, <2>2, TopBecomes
<1> HIDE DEF g
<1>6. Tail(ctx) \in Seq(FrameI) /\ Room(Tail(ctx))
  BY <1>2 DEF Statements
<1>7. BoundNumber(Tail(ctx), stmts')
  BY <1>1, NothingReadBelow DEF BoundNumber, ExprFrames
<1>8. ASSUME NEW r \in Stmts
      PROVE  Numbered(Opened(r), Push(g, Tail(ctx)), stmts'[r].stack, stmts'[r].index)
  <2>1. Numbered(Opened(r), Tail(ctx), stmts[r].stack, stmts[r].index)
    BY <1>2, <1>8 DEF Statements, Numbers
  <2>2. Numbered(Opened(r), Tail(ctx), stmts'[r].stack, stmts'[r].index)
    <3>1. CASE r = "for"
      <4> DEFINE n == stmts["for"].index
                 st == stmts["for"].stack
                 w == stmts'["for"].stack
      <4>1. Numbered(Opened(r), Tail(ctx), st, n) /\ \A j \in Nat : j < n => w[j] = st[j]
        BY <1>3, <2>1, <3>1
      <4> HIDE DEF n, st, w
      <4>2. Numbered(Opened(r), Tail(ctx), w, n)
        BY <1>6, <4>1, NumberedWrite
      <4> QED
        BY <1>4, <3>1, <4>2 DEF n, w
    <3>2. CASE r # "for"
      BY <1>3, <1>8, <2>1, <3>2
    <3> QED
      BY <3>1, <3>2
  <2>3. g.k \notin Opened(r)
    BY <1>5, <1>8, OpenedKinds DEF AllOpened
  <2> QED
    BY <1>5, <1>6, <2>2, <2>3, NumberedPush
<1>9. /\ Push(g, Tail(ctx)) \in Seq(FrameI)
      /\ BoundNumber(Push(g, Tail(ctx)), stmts') /\ Room(Push(g, Tail(ctx)))
  BY <1>2, <1>3, <1>4, <1>5, <1>6, <1>7, PushRoom
<1> QED
  BY <1>1, <1>8, <1>9 DEF Statements, Numbers

LEMMA NumbersForBound ==
    ASSUME ScopeInv, Statements(ctx, stmts), ForBound
    PROVE  Statements(ctx', stmts')
<1>1. CASE Stop("aborted")
  BY <1>1 DEF Stop
<1>2. CASE ~Stop("aborted")
  <2> DEFINE g == [Top EXCEPT !.k = "for", !.n = Top.n]
  <2>1. /\ ctx # <<>> /\ Top.k = "forbound" /\ OpenBlock("for", Top.n)
        /\ stmts' = [stmts EXCEPT !["for"].index = @ + 1] /\ "for" \in Stmts
    BY <1>2 DEF ForBound, ExprDone, In, Stmts
  <2>2. /\ Statements(Tail(ctx), stmts)
        /\ stmts["for"].index \in Nat
    BY <2>1, RoomOnTop DEF Reading
  <2>3. /\ stmts'["for"].index = stmts["for"].index + 1
        /\ stmts'["for"].stack = stmts["for"].stack
        /\ \A r \in Stmts \ {"for"} : stmts'[r] = stmts[r]
    <3>1. /\ stmts["for"].index + 1 \in Int
          /\ stmts' = [stmts EXCEPT !["for"].index = stmts["for"].index + 1]
      BY <2>1, <2>2
    <3> QED
      BY <2>1, <3>1, IndexShape
  <2>4. stmts["for"].stack[stmts["for"].index] = Top.n
    <3>1. 1 \in 1..Len(ctx) /\ ctx[1] = Top
      BY <2>1, NothingReadBelow, TopStands DEF ScopeInv, Scope, Top
    <3> QED
      BY <2>1, <3>1 DEF Statements, BoundNumber
  <2>5. g \in FrameI /\ g.k = "for" /\ g.n = Top.n
    <3>1. "for" \in FrameKinds \ {"set"} /\ Top.n \in Nat
      BY <2>1, TopTyped DEF FrameKinds
    <3> QED
      BY <2>1, <3>1, TopBecomes
  <2> HIDE DEF g
  <2>6. g.k \in Opened("for") /\ g.k \notin Reading
    BY <2>5, OpenedKinds DEF Reading
  <2>7. \A i \in 1..Len(Tail(ctx)) : Tail(ctx)[i].k # "forbound"
    BY <2>1, NothingReadBelow DEF ExprFrames
  <2>8. Statements(Push(g, Tail(ctx)), stmts')
    <3>1. /\ stmts'["for"].stack[stmts["for"].index] = g.n
          /\ \A j \in Nat : j < stmts["for"].index =>
                stmts'["for"].stack[j] = stmts["for"].stack[j]
      BY <2>3, <2>4, <2>5
    <3> DEFINE c == Tail(ctx)
               S == stmts
               W == stmts'
    <3>2. /\ Statements(c, S) /\ \A i \in 1..Len(c) : c[i].k # "forbound"
          /\ \A r \in Stmts \ {"for"} : W[r] = S[r]
          /\ W["for"].index = S["for"].index + 1
          /\ W["for"].stack[S["for"].index] = g.n
          /\ \A j \in Nat : j < S["for"].index => W["for"].stack[j] = S["for"].stack[j]
      BY <2>2, <2>3, <2>7, <3>1
    <3> HIDE DEF c, S, W
    <3>3. Statements(Push(g, c), W)
      BY <2>1, <2>5, <2>6, <3>2, StatementsOpen
    <3> QED
      BY <3>3 DEF c, W
  <2> QED
    BY <2>1, <2>8, StatementsBlock DEF g
<1> QED
  BY <1>1, <1>2

\* The three statements end alike: the place is given back.
LEMMA NumbersEnd ==
    ASSUME ScopeInv, Statements(ctx, stmts), Fi \/ EndWhile \/ EndFor
    PROVE  Statements(ctx', stmts')
<1>1. ASSUME NEW s \in Stmts, ctx # <<>>, Top.k \in Opened(s), ctx' = Tail(ctx),
             stmts' = [stmts EXCEPT ![s].index = @ - 1]
      PROVE  Statements(ctx', stmts')
  <2>1. stmts["if"].index \in Int /\ stmts["while"].index \in Int /\ stmts["for"].index \in Int
    BY DEF ScopeInv, StmtsTyped, Stmts
  <2>2. /\ stmts'[s].index = stmts[s].index - 1
        /\ stmts'[s].stack = stmts[s].stack
        /\ \A r \in Stmts \ {s} : stmts'[r] = stmts[r]
    <3>1. /\ stmts[s].index - 1 \in Int
          /\ stmts' = [stmts EXCEPT ![s].index = stmts[s].index - 1]
      BY <1>1, <2>1 DEF Stmts
    <3> QED
      BY <1>1, <3>1, IndexShape
  <2>3. \A i \in 1..Len(Tail(ctx)) : Tail(ctx)[i].k # "forbound"
    <3>1. Top.k # "arg"
      BY <1>1, OpenedKinds DEF AllOpened
    <3> QED
      BY <1>1, <3>1, NothingReadBelow DEF ExprFrames
  <2>4. Head(ctx).k \in Opened(s)
    BY <1>1 DEF Top
  <2>5. Statements(Tail(ctx), stmts')
    <3> DEFINE c == ctx
               S == stmts
               W == stmts'
    <3>1. /\ Statements(c, S) /\ c # <<>> /\ Head(c).k \in Opened(s)
          /\ \A i \in 1..Len(Tail(c)) : Tail(c)[i].k # "forbound"
          /\ \A r \in Stmts \ {s} : W[r] = S[r]
          /\ W[s].index = S[s].index - 1 /\ W[s].stack = S[s].stack
      BY <1>1, <2>2, <2>3, <2>4
    <3> HIDE DEF c, S, W
    <3>2. Statements(Tail(c), W)
      BY <1>1, <3>1, StatementsClose
    <3> QED
      BY <3>2 DEF c, W
  <2> QED
    BY <1>1, <2>5
<1>2. CASE Fi
  <2>1. ctx # <<>> /\ Top.k \in {"thenEnd", "else"} /\ ctx' = Tail(ctx)
        /\ stmts' = [stmts EXCEPT !["if"].index = @ - 1]
    BY <1>2 DEF Fi, In
  <2> QED
    BY <1>1, <2>1, OpenedKinds DEF Stmts
<1>3. CASE EndWhile
  <2>1. ctx # <<>> /\ Top.k = "do" /\ ctx' = Tail(ctx)
        /\ stmts' = [stmts EXCEPT !["while"].index = @ - 1]
    BY <1>3 DEF EndWhile, In
  <2> QED
    BY <1>1, <2>1, OpenedKinds DEF Stmts
<1>4. CASE EndFor
  <2>1. ctx # <<>> /\ Top.k = "for" /\ ctx' = Tail(ctx)
        /\ stmts' = [stmts EXCEPT !["for"].index = @ - 1]
    BY <1>4 DEF EndFor, In
  <2> QED
    BY <1>1, <2>1, OpenedKinds DEF Stmts
<1> QED
  BY <1>2, <1>3, <1>4

LEMMA NumbersStatement ==
    ASSUME ScopeInv, Statements(ctx, stmts), Statement
    PROVE  Statements(ctx', stmts')
<1>1. ASSUME UNCHANGED <<ctx, stmts>>
      PROVE  Statements(ctx', stmts')
  BY <1>1
<1>2. ASSUME NEW k, In(k) \/ ExprDone(k)
      PROVE  ctx # <<>> /\ Top.k = k /\ Head(ctx).k = k
  BY <1>2 DEF In, ExprDone, Top
<1>3. ASSUME NEW x \in Names, SetStart(x)
      PROVE  Statements(ctx', stmts')
  BY <1>3, StatementsStart DEF SetStart, OpenExpression, Reading
<1>4. CASE ReturnStart \/ IfStart
  <2>1. FileName \in Names
    BY ConstantsAssumption
  <2> QED
    BY <1>4, <2>1, StatementsStart DEF ReturnStart, IfStart, OpenExpression, Reading
<1>5. ASSUME NEW x \in Names, Step(x)
      PROVE  Statements(ctx', stmts')
  <2>1. CASE Stop("aborted")
    BY <1>1, <2>1 DEF Stop
  <2>2. CASE In("block") /\ ctx' = Enclosing /\ stmts' = stmts
    BY <2>2, StatementsEnclosing
  <2> QED
    BY <1>5, <2>1, <2>2 DEF Step
<1>6. ASSUME NEW x \in Names, ForName(x)
      PROVE  Statements(ctx', stmts')
  <2>1. CASE Stop("refused")
    BY <1>1, <2>1 DEF Stop
  <2>2. CASE ~Stop("refused")
    <3>1. /\ In("block") /\ Fits(2) /\ stmts' = stmts
          /\ ctx' = Push(NewFrame("forinit", x, 0), Enclosing)
      BY <1>6, <2>2 DEF ForName
    <3> QED
      BY <3>1, StatementsStart
  <2> QED
    BY <2>1, <2>2
<1>7. CASE Set \/ Return
  <2>1. ctx # <<>> /\ Head(ctx).k \in {"set", "return"} /\ ctx' = Tail(ctx) /\ stmts' = stmts
    BY <1>2, <1>7 DEF Set, Return
  <2>2. Head(ctx).k \notin AllOpened
    BY <2>1 DEF AllOpened
  <2> QED
    BY <2>1, <2>2, StatementsTail
<1>8. CASE EndIf
  <2> DEFINE g == [Top EXCEPT !.k = "thenEnd"]
  <2>1. ctx # <<>> /\ Head(ctx).k = "then" /\ ctx' = Push(g, Tail(ctx)) /\ stmts' = stmts
        /\ Top = Head(ctx)
    BY <1>2, <1>8 DEF EndIf, Top
  <2>2. g \in FrameI /\ g.k = "thenEnd" /\ g.n = Head(ctx).n
    <3>1. "thenEnd" \in FrameKinds
      BY DEF FrameKinds
    <3> QED
      BY <2>1, <3>1, TopTyped DEF FrameI
  <2> HIDE DEF g
  <2> QED
    BY <2>1, <2>2, StatementsSwap
<1>9. ASSUME NEW k \in {"else", "do"}, ctx # <<>>, OpenBlock(k, Top.n), stmts' = stmts,
             <<Top.k, k>> \in {<<"thenEnd", "else">>, <<"while", "do">>}
      PROVE  Statements(ctx', stmts')
  <2> DEFINE g == [Top EXCEPT !.k = k, !.n = Top.n]
  <2>1. g \in FrameI /\ g.k = k /\ g.n = Head(ctx).n /\ Top = Head(ctx)
    <3>1. k \in FrameKinds \ {"set"} /\ Top.n \in Nat
      BY <1>9, TopTyped DEF FrameKinds
    <3> QED
      BY <1>9, <3>1, TopBecomes DEF Top
  <2> HIDE DEF g
  <2>2. Statements(Push(g, Tail(ctx)), stmts)
    BY <1>9, <2>1, StatementsSwap
  <2> QED
    BY <1>9, <2>2, StatementsBlock DEF g
<1>10. CASE Else
  BY <1>2, <1>9, <1>10 DEF Else
<1>11. CASE WhileCondition
  BY <1>2, <1>9, <1>11 DEF WhileCondition
<1> QED
  BY <1>3, <1>4, <1>5, <1>6, <1>7, <1>8, <1>10, <1>11, NumbersWhileStart, NumbersBeginIf,
     NumbersForInit, NumbersForBound, NumbersEnd DEF Statement

LEMMA NumbersExpression ==
    ASSUME ScopeInv, Statements(ctx, stmts), Expression
    PROVE  Statements(ctx', stmts')
<1>1. ASSUME UNCHANGED <<ctx, stmts>>
      PROVE  Statements(ctx', stmts')
  BY <1>1
<1>2. "arg" \notin AllOpened /\ "arg" # "forbound" /\ "arg" \notin Reading
      /\ "arg" \in FrameKinds
  BY DEF AllOpened, Reading, FrameKinds, ExprFrames
<1>3. CASE \/ \E x \in Names : Identifier(x)
           \/ \E op \in Operators : Branching(op)
           \/ Constant \/ Arithmetic
  BY <1>1, <1>3 DEF Identifier, Branching, Constant, Arithmetic, Stop
<1>4. ASSUME NEW x \in Names, CallStart(x)
      PROVE  Statements(ctx', stmts')
  <2> DEFINE f == NewFrame("arg", x, 0)
  <2>1. ctx' = Push(f, ctx) /\ stmts' = stmts
    BY <1>4 DEF CallStart
  <2>2. f \in FrameI /\ f.k = "arg"
    <3>1. x \in Names \cup {NoName} /\ 0 \in Nat
      OBVIOUS
    <3> QED
      BY <1>2, <3>1, FrameTyped
  <2> HIDE DEF f
  <2> QED
    BY <1>2, <2>1, <2>2, StatementsPush
<1>5. CASE Argument
  <2> DEFINE g == [Top EXCEPT !.n = @ + 1]
  <2>1. /\ ctx # <<>> /\ Head(ctx).k = "arg" /\ ctx' = Push(g, Tail(ctx)) /\ stmts' = stmts
        /\ Top = Head(ctx)
    BY <1>5 DEF Argument, ExprDone, In, Top
  <2>2. g \in FrameI /\ g.k = "arg"
    <3>1. Top \in [k : FrameKinds, base : Int, name : Names \cup {NoName}, n : Nat]
          /\ Top.n + 1 \in Nat
      BY <2>1, TopTyped DEF FrameI
    <3> QED
      BY <2>1, <3>1 DEF FrameI
  <2> HIDE DEF g
  <2>3. Statements(Tail(ctx), stmts)
    BY <1>2, <2>1, StatementsTail
  <2> QED
    BY <1>2, <2>1, <2>2, <2>3, StatementsPush
<1>6. CASE Call
  <2>1. CASE Stop("refused")
    BY <1>1, <2>1 DEF Stop
  <2>2. CASE ~Stop("refused")
    <3>1. ctx # <<>> /\ Head(ctx).k = "arg" /\ ctx' = Tail(ctx) /\ stmts' = stmts
      BY <1>6, <2>2 DEF Call, In, Top
    <3> QED
      BY <1>2, <3>1, StatementsTail
  <2> QED
    BY <2>1, <2>2
<1> QED
  BY <1>3, <1>4, <1>5, <1>6 DEF Expression

\* The numbers of stmts and the stack of constructs agree at every step.
THEOREM StatementsInvariant == Spec => []Statements(ctx, stmts)
<1>1. Init => Statements(ctx, stmts)
  <2> SUFFICES ASSUME Init PROVE Statements(ctx, stmts)
    OBVIOUS
  <2>1. ctx = <<>> /\ <<>> \in Seq(FrameI) /\ Len(<<>>) = 0
    BY DEF Init
  <2>2. ASSUME NEW K PROVE Outside(K, <<>>, 0) = 0
    <3>1. 0 \in 0..Len(<<>>)
      BY <2>1
    <3>2. Outside(K, <<>>, 0) \in Nat /\ Outside(K, <<>>, 0) =< Len(<<>>) - 0
      BY <2>1, <3>1, OutsideType
    <3> QED
      BY <2>1, <3>2
  <2>3. \A s \in Stmts : stmts[s].index = 0
    BY DEF Init
  <2> QED
    BY <2>1, <2>2, <2>3 DEF Statements, Numbers, Numbered, BoundNumber, Room
<1>2. ScopeInv /\ Statements(ctx, stmts) /\ [Next]_vars => Statements(ctx, stmts)'
  <2> SUFFICES ASSUME ScopeInv, Statements(ctx, stmts), [Next]_vars
               PROVE  Statements(ctx', stmts')
    OBVIOUS
  <2>1. CASE Ended \/ UNCHANGED vars
    BY <2>1 DEF Ended, vars
  <2> QED
    BY <2>1, NumbersFunctionRule, NumbersStatement, NumbersExpression DEF Next
<1> QED
  BY <1>1, <1>2, ScopeInvariant, PTL DEF Spec

\* The labels of one IF, WHILE or FOR always carry one number: what the end of
\* the statement reads back from stmts is what its beginning wrote, however
\* statements and argument lists are nested.
THEOREM StatementsKeepNumbers == Spec => []StatementNumbers
<1>1. ScopeInv /\ Statements(ctx, stmts) => StatementNumbers
  <2> SUFFICES ASSUME ScopeInv, Statements(ctx, stmts) PROVE StatementNumbers
    OBVIOUS
  <2>1. ctx \in Seq(FrameI) /\ DOMAIN ctx = 1..Len(ctx)
    BY DEF Statements
  <2>2. \A s \in Stmts : Numbered(Opened(s), ctx, stmts[s].stack, stmts[s].index)
    BY DEF Statements, Numbers
  <2>3. \A i \in 1..Len(ctx) : ctx[i].k = "forbound" => ctx[i].n = Current("for")
    BY DEF Statements, BoundNumber, Current
  <2> QED
    BY <2>1, <2>2, <2>3 DEF StatementNumbers, Numbered
<1> QED
  BY <1>1, ScopeInvariant, StatementsInvariant, PTL

-----------------------------------------------------------------------------
(* The types.                                                              *)
(*                                                                         *)
(* TypeOK is the sum of the three invariants: that index is never lowered  *)
(* below 0 follows from Statements, that count_args never wraps from       *)
(* BalanceInv, and that num_scope counts the open blocks from ScopeInv.    *)

OtherTypes ==
    /\ status \in Statuses
    /\ stack_packages \in Seq(Packages)
    /\ label \in Nat

LEMMA OtherTypesStep ==
    ASSUME OtherTypes, [Next]_vars
    PROVE  OtherTypes'
<1>1. NewLabel \/ UNCHANGED label => label' \in Nat
  BY DEF OtherTypes, NewLabel
<1>2. ASSUME UNCHANGED <<status, stack_packages, label>> PROVE OtherTypes'
  BY <1>2 DEF OtherTypes
<1>3. ASSUME NEW s \in Statuses, Stop(s) PROVE OtherTypes'
  BY <1>3 DEF OtherTypes, Stop, tableVars, codeVars
<1>4. {"refused", "aborted", "crashed", "accepted"} \subseteq Statuses
  BY DEF Statuses
<1>5. CASE FunctionRule
  <2>1. ASSUME NEW p \in Packages, BeginPackage(p) PROVE OtherTypes'
    <3>1. CASE Stop("aborted")
      BY <1>3, <1>4, <3>1
    <3>2. CASE ~Stop("aborted")
      <4>1. /\ status' = status /\ label' = label
            /\ stack_packages' = <<p>> \o stack_packages
        BY <2>1, <3>2 DEF BeginPackage, stack_strings_push, codeVars
      <4> QED
        BY <4>1 DEF OtherTypes
    <3> QED
      BY <3>1, <3>2
  <2>2. ASSUME NEW p \in Packages, EndPackage(p) PROVE OtherTypes'
    BY <1>2, <1>3, <1>4, <2>2 DEF EndPackage, codeVars
  <2>3. ASSUME NEW x \in Names, FunctionName(x) \/ Parameter(x) PROVE OtherTypes'
    BY <1>2, <1>3, <1>4, <2>3 DEF FunctionName, Parameter, codeVars
  <2>4. CASE ParamsEnd
    BY <1>2, <1>3, <1>4, <2>4 DEF ParamsEnd
  <2>5. CASE CloseBlock \/ FreeParameters
    BY <1>2, <2>5 DEF CloseBlock, FreeParameters, codeVars
  <2>6. CASE EndOfFile
    BY <1>4, <2>6 DEF EndOfFile, OtherTypes
  <2>7. CASE SyntaxError
    BY <1>3, <1>4, <2>7 DEF SyntaxError
  <2> QED
    BY <1>5, <2>1, <2>2, <2>3, <2>4, <2>5, <2>6, <2>7 DEF FunctionRule
<1>6. CASE Statement
  <2>1. ASSUME NEW x \in Names, SetStart(x) \/ Step(x) \/ ForName(x) PROVE OtherTypes'
    BY <1>2, <1>3, <1>4, <2>1 DEF SetStart, OpenExpression, Step, ForName,
       tableVars, codeVars
  <2>2. CASE ForBound
    <3>1. CASE Stop("aborted")
      BY <1>3, <1>4, <3>1
    <3>2. CASE ~Stop("aborted")
      <4>1. status' = status /\ stack_packages' = stack_packages /\ NewLabel
        BY <2>2, <3>2 DEF ForBound, OpenBlock
      <4> QED
        BY <1>1, <4>1 DEF OtherTypes
    <3> QED
      BY <3>1, <3>2
  <2>3. CASE BeginIf \/ Else \/ WhileCondition
    BY <1>2, <2>3 DEF BeginIf, Else, WhileCondition, OpenBlock, codeVars
  <2>4. CASE ReturnStart \/ IfStart \/ Set \/ Return \/ EndIf \/ Fi
             \/ WhileStart \/ EndWhile \/ ForInit \/ EndFor
    BY <1>2, <2>4 DEF ReturnStart, IfStart, OpenExpression, Set, Return, EndIf,
       Fi, WhileStart, EndWhile, ForInit, EndFor, tableVars, codeVars
  <2> QED
    BY <1>6, <2>1, <2>2, <2>3, <2>4 DEF Statement
<1>7. CASE Expression
  <2>1. ASSUME NEW x \in Names, Identifier(x) \/ CallStart(x) PROVE OtherTypes'
    BY <1>2, <1>3, <1>4, <2>1 DEF Identifier, CallStart, tableVars, codeVars
  <2>2. ASSUME NEW op \in Operators, Branching(op) PROVE OtherTypes'
    <3>1. CASE Stop("aborted")
      BY <1>3, <1>4, <3>1
    <3>2. CASE ~Stop("aborted")
      <4>1. status' = status /\ stack_packages' = stack_packages /\ NewLabel
        BY <2>2, <3>2 DEF Branching, tableVars
      <4> QED
        BY <1>1, <4>1 DEF OtherTypes
    <3> QED
      BY <3>1, <3>2
  <2>3. CASE Constant \/ Arithmetic \/ Argument
    BY <1>2, <2>3 DEF Constant, Arithmetic, Argument, tableVars, codeVars
  <2>4. CASE Call
    BY <1>2, <1>3, <1>4, <2>4 DEF Call, tableVars
  <2> QED
    BY <1>7, <2>1, <2>2, <2>3, <2>4 DEF Expression
<1>8. CASE Ended \/ UNCHANGED vars
  BY <1>2, <1>8 DEF Ended, vars, tableVars, codeVars
<1> QED
  BY <1>5, <1>6, <1>7, <1>8 DEF Next

\* Every variable of the compiler keeps its type: the unsigned char count_args
\* does not wrap, no index of stmts is lowered below 0, and num_scope, which
\* every block raises and lowers, never goes negative.
THEOREM TypesAreKept ==
    ASSUME MaxDepth < CountModulus
    PROVE  Spec => []TypeOK
<1>1. Init => OtherTypes
  BY DEF Init, OtherTypes, Statuses, new_stack_strings
<1>2. OtherTypes /\ [Next]_vars => OtherTypes'
  BY OtherTypesStep
<1>3. BalanceInv /\ ScopeInv /\ Statements(ctx, stmts) /\ OtherTypes => TypeOK
  <2> SUFFICES ASSUME BalanceInv, ScopeInv, Statements(ctx, stmts), OtherTypes
               PROVE  TypeOK
    OBVIOUS
  <2>1. count_args \in 0..(CountModulus - 1)
    <3>1. /\ count_args \in Nat /\ pending \in Nat /\ depth \in Nat
          /\ depth = pending + count_args /\ depth =< MaxDepth
      BY DEF BalanceInv
    <3> QED
      BY <3>1, ConstantsAssumption
  <2>2. symbol_table \in Seq(Entry) /\ num_scope \in Nat /\ stale \in Nat
    BY ScopeEmpty, ScopeFacts DEF ScopeInv, Scope
  <2>3. \A s \in Stmts : stmts[s].index \in Nat
    BY NumberedType DEF Statements, Numbers
  <2>4. stmts \in [Stmts -> [stack : [0..(MaxNest - 1) -> Nat],
                             index : Nat, number : Nat]]
    BY <2>3 DEF BalanceInv, StmtsTyped
  <2> QED
    BY <2>1, <2>2, <2>4 DEF BalanceInv, Nested, OtherTypes, TypeOK
<1> QED
  BY <1>1, <1>2, <1>3, BalanceInvariant, ScopeInvariant, StatementsInvariant,
     PTL DEF Spec

-----------------------------------------------------------------------------
(* The storage of the variables.                                           *)
(*                                                                         *)
(* Inside a block every variable of the table has its label in the code,   *)
(* and so has the function.                                                *)
(* The parameters get theirs in a loop that follows nParams entries, so    *)
(* the invariant also says which entry the loop may leave out: the last,   *)
(* the function's own, because FunctionLast bounds nParams from below.     *)

Declared(t, D) ==
    \A i \in 1..Len(t) : t[i].class = "LOCAL_VARIABLE" => <<"var", t[i].name>> \in D

FunctionAtEnd(t) == t # <<>> => t[Len(t)].class = "FUNCTION"

FunctionNamed(t) == \A i \in 1..Len(t) : t[i].class = "FUNCTION" => t[i].name = FileName

Storage(t, s, D) ==
    /\ FunctionAtEnd(t) /\ FunctionNamed(t)
    /\ s > 0 => Declared(t, D) /\ <<"fun", FileName>> \in D

StorageInv == Storage(symbol_table, num_scope, defs)

\* Some construct inside the body of the function is open: so is a block.
LEMMA InsideBlock ==
    ASSUME ScopeInv, ctx # <<>>, Top.k \notin FunctionFrames
    PROVE  num_scope \in Nat /\ num_scope > 0
<1> DEFINE c == ctx
           L == Len(c)
<1>1. Scope(c, symbol_table, num_scope) /\ Stack(c) /\ c \in Seq(FrameI)
  BY DEF ScopeInv, Scope, Stack
<1>2. L \in Nat /\ L >= 2 /\ c[L].k = "body" /\ num_scope \in Nat
  BY <1>1, ScopeFacts DEF Top
<1> HIDE DEF c, L
<1>3. L - 1 \in 1..L /\ L \in 0..L /\ (L - 1) + 1 = L /\ 0 \in 0..L
      /\ L - 1 \in (0 + 1)..L /\ Len(c) = L
  BY <1>2 DEF L
<1>4. c[L - 1].k \notin FunctionFrames /\ "body" \in On(c[L - 1].k)
  <2>1. /\ c[L - 1].k \in FunctionFrames => L - 1 = L
        /\ c[L - 1].k \notin FunctionFrames => c[(L - 1) + 1].k \in On(c[L - 1].k)
    BY <1>1, <1>3 DEF Stack, Standing
  <2> QED
    BY <1>2, <1>3, <2>1
<1>5. c[L - 1].k \in Block
  <2>1. c[L - 1].k \in FrameKinds
    BY <1>1, <1>3 DEF FrameI
  <2> QED
    BY <1>4, <2>1 DEF On, Block, FunctionFrames, FrameKinds, ExprFrames
<1>6. Outside(Block, c, L) < Outside(Block, c, 0) /\ Outside(Block, c, L) \in Nat
  BY <1>1, <1>3, <1>5, OutsideMonotone, OutsideType
<1>7. num_scope = Outside(Block, c, 0)
  BY <1>1 DEF Scope
<1> QED
  BY <1>2, <1>6, <1>7

\* The code only grows.
LEMMA StorageMore ==
    ASSUME NEW t, NEW s, NEW r, NEW D, NEW E, Storage(t, s, D), D \subseteq E,
           r > 0 => s > 0
    PROVE  Storage(t, r, E)
BY DEF Storage, Declared

\* A variable is entered together with its label.
LEMMA StorageEnter ==
    ASSUME NEW t \in Seq(Entry), t # <<>>, NEW s, NEW e \in Entry, NEW D, NEW E,
           Storage(t, s, D), D \subseteq E, <<"var", e.name>> \in E,
           e.class = "LOCAL_VARIABLE"
    PROVE  Storage(<<e>> \o t, s, E)
<1> DEFINE u == <<e>> \o t
<1>1. /\ Len(t) \in Nat /\ Len(u) = Len(t) + 1 /\ u[1] = e
      /\ \A i \in 1..Len(t) : u[i + 1] = t[i]
      /\ \A i \in 2..Len(u) : i - 1 \in 1..Len(t) /\ u[i] = t[i - 1]
  BY EnterShape
<1> HIDE DEF u
<1>2. Len(t) \in 1..Len(t)
  BY <1>1
<1>3. FunctionAtEnd(u)
  BY <1>1, <1>2 DEF Storage, FunctionAtEnd
<1>4. ASSUME s > 0 PROVE Declared(u, E)
  <2> SUFFICES ASSUME NEW i \in 1..Len(u), u[i].class = "LOCAL_VARIABLE"
               PROVE  <<"var", u[i].name>> \in E
    BY DEF Declared
  <2>1. CASE i = 1
    BY <1>1, <2>1
  <2>2. CASE i # 1
    <3>1. i \in 2..Len(u)
      BY <1>1, <2>2
    <3> QED
      BY <1>1, <1>4, <3>1 DEF Storage, Declared
  <2> QED
    BY <2>1, <2>2
<1>5. FunctionNamed(u)
  <2> SUFFICES ASSUME NEW i \in 1..Len(u), u[i].class = "FUNCTION"
               PROVE  u[i].name = FileName
    BY DEF FunctionNamed
  <2>1. i # 1
    BY <1>1
  <2>2. i \in 2..Len(u)
    BY <1>1, <2>1
  <2> QED
    BY <1>1, <2>2 DEF Storage, FunctionNamed
<1> QED
  BY <1>3, <1>4, <1>5 DEF Storage, u

\* The first entries are freed.
LEMMA StorageDrop ==
    ASSUME NEW t \in Seq(Entry), NEW m \in Nat, NEW s, NEW r, NEW D, NEW E,
           Storage(t, s, D), D \subseteq E, r > 0 => s > 0
    PROVE  Storage(SubSeq(t, m + 1, Len(t)), r, E)
<1> DEFINE u == SubSeq(t, m + 1, Len(t))
<1>1. /\ u \in Seq(Entry) /\ Len(t) \in Nat
      /\ m =< Len(t) => Len(u) = Len(t) - m
      /\ m >= Len(t) => u = <<>>
      /\ \A i \in 1..Len(u) : i + m \in 1..Len(t) /\ u[i] = t[i + m]
  BY DropShape
<1> HIDE DEF u
<1>2. FunctionAtEnd(u)
  <2> SUFFICES ASSUME u # <<>> PROVE u[Len(u)].class = "FUNCTION"
    BY DEF FunctionAtEnd
  <2>1. m < Len(t) /\ Len(u) = Len(t) - m
    BY <1>1
  <2>2. Len(u) \in 1..Len(u) /\ Len(u) + m = Len(t) /\ t # <<>>
    BY <1>1, <2>1
  <2> QED
    BY <1>1, <2>2 DEF Storage, FunctionAtEnd
<1>3. r > 0 => Declared(u, E) /\ <<"fun", FileName>> \in E
  BY <1>1 DEF Storage, Declared
<1>4. FunctionNamed(u)
  BY <1>1 DEF Storage, FunctionNamed
<1> QED
  BY <1>2, <1>3, <1>4 DEF Storage, u

\* The labels of the code.
LEMMA EmitMore ==
    ASSUME NEW D, NEW R, Emit(D, R)
    PROVE  defs \subseteq defs' /\ D \subseteq defs'
BY DEF Emit

\* Steps that leave the table and the number of blocks alone.
LEMMA StorageSame ==
    ASSUME StorageInv, UNCHANGED <<symbol_table, num_scope>>, defs \subseteq defs'
    PROVE  StorageInv'
BY StorageMore DEF StorageInv

LEMMA StorageStop ==
    ASSUME StorageInv, NEW s, Stop(s)
    PROVE  StorageInv'
BY StorageSame DEF Stop, tableVars, codeVars

\* FreeFirst(m), in a block that closes or not.
LEMMA StorageFree ==
    ASSUME ScopeInv, StorageInv, NEW m \in Nat, symbol_table' = FreeFirst(m),
           num_scope' > 0 => num_scope > 0, defs \subseteq defs'
    PROVE  StorageInv'
<1>1. symbol_table \in Seq(Entry)
  BY DEF ScopeInv, Scope
<1> QED
  BY <1>1, StorageDrop DEF StorageInv, FreeFirst

\* A variable named in a block is new: it is entered and declared.
LEMMA StorageNew ==
    ASSUME ScopeInv, StorageInv, ctx # <<>>, Top.k \notin FunctionFrames,
           NEW x \in Names, NEW R, Enter(x), Emit(VarLabels(x), R), UNCHANGED num_scope
    PROVE  StorageInv'
<1>1. symbol_table \in Seq(Entry) /\ FunctionLast(symbol_table)
  BY ScopeFacts DEF ScopeInv, Scope, Top
<1>2. symbol_table # <<>>
  BY <1>1 DEF FunctionLast
<1>3. Variable(x) \in Entry /\ Variable(x).name = x
      /\ Variable(x).class = "LOCAL_VARIABLE"
  BY EntryTyped DEF Variable
<1>4. defs \subseteq defs' /\ <<"var", x>> \in defs'
  BY EmitMore DEF VarLabels
<1>5. symbol_table' = <<Variable(x)>> \o symbol_table
  BY DEF Enter
<1> QED
  BY <1>1, <1>2, <1>3, <1>4, <1>5, StorageEnter DEF StorageInv

\* A block opens inside the body.
LEMMA StorageOpen ==
    ASSUME ScopeInv, StorageInv, ctx # <<>>, Top.k \notin FunctionFrames,
           NEW k, NEW n, OpenBlock(k, n), defs \subseteq defs'
    PROVE  StorageInv'
BY InsideBlock, StorageMore DEF StorageInv, OpenBlock

\* The first loop after the parameters writes the labels of the variables among
\* the entries it follows.
LEMMA ParamsDeclared ==
    ASSUME ParamsEnd, ~Stop("crashed")
    PROVE  /\ StorageOf(1..(search_symbol_table(FileName).nParams)) \subseteq defs'
           /\ <<"fun", FileName>> \in defs'
BY DEF ParamsEnd, Emit

LEMMA StorageFunctionRule ==
    ASSUME ScopeInv, StorageInv, FunctionRule
    PROVE  StorageInv'
<1>1. symbol_table \in Seq(Entry) /\ num_scope \in Nat
  BY ScopeEmpty, ScopeFacts DEF ScopeInv, Scope
<1>2. In("begun") \/ In("params") \/ In("body") \/ In("end") => num_scope = 0
  BY ScopeFacts DEF ScopeInv, In, Top, FunctionFrames
<1>3. ASSUME NEW p \in Packages, BeginPackage(p) PROVE StorageInv'
  <2>1. ~Stop("aborted") => UNCHANGED <<symbol_table, num_scope, defs>>
    BY <1>3 DEF BeginPackage, codeVars
  <2> QED
    BY <2>1, StorageStop, StorageSame
<1>4. ASSUME NEW p \in Packages, EndPackage(p) PROVE StorageInv'
  <2>1. \/ Stop("aborted") \/ Stop("crashed")
        \/ symbol_table' = FreeFirst(1) /\ UNCHANGED <<num_scope, defs>>
    BY <1>4 DEF EndPackage, codeVars
  <2> QED
    BY <2>1, StorageStop, StorageFree
<1>5. ASSUME NEW x \in Names, FunctionName(x) PROVE StorageInv'
  <2>1. CASE Stop("aborted")
    BY <2>1, StorageStop
  <2>2. CASE ~Stop("aborted")
    <3>1. PICK n \in Uninitialised :
             symbol_table' = <<[name |-> x, class |-> "FUNCTION", add |-> 0,
                                nParams |-> n]>> \o symbol_table
      BY <1>5, <2>2 DEF FunctionName
    <3> DEFINE e == [name |-> x, class |-> "FUNCTION", add |-> 0, nParams |-> n]
    <3>2. In("begun") /\ num_scope' = num_scope /\ x = FileName
      BY <1>5, <2>2 DEF FunctionName
    <3>3. symbol_table = <<>>
      <4>1. Len(ctx) = 1 /\ ctx[1].k = "begun" /\ ctx # <<>>
        BY <3>2, ScopeFacts DEF ScopeInv, In, Top, FunctionFrames
      <4> QED
        BY <4>1 DEF ScopeInv, Scope, FunctionEntry
    <3>4. symbol_table' = <<e>>
      <4>1. symbol_table' = <<e>> \o <<>>
        BY <3>1, <3>3
      <4> QED
        BY <4>1
    <3>5. num_scope' = 0
      BY <1>2, <3>2
    <3>6. Len(<<e>>) = 1 /\ <<e>>[1].class = "FUNCTION" /\ <<e>>[1].name = FileName
      BY <3>2
    <3> HIDE DEF e
    <3> QED
      BY <3>4, <3>5, <3>6 DEF StorageInv, Storage, FunctionAtEnd, FunctionNamed
  <2> QED
    BY <2>1, <2>2
<1>6. ASSUME NEW x \in Names, Parameter(x) PROVE StorageInv'
  <2>1. CASE Stop("aborted")
    BY <2>1, StorageStop
  <2>2. CASE ~Stop("aborted")
    <3> DEFINE L == Len(symbol_table)
               u == [symbol_table EXCEPT ![Position(FileName)].nParams = @ + 1]
               e == Variable(x)
    <3>1. In("params") /\ symbol_table' = <<e>> \o u /\ num_scope' = num_scope
      BY <1>6, <2>2 DEF Parameter
    <3>2. num_scope = 0 /\ FunctionLast(symbol_table)
      <4>1. ctx # <<>> /\ Len(ctx) = 1 /\ ctx[1].k = "params"
        BY <3>1, ScopeFacts DEF ScopeInv, In, Top, FunctionFrames
      <4> QED
        BY <1>2, <3>1, <4>1 DEF ScopeInv, Scope, FunctionEntry
    <3>3. /\ Position(FileName) = L /\ L \in 1..L /\ symbol_table[L] \in Entry
      BY <1>1, <3>2, FunctionPosition DEF ScopeInv, Scope
    <3>4. symbol_table # <<>> /\ symbol_table[L].class = "FUNCTION"
      <4>1. symbol_table # <<>>
        BY <3>2 DEF FunctionLast
      <4> QED
        BY <4>1 DEF StorageInv, Storage, FunctionAtEnd
    <3>5. /\ u \in Seq(Entry) /\ Len(u) = L /\ u[L].class = "FUNCTION"
          /\ FunctionNamed(u)
      <4> DEFINE t == symbol_table
                 g == [t[L] EXCEPT !.nParams = @ + 1]
      <4>1. u = [t EXCEPT ![L] = g]
        BY <3>3
      <4>2. g \in Entry /\ g.class = "FUNCTION" /\ g.name = t[L].name
        BY <3>3, <3>4 DEF Entry
      <4>3. t \in Seq(Entry) /\ L \in 1..Len(t) /\ L = Len(t)
        BY <1>1, <3>3
      <4> HIDE DEF g, u, t, L
      <4>4. /\ [t EXCEPT ![L] = g] \in Seq(Entry) /\ Len([t EXCEPT ![L] = g]) = Len(t)
            /\ \A i \in 1..Len(t) : [t EXCEPT ![L] = g][i] = IF i = L THEN g ELSE t[i]
        BY <4>2, <4>3, ExceptSeq
      <4>5. FunctionNamed(t) /\ t[L].class = "FUNCTION"
        BY <3>4 DEF StorageInv, Storage, t
      <4> QED
        BY <4>1, <4>2, <4>3, <4>4, <4>5 DEF FunctionNamed
    <3>6. e \in Entry /\ e.class = "LOCAL_VARIABLE"
      BY EntryTyped DEF Variable
    <3> DEFINE w == <<e>> \o u
    <3> HIDE DEF u, e, w
    <3>7. /\ Len(w) = L + 1 /\ w[L + 1] = u[L] /\ w[1] = e
          /\ \A i \in 2..Len(w) : i - 1 \in 1..Len(u) /\ w[i] = u[i - 1]
      BY <3>3, <3>5, <3>6, EnterShape DEF w
    <3>8. FunctionNamed(w)
      <4> SUFFICES ASSUME NEW i \in 1..Len(w), w[i].class = "FUNCTION"
                   PROVE  w[i].name = FileName
        BY DEF FunctionNamed
      <4>1. i # 1
        BY <3>6, <3>7
      <4>2. i \in 2..Len(w)
        BY <3>3, <3>7, <4>1
      <4> QED
        BY <3>5, <3>7, <4>2 DEF FunctionNamed
    <3> QED
      BY <3>1, <3>2, <3>5, <3>7, <3>8 DEF StorageInv, Storage, FunctionAtEnd, w
  <2> QED
    BY <2>1, <2>2
<1>7. CASE ParamsEnd
  <2>1. CASE Stop("crashed")
    BY <2>1, StorageStop
  <2>2. CASE ~Stop("crashed")
    <3> DEFINE t == symbol_table
               L == Len(t)
               n == search_symbol_table(FileName).nParams
    <3>1. In("params") /\ symbol_table' = t /\ ~(n > L)
      BY <1>7, <2>2 DEF ParamsEnd
    <3>2. ASSUME NEW j \in 1..n, t[j].class = "LOCAL_VARIABLE"
          PROVE  <<"var", t[j].name>> \in defs'
      <4>1. <<"var", t[j].name>> \in StorageOf(1..n)
        BY <3>2 DEF StorageOf, VarLabels
      <4> QED
        BY <1>7, <2>2, <4>1, ParamsDeclared
    <3>3. num_scope = 0 /\ FunctionLast(t) /\ Ordered(t, num_scope)
      <4>1. ctx # <<>> /\ Len(ctx) = 1 /\ ctx[1].k = "params"
        BY <3>1, ScopeFacts DEF ScopeInv, In, Top, FunctionFrames
      <4> QED
        BY <1>2, <3>1, <4>1 DEF ScopeInv, Scope, FunctionEntry
    <3>4. L \in Nat /\ L >= 1 /\ \A i \in 1..L : t[i] \in Entry
      BY <1>1, <3>3 DEF FunctionLast
    <3>5. n = t[L].nParams
      BY <1>1, <3>3, FunctionPosition
    <3>6. t[L].class = "FUNCTION" /\ t[L].nParams \in Nat
      <4>1. t # <<>> /\ L \in 1..L
        BY <3>4
      <4> QED
        BY <3>4, <4>1 DEF StorageInv, Storage, FunctionAtEnd, Entry
    <3>7. t[1].add = 0
      <4>1. t[1].add =< 0 /\ t[1].add \in Nat
        BY <3>3, <3>4 DEF Ordered, Entry
      <4> QED
        BY <4>1
    <3>8. 1 + t[L].nParams >= L
      BY <3>3, <3>4, <3>7 DEF FunctionLast
    <3>9. ASSUME NEW i \in 1..L, t[i].class = "LOCAL_VARIABLE"
          PROVE  <<"var", t[i].name>> \in defs'
      <4> HIDE DEF n, L
      <4>1. i # L
        BY <3>6, <3>9
      <4>2. i \in 1..n
        BY <3>4, <3>5, <3>6, <3>8, <4>1
      <4> QED
        BY <3>2, <3>9, <4>2
    <3>10. <<"fun", FileName>> \in defs'
      BY <1>7, <2>2, ParamsDeclared
    <3> QED
      BY <3>1, <3>9, <3>10 DEF StorageInv, Storage, Declared
  <2> QED
    BY <2>1, <2>2
<1>8. CASE CloseBlock
  <2> DEFINE m == Cardinality({i \in DOMAIN symbol_table :
                                 symbol_table[i].add = num_scope})
  <2>1. symbol_table' = FreeFirst(m) /\ num_scope' = num_scope - 1 /\ defs' = defs
    BY <1>8 DEF CloseBlock, codeVars
  <2>2. m \in Nat
    <3>1. Ordered(symbol_table, num_scope)
      BY DEF ScopeInv, Scope
    <3> QED
      BY <1>1, <3>1, BlockFirst
  <2> HIDE DEF m
  <2>3. num_scope' > 0 => num_scope > 0
    BY <1>1, <2>1
  <2> QED
    BY <2>1, <2>2, <2>3, StorageFree
<1>9. CASE FreeParameters
  <2> DEFINE n == search_symbol_table(FileName).nParams
  <2>1. symbol_table' = FreeFirst(n) /\ num_scope' = num_scope /\ defs' = defs
        /\ In("body")
    BY <1>9 DEF FreeParameters, codeVars
  <2>2. n \in Nat
    <3>1. ctx # <<>> /\ Len(ctx) = 1 /\ ctx[1].k = "body"
      BY <2>1, ScopeFacts DEF ScopeInv, In, Top, FunctionFrames
    <3>2. FunctionLast(symbol_table) /\ Ordered(symbol_table, num_scope)
      BY <3>1 DEF ScopeInv, Scope, FunctionEntry
    <3> QED
      BY <1>1, <3>2, FunctionPosition DEF Entry
  <2> HIDE DEF n
  <2> QED
    BY <2>1, <2>2, StorageFree
<1>10. CASE EndOfFile
  <2>1. symbol_table' = <<>> /\ Len(<<>>) = 0
    BY <1>10 DEF EndOfFile
  <2>2. num_scope = 0 /\ num_scope' = num_scope
    BY <1>10, ScopeEmpty DEF EndOfFile, ScopeInv
  <2> QED
    BY <1>2, <2>1, <2>2 DEF StorageInv, Storage, FunctionAtEnd, FunctionNamed
<1>11. CASE SyntaxError
  BY <1>11, StorageStop DEF SyntaxError
<1> QED
  BY <1>3, <1>4, <1>5, <1>6, <1>7, <1>8, <1>9, <1>10, <1>11 DEF FunctionRule

LEMMA StorageStatement ==
    ASSUME ScopeInv, StorageInv, Statement
    PROVE  StorageInv'
<1>1. /\ "block" \notin FunctionFrames /\ ExprFrames \cap FunctionFrames = {}
      /\ "thenEnd" \notin FunctionFrames
  BY DEF FunctionFrames, ExprFrames
<1>2. \A k : In(k) => ctx # <<>> /\ Top.k = k
  BY DEF In
<1>3. ASSUME NEW x \in Names, SetStart(x) \/ Step(x) PROVE StorageInv'
  <2>1. ASSUME NEW D, NEW R, Emit(D, R), UNCHANGED <<symbol_table, num_scope>>
        PROVE  StorageInv'
    BY <2>1, EmitMore, StorageSame
  <2> QED
    BY <1>3, <2>1, StorageStop, StorageSame
       DEF SetStart, OpenExpression, Step, tableVars, codeVars
<1>4. ASSUME NEW x \in Names, ForName(x) PROVE StorageInv'
  <2>1. CASE Stop("refused")
    BY <2>1, StorageStop
  <2>2. CASE ~Stop("refused")
    <3>1. /\ In("block") /\ Enter(x) /\ UNCHANGED num_scope
          /\ Emit(VarLabels(x), {<<"jump:var", x>>})
      BY <1>4, <2>2 DEF ForName
    <3> QED
      BY <1>1, <1>2, <3>1, StorageNew
  <2> QED
    BY <2>1, <2>2
<1>5. CASE Set
  <2>1. In("set") /\ UNCHANGED num_scope
    BY <1>5 DEF Set, ExprDone
  <2>2. ctx # <<>> /\ Top.k = "set" /\ Top.name \in Names
    BY <2>1, TopTyped DEF In
  <2>3. CASE Found(Top.name)
    <3>1. UNCHANGED symbol_table /\ Emit({}, {<<"var", Top.name>>})
      BY <1>5, <2>3 DEF Set
    <3> QED
      BY <2>1, <3>1, EmitMore, StorageSame
  <2>4. CASE ~Found(Top.name)
    <3>1. Enter(Top.name) /\ Emit(VarLabels(Top.name), VarLabels(Top.name))
      BY <1>5, <2>4 DEF Set
    <3>2. Top.k \notin FunctionFrames
      BY <2>2 DEF FunctionFrames
    <3> QED
      BY <2>1, <2>2, <3>1, <3>2, StorageNew
  <2> QED
    BY <2>3, <2>4
<1>6. CASE ReturnStart \/ IfStart \/ Return
  BY <1>6, StorageSame DEF ReturnStart, IfStart, OpenExpression, Return,
     tableVars, codeVars
<1>7. CASE Else
  <2>1. In("thenEnd") /\ OpenBlock("else", Top.n) /\ defs' = defs
    BY <1>7 DEF Else, codeVars
  <2> QED
    BY <1>1, <1>2, <2>1, StorageOpen
<1>8. CASE BeginIf \/ WhileCondition
  <2>1. /\ ctx # <<>> /\ Top.k \notin FunctionFrames
        /\ \E k, n : OpenBlock(k, n)
    BY <1>8 DEF BeginIf, WhileCondition, ExprDone, In, FunctionFrames
  <2>2. \E D, R : Emit(D, R)
    BY <1>8 DEF BeginIf, WhileCondition
  <2> QED
    BY <2>1, <2>2, EmitMore, StorageOpen
<1>9. CASE ForBound
  <2>1. CASE Stop("aborted")
    BY <2>1, StorageStop
  <2>2. CASE ~Stop("aborted")
    <3>1. In("forbound") /\ OpenBlock("for", Top.n)
      BY <1>9, <2>2 DEF ForBound, ExprDone
    <3>2. \E D, R : Emit(D, R)
      BY <1>9, <2>2 DEF ForBound
    <3>3. ctx # <<>> /\ Top.k \notin FunctionFrames
      BY <3>1 DEF In, FunctionFrames
    <3> QED
      BY <3>1, <3>2, <3>3, EmitMore, StorageOpen
  <2> QED
    BY <2>1, <2>2
<1>10. CASE EndIf \/ Fi \/ WhileStart \/ EndWhile \/ ForInit
  <2>1. \E D, R : Emit(D, R)
    BY <1>10 DEF EndIf, Fi, WhileStart, EndWhile, ForInit
  <2>2. UNCHANGED <<symbol_table, num_scope>>
    BY <1>10 DEF EndIf, Fi, WhileStart, EndWhile, ForInit, tableVars
  <2> QED
    BY <2>1, <2>2, EmitMore, StorageSame
<1>11. CASE EndFor
  <2>1. symbol_table' = FreeFirst(1) /\ UNCHANGED num_scope /\ \E D, R : Emit(D, R)
    BY <1>11 DEF EndFor
  <2> QED
    BY <2>1, EmitMore, StorageFree
<1> QED
  BY <1>3, <1>4, <1>5, <1>6, <1>7, <1>8, <1>9, <1>10, <1>11 DEF Statement

LEMMA StorageExpression ==
    ASSUME StorageInv, Expression
    PROVE  StorageInv'
<1>1. ASSUME NEW D, NEW R, Emit(D, R), UNCHANGED tableVars
      PROVE  StorageInv'
  BY <1>1, EmitMore, StorageSame DEF tableVars
<1>2. ASSUME NEW x \in Names, Identifier(x) PROVE StorageInv'
  BY <1>1, <1>2, StorageStop DEF Identifier
<1>3. ASSUME NEW op \in Operators, Branching(op) PROVE StorageInv'
  <2>1. \/ Stop("aborted")
        \/ (\E D, R : Emit(D, R)) /\ UNCHANGED tableVars
    BY <1>3 DEF Branching
  <2> QED
    BY <1>1, <2>1, StorageStop
<1>4. CASE Call
  <2>1. \/ Stop("refused")
        \/ Emit({}, {<<"fun", FileName>>}) /\ UNCHANGED tableVars
    BY <1>4 DEF Call
  <2> QED
    BY <1>1, <2>1, StorageStop
<1>5. ASSUME \/ \E x \in Names : CallStart(x)
             \/ Constant \/ Arithmetic \/ Argument
      PROVE  StorageInv'
  BY <1>5, StorageSame DEF CallStart, Constant, Arithmetic, Argument,
     tableVars, codeVars
<1> QED
  BY <1>2, <1>3, <1>4, <1>5 DEF Expression

\* The table and the storage in the code agree at every step.
THEOREM StorageInvariant == Spec => []StorageInv
<1>1. Init => StorageInv
  <2>1. Len(<<>>) = 0
    OBVIOUS
  <2> QED
    BY <2>1 DEF Init, StorageInv, Storage, FunctionAtEnd, FunctionNamed
<1>2. ScopeInv /\ StorageInv /\ [Next]_vars => StorageInv'
  <2> SUFFICES ASSUME ScopeInv, StorageInv, [Next]_vars PROVE StorageInv'
    OBVIOUS
  <2>1. CASE Ended \/ UNCHANGED vars
    BY <2>1, StorageSame DEF Ended, vars, tableVars, codeVars
  <2> QED
    BY <2>1, StorageFunctionRule, StorageStatement, StorageExpression DEF Next
<1> QED
  BY <1>1, <1>2, ScopeInvariant, PTL DEF Spec

\* The address of every identifier the compiler accepts inside a function is
\* the label of a storage cell the code has already laid out: a parameter's in
\* front of the function, a variable's at its \SET or \DOFORI.
THEOREM StorageIsDeclared == Spec => []StorageDeclared
<1>1. ScopeInv /\ StorageInv => StorageDeclared
  <2>1. ScopeInv => DOMAIN symbol_table = 1..Len(symbol_table)
    BY DEF ScopeInv, Scope
  <2> QED
    BY <2>1 DEF StorageInv, Storage, Declared, StorageDeclared
<1> QED
  BY <1>1, ScopeInvariant, StorageInvariant, PTL

-----------------------------------------------------------------------------
(* The lists that are followed.                                            *)

\* A file has one function: a package name may be used once.
OneFunction == \A p, q \in Packages : p = q

-----------------------------------------------------------------------------
(* The parameters.                                                         *)
(*                                                                         *)
(* FunctionLast bounds nParams from below; the loops over the parameters   *)
(* end inside the list because it is bounded from above as well, and no    *)
(* block ever frees one of the entries they follow.                        *)

Parameters(t) ==
    /\ t # <<>>
    /\ t[Len(t)].nParams + 1 =< Len(t)
    /\ \A j \in 1..Len(t) : j + t[Len(t)].nParams >= Len(t) => t[j].add = 0

\* The last entry and its count.
LEMMA LastEntry ==
    ASSUME NEW t \in Seq(Entry), t # <<>>
    PROVE  /\ Len(t) \in Nat /\ Len(t) >= 1 /\ Len(t) \in 1..Len(t)
           /\ t[Len(t)] \in Entry /\ t[Len(t)].nParams \in Nat
<1>1. Len(t) \in Nat /\ Len(t) >= 1 /\ Len(t) \in 1..Len(t)
  OBVIOUS
<1>2. t[Len(t)] \in Entry
  BY <1>1
<1> QED
  BY <1>1, <1>2 DEF Entry

\* A variable entered in front is none of the parameters.
LEMMA ParametersEnter ==
    ASSUME NEW t \in Seq(Entry), Parameters(t), NEW e \in Entry
    PROVE  Parameters(<<e>> \o t)
<1> DEFINE u == <<e>> \o t
<1>1. /\ Len(t) \in Nat /\ Len(u) = Len(t) + 1
      /\ \A i \in 1..Len(t) : u[i + 1] = t[i]
      /\ \A i \in 2..Len(u) : i - 1 \in 1..Len(t) /\ u[i] = t[i - 1]
  BY EnterShape
<1>2. Len(t) >= 1 /\ Len(t) \in 1..Len(t) /\ t[Len(t)].nParams \in Nat
  BY LastEntry DEF Parameters
<1> HIDE DEF u
<1>3. u # <<>> /\ u[Len(u)] = t[Len(t)]
  BY <1>1, <1>2
<1>4. ASSUME NEW j \in 1..Len(u), j + u[Len(u)].nParams >= Len(u)
      PROVE  u[j].add = 0
  <2>1. j # 1
    BY <1>1, <1>2, <1>3, <1>4 DEF Parameters
  <2>2. j \in 2..Len(u) /\ (j - 1) + t[Len(t)].nParams >= Len(t)
    BY <1>1, <1>2, <1>3, <1>4, <2>1
  <2> QED
    BY <1>1, <2>2 DEF Parameters
<1> QED
  BY <1>1, <1>2, <1>3, <1>4 DEF Parameters, u

\* Entries of a block are freed: none of them is a parameter.
LEMMA ParametersDrop ==
    ASSUME NEW t \in Seq(Entry), Parameters(t), NEW m \in Nat,
           \A i \in 1..Len(t) : i =< m => t[i].add > 0
    PROVE  Parameters(SubSeq(t, m + 1, Len(t)))
<1> DEFINE u == SubSeq(t, m + 1, Len(t))
           n == t[Len(t)].nParams
<1>1. /\ Len(t) \in Nat /\ m =< Len(t) => Len(u) = Len(t) - m
      /\ \A i \in 1..Len(u) : i + m \in 1..Len(t) /\ u[i] = t[i + m]
  BY DropShape
<1>2. Len(t) >= 1 /\ Len(t) \in 1..Len(t) /\ n \in Nat
  BY LastEntry DEF Parameters
<1>3. n + 1 =< Len(t) /\ \A j \in 1..Len(t) : j + n >= Len(t) => t[j].add = 0
  BY DEF Parameters
<1> HIDE DEF u, n
<1>4. m < Len(t)
  <2>1. Len(t) + n >= Len(t)
    BY <1>2
  <2>2. t[Len(t)].add = 0
    BY <1>2, <1>3, <2>1
  <2> QED
    BY <1>2, <2>2
<1>5. n + 1 =< Len(t) - m
  <2> SUFFICES ASSUME n + 1 > Len(t) - m PROVE FALSE
    BY <1>1, <1>2
  <2>1. m >= 1 /\ m \in 1..Len(t) /\ m + n >= Len(t)
    BY <1>1, <1>2, <1>3, <1>4
  <2> QED
    BY <1>3, <2>1
<1>6. Len(u) = Len(t) - m /\ Len(u) \in 1..Len(u) /\ Len(u) + m = Len(t) /\ u # <<>>
  BY <1>1, <1>4
<1>7. u[Len(u)] = t[Len(t)]
  BY <1>1, <1>6
<1>8. ASSUME NEW j \in 1..Len(u), j + n >= Len(u)
      PROVE  u[j].add = 0
  <2>1. j + m \in 1..Len(t) /\ (j + m) + n >= Len(t)
    BY <1>1, <1>2, <1>6, <1>8
  <2> QED
    BY <1>1, <1>3, <1>8, <2>1
<1> QED
  BY <1>5, <1>6, <1>7, <1>8 DEF Parameters, u, n

-----------------------------------------------------------------------------
(* Every action keeps the lists long enough.                               *)

CrashInv ==
    /\ status # "crashed"
    \* A file that has a function has no room for another one.
    /\ stack_packages = <<>> => ctx = <<>> /\ stale = 0
    /\ stack_packages # <<>> => \A p \in Packages : stack_strings_search_entry(p)
    \* What the function's frame, or the block inside it, says of the table.
    /\ ctx # <<>> /\ Top.k = "begun" => stale = 0
    /\ ctx # <<>> /\ Top.k \in {"params", "body"} => Parameters(symbol_table)
    /\ num_scope > 0 => Parameters(symbol_table)
    /\ ctx # <<>> /\ Top.k = "end" => symbol_table # <<>>

\* Steps that leave the packages alone and have the parameters in the table.
LEMMA CrashInside ==
    ASSUME CrashInv, ctx # <<>>, ScopeInv', Parameters(symbol_table'),
           status' # "crashed", UNCHANGED stack_packages
    PROVE  CrashInv'
<1>1. symbol_table' # <<>>
  BY DEF Parameters
<1>2. stack_packages' # <<>> /\ \A p \in Packages : stack_strings_search_entry(p)'
  BY DEF CrashInv, stack_strings_search_entry
<1>3. ~(ctx' # <<>> /\ Head(ctx').k = "begun")
  <2> SUFFICES ASSUME ctx' # <<>>, Head(ctx').k = "begun" PROVE FALSE
    OBVIOUS
  <2>1. Scope(ctx', symbol_table', num_scope')
    BY DEF ScopeInv
  <2>2. Len(ctx') = 1 /\ ctx'[1].k = "begun"
    BY <2>1, ScopeFacts DEF FunctionFrames
  <2> QED
    BY <1>1, <2>1, <2>2 DEF Scope, FunctionEntry
<1> QED
  BY <1>1, <1>2, <1>3 DEF CrashInv, Top

\* The process stops, and not by a crash.
LEMMA CrashStop ==
    ASSUME CrashInv, NEW s, s # "crashed", Stop(s)
    PROVE  CrashInv'
BY DEF CrashInv, Stop, tableVars, Top, stack_strings_search_entry

\* Inside the body the parameters are in the table.
LEMMA CrashBody ==
    ASSUME ScopeInv, CrashInv, ctx # <<>>, Top.k \notin FunctionFrames
    PROVE  Parameters(symbol_table) /\ num_scope > 0 /\ num_scope \in Nat
BY InsideBlock DEF CrashInv

\* What the frames of the function say.
LEMMA CrashFrames ==
    ASSUME ScopeInv, NEW k \in FunctionFrames, In(k)
    PROVE  /\ ctx # <<>> /\ Len(ctx) = 1 /\ ctx[1].k = k /\ Top.k = k /\ num_scope = 0
           /\ Tail(ctx) = <<>>
<1>1. ctx # <<>> /\ Top.k = k
  BY DEF In
<1>2. Len(ctx) = 1 /\ ctx[1].k = k /\ num_scope = 0 /\ ctx \in Seq(FrameI)
  BY <1>1, ScopeFacts DEF ScopeInv, Top
<1>3. Tail(ctx) = <<>>
  <2>1. Tail(ctx) \in Seq(FrameI) /\ Len(Tail(ctx)) = 0
    BY <1>2
  <2> QED
    BY <2>1, EmptySeq
<1> QED
  BY <1>1, <1>2, <1>3

\* The steps of the function rule, where the lists are followed.
LEMMA CrashFunctionRule ==
    ASSUME OneFunction, ScopeInv, CrashInv, ScopeInv', FunctionRule
    PROVE  CrashInv'
<1>1. /\ symbol_table \in Seq(Entry) /\ num_scope \in Nat
      /\ Ordered(symbol_table, num_scope)
  BY ScopeEmpty, ScopeFacts DEF ScopeInv, Scope
<1>2. {"begun", "params", "body", "end"} = FunctionFrames /\ "block" \notin FunctionFrames
  BY DEF FunctionFrames
<1>3. ASSUME NEW p \in Packages, BeginPackage(p) PROVE CrashInv'
  <2>1. CASE stack_packages # <<>>
    <3>1. stack_strings_search_entry(p)
      BY <2>1 DEF CrashInv
    <3> QED
      BY <1>3, <3>1, CrashStop DEF BeginPackage
  <2>2. CASE stack_packages = <<>>
    <3>1. ~stack_strings_search_entry(p)
      BY <2>2 DEF stack_strings_search_entry
    <3>2. /\ stack_packages' = <<p>> /\ ctx' = <<NewFrame("begun", NoName, 0)>>
          /\ status' = status /\ stale' = stale /\ num_scope' = num_scope
          /\ ctx = <<>> /\ stale = 0
      BY <1>3, <2>2, <3>1 DEF BeginPackage, stack_strings_push, Push, CrashInv
    <3>3. num_scope = 0
      BY <3>2, ScopeEmpty DEF ScopeInv
    <3>4. \A q \in Packages : stack_strings_search_entry(q)'
      BY <3>2 DEF stack_strings_search_entry, OneFunction
    <3>5. Head(ctx').k = "begun"
      BY <3>2 DEF NewFrame
    <3> QED
      BY <3>2, <3>3, <3>4, <3>5 DEF CrashInv, Top
  <2> QED
    BY <2>1, <2>2
<1>4. ASSUME NEW p \in Packages, EndPackage(p) PROVE CrashInv'
  <2>1. In("end") /\ ctx # <<>> /\ Top.k = "end" /\ num_scope = 0 /\ Tail(ctx) = <<>>
    BY <1>2, <1>4, CrashFrames DEF EndPackage
  <2>2. symbol_table # <<>>
    BY <2>1 DEF CrashInv
  <2>3. CASE Stop("aborted")
    BY <2>3, CrashStop
  <2>4. CASE ~Stop("aborted")
    <3>1. /\ ctx' = <<>>
          /\ UNCHANGED <<status, num_scope, stack_packages>>
      BY <1>4, <2>1, <2>2, <2>4 DEF EndPackage
    <3>2. stack_packages # <<>>
      BY <2>1 DEF CrashInv
    <3> QED
      BY <2>1, <3>1, <3>2 DEF CrashInv, stack_strings_search_entry
  <2> QED
    BY <2>3, <2>4
<1>5. ASSUME NEW x \in Names, FunctionName(x) PROVE CrashInv'
  <2>1. In("begun") /\ ctx # <<>> /\ Top.k = "begun" /\ Len(ctx) = 1 /\ ctx[1].k = "begun"
    BY <1>2, <1>5, CrashFrames DEF FunctionName
  <2>2. stale = 0 /\ symbol_table = <<>>
    BY <2>1 DEF CrashInv, ScopeInv, Scope, FunctionEntry
  <2>3. CASE Stop("aborted")
    BY <2>3, CrashStop
  <2>4. CASE ~Stop("aborted")
    <3> DEFINE e == [name |-> x, class |-> "FUNCTION", add |-> 0, nParams |-> 0]
    <3>1. PICK n \in Uninitialised :
             symbol_table' = <<[name |-> x, class |-> "FUNCTION", add |-> 0,
                                nParams |-> n]>> \o symbol_table
      BY <1>5, <2>4 DEF FunctionName
    <3>2. n = 0
      BY <2>2 DEF Uninitialised
    <3>3. symbol_table' = <<e>>
      <4>1. symbol_table' = <<e>> \o <<>>
        BY <2>2, <3>1, <3>2
      <4> QED
        BY <4>1
    <3>4. status' = status /\ stack_packages' = stack_packages
      BY <1>5, <2>4 DEF FunctionName
    <3>5. e.add = 0 /\ e.nParams = 0
      OBVIOUS
    <3> HIDE DEF e
    <3>6. Parameters(symbol_table')
      BY <3>3, <3>5 DEF Parameters
    <3> QED
      BY <2>1, <3>4, <3>6, CrashInside DEF CrashInv
  <2> QED
    BY <2>3, <2>4
<1>6. ASSUME NEW x \in Names, Parameter(x) PROVE CrashInv'
  <2>1. CASE Stop("aborted")
    BY <2>1, CrashStop
  <2>2. CASE ~Stop("aborted")
    <3> DEFINE t == symbol_table
               L == Len(t)
               g == [t[L] EXCEPT !.nParams = @ + 1]
               u == [t EXCEPT ![L] = g]
               e == Variable(x)
               w == <<e>> \o u
    <3>1. /\ In("params") /\ ctx # <<>> /\ num_scope = 0 /\ num_scope' = 0
          /\ status' = status /\ stack_packages' = stack_packages
          /\ symbol_table' = <<e>> \o [t EXCEPT ![Position(FileName)].nParams = @ + 1]
      BY <1>2, <1>6, <2>2, CrashFrames DEF Parameter
    <3>2. Parameters(t) /\ FunctionLast(t)
      BY <1>2, <3>1, CrashFrames DEF CrashInv, ScopeInv, Scope, FunctionEntry
    <3>3. Position(FileName) = L /\ L \in 1..L /\ t[L] \in Entry
      BY <1>1, <3>2, FunctionPosition
    <3>4. symbol_table' = w
      BY <3>1, <3>3
    <3>5. g \in Entry /\ g.nParams = t[L].nParams + 1 /\ t[L].nParams \in Nat
      BY <3>3 DEF Entry
    <3>6. t \in Seq(Entry) /\ L = Len(t) /\ e \in Entry
      BY <1>1, EntryTyped
    <3>7. t[L].nParams + 1 =< L
      BY <3>2 DEF Parameters
    <3> HIDE DEF t, L, g, e
    <3>8. u \in Seq(Entry) /\ Len(u) = L /\ u[L] = g
      BY <3>3, <3>5, <3>6, ExceptSeq
    <3> HIDE DEF u
    <3>9. /\ w \in Seq(Entry) /\ Len(w) = L + 1 /\ w[L + 1] = g
      BY <3>3, <3>6, <3>8, EnterShape
    <3> HIDE DEF w
    <3>10. \A j \in 1..Len(w) : w[j].add = 0
      <4>1. Ordered(w, 0)
        BY <3>1, <3>4 DEF ScopeInv, Scope
      <4>2. ASSUME NEW j \in 1..Len(w) PROVE w[j].add \in Nat /\ w[j].add =< 0
        <5>1. w[j] \in Entry /\ w[j].add =< 0
          BY <3>9, <4>1 DEF Ordered
        <5> QED
          BY <5>1 DEF Entry
      <4> QED
        BY <4>2
    <3>11. Parameters(w)
      BY <3>3, <3>5, <3>7, <3>9, <3>10 DEF Parameters
    <3> QED
      BY <3>1, <3>4, <3>11, CrashInside DEF CrashInv
  <2> QED
    BY <2>1, <2>2
<1>7. CASE ParamsEnd
  <2>1. In("params") /\ ctx # <<>> /\ Parameters(symbol_table) /\ FunctionLast(symbol_table)
    BY <1>2, <1>7, CrashFrames DEF ParamsEnd, CrashInv, ScopeInv, Scope, FunctionEntry
  <2>2. ~(search_symbol_table(FileName).nParams > Len(symbol_table))
    <3>1. search_symbol_table(FileName) = symbol_table[Len(symbol_table)]
      BY <1>1, <2>1, FunctionPosition
    <3>2. Len(symbol_table) \in Nat /\ symbol_table[Len(symbol_table)].nParams \in Nat
      BY <1>1, <2>1, LastEntry DEF Parameters
    <3> QED
      BY <2>1, <3>1, <3>2 DEF Parameters
  <2>3. UNCHANGED <<status, symbol_table, stack_packages>>
    BY <1>7, <2>2 DEF ParamsEnd
  <2> QED
    BY <2>1, <2>3, CrashInside DEF CrashInv
<1>8. CASE CloseBlock
  <2> DEFINE m == Cardinality({i \in DOMAIN symbol_table :
                                 symbol_table[i].add = num_scope})
  <2>1. /\ symbol_table' = FreeFirst(m) /\ UNCHANGED <<status, stack_packages>>
        /\ ctx # <<>> /\ Top.k = "block"
    BY <1>8 DEF CloseBlock, In
  <2>2. Parameters(symbol_table) /\ num_scope > 0
    BY <1>2, <2>1, CrashBody
  <2>3. m \in Nat /\ \A i \in 1..Len(symbol_table) : i =< m => symbol_table[i].add > 0
    BY <1>1, <2>2, BlockFirst
  <2> HIDE DEF m
  <2>4. Parameters(symbol_table')
    BY <1>1, <2>1, <2>2, <2>3, ParametersDrop DEF FreeFirst
  <2> QED
    BY <2>1, <2>4, CrashInside DEF CrashInv
<1>9. CASE FreeParameters
  <2> DEFINE t == symbol_table
             n == search_symbol_table(FileName).nParams
  <2>1. In("body") /\ ctx # <<>> /\ num_scope = 0 /\ Parameters(t) /\ FunctionLast(t)
    BY <1>2, <1>9, CrashFrames
       DEF FreeParameters, CrashInv, ScopeInv, Scope, FunctionEntry
  <2>2. n = t[Len(t)].nParams
    BY <1>1, <2>1, FunctionPosition
  <2>3. n \in Nat /\ Len(t) \in Nat /\ n + 1 =< Len(t)
    BY <1>1, <2>1, <2>2, LastEntry DEF Parameters
  <2>4. /\ symbol_table' = FreeFirst(n) /\ UNCHANGED <<status, num_scope, stack_packages>>
        /\ ctx' = Push([Top EXCEPT !.k = "end"], Tail(ctx))
    BY <1>9 DEF FreeParameters
  <2>5. symbol_table' # <<>>
    <3> HIDE DEF n
    <3>1. symbol_table' = SubSeq(t, n + 1, Len(t))
      BY <2>4 DEF FreeFirst
    <3>2. Len(symbol_table') = Len(t) - n
      BY <1>1, <2>3, <3>1, DropShape
    <3> QED
      BY <2>3, <3>2
  <2>6. ctx' # <<>> /\ Head(ctx').k = "end"
    <3>1. Top \in FrameI /\ Tail(ctx) = <<>>
      BY <1>2, <2>1, TopTyped, CrashFrames
    <3>2. ctx' = <<[Top EXCEPT !.k = "end"]>>
      <4>1. ctx' = <<[Top EXCEPT !.k = "end"]>> \o <<>>
        BY <2>4, <3>1 DEF Push
      <4> QED
        BY <4>1
    <3> QED
      BY <3>1, <3>2 DEF FrameI
  <2> QED
    BY <2>1, <2>4, <2>5, <2>6 DEF CrashInv, Top, stack_strings_search_entry
<1>10. CASE EndOfFile
  <2>1. /\ status' = "accepted" /\ ctx = <<>> /\ stack_packages # <<>>
        /\ UNCHANGED <<num_scope, stack_packages, ctx>>
    BY <1>10 DEF EndOfFile
  <2>2. num_scope = 0
    BY <2>1, ScopeEmpty DEF ScopeInv
  <2> QED
    BY <2>1, <2>2 DEF CrashInv, stack_strings_search_entry
<1>11. CASE SyntaxError
  BY <1>11, CrashStop DEF SyntaxError
<1> QED
  BY <1>3, <1>4, <1>5, <1>6, <1>7, <1>8, <1>9, <1>10, <1>11 DEF FunctionRule

\* The steps of statements, which enter and free variables inside blocks.
LEMMA CrashStatement ==
    ASSUME ScopeInv, CrashInv, ScopeInv', Statement
    PROVE  CrashInv'
<1>1. symbol_table \in Seq(Entry)
  BY DEF ScopeInv, Scope
<1>2. /\ "block" \notin FunctionFrames /\ "for" \notin FunctionFrames
      /\ "then" \notin FunctionFrames /\ "do" \notin FunctionFrames
      /\ "thenEnd" \notin FunctionFrames /\ "else" \notin FunctionFrames
      /\ ExprFrames \cap FunctionFrames = {}
  BY DEF FunctionFrames, ExprFrames
<1>3. \A k : In(k) => ctx # <<>> /\ Top.k = k
  BY DEF In
<1>4. ctx # <<>> /\ Top.k \notin FunctionFrames
  <2>1. \E k \in {"block", "for", "then", "do", "thenEnd", "else"} \cup ExprFrames : In(k)
    BY DEF Statement, SetStart, Step, ForName, ReturnStart, IfStart, OpenExpression,
       Set, Return, BeginIf, EndIf, Else, Fi, WhileStart, WhileCondition, EndWhile,
       ForInit, ForBound, EndFor, ExprDone, ExprFrames
  <2> QED
    BY <1>2, <1>3, <2>1
<1>5. Parameters(symbol_table) /\ num_scope > 0
  BY <1>4, CrashBody
<1>6. status # "crashed"
  BY DEF CrashInv
<1>7. ASSUME UNCHANGED <<status, stack_packages, symbol_table>> PROVE CrashInv'
  BY <1>4, <1>5, <1>6, <1>7, CrashInside
<1>8. ASSUME NEW x \in Names, Enter(x), UNCHANGED <<status, stack_packages>>
      PROVE  CrashInv'
  <2>1. Parameters(symbol_table')
    BY <1>1, <1>5, <1>8, EntryTyped, ParametersEnter DEF Enter
  <2> QED
    BY <1>4, <1>6, <1>8, <2>1, CrashInside
<1>9. ASSUME NEW x \in Names, SetStart(x) \/ Step(x) \/ ForName(x) PROVE CrashInv'
  <2>1. SetStart(x) \/ Step(x) =>
          Stop("aborted") \/ UNCHANGED <<status, stack_packages, symbol_table>>
    BY DEF SetStart, OpenExpression, Step, tableVars
  <2>2. ForName(x) =>
          Stop("refused") \/ (Enter(x) /\ UNCHANGED <<status, stack_packages>>)
    BY DEF ForName
  <2> QED
    BY <1>7, <1>8, <1>9, <2>1, <2>2, CrashStop
<1>10. CASE Set
  <2>1. Top.name \in Names
    BY <1>4, <1>10, TopTyped DEF Set, ExprDone, In
  <2>2. UNCHANGED symbol_table \/ Enter(Top.name)
    BY <1>10 DEF Set
  <2>3. UNCHANGED <<status, stack_packages>>
    BY <1>10 DEF Set
  <2> QED
    BY <1>7, <1>8, <2>1, <2>2, <2>3
<1>11. CASE ReturnStart \/ IfStart \/ Return \/ EndIf \/ Fi \/ WhileStart \/ EndWhile \/ ForInit
  BY <1>7, <1>11 DEF ReturnStart, IfStart, OpenExpression, Return, EndIf, Fi,
     WhileStart, EndWhile, ForInit, tableVars
<1>12. CASE BeginIf \/ Else \/ WhileCondition
  BY <1>7, <1>12 DEF BeginIf, Else, WhileCondition, OpenBlock
<1>13. CASE ForBound
  <2>1. Stop("aborted") \/ UNCHANGED <<status, stack_packages, symbol_table>>
    BY <1>13 DEF ForBound, OpenBlock
  <2> QED
    BY <1>7, <2>1, CrashStop
<1>14. CASE EndFor
  <2>1. /\ In("for") /\ symbol_table' = FreeFirst(1) /\ UNCHANGED <<status, stack_packages>>
    BY <1>14 DEF EndFor
  <2>2. Len(symbol_table) \in Nat /\ symbol_table[1].add > 0
    <3>1. Head(ctx).k = "for" /\ Scope(ctx, symbol_table, num_scope)
      BY <2>1 DEF In, Top, ScopeInv
    <3>2. symbol_table[1].add = num_scope
      BY <1>4, <3>1, ScopeLoop
    <3> QED
      BY <1>1, <1>5, <3>2
  <2>3. \A i \in 1..Len(symbol_table) : i =< 1 => symbol_table[i].add > 0
    BY <2>2
  <2>4. Parameters(symbol_table')
    BY <1>1, <1>5, <2>1, <2>3, ParametersDrop DEF FreeFirst
  <2> QED
    BY <1>4, <1>6, <2>1, <2>4, CrashInside
<1> QED
  BY <1>9, <1>10, <1>11, <1>12, <1>13, <1>14 DEF Statement

\* Expressions only read the table.
LEMMA CrashExpression ==
    ASSUME ScopeInv, CrashInv, ScopeInv', Expression
    PROVE  CrashInv'
<1>1. InExpr
  BY DEF Expression, Identifier, CallStart, Branching, Constant, Arithmetic, Argument,
     Call, ExprDone, In, InExpr, ExprFrames
<1>2. ctx # <<>> /\ Top.k \notin FunctionFrames
  BY <1>1 DEF InExpr, ExprFrames, FunctionFrames
<1>3. Parameters(symbol_table)
  BY <1>2, CrashBody
<1>4. \/ Stop("refused") \/ Stop("aborted")
      \/ UNCHANGED <<status, stack_packages, symbol_table>>
  BY DEF Expression, Identifier, CallStart, Branching, Constant, Arithmetic, Argument,
     Call, tableVars
<1> QED
  BY <1>2, <1>3, <1>4, CrashInside, CrashStop DEF CrashInv

\* The function's entry counts what stands in front of it, at every step.
THEOREM CrashInvariant == ASSUME OneFunction PROVE Spec => []CrashInv
<1>1. Init => CrashInv
  BY DEF Init, CrashInv, new_stack_strings
<1>2. ScopeInv /\ CrashInv /\ ScopeInv' /\ [Next]_vars => CrashInv'
  <2> SUFFICES ASSUME ScopeInv, CrashInv, ScopeInv', [Next]_vars
               PROVE  CrashInv'
    OBVIOUS
  <2>1. CASE Ended \/ UNCHANGED vars
    BY <2>1 DEF Ended, vars, tableVars, CrashInv, Top, stack_strings_search_entry
  <2> QED
    BY <2>1, CrashFunctionRule, CrashStatement, CrashExpression DEF Next
<1> QED
  BY <1>1, <1>2, ScopeInvariant, PTL DEF Spec

\* A file with one function never makes the compiler follow the list of the
\* symbol table past its end, whatever its parameters, blocks and statements.
THEOREM OneFunctionDoesNotCrash == ASSUME OneFunction PROVE Spec => []NoCrash
<1>1. CrashInv => NoCrash
  BY DEF CrashInv, NoCrash
<1> QED
  BY <1>1, CrashInvariant, PTL
=============================================================================
