--------------------- MODULE Algo2asm_refinement_proofs ---------------------
(***************************************************************************)
(* The symbol table implements the scopes of NameScopes, for every value   *)
(* of the constants: the initial state is an initial state there, and      *)
(* every step of the compiler is a step there or leaves the scopes alone.  *)
(***************************************************************************)
EXTENDS Algo2asm_statement_proofs

-----------------------------------------------------------------------------
(* A table t, s blocks being open, as a sequence of scopes.                *)

Within(t, l) == {t[i].name : i \in {j \in DOMAIN t : t[j].add = l}}
ScopesOf(t, s) == [k \in 1..(s + 1) |-> Within(t, k - 1)]

\* The names of one scope.
LEMMA WithinIs ==
    ASSUME NEW t \in Seq(Entry), NEW l, NEW x
    PROVE  x \in Within(t, l) <=> \E i \in 1..Len(t) : t[i].add = l /\ t[i].name = x
<1>1. DOMAIN t = 1..Len(t)
  OBVIOUS
<1> QED
  BY <1>1 DEF Within

\* They are names.
LEMMA WithinNames ==
    ASSUME NEW t \in Seq(Entry), NEW l
    PROVE  Within(t, l) \in SUBSET Names
<1>1. \A i \in 1..Len(t) : t[i].name \in Names
  <2>1. \A i \in 1..Len(t) : t[i] \in Entry
    OBVIOUS
  <2> QED
    BY <2>1 DEF Entry
<1> QED
  BY <1>1, WithinIs

\* An empty table has none.
LEMMA WithinEmpty ==
    ASSUME NEW t \in Seq(Entry), t = <<>>, NEW l
    PROVE  Within(t, l) = {}
<1>1. \A i \in 1..Len(t) : FALSE
  OBVIOUS
<1>2. ASSUME NEW x, x \in Within(t, l) PROVE FALSE
  BY <1>1, <1>2, WithinIs
<1> QED
  BY <1>2

\* There is one scope more than there are blocks.
LEMMA ScopesShape ==
    ASSUME NEW t \in Seq(Entry), NEW s \in Nat
    PROVE  /\ ScopesOf(t, s) \in Seq(SUBSET Names)
           /\ Len(ScopesOf(t, s)) = s + 1 /\ DOMAIN ScopesOf(t, s) = 1..(s + 1)
           /\ \A k \in 1..(s + 1) : ScopesOf(t, s)[k] = Within(t, k - 1)
           /\ s + 1 \in 1..(s + 1) /\ ScopesOf(t, s)[s + 1] = Within(t, s)
<1>2. \A l : Within(t, l) \in SUBSET Names
  BY WithinNames
<1>3. s + 1 \in Nat /\ s + 1 \in 1..(s + 1) /\ (s + 1) - 1 = s
  OBVIOUS
<1> DEFINE n == s + 1
           f == [k \in 1..n |-> Within(t, k - 1)]
<1> HIDE DEF n
<1>4. /\ f \in [1..n -> SUBSET Names] /\ DOMAIN f = 1..n
      /\ \A k \in 1..n : f[k] = Within(t, k - 1)
  BY <1>2
<1> HIDE DEF f
<1>5. f \in Seq(SUBSET Names) /\ Len(f) = n
  BY <1>3, <1>4 DEF n
<1> QED
  BY <1>3, <1>4, <1>5 DEF ScopesOf, f, n

\* The innermost scope changes and no other.
LEMMA InnermostChanged ==
    ASSUME NEW t \in Seq(Entry), NEW u \in Seq(Entry), NEW s \in Nat,
           Within(u, s) \in SUBSET Names,
           \A l : l # s => Within(u, l) = Within(t, l)
    PROVE  ScopesOf(u, s) =
             [ScopesOf(t, s) EXCEPT ![Len(ScopesOf(t, s))] = Within(u, s)]
<1> DEFINE F == ScopesOf(t, s)
           G == ScopesOf(u, s)
           S == Within(u, s)
           H == [F EXCEPT ![s + 1] = S]
<1>1. /\ F \in Seq(SUBSET Names) /\ Len(F) = s + 1 /\ s + 1 \in 1..Len(F)
      /\ \A k \in 1..(s + 1) : F[k] = Within(t, k - 1)
  BY ScopesShape
<1>2. /\ G \in Seq(SUBSET Names) /\ Len(G) = s + 1
      /\ \A k \in 1..(s + 1) : G[k] = Within(u, k - 1)
  BY ScopesShape
<1> HIDE DEF F, G
<1>3. /\ H \in Seq(SUBSET Names) /\ Len(H) = s + 1
      /\ \A k \in 1..(s + 1) : H[k] = IF k = s + 1 THEN S ELSE F[k]
  BY <1>1, ExceptSeq
<1> HIDE DEF H
<1>4. ASSUME NEW k \in 1..(s + 1) PROVE G[k] = H[k]
  <2>1. CASE k = s + 1
    BY <1>2, <1>3, <2>1
  <2>2. CASE k # s + 1
    BY <1>1, <1>2, <1>3, <2>2
  <2> QED
    BY <2>1, <2>2
<1>5. G = H
  BY <1>2, <1>3, <1>4, SeqEqual
<1> QED
  BY <1>1, <1>5 DEF F, G, H

\* A name entered with the number of the innermost block joins its scope.
LEMMA ScopesEnter ==
    ASSUME NEW t \in Seq(Entry), NEW s \in Nat, NEW e \in Entry, e.add = s
    PROVE  ScopesOf(<<e>> \o t, s) =
             [ScopesOf(t, s) EXCEPT ![Len(ScopesOf(t, s))] = Within(t, s) \cup {e.name}]
<1> DEFINE u == <<e>> \o t
<1>1. /\ u \in Seq(Entry) /\ Len(t) \in Nat /\ Len(u) = Len(t) + 1 /\ u[1] = e
      /\ \A i \in 1..Len(t) : u[i + 1] = t[i]
      /\ \A i \in 2..Len(u) : i - 1 \in 1..Len(t) /\ u[i] = t[i - 1]
  BY EnterShape
<1> HIDE DEF u
<1>2. ASSUME NEW l, NEW x, x \in Within(u, l)
      PROVE  x \in Within(t, l) \/ (l = s /\ x = e.name)
  <2>1. PICK i \in 1..Len(u) : u[i].add = l /\ u[i].name = x
    BY <1>1, <1>2, WithinIs
  <2>2. CASE i = 1
    BY <1>1, <2>1, <2>2
  <2>3. CASE i # 1
    <3>1. i \in 2..Len(u)
      BY <1>1, <2>1, <2>3
    <3> QED
      BY <1>1, <2>1, <3>1, WithinIs
  <2> QED
    BY <2>2, <2>3
<1>3. ASSUME NEW l, NEW x, x \in Within(t, l) PROVE x \in Within(u, l)
  <2>1. PICK i \in 1..Len(t) : t[i].add = l /\ t[i].name = x
    BY <1>3, WithinIs
  <2>2. i + 1 \in 1..Len(u) /\ u[i + 1] = t[i]
    BY <1>1
  <2> QED
    BY <1>1, <2>1, <2>2, WithinIs
<1>4. e.name \in Within(u, s)
  <2>1. 1 \in 1..Len(u)
    BY <1>1
  <2> QED
    BY <1>1, <2>1, WithinIs
<1>5. Within(u, s) = Within(t, s) \cup {e.name}
  BY <1>2, <1>3, <1>4
<1>6. ASSUME NEW l, l # s PROVE Within(u, l) = Within(t, l)
  <2>1. Within(u, l) \subseteq Within(t, l)
    BY <1>2, <1>6
  <2>2. Within(t, l) \subseteq Within(u, l)
    BY <1>3
  <2> QED
    BY <2>1, <2>2
<1>7. Within(u, s) \in SUBSET Names
  BY <1>1, WithinNames
<1>8. ScopesOf(u, s) =
        [ScopesOf(t, s) EXCEPT ![Len(ScopesOf(t, s))] = Within(u, s)]
  BY <1>1, <1>6, <1>7, InnermostChanged
<1> QED
  BY <1>5, <1>8 DEF u

\* A block opens: no entry has its number yet.
LEMMA ScopesOpen ==
    ASSUME NEW t \in Seq(Entry), NEW s \in Nat, Ordered(t, s)
    PROVE  ScopesOf(t, s + 1) = Append(ScopesOf(t, s), {})
<1> DEFINE F == ScopesOf(t, s)
           G == ScopesOf(t, s + 1)
           H == Append(F, {})
<1>1. /\ F \in Seq(SUBSET Names) /\ Len(F) = s + 1
      /\ \A k \in 1..(s + 1) : F[k] = Within(t, k - 1)
  BY ScopesShape
<1>2. /\ G \in Seq(SUBSET Names) /\ Len(G) = (s + 1) + 1
      /\ \A k \in 1..((s + 1) + 1) : G[k] = Within(t, k - 1)
  <2>1. s + 1 \in Nat
    OBVIOUS
  <2> QED
    BY <2>1, ScopesShape
<1> HIDE DEF F, G
<1>3. /\ H \in Seq(SUBSET Names) /\ Len(H) = (s + 1) + 1 /\ H[(s + 1) + 1] = {}
      /\ \A k \in 1..(s + 1) : H[k] = F[k]
  BY <1>1, AppendProperties
<1> HIDE DEF H
<1>4. Within(t, s + 1) = {}
  <2>1. \A i \in 1..Len(t) : t[i].add # s + 1
    <3>1. \A i \in 1..Len(t) : t[i] \in Entry /\ t[i].add =< s
      BY DEF Ordered
    <3> QED
      BY <3>1 DEF Entry
  <2>2. \A x : x \notin Within(t, s + 1)
    BY <2>1, WithinIs
  <2> QED
    BY <2>2
<1>5. ASSUME NEW k \in 1..((s + 1) + 1) PROVE G[k] = H[k]
  <2>1. CASE k = (s + 1) + 1
    <3>1. k - 1 = s + 1
      BY <2>1
    <3> QED
      BY <1>2, <1>3, <1>4, <2>1, <3>1
  <2>2. CASE k # (s + 1) + 1
    <3>1. k \in 1..(s + 1)
      BY <2>2
    <3> QED
      BY <1>1, <1>2, <1>3, <3>1
  <2> QED
    BY <2>1, <2>2
<1>6. G = H
  BY <1>2, <1>3, <1>5, SeqEqual
<1> QED
  BY <1>6 DEF F, G, H

\* The first entries are freed: the scopes they are not of stay.
LEMMA WithinDrop ==
    ASSUME NEW t \in Seq(Entry), NEW m \in Nat, m =< Len(t), NEW l,
           \A i \in 1..Len(t) : i =< m => t[i].add # l
    PROVE  Within(SubSeq(t, m + 1, Len(t)), l) = Within(t, l)
<1> DEFINE u == SubSeq(t, m + 1, Len(t))
<1>1. /\ u \in Seq(Entry) /\ Len(t) \in Nat /\ Len(u) = Len(t) - m
      /\ \A i \in 1..Len(u) : i + m \in 1..Len(t) /\ u[i] = t[i + m]
  BY DropShape
<1> HIDE DEF u
<1>2. ASSUME NEW x, x \in Within(u, l) PROVE x \in Within(t, l)
  BY <1>1, <1>2, WithinIs
<1>3. ASSUME NEW x, x \in Within(t, l) PROVE x \in Within(u, l)
  <2>1. PICK i \in 1..Len(t) : t[i].add = l /\ t[i].name = x
    BY <1>3, WithinIs
  <2>2. i > m /\ i - m \in 1..Len(u) /\ (i - m) + m = i
    BY <1>1, <2>1
  <2>3. u[i - m] = t[i]
    BY <1>1, <2>2
  <2> QED
    BY <1>1, <2>1, <2>2, <2>3, WithinIs
<1>4. Within(u, l) \subseteq Within(t, l)
  BY <1>2
<1>5. Within(t, l) \subseteq Within(u, l)
  BY <1>3
<1>6. Within(u, l) = Within(t, l)
  BY <1>4, <1>5
<1> QED
  BY <1>6 DEF u

\* A block closes: its entries are the first.
LEMMA ScopesClose ==
    ASSUME NEW t \in Seq(Entry), NEW s \in Nat, s >= 1, Ordered(t, s)
    PROVE  LET m == Cardinality({i \in DOMAIN t : t[i].add = s})
               F == ScopesOf(t, s)
           IN  ScopesOf(SubSeq(t, m + 1, Len(t)), s - 1) = SubSeq(F, 1, Len(F) - 1)
<1> DEFINE m == Cardinality({i \in DOMAIN t : t[i].add = s})
           u == SubSeq(t, m + 1, Len(t))
           F == ScopesOf(t, s)
           G == ScopesOf(u, s - 1)
           H == SubSeq(F, 1, s)
<1>1. m \in Nat /\ m =< Len(t) /\ \A i \in 1..Len(t) : i =< m => t[i].add = s
  BY BlockFirst
<1> HIDE DEF m
<1>2. u \in Seq(Entry)
  BY <1>1, DropShape
<1>3. ASSUME NEW l, l # s PROVE Within(u, l) = Within(t, l)
  BY <1>1, <1>3, WithinDrop
<1> HIDE DEF u
<1>4. /\ F \in Seq(SUBSET Names) /\ Len(F) = s + 1
      /\ \A k \in 1..(s + 1) : F[k] = Within(t, k - 1)
  BY ScopesShape
<1>5. /\ G \in Seq(SUBSET Names) /\ Len(G) = s
      /\ \A k \in 1..s : G[k] = Within(u, k - 1)
  <2>1. s - 1 \in Nat /\ (s - 1) + 1 = s
    OBVIOUS
  <2> QED
    BY <1>2, <2>1, ScopesShape
<1> HIDE DEF F, G
<1>6. H \in Seq(SUBSET Names) /\ Len(H) = s /\ \A k \in 1..s : H[k] = F[k]
  <2>1. 1 \in Int /\ s \in Int /\ (\A k \in 1..s : F[k] \in SUBSET Names) /\ s - 1 + 1 = s
        /\ \A k \in 1..s : 1 + k - 1 = k
    BY <1>4
  <2> QED
    BY <2>1, SubSeqProperties
<1> HIDE DEF H
<1>7. ASSUME NEW k \in 1..s PROVE G[k] = H[k]
  <2>1. k - 1 # s /\ k \in 1..(s + 1)
    OBVIOUS
  <2> QED
    BY <1>3, <1>4, <1>5, <1>6, <2>1
<1>8. G = H
  BY <1>5, <1>6, <1>7, SeqEqual
<1>9. Len(F) - 1 = s
  BY <1>4
<1> QED
  BY <1>8, <1>9 DEF F, G, H, u, m

\* The variable of a loop is forgotten.
LEMMA ScopesForget ==
    ASSUME NEW t \in Seq(Entry), t # <<>>, NEW s \in Nat, Ordered(t, s), t[1].add = s
    PROVE  /\ t[1].name \in Within(t, s)
           /\ ScopesOf(SubSeq(t, 2, Len(t)), s) =
                [ScopesOf(t, s) EXCEPT ![Len(ScopesOf(t, s))] =
                    Within(t, s) \ {t[1].name}]
<1> DEFINE u == SubSeq(t, 2, Len(t))
<1>1. Len(t) \in Nat /\ Len(t) >= 1 /\ 1 \in 1..Len(t) /\ 1 \in Nat /\ 1 + 1 = 2
  OBVIOUS
<1>2. /\ u \in Seq(Entry) /\ Len(u) = Len(t) - 1
      /\ \A i \in 1..Len(u) : i + 1 \in 1..Len(t) /\ u[i] = t[i + 1]
  <2> DEFINE v == SubSeq(t, 1 + 1, Len(t))
  <2>1. /\ v \in Seq(Entry) /\ Len(v) = Len(t) - 1
        /\ \A i \in 1..Len(v) : i + 1 \in 1..Len(t) /\ v[i] = t[i + 1]
    <3>1. /\ v \in Seq(Entry) /\ (1 =< Len(t) => Len(v) = Len(t) - 1)
          /\ \A i \in 1..Len(v) : i + 1 \in 1..Len(t) /\ v[i] = t[i + 1]
      BY <1>1, DropShape
    <3> HIDE DEF v
    <3> QED
      BY <1>1, <3>1
  <2>2. v = u
    BY <1>1
  <2> HIDE DEF u, v
  <2> QED
    BY <2>1, <2>2
<1>3. t[1].name \in Within(t, s)
  BY <1>1, WithinIs
<1>4. ASSUME NEW l, l # s PROVE Within(u, l) = Within(t, l)
  <2>1. \A i \in 1..Len(t) : i =< 1 => t[i].add # l
    BY <1>1, <1>4
  <2>2. Within(SubSeq(t, 1 + 1, Len(t)), l) = Within(t, l)
    BY <1>1, <2>1, WithinDrop
  <2> QED
    BY <1>1, <2>2
<1> HIDE DEF u
<1>5. ASSUME NEW x, x \in Within(u, s) PROVE x \in Within(t, s) \ {t[1].name}
  <2>1. PICK i \in 1..Len(u) : u[i].add = s /\ u[i].name = x
    BY <1>2, <1>5, WithinIs
  <2>2. i + 1 \in 1..Len(t) /\ t[i + 1].add = s /\ t[i + 1].name = x /\ 1 < i + 1
    BY <1>2, <2>1
  <2>3. x # t[1].name
    BY <1>1, <2>2 DEF Ordered
  <2> QED
    BY <2>2, <2>3, WithinIs
<1>6. ASSUME NEW x, x \in Within(t, s) \ {t[1].name} PROVE x \in Within(u, s)
  <2>1. PICK i \in 1..Len(t) : t[i].add = s /\ t[i].name = x
    BY <1>6, WithinIs
  <2>2. i # 1
    BY <1>6, <2>1
  <2>3. i - 1 \in 1..Len(u) /\ (i - 1) + 1 = i
    BY <1>1, <1>2, <2>1, <2>2
  <2>4. u[i - 1] = t[i]
    BY <1>2, <2>3
  <2> QED
    BY <1>2, <2>1, <2>3, <2>4, WithinIs
<1>7. Within(u, s) = Within(t, s) \ {t[1].name}
  BY <1>5, <1>6
<1>8. ScopesOf(u, s) = [ScopesOf(t, s) EXCEPT ![Len(ScopesOf(t, s))] = Within(u, s)]
  BY <1>2, <1>4, InnermostChanged, WithinNames
<1> QED
  BY <1>3, <1>7, <1>8 DEF u

\* Outside every block there is one scope.
LEMMA ScopesOuter ==
    ASSUME NEW t \in Seq(Entry), NEW u \in Seq(Entry), Ordered(t, 0), Ordered(u, 0)
    PROVE  ScopesOf(u, 0) = [ScopesOf(t, 0) EXCEPT ![Len(ScopesOf(t, 0))] = Within(u, 0)]
<1>1. ASSUME NEW v \in Seq(Entry), Ordered(v, 0), NEW l, l # 0
      PROVE  Within(v, l) = {}
  <2>1. ASSUME NEW i \in 1..Len(v) PROVE v[i].add = 0
    <3>1. v[i] \in Entry /\ v[i].add =< 0
      BY <1>1 DEF Ordered
    <3> QED
      BY <3>1 DEF Entry
  <2>2. \A x : x \notin Within(v, l)
    BY <1>1, <2>1, WithinIs
  <2> QED
    BY <2>2
<1>2. ASSUME NEW l, l # 0 PROVE Within(u, l) = Within(t, l)
  <2>1. Within(u, l) = {}
    BY <1>1, <1>2
  <2>2. Within(t, l) = {}
    BY <1>1, <1>2
  <2> QED
    BY <2>1, <2>2
<1>3. 0 \in Nat
  OBVIOUS
<1> QED
  BY <1>2, <1>3, InnermostChanged, WithinNames

\* A table with the same names and numbers has the same scopes.
LEMMA ScopesSame ==
    ASSUME NEW t \in Seq(Entry), NEW u \in Seq(Entry), Len(u) = Len(t), NEW s,
           \A i \in 1..Len(t) : u[i].name = t[i].name /\ u[i].add = t[i].add
    PROVE  ScopesOf(u, s) = ScopesOf(t, s) /\ \A l : Within(u, l) = Within(t, l)
<1>1. ASSUME NEW l PROVE Within(u, l) = Within(t, l)
  <2>1. Within(u, l) \subseteq Within(t, l)
    BY WithinIs
  <2>2. Within(t, l) \subseteq Within(u, l)
    BY WithinIs
  <2> QED
    BY <2>1, <2>2
<1> QED
  BY <1>1 DEF ScopesOf

-----------------------------------------------------------------------------
(* The state of the compiler as a state of NameScopes.                     *)

\* The scopes are those of the table, in every state and in the next one.
LEMMA ScopesAre ==
    /\ scopes = ScopesOf(symbol_table, num_scope)
    /\ scopes' = ScopesOf(symbol_table', num_scope')
<1>1. scopes = ScopesOf(symbol_table, num_scope)
  BY DEF scopes, NamesOf, ScopesOf, Within
<1>2. scopes' = ScopesOf(symbol_table', num_scope')
  BY DEF scopes, NamesOf, ScopesOf, Within
<1> QED
  BY <1>1, <1>2

\* The construct is the top of the parser's stack.
LEMMA KindIs ==
    ASSUME ctx # <<>>
    PROVE  Scopes!Kind = Top.k /\ construct[2] = Top.name
BY DEF Scopes!Kind, construct

\* The innermost scope holds the names with the number of the block.
LEMMA InnermostIs ==
    ASSUME symbol_table \in Seq(Entry), num_scope \in Nat
    PROVE  /\ Scopes!Innermost = Within(symbol_table, num_scope)
           /\ Len(scopes) = num_scope + 1
<1>1. /\ Len(scopes) = num_scope + 1
      /\ scopes[num_scope + 1] = Within(symbol_table, num_scope)
  BY ScopesAre, ScopesShape
<1> QED
  BY <1>1 DEF Scopes!Innermost

\* A name the table does not hold is in no scope.
LEMMA UnknownIs ==
    ASSUME symbol_table \in Seq(Entry), num_scope \in Nat, NEW x, ~Found(x)
    PROVE  ~Scopes!Known(x)
<1>1. \A l : x \notin Within(symbol_table, l)
  <2>1. DOMAIN symbol_table = 1..Len(symbol_table)
    OBVIOUS
  <2> QED
    BY <2>1, WithinIs DEF Found
<1>2. /\ DOMAIN scopes = 1..(num_scope + 1)
      /\ \A k \in 1..(num_scope + 1) : scopes[k] = Within(symbol_table, k - 1)
  BY ScopesAre, ScopesShape
<1> QED
  BY <1>1, <1>2 DEF Scopes!Known

\* The types of the table and of the block, which the invariant gives.
LEMMA TableShape ==
    ASSUME ScopeInv
    PROVE  symbol_table \in Seq(Entry) /\ num_scope \in Nat
           /\ Ordered(symbol_table, num_scope)
BY ScopeEmpty, ScopeFacts DEF ScopeInv, Scope

\* Neither the table nor the number of the block changes.
LEMMA ScopesStay ==
    ASSUME UNCHANGED <<symbol_table, num_scope>>
    PROVE  UNCHANGED scopes
BY ScopesAre

\* A function's frame is open: no block is.
LEMMA AtFunction ==
    ASSUME ScopeInv, ctx # <<>>, Top.k \in FunctionFrames
    PROVE  /\ num_scope = 0 /\ ctx[Len(ctx)].k = Top.k
           /\ FunctionEntry(ctx, symbol_table)
<1>1. Len(ctx) = 1 /\ num_scope = 0 /\ Head(ctx) = ctx[1]
  BY ScopeFacts DEF ScopeInv, Top
<1> QED
  BY <1>1 DEF ScopeInv, Scope, Top

\* A block is open.
LEMMA AtBlock ==
    ASSUME ScopeInv, ctx # <<>>, Top.k = "block"
    PROVE  num_scope >= 1
<1>1. Head(ctx) = ctx[1] /\ (ctx[1].k = "block" => num_scope >= 1)
  BY ScopeFacts DEF ScopeInv
<1> QED
  BY <1>1 DEF Top

\* An entry in front of the table, with the number of the block, where the
\* construct declares its name.
LEMMA EnterDeclares ==
    ASSUME ScopeInv, NEW t \in Seq(Entry), ScopesOf(t, num_scope) = scopes,
           Within(t, num_scope) = Within(symbol_table, num_scope),
           NEW e \in Entry, e.add = num_scope, ~Found(e.name),
           symbol_table' = <<e>> \o t, UNCHANGED num_scope,
           \/ Scopes!Kind = "begun" /\ e.name = FileName
           \/ Scopes!Kind = "set" /\ e.name = construct[2]
           \/ Scopes!Kind \in {"params", "block"}
    PROVE  Scopes!Declare(e.name)
<1>1. symbol_table \in Seq(Entry) /\ num_scope \in Nat
  BY TableShape
<1>2. ScopesOf(<<e>> \o t, num_scope) =
        [ScopesOf(t, num_scope) EXCEPT ![Len(ScopesOf(t, num_scope))] =
            Within(t, num_scope) \cup {e.name}]
  <2> DEFINE s == num_scope
  <2>1. s \in Nat /\ e.add = s
    BY <1>1
  <2> HIDE DEF s
  <2>2. ScopesOf(<<e>> \o t, s) =
          [ScopesOf(t, s) EXCEPT ![Len(ScopesOf(t, s))] = Within(t, s) \cup {e.name}]
    BY <2>1, ScopesEnter
  <2> QED
    BY <2>2 DEF s
<1>3. scopes' = [scopes EXCEPT ![Len(scopes)] = Scopes!Innermost \cup {e.name}]
  <2>1. scopes' = ScopesOf(<<e>> \o t, num_scope)
    BY ScopesAre
  <2>2. Scopes!Innermost = Within(t, num_scope)
    BY <1>1, InnermostIs
  <2> QED
    BY <1>2, <2>1, <2>2
<1>4. ~Scopes!Known(e.name)
  BY <1>1, UnknownIs
<1> QED
  BY <1>3, <1>4 DEF Scopes!Declare, Scopes!InnermostBecomes

\* A block opens over the construct that owns it.
LEMMA OpenOpens ==
    ASSUME ScopeInv, num_scope' = num_scope + 1, UNCHANGED symbol_table,
           Scopes!Kind \in {"params", "if", "thenEnd", "while", "forbound"}
    PROVE  Scopes!Open
<1>1. scopes' = Append(scopes, {})
  BY TableShape, ScopesAre, ScopesOpen
<1> QED
  BY <1>1 DEF Scopes!Open

-----------------------------------------------------------------------------
(* The steps of the compiler are steps of NameScopes.                      *)

\* What a step of the compiler may be.
LEMMA NextScopes ==
    ASSUME \/ UNCHANGED scopes
           \/ Scopes!Open \/ Scopes!Close \/ Scopes!EndLoop \/ Scopes!EndFunction
           \/ \E x \in Names : Scopes!Declare(x)
    PROVE  [Scopes!Next]_scopes
BY DEF Scopes!Next

\* The end of the body and \END leave at most the function's name.
LEMMA FunctionEnds ==
    ASSUME ScopeInv, num_scope = 0, UNCHANGED num_scope,
           symbol_table' \in Seq(Entry), Ordered(symbol_table', 0),
           \/ Within(symbol_table', 0) = {} /\ Scopes!Kind \in {"body", "end"}
           \/ Within(symbol_table', 0) = {FileName} /\ Scopes!Kind = "body"
    PROVE  Scopes!EndFunction
<1>1. scopes' = [scopes EXCEPT ![Len(scopes)] = Within(symbol_table', 0)]
  <2>1. symbol_table \in Seq(Entry) /\ Ordered(symbol_table, 0)
    BY TableShape
  <2>2. ScopesOf(symbol_table', 0) =
          [ScopesOf(symbol_table, 0) EXCEPT ![Len(ScopesOf(symbol_table, 0))] =
              Within(symbol_table', 0)]
    BY <2>1, ScopesOuter
  <2> QED
    BY <2>2, ScopesAre
<1>2. Len(scopes) = 1
  BY TableShape, InnermostIs
<1> QED
  BY <1>1, <1>2 DEF Scopes!EndFunction, Scopes!InnermostBecomes

\* A function opens its block, closes it and gives its names back.
LEMMA FunctionRuleScopes ==
    ASSUME ScopeInv, ScopeInv', FunctionRule
    PROVE  [Scopes!Next]_scopes
<1>1. ASSUME NEW r, Stop(r) PROVE [Scopes!Next]_scopes
  BY <1>1, ScopesStay, NextScopes DEF Stop, tableVars
<1>2. symbol_table \in Seq(Entry) /\ num_scope \in Nat /\ Ordered(symbol_table, num_scope)
  BY TableShape
<1>3. /\ symbol_table' \in Seq(Entry) /\ Ordered(symbol_table', num_scope')
  BY DEF ScopeInv, Scope
<1>4. ASSUME NEW p \in Packages, BeginPackage(p) PROVE [Scopes!Next]_scopes
  <2>1. CASE Stop("aborted")
    BY <1>1, <2>1
  <2>2. CASE UNCHANGED <<symbol_table, num_scope>>
    BY <2>2, ScopesStay, NextScopes
  <2> QED
    BY <1>4, <2>1, <2>2 DEF BeginPackage
<1>5. ASSUME NEW x \in Names, FunctionName(x) PROVE [Scopes!Next]_scopes
  <2>1. CASE Stop("aborted")
    BY <1>1, <2>1
  <2>2. CASE ~Stop("aborted")
    <3>1. /\ In("begun") /\ x = FileName /\ ~Found(x) /\ UNCHANGED num_scope
      BY <1>5, <2>2 DEF FunctionName
    <3>2. PICK n \in Uninitialised :
             symbol_table' = <<[name |-> x, class |-> "FUNCTION", add |-> 0,
                                nParams |-> n]>> \o symbol_table
      BY <1>5, <2>2 DEF FunctionName
    <3> DEFINE e == [name |-> x, class |-> "FUNCTION", add |-> 0, nParams |-> n]
    <3>3. ctx # <<>> /\ Top.k = "begun" /\ Scopes!Kind = "begun"
      BY <3>1, KindIs DEF In
    <3>4. num_scope = 0
      BY <3>3, AtFunction DEF FunctionFrames
    <3>5. e \in Entry /\ e.add = num_scope /\ e.name = x
      BY <3>4 DEF ScopeInv, Uninitialised, Entry, Class
    <3>6. symbol_table' = <<e>> \o symbol_table
      BY <3>2
    <3> HIDE DEF e
    <3>7. Scopes!Declare(e.name)
      BY <1>2, <3>1, <3>3, <3>5, <3>6, ScopesAre, EnterDeclares
    <3> QED
      BY <3>5, <3>7, NextScopes
  <2> QED
    BY <2>1, <2>2
<1>6. ASSUME NEW x \in Names, Parameter(x) PROVE [Scopes!Next]_scopes
  <2>1. CASE Stop("aborted")
    BY <1>1, <2>1
  <2>2. CASE ~Stop("aborted")
    <3> DEFINE t == symbol_table
               L == Len(t)
               w == [t EXCEPT ![L].nParams = @ + 1]
               e == Variable(x)
    <3>1. /\ In("params") /\ ~Found(x) /\ UNCHANGED num_scope
          /\ symbol_table' = <<Variable(x)>> \o
                [symbol_table EXCEPT ![Position(FileName)].nParams = @ + 1]
      BY <1>6, <2>2 DEF Parameter
    <3>2. ctx # <<>> /\ Top.k = "params" /\ Scopes!Kind = "params"
      BY <3>1, KindIs DEF In
    <3>3. num_scope = 0 /\ FunctionLast(t)
      BY <3>2, AtFunction DEF FunctionFrames, FunctionEntry
    <3>4. Position(FileName) = L /\ L \in 1..L /\ t[L] \in Entry
      BY <1>2, <3>3, FunctionPosition
    <3>5. symbol_table' = <<e>> \o w
      BY <3>1, <3>4
    <3>6. e \in Entry /\ e.name = x /\ e.add = num_scope
      BY EntryTyped
    <3>7. /\ w \in Seq(Entry) /\ Len(w) = L
          /\ \A i \in 1..L : w[i].name = t[i].name /\ w[i].add = t[i].add
      <4> DEFINE f == [t[L] EXCEPT !.nParams = @ + 1]
      <4>1. f \in Entry /\ f.name = t[L].name /\ f.add = t[L].add
        BY <3>4 DEF Entry
      <4>2. w = [t EXCEPT ![L] = f]
        BY <1>2, <3>4
      <4> HIDE DEF f, w
      <4>3. /\ w \in Seq(Entry) /\ Len(w) = L
            /\ \A i \in 1..L : w[i] = IF i = L THEN f ELSE t[i]
        BY <1>2, <3>4, <4>1, <4>2, ExceptSeq
      <4> QED
        BY <4>1, <4>3
    <3> HIDE DEF w, e
    <3>8. /\ ScopesOf(w, num_scope) = ScopesOf(t, num_scope)
          /\ Within(w, num_scope) = Within(t, num_scope)
      BY <1>2, <3>7, ScopesSame
    <3>9. Scopes!Declare(e.name)
      BY <3>1, <3>2, <3>5, <3>6, <3>7, <3>8, ScopesAre, EnterDeclares
    <3> QED
      BY <3>6, <3>9, NextScopes
  <2> QED
    BY <2>1, <2>2
<1>7. CASE ParamsEnd
  <2>1. CASE Stop("crashed")
    BY <1>1, <2>1
  <2>2. CASE ~Stop("crashed")
    <3>1. In("params") /\ num_scope' = num_scope + 1 /\ UNCHANGED symbol_table
      BY <1>7, <2>2 DEF ParamsEnd
    <3>2. Scopes!Kind = "params"
      BY <3>1, KindIs DEF In
    <3> QED
      BY <3>1, <3>2, OpenOpens, NextScopes
  <2> QED
    BY <2>1, <2>2
<1>8. CASE CloseBlock
  <2> DEFINE m == Cardinality({i \in DOMAIN symbol_table :
                                 symbol_table[i].add = num_scope})
  <2>1. /\ ctx # <<>> /\ Top.k = "block" /\ num_scope' = num_scope - 1
        /\ symbol_table' = SubSeq(symbol_table, m + 1, Len(symbol_table))
    BY <1>8 DEF CloseBlock, In, FreeFirst
  <2>2. num_scope >= 1 /\ Scopes!Kind = "block"
    BY <2>1, AtBlock, KindIs
  <2>3. scopes' = SubSeq(scopes, 1, Len(scopes) - 1)
    <3>1. LET F == ScopesOf(symbol_table, num_scope)
          IN  ScopesOf(SubSeq(symbol_table, m + 1, Len(symbol_table)), num_scope - 1)
                = SubSeq(F, 1, Len(F) - 1)
      BY <1>2, <2>2, ScopesClose
    <3> HIDE DEF m
    <3> QED
      BY <2>1, <3>1, ScopesAre
  <2>4. Len(scopes) > 1
    BY <1>2, <2>2, InnermostIs
  <2>5. Scopes!Close
    BY <2>2, <2>3, <2>4 DEF Scopes!Close
  <2> QED
    BY <2>5, NextScopes
<1>9. CASE FreeParameters
  <2> DEFINE t == symbol_table
             L == Len(t)
             n == t[L].nParams
             u == SubSeq(t, n + 1, L)
  <2>1. In("body") /\ UNCHANGED num_scope
        /\ symbol_table' = FreeFirst(search_symbol_table(FileName).nParams)
    BY <1>9 DEF FreeParameters
  <2>2. ctx # <<>> /\ Top.k = "body" /\ Scopes!Kind = "body"
    BY <2>1, KindIs DEF In
  <2>3. num_scope = 0 /\ FunctionLast(t)
    BY <2>2, AtFunction DEF FunctionFrames, FunctionEntry
  <2>4. /\ search_symbol_table(FileName) = t[L] /\ L \in 1..L /\ t[L] \in Entry
        /\ L \in Nat /\ n \in Nat
    <3>1. search_symbol_table(FileName) = t[L] /\ L \in 1..L /\ t[L] \in Entry
      BY <1>2, <2>3, FunctionPosition
    <3> QED
      BY <1>2, <3>1 DEF Entry
  <2>5. symbol_table' = u
    BY <2>1, <2>4 DEF FreeFirst
  <2>6. 1 + n >= L
    <3>1. 1 \in 1..L /\ t[1] \in Entry /\ t[1].add =< 0
      BY <1>2, <2>3, <2>4 DEF Ordered
    <3>2. t[1].add = 0
      BY <3>1 DEF Entry
    <3> QED
      BY <2>3, <3>1, <3>2 DEF FunctionLast
  <2>7. /\ u \in Seq(Entry) /\ (n =< L => Len(u) = L - n) /\ (n >= L => u = <<>>)
        /\ \A i \in 1..Len(u) : i + n \in 1..L /\ u[i] = t[i + n]
    BY <1>2, <2>4, DropShape
  <2> HIDE DEF u
  <2>8. Within(u, 0) \in {{}, {FileName}}
    <3>1. CASE n >= L
      BY <2>7, <3>1, WithinEmpty
    <3>2. CASE n < L
      <4> HIDE DEF n
      <4>1. n + 1 = L /\ 1 + n = L /\ Len(u) = 1
        <5>1. L =< n + 1
          BY <2>4, <2>6
        <5>2. n + 1 = L
          BY <2>4, <3>2, <5>1
        <5>3. Len(u) = L - n
          BY <2>4, <2>7, <3>2
        <5> QED
          BY <2>4, <5>2, <5>3
      <4>2. u[1] = t[L] /\ 1 \in 1..Len(u)
        BY <2>4, <2>7, <4>1
      <4>3. u[1].name = FileName /\ u[1].add = 0
        BY <2>3, <4>2 DEF FunctionLast
      <4>4. \A i \in 1..Len(u) : i = 1
        BY <4>1
      <4>5. \A x : x \in Within(u, 0) <=> x = FileName
        BY <2>7, <4>2, <4>3, <4>4, WithinIs
      <4> QED
        BY <4>5
    <3> QED
      BY <2>4, <3>1, <3>2
  <2>9. Scopes!EndFunction
    BY <1>3, <2>1, <2>2, <2>3, <2>5, <2>8, FunctionEnds
  <2> QED
    BY <2>9, NextScopes
<1>10. ASSUME NEW p \in Packages, EndPackage(p) PROVE [Scopes!Next]_scopes
  <2>1. CASE Stop("aborted") \/ Stop("crashed")
    BY <1>1, <2>1
  <2>2. CASE ~(Stop("aborted") \/ Stop("crashed"))
    <3>1. /\ In("end") /\ symbol_table # <<>> /\ symbol_table' = FreeFirst(1)
          /\ UNCHANGED num_scope
      BY <1>10, <2>2 DEF EndPackage
    <3>2. ctx # <<>> /\ Top.k = "end" /\ Scopes!Kind = "end"
      BY <3>1, KindIs DEF In
    <3>3. num_scope = 0 /\ Len(symbol_table) =< 1
      BY <3>2, AtFunction DEF FunctionFrames, FunctionEntry
    <3>4. symbol_table' = <<>>
      <4>1. 1 \in Nat /\ 1 >= Len(symbol_table)
        BY <3>3
      <4>2. SubSeq(symbol_table, 1 + 1, Len(symbol_table)) = <<>>
        BY <1>2, <4>1, DropShape
      <4> QED
        BY <3>1, <4>2 DEF FreeFirst
    <3>5. Within(symbol_table', 0) = {}
      BY <1>3, <3>4, WithinEmpty
    <3>6. Scopes!EndFunction
      BY <1>3, <3>1, <3>2, <3>3, <3>5, FunctionEnds
    <3> QED
      BY <3>6, NextScopes
  <2> QED
    BY <2>1, <2>2
<1>11. CASE EndOfFile
  <2>1. ctx = <<>> /\ symbol_table' = <<>> /\ UNCHANGED num_scope
    BY <1>11 DEF EndOfFile
  <2>2. symbol_table = <<>>
    BY <2>1, ScopeEmpty DEF ScopeInv
  <2> QED
    BY <2>1, <2>2, ScopesStay, NextScopes
<1>12. CASE SyntaxError
  BY <1>1, <1>12 DEF SyntaxError
<1> QED
  BY <1>4, <1>5, <1>6, <1>7, <1>8, <1>9, <1>10, <1>11, <1>12 DEF FunctionRule

\* A statement declares a name, opens a block or ends a loop.
LEMMA StatementScopes ==
    ASSUME ScopeInv, Statement
    PROVE  [Scopes!Next]_scopes
<1>1. ASSUME UNCHANGED <<symbol_table, num_scope>> PROVE [Scopes!Next]_scopes
  BY <1>1, ScopesStay, NextScopes
<1>2. symbol_table \in Seq(Entry) /\ num_scope \in Nat /\ Ordered(symbol_table, num_scope)
  BY TableShape
<1>3. ASSUME NEW x \in Names, ~Found(x), Enter(x), UNCHANGED num_scope,
             \/ Scopes!Kind = "set" /\ x = construct[2]
             \/ Scopes!Kind = "block"
      PROVE  [Scopes!Next]_scopes
  <2> DEFINE e == Variable(x)
  <2>1. e \in Entry /\ e.name = x /\ e.add = num_scope
    BY EntryTyped
  <2>2. symbol_table' = <<e>> \o symbol_table
    BY <1>3 DEF Enter
  <2> HIDE DEF e
  <2>3. Scopes!Declare(e.name)
    BY <1>2, <1>3, <2>1, <2>2, ScopesAre, EnterDeclares
  <2> QED
    BY <2>1, <2>3, NextScopes
<1>4. ASSUME NEW k, NEW n, OpenBlock(k, n), ctx # <<>>,
             Top.k \in {"if", "thenEnd", "while", "forbound"}
      PROVE  [Scopes!Next]_scopes
  <2>1. Scopes!Kind \in {"params", "if", "thenEnd", "while", "forbound"}
    BY <1>4, KindIs
  <2>2. num_scope' = num_scope + 1 /\ UNCHANGED symbol_table
    BY <1>4 DEF OpenBlock
  <2> QED
    BY <2>1, <2>2, OpenOpens, NextScopes
<1>5. CASE (\E x \in Names : SetStart(x) \/ Step(x)) \/ ReturnStart \/ IfStart
           \/ Return \/ EndIf \/ Fi \/ WhileStart \/ EndWhile \/ ForInit
  BY <1>1, <1>5 DEF SetStart, Step, ReturnStart, IfStart, OpenExpression, Return,
     EndIf, Fi, WhileStart, EndWhile, ForInit, Stop, tableVars
<1>6. ASSUME NEW x \in Names, ForName(x) PROVE [Scopes!Next]_scopes
  <2>1. CASE Stop("refused")
    BY <1>1, <2>1 DEF Stop, tableVars
  <2>2. CASE ~Stop("refused")
    <3>1. In("block") /\ ~Found(x) /\ Enter(x) /\ UNCHANGED num_scope
      BY <1>6, <2>2 DEF ForName
    <3>2. Scopes!Kind = "block"
      BY <3>1, KindIs DEF In
    <3> QED
      BY <1>3, <3>1, <3>2
  <2> QED
    BY <2>1, <2>2
<1>7. CASE Set
  <2>1. ctx # <<>> /\ Top.k = "set" /\ UNCHANGED num_scope
    BY <1>7 DEF Set, ExprDone, In
  <2>2. Scopes!Kind = "set" /\ construct[2] = Top.name /\ Top.name \in Names
    BY <2>1, KindIs, TopTyped
  <2>3. CASE Found(Top.name)
    BY <1>1, <1>7, <2>1, <2>3 DEF Set
  <2>4. CASE ~Found(Top.name)
    <3>1. Enter(Top.name)
      BY <1>7, <2>4 DEF Set
    <3> QED
      BY <1>3, <2>1, <2>2, <2>4, <3>1
  <2> QED
    BY <2>3, <2>4
<1>8. CASE BeginIf
  BY <1>4, <1>8 DEF BeginIf, ExprDone, In
<1>9. CASE Else
  BY <1>4, <1>9 DEF Else, In
<1>10. CASE WhileCondition
  BY <1>4, <1>10 DEF WhileCondition, ExprDone, In
<1>11. CASE ForBound
  <2>1. CASE Stop("aborted")
    BY <1>1, <2>1 DEF Stop, tableVars
  <2>2. CASE ~Stop("aborted")
    <3>1. ctx # <<>> /\ Top.k = "forbound" /\ OpenBlock("for", Top.n)
      BY <1>11, <2>2 DEF ForBound, ExprDone, In
    <3> QED
      BY <1>4, <3>1
  <2> QED
    BY <2>1, <2>2
<1>12. CASE EndFor
  <2> DEFINE t == symbol_table
  <2>1. /\ ctx # <<>> /\ Top.k = "for" /\ UNCHANGED num_scope
        /\ symbol_table' = SubSeq(t, 2, Len(t))
    <3>1. 1 + 1 = 2
      OBVIOUS
    <3> QED
      BY <1>12, <3>1 DEF EndFor, In, FreeFirst
  <2>2. t # <<>> /\ Head(t).name = Top.name /\ t[1].add = num_scope
    BY <2>1, ScopeLoop DEF ScopeInv, Top
  <2>3. t[1].name = Top.name
    BY <1>2, <2>2
  <2>4. Scopes!Kind = "for" /\ construct[2] = t[1].name
    BY <2>1, <2>3, KindIs
  <2>5. /\ t[1].name \in Within(t, num_scope)
        /\ ScopesOf(SubSeq(t, 2, Len(t)), num_scope) =
             [ScopesOf(t, num_scope) EXCEPT ![Len(ScopesOf(t, num_scope))] =
                 Within(t, num_scope) \ {t[1].name}]
    BY <1>2, <2>2, ScopesForget
  <2>6. Scopes!Innermost = Within(t, num_scope)
    BY <1>2, InnermostIs
  <2>7. scopes' = [scopes EXCEPT ![Len(scopes)] = Scopes!Innermost \ {construct[2]}]
    BY <2>1, <2>4, <2>5, <2>6, ScopesAre
  <2>8. Scopes!EndLoop
    BY <2>4, <2>5, <2>6, <2>7 DEF Scopes!EndLoop, Scopes!InnermostBecomes
  <2> QED
    BY <2>8, NextScopes
<1> QED
  BY <1>5, <1>6, <1>7, <1>8, <1>9, <1>10, <1>11, <1>12 DEF Statement

\* Expressions look names up and enter none.
LEMMA ExpressionScopes ==
    ASSUME Expression
    PROVE  [Scopes!Next]_scopes
<1>1. UNCHANGED <<symbol_table, num_scope>>
  BY DEF Expression, Identifier, CallStart, Branching, Constant, Arithmetic,
     Argument, Call, Stop, tableVars
<1> QED
  BY <1>1, ScopesStay, NextScopes

\* stable.c keeps scopes that open and close like brackets, whatever is
\* declared in whatever block and however statements are nested: every
\* behaviour of the compiler is one of NameScopes.
THEOREM TableIsScopes == Spec => ImplementsScopes
<1>1. Init => Scopes!Init
  <2> SUFFICES ASSUME Init PROVE scopes = <<{}>>
    BY DEF Scopes!Init
  <2>1. symbol_table = <<>> /\ num_scope = 0 /\ <<>> \in Seq(Entry) /\ 0 \in Nat
    BY DEF Init
  <2>2. scopes \in Seq(SUBSET Names) /\ Len(scopes) = 0 + 1
        /\ scopes[0 + 1] = Within(<<>>, 0)
    BY <2>1, ScopesAre, ScopesShape
  <2>3. Within(<<>>, 0) = {}
    BY <2>1, WithinEmpty
  <2>4. Len(scopes) = 1 /\ scopes[1] = {}
    BY <2>2, <2>3
  <2> QED
    BY <2>2, <2>4
<1>2. ScopeInv /\ ScopeInv' /\ [Next]_vars => [Scopes!Next]_scopes
  <2> SUFFICES ASSUME ScopeInv, ScopeInv', [Next]_vars PROVE [Scopes!Next]_scopes
    OBVIOUS
  <2>1. CASE Ended \/ UNCHANGED vars
    BY <2>1, ScopesStay, NextScopes DEF Ended, vars, tableVars
  <2> QED
    BY <2>1, FunctionRuleScopes, StatementScopes, ExpressionScopes DEF Next
<1> QED
  BY <1>1, <1>2, ScopeInvariant, PTL DEF Spec, ImplementsScopes, Scopes!Spec
=============================================================================
