--------------------------- MODULE AlgoSemantics ---------------------------
(***************************************************************************)
(* What an algorithm of the LaTeX package algo computes, after the         *)
(* assignment (sujet_projet_compilation.pdf) and the programs under tests: *)
(* parameters and variables belong to one call, 0 is false and every other *)
(* value true, a division by zero prints a message and ends the program.   *)
(* Integers are those of the SIPRO.  Nothing here is taken from the code   *)
(* generator.                                                              *)
(***************************************************************************)
EXTENDS Integers, SequencesExt

CONSTANTS ForIncludesBound,   \* \DOFORI{k}{1}{b}: "for k <- 1 to b"
          DivisionText        \* what is printed for a division by zero

\* 16 bits, signed.
Integer(v) == ((v + 32768) % 65536) - 32768
Truth(condition) == IF condition THEN 1 ELSE 0
Magnitude(v) == IF v < 0 THEN -v ELSE v

\* Towards 0; the remainder has the sign of the dividend.
Quotient0(v, w) ==
    LET q == Magnitude(v) \div Magnitude(w)
    IN IF (v < 0) = (w < 0) THEN q ELSE -q

\* A value, or the division by zero.
Just(v) == [ok |-> TRUE, v |-> Integer(v)]
DividedByZero == [ok |-> FALSE, v |-> 0]

Apply(op, v, w) ==
    CASE op = "+" -> Just(v + w)
      [] op = "-" -> Just(v - w)
      [] op = "*" -> Just(v * w)
      [] op \in {"/", "%"} /\ w = 0 -> DividedByZero
      [] op = "/" /\ w # 0 -> Just(Quotient0(v, w))
      [] op = "%" /\ w # 0 -> Just(v - Quotient0(v, w) * w)
      [] op = "==" -> Just(Truth(v = w))
      [] op = "!=" -> Just(Truth(v # w))
      [] op = "<" -> Just(Truth(v < w))
      [] op = ">" -> Just(Truth(v > w))
      [] op = "&&" -> Just(Truth(v # 0 /\ w # 0))
      [] op = "||" -> Just(Truth(v # 0 \/ w # 0))

\* A call in progress: env holds the variables; how is "on", "returned" (v is
\* the result) or "div0".
Entered(a, args) ==
    [env |-> [x \in {a.params[i] : i \in DOMAIN a.params} |->
                 args[CHOOSE i \in DOMAIN a.params : a.params[i] = x]],
     how |-> "on", v |-> 0]
Assign(c, x, v) == [c EXCEPT !.env = (x :> Integer(v)) @@ @]
Stopped(c, how, v) == [c EXCEPT !.how = how, !.v = v]

RECURSIVE Value(_, _, _), Run(_, _, _), Loop(_, _, _)

\* The value of expression e in call c of algorithm a.
Value(a, c, e) ==
    CASE e[1] = "num" -> Just(e[2])
      [] e[1] = "var" -> Just(c.env[e[2]])
      [] e[1] = "!" ->
            LET r == Value(a, c, e[2]) IN IF r.ok THEN Just(Truth(r.v = 0)) ELSE r
      [] e[1] = "call" ->
            LET rs == [i \in DOMAIN e[2] |-> Value(a, c, e[2][i])]
                callee == Entered(a, [i \in DOMAIN rs |-> rs[i].v])
                end == FoldLeft(LAMBDA d, s : Run(a, d, s), callee, a.body)
            IN IF /\ \A i \in DOMAIN rs : rs[i].ok
                  /\ end.how = "returned"
               THEN Just(end.v) ELSE DividedByZero
      [] OTHER ->
            LET l == Value(a, c, e[2])
                r == Value(a, c, e[3])
            IN IF l.ok /\ r.ok THEN Apply(e[1], l.v, r.v) ELSE DividedByZero

\* A WHILE, or a FOR whose variable has its first value.
Loop(a, c, s) ==
    LET for == s[1] = "for"
        r == Value(a, c, IF for THEN s[4] ELSE s[2])
        goesOn == IF ~for THEN r.v # 0
                  ELSE \/ c.env[s[2]] < r.v
                       \/ ForIncludesBound /\ c.env[s[2]] = r.v
        turn == FoldLeft(LAMBDA d, st : Run(a, d, st), c,
                         IF for THEN s[5] ELSE s[3])
    IN CASE ~r.ok -> Stopped(c, "div0", 0)
         [] r.ok /\ ~goesOn -> c
         [] r.ok /\ goesOn ->
              IF turn.how # "on" THEN turn
              ELSE Loop(a, IF for THEN Assign(turn, s[2], turn.env[s[2]] + 1)
                           ELSE turn, s)

\* Statement s in call c of algorithm a.
Run(a, c, s) ==
    LET r == Value(a, c, IF s[1] \in {"set", "for"} THEN s[3] ELSE s[2]) IN
    CASE c.how # "on" -> c
      [] c.how = "on" /\ s[1] = "incr" -> Assign(c, s[2], c.env[s[2]] + 1)
      [] c.how = "on" /\ s[1] = "decr" -> Assign(c, s[2], c.env[s[2]] - 1)
      [] c.how = "on" /\ s[1] = "while" -> Loop(a, c, s)
      [] c.how = "on" /\ s[1] \in {"set", "return", "if", "for"} ->
           IF ~r.ok THEN Stopped(c, "div0", 0)
           ELSE CASE s[1] = "set" -> Assign(c, s[2], r.v)
                  [] s[1] = "return" -> Stopped(c, "returned", r.v)
                  [] s[1] = "if" ->
                       FoldLeft(LAMBDA d, st : Run(a, d, st), c,
                                IF r.v # 0 THEN s[3] ELSE s[4])
                  [] s[1] = "for" -> Loop(a, Assign(c, s[2], r.v), s)

\* What \SIPRO{f}{args} prints.
Expected(a, args) ==
    LET end == FoldLeft(LAMBDA c, s : Run(a, c, s),
                        Entered(a, [i \in DOMAIN args |-> Integer(args[i])]), a.body)
    IN IF end.how = "returned" THEN <<"number", end.v>> ELSE <<"text", DivisionText>>
=============================================================================
