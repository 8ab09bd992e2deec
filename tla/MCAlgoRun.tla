----------------------------- MODULE MCAlgoRun -----------------------------
(* Small algorithms for TLC, built from the programs under tests.          *)
EXTENDS AlgoRun

Var(x) == <<"var", x>>
Num(n) == <<"num", n>>
Algo(name, params, body) == [name |-> name, params |-> params, body |-> body]

MCMessage == <<68, 48, 10>>

\* fibonacci.tex, puissance.tex
Fibonacci ==
    Algo("fibonacci", <<"n">>,
         << <<"if", <<"<", Var("n"), Num(2)>>, << <<"return", Var("n")>> >>, <<>> >>,
            <<"return", <<"+", <<"call", << <<"-", Var("n"), Num(1)>> >> >>,
                               <<"call", << <<"-", Var("n"), Num(2)>> >> >> >> >> >>)
Puissance ==
    Algo("puissance", <<"a", "b">>,
         << <<"set", "p", Num(1)>>,
            <<"for", "k", Num(1), Var("b"),
              << <<"set", "p", <<"*", Var("p"), Var("a")>> >> >> >>,
            <<"return", Var("p")>> >>)
\* factorial.tex, pgcd.tex: a call is the last operand, or the only one.
Factorial ==
    Algo("factorial", <<"n">>,
         << <<"if", <<"==", Var("n"), Num(0)>>, << <<"return", Num(1)>> >>,
              << <<"return", <<"*", Var("n"),
                               <<"call", << <<"-", Var("n"), Num(1)>> >> >> >> >> >> >> >>)
Pgcd ==
    Algo("pgcd", <<"a", "b">>,
         << <<"if", <<"==", Var("a"), Var("b")>>, << <<"return", Var("a")>> >>,
              << <<"if", <<">", Var("a"), Var("b")>>,
                   << <<"return", <<"call", << <<"-", Var("a"), Var("b")>>, Var("b")>> >> >> >>,
                   << <<"return", <<"call", <<Var("a"), <<"-", Var("b"), Var("a")>> >> >> >> >>
              >> >> >> >>)
MCPrograms == UNION {{Compiled(a, args) : args \in Arguments[a]} : a \in Algorithms}

MCPuissance == {Puissance}
MCPuissanceArguments == [a \in MCPuissance |-> {<<2, 3>>}]
MCFibonacci == {Fibonacci}
MCFibonacciArguments == [a \in MCFibonacci |-> {<<n>> : n \in 0..3}]

-----------------------------------------------------------------------------
\* One operator, or one on top of another, on either side.  && and || get 0 and 1 only.
Comparisons == {"==", "!=", "<", ">"}
Ops == {"+", "-", "*", "/", "%"} \cup Comparisons
AB(op) == <<op, Var("a"), Var("b")>>
Conditions == {AB(op) : op \in Comparisons} \cup {<<"!", Var("a")>>}
MCOneOperator == {AB(op) : op \in Ops} \cup {<<"!", Var("b")>>}
MCTwoOperators ==
    {<<"!", e>> : e \in MCOneOperator}
    \cup {<<op, AB(inner), Var("a")>> : op \in Ops, inner \in Ops}
    \cup {<<op, Var("b"), AB(inner)>> : op \in Ops, inner \in Ops}
    \cup {<<op, c, AB("<")>> : op \in {"&&", "||"}, c \in Conditions}
Returning(es) == {Algo("f", <<"a", "b">>, << <<"return", e>> >>) : e \in es}

\* An operand waits on the stack while the function calls itself.
Waiting ==
    {Algo("f", <<"a", "b">>,
          << <<"if", <<">", Num(1), Var("b")>>, << <<"return", Var("a")>> >>, <<>> >>,
             <<"return", <<op, Var("b"),
                 <<"call", <<Var("a"), <<"-", Var("b"), Num(1)>> >> >> >> >> >>) :
        op \in Ops}

\* Statements nested twice, each level with a variable of its own.
Atoms == { << <<"incr", "x">> >>,
           << <<"set", "z", <<"+", Var("x"), Var("y")>> >>, <<"set", "y", Var("z")>> >>,
           << <<"decr", "y">>,
              <<"if", <<"==", Var("x"), Var("y")>>, << <<"return", Var("y")>> >>, <<>> >> >> }
Increment == << <<"incr", "x">> >>
Level(block, i) ==
    { << <<"if", AB("<"), block, <<>> >> >>,
      << <<"if", AB("<"), Increment, block>> >>,
      << <<"set", i, Var("a")>>,
         <<"while", <<"<", Var(i), Var("b")>>, block \o << <<"incr", i>> >> >> >>,
      << <<"for", i, Num(1), Var("b"),
           block \o << <<"set", "x", <<"+", Var("x"), Var(i)>> >> >> >> >> }
Nested == UNION {Level(block, "i") : block \in UNION {Level(atom, "j") : atom \in Atoms}}
Statements ==
    {Algo("f", <<"a", "b">>,
          << <<"set", "x", Num(0)>>, <<"set", "y", Num(3)>> >> \o block \o
          << <<"return", <<"-", <<"*", Var("x"), Num(10)>>, Var("y")>> >> >>) :
        block \in Nested}

MCAlgorithms ==
    Returning(MCOneOperator \cup MCTwoOperators) \cup Waiting \cup Statements
    \cup {Factorial, Pgcd}
MCArguments ==
    [a \in MCAlgorithms |->
        CASE a \in Returning(MCOneOperator) ->
                 {<<7, -2>>, <<-5, 0>>, <<-32768, -1>>, <<300, 300>>}
          [] a \in Returning(MCTwoOperators) -> {<<7, -2>>, <<-5, 0>>}
          [] a \in Waiting -> {<<3, 3>>, <<0, 2>>}
          [] a \in Statements -> {<<1, 3>>, <<2, 2>>}
          [] a = Factorial -> {<<0>>, <<4>>}
          [] a = Pgcd -> {<<30, 15>>, <<12, 18>>}]
=============================================================================
