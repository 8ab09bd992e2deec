------------------------------ MODULE CodeGen ------------------------------
(***************************************************************************)
(* The text algo2asm writes: the instructions of every construct, in the   *)
(* order in which bison runs the semantic actions (algo2asm.y), and the    *)
(* main program run writes around it (run.c).  Algo2asm models when an     *)
(* action runs and what it does to the compiler's tables; here are the     *)
(* lines of assembly it leaves.                                            *)
(*                                                                         *)
(* An algorithm is [name, params, body].  An expression is <<"num", n>>,   *)
(* <<"var", x>>, <<"call", arguments>>, <<"!", e>> or <<operator, e, e>>;  *)
(* a statement <<"set", x, e>>, <<"incr", x>>, <<"decr", x>>,              *)
(* <<"return", e>>, <<"if", e, block, block>>, <<"while", e, block>> or    *)
(* <<"for", x, e, e, block>>; a block is a sequence of statements, empty   *)
(* only where there is no \ELSE.                                           *)
(*                                                                         *)
(* A line is a line of SiproCode, a label <<"label", l>>, or               *)
(* <<"address", r, l>> for "const r,l".  A label is <<prefix, number>>,    *)
(* <<prefix, name>> or <<name>>.                                           *)
(***************************************************************************)
EXTENDS SiproCode, SequencesExt

CONSTANT Message   \* the characters of the string of the division by zero

ax == ID_AX
bx == ID_BX
cx == ID_CX
dx == ID_DX

\* codeValue: a negative number is written as its complement to 2^16.
codeValue(v) == v % 65536
Number(r, v) == <<"const", r, codeValue(v)>>
Address(r, l) == <<"address", r, l>>
Label(l) == <<"label", l>>
Storage(x) == <<"var", x>>

-----------------------------------------------------------------------------
(* What the semantic actions share: the text written so far, the names in  *)
(* the symbol table, the label counter, the argument counter and the       *)
(* number of the next statement of each kind.  "refused" stands for        *)
(* yyerror and fail_with.                                                  *)

\* main in front of yyparse.
Start(a) ==
    [code |-> << Label(<<"s_err:div0", 0>>), <<"string", Message>> >>,
     known |-> {a.name} \cup {a.params[i] : i \in DOMAIN a.params},
     label |-> 1,
     count_args |-> 0,
     number |-> [if |-> 0, while |-> 0, for |-> 0],
     refused |-> FALSE]

Emit(t, lines) == [t EXCEPT !.code = @ \o lines]
Require(t, condition) == [t EXCEPT !.refused = @ \/ ~condition]
NewLabel(t) == [t EXCEPT !.label = @ + 1]
NewNumber(t, kind) == [t EXCEPT !.number[kind] = @ + 1]

\* Storage amid the code, which jumps over it.
Declaration(x) ==
    << Address(cx, <<"jump:var", x>>), <<"jmp", cx>>, Label(Storage(x)),
       <<"int", 0>>, Label(<<"jump:var", x>>) >>
Declare(t, x) == [Emit(t, Declaration(x)) EXCEPT !.known = @ \cup {x}]

LoadVariable(x) == << Address(bx, Storage(x)), <<"loadw", ax, bx>> >>
StoreBehindVariable(x) == << Address(bx, <<"jump:var", x>>), <<"storew", ax, bx>> >>
StoreVariable(x) == << Address(bx, Storage(x)), <<"storew", ax, bx>> >>
PopVariable(x) == << <<"pop", ax>> >> \o StoreVariable(x)

\* The condition on the stack is false, that is 0: go to l.
TestLeftOnStack(l) ==
    << <<"pop", ax>>, <<"push", ax>>, Number(bx, 0), Address(cx, l),
       <<"cmp", ax, bx>>, <<"jmpc", cx>> >>
JumpIfFalse(l) ==
    << <<"pop", ax>>, Number(bx, 0), Address(cx, l), <<"cmp", ax, bx>>,
       <<"jmpc", cx>> >>

\* A comparison pushes v when it sets the flag c and 1 - v otherwise.
PushOutcome(comparison, v, yes, end) ==
    << Address(cx, yes), comparison, <<"jmpc", cx>>, Number(ax, 1 - v),
       <<"push", ax>>, Address(cx, end), <<"jmp", cx>>, Label(yes),
       Number(ax, v), <<"push", ax>>, Label(end) >>

-----------------------------------------------------------------------------
(* Expressions: the value is left on the stack.                            *)

PopRightThenLeft == << <<"pop", bx>>, <<"pop", ax>> >>
PopInOrder == << <<"pop", ax>>, <<"pop", bx>> >>

Plus == PopInOrder \o << <<"add", ax, bx>>, <<"push", ax>> >>
MinusSwapped == PopInOrder \o << <<"sub", ax, bx>>, <<"push", ax>> >>
Minus == PopRightThenLeft \o << <<"sub", ax, bx>>, <<"push", ax>> >>
Times == PopInOrder \o << <<"mul", ax, bx>>, <<"push", ax>> >>
And == PopRightThenLeft \o << <<"and", ax, bx>>, <<"push", ax>> >>
Or == PopRightThenLeft \o << <<"or", ax, bx>>, <<"push", ax>> >>

\* The division sets the flag e: print the message and end.
DivisionError(n) ==
    << Label(<<"err:div0", n>>), Address(ax, <<"s_err:div0", 0>>),
       <<"callprintfs", ax>>, <<"end">>, Label(<<"fin:div", n>>) >>
Division(n) ==
    PopRightThenLeft
    \o << Address(cx, <<"err:div0", n>>), <<"div", ax, bx>>, <<"jmpe", cx>>,
          <<"push", ax>>, Address(ax, <<"fin:div", n>>), <<"jmp", ax>> >>
    \o DivisionError(n)
\* The dividend goes from dx to cx and the divisor to dx, over the jump.
Modulo(n) ==
    PopRightThenLeft
    \o << <<"cp", dx, ax>>, Address(cx, <<"err:div0", n>>), <<"div", ax, bx>>,
          <<"jmpe", cx>>, <<"cp", cx, dx>>, <<"cp", dx, bx>>, <<"push", ax>>,
          Address(ax, <<"fin:div", n>>), <<"jmp", ax>> >>
    \o DivisionError(n)
    \o << <<"pop", ax>>, <<"mul", ax, dx>>, <<"push", ax>>, <<"pop", ax>>,
          <<"sub", cx, ax>>, <<"push", cx>> >>

Equal(n) == PopRightThenLeft \o
    PushOutcome(<<"cmp", ax, bx>>, 1, <<"eq:true", n>>, <<"endeq:true", n>>)
Different(n) == PopRightThenLeft \o
    PushOutcome(<<"cmp", ax, bx>>, 0, <<"neq:false", n>>, <<"endneq:false", n>>)
Greater(n) == PopRightThenLeft \o
    PushOutcome(<<"sless", bx, ax>>, 1, <<"gt:true", n>>, <<"gt:endtrue", n>>)
Less(n) == PopRightThenLeft \o
    PushOutcome(<<"sless", ax, bx>>, 1, <<"lt:true", n>>, <<"lt:endtrue", n>>)
Not(n) == << <<"pop", ax>>, Number(bx, 0) >> \o
    PushOutcome(<<"cmp", ax, bx>>, 1, <<"not:true", n>>, <<"endnot:true", n>>)

StraightOps == {"+", "-", "*", "&&", "||"}
Straight(op) ==
    CASE op = "+" -> Plus [] op = "-" -> Minus [] op = "*" -> Times
      [] op = "&&" -> And [] op = "||" -> Or
Numbered(op, n) ==
    CASE op = "/" -> Division(n) [] op = "%" -> Modulo(n)
      [] op = "==" -> Equal(n) [] op = "!=" -> Different(n)
      [] op = ">" -> Greater(n) [] op = "<" -> Less(n) [] op = "!" -> Not(n)

\* The code of an operator, behind that of its operands.
Operator(t, op) ==
    IF op \in StraightOps THEN Emit(t, Straight(op))
    ELSE NewLabel(Emit(t, Numbered(op, t.label)))

\* A call pops as many words as the function has parameters, which must be as
\* many as the arguments counted since the last call.
PopAllButOne(n) == [i \in 1..(n - 1) |-> <<"pop", bx>>]
PopArguments(n) == [i \in 1..n |-> <<"pop", bx>>]
CountArgument(t) == [t EXCEPT !.count_args = (@ + 1) % 256]
Call(t, a) ==
    Emit([Require(t, t.count_args = Len(a.params)) EXCEPT !.count_args = 0],
         << Address(bx, <<a.name>>), <<"call", bx>> >>
         \o PopArguments(Len(a.params)) \o << <<"push", ax>> >>)

RECURSIVE Expression(_, _, _)
Expression(a, t, e) ==
    LET Next(u, f) == Expression(a, u, f) IN
    CASE e[1] = "num" -> Emit(t, << Number(ax, e[2]), <<"push", ax>> >>)
      [] e[1] = "var" -> Emit(Require(t, e[2] \in t.known),
                              LoadVariable(e[2]) \o << <<"push", ax>> >>)
      [] e[1] = "call" ->
           Call(FoldLeft(LAMBDA u, f : CountArgument(Next(u, f)), t, e[2]), a)
      [] OTHER -> Operator(FoldLeft(Next, t, Tail(e)), e[1])

-----------------------------------------------------------------------------
(* Statements.                                                             *)

\* The expression is computed in front of the storage of a new variable.
Set(t, x) ==
    Emit(IF x \in t.known THEN t ELSE Declare(t, x), PopVariable(x))

\* \INCR and \DECR: op is "add" or "sub".
Step(t, x, op) ==
    Emit(Require(t, x \in t.known),
         LoadVariable(x) \o << Number(bx, 1), <<op, ax, bx>> >>
         \o StoreVariable(x))

ReturnFallsThrough == << <<"pop", ax>> >>
Return == << <<"pop", ax>>, <<"ret">> >>

BeginIf(n) == JumpIfFalse(<<"else", n>>)
EndIf(n) ==
    << Address(ax, <<"endif", n>>), <<"jmp", ax>>, Label(<<"else", n>>) >>
Fi(n) == << Label(<<"endif", n>>) >>

BeginWhile(n) == << Label(<<"beginwhile", n>>) >>
EndWhile(n) ==
    << Address(cx, <<"beginwhile", n>>), <<"jmp", cx>>, Label(<<"endwhile", n>>) >>

\* The bound of a FOR is compared by the code of "<", with labels of its own.
BeginFor(x, n) == PopVariable(x) \o << Label(<<"beginfor", n>>) >>
ForTest(x, n, l) ==
    << Address(cx, Storage(x)), <<"loadw", ax, cx>>, <<"pop", bx>> >>
    \o PushOutcome(<<"sless", ax, bx>>, 1, <<"lt:true", l>>, <<"lt:endtrue", l>>)
    \o JumpIfFalse(<<"endfor", n>>)
EndFor(x, n) ==
    LoadVariable(x) \o << Number(bx, 1), <<"add", ax, bx>> >> \o StoreVariable(x)
    \o << Address(cx, <<"beginfor", n>>), <<"jmp", cx>>, Label(<<"endfor", n>>) >>

\* Leaving a block, its names are freed.
Leave(t, outside) == [t EXCEPT !.known = outside.known]

RECURSIVE Statement(_, _, _)
Statement(a, t, s) ==
    LET Value(u, e) == Expression(a, u, e)
        Block(u, b) ==
            Leave(FoldLeft(LAMBDA v, st : Statement(a, v, st), u, b), u)
    IN CASE s[1] = "set" -> Set(Value(t, s[3]), s[2])
         [] s[1] = "incr" -> Step(t, s[2], "add")
         [] s[1] = "decr" -> Step(t, s[2], "sub")
         [] s[1] = "return" -> Emit(Value(t, s[2]), Return)
         [] s[1] = "if" ->
              LET condition == Value(t, s[2])
                  n == condition.number["if"]
                  begun == Emit(NewNumber(condition, "if"), BeginIf(n))
                  then == Emit(Block(begun, s[3]), EndIf(n))
              IN Emit(Block(then, s[4]), Fi(n))
         [] s[1] = "while" ->
              LET n == t.number["while"]
                  begun == Emit(NewNumber(t, "while"), BeginWhile(n))
                  tested == Emit(Value(begun, s[2]), JumpIfFalse(<<"endwhile", n>>))
              IN Emit(Block(tested, s[3]), EndWhile(n))
         [] s[1] = "for" ->
              LET declared == Declare(Require(t, s[2] \notin t.known), s[2])
                  first == Value(declared, s[3])
                  n == first.number["for"]
                  begun == Emit(NewNumber(first, "for"), BeginFor(s[2], n))
                  bound == Value(begun, s[4])
                  tested == NewLabel(Emit(bound, ForTest(s[2], n, bound.label)))
              IN Leave(Emit(Block(tested, s[5]), EndFor(s[2], n)), t)

-----------------------------------------------------------------------------
(* The function, and the program around it.                                *)

\* The symbol table holds the last parameter first; so do the two loops over
\* it.  The return address is at sp, the last argument below.
LastFirst(params) == Reverse(params)
ArgumentBelowReturn(i) == 2 * (i + 1)
LoadArgumentMovingSp(x, i) ==
    << Number(bx, ArgumentBelowReturn(i)), <<"sub", ID_SP, bx>>,
       <<"loadw", ax, ID_SP>> >> \o StoreVariable(x)
LoadArgument(x, i) ==
    << <<"cp", cx, ID_SP>>, Number(bx, ArgumentBelowReturn(i)), <<"sub", cx, bx>>,
       <<"loadw", ax, cx>> >> \o StoreVariable(x)

Translation(a) ==
    LET names == LastFirst(a.params)
        declared == FoldLeft(LAMBDA t, x : Emit(t, Declaration(x)),
                             Start(a), names)
        loads == [i \in DOMAIN names |-> LoadArgument(names[i], i - 1)]
        entered == Emit(Emit(declared, << Label(<<a.name>>) >>),
                        FlattenSeq(loads))
    IN FoldLeft(LAMBDA t, s : Statement(a, t, s), entered, a.body)

\* main of run: the arguments are const lines, pushed in their order.
Prologue ==
    << Label(<<"debut">>), Address(ID_BP, <<"pile">>), Address(ID_SP, <<"pile">>),
       Number(ax, 2), <<"sub", ID_SP, ax>> >>
PushArguments(args) ==
    FlattenSeq([i \in DOMAIN args |-> << Number(ax, args[i]), <<"push", ax>> >>])
Epilogue ==
    << <<"push", ax>>, <<"cp", ax, ID_SP>>, <<"callprintfd", ax>>, <<"pop", ax>>,
       <<"end">> >>
Main(a, args) ==
    << Address(ax, <<"debut">>), <<"jmp", ax>> >> \o Translation(a).code
    \o Prologue \o PushArguments(args)
    \o << Address(bx, <<a.name>>), <<"call", bx>> >>
    \o PopArguments(Len(args)) \o Epilogue

-----------------------------------------------------------------------------
(* The labels, as asipro resolves them (analyse.c).                        *)

IsLabel(line) == line[1] = "label"
Defined(lines) == {lines[i][2] : i \in {j \in DOMAIN lines : IsLabel(lines[j])}}
Used(lines) == {lines[i][3] : i \in {j \in DOMAIN lines : lines[j][1] = "address"}}

\* addSymbole refuses a label defined twice, const_f one without a value.
Assembles(lines) ==
    /\ Cardinality(Defined(lines)) = Cardinality({i \in DOMAIN lines : IsLabel(lines[i])})
    /\ <<"pile">> \notin Defined(lines)
    /\ Used(lines) \subseteq Defined(lines) \cup {<<"pile">>}

\* SiproCode numbers the lines that leave bytes: a label is the number of the
\* first of them behind it, and pile is behind them all.
Assembled(lines) ==
    LET Leaves(i) == ~IsLabel(lines[i])
        Rank(i) == Cardinality({j \in 1..(i - 1) : Leaves(j)}) + 1
        rank == [l \in Defined(lines) |->
                    Rank(CHOOSE i \in DOMAIN lines : lines[i] = Label(l))]
                @@ (<<"pile">> :> Rank(Len(lines) + 1))
        bytes == SelectSeq(lines, LAMBDA line : ~IsLabel(line))
    IN [i \in DOMAIN bytes |->
            IF bytes[i][1] = "address"
            THEN <<"address", bytes[i][2], rank[bytes[i][3]]>> ELSE bytes[i]]
=============================================================================
