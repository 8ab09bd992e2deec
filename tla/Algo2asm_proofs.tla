-------------------------- MODULE Algo2asm_proofs ---------------------------
(***************************************************************************)
(* Theorems about Algo2asm for every value of its constants: the stack of  *)
(* the program it writes is balanced, and which entries the symbol table   *)
(* holds and which ones a block frees.                                     *)
(***************************************************************************)
EXTENDS Algo2asm, Integers, TLAPS, SequenceTheorems, FiniteSetTheorems

-----------------------------------------------------------------------------
(* The stack of constructs. *)

\* An argument list is open inside an expression only, and the expression of
\* a statement starts when no other operand is on the stack.
Shape(c) ==
    \A i \in 1..Len(c) :
        /\ c[i].k = "arg" => i < Len(c) /\ c[i + 1].k \in ExprFrames
        /\ c[i].k \in ExprFrames \ {"arg"} => c[i].base = 0

Nested(c) == c \in Seq(Frame) /\ Shape(c)

\* The head of a sequence that has a length is its first element.
LEMMA FirstOfSeq ==
    ASSUME NEW s \in Seq(Frame), Len(s) >= 1
    PROVE  s # <<>> /\ Head(s) = s[1]
OBVIOUS

\* Opening a construct where it is allowed keeps the stack well nested.
LEMMA PushNested ==
    ASSUME NEW c, Nested(c), NEW f \in Frame,
           f.k = "arg" => c # <<>> /\ Head(c).k \in ExprFrames,
           f.k \in ExprFrames \ {"arg"} => f.base = 0
    PROVE  /\ Nested(Push(f, c))
           /\ Push(f, c) # <<>>
           /\ Head(Push(f, c)) = f
           /\ Tail(Push(f, c)) = c
<1> DEFINE d == Push(f, c)
<1>1. c \in Seq(Frame) /\ <<f>> \in Seq(Frame) /\ Len(<<f>>) = 1
  BY DEF Nested
<1>2. /\ d \in Seq(Frame)
      /\ Len(d) = Len(c) + 1
      /\ d[1] = f
      /\ \A i \in 1..Len(c) : d[i + 1] = c[i]
  <2>1. /\ d \in Seq(Frame)
        /\ Len(d) = Len(<<f>>) + Len(c)
        /\ \A i \in 1..(Len(<<f>>) + Len(c)) :
              d[i] = IF i <= Len(<<f>>) THEN <<f>>[i] ELSE c[i - Len(<<f>>)]
    BY <1>1, ConcatProperties DEF Push
  <2> QED
    BY <1>1, <2>1
<1>3. d # <<>> /\ Head(d) = f
  BY <1>2
<1>4. Tail(d) = c
  <2>1. /\ Tail(d) \in Seq(Frame)
        /\ Len(Tail(d)) = Len(c)
        /\ \A i \in 1..Len(c) : Tail(d)[i] = d[i + 1]
    BY <1>1, <1>2, <1>3, HeadTailProperties
  <2> QED
    BY <1>1, <1>2, <2>1, SeqEqual
<1>5. Shape(d)
  <2> SUFFICES ASSUME NEW i \in 1..Len(d)
               PROVE  /\ d[i].k = "arg" => i < Len(d) /\ d[i + 1].k \in ExprFrames
                      /\ d[i].k \in ExprFrames \ {"arg"} => d[i].base = 0
    BY DEF Shape
  <2>1. CASE i = 1
    <3>1. c # <<>> => 1 \in 1..Len(c) /\ Head(c) = c[1]
      BY <1>1
    <3> QED
      BY <1>1, <1>2, <2>1, <3>1
  <2>2. CASE i > 1
    <3>1. i - 1 \in 1..Len(c) /\ d[i] = c[i - 1]
      BY <1>1, <1>2, <2>2
    <3>2. /\ c[i - 1].k = "arg" => i - 1 < Len(c) /\ c[i].k \in ExprFrames
          /\ c[i - 1].k \in ExprFrames \ {"arg"} => c[i - 1].base = 0
      <4>1. (i - 1) + 1 = i
        OBVIOUS
      <4> QED
        BY <3>1, <4>1 DEF Nested, Shape
    <3> QED
      BY <1>1, <1>2, <3>1, <3>2
  <2> QED
    BY <1>1, <1>2, <2>1, <2>2
<1> QED
  BY <1>2, <1>3, <1>4, <1>5 DEF Nested

\* Closing a construct keeps the rest well nested.
LEMMA PopNested ==
    ASSUME NEW c, Nested(c), c # <<>>
    PROVE  /\ Head(c) \in Frame
           /\ Nested(Tail(c))
           /\ Head(c).k = "arg" =>
                Tail(c) # <<>> /\ Head(Tail(c)).k \in ExprFrames
           /\ Head(c).k \in ExprFrames \ {"arg"} => Head(c).base = 0
<1>1. /\ Head(c) \in Frame
      /\ Tail(c) \in Seq(Frame)
      /\ Len(Tail(c)) = Len(c) - 1
      /\ \A i \in 1..Len(Tail(c)) : Tail(c)[i] = c[i + 1]
  BY HeadTailProperties DEF Nested
<1>2. Len(c) \in Nat /\ 1 \in 1..Len(c) /\ Head(c) = c[1]
  BY DEF Nested
<1>3. Shape(Tail(c))
  <2> SUFFICES ASSUME NEW i \in 1..Len(Tail(c))
               PROVE  /\ Tail(c)[i].k = "arg" =>
                           i < Len(Tail(c)) /\ Tail(c)[i + 1].k \in ExprFrames
                      /\ Tail(c)[i].k \in ExprFrames \ {"arg"} =>
                           Tail(c)[i].base = 0
    BY DEF Shape
  <2>1. i + 1 \in 1..Len(c)
    BY <1>1, <1>2
  <2>2. /\ c[i + 1].k = "arg" =>
             i + 1 < Len(c) /\ c[(i + 1) + 1].k \in ExprFrames
        /\ c[i + 1].k \in ExprFrames \ {"arg"} => c[i + 1].base = 0
    BY <2>1 DEF Nested, Shape
  <2> QED
    BY <1>1, <1>2, <2>1, <2>2
<1>4. Head(c).k = "arg" => Tail(c) # <<>> /\ Head(Tail(c)).k \in ExprFrames
  <2> SUFFICES ASSUME Head(c).k = "arg"
               PROVE  Tail(c) # <<>> /\ Head(Tail(c)).k \in ExprFrames
    OBVIOUS
  <2>1. 1 < Len(c) /\ c[1 + 1].k \in ExprFrames
    BY <1>2 DEF Nested, Shape
  <2>2. Len(Tail(c)) >= 1 /\ Tail(c)[1] = c[1 + 1]
    BY <1>1, <1>2, <2>1
  <2>3. Tail(c) # <<>> /\ Head(Tail(c)) = Tail(c)[1]
    BY <1>1, <2>2, FirstOfSeq
  <2> QED
    BY <2>1, <2>2, <2>3
<1>5. Head(c).k \in ExprFrames \ {"arg"} => Head(c).base = 0
  BY <1>2 DEF Nested, Shape
<1> QED
  BY <1>1, <1>3, <1>4, <1>5 DEF Nested
-----------------------------------------------------------------------------
(* The run-time stack is balanced.                                         *)
(*                                                                         *)
(* StackBalance alone is not inductive: inside an expression the depth     *)
(* depends on how many operands and arguments wait.  The invariant says    *)
(* how: depth = pending + count_args, no operand waits between statements, *)
(* and no argument is counted outside an argument list.  The counter       *)
(* count_args cannot wrap, because the words it counts are on the stack    *)
(* and the stack holds fewer than CountModulus words.                      *)

StmtsTyped ==
    stmts \in [Stmts -> [stack : [0..(MaxNest - 1) -> Nat],
                         index : Int, number : Nat]]

BalanceInv ==
    /\ StmtsTyped
    /\ Nested(ctx)
    /\ pending \in Nat
    /\ depth \in Nat
    /\ count_args \in Nat
    /\ depth = pending + count_args
    /\ depth =< MaxDepth
    /\ ctx = <<>> \/ Head(ctx).k \notin ExprFrames => pending = 0
    /\ ctx = <<>> \/ Head(ctx).k # "arg" => count_args = 0

\* The arrays of stmts keep their types whatever the actions write in them.
LEMMA StmtsTypedStep ==
    ASSUME StmtsTyped, [Next]_vars
    PROVE  StmtsTyped'
<1>1. ASSUME NEW s \in Stmts, NEW i \in {0, 1}, Take(s, i)
      PROVE  StmtsTyped'
  BY <1>1 DEF StmtsTyped, Take, Number
<1>2. ASSUME NEW s \in Stmts, stmts' = [stmts EXCEPT ![s].index = @ + 1]
      PROVE  StmtsTyped'
  <2>1. stmts[s].index + 1 \in Int
    BY DEF StmtsTyped
  <2> QED
    BY <1>2, <2>1 DEF StmtsTyped
<1>3. ASSUME NEW s \in Stmts, stmts' = [stmts EXCEPT ![s].index = @ - 1]
      PROVE  StmtsTyped'
  <2>1. stmts[s].index - 1 \in Int
    BY DEF StmtsTyped
  <2> QED
    BY <1>3, <2>1 DEF StmtsTyped
<1>4. ASSUME UNCHANGED stmts
      PROVE  StmtsTyped'
  BY <1>4 DEF StmtsTyped
<1>5. CASE FunctionRule
  BY <1>4, <1>5 DEF FunctionRule, BeginPackage, EndPackage, FunctionName,
     Parameter, ParamsEnd, CloseBlock, FreeParameters, EndOfFile, SyntaxError,
     Stop
<1>6. CASE Statement
  <2>1. CASE BeginIf
    BY <1>1, <2>1 DEF BeginIf, Stmts
  <2>2. CASE Fi \/ EndWhile \/ EndFor
    BY <1>3, <2>2 DEF Fi, EndWhile, EndFor, Stmts
  <2>3. CASE WhileStart \/ ForInit
    BY <1>1, <2>3 DEF WhileStart, ForInit, Stmts
  <2>4. CASE ForBound
    BY <1>2, <1>4, <2>4 DEF ForBound, Stop, Stmts
  <2>5. CASE \/ \E x \in Names : SetStart(x) \/ Step(x) \/ ForName(x)
             \/ ReturnStart \/ IfStart \/ Set \/ Return
             \/ EndIf \/ Else \/ WhileCondition
    BY <1>4, <2>5 DEF SetStart, Step, ForName, ReturnStart, IfStart, Set,
       Return, EndIf, Else, WhileCondition, OpenExpression, Stop
  <2> QED
    BY <1>6, <2>1, <2>2, <2>3, <2>4, <2>5 DEF Statement
<1>7. CASE Expression
  BY <1>4, <1>7 DEF Expression, Identifier, CallStart, Branching, Constant,
     Arithmetic, Argument, Call, Stop
<1>8. CASE Ended \/ UNCHANGED vars
  BY <1>4, <1>8 DEF Ended, vars
<1> QED
  BY <1>5, <1>6, <1>7, <1>8 DEF Next

\* What the current stack of constructs offers to every action.
LEMMA TopFacts ==
    ASSUME BalanceInv, ctx # <<>>
    PROVE  /\ Top \in Frame
           /\ Nested(Tail(ctx))
           /\ Top.k = "arg" => Tail(ctx) # <<>> /\ Head(Tail(ctx)).k \in ExprFrames
           /\ Top.k \in ExprFrames \ {"arg"} => Top.base = 0
BY PopNested DEF BalanceInv, Top

\* A construct that is no expression may stand on any stack.
LEMMA PushPlain ==
    ASSUME NEW c, Nested(c), NEW f \in Frame, f.k \notin ExprFrames
    PROVE  /\ Nested(Push(f, c)) /\ Push(f, c) # <<>>
           /\ Head(Push(f, c)) = f /\ Tail(Push(f, c)) = c
BY PushNested DEF ExprFrames

\* The current block, marked as holding a statement.
LEMMA EnclosingNested ==
    ASSUME BalanceInv, In("block")
    PROVE  /\ Nested(Enclosing) /\ Enclosing # <<>>
           /\ Head(Enclosing).k = "block"
<1>1. Top \in Frame /\ Nested(Tail(ctx)) /\ Top.k = "block"
  BY TopFacts DEF In
<1>2. [Top EXCEPT !.n = 1] \in Frame /\ [Top EXCEPT !.n = 1].k = "block"
  BY <1>1 DEF Frame
<1> QED
  BY <1>1, <1>2, PushPlain DEF Enclosing, ExprFrames

\* Between statements nothing waits and no argument is counted.
LEMMA StatementFacts ==
    ASSUME BalanceInv, ctx # <<>>, Top.k \notin ExprFrames
    PROVE  pending = 0 /\ count_args = 0 /\ depth = 0
BY DEF BalanceInv, Top, ExprFrames

\* The expression of a statement leaves nothing behind when it is popped.
LEMMA PopValueFacts ==
    ASSUME BalanceInv, NEW k \in ExprFrames \ {"arg"}, ExprDone(k), PopValue
    PROVE  pending' = 0 /\ count_args = 0 /\ depth' = 0
<1>1. Top.base = 0 /\ pending = 1 /\ Top.k # "arg"
  BY TopFacts DEF ExprDone, In
<1>2. count_args = 0
  BY <1>1 DEF BalanceInv, ExprDone, In, Top
<1> QED
  BY <1>1, <1>2 DEF BalanceInv, PopValue

\* A block opens over the construct that owns it.
LEMMA OpenBlockNested ==
    ASSUME BalanceInv, ctx # <<>>, NEW k \in {"then", "else", "do", "for"},
           NEW n \in Nat, OpenBlock(k, n)
    PROVE  Nested(ctx') /\ ctx' # <<>> /\ Head(ctx').k = "block"
<1> DEFINE f == [Top EXCEPT !.k = k, !.n = n]
           b == [k |-> "block", base |-> 0, name |-> NoName, n |-> 0]
<1>1. f \in Frame /\ f.k = k /\ Nested(Tail(ctx))
  BY TopFacts DEF Frame, FrameKinds
<1>2. Nested(Push(f, Tail(ctx)))
  BY <1>1, PushPlain DEF ExprFrames
<1>3. b \in Frame /\ b.k = "block"
  BY DEF Frame, FrameKinds
<1>4. ctx' = Push(b, Push(f, Tail(ctx)))
  BY DEF OpenBlock
<1> HIDE DEF f, b
<1> QED
  BY <1>2, <1>3, <1>4, PushPlain DEF ExprFrames

\* When no construct is left, or one that is no expression, with nothing
\* pending, the invariant is re-established.
LEMMA AtStatement ==
    ASSUME BalanceInv, StmtsTyped', Nested(ctx'),
           pending' = 0, depth' = 0, count_args' = 0
    PROVE  BalanceInv'
BY ConstantsAssumption DEF BalanceInv
\* Steps that leave the stacks alone.
LEMMA BalanceUnchanged ==
    ASSUME BalanceInv, StmtsTyped', UNCHANGED <<ctx, pending, depth, count_args>>
    PROVE  BalanceInv'
BY DEF BalanceInv, Nested, Shape

LEMMA FunctionRuleBalance ==
    ASSUME BalanceInv, StmtsTyped', FunctionRule
    PROVE  BalanceInv'
<1> DEFINE Same == UNCHANGED <<pending, depth, count_args>>
<1>1. ASSUME ctx # <<>>, Top.k \notin ExprFrames, Same, Nested(ctx')
      PROVE  BalanceInv'
  BY <1>1, StatementFacts, AtStatement
<1>2. ASSUME NEW s, Stop(s)
      PROVE  BalanceInv'
  BY <1>2, BalanceUnchanged DEF Stop
<1>3. ASSUME NEW p \in Packages, BeginPackage(p)
      PROVE  BalanceInv'
  <2>1. CASE Stop("aborted")
    BY <1>2, <2>1
  <2>2. CASE ctx' = Push(NewFrame("begun", NoName, 0), ctx) /\ Same
    <3>1. NewFrame("begun", NoName, 0) \in Frame
      BY DEF NewFrame, Frame, FrameKinds, BalanceInv
    <3>2. Nested(ctx')
      BY <2>2, <3>1, PushPlain DEF NewFrame, ExprFrames, BalanceInv
    <3>3. pending = 0 /\ depth = 0 /\ count_args = 0
      BY <1>3 DEF BeginPackage, BalanceInv
    <3> QED
      BY <2>2, <3>2, <3>3, AtStatement
  <2> QED
    BY <1>3, <2>1, <2>2 DEF BeginPackage
<1>4. ASSUME NEW p \in Packages, EndPackage(p)
      PROVE  BalanceInv'
  <2>1. ctx # <<>> /\ Top.k = "end"
    BY <1>4 DEF EndPackage, In
  <2>2. CASE ctx' = Tail(ctx) /\ Same
    BY <1>1, <2>1, <2>2, TopFacts DEF ExprFrames
  <2>3. CASE \E t \in Statuses : Stop(t)
    BY <1>2, <2>3
  <2> QED
    BY <1>4, <2>2, <2>3 DEF EndPackage, Statuses
<1>5. ASSUME NEW x \in Names, FunctionName(x)
      PROVE  BalanceInv'
  <2>1. ctx # <<>> /\ Top.k = "begun"
    BY <1>5 DEF FunctionName, In
  <2>2. CASE ctx' = Push(NewFrame("params", x, 0), Tail(ctx)) /\ Same
    <3>1. NewFrame("params", x, 0) \in Frame
      BY DEF NewFrame, Frame, FrameKinds, BalanceInv
    <3>2. Nested(ctx')
      BY <2>1, <2>2, <3>1, PushPlain, TopFacts DEF NewFrame, ExprFrames
    <3> QED
      BY <1>1, <2>1, <2>2, <3>2 DEF ExprFrames
  <2>3. CASE Stop("aborted")
    BY <1>2, <2>3
  <2> QED
    BY <1>5, <2>2, <2>3 DEF FunctionName
<1>6. ASSUME NEW x \in Names, Parameter(x)
      PROVE  BalanceInv'
  <2>1. Stop("aborted") \/ (Same /\ UNCHANGED ctx)
    BY <1>6 DEF Parameter
  <2> QED
    BY <1>2, <2>1, BalanceUnchanged
<1>7. CASE ParamsEnd
  <2>1. ctx # <<>> /\ Top.k = "params"
    BY <1>7 DEF ParamsEnd, In
  <2>2. CASE /\ ctx' = Push(NewFrame("block", NoName, 0),
                            Push(NewFrame("body", FileName, 0), Tail(ctx)))
             /\ Same
    <3>1. /\ NewFrame("block", NoName, 0) \in Frame
          /\ NewFrame("body", FileName, 0) \in Frame
      BY ConstantsAssumption DEF NewFrame, Frame, FrameKinds, BalanceInv
    <3>2. Nested(Push(NewFrame("body", FileName, 0), Tail(ctx)))
      BY <2>1, <3>1, PushPlain, TopFacts DEF NewFrame, ExprFrames
    <3>3. Nested(ctx')
      BY <2>2, <3>1, <3>2, PushPlain DEF NewFrame, ExprFrames
    <3> QED
      BY <1>1, <2>1, <2>2, <3>3 DEF ExprFrames
  <2>3. CASE Stop("crashed")
    BY <1>2, <2>3
  <2> QED
    BY <1>7, <2>2, <2>3 DEF ParamsEnd
<1>8. CASE CloseBlock
  <2>1. ctx # <<>> /\ Top.k = "block" /\ ctx' = Tail(ctx) /\ Same
    BY <1>8 DEF CloseBlock, In
  <2> QED
    BY <1>1, <2>1, TopFacts DEF ExprFrames
<1>9. CASE FreeParameters
  <2>1. /\ ctx # <<>> /\ Top.k = "body" /\ Same
        /\ ctx' = Push([Top EXCEPT !.k = "end"], Tail(ctx))
    BY <1>9 DEF FreeParameters, In
  <2>2. [Top EXCEPT !.k = "end"] \in Frame /\ [Top EXCEPT !.k = "end"].k = "end"
    BY <2>1, TopFacts DEF Frame, FrameKinds
  <2>3. Nested(ctx')
    BY <2>1, <2>2, PushPlain, TopFacts DEF ExprFrames
  <2> QED
    BY <1>1, <2>1, <2>3 DEF ExprFrames
<1>10. CASE EndOfFile \/ SyntaxError
  BY <1>2, <1>10, BalanceUnchanged DEF EndOfFile, SyntaxError
<1> QED
  BY <1>3, <1>4, <1>5, <1>6, <1>7, <1>8, <1>9, <1>10 DEF FunctionRule
LEMMA StatementBalance ==
    ASSUME BalanceInv, StmtsTyped', Statement
    PROVE  BalanceInv'
<1> DEFINE Same == UNCHANGED <<pending, depth, count_args>>
<1>1. ASSUME ctx # <<>>, Top.k \notin ExprFrames, Same, Nested(ctx')
      PROVE  BalanceInv'
  BY <1>1, StatementFacts, AtStatement
<1>2. ASSUME NEW s, Stop(s)
      PROVE  BalanceInv'
  BY <1>2, BalanceUnchanged DEF Stop
<1>3. \A s \in Stmts : Number(s) \in Nat
  BY DEF BalanceInv, StmtsTyped, Number
<1>4. ASSUME NEW k \in ExprFrames \ {"arg"}, NEW x \in Names \cup {NoName},
             NEW n \in Nat, In("block"), Same,
             ctx' = Push(NewFrame(k, x, n), Enclosing)
      PROVE  BalanceInv'
  <2>1. pending = 0
    BY <1>4, StatementFacts DEF In, ExprFrames
  <2>2. NewFrame(k, x, n) \in Frame
    BY DEF NewFrame, Frame, FrameKinds, BalanceInv
  <2>3. NewFrame(k, x, n).k = k /\ NewFrame(k, x, n).base = 0
    BY <2>1 DEF NewFrame
  <2>4. Nested(ctx')
    BY <1>4, <2>2, <2>3, EnclosingNested, PushNested
  <2> QED
    BY <1>1, <1>4, <2>4 DEF In, ExprFrames
<1>5. ASSUME NEW k \in ExprFrames \ {"arg"}, ExprDone(k), PopValue,
             UNCHANGED count_args, Nested(ctx')
      PROVE  BalanceInv'
  BY <1>5, PopValueFacts, AtStatement
<1>6. ASSUME NEW k \in ExprFrames \ {"arg"}, ExprDone(k)
      PROVE  ctx # <<>> /\ Nested(Tail(ctx)) /\ Top \in Frame
  BY <1>6, TopFacts DEF ExprDone, In
<1>7. ASSUME NEW x \in Names, SetStart(x) \/ ForName(x)
      PROVE  BalanceInv'
  BY <1>2, <1>4, <1>7 DEF SetStart, ForName, OpenExpression, ExprFrames
<1>8. CASE ReturnStart \/ IfStart
  BY <1>4, <1>8 DEF ReturnStart, IfStart, OpenExpression, ExprFrames
<1>9. CASE WhileStart
  BY <1>3, <1>4, <1>9 DEF WhileStart, ExprFrames, Stmts
<1>10. ASSUME NEW x \in Names, Step(x)
       PROVE  BalanceInv'
  <2>1. Stop("aborted") \/ (In("block") /\ ctx' = Enclosing /\ Same)
    BY <1>10 DEF Step
  <2> QED
    BY <1>1, <1>2, <2>1, EnclosingNested DEF In, ExprFrames
<1>11. CASE Set
  BY <1>5, <1>6, <1>11 DEF Set, ExprFrames
<1>12. CASE Return
  BY <1>5, <1>6, <1>12 DEF Return, ExprFrames
<1>13. CASE BeginIf
  <2>1. ExprDone("if") /\ PopValue /\ UNCHANGED count_args
        /\ OpenBlock("then", Number("if"))
    BY <1>13 DEF BeginIf
  <2>2. Nested(ctx')
    BY <1>3, <1>6, <2>1, OpenBlockNested DEF Stmts, ExprFrames
  <2> QED
    BY <1>5, <2>1, <2>2 DEF ExprFrames
<1>14. CASE EndIf
  <2>1. /\ ctx # <<>> /\ Top.k = "then" /\ Same
        /\ ctx' = Push([Top EXCEPT !.k = "thenEnd"], Tail(ctx))
    BY <1>14 DEF EndIf, In
  <2>2. [Top EXCEPT !.k = "thenEnd"] \in Frame
        /\ [Top EXCEPT !.k = "thenEnd"].k = "thenEnd"
    BY <2>1, TopFacts DEF Frame, FrameKinds
  <2>3. Nested(ctx')
    BY <2>1, <2>2, PushPlain, TopFacts DEF ExprFrames
  <2> QED
    BY <1>1, <2>1, <2>3 DEF ExprFrames
<1>15. CASE Else
  <2>1. ctx # <<>> /\ Top.k = "thenEnd" /\ Same /\ OpenBlock("else", Top.n)
    BY <1>15 DEF Else, In
  <2>2. Top.n \in Nat
    BY <2>1, TopFacts DEF Frame
  <2>3. Nested(ctx')
    BY <2>1, <2>2, OpenBlockNested
  <2> QED
    BY <1>1, <2>1, <2>3 DEF ExprFrames
<1>16. CASE Fi \/ EndWhile \/ EndFor
  <2>1. /\ ctx # <<>> /\ Top.k \in {"thenEnd", "else", "do", "for"}
        /\ ctx' = Tail(ctx) /\ Same
    BY <1>16 DEF Fi, EndWhile, EndFor, In
  <2> QED
    BY <1>1, <2>1, TopFacts DEF ExprFrames
<1>17. CASE WhileCondition
  <2>1. ExprDone("while") /\ PopValue /\ UNCHANGED count_args
        /\ OpenBlock("do", Top.n)
    BY <1>17 DEF WhileCondition
  <2>2. ctx # <<>> /\ Top.n \in Nat
    BY <1>6, <2>1 DEF Frame, ExprFrames
  <2>3. Nested(ctx')
    BY <2>1, <2>2, OpenBlockNested
  <2> QED
    BY <1>5, <2>1, <2>3 DEF ExprFrames
<1>18. CASE ForInit
  <2> DEFINE f == [Top EXCEPT !.k = "forbound", !.n = Number("for")]
  <2>1. ExprDone("forinit") /\ PopValue /\ UNCHANGED count_args
        /\ ctx' = Push(f, Tail(ctx))
    BY <1>18 DEF ForInit
  <2>2. Top \in Frame /\ Nested(Tail(ctx)) /\ Top.base = 0
    BY <2>1, TopFacts DEF ExprDone, In, ExprFrames
  <2>3. f \in Frame /\ f.k = "forbound" /\ f.base = 0
    BY <1>3, <2>2 DEF Frame, FrameKinds, ExprFrames, Stmts
  <2>4. Nested(ctx')
    <3> HIDE DEF f
    <3> QED
      BY <2>1, <2>2, <2>3, PushNested
  <2> QED
    BY <1>5, <2>1, <2>4 DEF ExprFrames
<1>19. CASE ForBound
  <2>1. CASE Stop("aborted")
    BY <1>2, <2>1
  <2>2. CASE /\ ExprDone("forbound") /\ PopValue /\ UNCHANGED count_args
             /\ OpenBlock("for", Top.n)
    <3>1. ctx # <<>> /\ Top.n \in Nat
      BY <1>6, <2>2 DEF Frame, ExprFrames
    <3>2. Nested(ctx')
      BY <2>2, <3>1, OpenBlockNested
    <3> QED
      BY <1>5, <2>2, <3>2 DEF ExprFrames
  <2> QED
    BY <1>19, <2>1, <2>2 DEF ForBound
<1> QED
  BY <1>7, <1>8, <1>9, <1>10, <1>11, <1>12, <1>13, <1>14, <1>15, <1>16, <1>17,
     <1>18, <1>19 DEF Statement
LEMMA ExpressionBalance ==
    ASSUME MaxDepth < CountModulus, BalanceInv, StmtsTyped', Expression
    PROVE  BalanceInv'
<1>1. ASSUME NEW s, Stop(s)
      PROVE  BalanceInv'
  BY <1>1, BalanceUnchanged DEF Stop
<1>2. MaxDepth \in Nat /\ CountModulus \in Nat
  BY ConstantsAssumption
<1>3. ASSUME InExpr, PushValue, UNCHANGED <<ctx, count_args>>
      PROVE  BalanceInv'
  BY <1>2, <1>3 DEF InExpr, PushValue, BalanceInv, Nested, Shape, Top
<1>4. ASSUME InExpr, Operands >= 2, PopValue, UNCHANGED <<ctx, count_args>>
      PROVE  BalanceInv'
  <2>1. pending >= 2
    <3>1. Top.base \in Nat
      BY <1>4, TopFacts DEF InExpr, Frame
    <3> QED
      BY <1>4, <3>1 DEF Operands, BalanceInv
  <2> QED
    BY <1>2, <1>4, <2>1 DEF InExpr, PopValue, BalanceInv, Nested, Shape, Top
<1>5. CASE Constant
  BY <1>3, <1>5 DEF Constant
<1>6. ASSUME NEW x \in Names, Identifier(x)
      PROVE  BalanceInv'
  BY <1>1, <1>3, <1>6 DEF Identifier
<1>7. CASE Arithmetic
  BY <1>4, <1>7 DEF Arithmetic
<1>8. ASSUME NEW op \in Operators, Branching(op)
      PROVE  BalanceInv'
  <2>1. CASE Stop("aborted")
    BY <1>1, <2>1
  <2>2. CASE InExpr /\ Operands >= 2 /\ PopValue /\ UNCHANGED <<ctx, count_args>>
    BY <1>4, <2>2
  <2>3. CASE UNCHANGED <<ctx, pending, depth, count_args>>
    BY <2>3, BalanceUnchanged
  <2> QED
    BY <1>8, <2>1, <2>2, <2>3 DEF Branching
<1>9. ASSUME NEW x \in Names, CallStart(x)
      PROVE  BalanceInv'
  <2>1. /\ ctx # <<>> /\ Top.k \in ExprFrames
        /\ ctx' = Push(NewFrame("arg", x, 0), ctx)
        /\ UNCHANGED <<pending, depth, count_args>>
    BY <1>9 DEF CallStart, InExpr
  <2>2. NewFrame("arg", x, 0) \in Frame /\ NewFrame("arg", x, 0).k = "arg"
    BY DEF NewFrame, Frame, FrameKinds, ExprFrames, BalanceInv
  <2>3. /\ Nested(ctx') /\ ctx' # <<>> /\ Head(ctx').k = "arg"
    BY <2>1, <2>2, PushNested DEF BalanceInv, Top
  <2> QED
    BY <2>1, <2>3 DEF BalanceInv, ExprFrames
<1>10. CASE Argument
  <2> DEFINE f == [Top EXCEPT !.n = @ + 1]
  <2>1. /\ ctx # <<>> /\ Top.k = "arg" /\ pending = Top.base + 1
        /\ ctx' = Push(f, Tail(ctx))
        /\ count_args' = (count_args + 1) % CountModulus
        /\ pending' = pending - 1
        /\ UNCHANGED depth
    BY <1>10 DEF Argument, ExprDone, In
  <2>2. f \in Frame /\ f.k = "arg"
    BY <2>1, TopFacts DEF Frame
  <2>3. /\ Nested(ctx') /\ ctx' # <<>> /\ Head(ctx').k = "arg"
    <3> HIDE DEF f
    <3> QED
      BY <2>1, <2>2, TopFacts, PushNested
  <2>4. Top.base \in Nat
    BY <2>1, TopFacts DEF Frame
  <2>5. count_args' = count_args + 1
    <3>1. count_args \in Nat /\ count_args + 1 < CountModulus
      BY <1>2, <2>1, <2>4 DEF BalanceInv
    <3>2. (count_args + 1) % CountModulus = count_args + 1
      BY <1>2, <3>1
    <3> QED
      BY <2>1, <3>2
  <2> QED
    BY <2>1, <2>3, <2>4, <2>5 DEF BalanceInv, ExprFrames
<1>11. CASE Call
  <2>1. CASE Stop("refused")
    BY <1>1, <2>1
  <2>2. CASE ~Stop("refused")
    <3> DEFINE n == search_symbol_table(FileName).nParams
    <3>1. /\ ctx # <<>> /\ Top.k = "arg" /\ count_args = n
          /\ depth - n < MaxDepth
          /\ count_args' = 0
          /\ pending' = pending + 1
          /\ depth' = (depth - n) + 1
          /\ ctx' = Tail(ctx)
      BY <1>11, <2>2 DEF Call, In, ResetCount, ArgumentsReplaced
    <3>2. Nested(ctx') /\ ctx' # <<>> /\ Head(ctx').k \in ExprFrames
      BY <3>1, TopFacts
    <3> HIDE DEF n
    <3> QED
      BY <1>2, <3>1, <3>2 DEF BalanceInv
  <2> QED
    BY <2>1, <2>2
<1> QED
  BY <1>5, <1>6, <1>7, <1>8, <1>9, <1>10, <1>11 DEF Expression

\* The invariant holds initially and every step of the compiler keeps it.
THEOREM BalanceInvariant ==
    ASSUME MaxDepth < CountModulus
    PROVE  Spec => []BalanceInv
<1>1. Init => BalanceInv
  <2> SUFFICES ASSUME Init PROVE BalanceInv
    OBVIOUS
  <2>1. StmtsTyped
    BY DEF Init, StmtsTyped
  <2>2. Nested(ctx)
    BY DEF Init, Nested, Shape
  <2> QED
    BY <2>1, <2>2, ConstantsAssumption DEF Init, BalanceInv
<1>2. BalanceInv /\ [Next]_vars => BalanceInv'
  <2> SUFFICES ASSUME BalanceInv, [Next]_vars PROVE BalanceInv'
    OBVIOUS
  <2>1. StmtsTyped'
    BY StmtsTypedStep DEF BalanceInv
  <2>2. CASE UNCHANGED vars
    BY <2>1, <2>2, BalanceUnchanged DEF vars
  <2>3. CASE Ended
    BY <2>1, <2>3, BalanceUnchanged DEF Ended, vars
  <2> QED
    BY <2>1, <2>2, <2>3, FunctionRuleBalance, StatementBalance,
       ExpressionBalance DEF Next
<1> QED
  BY <1>1, <1>2, PTL DEF Spec

\* Between statements the code written so far leaves the run-time stack as it
\* found it, whatever the program, the arity of its function and the way its
\* calls nest, as long as fewer than CountModulus words wait at once.
THEOREM StackIsBalanced ==
    ASSUME MaxDepth < CountModulus
    PROVE  Spec => []StackBalance
<1>1. BalanceInv => StackBalance
  BY DEF BalanceInv, StackBalance, Top, ExprFrames
<1> QED
  BY <1>1, BalanceInvariant, PTL

\* Inside an expression the words on the stack are the operands not consumed
\* and the arguments the shared counter has counted.
THEOREM DepthIsAccounted ==
    ASSUME MaxDepth < CountModulus
    PROVE  Spec => []DepthAccounted
<1>1. BalanceInv => DepthAccounted
  BY DEF BalanceInv, DepthAccounted
<1> QED
  BY <1>1, BalanceInvariant, PTL

-----------------------------------------------------------------------------
(* Counting frames. *)

\* A count is a natural number, at most the number of frames outside.
LEMMA OutsideType ==
    ASSUME NEW S, NEW c \in Seq(S), NEW K, NEW i \in 0..Len(c)
    PROVE  Outside(K, c, i) \in Nat /\ Outside(K, c, i) =< Len(c) - i
<1> DEFINE P == {j \in (i + 1)..Len(c) : c[j].k \in K}
<1>1. Len(c) \in Nat
  OBVIOUS
<1>2. /\ IsFiniteSet((i + 1)..Len(c))
      /\ Cardinality((i + 1)..Len(c)) =< Len(c) - i
  <2>1. i + 1 \in Int /\ Len(c) \in Int
    BY <1>1
  <2>2. /\ IsFiniteSet((i + 1)..Len(c))
        /\ Cardinality((i + 1)..Len(c)) =
              IF i + 1 > Len(c) THEN 0 ELSE Len(c) - (i + 1) + 1
    BY <2>1, FS_Interval
  <2> QED
    BY <1>1, <2>1, <2>2
<1>3. P \in SUBSET ((i + 1)..Len(c))
  OBVIOUS
<1>4. IsFiniteSet(P) /\ Cardinality(P) =< Cardinality((i + 1)..Len(c))
  BY <1>2, <1>3, FS_Subset
<1>5. Cardinality(P) \in Nat /\ Cardinality((i + 1)..Len(c)) \in Nat
  BY <1>2, <1>4, FS_CardinalityType
<1>6. Outside(K, c, i) = Cardinality(P)
  BY DEF Outside
<1> HIDE DEF P
<1> QED
  BY <1>1, <1>2, <1>4, <1>5, <1>6

\* Stepping over one frame counts it or not.
LEMMA OutsideStep ==
    ASSUME NEW S, NEW c \in Seq(S), NEW K, NEW i \in 1..Len(c)
    PROVE  /\ c[i].k \in K => Outside(K, c, i - 1) = Outside(K, c, i) + 1
           /\ c[i].k \notin K => Outside(K, c, i - 1) = Outside(K, c, i)
<1> DEFINE P(h) == {j \in (h + 1)..Len(c) : c[j].k \in K}
<1>1. Len(c) \in Nat
  OBVIOUS
<1>2. IsFiniteSet(P(i))
  <2>1. IsFiniteSet((i + 1)..Len(c))
    BY <1>1, FS_Interval
  <2> QED
    BY <2>1, FS_Subset
<1>3. c[i].k \in K => P(i - 1) = P(i) \cup {i} /\ i \notin P(i)
  BY <1>1
<1>4. c[i].k \notin K => P(i - 1) = P(i)
  BY <1>1
<1>5. Outside(K, c, i) = Cardinality(P(i)) /\ Outside(K, c, i - 1) = Cardinality(P(i - 1))
  BY DEF Outside
<1> HIDE DEF P
<1>6. CASE c[i].k \in K
  BY <1>2, <1>3, <1>5, <1>6, FS_AddElement
<1>7. CASE c[i].k \notin K
  BY <1>4, <1>5, <1>7
<1> QED
  BY <1>6, <1>7

\* Further out there are no more of them, and fewer behind one of them.
LEMMA OutsideMonotone ==
    ASSUME NEW S, NEW c \in Seq(S), NEW K, NEW i \in 0..Len(c), NEW j \in i..Len(c)
    PROVE  /\ Outside(K, c, j) =< Outside(K, c, i)
           /\ \A b \in (i + 1)..j : c[b].k \in K => Outside(K, c, j) < Outside(K, c, i)
<1>1. Len(c) \in Nat
  OBVIOUS
<1>2. ASSUME NEW a \in 0..Len(c), NEW b \in a..Len(c)
      PROVE  /\ Outside(K, c, b) =< Outside(K, c, a)
             /\ Outside(K, c, b) \in Nat /\ Outside(K, c, a) \in Nat
  <2> DEFINE P(h) == {x \in (h + 1)..Len(c) : c[x].k \in K}
  <2>1. IsFiniteSet(P(a))
    <3>1. IsFiniteSet((a + 1)..Len(c))
      BY <1>1, FS_Interval
    <3> QED
      BY <3>1, FS_Subset
  <2>2. P(b) \in SUBSET P(a)
    BY <1>1
  <2>3. Outside(K, c, a) = Cardinality(P(a)) /\ Outside(K, c, b) = Cardinality(P(b))
    BY DEF Outside
  <2>4. b \in 0..Len(c)
    BY <1>1
  <2> HIDE DEF P
  <2> QED
    BY <2>1, <2>2, <2>3, <2>4, FS_Subset, OutsideType
<1>3. ASSUME NEW b \in (i + 1)..j, c[b].k \in K
      PROVE  Outside(K, c, j) < Outside(K, c, i)
  <2>1. b \in 1..Len(c) /\ b \in 0..Len(c) /\ b - 1 \in 0..Len(c)
        /\ j \in b..Len(c) /\ b - 1 \in i..Len(c)
    BY <1>1
  <2>2. Outside(K, c, b - 1) = Outside(K, c, b) + 1
    BY <1>3, <2>1, OutsideStep
  <2>3. /\ Outside(K, c, j) =< Outside(K, c, b)
        /\ Outside(K, c, j) \in Nat /\ Outside(K, c, b) \in Nat
    BY <1>2, <2>1
  <2>4. /\ Outside(K, c, b - 1) =< Outside(K, c, i)
        /\ Outside(K, c, b - 1) \in Nat /\ Outside(K, c, i) \in Nat
    BY <1>2, <2>1
  <2> QED
    BY <2>2, <2>3, <2>4
<1> QED
  BY <1>2, <1>3

\* One frame more on top: every frame is one further down, with the same
\* frames outside it.
LEMMA OutsideShift ==
    ASSUME NEW S, NEW c \in Seq(S), NEW d \in Seq(S), NEW K,
           Len(d) = Len(c) + 1, \A i \in 1..Len(c) : d[i + 1] = c[i],
           NEW i \in 0..Len(c)
    PROVE  Outside(K, d, i + 1) = Outside(K, c, i)
<1> DEFINE P == {j \in (i + 1)..Len(c) : c[j].k \in K}
           Q == {j \in (i + 2)..Len(d) : d[j].k \in K}
           f == [j \in P |-> j + 1]
<1>1. Len(c) \in Nat
  OBVIOUS
<1>2. IsFiniteSet(P)
  <2>1. IsFiniteSet((i + 1)..Len(c))
    BY <1>1, FS_Interval
  <2> QED
    BY <2>1, FS_Subset
<1>3. f \in [P -> Q]
  <2> SUFFICES ASSUME NEW j \in P PROVE j + 1 \in Q
    OBVIOUS
  <2>1. j \in 1..Len(c)
    BY <1>1
  <2> QED
    BY <1>1, <2>1
<1>4. \A a, b \in P : f[a] = f[b] => a = b
  BY <1>1
<1>5. \A q \in Q : \E a \in P : f[a] = q
  <2> SUFFICES ASSUME NEW q \in Q PROVE \E a \in P : f[a] = q
    OBVIOUS
  <2>1. q - 1 \in 1..Len(c) /\ (q - 1) + 1 = q /\ q - 1 \in (i + 1)..Len(c)
    BY <1>1
  <2>2. q - 1 \in P
    BY <2>1
  <2> QED
    BY <2>1, <2>2
<1>6. f \in Bijection(P, Q)
  BY <1>3, <1>4, <1>5 DEF Bijection, Injection, Surjection, IsInjective
<1>7. Cardinality(P) = Cardinality(Q)
  BY <1>2, <1>6, FS_Bijection DEF ExistsBijection
<1> QED
  <2>1. (i + 1) + 1 = i + 2
    BY <1>1
  <2> QED
    BY <1>7, <2>1 DEF Outside

\* Frames of kinds K at the same places count alike.
LEMMA OutsideSame ==
    ASSUME NEW S, NEW c \in Seq(S), NEW d \in Seq(S), NEW K, NEW i \in 0..Len(c),
           Len(d) = Len(c),
           \A j \in (i + 1)..Len(c) : d[j].k \in K <=> c[j].k \in K
    PROVE  Outside(K, d, i) = Outside(K, c, i)
<1>1. {j \in (i + 1)..Len(d) : d[j].k \in K} = {j \in (i + 1)..Len(c) : c[j].k \in K}
  OBVIOUS
<1> QED
  BY <1>1 DEF Outside

-----------------------------------------------------------------------------
(* The stack of constructs: what stands on what.                           *)

\* A frame of the parser; a \SET knows the name it will enter.
FrameI ==
    {f \in [k : FrameKinds, base : Int, name : Names \cup {NoName}, n : Nat] :
        f.k = "set" => f.name \in Names}

FunctionFrames == {"begun", "params", "body", "end"}
Owners == {"body", "then", "else", "do", "for"}
ForFrames == {"forinit", "forbound", "for"}
Block == {"block"}

\* The kinds of frame on which a frame of kind k stands.
On(k) == CASE k = "block" -> Owners
           [] k = "arg" -> ExprFrames
           [] k \notin {"block", "arg"} -> Block

\* A function's frame is the outermost; only arguments are read inside an
\* expression.
Standing(c) ==
    \A i \in 1..Len(c) :
        /\ c[i].k \in FunctionFrames => i = Len(c)
        /\ c[i].k \notin FunctionFrames => i < Len(c) /\ c[i + 1].k \in On(c[i].k)
        /\ c[i].k \in {"begun", "params", "end"} => i = 1
        /\ c[i].k \in ExprFrames => \A j \in 1..(i - 1) : c[j].k = "arg"

Stack(c) == c \in Seq(FrameI) /\ Standing(c)

\* A frame more, a frame less, another frame on top.
LEMMA PushShape ==
    ASSUME NEW c \in Seq(FrameI), NEW f \in FrameI
    PROVE  /\ Push(f, c) \in Seq(FrameI) /\ Len(Push(f, c)) = Len(c) + 1
           /\ Push(f, c)[1] = f /\ \A i \in 1..Len(c) : Push(f, c)[i + 1] = c[i]
           /\ Push(f, c) # <<>> /\ Head(Push(f, c)) = f
<1>1. <<f>> \in Seq(FrameI) /\ Len(<<f>>) = 1 /\ <<f>>[1] = f /\ Len(c) \in Nat
  OBVIOUS
<1>2. /\ Push(f, c) \in Seq(FrameI)
      /\ Len(Push(f, c)) = Len(<<f>>) + Len(c)
      /\ \A i \in 1..(Len(<<f>>) + Len(c)) :
            Push(f, c)[i] = IF i <= Len(<<f>>) THEN <<f>>[i] ELSE c[i - Len(<<f>>)]
  BY <1>1, ConcatProperties DEF Push
<1> HIDE DEF Push
<1>3. Len(Push(f, c)) = Len(c) + 1 /\ Push(f, c)[1] = f
  BY <1>1, <1>2
<1>4. ASSUME NEW i \in 1..Len(c) PROVE Push(f, c)[i + 1] = c[i]
  BY <1>1, <1>2
<1> QED
  BY <1>1, <1>2, <1>3, <1>4

LEMMA TailShape ==
    ASSUME NEW c \in Seq(FrameI), c # <<>>
    PROVE  /\ Tail(c) \in Seq(FrameI) /\ Len(c) \in Nat /\ Len(c) >= 1
           /\ Len(Tail(c)) = Len(c) - 1
           /\ \A i \in 1..(Len(c) - 1) : Tail(c)[i] = c[i + 1]
           /\ Head(c) = c[1] /\ Head(c) \in FrameI
BY HeadTailProperties

LEMMA SwapShape ==
    ASSUME NEW c \in Seq(FrameI), c # <<>>, NEW g \in FrameI
    PROVE  LET d == Push(g, Tail(c)) IN
           /\ d \in Seq(FrameI) /\ Len(d) = Len(c) /\ d # <<>>
           /\ d[1] = g /\ Head(d) = g
           /\ \A i \in 2..Len(c) : d[i] = c[i]
<1> DEFINE d == Push(g, Tail(c))
<1>1. /\ Tail(c) \in Seq(FrameI) /\ Len(c) \in Nat /\ Len(Tail(c)) = Len(c) - 1
      /\ \A i \in 1..(Len(c) - 1) : Tail(c)[i] = c[i + 1]
  BY TailShape
<1>2. /\ d \in Seq(FrameI) /\ Len(d) = Len(c) /\ d # <<>>
      /\ d[1] = g /\ Head(d) = g
      /\ \A i \in 1..(Len(c) - 1) : d[i + 1] = Tail(c)[i]
  <2> DEFINE t == Tail(c)
  <2>1. t \in Seq(FrameI) /\ Len(t) = Len(c) - 1
    BY <1>1
  <2> HIDE DEF t
  <2>2. /\ Push(g, t) \in Seq(FrameI) /\ Len(Push(g, t)) = Len(t) + 1
        /\ Push(g, t)[1] = g /\ \A i \in 1..Len(t) : Push(g, t)[i + 1] = t[i]
        /\ Push(g, t) # <<>> /\ Head(Push(g, t)) = g
    BY <2>1, PushShape
  <2> QED
    BY <1>1, <2>1, <2>2 DEF t
<1> HIDE DEF d
<1>3. ASSUME NEW i \in 2..Len(c) PROVE d[i] = c[i]
  <2>1. i - 1 \in 1..(Len(c) - 1) /\ (i - 1) + 1 = i
    BY <1>1
  <2> QED
    BY <1>1, <1>2, <2>1
<1> QED
  BY <1>2, <1>3 DEF d

\* What the top frame tells about the others.
LEMMA TopStands ==
    ASSUME NEW c, Stack(c), c # <<>>
    PROVE  /\ Len(c) \in Nat /\ Len(c) >= 1 /\ Head(c) = c[1] /\ c[1] \in FrameI
           /\ c[1].k \in FunctionFrames => Len(c) = 1
           /\ c[1].k \notin FunctionFrames =>
                 Len(c) >= 2 /\ c[2].k \in On(c[1].k)
           /\ Len(c) >= 2 => c[Len(c)].k = "body"
           /\ c[Len(c)].k \in FunctionFrames
           /\ c[1].k # "arg" => \A i \in 2..Len(c) : c[i].k \notin ExprFrames
<1>1. Len(c) \in Nat /\ Len(c) >= 1 /\ Head(c) = c[1] /\ c[1] \in FrameI
  BY TailShape DEF Stack
<1>2. 1 \in 1..Len(c) /\ Len(c) \in 1..Len(c) /\ 1 + 1 = 2
  BY <1>1
<1>3. /\ c[1].k \in FunctionFrames => Len(c) = 1
      /\ c[1].k \notin FunctionFrames => Len(c) >= 2 /\ c[2].k \in On(c[1].k)
  <2>1. /\ c[1].k \in FunctionFrames => 1 = Len(c)
        /\ c[1].k \notin FunctionFrames => 1 < Len(c) /\ c[1 + 1].k \in On(c[1].k)
    BY <1>2 DEF Stack, Standing
  <2>2. c[1 + 1] = c[2]
    BY <1>2
  <2> QED
    BY <1>1, <2>1, <2>2
<1>4. c[Len(c)].k \in FunctionFrames
  <2>1. c[Len(c)].k \notin FunctionFrames => Len(c) < Len(c)
    BY <1>2 DEF Stack, Standing
  <2> QED
    BY <1>1, <2>1
<1>5. Len(c) >= 2 => c[Len(c)].k = "body"
  <2>1. c[Len(c)].k \in {"begun", "params", "end"} => Len(c) = 1
    BY <1>2 DEF Stack, Standing
  <2> QED
    BY <1>1, <1>4, <2>1 DEF FunctionFrames
<1>6. ASSUME c[1].k # "arg", NEW i \in 2..Len(c)
      PROVE  c[i].k \notin ExprFrames
  <2>1. i \in 1..Len(c) /\ 1 \in 1..(i - 1)
    BY <1>1
  <2> QED
    BY <1>6, <2>1 DEF Stack, Standing
<1> QED
  BY <1>1, <1>3, <1>4, <1>5, <1>6

LEMMA PushStack ==
    ASSUME NEW c, Stack(c), c # <<>>, NEW f \in FrameI, f.k \notin FunctionFrames,
           Head(c).k \in On(f.k)
    PROVE  Stack(Push(f, c))
<1> DEFINE d == Push(f, c)
<1>1. /\ d \in Seq(FrameI) /\ Len(d) = Len(c) + 1 /\ d[1] = f
      /\ \A i \in 1..Len(c) : d[i + 1] = c[i]
  BY PushShape DEF Stack
<1>2. /\ Len(c) \in Nat /\ Len(c) >= 1 /\ c[1].k \in On(f.k)
      /\ c[1].k # "arg" => \A i \in 2..Len(c) : c[i].k \notin ExprFrames
  BY TopStands
<1>3. c[1].k \notin {"begun", "params", "end"}
  BY <1>2 DEF On, Owners, Block, ExprFrames
<1>4. f.k # "arg" => \A i \in 1..Len(c) : c[i].k \notin ExprFrames
  <2>1. f.k # "arg" => c[1].k \notin ExprFrames /\ c[1].k # "arg"
    BY <1>2 DEF On, Owners, Block, ExprFrames
  <2> QED
    BY <1>2, <2>1
<1> HIDE DEF d
<1>5. ASSUME NEW i \in 1..Len(d)
      PROVE  /\ d[i].k \in FunctionFrames => i = Len(d)
             /\ d[i].k \notin FunctionFrames => i < Len(d) /\ d[i + 1].k \in On(d[i].k)
             /\ d[i].k \in {"begun", "params", "end"} => i = 1
             /\ d[i].k \in ExprFrames => \A j \in 1..(i - 1) : d[j].k = "arg"
  <2>1. CASE i = 1
    <3>1. d[1 + 1] = c[1]
      BY <1>1, <1>2
    <3> QED
      BY <1>1, <1>2, <2>1, <3>1
  <2>2. CASE i # 1
    <3> DEFINE h == i - 1
    <3>1. h \in 1..Len(c) /\ i = h + 1 /\ d[i] = c[h]
      BY <1>1, <1>2, <2>2
    <3>2. /\ c[h].k \in FunctionFrames => h = Len(c)
          /\ c[h].k \notin FunctionFrames => h < Len(c) /\ c[h + 1].k \in On(c[h].k)
          /\ c[h].k \in {"begun", "params", "end"} => h = 1
          /\ c[h].k \in ExprFrames => \A j \in 1..(h - 1) : c[j].k = "arg"
      BY <3>1 DEF Stack, Standing
    <3> HIDE DEF h
    <3>3. h < Len(c) => d[i + 1] = c[h + 1]
      BY <1>1, <1>2, <3>1
    <3>4. ASSUME c[h].k \in ExprFrames, NEW j \in 1..(i - 1)
          PROVE  d[j].k = "arg"
      <4>1. CASE j = 1
        BY <1>1, <1>4, <3>1, <3>4, <4>1
      <4>2. CASE j # 1
        <5>1. j - 1 \in 1..(h - 1) /\ j - 1 \in 1..Len(c) /\ (j - 1) + 1 = j
          BY <1>2, <3>1, <4>2
        <5>2. d[j] = c[j - 1]
          BY <1>1, <5>1
        <5> QED
          BY <3>2, <3>4, <5>1, <5>2
      <4> QED
        BY <4>1, <4>2
    <3> QED
      BY <1>1, <1>2, <1>3, <3>1, <3>2, <3>3, <3>4
  <2> QED
    BY <2>1, <2>2
<1> QED
  BY <1>1, <1>5 DEF Stack, Standing, d

LEMMA TailStack ==
    ASSUME NEW c, Stack(c), c # <<>>
    PROVE  Stack(Tail(c))
<1> DEFINE d == Tail(c)
<1>1. /\ d \in Seq(FrameI) /\ Len(c) \in Nat /\ Len(d) = Len(c) - 1
      /\ \A i \in 1..(Len(c) - 1) : d[i] = c[i + 1]
  BY TailShape DEF Stack
<1> HIDE DEF d
<1>2. ASSUME NEW i \in 1..Len(d)
      PROVE  /\ d[i].k \in FunctionFrames => i = Len(d)
             /\ d[i].k \notin FunctionFrames => i < Len(d) /\ d[i + 1].k \in On(d[i].k)
             /\ d[i].k \in {"begun", "params", "end"} => i = 1
             /\ d[i].k \in ExprFrames => \A j \in 1..(i - 1) : d[j].k = "arg"
  <2> DEFINE h == i + 1
  <2>1. h \in 1..Len(c) /\ h # 1 /\ i \in 1..(Len(c) - 1) /\ d[i] = c[h]
    BY <1>1
  <2>2. /\ c[h].k \in FunctionFrames => h = Len(c)
        /\ c[h].k \notin FunctionFrames => h < Len(c) /\ c[h + 1].k \in On(c[h].k)
        /\ c[h].k \in {"begun", "params", "end"} => h = 1
        /\ c[h].k \in ExprFrames => \A j \in 1..(h - 1) : c[j].k = "arg"
    BY <2>1 DEF Stack, Standing
  <2>3. h < Len(c) => d[i + 1] = c[h + 1]
    BY <1>1, <2>1
  <2>4. ASSUME c[h].k \in ExprFrames, NEW j \in 1..(i - 1) PROVE d[j].k = "arg"
    <3>1. j + 1 \in 1..(h - 1) /\ j \in 1..(Len(c) - 1)
      BY <1>1, <2>1
    <3> QED
      BY <1>1, <2>2, <2>4, <3>1
  <2> QED
    BY <1>1, <2>1, <2>2, <2>3, <2>4
<1> QED
  BY <1>1, <1>2 DEF Stack, Standing, d

LEMMA SwapStack ==
    ASSUME NEW c, Stack(c), c # <<>>, NEW g \in FrameI,
           g.k \in FunctionFrames <=> Head(c).k \in FunctionFrames,
           g.k \notin FunctionFrames => On(g.k) = On(Head(c).k),
           Head(c).k = "arg" => g.k = "arg"
    PROVE  Stack(Push(g, Tail(c)))
<1> DEFINE d == Push(g, Tail(c))
<1>1. /\ d \in Seq(FrameI) /\ Len(d) = Len(c) /\ d[1] = g
      /\ \A i \in 2..Len(c) : d[i] = c[i]
  BY SwapShape DEF Stack
<1>2. Len(c) \in Nat /\ Len(c) >= 1 /\ Head(c) = c[1]
  BY TopStands
<1> HIDE DEF d
<1>3. ASSUME NEW i \in 1..Len(d)
      PROVE  /\ d[i].k \in FunctionFrames => i = Len(d)
             /\ d[i].k \notin FunctionFrames => i < Len(d) /\ d[i + 1].k \in On(d[i].k)
             /\ d[i].k \in {"begun", "params", "end"} => i = 1
             /\ d[i].k \in ExprFrames => \A j \in 1..(i - 1) : d[j].k = "arg"
  <2>1. /\ c[i].k \in FunctionFrames => i = Len(c)
        /\ c[i].k \notin FunctionFrames => i < Len(c) /\ c[i + 1].k \in On(c[i].k)
        /\ c[i].k \in {"begun", "params", "end"} => i = 1
        /\ c[i].k \in ExprFrames => \A j \in 1..(i - 1) : c[j].k = "arg"
    BY <1>1 DEF Stack, Standing
  <2>2. i < Len(c) => d[i + 1] = c[i + 1]
    BY <1>1, <1>2
  <2>3. CASE i = 1
    BY <1>1, <1>2, <2>1, <2>2, <2>3
  <2>4. CASE i # 1
    <3>1. d[i] = c[i]
      BY <1>1, <2>4
    <3>2. ASSUME c[i].k \in ExprFrames, NEW j \in 1..(i - 1) PROVE d[j].k = "arg"
      <4>1. c[j].k = "arg"
        BY <2>1, <3>2
      <4>2. j # 1 => d[j] = c[j]
        BY <1>1, <1>2
      <4> QED
        BY <1>1, <1>2, <4>1, <4>2
    <3> QED
      BY <1>1, <2>1, <2>2, <2>4, <3>1, <3>2
  <2> QED
    BY <2>3, <2>4
<1> QED
  BY <1>1, <1>3 DEF Stack, Standing, d

-----------------------------------------------------------------------------
(* The symbol table. *)

\* Inner blocks come before outer ones, every name once, no block beyond s.
Ordered(t, s) ==
    /\ \A i, j \in 1..Len(t) :
          i < j => t[i].add >= t[j].add /\ t[i].name # t[j].name
    /\ \A i \in 1..Len(t) : t[i].add =< s

\* The last entry is the function's, and its count covers the entries that
\* belong to no block.
FunctionLast(t) ==
    /\ Len(t) >= 1 /\ t[Len(t)].name = FileName /\ t[Len(t)].add = 0
    /\ \A j \in 1..Len(t) : t[j].add = 0 => j + t[Len(t)].nParams >= Len(t)

\* Variable x of block l is in the table, in front of everything of its block
\* and of the outer ones.
Held(x, l, t) ==
    \E j \in 1..Len(t) : /\ t[j].name = x /\ t[j].add = l
                         /\ \A m \in 1..(j - 1) : t[m].add > l

LEMMA EnterShape ==
    ASSUME NEW t \in Seq(Entry), NEW e \in Entry
    PROVE  LET u == <<e>> \o t IN
           /\ u \in Seq(Entry) /\ Len(t) \in Nat /\ Len(u) = Len(t) + 1 /\ u[1] = e
           /\ \A i \in 1..Len(t) : u[i + 1] = t[i]
           /\ \A i \in 2..Len(u) : i - 1 \in 1..Len(t) /\ u[i] = t[i - 1]
<1> DEFINE u == <<e>> \o t
<1>1. <<e>> \in Seq(Entry) /\ Len(<<e>>) = 1 /\ <<e>>[1] = e /\ Len(t) \in Nat
  OBVIOUS
<1>2. /\ u \in Seq(Entry)
      /\ Len(u) = Len(<<e>>) + Len(t)
      /\ \A i \in 1..(Len(<<e>>) + Len(t)) :
            u[i] = IF i <= Len(<<e>>) THEN <<e>>[i] ELSE t[i - Len(<<e>>)]
  BY <1>1, ConcatProperties
<1> HIDE DEF u
<1>3. Len(u) = Len(t) + 1 /\ u[1] = e
  BY <1>1, <1>2
<1>4. ASSUME NEW i \in 1..Len(t) PROVE u[i + 1] = t[i]
  BY <1>1, <1>2
<1>5. ASSUME NEW i \in 2..Len(u) PROVE i - 1 \in 1..Len(t) /\ u[i] = t[i - 1]
  BY <1>1, <1>2, <1>3
<1> QED
  BY <1>1, <1>2, <1>3, <1>4, <1>5 DEF u

LEMMA DropShape ==
    ASSUME NEW t \in Seq(Entry), NEW m \in Nat
    PROVE  LET u == SubSeq(t, m + 1, Len(t)) IN
           /\ u \in Seq(Entry) /\ Len(t) \in Nat
           /\ m =< Len(t) => Len(u) = Len(t) - m
           /\ m >= Len(t) => u = <<>>
           /\ \A i \in 1..Len(u) : i + m \in 1..Len(t) /\ u[i] = t[i + m]
<1> DEFINE u == SubSeq(t, m + 1, Len(t))
<1>1. Len(t) \in Nat /\ m + 1 \in Int /\ Len(t) \in Int
  OBVIOUS
<1>2. \A i \in (m + 1)..Len(t) : t[i] \in Entry
  BY <1>1
<1>3. /\ u \in Seq(Entry)
      /\ Len(u) = IF m + 1 <= Len(t) THEN Len(t) - (m + 1) + 1 ELSE 0
      /\ \A i \in 1..(Len(t) - (m + 1) + 1) : u[i] = t[(m + 1) + i - 1]
  BY <1>1, <1>2, SubSeqProperties
<1>4. m >= Len(t) => u = <<>>
  BY <1>1, SubSeqEmpty
<1> HIDE DEF u
<1>5. ASSUME NEW i \in 1..Len(u) PROVE i + m \in 1..Len(t) /\ u[i] = t[i + m]
  <2>1. i \in 1..(Len(t) - (m + 1) + 1) /\ (m + 1) + i - 1 = i + m
    BY <1>1, <1>3
  <2> QED
    BY <1>1, <1>3, <2>1
<1>6. m =< Len(t) => Len(u) = Len(t) - m
  BY <1>1, <1>3
<1> QED
  BY <1>1, <1>3, <1>4, <1>5, <1>6 DEF u

\* A new variable in front.
LEMMA OrderedEnter ==
    ASSUME NEW t \in Seq(Entry), NEW s \in Nat, Ordered(t, s), NEW e \in Entry,
           e.add = s, \A i \in 1..Len(t) : t[i].name # e.name
    PROVE  Ordered(<<e>> \o t, s)
<1> DEFINE u == <<e>> \o t
<1>1. /\ Len(t) \in Nat /\ Len(u) = Len(t) + 1 /\ u[1] = e
      /\ \A i \in 2..Len(u) : i - 1 \in 1..Len(t) /\ u[i] = t[i - 1]
  BY EnterShape
<1> HIDE DEF u
<1>2. ASSUME NEW i \in 1..Len(u), NEW j \in 1..Len(u), i < j
      PROVE  u[i].add >= u[j].add /\ u[i].name # u[j].name
  <2>1. j \in 2..Len(u) /\ j - 1 \in 1..Len(t) /\ u[j] = t[j - 1]
    BY <1>1, <1>2
  <2>2. CASE i = 1
    BY <1>1, <2>1, <2>2 DEF Ordered
  <2>3. CASE i # 1
    <3>1. i \in 2..Len(u) /\ i - 1 < j - 1
      BY <1>1, <1>2, <2>3
    <3>2. i - 1 \in 1..Len(t) /\ u[i] = t[i - 1]
      BY <1>1, <3>1
    <3> QED
      BY <2>1, <3>1, <3>2 DEF Ordered
  <2> QED
    BY <2>2, <2>3
<1>3. ASSUME NEW i \in 1..Len(u) PROVE u[i].add =< s
  <2>1. i = 1 \/ i \in 2..Len(u)
    BY <1>1
  <2> QED
    BY <1>1, <2>1 DEF Ordered
<1> QED
  BY <1>2, <1>3 DEF Ordered, u

LEMMA FunctionLastEnter ==
    ASSUME NEW t \in Seq(Entry), FunctionLast(t), NEW e \in Entry, e.add > 0
    PROVE  FunctionLast(<<e>> \o t)
<1> DEFINE u == <<e>> \o t
<1>1. /\ Len(t) \in Nat /\ Len(u) = Len(t) + 1 /\ u[1] = e
      /\ \A i \in 2..Len(u) : i - 1 \in 1..Len(t) /\ u[i] = t[i - 1]
  BY EnterShape
<1> HIDE DEF u
<1>2. Len(t) >= 1 /\ Len(u) \in 2..Len(u) /\ u[Len(u)] = t[Len(t)]
  <2>1. Len(t) >= 1 /\ Len(u) \in 2..Len(u) /\ Len(u) - 1 = Len(t)
    BY <1>1 DEF FunctionLast
  <2> QED
    BY <1>1, <2>1
<1>3. ASSUME NEW j \in 1..Len(u), u[j].add = 0
      PROVE  j + u[Len(u)].nParams >= Len(u)
  <2>1. j \in 2..Len(u)
    BY <1>1, <1>3 DEF Entry
  <2>2. j - 1 \in 1..Len(t) /\ u[j] = t[j - 1]
    BY <1>1, <2>1
  <2>3. (j - 1) + t[Len(t)].nParams >= Len(t)
    BY <1>3, <2>2 DEF FunctionLast
  <2>4. t[Len(t)].nParams \in Nat
    <3>1. Len(t) \in 1..Len(t)
      BY <1>1, <1>2
    <3>2. t[Len(t)] \in Entry
      BY <3>1
    <3> QED
      BY <3>2 DEF Entry
  <2> QED
    BY <1>1, <1>2, <2>3, <2>4
<1> QED
  BY <1>1, <1>2, <1>3 DEF FunctionLast, u

LEMMA HeldEnter ==
    ASSUME NEW t \in Seq(Entry), NEW x, NEW l \in Nat, Held(x, l, t),
           NEW e \in Entry, e.add > l
    PROVE  Held(x, l, <<e>> \o t)
<1> DEFINE u == <<e>> \o t
<1>1. /\ Len(t) \in Nat /\ Len(u) = Len(t) + 1 /\ u[1] = e
      /\ \A i \in 1..Len(t) : u[i + 1] = t[i]
      /\ \A i \in 2..Len(u) : i - 1 \in 1..Len(t) /\ u[i] = t[i - 1]
  BY EnterShape
<1> HIDE DEF u
<1>2. PICK j \in 1..Len(t) : /\ t[j].name = x /\ t[j].add = l
                             /\ \A m \in 1..(j - 1) : t[m].add > l
  BY DEF Held
<1>3. ASSUME NEW m \in 1..((j + 1) - 1) PROVE u[m].add > l
  <2>1. CASE m = 1
    BY <1>1, <2>1
  <2>2. CASE m # 1
    <3>1. m \in 2..Len(u) /\ m - 1 \in 1..(j - 1)
      BY <1>1, <2>2
    <3>2. u[m] = t[m - 1]
      BY <1>1, <3>1
    <3>3. t[m - 1].add > l
      BY <1>2, <3>1
    <3> QED
      BY <3>2, <3>3
  <2> QED
    BY <2>1, <2>2
<1>4. j + 1 \in 1..Len(u) /\ u[j + 1] = t[j]
  BY <1>1
<1>5. Held(x, l, u)
  BY <1>2, <1>3, <1>4 DEF Held
<1> QED
  BY <1>5 DEF u

LEMMA HeldNew ==
    ASSUME NEW t \in Seq(Entry), NEW e \in Entry
    PROVE  Held(e.name, e.add, <<e>> \o t)
<1> DEFINE u == <<e>> \o t
<1>1. Len(u) \in Nat /\ Len(u) >= 1 /\ u[1] = e
  BY EnterShape
<1> HIDE DEF u
<1>2. 1 \in 1..Len(u) /\ 1..(1 - 1) = {}
  BY <1>1
<1>3. Held(e.name, e.add, u)
  BY <1>1, <1>2 DEF Held
<1> QED
  BY <1>3 DEF u

\* The variable of the innermost loop is first.
LEMMA HeldFirst ==
    ASSUME NEW t \in Seq(Entry), NEW x, NEW l \in Nat, Held(x, l, t), Ordered(t, l)
    PROVE  t # <<>> /\ Len(t) >= 1 /\ Head(t) = t[1] /\ t[1].name = x /\ t[1].add = l
<1>1. PICK j \in 1..Len(t) : /\ t[j].name = x /\ t[j].add = l
                             /\ \A m \in 1..(j - 1) : t[m].add > l
  BY DEF Held
<1>2. Len(t) \in Nat /\ Len(t) >= 1
  BY <1>1
<1>3. t # <<>> /\ Head(t) = t[1] /\ 1 \in 1..Len(t) /\ t[1] \in Entry
  BY <1>2
<1>4. j = 1
  <2> SUFFICES ASSUME j # 1 PROVE FALSE
    OBVIOUS
  <2>1. 1 \in 1..(j - 1)
    OBVIOUS
  <2>2. t[1].add > l /\ t[1].add =< l
    BY <1>1, <1>3, <2>1 DEF Ordered
  <2> QED
    BY <1>3, <2>2 DEF Entry
<1> QED
  BY <1>1, <1>2, <1>3, <1>4

\* The first m entries freed.
LEMMA OrderedDrop ==
    ASSUME NEW t \in Seq(Entry), NEW s \in Nat, Ordered(t, s), NEW m \in Nat,
           NEW r \in Nat, \A i \in (m + 1)..Len(t) : t[i].add =< r
    PROVE  Ordered(SubSeq(t, m + 1, Len(t)), r)
<1> DEFINE u == SubSeq(t, m + 1, Len(t))
<1>1. Len(t) \in Nat /\ \A i \in 1..Len(u) : i + m \in 1..Len(t) /\ u[i] = t[i + m]
  BY DropShape
<1>2. Len(u) \in Nat
  BY DropShape
<1> HIDE DEF u
<1>3. ASSUME NEW i \in 1..Len(u), NEW j \in 1..Len(u), i < j
      PROVE  u[i].add >= u[j].add /\ u[i].name # u[j].name
  <2>1. i + m \in 1..Len(t) /\ j + m \in 1..Len(t) /\ i + m < j + m
        /\ u[i] = t[i + m] /\ u[j] = t[j + m]
    BY <1>1, <1>2, <1>3
  <2> QED
    BY <2>1 DEF Ordered
<1>4. ASSUME NEW i \in 1..Len(u) PROVE u[i].add =< r
  <2>1. i + m \in (m + 1)..Len(t) /\ u[i] = t[i + m]
    BY <1>1, <1>2
  <2> QED
    BY <2>1
<1> QED
  BY <1>3, <1>4 DEF Ordered, u

LEMMA FunctionLastDrop ==
    ASSUME NEW t \in Seq(Entry), FunctionLast(t), NEW m \in Nat,
           \A i \in 1..Len(t) : i =< m => t[i].add > 0
    PROVE  m < Len(t) /\ FunctionLast(SubSeq(t, m + 1, Len(t)))
<1> DEFINE u == SubSeq(t, m + 1, Len(t))
<1>1. /\ Len(t) \in Nat /\ m =< Len(t) => Len(u) = Len(t) - m
      /\ \A i \in 1..Len(u) : i + m \in 1..Len(t) /\ u[i] = t[i + m]
  BY DropShape
<1>2. Len(t) >= 1 /\ Len(t) \in 1..Len(t) /\ t[Len(t)].add = 0
      /\ t[Len(t)].name = FileName /\ t[Len(t)] \in Entry
  BY <1>1 DEF FunctionLast
<1>3. m < Len(t)
  BY <1>1, <1>2
<1> HIDE DEF u
<1>4. Len(u) = Len(t) - m /\ Len(u) \in 1..Len(u) /\ Len(u) >= 1
  BY <1>1, <1>3
<1>5. u[Len(u)] = t[Len(t)]
  <2>1. Len(u) + m = Len(t)
    BY <1>1, <1>4
  <2> QED
    BY <1>1, <1>4, <2>1
<1>6. ASSUME NEW j \in 1..Len(u), u[j].add = 0
      PROVE  j + u[Len(u)].nParams >= Len(u)
  <2>1. j + m \in 1..Len(t) /\ t[j + m].add = 0
    BY <1>1, <1>6
  <2>2. (j + m) + t[Len(t)].nParams >= Len(t)
    BY <2>1 DEF FunctionLast
  <2>3. t[Len(t)].nParams \in Nat
    BY <1>2 DEF Entry
  <2> QED
    BY <1>1, <1>4, <1>5, <2>2, <2>3
<1> QED
  BY <1>2, <1>3, <1>4, <1>5, <1>6 DEF FunctionLast, u

LEMMA HeldDrop ==
    ASSUME NEW t \in Seq(Entry), NEW x, NEW l \in Nat, Held(x, l, t), NEW m \in Nat,
           \A i \in 1..Len(t) : i =< m => t[i].add > l
    PROVE  Held(x, l, SubSeq(t, m + 1, Len(t)))
<1> DEFINE u == SubSeq(t, m + 1, Len(t))
<1>1. /\ Len(t) \in Nat /\ m =< Len(t) => Len(u) = Len(t) - m
      /\ \A i \in 1..Len(u) : i + m \in 1..Len(t) /\ u[i] = t[i + m]
  BY DropShape
<1>2. PICK j \in 1..Len(t) : /\ t[j].name = x /\ t[j].add = l
                             /\ \A h \in 1..(j - 1) : t[h].add > l
  BY DEF Held
<1>3. j > m
  BY <1>1, <1>2
<1> HIDE DEF u
<1>4. Len(u) = Len(t) - m /\ j - m \in 1..Len(u) /\ u[j - m] = t[j]
  <2>1. Len(u) = Len(t) - m /\ j - m \in 1..Len(u) /\ (j - m) + m = j
    BY <1>1, <1>3
  <2> QED
    BY <1>1, <2>1
<1>5. ASSUME NEW h \in 1..((j - m) - 1) PROVE u[h].add > l
  <2>1. h \in 1..Len(u) /\ h + m \in 1..(j - 1)
    BY <1>1, <1>3, <1>4
  <2> QED
    BY <1>1, <1>2, <2>1
<1>6. Held(x, l, u)
  BY <1>2, <1>4, <1>5 DEF Held
<1> QED
  BY <1>6 DEF u

\* The entries of the innermost block are the first ones: freeing the first
\* entry once for each of them frees exactly them.
LEMMA BlockFirst ==
    ASSUME NEW t \in Seq(Entry), NEW s \in Nat, Ordered(t, s)
    PROVE  LET m == Cardinality({i \in DOMAIN t : t[i].add = s}) IN
           /\ m \in Nat /\ m =< Len(t)
           /\ \A i \in 1..Len(t) : t[i].add = s <=> i =< m
<1> DEFINE P == {i \in DOMAIN t : t[i].add = s}
           m == Cardinality(P)
<1>1. Len(t) \in Nat /\ DOMAIN t = 1..Len(t) /\ Len(t) \in Int
  OBVIOUS
<1>2. IsFiniteSet(1..Len(t)) /\ Cardinality(1..Len(t)) = Len(t)
  <2>1. /\ IsFiniteSet(1..Len(t))
        /\ Cardinality(1..Len(t)) = IF 1 > Len(t) THEN 0 ELSE Len(t) - 1 + 1
    <3>1. 1 \in Int /\ Len(t) \in Int
      BY <1>1
    <3> HIDE DEF P
    <3> QED
      BY <3>1, FS_Interval
  <2> QED
    BY <1>1, <2>1
<1>3. P \in SUBSET (1..Len(t))
  BY <1>1
<1>4. ASSUME NEW i \in P, NEW j \in 1..i PROVE j \in P
  <2>1. i \in 1..Len(t) /\ j \in 1..Len(t) /\ t[i].add = s /\ t[j] \in Entry
    BY <1>1, <1>3
  <2>2. t[j].add =< s /\ (j < i => t[j].add >= t[i].add)
    BY <2>1 DEF Ordered
  <2>3. t[j].add = s
    BY <2>1, <2>2 DEF Entry
  <2> QED
    BY <1>1, <2>1, <2>3
<1> HIDE DEF P
<1>5. IsFiniteSet(P) /\ m = Cardinality(P) /\ m \in Nat /\ m =< Len(t)
  <2>1. IsFiniteSet(P) /\ Cardinality(P) =< Cardinality(1..Len(t))
    BY <1>2, <1>3, FS_Subset
  <2>2. Cardinality(P) \in Nat
    BY <2>1, FS_CardinalityType
  <2> QED
    BY <1>2, <2>1, <2>2
<1> HIDE DEF m
<1>6. IsFiniteSet(1..m) /\ Cardinality(1..m) = m
  <2>1. /\ IsFiniteSet(1..m)
        /\ Cardinality(1..m) = IF 1 > m THEN 0 ELSE m - 1 + 1
    <3>1. 1 \in Int /\ m \in Int
      BY <1>5
    <3> QED
      BY <3>1, FS_Interval
  <2> QED
    BY <1>5, <2>1
<1>7. ASSUME NEW i \in P PROVE i =< m
  <2>1. i \in Nat /\ i \in 1..Len(t)
    BY <1>1, <1>3
  <2>2. 1..i \in SUBSET P
    BY <1>4
  <2>3. Cardinality(1..i) = i
    <3>1. Cardinality(1..i) = IF 1 > i THEN 0 ELSE i - 1 + 1
      BY <2>1, FS_Interval
    <3> QED
      BY <1>1, <2>1, <3>1
  <2>4. Cardinality(1..i) =< Cardinality(P)
    BY <1>5, <2>2, FS_Subset
  <2> QED
    BY <1>5, <2>3, <2>4
<1>8. P \in SUBSET (1..m)
  BY <1>1, <1>3, <1>7
<1>9. P = 1..m
  BY <1>5, <1>6, <1>8, FS_Subset
<1> QED
  BY <1>1, <1>5, <1>9 DEF P, m

-----------------------------------------------------------------------------
(* The stack of constructs and the symbol table together.                  *)
(*                                                                         *)
(* ScopeOrdered and ForVariableFirst are not inductive: CloseBlock and     *)
(* EndFor free the first entries of the table whichever they are.  The     *)
(* invariant relates the table to the constructs that are open: num_scope  *)
(* is the number of open blocks, the variable of every open FOR is held in *)
(* front of its block, and the function's entry is the last one and counts *)
(* the parameters, from its name to the end of its body.                   *)

\* The variables of the loops that are open.
ForVars(c, t) ==
    \A i \in 1..Len(c) :
        c[i].k \in ForFrames => Held(c[i].name, Outside(Block, c, i), t)

\* What the outermost construct says of the table.
FunctionEntry(c, t) ==
    /\ c = <<>> => t = <<>>
    /\ c # <<>> /\ c[Len(c)].k = "begun" => t = <<>>
    /\ c # <<>> /\ c[Len(c)].k = "end" => Len(t) =< 1
    /\ c # <<>> /\ c[Len(c)].k \in {"params", "body"} => FunctionLast(t)

Scope(c, t, s) ==
    /\ Stack(c)
    /\ t \in Seq(Entry)
    /\ s = Outside(Block, c, 0)
    /\ Ordered(t, s)
    /\ FunctionEntry(c, t)
    /\ ForVars(c, t)

\* What the top of the stack says of the number of blocks and of the table.
LEMMA ScopeFacts ==
    ASSUME NEW c, NEW t, NEW s, Scope(c, t, s), c # <<>>
    PROVE  /\ c \in Seq(FrameI) /\ t \in Seq(Entry) /\ s \in Nat
           /\ Len(c) \in Nat /\ Len(c) >= 1 /\ Head(c) = c[1] /\ c[1] \in FrameI
           /\ c[1].k = "block" =>
                 /\ FunctionLast(t) /\ s >= 1 /\ s = Outside(Block, c, 1) + 1
                 /\ \A i \in 1..Len(c) : Outside(Block, c, i) < s
           /\ c[1].k # "block" => s = Outside(Block, c, 1)
           /\ c[1].k \in FunctionFrames => Len(c) = 1 /\ s = 0
           /\ c[1].k \notin FunctionFrames => Len(c) >= 2 /\ c[Len(c)].k = "body" /\ FunctionLast(t)
<1>1. /\ Len(c) \in Nat /\ Len(c) >= 1 /\ Head(c) = c[1] /\ c[1] \in FrameI
      /\ c[1].k \in FunctionFrames => Len(c) = 1
      /\ c[1].k \notin FunctionFrames => Len(c) >= 2
      /\ Len(c) >= 2 => c[Len(c)].k = "body"
  BY TopStands DEF Scope
<1>2. c \in Seq(FrameI) /\ t \in Seq(Entry) /\ s = Outside(Block, c, 0)
  BY DEF Scope, Stack
<1>3. /\ 0 \in 0..Len(c) /\ 1 \in 0..Len(c) /\ 1 \in 1..Len(c) /\ 1 - 1 = 0
      /\ \A i \in 1..Len(c) : i \in 0..Len(c)
  BY <1>1
<1>4. s \in Nat /\ Outside(Block, c, 1) \in Nat
      /\ Outside(Block, c, 1) =< Len(c) - 1
  BY <1>2, <1>3, OutsideType
<1>5. /\ c[1].k \in Block => s = Outside(Block, c, 1) + 1
      /\ c[1].k \notin Block => s = Outside(Block, c, 1)
  BY <1>2, <1>3, OutsideStep
<1>6. ASSUME c[1].k = "block", NEW i \in 1..Len(c)
      PROVE  Outside(Block, c, i) < s
  <2>1. i \in 0..Len(c) /\ 0 \in 0..Len(c) /\ 1 \in (0 + 1)..i
    BY <1>1
  <2>2. \A b \in (0 + 1)..i : c[b].k \in Block => Outside(Block, c, i) < Outside(Block, c, 0)
    BY <1>2, <2>1, OutsideMonotone
  <2> QED
    BY <1>2, <1>6, <2>1, <2>2 DEF Block
<1>7. c[1].k \notin FunctionFrames => FunctionLast(t)
  BY <1>1 DEF Scope, FunctionEntry
<1>8. c[1].k \in FunctionFrames => s = 0
  BY <1>1, <1>4, <1>5 DEF FunctionFrames, Block
<1> QED
  BY <1>1, <1>2, <1>4, <1>5, <1>6, <1>7, <1>8 DEF FunctionFrames, Block

\* The entry of an open function is found at the end of the table.
LEMMA FunctionPosition ==
    ASSUME symbol_table \in Seq(Entry), NEW s, Ordered(symbol_table, s),
           FunctionLast(symbol_table)
    PROVE  /\ Position(FileName) = Len(symbol_table)
           /\ Len(symbol_table) \in 1..Len(symbol_table)
           /\ search_symbol_table(FileName) = symbol_table[Len(symbol_table)]
           /\ symbol_table[Len(symbol_table)] \in Entry
<1> DEFINE t == symbol_table
           L == Len(t)
<1>1. L \in Nat /\ L >= 1 /\ DOMAIN t = 1..L /\ t[L].name = FileName
  BY DEF FunctionLast
<1>2. L \in 1..L /\ \A j \in 1..(L - 1) : t[j].name # FileName
  <2>1. \A j \in 1..(L - 1) : j \in 1..L /\ L \in 1..L /\ j < L
    BY <1>1
  <2> QED
    BY <1>1, <2>1 DEF Ordered
<1>3. ASSUME NEW i \in 1..L, t[i].name = FileName, \A j \in 1..(i - 1) : t[j].name # FileName
      PROVE  i = L
  <2> HIDE DEF L
  <2>1. i # L => i \in 1..(L - 1)
    BY <1>1
  <2> QED
    BY <1>2, <1>3, <2>1
<1>4. Position(FileName) = L
  BY <1>1, <1>2, <1>3 DEF Position
<1> QED
  BY <1>1, <1>2, <1>4 DEF search_symbol_table

-----------------------------------------------------------------------------
(* One lemma per way in which the actions move the stack and the table.    *)

LEMMA ScopePush ==
    ASSUME NEW c, NEW t, NEW s, Scope(c, t, s), c # <<>>,
           NEW f \in FrameI, f.k \notin FunctionFrames \cup Block,
           Head(c).k \in On(f.k),
           f.k \in ForFrames => Held(f.name, s, t)
    PROVE  Scope(Push(f, c), t, s)
<1> DEFINE d == Push(f, c)
<1>1. /\ c \in Seq(FrameI) /\ s \in Nat /\ Len(c) \in Nat /\ Len(c) >= 1
      /\ t \in Seq(Entry)
  BY ScopeFacts
<1>2. Stack(d)
  BY PushStack DEF Scope
<1>3. /\ d \in Seq(FrameI) /\ Len(d) = Len(c) + 1 /\ d[1] = f
      /\ \A i \in 1..Len(c) : d[i + 1] = c[i]
      /\ d # <<>>
  BY <1>1, PushShape
<1> HIDE DEF d
<1>4. ASSUME NEW i \in 0..Len(c) PROVE Outside(Block, d, i + 1) = Outside(Block, c, i)
  BY <1>1, <1>3, OutsideShift
<1>5. Outside(Block, d, 1) = s
  <2>1. 0 \in 0..Len(c) /\ 0 + 1 = 1
    BY <1>1
  <2> QED
    BY <1>4, <2>1 DEF Scope
<1>6. s = Outside(Block, d, 0)
  <2>1. 1 \in 1..Len(d) /\ 1 - 1 = 0
    BY <1>1, <1>3
  <2>2. d[1].k \notin Block => Outside(Block, d, 1 - 1) = Outside(Block, d, 1)
    BY <1>3, <2>1, OutsideStep
  <2> QED
    BY <1>3, <1>5, <2>1, <2>2
<1>7. FunctionEntry(d, t)
  <2>1. d[Len(d)] = c[Len(c)]
    BY <1>1, <1>3
  <2> QED
    BY <1>3, <2>1 DEF Scope, FunctionEntry
<1>8. ASSUME NEW i \in 1..Len(d), d[i].k \in ForFrames
      PROVE  Held(d[i].name, Outside(Block, d, i), t)
  <2>1. CASE i = 1
    BY <1>3, <1>5, <1>8, <2>1
  <2>2. CASE i # 1
    <3>1. i - 1 \in 1..Len(c) /\ i - 1 \in 0..Len(c) /\ (i - 1) + 1 = i
      BY <1>1, <1>3, <2>2
    <3>2. d[i] = c[i - 1] /\ Outside(Block, d, i) = Outside(Block, c, i - 1)
      BY <1>3, <1>4, <3>1
    <3> QED
      BY <1>8, <3>1, <3>2 DEF Scope, ForVars
  <2> QED
    BY <2>1, <2>2
<1> QED
  BY <1>1, <1>2, <1>6, <1>7, <1>8 DEF Scope, ForVars, d

LEMMA ScopeBlock ==
    ASSUME NEW c, NEW t, NEW s, Scope(c, t, s), c # <<>>,
           NEW f \in FrameI, f.k = "block", Head(c).k \in Owners
    PROVE  Scope(Push(f, c), t, s + 1)
<1> DEFINE d == Push(f, c)
<1>1. /\ c \in Seq(FrameI) /\ s \in Nat /\ Len(c) \in Nat /\ Len(c) >= 1
      /\ t \in Seq(Entry)
  BY ScopeFacts
<1>2. Stack(d)
  BY PushStack DEF Scope, On, FunctionFrames
<1>3. /\ d \in Seq(FrameI) /\ Len(d) = Len(c) + 1 /\ d[1] = f
      /\ \A i \in 1..Len(c) : d[i + 1] = c[i]
      /\ d # <<>>
  BY <1>1, PushShape
<1> HIDE DEF d
<1>4. ASSUME NEW i \in 0..Len(c) PROVE Outside(Block, d, i + 1) = Outside(Block, c, i)
  BY <1>1, <1>3, OutsideShift
<1>5. s + 1 = Outside(Block, d, 0)
  <2>1. 0 \in 0..Len(c) /\ 0 + 1 = 1 /\ 1 \in 1..Len(d) /\ 1 - 1 = 0
    BY <1>1, <1>3
  <2>2. Outside(Block, d, 1) = s
    BY <1>4, <2>1 DEF Scope
  <2>3. d[1].k \in Block => Outside(Block, d, 1 - 1) = Outside(Block, d, 1) + 1
    BY <1>3, <2>1, OutsideStep
  <2> QED
    BY <1>3, <2>1, <2>2, <2>3 DEF Block
<1>6. FunctionEntry(d, t)
  <2>1. d[Len(d)] = c[Len(c)]
    BY <1>1, <1>3
  <2> QED
    BY <1>3, <2>1 DEF Scope, FunctionEntry
<1>7. ASSUME NEW i \in 1..Len(d), d[i].k \in ForFrames
      PROVE  Held(d[i].name, Outside(Block, d, i), t)
  <2>1. i # 1
    BY <1>3, <1>7 DEF ForFrames
  <2>2. i - 1 \in 1..Len(c) /\ i - 1 \in 0..Len(c) /\ (i - 1) + 1 = i
    BY <1>1, <1>3, <2>1
  <2>3. d[i] = c[i - 1] /\ Outside(Block, d, i) = Outside(Block, c, i - 1)
    BY <1>3, <1>4, <2>2
  <2> QED
    BY <1>7, <2>2, <2>3 DEF Scope, ForVars
<1>8. Ordered(t, s + 1)
  <2>1. \A i \in 1..Len(t) : t[i].add =< s + 1
    <3> SUFFICES ASSUME NEW i \in 1..Len(t) PROVE t[i].add =< s + 1
      OBVIOUS
    <3>1. t[i] \in Entry /\ t[i].add =< s
      BY <1>1 DEF Scope, Ordered
    <3> QED
      BY <1>1, <3>1 DEF Entry
  <2> QED
    BY <2>1 DEF Scope, Ordered
<1> QED
  BY <1>1, <1>2, <1>5, <1>6, <1>7, <1>8 DEF Scope, ForVars, d

LEMMA ScopeSwap ==
    ASSUME NEW c, NEW t, NEW s, Scope(c, t, s), c # <<>>, NEW g \in FrameI,
           Head(c).k \notin FunctionFrames, g.k \notin FunctionFrames,
           On(g.k) = On(Head(c).k), Head(c).k = "arg" => g.k = "arg",
           g.k \in Block <=> Head(c).k \in Block,
           g.k \in ForFrames => Head(c).k \in ForFrames /\ g.name = Head(c).name
    PROVE  Scope(Push(g, Tail(c)), t, s) /\ Push(g, Tail(c)) # <<>>
           /\ Head(Push(g, Tail(c))) = g
<1> DEFINE d == Push(g, Tail(c))
<1>1. /\ c \in Seq(FrameI) /\ s \in Nat /\ Len(c) \in Nat /\ Len(c) >= 2
      /\ t \in Seq(Entry) /\ Head(c) = c[1]
  BY ScopeFacts
<1>2. Stack(d)
  BY SwapStack DEF Scope
<1>3. /\ d \in Seq(FrameI) /\ Len(d) = Len(c) /\ d # <<>> /\ d[1] = g /\ Head(d) = g
      /\ \A i \in 2..Len(c) : d[i] = c[i]
  BY <1>1, SwapShape
<1> HIDE DEF d
<1>4. ASSUME NEW i \in 0..Len(c) PROVE Outside(Block, d, i) = Outside(Block, c, i)
  <2>1. \A j \in (i + 1)..Len(c) : d[j].k \in Block <=> c[j].k \in Block
    <3> SUFFICES ASSUME NEW j \in (i + 1)..Len(c)
                 PROVE  d[j].k \in Block <=> c[j].k \in Block
      OBVIOUS
    <3>1. j = 1 \/ j \in 2..Len(c)
      BY <1>1
    <3> QED
      BY <1>1, <1>3, <3>1
  <2> QED
    BY <1>1, <1>3, <2>1, OutsideSame
<1>5. s = Outside(Block, d, 0)
  BY <1>1, <1>4 DEF Scope
<1>6. FunctionEntry(d, t)
  <2>1. Len(c) \in 2..Len(c)
    BY <1>1
  <2>2. d[Len(d)] = c[Len(c)]
    BY <1>3, <2>1
  <2> QED
    BY <1>3, <2>2 DEF Scope, FunctionEntry
<1>7. ASSUME NEW i \in 1..Len(d), d[i].k \in ForFrames
      PROVE  Held(d[i].name, Outside(Block, d, i), t)
  <2>1. i \in 1..Len(c) /\ Outside(Block, d, i) = Outside(Block, c, i)
    BY <1>1, <1>3, <1>4
  <2>2. c[i].k \in ForFrames /\ c[i].name = d[i].name
    <3>1. i = 1 \/ i \in 2..Len(c)
      BY <1>1, <2>1
    <3> QED
      BY <1>1, <1>3, <1>7, <3>1
  <2> QED
    BY <2>1, <2>2 DEF Scope, ForVars
<1> QED
  BY <1>1, <1>2, <1>3, <1>5, <1>6, <1>7 DEF Scope, ForVars, d

LEMMA ScopeTail ==
    ASSUME NEW c, NEW t, NEW s, Scope(c, t, s), c # <<>>,
           Head(c).k \notin FunctionFrames \cup Block
    PROVE  /\ Scope(Tail(c), t, s) /\ Tail(c) # <<>>
           /\ Head(Tail(c)).k \in On(Head(c).k)
<1> DEFINE d == Tail(c)
<1>1. /\ c \in Seq(FrameI) /\ s \in Nat /\ Len(c) \in Nat /\ Len(c) >= 2
      /\ t \in Seq(Entry) /\ Head(c) = c[1] /\ s = Outside(Block, c, 1)
      /\ c[Len(c)].k = "body" /\ FunctionLast(t)
  BY ScopeFacts DEF Block
<1>2. Stack(d)
  BY TailStack DEF Scope
<1>3. /\ d \in Seq(FrameI) /\ Len(d) = Len(c) - 1
      /\ \A i \in 1..(Len(c) - 1) : d[i] = c[i + 1]
  BY <1>1, TailShape
<1> HIDE DEF d
<1>4. ASSUME NEW i \in 0..Len(d) PROVE Outside(Block, c, i + 1) = Outside(Block, d, i)
  <2>1. Len(c) = Len(d) + 1 /\ \A j \in 1..Len(d) : c[j + 1] = d[j]
    BY <1>1, <1>3
  <2>2. c \in Seq(FrameI) /\ d \in Seq(FrameI)
    BY <1>1, <1>3
  <2> QED
    BY <2>1, <2>2, OutsideShift
<1>5. s = Outside(Block, d, 0)
  <2>1. 0 \in 0..Len(d) /\ 0 + 1 = 1
    BY <1>1, <1>3
  <2> QED
    BY <1>1, <1>4, <2>1
<1>6. /\ d # <<>> /\ Head(d) = d[1] /\ d[1] = c[2] /\ d[Len(d)] = c[Len(c)]
  <2>1. /\ 1 \in 1..(Len(c) - 1) /\ 1 + 1 = 2
        /\ Len(d) \in 1..(Len(c) - 1) /\ Len(d) + 1 = Len(c)
    BY <1>1, <1>3
  <2>2. d[1] = c[2] /\ d[Len(d)] = c[Len(c)]
    BY <1>3, <2>1
  <2> QED
    BY <1>1, <1>3, <2>2
<1>7. FunctionEntry(d, t)
  BY <1>1, <1>6 DEF FunctionEntry
<1>8. ASSUME NEW i \in 1..Len(d), d[i].k \in ForFrames
      PROVE  Held(d[i].name, Outside(Block, d, i), t)
  <2>1. i + 1 \in 1..Len(c) /\ i \in 1..(Len(c) - 1) /\ i \in 0..Len(d)
    BY <1>1, <1>3
  <2>2. c[i + 1] = d[i] /\ Outside(Block, c, i + 1) = Outside(Block, d, i)
    BY <1>3, <1>4, <2>1
  <2> QED
    BY <1>8, <2>1, <2>2 DEF Scope, ForVars
<1>9. c[2].k \in On(c[1].k)
  BY <1>1, TopStands DEF Scope
<1> QED
  BY <1>1, <1>2, <1>5, <1>6, <1>7, <1>8, <1>9 DEF Scope, ForVars, d

LEMMA ScopeEnter ==
    ASSUME NEW c, NEW t, NEW s, Scope(c, t, s), c # <<>>, Head(c).k = "block",
           NEW e \in Entry, e.add = s, \A i \in 1..Len(t) : t[i].name # e.name
    PROVE  /\ Scope(c, <<e>> \o t, s)
           /\ Held(e.name, s, <<e>> \o t)
<1> DEFINE u == <<e>> \o t
<1>1. /\ c \in Seq(FrameI) /\ t \in Seq(Entry) /\ s \in Nat /\ Len(c) \in Nat
      /\ Head(c) = c[1] /\ FunctionLast(t) /\ s >= 1 /\ c[Len(c)].k = "body"
      /\ \A i \in 1..Len(c) : Outside(Block, c, i) < s
  BY ScopeFacts DEF FunctionFrames
<1>2. u \in Seq(Entry)
  BY <1>1, EnterShape
<1>3. Ordered(u, s)
  BY <1>1, OrderedEnter DEF Scope
<1>4. FunctionLast(u)
  BY <1>1, FunctionLastEnter
<1>5. Held(e.name, s, u)
  BY <1>1, HeldNew
<1>6. ASSUME NEW i \in 1..Len(c), c[i].k \in ForFrames
      PROVE  Held(c[i].name, Outside(Block, c, i), u)
  <2>1. Outside(Block, c, i) \in Nat
    <3>1. i \in 0..Len(c)
      BY <1>1
    <3> QED
      BY <1>1, <3>1, OutsideType
  <2>2. e.add > Outside(Block, c, i)
    BY <1>1, <2>1
  <2>3. Held(c[i].name, Outside(Block, c, i), t)
    BY <1>6 DEF Scope, ForVars
  <2> QED
    BY <1>1, <2>1, <2>2, <2>3, HeldEnter
<1> HIDE DEF u
<1>7. Scope(c, u, s)
  BY <1>1, <1>2, <1>3, <1>4, <1>6 DEF Scope, FunctionEntry, ForVars
<1> QED
  BY <1>5, <1>7 DEF u

\* A block is left: the entries freed are those of the block, and every loop
\* around it keeps its variable.
LEMMA ScopeClose ==
    ASSUME NEW c, NEW t, NEW s, Scope(c, t, s), c # <<>>, Head(c).k = "block"
    PROVE  LET m == Cardinality({i \in DOMAIN t : t[i].add = s}) IN
           Scope(Tail(c), SubSeq(t, m + 1, Len(t)), s - 1)
<1> DEFINE d == Tail(c)
           m == Cardinality({i \in DOMAIN t : t[i].add = s})
           u == SubSeq(t, m + 1, Len(t))
<1>1. /\ c \in Seq(FrameI) /\ s \in Nat /\ Len(c) \in Nat /\ Len(c) >= 2
      /\ t \in Seq(Entry) /\ Head(c) = c[1] /\ s = Outside(Block, c, 1) + 1
      /\ c[Len(c)].k = "body" /\ FunctionLast(t) /\ s >= 1 /\ s - 1 \in Nat
      /\ \A i \in 1..Len(c) : Outside(Block, c, i) < s
  <2>1. "block" \notin FunctionFrames
    BY DEF FunctionFrames
  <2> QED
    BY <2>1, ScopeFacts
<1>2. Stack(d)
  BY TailStack DEF Scope
<1>3. /\ d \in Seq(FrameI) /\ Len(d) = Len(c) - 1
      /\ \A i \in 1..(Len(c) - 1) : d[i] = c[i + 1]
  BY <1>1, TailShape
<1>4. m \in Nat /\ m =< Len(t) /\ \A i \in 1..Len(t) : t[i].add = s <=> i =< m
  BY <1>1, BlockFirst DEF Scope
<1> HIDE DEF d, m
<1>5. u \in Seq(Entry)
  BY <1>1, <1>4, DropShape
<1>6. ASSUME NEW i \in 0..Len(d) PROVE Outside(Block, c, i + 1) = Outside(Block, d, i)
  <2>1. Len(c) = Len(d) + 1 /\ \A j \in 1..Len(d) : c[j + 1] = d[j]
    BY <1>1, <1>3
  <2>2. c \in Seq(FrameI) /\ d \in Seq(FrameI)
    BY <1>1, <1>3
  <2> QED
    BY <2>1, <2>2, OutsideShift
<1>7. s - 1 = Outside(Block, d, 0)
  <2>1. 0 \in 0..Len(d) /\ 0 + 1 = 1 /\ 1 \in 0..Len(c)
    BY <1>1, <1>3
  <2>2. Outside(Block, c, 1) = Outside(Block, d, 0) /\ Outside(Block, c, 1) \in Nat
    BY <1>1, <1>6, <2>1, OutsideType
  <2> QED
    BY <1>1, <2>2
<1>8. FunctionLast(u)
  <2>1. \A i \in 1..Len(t) : i =< m => t[i].add > 0
    BY <1>1, <1>4
  <2> QED
    BY <1>1, <1>4, <2>1, FunctionLastDrop
<1>9. Ordered(u, s - 1)
  <2>1. Len(t) \in Nat
    BY <1>1
  <2>2. \A i \in (m + 1)..Len(t) : t[i].add =< s - 1
    <3> SUFFICES ASSUME NEW i \in (m + 1)..Len(t) PROVE t[i].add =< s - 1
      OBVIOUS
    <3>1. i \in 1..Len(t) /\ ~(i =< m)
      BY <1>4, <2>1
    <3>2. t[i] \in Entry /\ t[i].add =< s /\ t[i].add # s
      BY <1>1, <1>4, <3>1 DEF Scope, Ordered
    <3> QED
      BY <1>1, <3>2 DEF Entry
  <2> QED
    BY <1>1, <1>4, <2>2, OrderedDrop DEF Scope
<1>10. d # <<>> /\ d[Len(d)] = c[Len(c)]
  <2>1. Len(d) \in 1..(Len(c) - 1) /\ Len(d) + 1 = Len(c)
    BY <1>1, <1>3
  <2>2. d[Len(d)] = c[Len(c)]
    BY <1>3, <2>1
  <2> QED
    BY <1>1, <1>3, <2>2
<1>11. ASSUME NEW i \in 1..Len(d), d[i].k \in ForFrames
       PROVE  Held(d[i].name, Outside(Block, d, i), u)
  <2> DEFINE l == Outside(Block, d, i)
  <2>1. i + 1 \in 1..Len(c) /\ i \in 1..(Len(c) - 1) /\ i \in 0..Len(d)
    BY <1>1, <1>3
  <2>2. c[i + 1] = d[i] /\ Outside(Block, c, i + 1) = l
    BY <1>3, <1>6, <2>1
  <2>3. Held(d[i].name, l, t) /\ l < s
    BY <1>1, <1>11, <2>1, <2>2 DEF Scope, ForVars
  <2>4. l \in Nat
    BY <1>3, <2>1, OutsideType
  <2> HIDE DEF l
  <2>5. \A j \in 1..Len(t) : j =< m => t[j].add > l
    BY <1>1, <1>4, <2>3, <2>4
  <2>6. Held(d[i].name, l, u)
    BY <1>1, <1>4, <2>3, <2>4, <2>5, HeldDrop
  <2> QED
    BY <2>6 DEF l
<1> HIDE DEF u
<1>12. Scope(d, u, s - 1)
  BY <1>1, <1>2, <1>5, <1>7, <1>8, <1>9, <1>10, <1>11 DEF Scope, FunctionEntry, ForVars
<1> QED
  BY <1>12 DEF u, d, m

\* A FOR is left: the first entry is its variable, and it alone is freed.
LEMMA ScopeLoop ==
    ASSUME NEW c, NEW t, NEW s, Scope(c, t, s), c # <<>>, Head(c).k = "for"
    PROVE  /\ t # <<>> /\ Head(t).name = Head(c).name /\ t[1].add = s
           /\ Scope(Tail(c), SubSeq(t, 2, Len(t)), s)
<1> DEFINE d == Tail(c)
           u == SubSeq(t, 2, Len(t))
<1>1. /\ c \in Seq(FrameI) /\ s \in Nat /\ Len(c) \in Nat /\ Len(c) >= 2
      /\ t \in Seq(Entry) /\ Head(c) = c[1] /\ s = Outside(Block, c, 1)
      /\ c[Len(c)].k = "body" /\ FunctionLast(t)
  BY ScopeFacts DEF FunctionFrames
<1>2. /\ Scope(d, t, s) /\ d # <<>> /\ Head(d).k = "block"
  BY ScopeTail DEF On, FunctionFrames, Block
<1>3. Held(c[1].name, s, t)
  <2>1. 1 \in 1..Len(c) /\ c[1].k \in ForFrames
    BY <1>1 DEF ForFrames
  <2> QED
    BY <1>1, <2>1 DEF Scope, ForVars
<1>4. t # <<>> /\ Len(t) >= 1 /\ Head(t) = t[1] /\ t[1].name = c[1].name /\ t[1].add = s
  BY <1>1, <1>3, HeldFirst DEF Scope
<1>5. /\ d \in Seq(FrameI) /\ Len(d) \in Nat /\ s >= 1 /\ d[Len(d)].k = "body"
      /\ Stack(d) /\ s = Outside(Block, d, 0)
      /\ \A i \in 1..Len(d) : Outside(Block, d, i) < s
  <2>1. "block" \notin FunctionFrames
    BY DEF FunctionFrames
  <2> QED
    BY <1>2, <2>1, ScopeFacts DEF Scope
<1> HIDE DEF d
<1>6. u \in Seq(Entry) /\ 1 \in Nat /\ 1 + 1 = 2
  <2>1. 1 \in Nat /\ 1 + 1 = 2
    OBVIOUS
  <2> QED
    BY <1>1, <2>1, DropShape
<1>7. Ordered(u, s)
  <2>1. \A i \in (1 + 1)..Len(t) : t[i].add =< s
    BY <1>1 DEF Scope, Ordered
  <2> QED
    BY <1>1, <1>6, <2>1, OrderedDrop DEF Scope
<1>8. FunctionLast(u)
  <2>1. \A i \in 1..Len(t) : i =< 1 => t[i].add > 0
    BY <1>1, <1>4, <1>5
  <2> QED
    BY <1>1, <1>6, <2>1, FunctionLastDrop
<1>9. ASSUME NEW i \in 1..Len(d), d[i].k \in ForFrames
      PROVE  Held(d[i].name, Outside(Block, d, i), u)
  <2> DEFINE l == Outside(Block, d, i)
  <2>1. Held(d[i].name, l, t) /\ l < s
    BY <1>2, <1>5, <1>9 DEF Scope, ForVars
  <2>2. l \in Nat
    <3>1. i \in 0..Len(d)
      BY <1>5
    <3> QED
      BY <1>5, <3>1, OutsideType
  <2> HIDE DEF l
  <2>3. \A j \in 1..Len(t) : j =< 1 => t[j].add > l
    BY <1>1, <1>4, <2>1, <2>2
  <2>4. Held(d[i].name, l, u)
    BY <1>1, <1>6, <2>1, <2>2, <2>3, HeldDrop
  <2> QED
    BY <2>4 DEF l
<1> HIDE DEF u
<1>10. Scope(d, u, s)
  BY <1>2, <1>5, <1>6, <1>7, <1>8, <1>9 DEF Scope, FunctionEntry, ForVars
<1> QED
  BY <1>1, <1>4, <1>10 DEF u, d

\* Outside every block: no construct, or the frame of the function alone.
LEMMA ScopeEmpty ==
    /\ Scope(<<>>, <<>>, 0)
    /\ \A t, s : Scope(<<>>, t, s) => t = <<>> /\ s = 0
<1>1. <<>> \in Seq(FrameI) /\ <<>> \in Seq(Entry) /\ Len(<<>>) = 0
  OBVIOUS
<1>2. Outside(Block, <<>>, 0) = 0
  <2>1. 0 \in 0..Len(<<>>)
    BY <1>1
  <2>2. Outside(Block, <<>>, 0) \in Nat /\ Outside(Block, <<>>, 0) =< Len(<<>>) - 0
    BY <1>1, <2>1, OutsideType
  <2> QED
    BY <1>1, <2>2
<1>3. Scope(<<>>, <<>>, 0)
  BY <1>1, <1>2 DEF Scope, Stack, Standing, Ordered, FunctionEntry, ForVars
<1> QED
  BY <1>2, <1>3 DEF Scope, FunctionEntry

LEMMA ScopeSingle ==
    ASSUME NEW d \in Seq(FrameI), Len(d) = 1, d[1].k \in FunctionFrames,
           NEW t \in Seq(Entry), Ordered(t, 0), FunctionEntry(d, t)
    PROVE  Scope(d, t, 0)
<1>1. Outside(Block, d, 0) = 0
  <2>1. 1 \in 1..Len(d) /\ 1 \in 0..Len(d) /\ 1 - 1 = 0 /\ d[1].k \notin Block
    BY DEF FunctionFrames, Block
  <2>2. Outside(Block, d, 1) \in Nat /\ Outside(Block, d, 1) =< Len(d) - 1
    BY <2>1, OutsideType
  <2>3. Outside(Block, d, 1 - 1) = Outside(Block, d, 1)
    BY <2>1, OutsideStep
  <2> QED
    BY <2>1, <2>2, <2>3
<1>2. Standing(d)
  BY DEF Standing, FunctionFrames, ExprFrames
<1>3. ForVars(d, t)
  BY DEF ForVars, FunctionFrames, ForFrames
<1> QED
  BY <1>1, <1>2, <1>3 DEF Scope, Stack

-----------------------------------------------------------------------------
(* Every action keeps the stack and the table together. *)

ScopeInv ==
    /\ Scope(ctx, symbol_table, num_scope)
    /\ pending \in Int
    /\ stale \in Nat
    /\ StmtsTyped

\* pending counts up and down by one.
LEMMA PendingStep ==
    ASSUME pending \in Int, [Next]_vars
    PROVE  pending' \in Int
<1>1. PopValue \/ PushValue \/ UNCHANGED pending => pending' \in Int
  BY DEF PopValue, PushValue
<1>2. CASE FunctionRule
  BY <1>2 DEF FunctionRule, BeginPackage, EndPackage, FunctionName,
     Parameter, ParamsEnd, CloseBlock, FreeParameters, EndOfFile, SyntaxError,
     Stop
<1>3. CASE Statement
  BY <1>1, <1>3 DEF Statement, SetStart, Step, ForName, ReturnStart, IfStart, Set,
     Return, BeginIf, EndIf, Else, Fi, WhileStart, WhileCondition, EndWhile,
     ForInit, ForBound, EndFor, OpenExpression, Stop
<1>4. CASE Expression
  <2>1. Argument \/ Call => pending' \in Int
    <3>1. Argument => pending' = pending - 1
      BY DEF Argument
    <3>2. Call => pending' = pending + 1 \/ pending' = pending
      BY DEF Call, Stop
    <3> QED
      BY <3>1, <3>2
  <2>2. ASSUME NEW op \in Operators, Branching(op) PROVE pending' \in Int
    BY <1>1, <2>2 DEF Branching, Stop
  <2>3. ASSUME NEW x \in Names, Identifier(x) \/ CallStart(x) PROVE pending' \in Int
    BY <1>1, <2>3 DEF Identifier, CallStart, Stop
  <2>4. Constant \/ Arithmetic => pending' \in Int
    BY <1>1 DEF Constant, Arithmetic
  <2> QED
    BY <1>4, <2>1, <2>2, <2>3, <2>4 DEF Expression
<1>5. CASE Ended \/ UNCHANGED vars
  BY <1>5 DEF Ended, vars
<1> QED
  BY <1>2, <1>3, <1>4, <1>5 DEF Next

\* Steps that leave the stack and the table alone.
LEMMA ScopeSame ==
    ASSUME ScopeInv, StmtsTyped', pending' \in Int,
           UNCHANGED <<symbol_table, num_scope, stale, ctx>>
    PROVE  ScopeInv'
BY DEF ScopeInv

LEMMA FrameTyped ==
    ASSUME ScopeInv, NEW k \in FrameKinds, NEW x \in Names \cup {NoName}, NEW n \in Nat,
           k = "set" => x \in Names
    PROVE  /\ NewFrame(k, x, n) \in FrameI
           /\ NewFrame(k, x, n).k = k /\ NewFrame(k, x, n).name = x
BY DEF ScopeInv, NewFrame, FrameI

LEMMA TopTyped ==
    ASSUME ScopeInv, ctx # <<>>
    PROVE  /\ Top \in FrameI /\ Top.k \in FrameKinds /\ Top.n \in Nat
           /\ Top.name \in Names \cup {NoName}
           /\ Top.k = "set" => Top.name \in Names
<1>1. Top \in FrameI
  BY ScopeFacts DEF ScopeInv, Top
<1> QED
  BY <1>1 DEF FrameI

LEMMA EntryTyped ==
    ASSUME ScopeInv, NEW x \in Names
    PROVE  /\ Variable(x) \in Entry /\ Variable(x).name = x
           /\ Variable(x).add = num_scope
<1>1. num_scope \in Nat
  <2>1. CASE ctx = <<>>
    BY <2>1, ScopeEmpty DEF ScopeInv
  <2>2. CASE ctx # <<>>
    BY <2>2, ScopeFacts DEF ScopeInv
  <2> QED
    BY <2>1, <2>2
<1> QED
  BY <1>1 DEF Variable, Entry, Class

LEMMA ScopeFunctionRule ==
    ASSUME ScopeInv, StmtsTyped', pending' \in Int, FunctionRule
    PROVE  ScopeInv'
<1>1. ASSUME NEW r, Stop(r)
      PROVE  ScopeInv'
  BY <1>1, ScopeSame DEF Stop, tableVars
<1>2. /\ Scope(ctx, symbol_table, num_scope) /\ stale \in Nat
      /\ symbol_table \in Seq(Entry)
  BY DEF ScopeInv, Scope
<1>3. ASSUME NEW k, In(k), k \in FunctionFrames
      PROVE  /\ ctx # <<>> /\ Len(ctx) = 1 /\ ctx[1].k = k /\ num_scope = 0
             /\ ctx \in Seq(FrameI) /\ Top \in FrameI /\ Head(ctx) = ctx[1]
             /\ Ordered(symbol_table, 0) /\ FunctionEntry(ctx, symbol_table)
             /\ Top = ctx[1] /\ ctx[Len(ctx)].k = k
  <2>1. ctx # <<>> /\ Top.k = k
    BY <1>3 DEF In
  <2> QED
    BY <1>2, <1>3, <2>1, ScopeFacts DEF Top, Scope
<1>4. ASSUME NEW k \in FunctionFrames, In(k), NEW g \in FrameI, g.k \in FunctionFrames,
             NEW t \in Seq(Entry), Ordered(t, 0),
             g.k = "params" \/ g.k = "body" => FunctionLast(t),
             g.k = "end" => Len(t) =< 1, g.k # "begun"
      PROVE  /\ Scope(Push(g, Tail(ctx)), t, 0)
             /\ Push(g, Tail(ctx)) # <<>> /\ Head(Push(g, Tail(ctx))) = g
  <2> DEFINE d == Push(g, Tail(ctx))
  <2>1. ctx # <<>> /\ Len(ctx) = 1 /\ ctx \in Seq(FrameI)
    BY <1>3, <1>4
  <2>2. /\ d \in Seq(FrameI) /\ Len(d) = 1 /\ d # <<>> /\ d[1] = g /\ Head(d) = g
    BY <2>1, SwapShape
  <2> HIDE DEF d
  <2>3. FunctionEntry(d, t)
    BY <1>4, <2>2 DEF FunctionEntry
  <2>4. Scope(d, t, 0)
    BY <1>4, <2>2, <2>3, ScopeSingle
  <2> QED
    BY <2>2, <2>4 DEF d
<1>5. ASSUME NEW p \in Packages, BeginPackage(p)
      PROVE  ScopeInv'
  <2>1. CASE Stop("aborted")
    BY <1>1, <2>1
  <2>2. CASE /\ ctx' = Push(NewFrame("begun", NoName, 0), ctx)
             /\ UNCHANGED <<symbol_table, num_scope, stale>>
    <3> DEFINE f == NewFrame("begun", NoName, 0)
               d == Push(f, <<>>)
    <3>1. ctx = <<>> /\ symbol_table = <<>> /\ num_scope = 0
      BY <1>2, <1>5, ScopeEmpty DEF BeginPackage
    <3>2. f \in FrameI /\ f.k = "begun"
      <4>1. "begun" \in FrameKinds /\ NoName \in Names \cup {NoName} /\ 0 \in Nat
        BY DEF FrameKinds
      <4> QED
        BY <4>1, FrameTyped
    <3>3. <<>> \in Seq(FrameI) /\ <<>> \in Seq(Entry) /\ Len(<<>>) = 0
      OBVIOUS
    <3> HIDE DEF f
    <3>4. d \in Seq(FrameI) /\ Len(d) = 1 /\ d[1] = f
      <4>1. d \in Seq(FrameI) /\ Len(d) = Len(<<>>) + 1 /\ d[1] = f
        BY <3>2, <3>3, PushShape
      <4> QED
        BY <3>3, <4>1
    <3> HIDE DEF d
    <3>5. FunctionEntry(d, <<>>) /\ Ordered(<<>>, 0)
      BY <3>2, <3>4 DEF FunctionEntry, Ordered
    <3>6. Scope(d, <<>>, 0)
      BY <3>2, <3>3, <3>4, <3>5, ScopeSingle DEF FunctionFrames
    <3>7. ctx' = d /\ symbol_table' = <<>> /\ num_scope' = 0 /\ stale' = stale
      BY <2>2, <3>1 DEF d, f
    <3> QED
      BY <1>2, <3>6, <3>7 DEF ScopeInv
  <2> QED
    BY <1>5, <2>1, <2>2 DEF BeginPackage
<1>6. ASSUME NEW x \in Names, FunctionName(x)
      PROVE  ScopeInv'
  <2>1. CASE Stop("aborted")
    BY <1>1, <2>1
  <2>2. CASE ~Stop("aborted")
    <3> DEFINE g == NewFrame("params", x, 0)
    <3>1. PICK n \in Uninitialised :
             symbol_table' = <<[name |-> x, class |-> "FUNCTION", add |-> 0,
                                nParams |-> n]>> \o symbol_table
      BY <1>6, <2>2 DEF FunctionName
    <3> DEFINE e == [name |-> x, class |-> "FUNCTION", add |-> 0, nParams |-> n]
    <3>2. /\ In("begun") /\ x = FileName
          /\ ctx' = Push(g, Tail(ctx))
          /\ UNCHANGED <<num_scope, stale>>
      BY <1>6, <2>2 DEF FunctionName
    <3>3. symbol_table = <<>> /\ num_scope = 0
      BY <1>3, <3>2 DEF FunctionEntry, FunctionFrames
    <3>4. n \in Nat /\ e \in Entry /\ e.name = FileName /\ e.add = 0 /\ e.nParams = n
      BY <1>2, <3>2 DEF Uninitialised, Entry, Class
    <3>5. g \in FrameI /\ g.k = "params"
      <4>1. "params" \in FrameKinds /\ x \in Names \cup {NoName} /\ 0 \in Nat
        BY DEF FrameKinds
      <4> QED
        BY <4>1, FrameTyped
    <3> HIDE DEF e, g
    <3>6. symbol_table' = <<e>>
      BY <3>1, <3>3 DEF e
    <3>7. <<e>> \in Seq(Entry) /\ Len(<<e>>) = 1 /\ <<e>>[1] = e
      BY <3>4
    <3>8. Ordered(<<e>>, 0) /\ FunctionLast(<<e>>)
      BY <3>4, <3>7 DEF Ordered, FunctionLast
    <3>9. Scope(Push(g, Tail(ctx)), <<e>>, 0)
      BY <1>4, <3>2, <3>5, <3>7, <3>8 DEF FunctionFrames
    <3> QED
      BY <1>2, <3>2, <3>3, <3>6, <3>9 DEF ScopeInv
  <2> QED
    BY <2>1, <2>2
<1>7. ASSUME NEW x \in Names, Parameter(x)
      PROVE  ScopeInv'
  <2>1. CASE Stop("aborted")
    BY <1>1, <2>1
  <2>2. CASE ~Stop("aborted")
    <3> DEFINE t == symbol_table
               L == Len(t)
               w == [t EXCEPT ![L].nParams = @ + 1]
               e == Variable(x)
               u == <<e>> \o w
    <3>1. /\ In("params") /\ ~Found(x)
          /\ symbol_table' = <<Variable(x)>> \o
                [symbol_table EXCEPT ![Position(FileName)].nParams = @ + 1]
          /\ UNCHANGED <<num_scope, stale, ctx>>
      BY <1>7, <2>2 DEF Parameter
    <3>2. /\ num_scope = 0 /\ Ordered(t, 0) /\ FunctionLast(t)
          /\ Len(ctx) = 1 /\ ctx[1].k = "params" /\ ctx \in Seq(FrameI) /\ ctx # <<>>
      BY <1>3, <3>1 DEF FunctionEntry, FunctionFrames
    <3>3. /\ Position(FileName) = L /\ L \in 1..L /\ t[L] \in Entry
      BY <1>2, <3>2, FunctionPosition
    <3>4. symbol_table' = u
      BY <3>1, <3>3
    <3>5. e \in Entry /\ e.name = x /\ e.add = 0
      BY <3>2, EntryTyped
    <3>6. /\ w \in Seq(Entry) /\ Len(w) = L /\ L \in Nat
          /\ \A i \in 1..L : w[i].name = t[i].name /\ w[i].add = t[i].add
          /\ w[L].nParams = t[L].nParams + 1 /\ t[L].nParams \in Nat
      <4>1. L \in Nat /\ DOMAIN t = 1..L /\ \A i \in 1..L : t[i] \in Entry
        BY <1>2
      <4>2. t[L].nParams \in Nat /\ [t[L] EXCEPT !.nParams = @ + 1] \in Entry
        BY <3>3 DEF Entry
      <4>3. w = [i \in 1..L |-> IF i = L THEN [t[L] EXCEPT !.nParams = @ + 1] ELSE t[i]]
        BY <1>2, <4>1
      <4>4. w \in [1..L -> Entry]
        BY <4>1, <4>2, <4>3
      <4>5. w \in Seq(Entry) /\ Len(w) = L
        BY <4>1, <4>4
      <4>6. \A i \in 1..L : w[i].name = t[i].name /\ w[i].add = t[i].add
        BY <4>1, <4>3 DEF Entry
      <4>7. w[L].nParams = t[L].nParams + 1
        BY <3>3, <4>3 DEF Entry
      <4> QED
        BY <4>1, <4>2, <4>5, <4>6, <4>7
    <3> HIDE DEF w, e
    <3>7. Ordered(w, 0)
      BY <3>2, <3>6 DEF Ordered
    <3>8. \A i \in 1..Len(w) : w[i].name # e.name
      <4>1. DOMAIN t = 1..L
        BY <1>2
      <4>2. \A i \in 1..L : t[i].name # x
        BY <3>1, <4>1 DEF Found
      <4> QED
        BY <3>5, <3>6, <4>2
    <3>9. Ordered(u, 0)
      BY <3>5, <3>6, <3>7, <3>8, OrderedEnter
    <3>10. /\ u \in Seq(Entry) /\ Len(u) = L + 1 /\ u[1] = e
           /\ \A i \in 1..L : u[i + 1] = w[i]
           /\ \A i \in 2..Len(u) : i - 1 \in 1..L /\ u[i] = w[i - 1]
      BY <3>5, <3>6, EnterShape
    <3> HIDE DEF u
    <3>11. u[Len(u)] = w[L]
      BY <3>3, <3>6, <3>10
    <3>12. 1 + t[L].nParams >= L
      <4>1. 1 \in 1..L
        BY <3>3, <3>6
      <4>2. t[1].add = 0
        <5>1. t[1] \in Entry /\ t[1].add =< 0
          BY <1>2, <3>2, <4>1 DEF Ordered
        <5> QED
          BY <5>1 DEF Entry
      <4> QED
        BY <3>2, <4>1, <4>2 DEF FunctionLast
    <3>13. FunctionLast(u)
      <4>1. u[Len(u)].name = FileName /\ u[Len(u)].add = 0
        BY <3>2, <3>3, <3>6, <3>11 DEF FunctionLast
      <4>2. ASSUME NEW j \in 1..Len(u) PROVE j + u[Len(u)].nParams >= Len(u)
        BY <3>6, <3>10, <3>11, <3>12
      <4> QED
        BY <3>6, <3>10, <4>1, <4>2 DEF FunctionLast
    <3>14. FunctionEntry(ctx, u)
      BY <3>2, <3>13 DEF FunctionEntry
    <3>15. Scope(ctx, u, 0)
      BY <3>2, <3>9, <3>10, <3>14, ScopeSingle DEF FunctionFrames
    <3> QED
      BY <1>2, <3>1, <3>2, <3>4, <3>15 DEF ScopeInv
  <2> QED
    BY <2>1, <2>2
<1>8. CASE ParamsEnd
  <2>1. CASE Stop("crashed")
    BY <1>1, <2>1
  <2>2. CASE ~Stop("crashed")
    <3> DEFINE g == NewFrame("body", FileName, 0)
               b == NewFrame("block", NoName, 0)
    <3>1. /\ In("params") /\ ctx' = Push(b, Push(g, Tail(ctx)))
          /\ num_scope' = num_scope + 1 /\ UNCHANGED <<symbol_table, stale>>
      BY <1>8, <2>2 DEF ParamsEnd
    <3>2. /\ num_scope = 0 /\ Ordered(symbol_table, 0) /\ FunctionLast(symbol_table)
      BY <1>3, <3>1 DEF FunctionEntry, FunctionFrames
    <3>3. g \in FrameI /\ g.k = "body" /\ b \in FrameI /\ b.k = "block"
      <4>1. {"body", "block"} \subseteq FrameKinds /\ 0 \in Nat
            /\ {FileName, NoName} \subseteq Names \cup {NoName}
        BY ConstantsAssumption DEF FrameKinds
      <4> QED
        BY <4>1, FrameTyped
    <3> HIDE DEF g, b
    <3>4. /\ Scope(Push(g, Tail(ctx)), symbol_table, 0)
          /\ Push(g, Tail(ctx)) # <<>> /\ Head(Push(g, Tail(ctx))) = g
      BY <1>2, <1>4, <3>1, <3>2, <3>3 DEF FunctionFrames
    <3>5. Scope(Push(b, Push(g, Tail(ctx))), symbol_table, 0 + 1)
      BY <3>3, <3>4, ScopeBlock DEF Owners
    <3> QED
      BY <1>2, <3>1, <3>2, <3>5 DEF ScopeInv
  <2> QED
    BY <2>1, <2>2
<1>9. CASE CloseBlock
  <2>1. /\ ctx # <<>> /\ Head(ctx).k = "block" /\ ctx' = Tail(ctx)
        /\ num_scope' = num_scope - 1 /\ stale' = stale
        /\ symbol_table' = SubSeq(symbol_table,
              Cardinality({i \in DOMAIN symbol_table :
                             symbol_table[i].add = num_scope}) + 1,
              Len(symbol_table))
    BY <1>9 DEF CloseBlock, In, Top, FreeFirst
  <2> QED
    BY <1>2, <2>1, ScopeClose DEF ScopeInv
<1>10. CASE FreeParameters
  <2> DEFINE g == [Top EXCEPT !.k = "end"]
             t == symbol_table
             n == search_symbol_table(FileName).nParams
             u == SubSeq(t, n + 1, Len(t))
  <2>1. /\ In("body") /\ ctx' = Push(g, Tail(ctx)) /\ num_scope' = num_scope
        /\ stale' = n /\ symbol_table' = u
    BY <1>10 DEF FreeParameters, FreeFirst
  <2>2. /\ num_scope = 0 /\ Ordered(t, 0) /\ FunctionLast(t) /\ Top \in FrameI
    BY <1>3, <2>1 DEF FunctionEntry, FunctionFrames
  <2>3. g \in FrameI /\ g.k = "end"
    BY <2>2 DEF FrameI, FrameKinds
  <2>4. n = t[Len(t)].nParams /\ n \in Nat /\ Len(t) \in Nat /\ Len(t) >= 1
    <3>1. search_symbol_table(FileName) = t[Len(t)] /\ t[Len(t)] \in Entry
      BY <1>2, <2>2, FunctionPosition
    <3>2. Len(t) \in Nat /\ Len(t) >= 1
      BY <1>2, <2>2 DEF FunctionLast
    <3> QED
      BY <3>1, <3>2 DEF Entry
  <2> HIDE DEF g, n
  <2>5. 1 + n >= Len(t)
    <3>1. 1 \in 1..Len(t)
      BY <2>4
    <3>2. t[1].add = 0
      <4>1. t[1] \in Entry /\ t[1].add =< 0
        BY <1>2, <2>2, <3>1 DEF Ordered
      <4> QED
        BY <4>1 DEF Entry
    <3> QED
      BY <2>2, <2>4, <3>1, <3>2 DEF FunctionLast
  <2>6. u \in Seq(Entry) /\ Len(u) =< 1
    <3>1. /\ u \in Seq(Entry)
          /\ n =< Len(t) => Len(u) = Len(t) - n
          /\ n >= Len(t) => u = <<>>
      BY <1>2, <2>4, DropShape
    <3>2. Len(<<>>) = 0
      OBVIOUS
    <3> QED
      BY <2>4, <2>5, <3>1, <3>2
  <2>7. Ordered(u, 0)
    <3>1. \A i \in (n + 1)..Len(t) : t[i].add =< 0
      BY <2>2, <2>4 DEF Ordered
    <3> QED
      BY <1>2, <2>2, <2>4, <3>1, OrderedDrop
  <2> HIDE DEF u
  <2>8. Scope(Push(g, Tail(ctx)), u, 0)
    BY <1>4, <2>1, <2>3, <2>6, <2>7 DEF FunctionFrames
  <2> QED
    BY <2>1, <2>2, <2>4, <2>8 DEF ScopeInv
<1>11. ASSUME NEW p \in Packages, EndPackage(p)
       PROVE  ScopeInv'
  <2>1. CASE \E r \in Statuses : Stop(r)
    BY <1>1, <2>1
  <2>2. CASE /\ symbol_table' = FreeFirst(1) /\ ctx' = Tail(ctx)
             /\ UNCHANGED <<num_scope, stale>>
    <3> DEFINE t == symbol_table
               u == SubSeq(t, 1 + 1, Len(t))
    <3>1. In("end")
      BY <1>11 DEF EndPackage
    <3>2. /\ num_scope = 0 /\ Len(t) =< 1 /\ Len(ctx) = 1 /\ ctx # <<>>
          /\ ctx \in Seq(FrameI)
      BY <1>3, <3>1 DEF FunctionEntry, FunctionFrames
    <3>3. u = <<>>
      <4>1. 1 \in Nat /\ Len(t) \in Nat
        BY <1>2
      <4>2. 1 >= Len(t) => u = <<>>
        BY <1>2, <4>1, DropShape
      <4> QED
        BY <3>2, <4>1, <4>2
    <3>4. Tail(ctx) = <<>>
      <4>1. Tail(ctx) \in Seq(FrameI) /\ Len(Tail(ctx)) = Len(ctx) - 1
        BY <3>2, TailShape
      <4> QED
        BY <3>2, <4>1
    <3>5. ctx' = <<>> /\ symbol_table' = <<>> /\ num_scope' = 0 /\ stale' = stale
      BY <2>2, <3>2, <3>3, <3>4 DEF FreeFirst
    <3> QED
      BY <1>2, <3>5, ScopeEmpty DEF ScopeInv
  <2> QED
    BY <1>11, <2>1, <2>2 DEF EndPackage, Statuses
<1>12. CASE EndOfFile
  <2>1. ctx = <<>> /\ ctx' = ctx /\ symbol_table' = <<>>
        /\ UNCHANGED <<num_scope, stale>>
    BY <1>12 DEF EndOfFile
  <2> QED
    BY <1>2, <2>1, ScopeEmpty DEF ScopeInv
<1>13. CASE SyntaxError
  BY <1>1, <1>13 DEF SyntaxError
<1> QED
  BY <1>5, <1>6, <1>7, <1>8, <1>9, <1>10, <1>11, <1>12, <1>13 DEF FunctionRule

\* The current block, marked as holding a statement.
LEMMA ScopeEnclosing ==
    ASSUME ScopeInv, In("block")
    PROVE  /\ Scope(Enclosing, symbol_table, num_scope)
           /\ Enclosing # <<>> /\ Head(Enclosing).k = "block"
<1> DEFINE g == [Top EXCEPT !.n = 1]
<1>1. ctx # <<>> /\ Head(ctx).k = "block" /\ Top = Head(ctx)
  BY DEF In, Top
<1>2. g \in FrameI /\ g.k = "block"
  BY <1>1, TopTyped DEF FrameI
<1>3. Enclosing = Push(g, Tail(ctx)) /\ Scope(ctx, symbol_table, num_scope)
  BY DEF Enclosing, ScopeInv
<1> HIDE DEF g
<1>4. "block" \notin FunctionFrames \cup ForFrames
  BY DEF FunctionFrames, ForFrames
<1> QED
  BY <1>1, <1>2, <1>3, <1>4, ScopeSwap

\* A statement begins in the current block.
LEMMA ScopeStart ==
    ASSUME ScopeInv, In("block"), StmtsTyped', pending' \in Int,
           NEW k \in {"set", "return", "if", "while"},
           NEW x \in Names \cup {NoName}, NEW n \in Nat, k = "set" => x \in Names,
           ctx' = Push(NewFrame(k, x, n), Enclosing),
           UNCHANGED <<symbol_table, num_scope, stale>>
    PROVE  ScopeInv'
<1> DEFINE f == NewFrame(k, x, n)
<1>1. f \in FrameI /\ f.k = k
  <2>1. k \in FrameKinds
    BY DEF FrameKinds, ExprFrames
  <2> QED
    BY <2>1, FrameTyped
<1> HIDE DEF f
<1>2. f.k \notin FunctionFrames \cup Block /\ f.k \notin ForFrames /\ "block" \in On(f.k)
  BY <1>1 DEF FunctionFrames, Block, ForFrames, On
<1>3. Scope(Push(f, Enclosing), symbol_table, num_scope)
  BY <1>1, <1>2, ScopeEnclosing, ScopePush
<1> QED
  BY <1>3 DEF ScopeInv, f

\* A construct above the function's frame is left.
LEMMA ScopeLeave ==
    ASSUME ScopeInv, ctx # <<>>, Top.k \notin FunctionFrames \cup Block,
           StmtsTyped', pending' \in Int, ctx' = Tail(ctx),
           UNCHANGED <<symbol_table, num_scope, stale>>
    PROVE  ScopeInv'
BY ScopeTail DEF ScopeInv, Top

\* The top frame gets another number, or becomes the next part of its
\* statement.
LEMMA ScopeReplace ==
    ASSUME ScopeInv, ctx # <<>>, NEW k \in FrameKinds, NEW n \in Nat,
           <<Top.k, k>> \in {<<"if", "then">>, <<"then", "thenEnd">>,
                             <<"thenEnd", "else">>, <<"while", "do">>,
                             <<"forinit", "forbound">>, <<"forbound", "for">>,
                             <<"arg", "arg">>}
    PROVE  LET d == Push([Top EXCEPT !.k = k, !.n = n], Tail(ctx)) IN
           Scope(d, symbol_table, num_scope) /\ d # <<>> /\ Head(d).k = k
<1> DEFINE g == [Top EXCEPT !.k = k, !.n = n]
<1>1. /\ g \in FrameI /\ g.k = k /\ g.name = Top.name /\ Top = Head(ctx)
  BY TopTyped DEF FrameI, Top
<1> HIDE DEF g
<1>2. /\ Top.k \notin FunctionFrames /\ k \notin FunctionFrames
      /\ On(k) = On(Top.k) /\ (Top.k = "arg" => k = "arg")
      /\ k \notin Block /\ Top.k \notin Block
      /\ k \in ForFrames => Top.k \in ForFrames
  BY DEF FunctionFrames, On, Block, ForFrames
<1>3. Scope(ctx, symbol_table, num_scope)
  BY DEF ScopeInv
<1>4. /\ Scope(Push(g, Tail(ctx)), symbol_table, num_scope)
      /\ Push(g, Tail(ctx)) # <<>> /\ Head(Push(g, Tail(ctx))) = g
  BY <1>1, <1>2, <1>3, ScopeSwap
<1> QED
  BY <1>1, <1>4 DEF g

\* A block opens over the construct that owns it.
LEMMA ScopeOpenBlock ==
    ASSUME ScopeInv, ctx # <<>>, StmtsTyped', pending' \in Int, NEW n \in Nat,
           NEW k \in {"then", "else", "do", "for"}, OpenBlock(k, n),
           <<Top.k, k>> \in {<<"if", "then">>, <<"thenEnd", "else">>,
                             <<"while", "do">>, <<"forbound", "for">>}
    PROVE  ScopeInv'
<1> DEFINE d == Push([Top EXCEPT !.k = k, !.n = n], Tail(ctx))
           b == [k |-> "block", base |-> 0, name |-> NoName, n |-> 0]
<1>1. Scope(d, symbol_table, num_scope) /\ d # <<>> /\ Head(d).k = k
  <2>1. k \in FrameKinds
    BY DEF FrameKinds
  <2> QED
    BY <2>1, ScopeReplace
<1>2. b \in FrameI /\ b.k = "block"
  BY DEF FrameI, FrameKinds
<1>3. ctx' = Push(b, d) /\ num_scope' = num_scope + 1
      /\ UNCHANGED <<symbol_table, stale>>
  BY DEF OpenBlock
<1> HIDE DEF d, b
<1>4. Scope(Push(b, d), symbol_table, num_scope + 1)
  BY <1>1, <1>2, ScopeBlock DEF Owners
<1> QED
  BY <1>3, <1>4 DEF ScopeInv

LEMMA ScopeStatement ==
    ASSUME ScopeInv, StmtsTyped', pending' \in Int, Statement
    PROVE  ScopeInv'
<1>1. ASSUME NEW r, Stop(r)
      PROVE  ScopeInv'
  BY <1>1, ScopeSame DEF Stop, tableVars
<1>2. /\ Scope(ctx, symbol_table, num_scope) /\ stale \in Nat
      /\ symbol_table \in Seq(Entry) /\ DOMAIN symbol_table = 1..Len(symbol_table)
  BY DEF ScopeInv, Scope
<1>3. \A s \in Stmts : Number(s) \in Nat
  BY DEF ScopeInv, StmtsTyped, Number
<1>4. ASSUME NEW k, In(k) \/ ExprDone(k)
      PROVE  ctx # <<>> /\ Top.k = k
  BY <1>4 DEF In, ExprDone
<1>5. ASSUME NEW x \in Names, ~Found(x)
      PROVE  \A i \in 1..Len(symbol_table) : symbol_table[i].name # Variable(x).name
  BY <1>2, <1>5 DEF Found, Variable
<1>6. ASSUME NEW x \in Names, SetStart(x)
      PROVE  ScopeInv'
  BY <1>6, ScopeStart DEF SetStart, OpenExpression, tableVars
<1>7. CASE ReturnStart \/ IfStart
  BY <1>7, ScopeStart DEF ReturnStart, IfStart, OpenExpression, tableVars
<1>8. CASE WhileStart
  <2>1. Number("while") \in Nat
    BY <1>3 DEF Stmts
  <2> QED
    BY <1>8, <2>1, ScopeStart DEF WhileStart, tableVars
<1>9. ASSUME NEW x \in Names, Step(x)
      PROVE  ScopeInv'
  <2>1. CASE Stop("aborted")
    BY <1>1, <2>1
  <2>2. CASE In("block") /\ ctx' = Enclosing /\ UNCHANGED tableVars
    BY <2>2, ScopeEnclosing DEF ScopeInv, tableVars
  <2> QED
    BY <1>9, <2>1, <2>2 DEF Step
<1>10. ASSUME NEW x \in Names, ForName(x)
       PROVE  ScopeInv'
  <2>1. CASE Stop("refused")
    BY <1>1, <2>1
  <2>2. CASE ~Stop("refused")
    <3> DEFINE f == NewFrame("forinit", x, 0)
               u == <<Variable(x)>> \o symbol_table
    <3>1. /\ In("block") /\ ~Found(x) /\ symbol_table' = u
          /\ ctx' = Push(f, Enclosing) /\ UNCHANGED <<num_scope, stale>>
      BY <1>10, <2>2 DEF ForName, Enter
    <3>2. Variable(x) \in Entry /\ Variable(x).name = x /\ Variable(x).add = num_scope
      BY EntryTyped
    <3>3. /\ Scope(Enclosing, symbol_table, num_scope)
          /\ Enclosing # <<>> /\ Head(Enclosing).k = "block"
      BY <3>1, ScopeEnclosing
    <3>4. Scope(Enclosing, u, num_scope) /\ Held(x, num_scope, u)
      <4>1. \A i \in 1..Len(symbol_table) : symbol_table[i].name # Variable(x).name
        BY <1>5, <3>1
      <4>2. /\ Scope(Enclosing, u, num_scope)
            /\ Held(Variable(x).name, num_scope, u)
        BY <3>2, <3>3, <4>1, ScopeEnter
      <4> QED
        BY <3>2, <4>2
    <3>5. f \in FrameI /\ f.k = "forinit" /\ f.name = x
      <4>1. "forinit" \in FrameKinds /\ x \in Names \cup {NoName} /\ 0 \in Nat
        BY DEF FrameKinds, ExprFrames
      <4> QED
        BY <4>1, FrameTyped
    <3> HIDE DEF f, u
    <3>6. f.k \notin FunctionFrames \cup Block /\ "block" \in On(f.k)
      BY <3>5 DEF FunctionFrames, Block, On
    <3>7. Scope(Push(f, Enclosing), u, num_scope)
      BY <3>3, <3>4, <3>5, <3>6, ScopePush
    <3> QED
      BY <1>2, <3>1, <3>7 DEF ScopeInv
  <2> QED
    BY <2>1, <2>2
<1>11. CASE Set
  <2> DEFINE x == Top.name
             u == <<Variable(x)>> \o symbol_table
  <2>1. /\ ctx # <<>> /\ Top.k = "set" /\ ctx' = Tail(ctx)
        /\ UNCHANGED <<num_scope, stale>>
        /\ symbol_table' = symbol_table \/ (~Found(x) /\ symbol_table' = u)
    BY <1>4, <1>11 DEF Set, Enter
  <2>2. /\ Scope(Tail(ctx), symbol_table, num_scope) /\ Tail(ctx) # <<>>
        /\ Head(Tail(ctx)).k = "block"
    <3>1. "set" \notin FunctionFrames \cup Block /\ On("set") = {"block"}
      BY DEF FunctionFrames, Block, On
    <3> QED
      BY <1>2, <2>1, <3>1, ScopeTail DEF Top
  <2>3. CASE symbol_table' = symbol_table
    BY <1>2, <2>1, <2>2, <2>3 DEF ScopeInv
  <2>4. CASE ~Found(x) /\ symbol_table' = u
    <3>1. x \in Names
      BY <2>1, TopTyped
    <3>2. Variable(x) \in Entry /\ Variable(x).name = x /\ Variable(x).add = num_scope
      BY <3>1, EntryTyped
    <3>3. \A i \in 1..Len(symbol_table) : symbol_table[i].name # Variable(x).name
      BY <1>5, <2>4, <3>1
    <3>4. Scope(Tail(ctx), u, num_scope)
      BY <2>2, <3>2, <3>3, ScopeEnter
    <3> QED
      BY <1>2, <2>1, <2>4, <3>4 DEF ScopeInv
  <2> QED
    BY <2>1, <2>3, <2>4
<1>12. CASE Return
  <2>1. /\ ctx # <<>> /\ Top.k = "return" /\ ctx' = Tail(ctx)
        /\ UNCHANGED <<symbol_table, num_scope, stale>>
    BY <1>4, <1>12 DEF Return, tableVars
  <2> QED
    BY <2>1, ScopeLeave DEF FunctionFrames, Block
<1>13. CASE BeginIf
  <2>1. ctx # <<>> /\ Top.k = "if" /\ OpenBlock("then", Number("if"))
    BY <1>4, <1>13 DEF BeginIf
  <2>2. Number("if") \in Nat
    BY <1>3 DEF Stmts
  <2> QED
    BY <2>1, <2>2, ScopeOpenBlock
<1>14. CASE EndIf
  <2> DEFINE g == [Top EXCEPT !.k = "thenEnd"]
  <2>1. /\ ctx # <<>> /\ Top.k = "then" /\ ctx' = Push(g, Tail(ctx))
        /\ UNCHANGED <<symbol_table, num_scope, stale>>
    BY <1>4, <1>14 DEF EndIf, tableVars
  <2>2. g = [Top EXCEPT !.k = "thenEnd", !.n = Top.n] /\ Top.n \in Nat
    BY <2>1, TopTyped DEF FrameI
  <2>3. Scope(Push(g, Tail(ctx)), symbol_table, num_scope)
    <3>1. "thenEnd" \in FrameKinds
      BY DEF FrameKinds
    <3> HIDE DEF g
    <3> QED
      BY <2>1, <2>2, <3>1, ScopeReplace
  <2> QED
    BY <1>2, <2>1, <2>3 DEF ScopeInv
<1>15. CASE Else
  <2>1. ctx # <<>> /\ Top.k = "thenEnd" /\ OpenBlock("else", Top.n)
    BY <1>4, <1>15 DEF Else
  <2>2. Top.n \in Nat
    BY <2>1, TopTyped
  <2> QED
    BY <2>1, <2>2, ScopeOpenBlock
<1>16. CASE Fi \/ EndWhile
  <2>1. /\ ctx # <<>> /\ Top.k \in {"thenEnd", "else", "do"} /\ ctx' = Tail(ctx)
        /\ UNCHANGED <<symbol_table, num_scope, stale>>
    BY <1>4, <1>16 DEF Fi, EndWhile, tableVars
  <2> QED
    BY <2>1, ScopeLeave DEF FunctionFrames, Block
<1>17. CASE WhileCondition
  <2>1. ctx # <<>> /\ Top.k = "while" /\ OpenBlock("do", Top.n)
    BY <1>4, <1>17 DEF WhileCondition
  <2>2. Top.n \in Nat
    BY <2>1, TopTyped
  <2> QED
    BY <2>1, <2>2, ScopeOpenBlock
<1>18. CASE ForInit
  <2>1. /\ ctx # <<>> /\ Top.k = "forinit"
        /\ ctx' = Push([Top EXCEPT !.k = "forbound", !.n = Number("for")], Tail(ctx))
        /\ UNCHANGED <<symbol_table, num_scope, stale>>
    BY <1>4, <1>18 DEF ForInit, tableVars
  <2>2. Number("for") \in Nat /\ "forbound" \in FrameKinds
    BY <1>3 DEF Stmts, FrameKinds, ExprFrames
  <2> QED
    BY <1>2, <2>1, <2>2, ScopeReplace DEF ScopeInv
<1>19. CASE ForBound
  <2>1. CASE Stop("aborted")
    BY <1>1, <2>1
  <2>2. CASE ~Stop("aborted")
    <3>1. ctx # <<>> /\ Top.k = "forbound" /\ OpenBlock("for", Top.n)
      BY <1>4, <1>19, <2>2 DEF ForBound
    <3>2. Top.n \in Nat
      BY <3>1, TopTyped
    <3> QED
      BY <3>1, <3>2, ScopeOpenBlock
  <2> QED
    BY <2>1, <2>2
<1>20. CASE EndFor
  <2>1. /\ ctx # <<>> /\ Top.k = "for" /\ ctx' = Tail(ctx)
        /\ symbol_table' = SubSeq(symbol_table, 2, Len(symbol_table))
        /\ UNCHANGED <<num_scope, stale>>
    <3>1. 1 + 1 = 2
      OBVIOUS
    <3> QED
      BY <1>4, <1>20, <3>1 DEF EndFor, FreeFirst
  <2> QED
    BY <1>2, <2>1, ScopeLoop DEF ScopeInv, Top
<1> QED
  BY <1>6, <1>7, <1>8, <1>9, <1>10, <1>11, <1>12, <1>13, <1>14, <1>15, <1>16,
     <1>17, <1>18, <1>19, <1>20 DEF Statement

LEMMA ScopeExpression ==
    ASSUME ScopeInv, StmtsTyped', pending' \in Int, Expression
    PROVE  ScopeInv'
<1>1. ASSUME UNCHANGED <<symbol_table, num_scope, stale, ctx>>
      PROVE  ScopeInv'
  BY <1>1, ScopeSame
<1>2. CASE \/ \E x \in Names : Identifier(x)
           \/ \E op \in Operators : Branching(op)
           \/ Constant \/ Arithmetic
  BY <1>1, <1>2 DEF Identifier, Branching, Constant, Arithmetic, Stop, tableVars
<1>3. ASSUME NEW x \in Names, CallStart(x)
      PROVE  ScopeInv'
  <2> DEFINE f == NewFrame("arg", x, 0)
  <2>1. /\ ctx # <<>> /\ Head(ctx).k \in ExprFrames /\ ctx' = Push(f, ctx)
        /\ UNCHANGED <<symbol_table, num_scope, stale>>
    BY <1>3 DEF CallStart, InExpr, Top, tableVars
  <2>2. f \in FrameI /\ f.k = "arg"
    <3>1. "arg" \in FrameKinds /\ x \in Names \cup {NoName} /\ 0 \in Nat
      BY DEF FrameKinds, ExprFrames
    <3> QED
      BY <3>1, FrameTyped
  <2> HIDE DEF f
  <2>3. f.k \notin FunctionFrames \cup Block /\ f.k \notin ForFrames /\ On(f.k) = ExprFrames
    BY <2>2 DEF FunctionFrames, Block, ForFrames, On
  <2>4. Scope(Push(f, ctx), symbol_table, num_scope)
    BY <2>1, <2>2, <2>3, ScopePush DEF ScopeInv
  <2> QED
    BY <2>1, <2>4 DEF ScopeInv
<1>4. CASE Argument
  <2> DEFINE g == [Top EXCEPT !.n = @ + 1]
  <2>1. /\ ctx # <<>> /\ Top.k = "arg" /\ ctx' = Push(g, Tail(ctx))
        /\ UNCHANGED <<symbol_table, num_scope, stale>>
    BY <1>4 DEF Argument, ExprDone, In, tableVars
  <2>2. g = [Top EXCEPT !.k = "arg", !.n = Top.n + 1] /\ Top.n + 1 \in Nat
    <3>1. Top \in [k : FrameKinds, base : Int, name : Names \cup {NoName}, n : Nat]
          /\ Top.n \in Nat
      BY <2>1, TopTyped DEF FrameI
    <3> DEFINE h == [Top EXCEPT !.k = "arg", !.n = Top.n + 1]
    <3>2. g.k = h.k /\ g.base = h.base /\ g.name = h.name /\ g.n = h.n
      BY <2>1, <3>1
    <3>3. Top.n + 1 \in Nat
      BY <3>1
    <3>4. g = h
      BY <2>1, <3>1, <3>2
    <3> QED
      BY <3>3, <3>4
  <2>3. Scope(Push(g, Tail(ctx)), symbol_table, num_scope)
    <3>1. "arg" \in FrameKinds
      BY DEF FrameKinds, ExprFrames
    <3> HIDE DEF g
    <3> QED
      BY <2>1, <2>2, <3>1, ScopeReplace
  <2> QED
    BY <2>1, <2>3 DEF ScopeInv
<1>5. CASE Call
  <2>1. CASE Stop("refused")
    BY <1>1, <2>1 DEF Stop, tableVars
  <2>2. CASE ~Stop("refused")
    <3>1. /\ ctx # <<>> /\ Top.k = "arg" /\ ctx' = Tail(ctx)
          /\ UNCHANGED <<symbol_table, num_scope, stale>>
      BY <1>5, <2>2 DEF Call, In, tableVars
    <3> QED
      BY <3>1, ScopeLeave DEF FunctionFrames, Block
  <2> QED
    BY <2>1, <2>2
<1> QED
  BY <1>2, <1>3, <1>4, <1>5 DEF Expression

\* The stack of constructs and the symbol table agree at every step of the
\* compiler, for every program.
THEOREM ScopeInvariant == Spec => []ScopeInv
<1>1. Init => ScopeInv
  <2> SUFFICES ASSUME Init PROVE ScopeInv
    OBVIOUS
  <2>1. StmtsTyped
    BY DEF Init, StmtsTyped
  <2> QED
    BY <2>1, ScopeEmpty DEF Init, ScopeInv
<1>2. ScopeInv /\ [Next]_vars => ScopeInv'
  <2> SUFFICES ASSUME ScopeInv, [Next]_vars PROVE ScopeInv'
    OBVIOUS
  <2>1. StmtsTyped'
    BY StmtsTypedStep DEF ScopeInv
  <2>2. pending' \in Int
    BY PendingStep DEF ScopeInv
  <2>3. CASE Ended \/ UNCHANGED vars
    BY <2>1, <2>2, <2>3, ScopeSame DEF Ended, vars, tableVars
  <2> QED
    BY <2>1, <2>2, <2>3, ScopeFunctionRule, ScopeStatement, ScopeExpression DEF Next
<1> QED
  BY <1>1, <1>2, PTL DEF Spec

\* Every name is in the table once, inner blocks come before outer ones and no
\* entry outlives its block (stable.c), whatever is declared where.
THEOREM ScopesAreOrdered == Spec => []ScopeOrdered
<1>1. ScopeInv => ScopeOrdered
  <2> SUFFICES ASSUME ScopeInv PROVE ScopeOrdered
    OBVIOUS
  <2>1. DOMAIN symbol_table = 1..Len(symbol_table) /\ Ordered(symbol_table, num_scope)
    BY DEF ScopeInv, Scope
  <2> QED
    BY <2>1 DEF ScopeOrdered, Ordered
<1> QED
  BY <1>1, ScopeInvariant, PTL

\* The entry the end of a FOR frees is the variable of that loop.
THEOREM ForFreesItsVariable == Spec => []ForVariableFirst
<1>1. ScopeInv => ForVariableFirst
  BY ScopeLoop DEF ScopeInv, ForVariableFirst, In, Top
<1> QED
  BY <1>1, ScopeInvariant, PTL

\* Between two functions and at the end of the text the table is empty.
THEOREM TableIsEmptied == Spec => []NothingLeft
<1>1. ScopeInv => NothingLeft
  BY ScopeEmpty DEF ScopeInv, NothingLeft
<1> QED
  BY <1>1, ScopeInvariant, PTL

\* Only the end of a block lowers num_scope.
LEMMA OnlyCloseBlock ==
    ASSUME ScopeInv, [Next]_vars, num_scope' < num_scope
    PROVE  CloseBlock
<1>1. num_scope \in Nat /\ num_scope' # num_scope /\ num_scope' # num_scope + 1
  <2>1. num_scope \in Nat
    BY ScopeEmpty, ScopeFacts DEF ScopeInv
  <2> QED
    BY <2>1
<1>2. CASE FunctionRule
  BY <1>1, <1>2 DEF FunctionRule, BeginPackage, EndPackage, FunctionName,
     Parameter, ParamsEnd, FreeParameters, EndOfFile, SyntaxError, Stop, tableVars
<1>3. CASE Statement
  BY <1>1, <1>3 DEF Statement, SetStart, Step, ForName, ReturnStart, IfStart, Set,
     Return, BeginIf, EndIf, Else, Fi, WhileStart, WhileCondition, EndWhile,
     ForInit, ForBound, EndFor, OpenExpression, OpenBlock, Stop, tableVars
<1>4. CASE Expression
  BY <1>1, <1>4 DEF Expression, Identifier, CallStart, Branching, Constant,
     Arithmetic, Argument, Call, Stop, tableVars
<1>5. CASE Ended \/ UNCHANGED vars
  BY <1>1, <1>5 DEF Ended, vars, tableVars
<1> QED
  BY <1>2, <1>3, <1>4, <1>5 DEF Next

\* Leaving a block frees its variables and no other entry, although the loop of
\* statement_block frees the first entry whichever entry it matched.
THEOREM BlocksFreeTheirVariables == Spec => BlockScope
<1> DEFINE Freed == \E m \in 0..Len(symbol_table) :
              /\ symbol_table' = SubSeq(symbol_table, m + 1, Len(symbol_table))
              /\ \A i \in DOMAIN symbol_table :
                    symbol_table[i].add = num_scope <=> i =< m
<1>1. ASSUME ScopeInv, [Next]_vars, num_scope' < num_scope
      PROVE  Freed
  <2> DEFINE m == Cardinality({i \in DOMAIN symbol_table :
                                 symbol_table[i].add = num_scope})
  <2>1. CloseBlock
    BY <1>1, OnlyCloseBlock
  <2>2. symbol_table' = SubSeq(symbol_table, m + 1, Len(symbol_table))
    BY <2>1 DEF CloseBlock, FreeFirst
  <2>3. /\ symbol_table \in Seq(Entry) /\ Ordered(symbol_table, num_scope)
        /\ num_scope \in Nat
    BY <1>1, ScopeEmpty, ScopeFacts DEF ScopeInv, Scope
  <2>4. /\ m \in Nat /\ m =< Len(symbol_table)
        /\ \A i \in 1..Len(symbol_table) : symbol_table[i].add = num_scope <=> i =< m
    BY <2>3, BlockFirst
  <2>5. DOMAIN symbol_table = 1..Len(symbol_table) /\ Len(symbol_table) \in Nat
    BY <2>3
  <2> HIDE DEF m
  <2>6. m \in 0..Len(symbol_table)
    BY <2>4, <2>5
  <2> QED
    BY <2>2, <2>4, <2>5, <2>6
<1>2. ScopeInv /\ [Next]_vars => [num_scope' < num_scope => Freed]_vars
  BY <1>1
<1> HIDE DEF Freed
<1>3. Spec => [][num_scope' < num_scope => Freed]_vars
  BY <1>2, ScopeInvariant, PTL DEF Spec
<1> QED
  BY <1>3 DEF BlockScope, Freed
=============================================================================
