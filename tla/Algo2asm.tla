------------------------------ MODULE Algo2asm ------------------------------
(***************************************************************************)
(* The compiler algo2asm (algo2asm.y, stable.c, label.c): a bison parser   *)
(* whose semantic actions write SIPRO assembly as they run.  One action    *)
(* here is one semantic action of the grammar; the input is any token      *)
(* sequence the grammar can shift, so the choice of an action is the       *)
(* choice of the next construct of the source text.                        *)
(*                                                                         *)
(* The text written to yyout is abstracted to what can be wrong with it:   *)
(* the labels it defines, the labels it uses, and the number of words the  *)
(* code written so far leaves on the run-time stack of the SIPRO machine.  *)
(***************************************************************************)
EXTENDS Naturals, Sequences, FiniteSets

CONSTANTS
    Names,          \* the identifiers of the source text
    FileName,       \* the .tex file without its extension, itself a name
    Packages,       \* the package names of \BEGIN and \END
    Operators,      \* the branching operators of the source text
    Prefix,         \* <<p, q>> such that p is a prefix of q (strncmp at END)
    MAX_PARAMS,     \* types.h: "Max # of parameters for functions"
    CountModulus,   \* count_args is an unsigned char: 256 in the code
    LabelMax,       \* UINT_MAX in new_label_number
    STACK_CAPACITY, \* entries of each stack of stmts (stack_stmt_def.h)
    MaxDepth,       \* bound: words the emitted code may leave on the stack
    MaxNest,        \* bound: open constructs of the parser
    MaxCalls,       \* bound: open argument lists
    MaxNumber       \* bound: statements of each kind

NoName == "-"

\* The operators whose code branches.
BranchingOps == {"/", "%", "==", "!=", "!", ">", "<"}

ASSUME ConstantsAssumption ==
    /\ FileName \in Names
    /\ NoName \notin Names
    /\ Operators \subseteq BranchingOps
    /\ Prefix \subseteq Packages \X Packages
    /\ \A p \in Packages : <<p, p>> \in Prefix
    /\ MAX_PARAMS \in Nat
    /\ CountModulus \in Nat \ {0}
    /\ LabelMax \in Nat
    /\ {MaxDepth, MaxNest, MaxCalls, MaxNumber} \subseteq Nat
    /\ STACK_CAPACITY \in Nat
    /\ MaxNest =< STACK_CAPACITY

VARIABLES
    status,         \* how the process stands: see Statuses
    symbol_table,   \* stable.c: the list, its first element entered last
    num_scope,      \* stable.c: number of the current block
    count_args,     \* stable.c: arguments counted since the last call
    stale,          \* nParams left in the memory of the last freed function
    stack_packages, \* names pushed by \BEGIN, top first, never popped
    stmts,          \* stack_stmt_def.h: numbers of the nested statements
    label,          \* current_label_number of label.c
    ctx,            \* constructs the parser has open, innermost first
    pending,        \* expressions on the parser's stack not yet consumed
    depth,          \* words the code written so far leaves on the stack
    defs,           \* labels the code defines
    dups,           \* labels the code defines more than once
    refs            \* labels the code uses

tableVars == <<symbol_table, num_scope, stale, stack_packages>>
codeVars  == <<label, defs, dups, refs>>
vars == <<status, tableVars, count_args, stmts, ctx, pending, depth, codeVars>>

-----------------------------------------------------------------------------
(* The shapes of the state. *)

\* "refused" is yyerror (the output file is removed), "aborted" fail_with or
\* exit in a semantic action (a partial output file stays), "crashed" the
\* dereference of a null pointer.
Statuses == {"parsing", "accepted", "refused", "aborted", "crashed"}

Class == {"LOCAL_VARIABLE", "FUNCTION"}

Entry == [name : Names, class : Class, add : Nat, nParams : Nat]

Stmts == {"if", "while", "for"}

\* Frames inside which the parser reads an expression.
ExprFrames == {"if", "while", "forinit", "forbound", "set", "return", "arg"}

FrameKinds == ExprFrames \cup
    {"begun", "params", "body", "end", "block", "then", "thenEnd", "else",
     "do", "for"}

\* base: value of pending when an expression frame was opened.
\* name: identifier the construct was opened with.
\* n: for a block, 1 once it holds a statement.  Otherwise a history
\*    variable, read by the properties and one bound: the number a statement
\*    took from stmts, or how many arguments an argument list really holds.
Frame == [k : FrameKinds, base : Nat, name : Names \cup {NoName}, n : Nat]

NewFrame(k, x, n) == [k |-> k, base |-> pending, name |-> x, n |-> n]

Push(f, c) == <<f>> \o c
Top == Head(ctx)
In(k) == status = "parsing" /\ ctx # <<>> /\ Top.k = k
InExpr == status = "parsing" /\ ctx # <<>> /\ Top.k \in ExprFrames

\* The expression of frame k is complete: one operand above its base.
ExprDone(k) == In(k) /\ pending = Top.base + 1

-----------------------------------------------------------------------------
(* The symbol table (stable.c). *)

FoundInBlock(x) ==
    \E i \in DOMAIN symbol_table :
        symbol_table[i].name = x /\ symbol_table[i].add = num_scope
Found(x) == \E i \in DOMAIN symbol_table : symbol_table[i].name = x

\* search_symbol_table: the first entry of that name.
Position(x) ==
    CHOOSE i \in DOMAIN symbol_table :
        /\ symbol_table[i].name = x
        /\ \A j \in 1..(i - 1) : symbol_table[j].name # x
search_symbol_table(x) == symbol_table[Position(x)]

VariableInside(x) == [name |-> x, class |-> "LOCAL_VARIABLE",
                      add |-> num_scope + 1, nParams |-> 0]
Variable(x) == [name |-> x, class |-> "LOCAL_VARIABLE",
                add |-> num_scope, nParams |-> 0]

\* new_symbol_table_entry for a variable: it becomes the first of the list.
EnterLast(x) == symbol_table' = symbol_table \o <<Variable(x)>>
Enter(x) == symbol_table' = <<Variable(x)>> \o symbol_table

\* What nParams holds in a new entry: malloc leaves 0 in fresh memory and the
\* old count in the memory of the function freed last.
UninitialisedOne == {1}
Uninitialised == {0, stale}

\* m calls of free_first_symbol_table_entry.
FreeAllButOne(m) ==
    IF m = 0 THEN symbol_table
             ELSE SubSeq(symbol_table, m, Len(symbol_table))
FreeFirst(m) == SubSeq(symbol_table, m + 1, Len(symbol_table))

-----------------------------------------------------------------------------
(* The emitted labels. *)

VarLabelsNoStorage(x) == {<<"jump:var", x>>}
VarLabels(x) == {<<"var", x>>, <<"jump:var", x>>}

\* The storage of the variables among the entries I of the table, and the
\* addresses of all of them.
StorageOf(I) ==
    UNION {VarLabels(symbol_table[i].name) :
              i \in {j \in I : symbol_table[j].class = "LOCAL_VARIABLE"}}
Addresses(I) == {<<"var", symbol_table[i].name>> : i \in I}

Emit(D, R) ==
    /\ defs' = defs \cup D
    /\ dups' = dups \cup (D \cap defs)
    /\ refs' = refs \cup R

\* new_label_number.
SameLabel == UNCHANGED label
NewLabel == label' = label + 1

\* exit(EXIT_FAILURE) through yyerror or fail_with, and a crash: the process
\* stops and nothing else changes.
Stop(s) ==
    /\ status' = s
    /\ UNCHANGED <<tableVars, count_args, stmts, ctx, pending, depth, codeVars>>

-----------------------------------------------------------------------------
(* The stack of package names.                                             *)

new_stack_strings == <<>>
stack_strings_search_entry(p) == \E i \in DOMAIN stack_packages : stack_packages[i] = p
stack_strings_push(p) == stack_packages' = <<p>> \o stack_packages
stack_strings_top == Head(stack_packages)

-----------------------------------------------------------------------------
(* The function rule. *)

\* \BEGIN{p}: a package name may be used once.
BeginPackage(p) ==
    /\ status = "parsing" /\ ctx = <<>>
    /\ IF stack_strings_search_entry(p)
       THEN Stop("aborted")
       ELSE /\ stack_strings_push(p)
            /\ ctx' = Push(NewFrame("begun", NoName, 0), ctx)
            /\ UNCHANGED <<status, symbol_table, num_scope, stale, count_args,
                           stmts, pending, depth, codeVars>>

\* {f}: the name of the file, not yet in the table.
FunctionName(x) ==
    /\ In("begun")
    /\ IF x # FileName \/ Found(x)
       THEN Stop("aborted")
       ELSE /\ \E n \in Uninitialised :
                symbol_table' = <<[name |-> x, class |-> "FUNCTION", add |-> 0,
                                   nParams |-> n]>> \o symbol_table
            /\ ctx' = Push(NewFrame("params", x, 0), Tail(ctx))
            /\ UNCHANGED <<status, num_scope, stale, stack_packages, count_args,
                           stmts, pending, depth, codeVars>>

\* One identifier of parameter_list.  The guard on nParams is a bound: one
\* parameter more and the code writes behind the array desc.
Parameter(x) ==
    /\ In("params")
    /\ IF Found(x)
       THEN Stop("aborted")
       ELSE LET f == Position(FileName) IN
            /\ symbol_table[f].nParams =< MAX_PARAMS
            /\ symbol_table' =
                 <<Variable(x)>>
                 \o [symbol_table EXCEPT ![f].nParams = @ + 1]
            /\ UNCHANGED <<status, num_scope, stale, stack_packages, count_args,
                           stmts, ctx, pending, depth, codeVars>>

\* The closing brace of parameter_list: storage for the first nParams entries,
\* the function's label, the loads of the arguments; then the body's block
\* opens.  Both loops follow ste->next nParams times, past the end of a list
\* that is shorter.
ParamsEnd ==
    /\ In("params")
    /\ LET n == search_symbol_table(FileName).nParams IN
       IF n > Len(symbol_table)
          THEN Stop("crashed")
          ELSE /\ Emit(StorageOf(1..n) \cup {<<"fun", FileName>>},
                       StorageOf(1..n) \cup Addresses(1..n))
               /\ num_scope' = num_scope + 1
               /\ ctx' = Push(NewFrame("block", NoName, 0),
                               Push(NewFrame("body", FileName, 0), Tail(ctx)))
               /\ UNCHANGED <<status, symbol_table, stale, stack_packages,
                              count_args, stmts, pending, depth, label>>

\* statement_block is reduced: the loop over the list frees the first entry
\* once for every entry of this block's number.
CloseBlock ==
    /\ In("block") /\ Top.n = 1
    /\ symbol_table' =
         FreeFirst(Cardinality({i \in DOMAIN symbol_table :
                                  symbol_table[i].add = num_scope}))
    /\ num_scope' = num_scope - 1
    /\ ctx' = Tail(ctx)
    /\ UNCHANGED <<status, stale, stack_packages, count_args, stmts, pending,
                   depth, codeVars>>

\* After the body: the parameters are freed.
FreeParameters ==
    /\ In("body")
    /\ LET n == search_symbol_table(FileName).nParams IN
       symbol_table' = FreeFirst(n)
    /\ stale' = search_symbol_table(FileName).nParams
    /\ ctx' = Push([Top EXCEPT !.k = "end"], Tail(ctx))
    /\ UNCHANGED <<status, num_scope, stack_packages, count_args, stmts,
                   pending, depth, codeVars>>

\* \END{p}: p is compared with the top package over p's own length only; then
\* the function's entry is freed.
EndPackage(p) ==
    /\ In("end")
    /\ CASE <<p, stack_strings_top>> \notin Prefix -> Stop("aborted")
         [] <<p, stack_strings_top>> \in Prefix /\ symbol_table = <<>> ->
              Stop("crashed")
         [] OTHER ->
              /\ symbol_table' = FreeFirst(1)
              /\ ctx' = Tail(ctx)
              /\ UNCHANGED <<status, num_scope, stale, stack_packages,
                             count_args, stmts, pending, depth, codeVars>>

\* yyparse returns and main declares the variables left in the table, then
\* frees it.
EndOfFile ==
    /\ status = "parsing" /\ ctx = <<>> /\ stack_packages # <<>>
    /\ LET Left == {i \in DOMAIN symbol_table :
                       symbol_table[i].class = "LOCAL_VARIABLE"}
       IN Emit(StorageOf(Left), {<<"jump:var", symbol_table[i].name>> : i \in Left})
    /\ status' = "accepted"
    /\ symbol_table' = <<>>
    /\ UNCHANGED <<num_scope, stale, stack_packages, count_args, stmts, ctx,
                   pending, depth, label>>

\* Any token the grammar does not allow next: yyerror.
SyntaxError == status = "parsing" /\ Stop("refused")

-----------------------------------------------------------------------------
(* Statements. *)

\* The parser enters a construct of the current block.
Enclosing == Push([Top EXCEPT !.n = 1], Tail(ctx))
Fits(n) == Len(ctx) + n =< MaxNest

\* \SET{x}{, \RETURN{ and \IF{ run no semantic action until the expression is
\* read.
OpenExpression(k, x, n) ==
    /\ In("block") /\ Fits(n)
    /\ ctx' = Push(NewFrame(k, x, 0), Enclosing)
    /\ UNCHANGED <<status, tableVars, count_args, stmts, pending, depth,
                   codeVars>>
SetStart(x) == OpenExpression("set", x, 1)
ReturnStart == OpenExpression("return", NoName, 1)
IfStart == OpenExpression("if", NoName, 2)

\* The expression's value is popped by the code of the statement.
PopTwice == pending' = pending - 1 /\ depth' = depth - 2
PopNothing == pending' = pending - 1 /\ depth' = depth
PopValue == pending' = pending - 1 /\ depth' = depth - 1

Number(s) == stmts[s].number
Current(s) == stmts[s].stack[stmts[s].index]
PreviousNotLowered(s) == stmts[s].stack[stmts[s].index]
Previous(s) == stmts[s].stack[stmts[s].index - 1]

\* stack[index] = number++, with or without index++.
TakeNoIndex(s, i) ==
    /\ Number(s) < MaxNumber
    /\ stmts' = [stmts EXCEPT ![s].stack[stmts[s].index] = Number(s),
                              ![s].number = @ + 1]
TakeSameNumber(s, i) ==
    /\ Number(s) < MaxNumber
    /\ stmts' = [stmts EXCEPT ![s].stack[stmts[s].index] = Number(s),
                              ![s].index = @ + i]
Take(s, i) ==
    /\ Number(s) < MaxNumber
    /\ stmts' = [stmts EXCEPT ![s].stack[stmts[s].index] = Number(s),
                              ![s].number = @ + 1,
                              ![s].index = @ + i]

\* Frame k replaces the top one and a block opens above it.
OpenBlock(k, n) ==
    /\ num_scope' = num_scope + 1
    /\ ctx' = Push([k |-> "block", base |-> 0, name |-> NoName, n |-> 0],
                    Push([Top EXCEPT !.k = k, !.n = n], Tail(ctx)))
    /\ UNCHANGED <<symbol_table, stale, stack_packages>>

\* \SET: an unknown name is entered with the current scope and declared.
Set ==
    /\ ExprDone("set")
    /\ LET x == Top.name IN
       IF Found(x)
       THEN /\ Emit({}, {<<"var", x>>})
            /\ UNCHANGED symbol_table
       ELSE /\ Enter(x)
            /\ Emit(VarLabels(x), VarLabels(x))
    /\ PopValue
    /\ ctx' = Tail(ctx)
    /\ UNCHANGED <<status, num_scope, stale, stack_packages, count_args, stmts,
                   label>>

\* \INCR{x} and \DECR{x}.
Step(x) ==
    /\ In("block")
    /\ IF ~Found(x)
       THEN Stop("aborted")
       ELSE /\ Emit({}, {<<"var", x>>})
            /\ ctx' = Enclosing
            /\ UNCHANGED <<status, tableVars, count_args, stmts, pending,
                           depth, label>>

\* \RETURN: the value goes to ax and ret pops the return address.
Return ==
    /\ ExprDone("return")
    /\ PopValue
    /\ ctx' = Tail(ctx)
    /\ UNCHANGED <<status, tableVars, count_args, stmts, codeVars>>

BeginIf ==
    /\ ExprDone("if")
    /\ Take("if", 1)
    /\ PopValue
    /\ Emit({}, {<<"else", Number("if")>>})
    /\ OpenBlock("then", Number("if"))
    /\ UNCHANGED <<status, count_args, label>>

EndIf ==
    /\ In("then")
    /\ Emit({<<"else", Previous("if")>>}, {<<"endif", Previous("if")>>})
    /\ ctx' = Push([Top EXCEPT !.k = "thenEnd"], Tail(ctx))
    /\ UNCHANGED <<status, tableVars, count_args, stmts, pending, depth, label>>

Else ==
    /\ In("thenEnd")
    /\ OpenBlock("else", Top.n)
    /\ UNCHANGED <<status, count_args, stmts, pending, depth, codeVars>>

Fi ==
    /\ In("thenEnd") \/ In("else")
    /\ stmts' = [stmts EXCEPT !["if"].index = @ - 1]
    /\ Emit({<<"endif", Previous("if")>>}, {})
    /\ ctx' = Tail(ctx)
    /\ UNCHANGED <<status, tableVars, count_args, pending, depth, label>>

WhileStart ==
    /\ In("block") /\ Fits(2)
    /\ Take("while", 1)
    /\ Emit({<<"beginwhile", Number("while")>>}, {})
    /\ ctx' = Push(NewFrame("while", NoName, Number("while")), Enclosing)
    /\ UNCHANGED <<status, tableVars, count_args, pending, depth, label>>

\* index-- then index++ around the use of the number.
WhileCondition ==
    /\ ExprDone("while")
    /\ PopValue
    /\ Emit({}, {<<"endwhile", Previous("while")>>})
    /\ OpenBlock("do", Top.n)
    /\ UNCHANGED <<status, count_args, stmts, label>>

EndWhile ==
    /\ In("do")
    /\ stmts' = [stmts EXCEPT !["while"].index = @ - 1]
    /\ Emit({<<"endwhile", Previous("while")>>},
            {<<"beginwhile", Previous("while")>>})
    /\ ctx' = Tail(ctx)
    /\ UNCHANGED <<status, tableVars, count_args, pending, depth, label>>

\* \DOFORI{x}: the variable must be new.
ForName(x) ==
    /\ In("block") /\ Fits(2)
    /\ IF Found(x)
       THEN Stop("refused")
       ELSE /\ Enter(x)
            /\ Emit(VarLabels(x), {<<"jump:var", x>>})
            /\ ctx' = Push(NewFrame("forinit", x, 0), Enclosing)
            /\ UNCHANGED <<status, num_scope, stale, stack_packages, count_args,
                           stmts, pending, depth, label>>

\* The start value is stored; index is raised only after the bound is read.
ForInit ==
    /\ ExprDone("forinit")
    /\ Take("for", 0)
    /\ PopValue
    /\ Emit({<<"beginfor", Number("for")>>}, {<<"var", Top.name>>})
    /\ ctx' = Push([Top EXCEPT !.k = "forbound", !.n = Number("for")], Tail(ctx))
    /\ UNCHANGED <<status, tableVars, count_args, label>>

ForBound ==
    /\ ExprDone("forbound")
    /\ IF label = LabelMax
       THEN Stop("aborted")
       ELSE /\ NewLabel
            /\ PopValue
            /\ Emit({<<"lt:true", label>>, <<"lt:endtrue", label>>},
                    {<<"lt:true", label>>, <<"lt:endtrue", label>>,
                     <<"var", Top.name>>, <<"endfor", Current("for")>>})
            /\ stmts' = [stmts EXCEPT !["for"].index = @ + 1]
            /\ OpenBlock("for", Top.n)
            /\ UNCHANGED <<status, count_args>>

EndFor ==
    /\ In("for")
    /\ stmts' = [stmts EXCEPT !["for"].index = @ - 1]
    /\ Emit({<<"endfor", Previous("for")>>},
            {<<"beginfor", Previous("for")>>, <<"var", Top.name>>})
    /\ symbol_table' = FreeFirst(1)
    /\ ctx' = Tail(ctx)
    /\ UNCHANGED <<status, num_scope, stale, stack_packages, count_args,
                   pending, depth, label>>

-----------------------------------------------------------------------------
(* Expressions, in the order bison reduces them. *)

PushValue ==
    /\ depth < MaxDepth
    /\ pending' = pending + 1
    /\ depth' = depth + 1

Constant ==
    /\ InExpr
    /\ PushValue
    /\ UNCHANGED <<status, tableVars, count_args, stmts, ctx, codeVars>>

\* A name is only looked up: its class is not read.
Identifier(x) ==
    /\ InExpr
    /\ IF ~Found(x)
       THEN Stop("refused")
       ELSE /\ PushValue
            /\ Emit({}, {<<"var", x>>})
            /\ UNCHANGED <<status, tableVars, count_args, stmts, ctx, label>>

Operands == pending - Top.base

\* + - * && ||: two words popped, one pushed.
Arithmetic ==
    /\ InExpr /\ Operands >= 2
    /\ PopValue
    /\ UNCHANGED <<status, tableVars, count_args, stmts, ctx, codeVars>>

\* The two labels a branching operator defines and uses.
OpLabels(op) ==
    CASE op \in {"/", "%"} -> {"err:div0", "fin:div"}
      [] op = "==" -> {"eq:true", "endeq:true"}
      [] op = "!=" -> {"neq:false", "endneq:false"}
      [] op = "!"  -> {"not:true", "endnot:true"}
      [] op = ">"  -> {"gt:true", "gt:endtrue"}
      [] op = "<"  -> {"lt:true", "lt:endtrue"}

\* A binary operator consumes two operands, "!" one; the code leaves one word.
Branching(op) ==
    /\ InExpr /\ Operands >= IF op = "!" THEN 1 ELSE 2
    /\ IF label = LabelMax
       THEN Stop("aborted")
       ELSE /\ NewLabel
            /\ LET L == OpLabels(op) \X {label}
                   S == IF op \in {"/", "%"} THEN {<<"s_err:div0", 0>>} ELSE {}
               IN Emit(L, L \cup S)
            /\ IF op = "!" THEN UNCHANGED <<pending, depth>> ELSE PopValue
            /\ UNCHANGED <<status, tableVars, count_args, stmts, ctx>>

\* {g}{ : the parser starts reading the arguments.
CallStart(x) ==
    /\ InExpr
    /\ Cardinality({i \in DOMAIN ctx : ctx[i].k = "arg"}) < MaxCalls
    /\ ctx' = Push(NewFrame("arg", x, 0), ctx)
    /\ UNCHANGED <<status, tableVars, count_args, stmts, pending, depth,
                   codeVars>>

\* assignment_expression: an argument is counted, in a counter all calls share.
\* The guard on n bounds the length of one argument list.
Argument ==
    /\ ExprDone("arg") /\ Top.n < MaxDepth
    /\ count_args' = (count_args + 1) % CountModulus
    /\ pending' = pending - 1
    /\ ctx' = Push([Top EXCEPT !.n = @ + 1], Tail(ctx))
    /\ UNCHANGED <<status, tableVars, stmts, depth, codeVars>>

ResetForgotten == UNCHANGED count_args
ResetCount == count_args' = 0

\* The code of a call pops the n arguments and pushes the value of ax.
ArgumentsLeft(n) == depth' = depth + 1
ArgumentsReplaced(n) == depth' = (depth - n) + 1

\* The closing brace of the arguments: the call is emitted when the counter
\* agrees with nParams, with one pop per parameter and a push of the result.
Call ==
    /\ In("arg") /\ pending = Top.base
    /\ LET x == Top.name
           n == search_symbol_table(FileName).nParams
       IN IF \/ ~Found(x)
             \/ search_symbol_table(x).class # "FUNCTION"
             \/ count_args # n
          THEN Stop("refused")
          ELSE /\ depth - n < MaxDepth
               /\ ResetCount
               /\ pending' = pending + 1
               /\ ArgumentsReplaced(n)
               /\ ctx' = Tail(ctx)
               /\ Emit({}, {<<"fun", FileName>>})
               /\ UNCHANGED <<status, tableVars, stmts, label>>

-----------------------------------------------------------------------------
\* main before yyparse: the message of the division by zero takes label 0.
Init ==
    /\ status = "parsing"
    /\ symbol_table = <<>>
    /\ num_scope = 0
    /\ count_args = 0
    /\ stale = 0
    /\ stack_packages = new_stack_strings
    /\ stmts = [s \in Stmts |-> [stack |-> [i \in 0..(MaxNest - 1) |-> 0],
                                 index |-> 0, number |-> 0]]
    /\ label = 1
    /\ ctx = <<>>
    /\ pending = 0
    /\ depth = 0
    /\ defs = {<<"s_err:div0", 0>>}
    /\ dups = {}
    /\ refs = {}

FunctionRule ==
    \/ \E p \in Packages : BeginPackage(p) \/ EndPackage(p)
    \/ \E x \in Names : FunctionName(x) \/ Parameter(x)
    \/ ParamsEnd \/ CloseBlock \/ FreeParameters \/ EndOfFile \/ SyntaxError

Statement ==
    \/ \E x \in Names : SetStart(x) \/ Step(x) \/ ForName(x)
    \/ ReturnStart \/ IfStart \/ Set \/ Return
    \/ BeginIf \/ EndIf \/ Else \/ Fi
    \/ WhileStart \/ WhileCondition \/ EndWhile
    \/ ForInit \/ ForBound \/ EndFor

Expression ==
    \/ \E x \in Names : Identifier(x) \/ CallStart(x)
    \/ \E op \in Operators : Branching(op)
    \/ Constant \/ Arithmetic \/ Argument \/ Call

\* The process has ended.
Ended == status # "parsing" /\ UNCHANGED vars

Next == FunctionRule \/ Statement \/ Expression \/ Ended

Spec == Init /\ [][Next]_vars
-----------------------------------------------------------------------------
(* Properties. *)

TypeOK ==
    /\ status \in Statuses
    /\ symbol_table \in Seq(Entry)
    /\ num_scope \in Nat
    /\ count_args \in 0..(CountModulus - 1)
    /\ stale \in Nat
    /\ stack_packages \in Seq(Packages)
    /\ stmts \in [Stmts -> [stack : [0..(MaxNest - 1) -> Nat],
                            index : Nat, number : Nat]]
    /\ label \in Nat
    /\ ctx \in Seq(Frame)
    /\ pending \in Nat
    /\ depth \in Nat

\* The code of a statement leaves the run-time stack as it found it: between
\* statements and at the end of a function no word is left, so that the address
\* ret pops is the one call pushed.  Arguments are popped by calls that share
\* one counter, and a rejected or misattributed argument must not unbalance it.
StackBalance ==
    status = "parsing" /\ (ctx = <<>> \/ Top.k \notin ExprFrames) => depth = 0

\* Wherever the parser is, the words on the run-time stack are the operands
\* not yet consumed and the arguments counted for the next call.
DepthAccounted == status = "parsing" => depth = pending + count_args

\* How many frames of kinds K lie outside the i-th of the stack c.
Outside(K, c, i) == Cardinality({j \in (i + 1)..Len(c) : c[j].k \in K})

\* The frames of a statement between the two moments at which index is raised
\* and lowered.
Opened(s) ==
    CASE s = "if" -> {"then", "thenEnd", "else"}
      [] s = "while" -> {"while", "do"}
      [] s = "for" -> {"for"}

\* The number a statement took at its beginning is the one its end will read
\* back from stmts, however statements are nested: the labels of one IF, loop
\* or FOR always carry one number.
StatementNumbers ==
    LET Holds(s, K) ==
            /\ stmts[s].index = Outside(K, ctx, 0)
            /\ \A i \in DOMAIN ctx :
                  ctx[i].k \in K => stmts[s].stack[Outside(K, ctx, i)] = ctx[i].n
    IN /\ \A s \in Stmts : Holds(s, Opened(s))
       /\ \A i \in DOMAIN ctx : ctx[i].k = "forbound" => ctx[i].n = Current("for")

\* Names are found once, inner blocks come before outer ones, no entry
\* belongs to a block already closed.
ScopeOrdered ==
    /\ \A i, j \in DOMAIN symbol_table :
          i < j => /\ symbol_table[i].add >= symbol_table[j].add
                   /\ symbol_table[i].name # symbol_table[j].name
    /\ \A i \in DOMAIN symbol_table : symbol_table[i].add =< num_scope

\* Leaving a block frees exactly the variables of that block, although the
\* loop frees the first entry whichever entry it matched.
BlockScope ==
    [][num_scope' < num_scope =>
         \E m \in 0..Len(symbol_table) :
            /\ symbol_table' = SubSeq(symbol_table, m + 1, Len(symbol_table))
            /\ \A i \in DOMAIN symbol_table :
                  symbol_table[i].add = num_scope <=> i =< m]_vars

\* When the body of a FOR is closed the first entry of the table is the
\* loop's own variable, the one EndFor frees.
ForVariableFirst ==
    In("for") => symbol_table # <<>> /\ Head(symbol_table).name = Top.name

\* Outside a function the table is empty: main's question "toutes les
\* ressources ... sont libérées ?" is answered 1.
NothingLeft == status = "parsing" /\ ctx = <<>> => symbol_table = <<>>

\* A variable the table knows has its storage in the code, in an enclosing
\* block or earlier in this one, so that the address of an identifier exists.
StorageDeclared ==
    status = "parsing" /\ num_scope > 0 =>
        \A i \in DOMAIN symbol_table :
            symbol_table[i].class = "LOCAL_VARIABLE" =>
                <<"var", symbol_table[i].name>> \in defs

\* A complete program uses no label it does not define, apart from the storage
\* of a variable named like the function: the compiler takes the function's own
\* name for an operand, and no code defines that label.
LabelsResolved ==
    ctx = <<>> => refs \subseteq defs \cup {<<"var", FileName>>}

\* No label of a statement or of an operator is defined twice.
NumberedLabelsUnique ==
    dups \subseteq {<<k, x>> : k \in {"var", "jump:var", "fun"}, x \in Names}

\* The parser never follows a null pointer.
NoCrash == status # "crashed"

-----------------------------------------------------------------------------
(* The symbol table as a stack of scopes: see NameScopes. *)

\* The names the table has for each number of a block, the function's being 0.
NamesOf(s) ==
    {symbol_table[i].name : i \in {j \in DOMAIN symbol_table : symbol_table[j].add = s}}
scopes == [k \in 1..(num_scope + 1) |-> NamesOf(k - 1)]

construct == IF ctx = <<>> THEN <<"none", NoName>> ELSE <<Top.k, Top.name>>

Scopes == INSTANCE NameScopes

\* The list of entries and the number of the block, freed from the front
\* whichever entries are there, are scopes that open and close like brackets:
\* no name is lost before its scope ends, none outlives it, and the compiler
\* finds a name exactly when an open scope has it.
ImplementsScopes == Scopes!Spec

-----------------------------------------------------------------------------
(* What the sources say and the code does not do. *)

\* The generated code is assembled by asipro, which refuses a label that is
\* defined twice.
LabelsUnique == status = "accepted" => dups = {}

\* A call the compiler accepts has nParams arguments in its own list.
CallArity ==
    [][In("arg") /\ Len(ctx') < Len(ctx) =>
         Top.n = search_symbol_table(FileName).nParams]_vars
=============================================================================
