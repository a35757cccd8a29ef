------------------------------ MODULE Statements ------------------------------
(***************************************************************************)
(* The statements (impl::stmt_factory): what clients have made, what they   *)
(* complete afterwards, and how a statement answers type(), which most ask   *)
(* one of their parts.                                                      *)
(***************************************************************************)
EXTENDS Integers, Sequences, SequencesExt

CONSTANTS
  Typed, Untyped, \* expressions that are no statements, with and without a type
  MaxStmts        \* bound: the statements made

VARIABLES
  stmts,  \* the statements, in the order they were made
  at,     \* the node whose type() is executing, or Nothing
  answer  \* what the last query came to, or None

vars == <<stmts, at, answer>>

Nothing == 0      \* a null pointer
None == "none"
Throws == "throws"

\* Kinds, by where they have their type from.
FromOperand == {"Expr_stmt", "Goto", "Return"}
FromSecond == {"Do", "If_then", "Labeled_stmt", "Switch", "While"}
FromBody == {"For", "For_in"}
FromEnclosing == {"Break", "Continue"}

Loops == {"Do", "While", "For", "For_in"}

\* A statement: its operands, what a client sets later (stmt of a jump or a
\* loop; constraint of what has a type of its own), and a block's sequences.
Stmt(k, sub) ==
  [kind |-> k, sub |-> sub, stmt |-> Nothing, constraint |-> Nothing, body |-> <<>>,
   handlers |-> <<>>]

Init == stmts = <<>> /\ at = Nothing /\ answer = None

-----------------------------------------------------------------------------
(* What clients do, between queries.                                       *)

Ids == DOMAIN stmts
Exprs == Typed \cup Untyped \cup Ids
Of(kinds) == {s \in Ids : stmts[s].kind \in kinds}

Make(s) ==
  /\ at = Nothing
  /\ Len(stmts) < MaxStmts
  /\ stmts' = Append(stmts, s)
  /\ UNCHANGED <<at, answer>>

\* make_expr_stmt, make_goto, make_return.
MakeUnary(k, e) == Make(Stmt(k, <<e>>))

\* make_do (which swaps its arguments), make_if_then, make_switch,
\* make_labeled_stmt, make_while.
MakeBinary(k, e, s) == Make(Stmt(k, <<e, s>>))

\* make_handler and make_ctor_body: the declaration and the initializers are
\* no statements here.
MakeWithBlock(k, e, b) == Make(Stmt(k, <<e, b>>))

MakeIfThenElse(e, s, t) == Make(Stmt("If_then_else", <<e, s, t>>))

\* make_empty_stmt, make_block, make_for, make_for_in, make_break, make_continue.
MakeWithoutParts(k) == Make(Stmt(k, <<>>))

\* Everything a statement refers to as its part, directly or not.
PartsOf(s) ==
  LET Direct(n) ==
        (ToSet(stmts[n].sub) \cap Ids) \cup ToSet(stmts[n].body) \cup ToSet(stmts[n].handlers)
          \cup (IF stmts[n].kind \in FromBody THEN {stmts[n].stmt} \ {Nothing} ELSE {})
      Within[i \in 0..Len(stmts)] ==
        IF i = 0 THEN {s} ELSE Within[i - 1] \cup UNION {Direct(n) : n \in Within[i - 1]}
  IN  Within[Len(stmts)]

Change(s, x) ==
  /\ at = Nothing
  /\ stmts' = [stmts EXCEPT ![s] = x]
  /\ UNCHANGED <<at, answer>>

\* Block::add_stmt and add_handler; nothing is a part of itself.
AddStmt(b, s) ==
  /\ b \notin PartsOf(s) /\ s \notin ToSet(stmts[b].body)
  /\ Change(b, [stmts[b] EXCEPT !.body = Append(@, s)])

AddHandler(b, h) ==
  /\ b \notin PartsOf(h) /\ h \notin ToSet(stmts[b].handlers)
  /\ Change(b, [stmts[b] EXCEPT !.handlers = Append(@, h)])

\* The body of a for is set in its field.
SetBody(f, s) ==
  /\ stmts[f].stmt = Nothing
  /\ f \notin PartsOf(s)
  /\ Change(f, [stmts[f] EXCEPT !.stmt = s])

\* "A Break node can record the selction- of iteration-statement it transfers
\* control out of", and "a Continue node can refer back to the iteration-statement
\* containing it" (impl.H:1932, 1944).
SetEnclosing(j, s) ==
  /\ stmts[j].stmt = Nothing
  /\ j \in PartsOf(s)
  /\ stmts[j].kind = "Continue" => stmts[s].kind # "Switch"
  /\ Change(j, [stmts[j] EXCEPT !.stmt = s])

\* The field constraint of impl::Expr.
SetConstraint(s) == Change(s, [stmts[s] EXCEPT !.constraint = 1])

-----------------------------------------------------------------------------
(* A query: type() is called, and each call asks another node or returns.  *)

Ask(s) ==
  /\ at = Nothing
  /\ at' = s
  /\ answer' = None
  /\ UNCHANGED stmts

\* The node a statement's type() asks for its type, which util::check refuses
\* when it is a null pointer.
Asked(s) ==
  CASE s.kind \in FromOperand -> s.sub[1]
    [] s.kind \in FromSecond \cup {"Handler"} -> s.sub[2]
    [] s.kind \in FromBody \cup FromEnclosing -> s.stmt

Returns(a) == at' = Nothing /\ answer' = a

\* The nodes that answer by themselves: expressions, a block, of which the type
\* is a product, what has a constraint, and an empty statement, of which the
\* operand is a phantom, made without one.
Answer ==
  \/ at \in Typed /\ Returns("type")
  \/ at \in Untyped /\ Returns(Throws)
  \/ at \in Of({"Block"}) /\ Returns("type")
  \/ at \in Of({"Empty_stmt"}) /\ Returns(Throws)
  \/ /\ at \in Of({"Ctor_body", "If_then_else"})
     /\ Returns(IF stmts[at].constraint = Nothing THEN Throws ELSE "type")

AskFurther ==
  /\ at \in Of(FromOperand \cup FromSecond \cup FromBody \cup FromEnclosing \cup {"Handler"})
  /\ IF Asked(stmts[at]) = Nothing THEN Returns(Throws)
     ELSE at' = Asked(stmts[at]) /\ UNCHANGED answer

Query == (Answer \/ AskFurther) /\ UNCHANGED stmts

Client ==
  \/ \E e \in Exprs :
       \/ \E k \in FromOperand : MakeUnary(k, e)
       \/ \E k \in FromSecond, s \in Ids : MakeBinary(k, e, s)
       \/ \E s, t \in Ids : MakeIfThenElse(e, s, t)
  \/ \E k \in {"Handler", "Ctor_body"}, e \in Typed, b \in Of({"Block"}) : MakeWithBlock(k, e, b)
  \/ \E k \in FromBody \cup FromEnclosing \cup {"Block", "Empty_stmt"} : MakeWithoutParts(k)
  \/ \E b \in Of({"Block"}) : \/ \E s \in Ids : AddStmt(b, s)
                              \/ \E h \in Of({"Handler"}) : AddHandler(b, h)
  \/ \E f \in Of(FromBody), s \in Ids : SetBody(f, s)
  \/ \E j \in Of(FromEnclosing), s \in Of(Loops \cup {"Switch"}) : SetEnclosing(j, s)
  \/ \E s \in Of({"Ctor_body", "If_then_else"}) : SetConstraint(s)

Next == Client \/ (\E s \in Ids : Ask(s)) \/ Query

\* A call that was made runs until it returns; clients need not make one.
Spec == Init /\ [][Next]_vars /\ WF_vars(Query)

-----------------------------------------------------------------------------
\* "Every expression has a type" (interface.H:783), and a statement is one: a
\* call of type() comes to an end, with the type or an exception.
QueryEnds == at # Nothing ~> at = Nothing
=============================================================================
