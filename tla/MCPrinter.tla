------------------------------ MODULE MCPrinter ------------------------------
(***************************************************************************)
(* What is printed in the checked instances of Printer, and a grammar of   *)
(* expressions to read it back: that of the comments of io.C where what is *)
(* printed follows it, and of what is printed elsewhere.                   *)
(***************************************************************************)
EXTENDS Printer

Leaf(kind, val) == Node(kind, val, <<>>)
List(ns) == Node("Expr_list", <<>>, ns)
As(v, ns) == {[as |-> v, node |-> n] : n \in ns}

a == Leaf("Identifier", <<"a">>)
b == Leaf("Identifier", <<"b">>)
int == Node("Int", <<>>, <<Leaf("Identifier", <<"int">>)>>)
nothing == Leaf("Phantom", <<>>)

-----------------------------------------------------------------------------
(* The grammar: which node each production is read as, and what it consists *)
(* of: tokens, and nonterminals, in brackets.  The levels, and of them the  *)
(* binary operators, the assignments and the productions in Others, are the *)
(* comments' (io.C:404-1198).  In AsPrinted are those of which the comments *)
(* say something else or nothing.  New, whose operands may be missing, and  *)
(* unary plus are left out.                                                 *)

\* The nonterminals of expressions, each of which may be just the next one.
Levels == <<"[expression]", "[assignment]", "[conditional]", "[logical-or]", "[logical-and]",
            "[inclusive-or]", "[exclusive-or]", "[and]", "[equality]", "[relational]",
            "[shift]", "[additive]", "[multiplicative]", "[pm]", "[cast]", "[unary]",
            "[postfix]", "[primary]">>

Nonterminals == ToSet(Levels) \cup {"[type]", "[list]", "[more]"}

\* The level after l, which operands on one side of an operator must be of.
Next_level ==
  [l \in ToSet(Levels) \ {"[primary]"} |-> Levels[1 + CHOOSE i \in DOMAIN Levels : Levels[i] = l]]

LeftToRight ==
  [Or |-> <<"[logical-or]", "||">>, And |-> <<"[logical-and]", "&&">>,
   Bitor |-> <<"[inclusive-or]", "|">>, Bitxor |-> <<"[exclusive-or]", "^">>,
   Bitand |-> <<"[and]", "&">>, Equal |-> <<"[equality]", "==">>,
   Not_equal |-> <<"[equality]", "!=">>, Less |-> <<"[relational]", "<">>,
   Less_equal |-> <<"[relational]", "<=">>, Greater |-> <<"[relational]", ">">>,
   Greater_equal |-> <<"[relational]", ">=">>, Lshift |-> <<"[shift]", "<<">>,
   Rshift |-> <<"[shift]", ">>">>, Plus |-> <<"[additive]", "+">>,
   Minus |-> <<"[additive]", "-">>, Mul |-> <<"[multiplicative]", "*">>,
   Div |-> <<"[multiplicative]", "/">>, Modulo |-> <<"[multiplicative]", "%">>]

RightToLeft ==
  [Assign |-> "=", Plus_assign |-> "+=", Bitand_assign |-> "&=", Bitor_assign |-> "|=",
   Bitxor_assign |-> "^=", Div_assign |-> "/=", Modulo_assign |-> "%=", Mul_assign |-> "*=",
   Lshift_assign |-> "<<=", Rshift_assign |-> ">>=", Minus_assign |-> "-="]

\* The last five are in no comment.
Prefix == [Pre_decrement |-> <<"--">>, Pre_increment |-> <<"++">>, Address |-> <<"&">>,
           Complement |-> <<"~">>, Deref |-> <<"*">>, Unary_minus |-> <<"-">>, Not |-> <<"!">>,
           Delete |-> <<"delete", " ">>, Array_delete |-> <<"delete[]", " ">>]

Others ==
  [Conditional |-> <<"[conditional]",
                     <<"[logical-or]", " ? ", "[expression]", " : ", "[assignment]">> >>,
   Dot_star |-> <<"[pm]", <<"[pm]", ".*", "[cast]">> >>,
   Arrow_star |-> <<"[pm]", <<"[pm]", "->*", "[cast]">> >>,
   Array_ref |-> <<"[postfix]", <<"[postfix]", "[", "[expression]", "]">> >>,
   Dot |-> <<"[postfix]", <<"[postfix]", ".", "[primary]">> >>,
   Arrow |-> <<"[postfix]", <<"[postfix]", "->", "[primary]">> >>,
   Call |-> <<"[postfix]", <<"[postfix]", "(", "[list]", ")">> >>,
   Post_decrement |-> <<"[postfix]", <<"[postfix]", "--">> >>,
   Post_increment |-> <<"[postfix]", <<"[postfix]", "++">> >>,
   Expr_typeid |-> <<"[postfix]", <<"typeid", "(", "[expression]", ")">> >>]

CastTo(op) == <<op, "<|", "[type]", "|>", "(", "[expression]", ")">>

\* Of a throw-expression the comments say "throw expression" (io.C:1195), with
\* which "throw a@, b" could be read in two ways; of casts "( type )
\* cast-expression" and "< type > ( expression )" (io.C:567-585, 715), of the
\* typeid of a type "typeid ( type )" (io.C:598); of the others nothing.
AsPrinted ==
  [Throw |-> <<"[assignment]", <<"throw", " ", "[assignment]">> >>,
   Cast |-> <<"[cast]", CastTo("cast")>>,
   Dynamic_cast |-> <<"[postfix]", CastTo("dynamic_cast")>>,
   Static_cast |-> <<"[postfix]", CastTo("static_cast")>>,
   Const_cast |-> <<"[postfix]", CastTo("const_cast")>>,
   Reinterpret_cast |-> <<"[postfix]", CastTo("reinterpret_cast")>>,
   Type_typeid |-> <<"[postfix]", <<"typeid", "<|", "[type]", "|>", "(", ")">> >>,
   Comma |-> <<"[expression]", <<"[expression]", "@, ", "[assignment]">> >>,
   Expr_sizeof |-> <<"[unary]", <<"sizeof", "(", "[expression]", ")">> >>,
   Type_sizeof |-> <<"[unary]", <<"sizeof", "<|", "[type]", "|>", "(", ")">> >>,
   Datum |-> <<"[postfix]", <<"[type]", "(", "[list]", ")">> >>]

Productions ==
  {[of |-> LeftToRight[k][1], kind |-> k,
    rhs |-> <<LeftToRight[k][1], " ", LeftToRight[k][2], " ", Next_level[LeftToRight[k][1]]>>] :
      k \in DOMAIN LeftToRight}
  \cup {[of |-> "[assignment]", kind |-> k,
         rhs |-> <<"[logical-or]", " ", RightToLeft[k], " ", "[assignment]">>] :
           k \in DOMAIN RightToLeft}
  \cup {[of |-> "[unary]", kind |-> k, rhs |-> Append(Prefix[k], "[cast]")] : k \in DOMAIN Prefix}
  \cup UNION {{[of |-> ps[k][1], kind |-> k, rhs |-> ps[k][2]] : k \in DOMAIN ps} :
                ps \in {Others, AsPrinted}}

\* The productions of a level, with the tokens that must be there to use them.
ProductionsOf ==
  [l \in ToSet(Levels) |->
     {[kind |-> p.kind, rhs |-> p.rhs, signs |-> {<<t>> : t \in ToSet(p.rhs) \ Nonterminals}] :
        p \in {q \in Productions : q.of = l}}]

RECURSIVE Readings(_, _), Matches(_, _)

\* The nodes that the tokens s can be read as by nonterminal l.
Readings(l, s) ==
  CASE l = "[type]" -> IF s = << <<"int">> >> THEN {int} ELSE {}
    [] l = "[list]" -> IF s = <<>> THEN {List(<<>>)}
                       ELSE {List(<<m[1]>> \o m[2].sub) :
                               m \in Matches(<<"[expression]", "[more]">>, s)}
    [] l = "[more]" -> IF s = <<>> THEN {List(<<>>)}
                       ELSE {List(<<m[1]>> \o m[2].sub) :
                               m \in Matches(<<", ", "[expression]", "[more]">>, s)}
    [] Len(s) < 2 /\ l \in ToSet(Levels) -> {n \in {a, b} : <<n.val>> = s}
    [] l = "[primary]" -> {m[1] : m \in Matches(<<"(", "[expression]", ")">>, s)}
    [] OTHER -> LET written == ToSet(s)
                    ps == {p \in ProductionsOf[l] : p.signs \subseteq written}
                IN  UNION {{Node(p.kind, <<>>, m) : m \in Matches(p.rhs, s)} : p \in ps}
                      \cup Readings(Next_level[l], s)

\* The operands that s can be read as by the right-hand side r.
Matches(r, s) ==
  IF r = <<>> THEN IF s = <<>> THEN {<<>>} ELSE {}
  ELSE IF Head(r) \notin Nonterminals
  THEN IF s # <<>> /\ Head(s) = <<Head(r)>> THEN Matches(Tail(r), Tail(s)) ELSE {}
  ELSE UNION {LET rest == Matches(Tail(r), SubSeq(s, i + 1, Len(s)))
              IN  IF rest = {} THEN {}
                  ELSE {<<n>> \o m : n \in Readings(Head(r), SubSeq(s, 1, i)), m \in rest} :
                i \in 0..Len(s)}

RECURSIVE Lexed(_)

\* Two equal signs in a row are one token, as everywhere in C++.
Lexed(s) ==
  LET twice == [k \in {<<"-">>, <<"+">>, <<"&">>} |->
                  CASE k[1] = "-" -> <<"--">> [] k[1] = "+" -> <<"++">> [] k[1] = "&" -> <<"&&">>]
  IN  IF Len(s) < 2 THEN s
      ELSE IF s[1] = s[2] /\ s[1] \in DOMAIN twice
      THEN <<twice[s[1]]>> \o Lexed(SubSeq(s, 3, Len(s)))
      ELSE <<s[1]>> \o Lexed(Tail(s))

-----------------------------------------------------------------------------
(* Expressions: each kind alone, some in each other, and a few three deep. *)

\* The nonterminals of the operands of a kind, in order.
Operands(k) ==
  LET p == CHOOSE p \in Productions : p.kind = k
  IN  SelectSeq(p.rhs, LAMBDA x : x \in Nonterminals)

\* Nodes of kind k with x for one of the operands.
With(k, x) ==
  LET ls == Operands(k)
      Fill(l, y) == CASE l = "[type]" -> int [] l = "[list]" -> List(<<y, b>>) [] OTHER -> y
  IN  {Node(k, <<>>, [i \in DOMAIN ls |-> Fill(ls[i], IF i = p THEN x ELSE b)]) :
         p \in {i \in DOMAIN ls : ls[i] # "[type]"}}

WithAny(ks, xs) == UNION {With(k, x) : k \in ks, x \in xs}

ExprOf == {p.kind : p \in Productions} \ {"Type_sizeof", "Type_typeid"}
Some == {"Comma", "Throw", "Assign", "Plus_assign", "Conditional", "Or", "And", "Bitor", "Bitxor",
         "Bitand", "Equal", "Less", "Lshift", "Plus", "Minus", "Mul", "Div", "Dot_star", "Cast",
         "Unary_minus", "Pre_decrement", "Pre_increment", "Not", "Delete", "Post_decrement", "Call",
         "Arrow", "Array_ref", "Static_cast", "Datum"}
Few == {"Comma", "Assign", "Conditional", "Minus", "Mul", "Not", "Post_increment", "Call"}

\* Signs that would run into each other (README).
Merging(n) == n.kind = "Unary_minus" /\ n.sub[1].kind \in {"Unary_minus", "Pre_decrement"}

Expressions ==
  [prints |-> 1,
   roots |-> As("Expr",
     {a} \cup WithAny(ExprOf, {a})
       \cup {Node(k, <<>>, <<int>>) : k \in {"Type_sizeof", "Type_typeid"}}
       \cup {n \in WithAny(Some, WithAny(Some, {a})) : ~Merging(n)}
       \cup WithAny(Few, WithAny(Few, WithAny(Few, {a}))))]

\* "Print a binary expression.  Instantiated by the relevant grammar production,
\* with precedence built-in" (io.C:769): the parentheses that are printed, and
\* those that are left out, are right.  By the levels of precedence that the
\* comments give, with the productions of AsPrinted among them, what is printed for
\* an expression can be read as that expression and as no other.
Unambiguous ==
  todo = <<>> /\ root # <<>> /\ work = "expressions" =>
    ~thrown /\ Readings("[expression]", Lexed(text)) = {root.node}

-----------------------------------------------------------------------------
(* Declarations: two of one name, which are printed one after the other    *)
(* and used, among names of every kind, a failure and a control character. *)

x == Leaf("Identifier", <<"x">>)
Declare(kind, id, name, more) == Node(kind, <<id, "static", "inline">>, <<name, int>> \o more)
Use(id, name) == Node("Id_expr", <<id>>, <<name>>)

v1 == Declare("Var", "v1", x, <<>>)
v2 == Declare("Field", "v2", x, <<Use("v1", x)>>)
plus == Leaf("Operator", <<"+">>)
conversion == Node("Conversion", <<>>, <<int>>)
anyone == Node("Var", <<"e">>, <<x, Node("Ellipsis", <<>>, <<Leaf("Identifier", <<"...">>)>>)>>)

Declarations ==
  As("Decl", {a, v2, Declare("Parameter", "v3", x, <<>>),
              Declare("Alias", "t", conversion, <<a>>),
              Node("Fundecl", <<"f">>, <<plus, int, List(<<v1, v2>>)>>)})
    \cup As("Expr", {v1, Use("v2", x), Use("f", plus), Node("Id_expr", <<>>, <<x>>),
                     Node("Literal", <<"soh", "lf", "1">>, <<int>>),
                     Node("Template_id", <<>>, <<a, List(<<Use("v1", x), int>>)>>),
                     Use("p", Node("Rname", <<0, 1>>, <<int>>)),
                     Node("Scope", <<>>, <<v1, Declare("Enumerator", "k", x, <<a>>), v2>>)})

-----------------------------------------------------------------------------
(* Statements in each other, in functions and in mappings.                 *)

Block(body, handlers) == Node("Block", <<>>, <<List(body), List(handlers)>>)
Stop == Leaf("Break", <<>>)
catch == Node("Handler", <<>>, <<v1, Block(<<Stop>>, <<>>)>>)

Simple == {Node("Expr_stmt", <<>>, <<a>>), Node("Empty_stmt", <<>>, <<nothing>>),
           Node("Goto", <<>>, <<Node("Label", <<>>, <<x>>)>>), Leaf("Continue", <<>>),
           Node("Return", <<>>, <<a>>), Block(<<>>, <<>>), v1}

Around(s) ==
  {Node(k, <<>>, <<a, s>>) : k \in {"Labeled_stmt", "If_then", "Switch", "While", "Do"}}
    \cup {Block(<<s, Stop>>, <<>>), Block(<<s>>, <<catch, Node("Handler", <<>>, <<anyone, Block(<<s>>, <<>>)>>)>>),
          Node("Ctor_body", <<>>, <<List(<<Node("Member_init", <<>>, <<a, b>>)>>), Block(<<s>>, <<>>)>>),
          Node("If_then_else", <<>>, <<a, s, Stop>>), Node("If_then_else", <<>>, <<a, Stop, s>>),
          Node("For", <<>>, <<a, b, nothing, s>>), Node("For_in", <<>>, <<v1, a, s>>)}

AllAround(ss) == UNION {Around(s) : s \in ss}

Product(ts) == Node("Product", <<>>, ts)
functionType == Node("Function", <<>>, <<Product(<<int, int>>), int, int>>)
templateType == Node("Template", <<>>, <<Product(<<int>>), functionType>>)
Mapping(t, result) == Node("Mapping", <<>>, <<List(<<v1>>), result, t>>)
Function(body) == Node("Fundecl", <<"f">>, <<x, functionType, List(<<v1>>), body>>)

Statements ==
  As("Stmt", Simple \cup AllAround(Simple) \cup AllAround(AllAround(Simple)))
    \cup As("Decl", {Function(s) : s \in AllAround(Simple)})
    \cup As("Expr", {Mapping(functionType, s) : s \in AllAround(Simple)})

-----------------------------------------------------------------------------
(* Types, what is made of them, and nodes that have no overrider.          *)

Class(bases, members) ==
  Node("Class", <<>>, <<x, List(bases), Node("Scope", <<>>, members)>>)

Typing ==
  LET one == {Node(k, <<>>, <<int>>) : k \in {"Pointer", "Reference", "Product", "Sum"}}
               \cup {functionType, templateType, Class(<<>>, <<>>),
                     Class(<<Declare("Base_type", "c", x, <<>>)>>,
                           <<v1, Declare("Bitfield", "d", x, <<a>>)>>),
                     Node("Enum", <<>>, <<x, Node("Scope", <<>>, <<v2>>)>>),
                     Node("Union", <<>>, <<nothing, Node("Scope", <<>>, <<v1>>)>>),
                     Node("Qualified", <<"const", "restrict">>, <<int>>)}
      two == one \cup {Node(k, <<>>, <<t, int>>) : k \in {"Array", "Ptr_to_member"}, t \in one}
                 \cup {Node("Template", <<>>, <<Product(<<int>>), t>>) : t \in one}
                 \cup {Node("Pointer", <<>>, <<t>>) : t \in one}
  IN  As("Type", two) \cup As("Expr", one)
        \cup As("Decl", {Declare("Typedecl", "t", x, <<t>>) : t \in two})
        \cup As("Expr", {Mapping(t, int) : t \in {functionType, templateType, int}})
        \cup As("Expr", {Node("Plus", <<>>, <<a, s>>) : s \in {Stop, functionType, v1}})
        \cup As("Expr", {Node("New", <<>>, <<List(p), t, List(p)>>) : p \in {<<>>, <<a>>}, t \in one})
        \cup As("Expr", {Node("Scope_ref", <<>>, <<int, a>>), Node("Ctor_name", <<>>, <<int>>),
                         Node("Dtor_name", <<>>, <<int>>), Node("Type_id", <<>>, <<functionType>>),
                         Node("Unary_plus", <<>>, <<a>>), Node("Paren_expr", <<>>, <<int>>)})
        \cup As("Decl", {Declare("Named_map", "m", x, <<Mapping(templateType, r)>>) :
                          r \in {int, a, Stop, Class(<<>>, <<v1>>)}})

Printed ==
  [expressions |-> Expressions,
   names |-> [prints |-> 3, roots |-> Declarations],
   statements |-> [prints |-> 1, roots |-> Statements],
   types |-> [prints |-> 2, roots |-> Typing]]

RECURSIVE Within(_)

\* Nodes and all operands in them, one layer after the other.
Within(ns) ==
  IF ns = {} THEN {} ELSE UNION {Within(UNION {ToSet(n.sub) : n \in ns}), ns}

\* The names of the types among them.
NamesOf(ns) ==
  LET types == {k \in Kinds : "Type" \in Classes[k]}
  IN  {TypeName(n) : n \in {m \in ns : m.kind \in types}}

RootNodes == {r.node : r \in UNION {Expressions.roots, Declarations, Statements, Typing}}
PrintedNodes == Within(RootNodes)
PrintedNames == NamesOf(PrintedNodes)
NodesOfPrinted == PrintedNodes \cup PrintedNames

\* Types whose spelling is their name, which is their spelling.
Nameless ==
  [types |-> [prints |-> 1, roots |-> As("Type", {Node("Rvalue_reference", <<>>, <<int>>),
                                                 Node("Decltype", <<>>, <<a>>)})]]

NamelessNodes == Within({r.node : r \in Nameless.types.roots})
NodesOfNameless == NamelessNodes \cup NamesOf(NamelessNodes)
=============================================================================
