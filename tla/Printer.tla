------------------------------- MODULE Printer -------------------------------
(***************************************************************************)
(* The XPR pretty-printer (io.H, io.C) and the forwarding of visitors it   *)
(* relies on (traversal.C).                                                *)
(*                                                                         *)
(* A node is a record [kind, val, sub]: its class, what it is made of that *)
(* is no node, and its operands in the order of the interface.  A class of *)
(* visitors handles some kinds of node itself, inherits what its bases     *)
(* handle, and any other kind goes to the visit function of the base of    *)
(* its class.  A handler writes tokens, changes the state of the printer   *)
(* and has operands visited by visitors of its choice: here it is the      *)
(* sequence of these items, and todo is the stack of the items that all    *)
(* active handlers have left.                                              *)
(*                                                                         *)
(* Padding is not modelled: nothing sets it to anything but None.          *)
(***************************************************************************)
EXTENDS Integers, SequencesExt, Interface

CONSTANTS
  Nodes,         \* what is printed, and all that it consists of
  Workloads,     \* by name, [prints, roots]: so many prints of nodes of roots
  MaxDepth,      \* handlers active at once (the C++ stack)
  NoDecl         \* a null pointer to a declaration

VARIABLES
  work, left,    \* the workload, and how many prints of it are left
  root,          \* what is being printed, and by which operator<<
  todo,          \* what is left to do of it
  text,          \* what has been written of it
  thrown,        \* it was abandoned by an exception
  indent,        \* Printer::pending_indentation
  newline,       \* Printer::emit_newline
  base,          \* the base in which the stream writes numbers
  map,           \* Printer::disambiguation_map
  resolved       \* history: the numbers written for uses of names

vars == <<work, left, root, todo, text, thrown, indent, newline, base, map, resolved>>

Node(kind, val, sub) == [kind |-> kind, val |-> val, sub |-> sub]

-----------------------------------------------------------------------------
(* Visitor::visit: the class to whose visit each class of nodes forwards.  *)

NameKinds == {"Identifier", "Operator", "Conversion", "Scope_ref", "Template_id",
              "Type_id", "Ctor_name", "Dtor_name", "Rname"}

UdtKinds == {"Class", "Enum", "Namespace", "Union"}

TypeKinds == {"Array", "Decltype", "As_type", "Function", "Pointer", "Product",
              "Ptr_to_member", "Qualified", "Reference", "Rvalue_reference", "Sum",
              "Template", "Udt"}

UnaryKinds == {"Address", "Array_delete", "Complement", "Delete", "Deref", "Paren_expr",
               "Expr_sizeof", "Expr_typeid", "Unary_minus", "Not", "Post_decrement",
               "Post_increment", "Pre_decrement", "Pre_increment", "Throw",
               "Type_sizeof", "Type_typeid", "Unary_plus"}

BinaryKinds == {"Plus", "Plus_assign", "And", "Array_ref", "Arrow", "Arrow_star", "Assign",
                "Bitand", "Bitand_assign", "Bitor", "Bitor_assign", "Bitxor",
                "Bitxor_assign", "Cast", "Call", "Comma", "Const_cast", "Div",
                "Div_assign", "Dot", "Dot_star", "Dynamic_cast", "Equal"}

MoreBinaryKinds == {"Greater", "Greater_equal", "Less", "Less_equal", "Literal", "Modulo",
                    "Modulo_assign", "Mul", "Mul_assign", "Not_equal", "Datum", "Or",
                    "Reinterpret_cast", "Lshift", "Lshift_assign", "Rshift",
                    "Rshift_assign", "Static_cast", "Minus", "Minus_assign",
                    "Conditional", "New"}

ExprKinds == {"Expr_list", "Overload", "Scope", "Phantom", "Id_expr", "Label",
              "Member_init", "Mapping"}

StmtKinds == {"Labeled_stmt", "Block", "Ctor_body", "Expr_stmt", "If_then",
              "If_then_else", "Switch", "While", "Do", "For", "For_in", "Break",
              "Continue", "Goto", "Return", "Handler"}

DeclKinds == {"Alias", "Asm", "Base_type", "Bitfield", "Enumerator", "Field", "Fundecl",
              "Parameter", "Typedecl", "Named_map", "Var"}

BuiltinKinds == {"Void", "Bool", "Char", "sChar", "uChar", "Short", "uShort", "Int",
                 "uInt", "Long", "uLong", "Long_long", "uLong_long", "Float", "Double",
                 "Long_double", "Ellipsis"}

Classics == UnaryKinds \cup BinaryKinds \cup MoreBinaryKinds

Kinds == NameKinds \cup UdtKinds \cup TypeKinds \cup Classics \cup ExprKinds \cup StmtKinds
           \cup DeclKinds \cup BuiltinKinds
           \cup {"Global_scope", "Empty_stmt", "Classic", "Name", "Type", "Decl", "Expr", "Stmt"}

\* The classes Class, Enum, Namespace and Union are forwarded to Type at once.
BaseMutant ==
  [k \in Kinds |-> IF k \in UdtKinds THEN "Type" ELSE
     CASE k \in NameKinds -> "Name"
       [] k \in TypeKinds -> "Type"
       [] k \in BuiltinKinds -> "As_type"
       [] k \in Classics -> "Classic"
       [] k \in StmtKinds -> "Stmt"
       [] k \in DeclKinds -> "Decl"
       [] k = "Global_scope" -> "Namespace"
       [] k = "Empty_stmt" -> "Expr_stmt"
       [] OTHER -> "Expr"]

\* pp_base forwards names, types and declarations to Expr.
Base ==
  [k \in Kinds |->
     CASE k \in NameKinds -> "Name"
       [] k \in UdtKinds -> "Udt"
       [] k \in TypeKinds -> "Type"
       [] k \in BuiltinKinds -> "As_type"
       [] k \in Classics -> "Classic"
       [] k \in StmtKinds -> "Stmt"
       [] k \in DeclKinds -> "Decl"
       [] k = "Global_scope" -> "Namespace"
       [] k = "Empty_stmt" -> "Expr_stmt"
       [] OTHER -> "Expr"]

\* A class of nodes and those it is forwarded to, until Missing_overrider.
Bases[k \in Kinds] ==
  IF k \in {"Expr", "Stmt"} THEN <<k>> ELSE <<k>> \o Bases[Base[k]]

-----------------------------------------------------------------------------
(* What handlers do, as sequences of items.                                *)

Tok(s) == <<[do |-> "write", what |-> s]>>
Num(n) == <<[do |-> "number", what |-> n]>>
Octal == <<[do |-> "octal"]>>
Indentation(n) == <<[do |-> "indent", by |-> n]>>
NewlineAndIndent(n) == <<[do |-> "newline", by |-> n]>>
NeedsNewline == <<[do |-> "needs_newline"]>>
Raise == <<[do |-> "throw"]>>
Visit(v, n) == <<[do |-> "visit", as |-> v, node |-> n, decl |-> NoDecl]>>

\* xpr_name(name, decl).
VisitName(n, d) == <<[do |-> "visit", as |-> "Name", node |-> n, decl |-> d]>>

Toks(ss) == FlattenSeq([i \in DOMAIN ss |-> Tok(ss[i])])

\* Sequences of expressions, types, parameters and bases.
Listed(v, ns) ==
  FlattenSeq([i \in DOMAIN ns |-> (IF i = 1 THEN <<>> ELSE Tok(", ")) \o Visit(v, ns[i])])

\* Those of the words ws that s has.
Having(ws, s) ==
  FlattenSeq([i \in DOMAIN ws |-> IF Contains(s, ws[i]) THEN Tok(ws[i]) ELSE <<>>])

Parens(items) == Tok("(") \o items \o Tok(")")
Angles(items) == Tok("<|") \o items \o Tok("|>")

-----------------------------------------------------------------------------
(* Names and primary expressions.                                          *)

PrintResolution(n, d) ==
  IF d = NoDecl THEN <<>> ELSE <<[do |-> "resolve", node |-> n, decl |-> d]>>

\* '<|' and '|>' in Template_id are character constants, so numbers.
OpenAngle == 60 * 256 + 124
CloseAngle == 124 * 256 + 62

NameItems(k, n, d) ==
  CASE k = "Identifier" -> Toks(n.val) \o PrintResolution(n, d)
    [] k = "Operator" -> Tok("operator") \o Toks(n.val) \o PrintResolution(n, d)
    [] k = "Conversion" -> Tok("operator") \o Tok("cast") \o Angles(Visit("Type", n.sub[1]))
                             \o PrintResolution(n, d)
    [] k = "Type_id" -> Visit("Type", n.sub[1]) \o PrintResolution(n, d)
    [] k = "Scope_ref" -> Visit("Expr", n.sub[1]) \o Tok("::") \o Visit("Expr", n.sub[2])
    [] k = "Template_id" -> Visit("Primary", n.sub[1]) \o Num(OpenAngle)
                              \o Listed("Expr", n.sub[2].sub) \o Num(CloseAngle)
    [] k = "Ctor_name" -> Tok("#ctor") \o PrintResolution(n, d)
    [] k = "Dtor_name" -> Tok("#dtor") \o PrintResolution(n, d)
    [] k = "Rname" -> Tok("#(") \o Num(n.val[1]) \o Tok(", ") \o Num(n.val[2]) \o Tok(")")
                        \o PrintResolution(n, d)

\* A character of a literal: those that are escaped, and those of which the
\* code is written in octal, which the stream then goes on doing.
Escapes == [lf |-> "\\n", cr |-> "\\r", ff |-> "\\f", tab |-> "\\t", vt |-> "\\v",
            bs |-> "\\b", bel |-> "\\a", nul |-> "\\0", backslash |-> "\\\\"]
Controls == [soh |-> 1, stx |-> 2, etx |-> 3]

CharItems(c) ==
  IF c \in DOMAIN Escapes THEN Tok(Escapes[c])
  ELSE IF c \in DOMAIN Controls THEN Tok("\\0") \o Octal \o Num(Controls[c])
  ELSE Tok(c)

PrimaryItems(k, n) ==
  CASE k = "Label" -> Visit("Name", n.sub[1])
    [] k = "Id_expr" -> IF n.val = <<>> THEN Raise    \* util::check of resolution()
                        ELSE VisitName(n.sub[1], n.val[1])
    [] k = "Literal" -> FlattenSeq([i \in DOMAIN n.val |-> CharItems(n.val[i])])
    [] k = "As_type" -> Visit("Primary", n.sub[1])
    [] k = "Phantom" -> <<>>
    [] k = "Paren_expr" -> Parens(Visit("Expr", n.sub[1]))
    [] k = "Expr" -> Parens(Visit("Expr", n))
    [] k = "Decl" -> Visit("Primary", n.sub[1])

-----------------------------------------------------------------------------
(* Postfix, unary and cast expressions.                                    *)

NewStyleCasts == [Dynamic_cast |-> "dynamic_cast", Static_cast |-> "static_cast",
                  Const_cast |-> "const_cast", Reinterpret_cast |-> "reinterpret_cast"]

\* new_style_cast.
CastItems(op, n) ==
  Tok(op) \o Angles(Visit("Type", n.sub[1])) \o Parens(Visit("Expr", n.sub[2]))

PostfixItems(k, n) ==
  CASE k = "Array_ref" -> Visit("Postfix", n.sub[1]) \o Tok("[") \o Visit("Expr", n.sub[2])
                            \o Tok("]")
    [] k = "Dot" -> Visit("Postfix", n.sub[1]) \o Tok(".") \o Visit("Primary", n.sub[2])
    [] k = "Arrow" -> Visit("Postfix", n.sub[1]) \o Tok("->") \o Visit("Primary", n.sub[2])
    [] k = "Call" -> Visit("Postfix", n.sub[1]) \o Parens(Listed("Expr", n.sub[2].sub))
    [] k = "Datum" -> Visit("Type", n.sub[1]) \o Parens(Listed("Expr", n.sub[2].sub))
    [] k = "Post_decrement" -> Visit("Postfix", n.sub[1]) \o Tok("-") \o Tok("-")
    [] k = "Post_increment" -> Visit("Postfix", n.sub[1]) \o Tok("+") \o Tok("+")
    [] k = "Expr_typeid" -> Tok("typeid") \o Parens(Visit("Expr", n.sub[1]))
    [] k = "Type_typeid" -> Tok("typeid") \o Angles(Visit("Type", n.sub[1])) \o Parens(<<>>)
    [] OTHER -> CastItems(NewStyleCasts[k], n)

Postfixes == {"Array_ref", "Dot", "Arrow", "Call", "Datum", "Post_decrement",
              "Post_increment", "Expr_typeid", "Type_typeid"} \cup DOMAIN NewStyleCasts

\* unary_operation.  An operator that can be read as two has two tokens.
UnaryOperation(op, n) == Toks(op) \o Visit("Cast", n.sub[1])

PrefixOperators == [Pre_decrement |-> <<"-", "-">>, Pre_increment |-> <<"+", "+">>,
             Address |-> <<"&">>, Complement |-> <<"~">>, Deref |-> <<"*">>,
             Unary_minus |-> <<"-">>, Not |-> <<"!">>]

Optional(items, ns) == IF ns = <<>> THEN <<>> ELSE items

UnaryItems(k, n) ==
  CASE k \in DOMAIN PrefixOperators -> UnaryOperation(PrefixOperators[k], n)
    [] k = "Expr_sizeof" -> Tok("sizeof") \o Parens(Visit("Expr", n.sub[1]))
    [] k = "Type_sizeof" -> Tok("sizeof") \o Angles(Visit("Type", n.sub[1])) \o Parens(<<>>)
    [] k = "Unary_plus" -> Tok("+") \o Visit("Expr", n.sub[1])
    [] k = "New" -> Tok("new") \o Tok(" ")
                      \o Optional(Parens(Listed("Expr", n.sub[1].sub)) \o Tok(" "), n.sub[1].sub)
                      \o Visit("Type", n.sub[2])
                      \o Optional(Tok(" ") \o Parens(Listed("Expr", n.sub[3].sub)), n.sub[3].sub)
    [] k = "Delete" -> Tok("delete") \o Tok(" ") \o Visit("Cast", n.sub[1])
    [] k = "Array_delete" -> Tok("delete[]") \o Tok(" ") \o Visit("Cast", n.sub[1])

Unaries == {"Expr_sizeof", "Type_sizeof", "Unary_plus", "New", "Delete", "Array_delete"}
             \cup DOMAIN PrefixOperators

-----------------------------------------------------------------------------
(* Binary expressions, with precedence built in: the visitors of the two   *)
(* operands, and the operator between them.                                *)

Row(l, op, r) == [left |-> l, op |-> op, right |-> r]

Selections == [Dot_star |-> Row("Pm", ".*", "Cast"), Arrow_star |-> Row("Pm", "->*", "Cast")]

Multiplicative == [Mul |-> Row("Mul", "*", "Pm"), Div |-> Row("Mul", "/", "Pm"),
                   Modulo |-> Row("Mul", "%", "Pm")]

\* Both operands of an addition are printed as sums.
AdditiveMutant == [Plus |-> Row("Add", "+", "Mul"), Minus |-> Row("Add", "-", "Add")]

Additive == [Plus |-> Row("Add", "+", "Mul"), Minus |-> Row("Add", "-", "Mul")]

Shifts == [Lshift |-> Row("Shift", "<<", "Add"), Rshift |-> Row("Shift", ">>", "Add")]

Relational == [Less |-> Row("Rel", "<", "Shift"), Less_equal |-> Row("Rel", "<=", "Shift"),
               Greater |-> Row("Rel", ">", "Shift"),
               Greater_equal |-> Row("Rel", ">=", "Shift")]

Equality == [Equal |-> Row("Eq", "==", "Rel"), Not_equal |-> Row("Eq", "!=", "Rel")]

BitwiseRows == [And |-> [Bitand |-> Row("And", "&", "Eq")],
             Xor |-> [Bitxor |-> Row("Xor", "^", "And")],
             Ior |-> [Bitor |-> Row("Ior", "|", "Xor")]]

Logical == [Land |-> [And |-> Row("Land", "&&", "Ior")], Lor |-> [Or |-> Row("Lor", "||", "Land")]]

Assignments ==
  LET operators == [Assign |-> "=", Plus_assign |-> "+=", Bitand_assign |-> "&=",
                    Bitor_assign |-> "|=", Bitxor_assign |-> "^=", Div_assign |-> "/=",
                    Modulo_assign |-> "%=", Mul_assign |-> "*=", Lshift_assign |-> "<<=",
                    Rshift_assign |-> ">>=", Minus_assign |-> "-="]
  IN  [k \in DOMAIN operators |-> Row("Lor", operators[k], "Assignment")]

BinaryTables == [Mul |-> Multiplicative, Add |-> Additive, Shift |-> Shifts, Rel |-> Relational,
                 Eq |-> Equality, And |-> BitwiseRows.And, Xor |-> BitwiseRows.Xor,
                 Ior |-> BitwiseRows.Ior, Land |-> Logical.Land, Lor |-> Logical.Lor,
                 Assignment |-> Assignments]

\* binary_expression.
BinaryExpression(row, n) ==
  Visit(row.left, n.sub[1]) \o Tok(" ") \o Tok(row.op) \o Tok(" ") \o Visit(row.right, n.sub[2])

\* offset_with_pm.
OffsetWithPm(row, n) == Visit(row.left, n.sub[1]) \o Tok(row.op) \o Visit(row.right, n.sub[2])

ConditionalItems(n) ==
  Visit("Lor", n.sub[1]) \o Tok(" ? ") \o Visit("Expr", n.sub[2]) \o Tok(" : ")
    \o Visit("Assignment", n.sub[3])

ExceptionSpec(t) == Tok(" ") \o Tok("throw") \o Parens(Visit("Type", t))

\* xpr_mapping_expression_visitor, by the type of the mapping: its operands
\* are the parameters, the result and the type.
MappingItems(n) ==
  LET params == Listed("Decl", n.sub[1].sub)
      t == n.sub[3]
  IN  CASE t.kind = "Function" -> Parens(params) \o ExceptionSpec(t.sub[3])
                                    \o Visit("Initializer", n.sub[2])
        [] t.kind = "Template" -> Tok("<") \o params \o Tok(">") \o Visit("Initializer", n.sub[2])
        [] OTHER -> Raise

AssignmentItems(k, n) ==
  CASE k = "Throw" -> Tok("throw") \o Tok(" ") \o Visit("Assignment", n.sub[1])
    [] k = "Mapping" -> MappingItems(n)
    [] OTHER -> BinaryExpression(Assignments[k], n)

\* xpr_expr_visitor.
ExprItems(k, n) ==
  CASE k = "Comma" -> Visit("Expr", n.sub[1]) \o Tok("@, ") \o Visit("Assignment", n.sub[2])
    [] k = "Scope" -> FlattenSeq([i \in DOMAIN n.sub |->
                        Visit("Decl", n.sub[i]) \o Tok(";") \o NewlineAndIndent(0)])
    [] k = "Expr_list" -> Listed("Expr", n.sub)
    [] k = "Member_init" -> Visit("Expr", n.sub[1]) \o Parens(Visit("Expr", n.sub[2]))
    [] k = "Type" -> Visit("Type", n)
    [] k = "Expr" -> Visit("Assignment", n)
    [] k = "Stmt" -> Visit("Stmt", n)
    [] k = "Decl" -> Visit("Primary", n)

-----------------------------------------------------------------------------
(* Types.  The operands of a user-defined type are its name, or a Phantom  *)
(* for a null pointer, the bases of a class, and the scope.                *)

Qualifiers(cv) == Having(<<"const", "volatile", "restrict">>, cv)

BaseClasses(bs) == Optional(Parens(Listed("Decl", bs)), bs)

\* The scope of a user-defined type in braces.
UdtItems(n) ==
  Tok(" ") \o Tok("{") \o NewlineAndIndent(3) \o Visit("Expr", n.sub[Len(n.sub)])
    \o NewlineAndIndent(-3) \o Tok("}") \o NeedsNewline

TypeExprItems(k, n) ==
  CASE k = "Array" -> Tok("[") \o Visit("Expr", n.sub[2]) \o Tok("]") \o Visit("Type", n.sub[1])
    [] k = "As_type" -> Visit("Expr", n.sub[1])
    [] k = "Class" -> BaseClasses(n.sub[2].sub) \o UdtItems(n)
    [] k = "Decltype" -> Tok("decltype") \o Tok(" ") \o Parens(Visit("Expr", n.sub[1]))
    [] k = "Function" -> Parens(Listed("Type", n.sub[1].sub)) \o ExceptionSpec(n.sub[3])
                           \o Visit("Type", n.sub[2])
    [] k = "Pointer" -> Tok("*") \o Visit("Type", n.sub[1])
    [] k = "Ptr_to_member" -> Tok("*") \o Tok("[") \o Visit("Type", n.sub[1]) \o Tok("]")
                                \o Tok(",") \o Visit("Type", n.sub[2])
    [] k = "Qualified" -> Qualifiers(n.val) \o Visit("Type", n.sub[1])
    [] k = "Reference" -> Tok("&") \o Visit("Type", n.sub[1])
    [] k = "Rvalue_reference" -> Tok("&") \o Tok("&") \o Visit("Type", n.sub[1])
    [] k = "Template" -> Tok("<") \o Listed("Type", n.sub[1].sub) \o Tok(">") \o Tok(" ")
                           \o Visit("TypeExpr", n.sub[2])
    [] k = "Udt" -> UdtItems(n)

\* Type::name(): the name of a type nobody named is the type-id of that type.
TypeName(n) ==
  IF n.kind \in UdtKinds \cup {"Global_scope"} THEN n.sub[1] ELSE Node("Type_id", <<>>, <<n>>)

\* xpr_type_visitor forgets one more type.
SpelledTypesMutant == {"Array", "Function", "Ptr_to_member", "Qualified", "Reference", "Template"}

\* The types that xpr_type_visitor has spelled by xpr_type_expr_visitor.
SpelledTypes == {"Array", "Function", "Pointer", "Ptr_to_member", "Qualified", "Reference",
                 "Template"}

\* xpr_type_visitor.
TypeItems(k, n) ==
  CASE k = "As_type" -> Visit("Expr", n.sub[1])
    [] k \in SpelledTypes -> Visit("TypeExpr", n)
    [] k = "Type" -> IF TypeName(n).kind = "Phantom" THEN Raise
                     ELSE Visit("Name", TypeName(n))
    [] k \in {"Product", "Sum"} -> Listed("Type", n.sub)

InitializerItems(k, n) ==
  CASE k = "Type" -> Visit("TypeExpr", n)
    [] k = "Expr" -> Visit("Expr", n)
    [] k = "Stmt" -> Visit("Stmt", n)

-----------------------------------------------------------------------------
(* Statements.                                                             *)

Keyword(word) == Tok(word) \o Tok(" ")
End == Tok(";") \o NeedsNewline

ExprStmtItems(n) == Visit("Expr", n.sub[1]) \o End

\* The handler is the first item of a statement: newline is as it is now.
LabeledItems(n) ==
  (IF newline THEN NewlineAndIndent(-3) ELSE Indentation(-3))
    \o Keyword("label") \o Visit("Expr", n.sub[1]) \o Tok(":")
    \o Indentation(3) \o NeedsNewline \o Visit("Stmt", n.sub[2]) \o NeedsNewline

\* A statement of a block does not end its line.
BlockMutant(n) ==
  LET body == n.sub[1].sub
      handlers == n.sub[2].sub
  IN  Tok("{") \o NeedsNewline \o Indentation(3) \o Listed("Stmt", body)
        \o NewlineAndIndent(-3) \o Tok("}") \o NeedsNewline
        \o FlattenSeq([i \in DOMAIN handlers |-> Visit("Stmt", handlers[i])])

\* The operands of a block are its body and its handlers.
BlockItems(n) ==
  LET body == n.sub[1].sub
      handlers == n.sub[2].sub
  IN  Tok("{") \o NeedsNewline \o Indentation(3)
        \o FlattenSeq([i \in DOMAIN body |-> Visit("Stmt", body[i]) \o NeedsNewline])
        \o NewlineAndIndent(-3) \o Tok("}") \o NeedsNewline
        \o FlattenSeq([i \in DOMAIN handlers |-> Visit("Stmt", handlers[i])])

CtorBodyItems(n) ==
  LET inits == n.sub[1].sub
  IN  Optional(Tok(" : ") \o Listed("Expr", inits) \o NeedsNewline, inits)
        \o NeedsNewline \o Visit("Stmt", n.sub[2])

\* An if-statement ends one level further in than it began.
IfThenMutant(n) ==
  Keyword("if") \o Parens(Visit("Expr", n.sub[1])) \o NewlineAndIndent(3) \o Visit("Stmt", n.sub[2])
    \o NewlineAndIndent(-3) \o Tok("else") \o NewlineAndIndent(3) \o NeedsNewline

IfThenItems(n) ==
  Keyword("if") \o Parens(Visit("Expr", n.sub[1])) \o NewlineAndIndent(3) \o Visit("Stmt", n.sub[2])
    \o NewlineAndIndent(-3) \o Tok("else") \o NewlineAndIndent(3)
    \o Indentation(-3) \o NeedsNewline

IfThenElseItems(n) ==
  Keyword("if") \o Parens(Visit("Expr", n.sub[1])) \o NewlineAndIndent(3) \o Visit("Stmt", n.sub[2])
    \o NewlineAndIndent(-3) \o Tok("else") \o NewlineAndIndent(3) \o Visit("Stmt", n.sub[3])
    \o Indentation(-3) \o NeedsNewline

SwitchItems(n) ==
  Keyword("switch") \o Parens(Visit("Expr", n.sub[1])) \o NewlineAndIndent(3)
    \o Visit("Stmt", n.sub[2]) \o NewlineAndIndent(-3)

WhileItems(n) ==
  Keyword("while") \o Parens(Visit("Expr", n.sub[1])) \o NewlineAndIndent(3)
    \o Visit("Stmt", n.sub[2]) \o NeedsNewline \o Indentation(-3)

DoItems(n) ==
  Tok("do") \o NewlineAndIndent(3) \o Visit("Stmt", n.sub[2]) \o NewlineAndIndent(-3)
    \o Keyword("while") \o Parens(Visit("Expr", n.sub[1])) \o End

\* What follows the parentheses of a for-statement.
LoopBody(s) ==
  Tok(")") \o NewlineAndIndent(3) \o Visit("Stmt", s) \o Indentation(-3) \o NeedsNewline

ForItems(n) ==
  Tok("for") \o Tok(" (") \o Visit("Expr", n.sub[1]) \o Tok("; ") \o Visit("Expr", n.sub[2])
    \o Tok("; ") \o Visit("Expr", n.sub[3]) \o LoopBody(n.sub[4])

ForInItems(n) ==
  Tok("for") \o Tok(" (") \o Visit("Decl", n.sub[1]) \o Tok(" <- ") \o Visit("Expr", n.sub[2])
    \o LoopBody(n.sub[3])

IsEllipsisHandler(n) == n.sub[1].kind = "Var" /\ n.sub[1].sub[2].kind = "Ellipsis"

HandlerItems(n) ==
  Keyword("catch")
    \o Parens(IF IsEllipsisHandler(n) THEN Tok("...") ELSE Visit("Decl", n.sub[1]))
    \o NewlineAndIndent(3) \o Visit("Stmt", n.sub[2]) \o NewlineAndIndent(-3)

StmtItems(k, n) ==
  CASE k = "Expr_stmt" -> ExprStmtItems(n)
    [] k = "Labeled_stmt" -> LabeledItems(n)
    [] k = "Block" -> BlockItems(n)
    [] k = "Ctor_body" -> CtorBodyItems(n)
    [] k = "If_then" -> IfThenItems(n)
    [] k = "If_then_else" -> IfThenElseItems(n)
    [] k = "Return" -> Keyword("return") \o Visit("Expr", n.sub[1]) \o End
    [] k = "Switch" -> SwitchItems(n)
    [] k = "While" -> WhileItems(n)
    [] k = "Do" -> DoItems(n)
    [] k = "For" -> ForItems(n)
    [] k = "For_in" -> ForInItems(n)
    [] k = "Break" -> Tok("break") \o End
    [] k = "Continue" -> Tok("continue") \o End
    [] k = "Goto" -> Keyword("goto") \o Visit("Expr", n.sub[1]) \o End
    [] k = "Handler" -> HandlerItems(n)
    [] k = "Decl" -> Visit("Decl", n) \o Tok(";")

-----------------------------------------------------------------------------
(* Declarations.  The operands are the name, the type, what the kind of    *)
(* declaration has of its own, and the initializer if there is one; val is *)
(* the identity and the specifiers.                                        *)

Specifiers(n) ==
  Having(<<"export", "auto", "register", "static", "extern", "mutable", "inline", "virtual",
           "explicit", "friend", "public", "protected", "private">>, Tail(n.val))

DeclName(n) == VisitName(n.sub[1], n.val[1])

\* The initializer of a declaration with i operands before it.
Initializer(items, n, i) == IF Len(n.sub) = i THEN <<>> ELSE items

FundeclItems(n) ==
  LET t == n.sub[2]
  IN  DeclName(n) \o Tok(" : ") \o Parens(Listed("Decl", n.sub[3].sub))
        \o (IF t.kind = "Function" THEN Visit("Type", t.sub[2]) ELSE <<>>)
        \o Initializer(NeedsNewline \o Visit("Stmt", Last(n.sub)), n, 3)

DeclItems(k, n) ==
  CASE k = "Alias" -> DeclName(n) \o Tok(" : ") \o Specifiers(n) \o Tok(" typedef ")
                        \o Visit("Expr", n.sub[3])
    [] k = "Decl" -> DeclName(n) \o Tok(" : ") \o Specifiers(n) \o Visit("Type", n.sub[2])
                       \o Initializer(Parens(Visit("Expr", Last(n.sub))), n, 2)
    [] k = "Typedecl" -> DeclName(n) \o Tok(" : ") \o Visit("Type", n.sub[2])
                           \o Initializer(Visit("TypeExpr", Last(n.sub)), n, 2)
    [] k = "Enumerator" -> Visit("Primary", n.sub[1])
                             \o Initializer(Parens(Visit("Expr", Last(n.sub))), n, 2)
    [] k = "Bitfield" -> Visit("Primary", n.sub[1]) \o Tok(" : #") \o Tok("bitfield")
                           \o Parens(Visit("Expr", n.sub[3])) \o Visit("Type", n.sub[2])
    [] k = "Base_type" -> Specifiers(n) \o Visit("Type", n.sub[2])
    [] k = "Fundecl" -> FundeclItems(n)
    [] k = "Named_map" -> Visit("Primary", n.sub[1]) \o Tok(" : ") \o MappingItems(n.sub[3])

-----------------------------------------------------------------------------
(* Which class of visitors handles which kind of node.                     *)

HandledByRow == [c \in DOMAIN BinaryTables |-> DOMAIN BinaryTables[c]]

HandledByFunction ==
  [Name |-> NameKinds,
   Primary |-> {"Label", "Id_expr", "Literal", "As_type", "Phantom", "Paren_expr", "Expr", "Decl"},
   Postfix |-> Postfixes, Unary |-> Unaries, Cast |-> {"Cast"}, Pm |-> DOMAIN Selections,
   Cond |-> {"Conditional"},
   Expr |-> {"Comma", "Scope", "Expr_list", "Member_init", "Type", "Expr", "Stmt", "Decl"},
   TypeExpr |-> {"Array", "As_type", "Class", "Decltype", "Function", "Pointer", "Ptr_to_member",
                 "Qualified", "Reference", "Rvalue_reference", "Template", "Udt"},
   Type |-> SpelledTypes \cup {"As_type", "Type", "Product", "Sum"},
   Initializer |-> {"Type", "Expr", "Stmt"},
   Stmt |-> StmtKinds \cup {"Decl"},
   Decl |-> {"Alias", "Decl", "Typedecl", "Enumerator", "Bitfield", "Base_type", "Fundecl",
             "Named_map"},
   Assignment |-> {"Throw", "Mapping"}]

Handles ==
  [c \in DOMAIN HandledByFunction \cup DOMAIN HandledByRow |->
     (IF c \in DOMAIN HandledByFunction THEN HandledByFunction[c] ELSE {})
       \cup (IF c \in DOMAIN HandledByRow THEN HandledByRow[c] ELSE {})]

\* The visitors of expressions, each derived from the one before.
Ladder == <<"Name", "Primary", "Postfix", "Unary", "Cast", "Pm", "Mul", "Add", "Shift", "Rel",
            "Eq", "And", "Xor", "Ior", "Land", "Lor", "Cond", "Assignment">>

\* A visitor and its bases, the most derived last.
Lineage ==
  [v \in DOMAIN Handles |->
     CASE v \in ToSet(Ladder) -> SubSeq(Ladder, 1, CHOOSE i \in DOMAIN Ladder : Ladder[i] = v)
       [] v \in {"Initializer", "Stmt"} -> Append(Ladder, v)
       [] v = "Decl" -> Ladder \o <<"Stmt", "Decl">>
       [] OTHER -> <<v>>]

\* The function that a visitor's visit of a kind of node ends in: that of the
\* first class forwarded to for which a class of the lineage has one.
Overrider ==
  [v \in DOMAIN Handles |-> [k \in Kinds |->
     LET Has(i, j) == Bases[k][i] \in Handles[Lineage[v][j]]
         found == {f \in (DOMAIN Bases[k]) \X (DOMAIN Lineage[v]) : Has(f[1], f[2])}
         first == {f \in found : \A g \in found :
                                   f[1] < g[1] \/ (f[1] = g[1] /\ f[2] >= g[2])}
     IN  IF first = {} THEN [by |-> "Missing_overrider", visit |-> k]
         ELSE LET f == CHOOSE f \in first : TRUE
              IN  [by |-> Lineage[v][f[2]], visit |-> Bases[k][f[1]]]]]

Items(v, n, d) ==
  LET by == Overrider[v][n.kind].by
      k == Overrider[v][n.kind].visit
  IN  CASE by = "Name" -> NameItems(k, n, d)
        [] by = "Primary" -> PrimaryItems(k, n)
        [] by = "Postfix" -> PostfixItems(k, n)
        [] by = "Unary" -> UnaryItems(k, n)
        [] by = "Cast" -> CastItems("cast", n)
        [] by = "Pm" -> OffsetWithPm(Selections[k], n)
        [] by = "Cond" -> ConditionalItems(n)
        [] by = "Assignment" -> AssignmentItems(k, n)
        [] by = "Expr" -> ExprItems(k, n)
        [] by = "TypeExpr" -> TypeExprItems(k, n)
        [] by = "Type" -> TypeItems(k, n)
        [] by = "Initializer" -> InitializerItems(k, n)
        [] by = "Stmt" -> StmtItems(k, n)
        [] by = "Decl" -> DeclItems(k, n)
        [] by = "Missing_overrider" -> Raise
        [] OTHER -> BinaryExpression(BinaryTables[by][k], n)

-----------------------------------------------------------------------------
(* What nodes consist of: the operands that interface.H says, and as many  *)
(* as the function that visits them reads.                                 *)

\* A node has the operands that interface.H says nodes of its class have.
WellFormed(n) ==
  /\ n.kind \in Kinds
  /\ OperandsOf(n.kind) # <<>> => Takes(n.kind, [i \in DOMAIN n.sub |-> n.sub[i].kind])

\* How many operands the functions for a class read.
OperandsRead(c) ==
  CASE c \in {"Conversion", "Type_id", "Label", "Id_expr", "As_type", "Paren_expr",
              "Decltype", "Pointer", "Qualified", "Reference", "Rvalue_reference", "Udt",
              "Throw", "Expr_stmt", "Goto", "Return", "Enumerator"}
              \cup (UnaryKinds \ {"Throw", "Paren_expr"}) -> 1
    [] c \in {"Scope_ref", "Template_id", "Member_init", "Array", "Class", "Ptr_to_member",
              "Template", "Labeled_stmt", "Block", "Ctor_body", "If_then", "Switch", "While",
              "Do", "Handler", "Decl", "Typedecl", "Base_type"} \cup BinaryKinds
              \cup (MoreBinaryKinds \ {"Literal", "Conditional", "New"}) -> 2
    [] c \in {"New", "Conditional", "Mapping", "Function", "If_then_else", "For_in", "Alias",
              "Bitfield", "Fundecl", "Named_map"} -> 3
    [] c = "For" -> 4
    [] OTHER -> 0

\* The class of a node and those it is visited as.
Classes == [k \in Kinds |-> {k} \cup ToSet(Bases[k])]

ASSUME NodesAssumption ==
  /\ \A n \in Nodes :
       /\ WellFormed(n)
       /\ \A c \in Classes[n.kind] :
            /\ Len(n.sub) >= OperandsRead(c)
            /\ c \in {"Identifier", "Operator", "Literal"} => n.val \in Seq(STRING)
            /\ c = "Rname" => n.val \in Nat \X Nat
            /\ c = "Named_map" => n.sub[3].kind = "Mapping"
            /\ c = "Block" => {h.kind : h \in ToSet(n.sub[2].sub)} \subseteq {"Handler"}
  /\ {n.sub : n \in Nodes} \subseteq Seq(Nodes)
  /\ {TypeName(n) : n \in {m \in Nodes : "Type" \in Classes[m.kind]}} \subseteq Nodes

ASSUME WorkloadsAssumption ==
  /\ \A w \in DOMAIN Workloads : Workloads[w].prints \in Nat
  /\ UNION {Workloads[w].roots : w \in DOMAIN Workloads} \subseteq [as : DOMAIN Handles, node : Nodes]

-----------------------------------------------------------------------------
Init ==
  /\ work \in DOMAIN Workloads
  /\ left = Workloads[work].prints
  /\ root = <<>> /\ todo = <<>> /\ text = <<>>
  /\ thrown = FALSE
  /\ indent = 0 /\ newline = FALSE /\ base = 10
  /\ map = <<>>
  /\ resolved = {}

\* The client prints a node: xpr_expr, xpr_stmt, xpr_type or xpr_decl.
BeginPrint ==
  /\ todo = <<>> /\ left > 0
  /\ left' = left - 1
  /\ \E r \in Workloads[work].roots : root' = r /\ todo' = Visit(r.as, r.node)
  /\ text' = <<>>
  /\ thrown' = FALSE
  /\ UNCHANGED <<work, indent, newline, base, map, resolved>>

Doing(do) == todo # <<>> /\ Head(todo).do = do

\* The handlers that are active, the innermost first.
Active == SelectSeq(todo, LAMBDA i : i.do = "return")

\* The end of a line, and the indentation of the next.
Newline(n) == <<"\n", IF n > 0 THEN n ELSE 0>>

\* The operators << of xpr_stmt and xpr_decl begin with a newline if one is needed.
StartsLine == newline /\ Head(todo).as \in {"Stmt", "Decl"}

StartLine ==
  /\ Doing("visit") /\ StartsLine
  /\ text' = Append(text, Newline(indent))
  /\ newline' = FALSE
  /\ UNCHANGED <<work, left, root, todo, thrown, indent, base, map, resolved>>

\* Node::accept: the handler takes the place of the call.
Accept ==
  /\ Doing("visit") /\ ~StartsLine
  /\ Len(Active) < MaxDepth
  /\ LET v == Head(todo)
     IN  todo' = Items(v.as, v.node, v.decl)
                   \o <<[do |-> "return", as |-> v.as, node |-> v.node, indent |-> indent]>>
                   \o Tail(todo)
  /\ UNCHANGED <<work, left, root, text, thrown, indent, newline, base, map, resolved>>

Return ==
  /\ Doing("return")
  /\ todo' = Tail(todo)
  /\ UNCHANGED <<work, left, root, text, thrown, indent, newline, base, map, resolved>>

Write ==
  /\ Doing("write")
  /\ text' = Append(text, <<Head(todo).what>>)
  /\ todo' = Tail(todo)
  /\ UNCHANGED <<work, left, root, thrown, indent, newline, base, map, resolved>>

\* The decimal digits of a number of which n is written in octal.
InOctal[n \in Nat] == IF n < 8 THEN n ELSE 10 * InOctal[n \div 8] + (n % 8)

\* The number that a reader finds where n was written.
Written(n) == IF base = 8 THEN InOctal[n] ELSE n
Digits(n) == <<"%d", Written(n)>>

WriteNumber ==
  /\ Doing("number")
  /\ text' = Append(text, Digits(Head(todo).what))
  /\ todo' = Tail(todo)
  /\ UNCHANGED <<work, left, root, thrown, indent, newline, base, map, resolved>>

\* The stream is left in hexadecimal.
SetHexMutant ==
  /\ Doing("octal")
  /\ base' = 16
  /\ todo' = Tail(todo)
  /\ UNCHANGED <<work, left, root, text, thrown, indent, newline, map, resolved>>

SetOctal ==
  /\ Doing("octal")
  /\ base' = 8
  /\ todo' = Tail(todo)
  /\ UNCHANGED <<work, left, root, text, thrown, indent, newline, map, resolved>>

Indent ==
  /\ Doing("indent")
  /\ indent' = indent + Head(todo).by
  /\ todo' = Tail(todo)
  /\ UNCHANGED <<work, left, root, text, thrown, newline, base, map, resolved>>

BreakLine ==
  /\ Doing("newline")
  /\ indent' = indent + Head(todo).by
  /\ text' = Append(text, Newline(indent'))
  /\ newline' = FALSE
  /\ todo' = Tail(todo)
  /\ UNCHANGED <<work, left, root, thrown, base, map, resolved>>

NeedNewline ==
  /\ Doing("needs_newline")
  /\ newline' = TRUE
  /\ todo' = Tail(todo)
  /\ UNCHANGED <<work, left, root, text, thrown, indent, base, map, resolved>>

\* The number of a declaration is that of the last declaration before it.
DisambiguationMutant(decls, d) ==
  IF Contains(decls, d) THEN CHOOSE i \in DOMAIN decls : decls[i] = d ELSE Len(decls)

\* get_disambiguation: 1-based, in the order in which declarations were used.
Disambiguation(decls, d) ==
  IF Contains(decls, d) THEN CHOOSE i \in DOMAIN decls : decls[i] = d ELSE Len(decls) + 1

\* print_resolution.
WriteResolution ==
  /\ Doing("resolve")
  /\ LET n == Head(todo).node
         d == Head(todo).decl
         decls == IF n \in DOMAIN map THEN map[n] ELSE <<>>
         at == Disambiguation(decls, d)
         known == IF Contains(decls, d) THEN decls ELSE Append(decls, d)
     IN  /\ map' = [m \in DOMAIN map \cup {n} |-> IF m = n THEN known ELSE map[m]]
         /\ text' = text \o << <<"@">>, Digits(at), <<" ">> >>
         /\ resolved' = resolved \cup {[name |-> n, decl |-> d, at |-> Written(at)]}
  /\ todo' = Tail(todo)
  /\ UNCHANGED <<work, left, root, thrown, indent, newline, base>>

\* An exception leaves all handlers; the printer stays as it is.
Throw ==
  /\ Doing("throw")
  /\ todo' = <<>>
  /\ thrown' = TRUE
  /\ UNCHANGED <<work, left, root, text, indent, newline, base, map, resolved>>

Step == \/ StartLine \/ Accept \/ Return \/ Write \/ WriteNumber \/ SetOctal \/ Indent
        \/ BreakLine \/ NeedNewline \/ WriteResolution \/ Throw

Next == BeginPrint \/ Step

\* A call that prints runs until it returns; the client need not make one.
Spec == Init /\ [][Next]_vars /\ WF_vars(Step)

-----------------------------------------------------------------------------
TypeOK ==
  /\ work \in DOMAIN Workloads /\ left \in 0..Workloads[work].prints
  /\ root = <<>> \/ root.as \in DOMAIN Handles
  /\ \A i \in DOMAIN todo : todo[i].do \in {"visit", "return"} =>
       todo[i].as \in DOMAIN Handles /\ WellFormed(todo[i].node)
  /\ \A i \in DOMAIN text :
       Len(text[i]) = 1 \/ (Len(text[i]) = 2 /\ text[i][1] \in {"\n", "%d"})
  /\ thrown \in BOOLEAN /\ newline \in BOOLEAN
  /\ indent \in Int
  /\ base \in {8, 10}
  /\ \A n \in DOMAIN map : n.kind \in NameKinds /\ map[n] # <<>>

\* "Because Name is a very high-leverl interface to Identifier, Operator, ... it
\* is convenient to have the implementation of the corresponding
\* Visitor::visit() functions forward to Visitor::visit(const Name&)"
\* (traversal.C:81): what is called for a node is a function for a class that
\* interface.H derives the node's from, and no nearer one has a function in the
\* visitor or its bases; Constant_visitor's, which throw, are for Expr and Stmt.
Forwarded ==
  Doing("visit") =>
    LET v == Head(todo).as
        handled == UNION {Handles[Lineage[v][i]] : i \in DOMAIN Lineage[v]}
        classes == Lineages[Head(todo).node.kind]
        called == Overrider[v][Head(todo).node.kind]
    IN  \E i \in DOMAIN classes :
          /\ classes[i] \in handled \cup {"Expr", "Stmt"}
          /\ \A j \in 1..(i - 1) : classes[j] \notin handled \cup {"Expr", "Stmt"}
          /\ IF classes[i] \in handled THEN called.visit = classes[i]
             ELSE called.by = "Missing_overrider"

\* Whatever a handler does to the indentation and has others do, it leaves it
\* as it was.
Balanced == Doing("return") => indent = Head(todo).indent

\* What the handler that was called last does ends at its return.
Innermost(items, i) ==
  items[i].do = "return" /\ \A j \in 1..(i - 1) : items[j].do # "return"

\* A statement that is part of a statement or of a function stands on a line
\* of its own, indented as the printer then is.
OwnLine ==
  (/\ Doing("visit") /\ ~StartsLine /\ Head(todo).as = "Stmt"
   /\ \E i \in DOMAIN todo : Innermost(todo, i) /\ todo[i].as \in {"Stmt", "Decl"})
  => text # <<>> /\ Last(text) = Newline(indent)

\* "Map different uses of a name to the corresponding declaration" (io.H:19):
\* the numbers after two uses of a name are equal if and only if the uses are
\* of one declaration, in all that one printer prints.  A control character
\* ends that: from then on the number 8 is written as the number 10 was.
Disambiguated ==
  base = 10 => \A x, y \in resolved : x.name = y.name => (x.at = y.at <=> x.decl = y.decl)

\* A print ends, with the text or with an exception.  It does not for the nodes of
\* three classes without a function of their own: Rvalue_reference and Decltype
\* (NoReentry), and Overload as an expression.
EveryPrintEnds == todo # <<>> ~> todo = <<>>

\* No handler is asked for a node while it is handling that node already, for
\* then it will be again: "A type-id is just the spelling of the type
\* expression" (io.C:322), and the spelling of a type that has none is its name.
NoReentry ==
  \A i, j \in DOMAIN Active :
    Active[i].as = Active[j].as /\ Active[i].node = Active[j].node => i = j
=============================================================================
