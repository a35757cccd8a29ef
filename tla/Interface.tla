------------------------------ MODULE Interface ------------------------------
(***************************************************************************)
(* The classes of nodes (interface.H): what each is derived from and which *)
(* operands it is made of, as they are declared there.                     *)
(***************************************************************************)
EXTENDS Sequences, SequencesExt

-----------------------------------------------------------------------------
\* Two tables as one: TLC's @@, which the provers do not expand.
f ++ g == [c \in DOMAIN f \cup DOMAIN g |-> IF c \in DOMAIN f THEN f[c] ELSE g[c]]

-----------------------------------------------------------------------------
(* The operands that Unary, Binary, Ternary and Quaternary are given.      *)

Unary == <<"Expr">>
Binary == <<"Expr", "Expr">>
Ternary == <<"Expr", "Expr", "Expr">>
Quaternary == <<"Product", "Type", "Type", "Linkage">>

Each(cs, operands) == [c \in cs |-> operands]

NameClasses ==
  Each({"Identifier", "Operator"}, <<"String">>)
    ++ Each({"Conversion", "Ctor_name", "Dtor_name"}, <<"Type">>)
    ++ [Scope_ref |-> Binary, Template_id |-> <<"Name", "Expr_list">>,
        Rname |-> <<"Type", "int", "int">>]

TypeClasses ==
  Each({"Pointer", "Reference", "Rvalue_reference"}, <<"Type">>)
    ++ Each({"Product", "Sum"}, <<"Sequence">>)
    ++ [Array |-> <<"Type", "Expr">>, As_type |-> <<"Expr", "Linkage">>, Decltype |-> Unary,
        Function |-> Quaternary, Ptr_to_member |-> <<"Type", "Type">>,
        Qualified |-> <<"Qualifier", "Type">>, Template |-> <<"Product", "Type">>]

UnaryClasses ==
  Each({"Address", "Array_delete", "Complement", "Delete", "Deref", "Paren_expr",
        "Expr_sizeof", "Expr_typeid", "Not", "Post_decrement", "Post_increment",
        "Pre_decrement", "Pre_increment", "Throw", "Unary_minus", "Unary_plus"}, Unary)
    ++ Each({"Type_sizeof", "Type_typeid"}, <<"Type">>)

\* Unary classes that are no classic expressions.
OtherUnaries == [Expr_list |-> <<"Sequence">>, Id_expr |-> <<"Name">>, Label |-> <<"Identifier">>]

CastClasses ==
  Each({"Cast", "Const_cast", "Dynamic_cast", "Reinterpret_cast", "Static_cast"},
       <<"Type", "Expr">>)

BinaryClasses ==
  Each({"Plus", "Plus_assign", "And", "Array_ref", "Arrow", "Arrow_star", "Assign", "Bitand",
        "Bitand_assign", "Bitor", "Bitor_assign", "Bitxor", "Bitxor_assign", "Comma"}, Binary)
    ++ [Call |-> <<"Expr", "Expr_list">>, Datum |-> <<"Type", "Expr_list">>]

MoreBinaryClasses ==
  Each({"Div", "Div_assign", "Dot", "Dot_star", "Equal", "Greater", "Greater_equal", "Less",
        "Less_equal", "Minus", "Minus_assign", "Modulo", "Modulo_assign", "Mul", "Mul_assign",
        "Not_equal", "Or", "Lshift", "Lshift_assign", "Rshift", "Rshift_assign"}, Binary)
    ++ [Literal |-> <<"Type", "String">>]

TernaryClasses == [New |-> <<"Expr_list", "Type", "Expr_list">>, Conditional |-> Ternary]

StmtClasses ==
  Each({"Labeled_stmt", "If_then", "Switch", "While", "Do"}, <<"Expr", "Stmt">>)
    ++ Each({"Expr_stmt", "Goto", "Return"}, Unary)
    ++ [Ctor_body |-> <<"Expr_list", "Block">>, If_then_else |-> <<"Expr", "Stmt", "Stmt">>,
        Handler |-> <<"Decl", "Block">>]

\* Classes whose parts are read by functions of their own.
PlainStmts == {"Block", "For", "For_in", "Break", "Continue"}
PlainDecls == {"Named_map", "Enumerator", "Asm", "Alias", "Base_type", "Parameter", "Fundecl",
               "Var", "Field", "Bitfield", "Typedecl"}
Udts == {"Namespace", "Class", "Union", "Enum"}

BuiltinConstants ==
  {"Void", "Bool", "Char", "sChar", "uChar", "Wchar_t", "Short", "uShort", "Int", "uInt", "Long",
   "uLong", "Long_long", "uLong_long", "Float", "Double", "Long_double", "Ellipsis"}

Classic == UnaryClasses ++ CastClasses ++ BinaryClasses ++ MoreBinaryClasses ++ TernaryClasses

DeclaredOperands ==
  NameClasses ++ [Type_id |-> <<"Type">>] ++ TypeClasses ++ Classic ++ OtherUnaries
    ++ StmtClasses ++ [Member_init |-> Binary]

-----------------------------------------------------------------------------
(* What each class is derived from.                                        *)

Derived(cs, from) == [c \in cs |-> from]

\* The classes of interface.H that others are derived from.
Categories ==
  Derived({"Name", "Type", "Classic", "Stmt"}, "Expr") ++ Derived({"Decl"}, "Stmt")
    ++ Derived({"Udt"}, "Type") ++ Derived({"Expr"}, "Node")

Inherits ==
  Categories
    ++ Derived(DOMAIN NameClasses \cup {"Type_id", "Id_expr"}, "Name")
    ++ Derived(DOMAIN TypeClasses, "Type")
    ++ Derived(DOMAIN Classic, "Classic")
    ++ Derived({"Expr_list", "Label", "Phantom", "Mapping", "Member_init", "Overload", "Scope"},
               "Expr")
    ++ Derived(DOMAIN StmtClasses \cup PlainStmts, "Stmt")
    ++ Derived(PlainDecls, "Decl")
    ++ Derived(Udts, "Udt")
    ++ Derived(BuiltinConstants, "As_type")
    ++ [Global_scope |-> "Namespace", Empty_stmt |-> "Expr_stmt"]

\* A class and those it is derived from, the nearest first.
Lineages[c \in DOMAIN Inherits \cup {"Node"}] ==
  IF c = "Node" THEN <<c>> ELSE <<c>> \o Lineages[Inherits[c]]

IsA(c, d) == Contains(Lineages[c], d)

-----------------------------------------------------------------------------
\* A builtin has the operands of an As_type, an empty statement those of an
\* expression statement.
OperandsOf(c) ==
  LET declared == SelectSeq(Lineages[c], LAMBDA d : d \in DOMAIN DeclaredOperands)
  IN  IF declared = <<>> THEN <<>> ELSE DeclaredOperands[Head(declared)]

\* What operands are that are no nodes, or that are not looked into.
Data == {"String", "int", "Linkage", "Qualifier"}

\* The elements of a class that is a sequence.
ElementsOf == [Product |-> "Type", Sum |-> "Type", Expr_list |-> "Expr"]

\* Nodes of kind c can have operands of kinds ks.
Takes(c, ks) ==
  LET os == SelectSeq(OperandsOf(c), LAMBDA o : o \notin Data)
  IN  IF c \in DOMAIN ElementsOf THEN \A i \in DOMAIN ks : IsA(ks[i], ElementsOf[c])
      ELSE Len(ks) = Len(os) /\ \A i \in DOMAIN os : IsA(ks[i], os[i])
=============================================================================
