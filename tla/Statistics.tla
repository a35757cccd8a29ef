------------------------------ MODULE Statistics ------------------------------
(***************************************************************************)
(* The numbering and the counting of nodes (interface.C): the constructor  *)
(* of ipr::Node takes the next identifier and increments the count of its   *)
(* category, in an array of last_code_cat counts.                          *)
(*                                                                         *)
(* The enumerators of Category_code are in alphabetical order, and          *)
(* last_code_cat with them (interface.H:344): the array has no element for  *)
(* the categories after it, and the increment falls on what the program has *)
(* in memory behind the array.                                              *)
(***************************************************************************)
EXTENDS Integers, Sequences, SequencesExt, FiniteSetsExt

CONSTANTS
  Made,     \* the categories of the nodes the program makes
  MaxNodes  \* bound: how many it makes

VARIABLES
  node_total_count,
  node_usage_counts, \* the counts, from category 0
  behind,            \* what other data was incremented, by address in counts
  nodes              \* history: the category of each node, by node_id

vars == <<node_total_count, node_usage_counts, behind, nodes>>

Category_code ==
  <<"address", "alias", "and", "annotation", "array", "array_delete", "array_ref", "arrow",
    "arrow_star", "as_type", "asm", "assign", "base_type", "bitand_assign", "bitand",
    "bitfield", "bitor_assign", "bitor", "bitxor_assign", "bitxor", "block", "break",
    "call", "cast", "class", "comma", "comment", "complement", "conditional", "const_cast",
    "continue", "conversion", "ctor_body", "ctor_name", "datum", "decltype", "delete",
    "deref", "div_assign", "div", "do", "dot", "dot_star", "dtor_name", "dynamic_cast",
    "enum", "enumerator", "equal", "expr_list", "expr_sizeof", "expr_stmt", "expr_typeid",
    "field", "for", "for_in", "function", "fundecl", "goto", "greater", "greater_equal",
    "handler", "id_expr", "identifier", "if_then", "if_then_else", "label", "labeled_stmt",
    "last_code", "less", "less_equal", "linkage", "literal", "lshift_assign", "lshift",
    "mapping", "member_init", "minus_assign", "minus", "modulo_assign", "modulo",
    "mul_assign", "mul", "named_map", "namespace", "new", "not", "not_equal", "operator",
    "or", "overload", "parameter", "paren_expr", "phantom", "plus_assign", "plus",
    "pointer", "post_decrement", "post_increment", "pre_decrement", "pre_increment",
    "product", "ptr_to_member", "qualified", "reference", "region", "reinterpret_cast",
    "return", "rname", "rshift_assign", "rshift", "rvalue_reference", "scope", "scope_ref",
    "static_cast", "string", "sum", "switch", "template", "template_id", "throw", "type_id",
    "type_sizeof", "type_typeid", "typedecl", "unary_minus", "unary_plus", "union", "unit",
    "var", "while">>

\* The enumerators count from 0.
Code(c) == SelectInSeq(Category_code, LAMBDA d : d = c) - 1

last_code_cat == Code("last_code")

Init ==
  /\ node_total_count = 0
  /\ node_usage_counts = [c \in 0..(last_code_cat - 1) |-> 0]
  /\ behind = {}
  /\ nodes = <<>>

\* The constructor of Node; "\todo Implement checking of c" (interface.C:37).
\* Built for debugging, as wscript has it, and optimized, node_total_count is not
\* at the address of a category's count.
MakeNode(c) ==
  /\ Len(nodes) < MaxNodes
  /\ node_total_count' = node_total_count + 1
  /\ nodes' = Append(nodes, c)
  /\ IF Code(c) \in DOMAIN node_usage_counts
     THEN /\ node_usage_counts' = [node_usage_counts EXCEPT ![Code(c)] = @ + 1]
          /\ UNCHANGED behind
     ELSE /\ behind' = behind \cup {Code(c)}
          /\ UNCHANGED node_usage_counts

Next == \E c \in Made : MakeNode(c)

Spec == Init /\ [][Next]_vars

-----------------------------------------------------------------------------
\* "count of all nodes" and "count of nodes of a given category"
\* (interface.H:412, 413): the counts there are of the categories add up to that
\* of all nodes.
AllCounted ==
  MapThenSumSet(LAMBDA c : node_usage_counts[c], DOMAIN node_usage_counts) = node_total_count
=============================================================================
