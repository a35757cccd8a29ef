-------------------------------- MODULE MCUnit --------------------------------
(***************************************************************************)
(* Small instances of Unit: what clients ask for.  A client that asks for   *)
(* everything is out of reach; each of these asks for the kinds of node     *)
(* that are made of each other, or compared in one way.                     *)
(***************************************************************************)
EXTENDS Unit

\* Types made of types, with an allocation that may fail.
TypeClient ==
  [kinds |-> {"Pointer", "Qualified", "Product"},
   length |-> 1, nodes |-> 18, answers |-> 3, failures |-> 1]

\* The same with lists of two types, and no failures.
ProductClient == [TypeClient EXCEPT !.length = 2, !.failures = 0]

\* Types of functions.
FunctionClient ==
  [kinds |-> {"Product", "Sum", "Function"},
   length |-> 1, nodes |-> 20, answers |-> 3, failures |-> 0]

\* Names and what names are made of, by node and by text.
NameClient ==
  [kinds |-> {"String", "Identifier", "Literal"},
   length |-> 0, nodes |-> 18, answers |-> 2, failures |-> 1]

\* The other kinds that are compared by their operands, or never: those that
\* are made of types and expressions, and those that need names or lists.
OperandClient ==
  [kinds |-> {"Phantom", "Array", "As_type", "Ptr_to_member", "Reference", "Rvalue_reference",
              "Type_sizeof", "Type_typeid"},
   length |-> 0, nodes |-> 17, answers |-> 2, failures |-> 0]

ListClient ==
  [OperandClient EXCEPT !.kinds = {"Rname", "Expr_list", "Template_id", "Unary", "Binary",
                                   "Product", "Template", "Scope_ref"}]

\* Classes, their names, and types made of them.
ClassClient ==
  [kinds |-> {"Udt", "Identifier", "Pointer"},
   length |-> 0, nodes |-> 19, answers |-> 3, failures |-> 1]

\* The kinds that are compared by identity; Ctor_name and Dtor_name are made as
\* Conversion is.
IdentityClient ==
  [kinds |-> {"Decltype", "Linkage", "Operator", "Type_id", "Conversion"},
   length |-> 0, nodes |-> 18, answers |-> 2, failures |-> 1]

AllWorkloads == {TypeClient, ProductClient, FunctionClient, NameClient, OperandClient,
                 ListClient, ClassClient, IdentityClient}

\* A string, and one that it is a prefix of.
Texts == {<<67>>, <<67, 97>>}
=============================================================================
