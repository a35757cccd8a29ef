--------------------------------- MODULE Unit ---------------------------------
(***************************************************************************)
(* impl::Unit and its factories (ipr/impl.C, impl.H): every node a client   *)
(* asks for by its operands is looked up in the table of its kind and made  *)
(* only when it is not there; types and names are then given their type and *)
(* their name, which may make further nodes.  Any step that allocates may   *)
(* fail and leave the call by an exception, with what it made so far still  *)
(* in the tables.                                                           *)
(*                                                                         *)
(* A node is its node_id, its place in the sequence nodes.                  *)
(***************************************************************************)
EXTENDS Integers, Sequences, FiniteSets

CONSTANTS
  Workloads,  \* what clients may do, one of these: records of
              \*   kinds:    the kinds of node they ask for
              \*   length:   bound, at most 2: the types in a product or a sum
              \*   nodes:    bound: the memory there is for nodes
              \*   answers:  bound: clients that hold more ask again for what
              \*             they hold, or by text for a kind they hold
              \*   failures: bound: allocations that fail
  Contents,   \* the strings they ask for, sequences of character codes
  Qualifiers  \* the cv-qualifiers they ask for, 0 being Type::None

VARIABLES
  work,     \* what clients do
  nodes,    \* nodes[n]: kind, operands, constraint and id (0 the null pointer)
  answers,  \* what clients were given: requests and their nodes
  finished, \* those that were given by a function of Unit, not of a factory
  raw,      \* the call in progress is one of a factory
  pc,       \* where the call in progress is
  call,     \* the lookup in progress
  asked,    \* what the client's call is for
  pending,  \* the lookup that follows it, 0 standing for its result
  target,   \* the node being looked up or finished
  outer,    \* the name whose decltype is being made, or 0
  failures  \* allocations that failed so far

vars == <<work, nodes, answers, finished, raw, pc, call, asked, pending, target, outer, failures>>

-----------------------------------------------------------------------------
Lookup(k, a) == [kind |-> k, args |-> a]
NoLookup == Lookup("none", <<>>)

\* Nodes the constructor of Unit leaves: the linkages C++ and C, and two of
\* its built-in types with their names, anytype and ellipsistype.
CxxLinkage == 2
CLinkage == 4
AnyType == 9
EllipsisType == 14

\* make_class and its like set the constraint of what they make, to the built-in
\* type of classes or the like, for which AnyType stands here.
FirstConstraint(k) == IF k = "Udt" THEN AnyType ELSE 0

MadeNode(k, a) == [kind |-> k, args |-> a, constraint |-> FirstConstraint(k), id |-> 0]

BuiltinNodes == <<
  MadeNode("String", <<67, 43, 43>>),
  MadeNode("Cxx_linkage", <<1>>),
  MadeNode("String", <<67>>),
  MadeNode("C_linkage", <<3>>),
  MadeNode("String", <<116>>),
  [MadeNode("Identifier", <<5>>) EXCEPT !.constraint = 7],
  [MadeNode("Decltype", <<6>>) EXCEPT !.constraint = AnyType, !.id = 8],
  MadeNode("Type_id", <<7>>),
  [MadeNode("Builtin", <<6, CxxLinkage>>) EXCEPT !.constraint = AnyType, !.id = 6],
  MadeNode("String", <<46>>),
  [MadeNode("Identifier", <<10>>) EXCEPT !.constraint = 12],
  [MadeNode("Decltype", <<11>>) EXCEPT !.constraint = AnyType, !.id = 13],
  MadeNode("Type_id", <<12>>),
  [MadeNode("Builtin", <<11, CxxLinkage>>) EXCEPT !.constraint = AnyType, !.id = 11] >>

\* The kinds finish_type is called for.
FinishedTypes ==
  {"Array", "As_type", "Decltype", "Function", "Pointer", "Product", "Ptr_to_member",
   "Qualified", "Reference", "Rvalue_reference", "Sum", "Template"}
TypeKinds == FinishedTypes \cup {"Builtin"}

\* The names whose constraint is set to the decltype of themselves.
TypedNames ==
  {"Identifier", "Operator", "Conversion", "Ctor_name", "Dtor_name", "Scope_ref",
   "Template_id"}

\* The kinds whose nodes are appended to a list and never looked up; Udt stands
\* for Class, Enum, Union and Namespace, of which clients set the names.
Unshared == {"Phantom", "Expr_list", "Unary", "Binary", "Udt"}

\* The kinds looked up by unary_compare on two nodes: it compares the operand
\* asked for with the node in the tree, not with that node's operand.
ByIdentity ==
  {"Decltype", "Linkage", "Operator", "Type_id", "Conversion", "Ctor_name", "Dtor_name"}

NodeKinds ==
  TypeKinds \cup TypedNames \cup Unshared \cup ByIdentity \cup
    {"String", "Cxx_linkage", "C_linkage", "Literal", "Rname", "Type_sizeof", "Type_typeid"}

\* Built-in types and the two linkages are made by the constructor alone.
ASSUME WorkloadAssumption ==
  \A w \in Workloads :
    /\ w.kinds \subseteq NodeKinds \ {"Builtin", "Cxx_linkage", "C_linkage"}
    /\ w.length \in Nat /\ w.nodes \in Nat /\ w.answers \in Nat /\ w.failures \in Nat
ASSUME OperandAssumption == Contents \subseteq Seq(Nat) /\ Qualifiers \subseteq Nat

-----------------------------------------------------------------------------
Sign(x) == IF x < 0 THEN -1 ELSE IF x > 0 THEN 1 ELSE 0

\* A sequence compares equal to any it is a prefix of.
LexicographicalMutant(s, t) ==
  LET common == DOMAIN s \cap DOMAIN t
      differ == {i \in common : s[i] # t[i]}
  IN  IF differ = {} THEN 0
      ELSE LET i == CHOOSE i \in differ : \A j \in differ : i <= j
           IN  Sign(s[i] - t[i])

\* The last of four operands is not looked at.
LexicographicalShortMutant(s, t) ==
  LET common == DOMAIN s \cap DOMAIN t
      differ == {i \in common \ {4} : s[i] # t[i]}
  IN  IF differ = {} THEN Sign(Len(s) - Len(t))
      ELSE LET i == CHOOSE i \in differ : \A j \in differ : i <= j
           IN  Sign(s[i] - t[i])

\* util::lexicographical_compare of two sequences of integers, which is also
\* what binary_compare, ternary_compare and quaternary_compare do with the
\* operands of two nodes of one kind.
Lexicographical(s, t) ==
  LET common == DOMAIN s \cap DOMAIN t
      differ == {i \in common : s[i] # t[i]}
  IN  IF differ = {} THEN Sign(Len(s) - Len(t))
      ELSE LET i == CHOOSE i \in differ : \A j \in differ : i <= j
           IN  Sign(s[i] - t[i])

\* Every kind with one operand is compared by the identity of its nodes.
OrderingMutant(k, a, n) ==
  IF Len(a) = 1 THEN Sign(a[1] - n) ELSE Lexicographical(a, nodes[n].args)

\* The comparator of the table of kind k, applied to a key and a node in it.
Ordering(k, a, n) ==
  IF k \in ByIdentity THEN Sign(a[1] - n) ELSE Lexicographical(a, nodes[n].args)

Table(k) == {n \in DOMAIN nodes : nodes[n].kind = k /\ k \notin Unshared}

\* get_linkage answers for the two linkages that are in no table.
Preset(k, a) ==
  IF k # "Linkage" THEN {}
  ELSE {n \in {CxxLinkage, CLinkage} : nodes[n].args = a}

\* The nodes a lookup may end at.
Matches(k, a) == Preset(k, a) \cup {n \in Table(k) : Ordering(k, a, n) = 0}

\* A tree kept by comparing identities is not ordered by what it is searched
\* for, so a search may also miss the node that compares equal.
MayMiss(k, a) == Matches(k, a) = {} \/ (k \in ByIdentity /\ Preset(k, a) = {})

-----------------------------------------------------------------------------
\* The nodes clients hold: the built-in ones, and what they were given.
given == {CxxLinkage, CLinkage, AnyType, EllipsisType} \cup {x.node : x \in answers}

Held(K) == {n \in given : nodes[n].kind \in K}
Types == Held(TypeKinds \cup {"Udt"})
Exprs == Held(NodeKinds \ {"String", "Cxx_linkage", "C_linkage", "Linkage"})
Linkages == Held({"Cxx_linkage", "C_linkage", "Linkage"})

Pairs(S, T) == {<<s, t>> : s \in S, t \in T}

\* The operands clients can ask for kind k with.
Operands(k) ==
  CASE k = "String" -> Contents
    [] k \in {"Identifier", "Operator", "Linkage"} -> {<<s>> : s \in Held({"String"})}
    [] k \in {"Conversion", "Ctor_name", "Dtor_name", "Type_id", "Type_sizeof",
              "Type_typeid", "Pointer", "Reference", "Rvalue_reference"} -> {<<t>> : t \in Types}
    [] k \in {"Decltype", "Unary"} -> {<<e>> : e \in Exprs}
    [] k \in {"Scope_ref", "Binary"} -> Pairs(Exprs, Exprs)
    [] k = "Array" -> Pairs(Types, Exprs)
    [] k = "As_type" -> Pairs(Exprs, Linkages)
    [] k = "Ptr_to_member" -> Pairs(Types, Types)
    [] k = "Qualified" -> Pairs(Qualifiers, Types)
    [] k = "Template" -> Pairs(Held({"Product"}), Types)
    [] k = "Literal" -> Pairs(Types, Held({"String"}))
    [] k = "Template_id" -> Pairs(Held(TypedNames \cup {"Type_id", "Rname"}), Held({"Expr_list"}))
    [] k = "Rname" -> {<<t, l, p>> : t \in Types, l \in {0, 1}, p \in {0, 1}}
    [] k = "Function" ->
         {<<p, t, s, l>> : p \in Held({"Product"}), t \in Types, s \in Held({"Sum"}), l \in Linkages}
    [] k \in {"Product", "Sum"} ->
         {a \in {<<>>} \cup {<<t>> : t \in Types} \cup Pairs(Types, Types) : Len(a) <= work.length}
    [] OTHER -> {<<>>}

Init ==
  /\ work \in Workloads
  /\ nodes = BuiltinNodes
  /\ answers = {}
  /\ finished = {CxxLinkage, CLinkage, AnyType, EllipsisType}
  /\ raw = FALSE
  /\ pc = "idle"
  /\ call = NoLookup
  /\ asked = NoLookup
  /\ pending = NoLookup
  /\ target = 0
  /\ outer = 0
  /\ failures = 0

Begin(first, rest, plain) ==
  /\ pc = "idle"
  /\ \/ Cardinality(answers) < work.answers
     \/ \E x \in answers : x.asked = first \/ x.asked.kind = rest.kind
  /\ raw' = plain
  /\ pc' = "find"
  /\ call' = first
  /\ asked' = IF rest = NoLookup THEN first ELSE rest
  /\ pending' = rest
  /\ target' = 0
  /\ outer' = 0
  /\ UNCHANGED <<work, nodes, answers, finished, failures>>

\* A call of one of Unit's get_... with the operands themselves, and of a
\* factory's make_..., which leaves a name without its type.
Get == \E k \in work.kinds : \E a \in Operands(k) : Begin(Lookup(k, a), NoLookup, FALSE)

GetPlain ==
  \E k \in work.kinds \cap TypedNames : \E a \in Operands(k) : Begin(Lookup(k, a), NoLookup, TRUE)

\* One that is given characters, and makes the String first.
GetByText ==
  \E c \in Contents :
    \/ \E k \in work.kinds \cap {"Identifier", "Operator", "Linkage"} :
         Begin(Lookup("String", c), Lookup(k, <<0>>), FALSE)
    \/ "Literal" \in work.kinds /\ \E t \in Types : Begin(Lookup("String", c),  Lookup("Literal", <<t, 0>>), FALSE)

\* get_function without exception types: the list is the ellipsis.
GetFunction ==
  /\ "Function" \in work.kinds
  /\ \E p \in Held({"Product"}), t \in Types, l \in Linkages :
       Begin(Lookup("Sum", <<EllipsisType>>), Lookup("Function", <<p, t, 0, l>>), FALSE)

\* Where a call goes once it has its node.
AfterMake(k) ==
  IF k \in FinishedTypes THEN "constrain"
  ELSE IF k \in TypedNames /\ ~raw THEN "type" ELSE "return"

\* No call is in progress any more.
Idle ==
  /\ pc' = "idle"
  /\ raw' = FALSE
  /\ call' = NoLookup
  /\ asked' = NoLookup
  /\ pending' = NoLookup
  /\ target' = 0
  /\ outer' = 0

\* make_qualified throws before it looks anything up.
Valid(c) == c.kind = "Qualified" => c.args[1] # 0

RejectQualified ==
  /\ pc = "find"
  /\ ~Valid(call)
  /\ Idle
  /\ UNCHANGED <<work, nodes, answers, finished, failures>>

\* Only a new node is finished.
FindMutant(n) ==
  /\ pc = "find"
  /\ Valid(call)
  /\ n \in Matches(call.kind, call.args)
  /\ target' = n
  /\ pc' = "return"
  /\ UNCHANGED <<work, nodes, answers, finished, raw, call, asked, pending, outer, failures>>

\* container<T>::insert finds the node.
Find(n) ==
  /\ pc = "find"
  /\ Valid(call)
  /\ n \in Matches(call.kind, call.args)
  /\ target' = n
  /\ pc' = AfterMake(nodes[n].kind)
  /\ UNCHANGED <<work, nodes, answers, finished, raw, call, asked, pending, outer, failures>>

Room == Len(nodes) < work.nodes

\* container<T>::insert, or a list's push_back, makes the node.
Make ==
  /\ pc = "find"
  /\ Valid(call)
  /\ MayMiss(call.kind, call.args)
  /\ Room
  /\ nodes' = Append(nodes, MadeNode(call.kind, call.args))
  /\ target' = Len(nodes) + 1
  /\ pc' = AfterMake(call.kind)
  /\ UNCHANGED <<work, answers, finished, raw, call, asked, pending, outer, failures>>

\* finish_type sets the constraint of a type that has none.
Constrain ==
  /\ pc = "constrain"
  /\ nodes' = IF nodes[target].constraint = 0
              THEN [nodes EXCEPT ![target].constraint = AnyType]
              ELSE nodes
  /\ pc' = "name"
  /\ UNCHANGED <<work, answers, finished, raw, call, asked, pending, target, outer, failures>>

\* The name is not kept in the unit and is gone when finish_type returns.
NameGoneMutant ==
  /\ pc = "name"
  /\ nodes' = IF nodes[target].id = 0
              THEN [nodes EXCEPT ![target].id = Len(nodes) + 1]
              ELSE nodes
  /\ pc' = "return"
  /\ UNCHANGED <<work, answers, finished, raw, call, asked, pending, target, outer, failures>>

\* A new Type_id whatever the type has already.
NameMutant ==
  /\ pc = "name"
  /\ Room
  /\ nodes' = Append([nodes EXCEPT ![target].id = Len(nodes) + 1], MadeNode("Type_id", <<target>>))
  /\ pc' = "return"
  /\ UNCHANGED <<work, answers, finished, raw, call, asked, pending, target, outer, failures>>

\* finish_type names a type that has no name.  make_type_id compares the type
\* with the Type_ids in the table, and none of them is a type.
Name ==
  /\ pc = "name"
  /\ \/ /\ nodes[target].id # 0
        /\ UNCHANGED nodes
     \/ /\ nodes[target].id = 0
        /\ Room
        /\ nodes' = Append([nodes EXCEPT ![target].id = Len(nodes) + 1],
                           MadeNode("Type_id", <<target>>))
  /\ pc' = "return"
  /\ UNCHANGED <<work, answers, finished, raw, call, asked, pending, target, outer, failures>>

\* The client that made a class, an enum or their like sets its name, once.
NameUdt ==
  /\ pc = "idle"
  /\ \E n \in Held({"Udt"}), i \in Held(TypedNames) :
       /\ nodes[n].id = 0
       /\ nodes' = [nodes EXCEPT ![n].id = i]
  /\ UNCHANGED <<work, answers, finished, raw, pc, call, asked, pending, target, outer, failures>>

\* A name that has its type already needs nothing more.
Typed ==
  /\ pc = "type"
  /\ nodes[target].constraint # 0
  /\ pc' = "return"
  /\ UNCHANGED <<work, nodes, answers, finished, raw, call, asked, pending, target, outer, failures>>

\* Otherwise it asks for its decltype.
NeedsType ==
  /\ pc = "type"
  /\ nodes[target].constraint = 0
  /\ outer' = target
  /\ call' = Lookup("Decltype", <<target>>)
  /\ pc' = "find"
  /\ UNCHANGED <<work, nodes, answers, finished, raw, asked, pending, target, failures>>

Fill(a, n) == [i \in DOMAIN a |-> IF a[i] = 0 THEN n ELSE a[i]]

\* The decltype is done: it becomes the name's constraint.
Resume ==
  /\ pc = "return"
  /\ outer # 0
  /\ nodes' = [nodes EXCEPT ![outer].constraint = target]
  /\ target' = outer
  /\ outer' = 0
  /\ UNCHANGED <<work, answers, finished, raw, pc, call, asked, pending, failures>>

\* The first of two lookups is done: its result is an operand of the second.
Continue ==
  /\ pc = "return"
  /\ outer = 0
  /\ pending # NoLookup
  /\ call' = Lookup(pending.kind, Fill(pending.args, target))
  /\ asked' = call'
  /\ pending' = NoLookup
  /\ target' = 0
  /\ pc' = "find"
  /\ UNCHANGED <<work, nodes, answers, finished, raw, outer, failures>>

\* The call is over and its client has the node.
Return ==
  /\ pc = "return"
  /\ outer = 0
  /\ pending = NoLookup
  /\ answers' = answers \cup {[asked |-> asked, node |-> target]}
  /\ finished' = IF raw THEN finished ELSE finished \cup {target}
  /\ Idle
  /\ UNCHANGED <<work, nodes, failures>>

\* operator new throws: the call is abandoned where it stands.
BadAlloc ==
  /\ \/ pc = "find" /\ Valid(call) /\ MayMiss(call.kind, call.args)
     \/ pc = "name" /\ nodes[target].id = 0
  /\ IF Room THEN failures < work.failures /\ failures' = failures + 1 ELSE UNCHANGED failures
  /\ Idle
  /\ UNCHANGED <<work, nodes, answers, finished>>

Next ==
  \/ Get \/ GetPlain \/ GetByText \/ GetFunction
  \/ RejectQualified
  \/ \E n \in DOMAIN nodes : Find(n)
  \/ Make
  \/ Constrain \/ Name \/ NameUdt
  \/ Typed \/ NeedsType \/ Resume
  \/ Continue \/ Return
  \/ BadAlloc

Spec == Init /\ [][Next]_vars

-----------------------------------------------------------------------------
NodeId == 1..Len(nodes)
LookupRecord == [kind : NodeKinds \cup {"none"}, args : Seq(Nat)]

TypeOK ==
  /\ work \in Workloads
  /\ nodes \in Seq([kind : NodeKinds, args : Seq(Nat), constraint : Nat, id : Nat])
  /\ \A n \in NodeId : nodes[n].constraint \in NodeId \cup {0} /\ nodes[n].id \in NodeId \cup {0}
  /\ \A x \in answers : x.asked \in LookupRecord /\ x.node \in NodeId
  /\ finished \subseteq given
  /\ raw \in BOOLEAN
  /\ pc \in {"idle", "find", "constrain", "name", "type", "return"}
  /\ call \in LookupRecord /\ asked \in LookupRecord /\ pending \in LookupRecord
  /\ failures \in 0..work.failures
  /\ target \in NodeId \cup {0} /\ outer \in NodeId \cup {0}

\* The tree of every such kind is searched by a total order of its nodes, so
\* the search is not led past the node it is for.
Searchable ==
  \A k \in {nodes[n].kind : n \in NodeId} \ (Unshared \cup ByIdentity) : \A l, m, n \in Table(k) :
    LET Before(i, j) == Ordering(k, nodes[i].args, j) < 0
    IN  /\ m # n => (Before(m, n) <=> ~Before(n, m))
        /\ Before(l, m) /\ Before(m, n) => Before(l, n)

\* The name of a type is a Type_id of that very type.
NamedType(n) ==
  /\ nodes[n].constraint # 0
  /\ nodes[n].id # 0
  /\ nodes[nodes[n].id].kind = "Type_id" => nodes[nodes[n].id].args = <<n>>

\* What Unit gives is whole, although a call before may have been abandoned
\* with the node half made: a type has its type and its name, a name the
\* decltype of itself, itself whole.
Whole ==
  \A n \in finished :
    /\ nodes[n].kind \in TypeKinds => NamedType(n)
    /\ nodes[n].kind \in TypedNames =>
         LET d == nodes[n].constraint
         IN  d # 0 /\ nodes[d].kind = "Decltype" /\ nodes[d].args = <<n>> /\ NamedType(d)

\* The interface is non-mutating: a node that a client holds keeps its
\* operands for ever, and its type and name once they are set.
Permanent ==
  [][\A n \in given :
       /\ nodes'[n].kind = nodes[n].kind /\ nodes'[n].args = nodes[n].args
       /\ nodes[n].constraint # 0 => nodes'[n].constraint = nodes[n].constraint
       /\ nodes[n].id # 0 => nodes'[n].id = nodes[n].id]_vars

\* A client is given the operands it asked with.
Answers ==
  \A x \in answers : x.asked.kind # "Decltype" => nodes[x.node].args = x.asked.args

\* "Strings in IPR are immutable, and therefore unified" (interface.H:725), and
\* "type nodes shall have maximal sharing" (interface.H:44): for the kinds whose
\* comparator looks at operands, Unit is what its clients rely on.
Interned == INSTANCE Interning WITH
  answers <- {x \in answers : x.asked.kind \notin Unshared \cup ByIdentity}
InternedSpec == Interned!Spec

=============================================================================
