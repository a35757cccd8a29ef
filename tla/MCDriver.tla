------------------------------ MODULE MCDriver ------------------------------
(***************************************************************************)
(* Small source files for Driver.                                          *)
(***************************************************************************)
EXTENDS Driver

\* Two built-in types creatIprClass has a case for; what is none of these is
\* a class or another type.
MCKnownTypes == {"int", "bool"}

\* The names of the classes and the enum, of the namespaces, which are global
\* and N, and of members.
MCNames == {"A", "E", "", "N", "f", "g", "a", "b", "c"}
MCTypes == {"int", "bool", "class", "struct"}

Field(n, t) == [name |-> n, type |-> t]

\* A class without fields, two of each kind of type, and two bit-fields
\* without a name.
FieldLists ==
  {<<>>, <<Field("f", "int"), Field("g", "class")>>, <<Field("f", "struct"), Field("g", "bool")>>,
   <<Field("", "int"), Field("", "int")>>}

Class(n, s, m, p, fs) ==
  [kind |-> "class", name |-> n, scope |-> s, main |-> m, part |-> p, members |-> fs]

\* The class A of two namespaces, declared or defined, in a main file or not.
Classes ==
  {Class("A", s, m, "definition", fs) : s \in {"", "N"}, m \in BOOLEAN, fs \in FieldLists}
    \cup {Class("A", s, m, "redeclaration", <<>>) : s \in {"", "N"}, m \in BOOLEAN}

Enum(m, u, es) ==
  [kind |-> "enum", name |-> "E", main |-> m, unsigned |-> u, members |-> es]

\* An enum that is only declared, and values at the ends of IntWidth bits.
Enums ==
  {Enum(m, u, es) : m \in BOOLEAN, u \in BOOLEAN,
     es \in {<<>>, <<[name |-> "a", bits |-> 0], [name |-> "b", bits |-> 2^IntWidth - 1]>>,
             <<[name |-> "a", bits |-> 2^(IntWidth - 1) - 1], [name |-> "b", bits |-> 2^(IntWidth - 1)],
               [name |-> "c", bits |-> 2^(IntWidth - 1) - 1]>>}}

\* A class is defined once in a file, and an enum too.
WellFormed(decls) ==
  \A i, j \in DOMAIN decls :
    (i # j /\ decls[i].kind = decls[j].kind) =>
      IF decls[i].kind = "class"
      THEN decls[i].part = "definition" /\ decls[j].part = "definition" =>
             decls[i].scope # decls[j].scope
      ELSE decls[i].members = <<>> \/ decls[j].members = <<>>

Files(n) ==
  {[decls |-> ds, parses |-> p] :
     ds \in {s \in [1..n -> Classes \cup Enums] : WellFormed(s)}, p \in BOOLEAN}

\* One file of two declarations or two of one, which may have errors; and one
\* that cannot be read, of which nothing is matched.
MCPrograms ==
  {<<f>> : f \in Files(2)} \cup {<<f, g>> : f \in Files(1), g \in Files(1)}
    \cup {<<f, [decls |-> <<>>, parses |-> FALSE]>> : f \in Files(1)}
=============================================================================
