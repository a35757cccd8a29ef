----------------------------- MODULE Driver_proofs -----------------------------
(***************************************************************************)
(* Proofs about Driver, for every set of programs, of names and of types,   *)
(* and every width of an enumerator's value.                                *)
(***************************************************************************)
EXTENDS Driver, TLAPS, SequenceTheorems, FiniteSetTheorems

-----------------------------------------------------------------------------
(***************************************************************************)
(* Counting what is of a kind.                                              *)
(***************************************************************************)
LEMMA Counting ==
  ASSUME NEW k, NEW s, NEW n \in Nat
  PROVE  /\ Count(k, s, n) \in Nat /\ Count(k, s, 0) = 0
         /\ s[n + 1].kind = k => Count(k, s, n + 1) = Count(k, s, n) + 1
         /\ s[n + 1].kind # k => Count(k, s, n + 1) = Count(k, s, n)
  <1> DEFINE C(m) == {i \in 1..m : s[i].kind = k}
  <1>1. \A m \in Nat : IsFiniteSet(C(m))
    <2>1. \A m \in Nat : IsFiniteSet(1..m) /\ C(m) \subseteq 1..m
      BY FS_Interval
    <2> HIDE DEF C
    <2> QED BY <2>1, FS_Subset
  <1>2. C(0) = {}
    OBVIOUS
  <1>3. s[n + 1].kind = k => C(n + 1) = C(n) \cup {n + 1} /\ n + 1 \notin C(n)
    OBVIOUS
  <1>4. s[n + 1].kind # k => C(n + 1) = C(n)
    OBVIOUS
  <1> HIDE DEF C
  <1>5. IsFiniteSet(C(n)) /\ Cardinality(C(n)) \in Nat
    BY <1>1, FS_CardinalityType
  <1>6. s[n + 1].kind = k => Cardinality(C(n + 1)) = Cardinality(C(n)) + 1
    BY <1>3, <1>5, FS_AddElement
  <1>7. Cardinality(C(0)) = 0
    BY <1>2, FS_EmptySet
  <1> QED BY <1>4, <1>5, <1>6, <1>7 DEF Count, C

LEMMA CountSame ==
  ASSUME NEW k, NEW s, NEW t, NEW n \in Nat, \A i \in 1..n : s[i].kind = t[i].kind
  PROVE  Count(k, s, n) = Count(k, t, n)
  <1>1. {i \in 1..n : s[i].kind = k} = {i \in 1..n : t[i].kind = k}
    OBVIOUS
  <1> QED BY <1>1 DEF Count

LEMMA CountUpTo ==
  ASSUME NEW k, NEW s, NEW n \in Nat, NEW i \in 1..n, s[i].kind = k
  PROVE  Count(k, s, i) \in 1..Count(k, s, n)
  <1> DEFINE C(m) == {j \in 1..m : s[j].kind = k}
  <1>1. IsFiniteSet(1..n) /\ C(n) \subseteq 1..n /\ C(i) \subseteq C(n)
    BY FS_Interval
  <1>2. i \in C(i)
    OBVIOUS
  <1> HIDE DEF C
  <1>3. IsFiniteSet(C(n))
    BY <1>1, FS_Subset
  <1>4. IsFiniteSet(C(i)) /\ Cardinality(C(i)) <= Cardinality(C(n))
    BY <1>1, <1>3, FS_Subset
  <1>5. Cardinality(C(i)) \in Nat /\ Cardinality(C(n)) \in Nat
    BY <1>3, <1>4, FS_CardinalityType
  <1>6. Cardinality(C(i)) # 0
    BY <1>2, <1>4, FS_EmptySet
  <1> QED BY <1>4, <1>5, <1>6 DEF Count, C

\* Another node counts for its own kind and changes no earlier count.
LEMMA CountAppended ==
  ASSUME NEW k, NEW S, NEW s \in Seq(S), NEW e \in S
  PROVE  LET t == Append(s, e)
         IN  /\ t \in Seq(S) /\ Len(t) = Len(s) + 1 /\ Len(s) \in Nat
             /\ t[Len(s) + 1] = e /\ \A i \in 1..Len(s) : t[i] = s[i]
             /\ \A i \in 1..Len(s) : Count(k, t, i) = Count(k, s, i)
             /\ Count(k, t, Len(t)) = Count(k, s, Len(s)) + IF e.kind = k THEN 1 ELSE 0
  <1> DEFINE t == Append(s, e)
  <1>1. /\ t \in Seq(S) /\ Len(t) = Len(s) + 1 /\ Len(s) \in Nat
        /\ t[Len(s) + 1] = e /\ \A i \in 1..Len(s) : t[i] = s[i]
    BY AppendProperties
  <1> HIDE DEF t
  <1>2. ASSUME NEW i \in 0..Len(s) PROVE Count(k, t, i) = Count(k, s, i)
    <2>1. i \in Nat /\ \A j \in 1..i : t[j].kind = s[j].kind
      BY <1>1
    <2> QED BY <2>1, CountSame
  <1>3. Count(k, t, Len(s) + 1) = Count(k, t, Len(s)) + IF e.kind = k THEN 1 ELSE 0
    <2>1. ASSUME NEW n \in Nat, t[n + 1] = e
          PROVE  Count(k, t, n + 1) = Count(k, t, n) + IF e.kind = k THEN 1 ELSE 0
      <3>1. /\ e.kind = k => Count(k, t, n + 1) = Count(k, t, n) + 1
            /\ e.kind # k => Count(k, t, n + 1) = Count(k, t, n)
            /\ Count(k, t, n) \in Nat
        BY <2>1, Counting
      <3> QED BY <3>1
    <2> QED BY <1>1, <2>1
  <1>4. Count(k, t, Len(s)) = Count(k, s, Len(s))
    BY <1>1, <1>2
  <1> QED BY <1>1, <1>2, <1>3, <1>4 DEF t

\* A member more, or any other change of the last node, changes no count.
LEMMA CountReplaced ==
  ASSUME NEW k, NEW S, NEW s \in Seq(S), NEW e \in S, s # <<>>, e.kind = s[Len(s)].kind
  PROVE  LET t == [s EXCEPT ![Len(s)] = e]
         IN  /\ t \in Seq(S) /\ Len(t) = Len(s) /\ Len(s) \in Nat \ {0}
             /\ t[Len(s)] = e /\ \A i \in 1..(Len(s) - 1) : t[i] = s[i]
             /\ \A i \in 1..Len(s) : t[i].kind = s[i].kind
             /\ \A i \in 1..Len(s) : Count(k, t, i) = Count(k, s, i)
  <1> DEFINE t == [s EXCEPT ![Len(s)] = e]
  <1>1. Len(s) \in Nat \ {0}
    BY EmptySeq
  <1>2. /\ t \in Seq(S) /\ Len(t) = Len(s)
        /\ \A i \in 1..Len(s) : t[i] = IF i = Len(s) THEN e ELSE s[i]
    BY <1>1, ExceptSeq
  <1> HIDE DEF t
  <1>3. \A i \in 1..Len(s) : t[i].kind = s[i].kind
    BY <1>2
  <1>4. ASSUME NEW i \in 1..Len(s) PROVE Count(k, t, i) = Count(k, s, i)
    <2>1. i \in Nat /\ \A j \in 1..i : t[j].kind = s[j].kind
      BY <1>1, <1>3
    <2> QED BY <2>1, CountSame
  <1>5. t[Len(s)] = e
    BY <1>1, <1>2
  <1>6. \A i \in 1..(Len(s) - 1) : t[i] = s[i]
    BY <1>1, <1>2
  <1> QED BY <1>1, <1>2, <1>3, <1>4, <1>5, <1>6, Zenon DEF t

-----------------------------------------------------------------------------
(***************************************************************************)
(* The inductive invariant.                                                 *)
(***************************************************************************)
ClassTexts == [scope : Names, name : Names, members : Seq([name : Names, type : Types])]
EnumTexts == [name : Names, members : Seq(Enumerators)]
IprTexts == [kind : {"class", "enum"}, name : Names, members : Seq(Fields \cup [name : Names])]
Udts == [kind : {"class", "enum"}, name : Names, members : Seq(Fields \cup Enumerators)]

InClass == pc \in {"class", "fields"}
InEnum == pc \in {"enum", "enumerators"}

\* A callback is for what was matched in a file that is run over.
AtMatch == file \in 1..Len(program) /\ turn \in 1..Len(Decls)

CallbackInv ==
  /\ injected => AtMatch /\ Decls[turn].kind = "class"
  /\ InClass => AtMatch /\ ~injected /\ Node.kind = "class"
  /\ InEnum => AtMatch /\ ~injected /\ Node.kind = "enum"

\* A section is ahead of the nodes by the text of what is being built.
Ahead(texts, k, s, more) == Len(texts) = Count(k, s, Len(s)) + IF more THEN 1 ELSE 0

LengthsInv ==
  /\ Ahead(classStream, "class", iprStream, InClass)
  /\ Ahead(enumStream, "enum", iprStream, InEnum)
  /\ Ahead(enumStream, "enum", udts, pc = "enum")

\* All nodes but the one that is being built are as they are printed.
SameClass(text, ipr) == SameEntry(text, ipr, SameField)
SameNames(text, ipr) == SameEntry(text, ipr, SameName)
SameValues(text, ipr) == SameEntry(text, ipr, Same)

ClassesInv ==
  \A i \in 1..Len(iprStream) : iprStream[i].kind = "class" =>
    SameClass(classStream[Count("class", iprStream, i)], iprStream[i])
EnumsInv ==
  \A i \in 1..Len(iprStream) : iprStream[i].kind = "enum" =>
    SameNames(enumStream[Count("enum", iprStream, i)], iprStream[i])
ValuesInv ==
  \A i \in 1..Len(udts) : udts[i].kind = "enum" /\ (pc = "enumerators" => i # Len(udts)) =>
    SameValues(enumStream[Count("enum", udts, i)], udts[i])

EntriesInv == ClassesInv /\ EnumsInv /\ ValuesInv

\* The last text is of the declaration the callback is for.
TextInv ==
  /\ InClass => classStream[Len(classStream)] = ClassText(Node)
  /\ InEnum => enumStream[Len(enumStream)] = EnumText(Node)

\* The node being built has the first members of the declaration.
Built(kind) ==
  /\ udts # <<>> /\ udts[Udt].kind = kind /\ udts[Udt].name = Node.name
  /\ Len(udts[Udt].members) <= Len(Node.members)

FieldOf(m) == [name |-> m.name, type |-> IprType(m.type)]
EnumeratorOf(m) == [name |-> m.name, value |-> SExtValue(m.bits)]

BuiltInv ==
  /\ pc = "fields" =>
       /\ Built("class")
       /\ \A j \in 1..Len(udts[Udt].members) : udts[Udt].members[j] = FieldOf(Node.members[j])
  /\ pc = "enumerators" =>
       /\ Built("enum")
       /\ \A j \in 1..Len(udts[Udt].members) : udts[Udt].members[j] = EnumeratorOf(Node.members[j])

\* Declared holds while nodes are built, too.
DeclaredInv ==
  /\ Len(global_ns) = Count("class", udts, Len(udts))
  /\ \A i \in 1..Len(global_ns) :
       LET d == global_ns[i]
       IN  d.init \in 1..Len(udts) /\ udts[d.init].kind = "class" /\ udts[d.init].name = d.name
  /\ \A i, j \in 1..Len(global_ns) : i < j => global_ns[i].init < global_ns[j].init

DriverInv ==
  /\ TypeOK /\ program \in Programs
  /\ CallbackInv /\ LengthsInv /\ EntriesInv /\ TextInv /\ BuiltInv /\ DeclaredInv

-----------------------------------------------------------------------------
(***************************************************************************)
(* What a callback is called with.                                          *)
(***************************************************************************)
LEMMA Files ==
  ASSUME DriverInv
  PROVE  /\ Len(program) \in Nat
         /\ file \in 1..Len(program) =>
              Decls \in Seq(ClassDecl \cup EnumDecl) /\ Len(Decls) \in Nat
  <1> DEFINE D == Seq(ClassDecl \cup EnumDecl)
             F == [decls : D, parses : BOOLEAN]
  <1>1. program \in Seq(F)
    BY ProgramAssumption DEF DriverInv
  <1>2. \A f \in F : f.decls \in D
    OBVIOUS
  <1> HIDE DEF D, F
  <1>3. Len(program) \in Nat /\ \A i \in 1..Len(program) : program[i].decls \in D
    BY <1>1, <1>2
  <1>4. \A s \in D : Len(s) \in Nat
    BY DEF D
  <1> QED BY <1>3, <1>4 DEF Decls, D

LEMMA ClassTyped ==
  ASSUME NEW d \in ClassDecl
  PROVE  /\ d.kind = "class" /\ d.part # "injected" /\ d.name \in Names
         /\ d.members \in Seq([name : Names, type : Types])
         /\ ClassText(d) \in ClassTexts
         /\ Injected(d).kind = "class" /\ Injected(d).part = "injected"
         /\ Injected(d).name \in Names
         /\ Injected(d).members \in Seq([name : Names, type : Types])
         /\ ClassText(Injected(d)) \in ClassTexts
  <1> DEFINE Ms == Seq([name : Names, type : Types])
  <1>1. <<>> \in Ms
    OBVIOUS
  <1> HIDE DEF Ms
  <1>2. /\ d.kind = "class" /\ d.part # "injected" /\ d.name \in Names /\ d.scope \in Names
        /\ d.members \in Ms
    BY DEF ClassDecl, Ms
  <1>3. /\ Injected(d).kind = "class" /\ Injected(d).part = "injected"
        /\ Injected(d).name = d.name /\ Injected(d).scope = d.scope
        /\ Injected(d).members = <<>>
    BY DEF Injected, ClassDecl
  <1>4. ClassTexts = [scope : Names, name : Names, members : Ms]
    BY DEF ClassTexts, Ms
  <1>5. ClassText(d) \in ClassTexts /\ ClassText(Injected(d)) \in ClassTexts
    BY <1>1, <1>2, <1>3, <1>4 DEF ClassText
  <1> QED BY <1>1, <1>2, <1>3, <1>5 DEF Ms

LEMMA EnumTyped ==
  ASSUME NEW d \in EnumDecl
  PROVE  /\ d.kind = "enum" /\ d.name \in Names
         /\ d.members \in Seq([name : Names, bits : Bits])
         /\ Len(d.members) \in Nat
         /\ \A j \in 1..Len(d.members) : EnumeratorOf(d.members[j]) \in Enumerators
         /\ EnumText(d) \in EnumTexts
         /\ EnumText(d).name = d.name /\ Len(EnumText(d).members) = Len(d.members)
         /\ \A j \in 1..Len(d.members) : EnumText(d).members[j] = EnumeratorOf(d.members[j])
  <1> DEFINE M == [name : Names, bits : Bits]
             n == Len(d.members)
             e(j) == EnumeratorOf(d.members[j])
             t == [j \in 1..n |-> e(j)]
  <1>1. d.kind = "enum" /\ d.name \in Names /\ d.members \in Seq(M)
    BY DEF EnumDecl
  <1>2. n \in Nat /\ DOMAIN d.members = 1..n /\ \A j \in 1..n : d.members[j] \in M
    <2> DEFINE ms == d.members
    <2>1. ms \in Seq(M)
      BY <1>1
    <2> HIDE DEF M, ms
    <2>2. Len(ms) \in Nat /\ DOMAIN ms = 1..Len(ms) /\ \A j \in 1..Len(ms) : ms[j] \in M
      BY <2>1
    <2> QED BY <2>2 DEF ms
  <1>3. \A j \in 1..n : e(j) \in Enumerators
    BY <1>2 DEF EnumeratorOf, Enumerators
  <1>4. EnumText(d) = [name |-> d.name, members |-> t]
    BY <1>2 DEF EnumText, EnumeratorOf
  <1> HIDE DEF e
  <1>5. t \in Seq(Enumerators) /\ Len(t) = n /\ \A j \in 1..n : t[j] = e(j)
    BY <1>2, <1>3, IsASeq
  <1> HIDE DEF t, n, M
  <1>6. EnumText(d) \in EnumTexts /\ EnumText(d).name = d.name /\ EnumText(d).members = t
    BY <1>1, <1>4, <1>5 DEF EnumTexts
  <1> QED BY <1>1, <1>2, <1>3, <1>5, <1>6 DEF e, n, M

LEMMA MatchTyped ==
  ASSUME DriverInv, AtMatch
  PROVE  /\ Node.kind \in {"class", "enum"} /\ Node.name \in Names
         /\ Node.kind = "class" =>
              /\ Node.members \in Seq([name : Names, type : Types])
              /\ ClassText(Node) \in ClassTexts
         /\ Node.kind = "enum" => Node \in EnumDecl
         /\ injected => Node.kind = "class" /\ Node.part = "injected"
         /\ ~injected => Node = Decls[turn]
  <1>1. Decls[turn] \in ClassDecl \cup EnumDecl
    BY Files DEF AtMatch
  <1>2. injected => Decls[turn] \in ClassDecl
    BY <1>1, EnumTyped DEF DriverInv, CallbackInv
  <1>3. CASE injected
    <2>1. Node = Injected(Decls[turn]) /\ Decls[turn] \in ClassDecl
      BY <1>2, <1>3 DEF Node
    <2> QED BY <1>3, <2>1, ClassTyped
  <1>4. CASE ~injected
    <2>1. Node = Decls[turn]
      BY <1>4 DEF Node
    <2>2. CASE Decls[turn] \in ClassDecl
      BY <1>4, <2>1, <2>2, ClassTyped
    <2>3. CASE Decls[turn] \in EnumDecl
      BY <1>4, <2>1, <2>3, EnumTyped
    <2> QED BY <1>1, <2>2, <2>3
  <1> QED BY <1>3, <1>4

LEMMA SameMatch ==
  ASSUME UNCHANGED <<program, file, turn, injected>>
  PROVE  Node' = Node /\ Decls' = Decls /\ AtMatch' = AtMatch
  BY DEF Node, Decls, AtMatch

LEMMA CalledMatch ==
  ASSUME DriverInv, NEW k, Called(k)
  PROVE  AtMatch /\ pc = "run" /\ Node.kind = k
  BY Files DEF Called, InRun, AtMatch, DriverInv, TypeOK

\* The next callback is for the class in the class that was defined, or for the
\* next declaration, if there is one.
LEMMA NextMatch ==
  ASSUME DriverInv, AtMatch, Return
  PROVE  /\ pc' = "run" /\ UNCHANGED <<program, file>>
         /\ turn' \in Nat \ {0} /\ injected' \in BOOLEAN
         /\ injected' => AtMatch' /\ Decls'[turn'].kind = "class"
  <1>1. /\ pc' = "run" /\ UNCHANGED <<program, file>>
        /\ injected' = (Node.kind = "class" /\ Node.part = "definition")
        /\ turn' = IF injected' THEN turn ELSE turn + 1
    BY DEF Return
  <1>2. turn \in Nat \ {0}
    BY DEF DriverInv, TypeOK
  <1>3. Decls' = Decls
    BY <1>1 DEF Decls
  <1>4. ASSUME injected' PROVE AtMatch' /\ Decls'[turn'].kind = "class"
    <2>1. turn' = turn /\ Node.kind = "class" /\ Node.part = "definition"
      BY <1>1, <1>4
    <2>2. Node = Decls[turn]
      BY <2>1, MatchTyped
    <2> QED BY <1>1, <1>3, <2>1, <2>2 DEF AtMatch
  <1> QED BY <1>1, <1>2, <1>4

LEMMA Streams ==
  ASSUME DriverInv
  PROVE  /\ classStream \in Seq(ClassTexts) /\ Len(classStream) \in Nat
         /\ enumStream \in Seq(EnumTexts) /\ Len(enumStream) \in Nat
         /\ iprStream \in Seq(IprTexts) /\ Len(iprStream) \in Nat
         /\ udts \in Seq(Udts) /\ Len(udts) \in Nat /\ DOMAIN udts = 1..Len(udts)
         /\ global_ns \in Seq([name : Names, init : DOMAIN udts]) /\ Len(global_ns) \in Nat
  <1>1. /\ classStream \in Seq(ClassTexts) /\ enumStream \in Seq(EnumTexts)
        /\ iprStream \in Seq(IprTexts) /\ udts \in Seq(Udts)
        /\ global_ns \in Seq([name : Names, init : DOMAIN udts])
    BY DEF DriverInv, TypeOK, ClassTexts, EnumTexts, IprTexts, Udts
  <1> DEFINE G == [name : Names, init : DOMAIN udts]
  <1>2. global_ns \in Seq(G)
    BY <1>1
  <1> HIDE DEF G
  <1>3. Len(global_ns) \in Nat
    BY <1>2
  <1> QED BY <1>1, <1>3

\* Counts are numbers, and what is counted has its text.
LEMMA Counts ==
  ASSUME DriverInv
  PROVE  /\ \A k : Count(k, iprStream, Len(iprStream)) \in Nat
         /\ \A k : Count(k, udts, Len(udts)) \in Nat
         /\ \A i \in 1..Len(iprStream) :
              /\ iprStream[i].kind = "class" =>
                   Count("class", iprStream, i) \in 1..Len(classStream)
              /\ iprStream[i].kind = "enum" =>
                   Count("enum", iprStream, i) \in 1..Len(enumStream)
         /\ \A i \in 1..Len(udts) : udts[i].kind = "enum" =>
              Count("enum", udts, i) \in 1..Len(enumStream)
  <1>1. /\ \A k : Count(k, iprStream, Len(iprStream)) \in Nat
        /\ \A k : Count(k, udts, Len(udts)) \in Nat
    BY Streams, Counting
  <1>2. /\ Count("class", iprStream, Len(iprStream)) <= Len(classStream)
        /\ Count("enum", iprStream, Len(iprStream)) <= Len(enumStream)
        /\ Count("enum", udts, Len(udts)) <= Len(enumStream)
    BY <1>1 DEF DriverInv, LengthsInv, Ahead
  <1>3. ASSUME NEW i \in 1..Len(iprStream), NEW k, iprStream[i].kind = k
        PROVE  Count(k, iprStream, i) \in 1..Count(k, iprStream, Len(iprStream))
    BY <1>3, Streams, CountUpTo
  <1>4. ASSUME NEW i \in 1..Len(udts), udts[i].kind = "enum"
        PROVE  Count("enum", udts, i) \in 1..Count("enum", udts, Len(udts))
    BY <1>4, Streams, CountUpTo
  <1>5. ASSUME NEW i \in 1..Len(iprStream)
        PROVE  /\ iprStream[i].kind = "class" =>
                    Count("class", iprStream, i) \in 1..Len(classStream)
               /\ iprStream[i].kind = "enum" =>
                    Count("enum", iprStream, i) \in 1..Len(enumStream)
    <2> DEFINE c == Count("class", iprStream, i)
               e == Count("enum", iprStream, i)
               N == Count("class", iprStream, Len(iprStream))
               M == Count("enum", iprStream, Len(iprStream))
    <2>1. /\ N \in Nat /\ N <= Len(classStream) /\ Len(classStream) \in Nat
          /\ M \in Nat /\ M <= Len(enumStream) /\ Len(enumStream) \in Nat
      BY <1>1, <1>2, Streams
    <2>2. /\ iprStream[i].kind = "class" => c \in 1..N
          /\ iprStream[i].kind = "enum" => e \in 1..M
      BY <1>3
    <2> HIDE DEF c, e, N, M
    <2>3. /\ iprStream[i].kind = "class" => c \in 1..Len(classStream)
          /\ iprStream[i].kind = "enum" => e \in 1..Len(enumStream)
      BY <2>1, <2>2
    <2> QED BY <2>3 DEF c, e
  <1>6. ASSUME NEW i \in 1..Len(udts), udts[i].kind = "enum"
        PROVE  Count("enum", udts, i) \in 1..Len(enumStream)
    BY <1>1, <1>2, <1>4, <1>6, Streams
  <1> QED BY <1>1, <1>5, <1>6

-----------------------------------------------------------------------------
(***************************************************************************)
(* Every step preserves the invariant.                                      *)
(***************************************************************************)
\* Steps that print and build nothing.
LEMMA QuietStep ==
  ASSUME DriverInv, pc = "run", pc' \in {"run", "exit"},
         UNCHANGED <<program, streams, global_ns, udts>>,
         file' \in 1..(Len(program) + 1), turn' \in Nat \ {0}, injected' \in BOOLEAN,
         res' \in {0, 1}, fileName' \in 0..Len(program),
         injected' => AtMatch' /\ Decls'[turn'].kind = "class"
  PROVE  DriverInv'
  <1>1. UNCHANGED <<classStream, enumStream, iprStream>>
    BY DEF streams
  <1>2. TypeOK' /\ program' \in Programs
    BY <1>1 DEF DriverInv, TypeOK
  <1>3. CallbackInv' /\ TextInv' /\ BuiltInv'
    BY DEF CallbackInv, TextInv, BuiltInv, InClass, InEnum
  <1>4. LengthsInv'
    BY <1>1 DEF DriverInv, LengthsInv, Ahead, InClass, InEnum
  <1>5. EntriesInv'
    BY <1>1 DEF DriverInv, EntriesInv, ClassesInv, EnumsInv, ValuesInv
  <1>6. DeclaredInv'
    BY DEF DriverInv, DeclaredInv
  <1> QED BY <1>2, <1>3, <1>4, <1>5, <1>6 DEF DriverInv

LEMMA SkipStep ==
  ASSUME DriverInv, NEW k, Called(k), Return, UNCHANGED <<res, streams, global_ns, udts>>,
         fileName' \in {fileName, file}
  PROVE  DriverInv'
  <1>1. AtMatch /\ pc = "run"
    BY CalledMatch
  <1>2. /\ pc' = "run" /\ UNCHANGED <<program, file>>
        /\ turn' \in Nat \ {0} /\ injected' \in BOOLEAN
        /\ injected' => AtMatch' /\ Decls'[turn'].kind = "class"
    BY <1>1, NextMatch
  <1>3. /\ file \in 1..(Len(program) + 1) /\ res' \in {0, 1} /\ fileName' \in 0..Len(program)
    BY <1>1, Files DEF DriverInv, TypeOK, AtMatch
  <1> QED BY <1>1, <1>2, <1>3, QuietStep

LEMMA EndOfFileStep ==
  ASSUME DriverInv, EndOfFile
  PROVE  DriverInv'
  <1>1. /\ pc = "run" /\ file <= Len(program) /\ turn > Len(Decls)
        /\ file' = file + 1 /\ turn' = 1 /\ res' \in {res, 1}
        /\ UNCHANGED <<program, injected, pc, fileName, streams, global_ns, udts>>
    BY DEF EndOfFile, InRun
  <1>2. file \in 1..Len(program) /\ Len(program) \in Nat /\ Len(Decls) \in Nat
    BY <1>1, Files DEF DriverInv, TypeOK
  <1>3. injected = FALSE
    BY <1>1, <1>2 DEF DriverInv, TypeOK, CallbackInv, AtMatch
  <1>4. /\ file' \in 1..(Len(program) + 1) /\ res' \in {0, 1} /\ fileName' \in 0..Len(program)
    BY <1>1, <1>2 DEF DriverInv, TypeOK
  <1>5. injected' \in BOOLEAN /\ ~injected'
    BY <1>1, <1>3, Zenon
  <1>6. pc' \in {"run", "exit"} /\ turn' \in Nat \ {0}
    BY <1>1
  <1>7. UNCHANGED <<program, streams, global_ns, udts>>
    BY <1>1
  <1> QED BY <1>1, <1>4, <1>5, <1>6, <1>7, QuietStep

LEMMA WriteStep ==
  ASSUME DriverInv, WriteMetaInfo
  PROVE  DriverInv'
  <1>1. /\ pc = "run" /\ pc' = "exit"
        /\ UNCHANGED <<program, file, turn, injected, res, fileName, streams, global_ns, udts>>
    BY DEF WriteMetaInfo
  <1>2. AtMatch' = AtMatch /\ Decls' = Decls
    BY <1>1, SameMatch
  <1>3. injected' => AtMatch' /\ Decls'[turn'].kind = "class"
    BY <1>1, <1>2 DEF DriverInv, CallbackInv
  <1>4. /\ file' \in 1..(Len(program) + 1) /\ turn' \in Nat \ {0} /\ injected' \in BOOLEAN
        /\ res' \in {0, 1} /\ fileName' \in 0..Len(program)
    BY <1>1 DEF DriverInv, TypeOK
  <1> QED BY <1>1, <1>3, <1>4, QuietStep

\* printClassFields and printEnumFields, each a section ahead of the nodes.
LEMMA PrintClassFieldsStep ==
  ASSUME DriverInv, PrintClassFields
  PROVE  DriverInv'
  <1> DEFINE e == ClassText(Node)
  <1>1. /\ Called("class") /\ HasDefinition(file, Node)
        /\ fileName' = file /\ classStream' = Append(classStream, e) /\ pc' = "class"
        /\ UNCHANGED <<program, file, turn, injected, res, enumStream, iprStream, global_ns, udts>>
    BY DEF PrintClassFields
  <1>2. AtMatch /\ pc = "run" /\ Node.kind = "class"
    BY <1>1, CalledMatch
  <1>3. ~injected
    BY <1>1, <1>2, MatchTyped DEF HasDefinition
  <1>4. e \in ClassTexts
    BY <1>2, MatchTyped
  <1>5. Node' = Node /\ Decls' = Decls /\ AtMatch' = AtMatch
    BY <1>1, SameMatch
  <1> HIDE DEF e
  <1>6. /\ classStream' \in Seq(ClassTexts) /\ Len(classStream') = Len(classStream) + 1
        /\ Len(classStream) \in Nat
        /\ classStream'[Len(classStream')] = e
        /\ \A i \in 1..Len(classStream) : classStream'[i] = classStream[i]
    BY <1>1, <1>4, Streams, AppendProperties
  <1>7. TypeOK' /\ program' \in Programs
    <2>1. fileName' \in 0..Len(program)
      BY <1>1, <1>2, Files DEF AtMatch
    <2> QED BY <1>1, <1>6, <2>1 DEF DriverInv, TypeOK, ClassTexts
  <1>8. CallbackInv'
    BY <1>1, <1>2, <1>3, <1>5 DEF CallbackInv, InClass, InEnum
  <1>9. LengthsInv'
    <2>1. Len(classStream) = Count("class", iprStream, Len(iprStream))
      BY <1>2, Counts DEF DriverInv, LengthsInv, Ahead, InClass
    <2>2. Ahead(classStream, "class", iprStream, InClass)'
      BY <1>1, <1>6, <2>1 DEF Ahead, InClass
    <2>3. Ahead(enumStream, "enum", iprStream, InEnum)' /\ Ahead(enumStream, "enum", udts, pc = "enum")'
      BY <1>1, <1>2 DEF DriverInv, LengthsInv, Ahead, InEnum
    <2> QED BY <2>2, <2>3 DEF LengthsInv
  <1>10. EntriesInv'
    <2>1. ClassesInv'
      BY <1>1, <1>6, Counts DEF DriverInv, EntriesInv, ClassesInv
    <2>2. EnumsInv' /\ ValuesInv'
      BY <1>1, <1>2 DEF DriverInv, EntriesInv, EnumsInv, ValuesInv
    <2> QED BY <2>1, <2>2 DEF EntriesInv
  <1>11. TextInv'
    BY <1>1, <1>5, <1>6 DEF TextInv, InClass, InEnum, e
  <1>12. BuiltInv'
    BY <1>1 DEF BuiltInv
  <1>13. DeclaredInv'
    BY <1>1 DEF DriverInv, DeclaredInv
  <1> QED BY <1>7, <1>8, <1>9, <1>10, <1>11, <1>12, <1>13 DEF DriverInv

LEMMA PrintEnumFieldsStep ==
  ASSUME DriverInv, PrintEnumFields
  PROVE  DriverInv'
  <1> DEFINE e == EnumText(Node)
  <1>1. /\ Called("enum")
        /\ enumStream' = Append(enumStream, e) /\ pc' = "enum"
        /\ UNCHANGED <<program, file, turn, injected, res, fileName, classStream, iprStream,
                       global_ns, udts>>
    BY DEF PrintEnumFields
  <1>2. AtMatch /\ pc = "run" /\ Node.kind = "enum"
    BY <1>1, CalledMatch
  <1>3. ~injected
    BY <1>2, MatchTyped
  <1>4. e \in EnumTexts
    BY <1>2, MatchTyped, EnumTyped
  <1>5. Node' = Node /\ Decls' = Decls /\ AtMatch' = AtMatch
    BY <1>1, SameMatch
  <1> HIDE DEF e
  <1>6. /\ enumStream' \in Seq(EnumTexts) /\ Len(enumStream') = Len(enumStream) + 1
        /\ Len(enumStream) \in Nat
        /\ enumStream'[Len(enumStream')] = e
        /\ \A i \in 1..Len(enumStream) : enumStream'[i] = enumStream[i]
    BY <1>1, <1>4, Streams, AppendProperties
  <1>7. TypeOK' /\ program' \in Programs
    BY <1>1, <1>6 DEF DriverInv, TypeOK, EnumTexts
  <1>8. CallbackInv'
    BY <1>1, <1>2, <1>3, <1>5 DEF CallbackInv, InClass, InEnum
  <1>9. LengthsInv'
    <2>1. /\ Len(enumStream) = Count("enum", iprStream, Len(iprStream))
          /\ Len(enumStream) = Count("enum", udts, Len(udts))
      BY <1>2, Counts DEF DriverInv, LengthsInv, Ahead, InEnum
    <2>2. Ahead(enumStream, "enum", iprStream, InEnum)' /\ Ahead(enumStream, "enum", udts, pc = "enum")'
      BY <1>1, <1>6, <2>1 DEF Ahead, InEnum
    <2>3. Ahead(classStream, "class", iprStream, InClass)'
      BY <1>1, <1>2 DEF DriverInv, LengthsInv, Ahead, InClass
    <2> QED BY <2>2, <2>3 DEF LengthsInv
  <1>10. EntriesInv'
    <2>1. EnumsInv'
      BY <1>1, <1>6, Counts DEF DriverInv, EntriesInv, EnumsInv
    <2>2. ClassesInv'
      BY <1>1 DEF DriverInv, EntriesInv, ClassesInv
    <2>3. ValuesInv'
      BY <1>1, <1>2, <1>6, Counts DEF DriverInv, EntriesInv, ValuesInv
    <2> QED BY <2>1, <2>2, <2>3 DEF EntriesInv
  <1>11. TextInv'
    BY <1>1, <1>5, <1>6 DEF TextInv, InClass, InEnum, e
  <1>12. BuiltInv'
    BY <1>1 DEF BuiltInv
  <1>13. DeclaredInv'
    BY <1>1 DEF DriverInv, DeclaredInv
  <1> QED BY <1>7, <1>8, <1>9, <1>10, <1>11, <1>12, <1>13 DEF DriverInv

\* The unit makes a class or an enum, without members yet.
LEMMA NewNode ==
  ASSUME DriverInv, AtMatch, NEW k \in {"class", "enum"}, NewUdt(k)
  PROVE  /\ udts' \in Seq(Udts) /\ Len(udts') = Len(udts) + 1 /\ udts' # <<>>
         /\ Len(udts) \in Nat /\ DOMAIN udts' = 1..Len(udts')
         /\ udts'[Len(udts')] = [kind |-> k, name |-> Node.name, members |-> <<>>]
         /\ \A i \in 1..Len(udts) : udts'[i] = udts[i]
         /\ \A q : \A i \in 1..Len(udts) : Count(q, udts', i) = Count(q, udts, i)
         /\ \A q : Count(q, udts', Len(udts')) = Count(q, udts, Len(udts)) + IF k = q THEN 1 ELSE 0
         /\ global_ns \in Seq([name : Names, init : DOMAIN udts'])
  <1> DEFINE e == [kind |-> k, name |-> Node.name, members |-> <<>>]
             G(n) == [name : Names, init : 1..n]
  <1>1. udts' = Append(udts, e)
    BY DEF NewUdt
  <1>2. e \in Udts
    <2> DEFINE Ms == Seq(Fields \cup Enumerators)
    <2>1. <<>> \in Ms
      OBVIOUS
    <2> HIDE DEF Ms
    <2>2. e \in [kind : {"class", "enum"}, name : Names, members : Ms]
      BY <2>1, MatchTyped
    <2> QED BY <2>2 DEF Udts, Ms
  <1>3. e.kind = k
    OBVIOUS
  <1> HIDE DEF e
  <1>4. ASSUME NEW q
        PROVE  /\ udts' \in Seq(Udts) /\ Len(udts') = Len(udts) + 1 /\ Len(udts) \in Nat
               /\ udts'[Len(udts) + 1] = e /\ \A i \in 1..Len(udts) : udts'[i] = udts[i]
               /\ \A i \in 1..Len(udts) : Count(q, udts', i) = Count(q, udts, i)
               /\ Count(q, udts', Len(udts')) = Count(q, udts, Len(udts)) + IF k = q THEN 1 ELSE 0
    <2>1. udts \in Seq(Udts) /\ Len(udts) \in Nat
      BY Streams
    <2> DEFINE t == Append(udts, e)
    <2>2. /\ t \in Seq(Udts) /\ Len(t) = Len(udts) + 1 /\ Len(udts) \in Nat
          /\ t[Len(udts) + 1] = e /\ \A i \in 1..Len(udts) : t[i] = udts[i]
          /\ \A i \in 1..Len(udts) : Count(q, t, i) = Count(q, udts, i)
          /\ Count(q, t, Len(t)) = Count(q, udts, Len(udts)) + IF e.kind = q THEN 1 ELSE 0
      BY <1>2, <2>1, CountAppended
    <2> HIDE DEF t
    <2>3. udts' = t
      BY <1>1 DEF t
    <2> QED BY <1>3, <2>1, <2>2, <2>3
  <1>5. Len(udts') \in Nat /\ DOMAIN udts' = 1..Len(udts') /\ udts' # <<>>
    BY <1>4, EmptySeq
  <1>6. global_ns \in Seq(G(Len(udts')))
    <2>1. G(Len(udts)) \subseteq G(Len(udts'))
      BY <1>4
    <2>2. global_ns \in Seq(G(Len(udts)))
      BY Streams
    <2> HIDE DEF G
    <2> QED BY <2>1, <2>2
  <1> QED BY <1>4, <1>5, <1>6, Zenon DEF e

\* creatIprClass and createIprEnum, up to their loops.
LEMMA CreatIprClassStep ==
  ASSUME DriverInv, CreatIprClass
  PROVE  DriverInv'
  <1> DEFINE g == [name |-> Node.name, init |-> Len(udts')]
             G == [name : Names, init : DOMAIN udts']
  <1>1. /\ pc = "class" /\ pc' = "fields" /\ NewUdt("class") /\ global_ns' = Append(global_ns, g)
        /\ UNCHANGED <<program, file, turn, injected, res, fileName, classStream, enumStream, iprStream>>
    BY DEF CreatIprClass, DeclareType, Udt, streams
  <1>2. AtMatch /\ ~injected /\ Node.kind = "class"
    BY <1>1 DEF DriverInv, CallbackInv, InClass
  <1>3. Node' = Node /\ Decls' = Decls /\ AtMatch' = AtMatch
    BY <1>1, SameMatch
  <1>4. /\ udts' \in Seq(Udts) /\ Len(udts') = Len(udts) + 1 /\ udts' # <<>>
        /\ Len(udts) \in Nat /\ DOMAIN udts' = 1..Len(udts')
        /\ udts'[Len(udts')] = [kind |-> "class", name |-> Node.name, members |-> <<>>]
        /\ \A i \in 1..Len(udts) : udts'[i] = udts[i]
        /\ \A i \in 1..Len(udts) : Count("enum", udts', i) = Count("enum", udts, i)
        /\ Count("enum", udts', Len(udts')) = Count("enum", udts, Len(udts))
        /\ Count("class", udts', Len(udts')) = Count("class", udts, Len(udts)) + 1
        /\ global_ns \in Seq(G)
    <2>1. Count("enum", udts, Len(udts)) \in Nat
      BY Counts
    <2> QED BY <1>1, <1>2, <2>1, NewNode
  <1>5. g \in G
    BY <1>2, <1>4, MatchTyped
  <1> HIDE DEF g, G
  <1>6. /\ global_ns' \in Seq(G) /\ Len(global_ns') = Len(global_ns) + 1
        /\ Len(global_ns) \in Nat /\ global_ns'[Len(global_ns')] = g
        /\ \A i \in 1..Len(global_ns) : global_ns'[i] = global_ns[i]
    BY <1>1, <1>4, <1>5, Streams, AppendProperties
  <1>7. TypeOK' /\ program' \in Programs
    BY <1>1, <1>4, <1>6 DEF DriverInv, TypeOK, Udts, G
  <1>8. CallbackInv'
    BY <1>1, <1>2, <1>3 DEF CallbackInv, InClass, InEnum
  <1>9. LengthsInv'
    <2>1. Ahead(classStream, "class", iprStream, InClass)' /\ Ahead(enumStream, "enum", iprStream, InEnum)'
      BY <1>1 DEF DriverInv, LengthsInv, Ahead, InClass, InEnum
    <2>2. Ahead(enumStream, "enum", udts, pc = "enum")'
      BY <1>1, <1>4 DEF DriverInv, LengthsInv, Ahead
    <2> QED BY <2>1, <2>2 DEF LengthsInv
  <1>10. EntriesInv'
    <2>1. ClassesInv' /\ EnumsInv'
      BY <1>1 DEF DriverInv, EntriesInv, ClassesInv, EnumsInv
    <2>2. ASSUME NEW i \in 1..Len(udts'), udts'[i].kind = "enum"
          PROVE  i \in 1..Len(udts) /\ udts'[i] = udts[i] /\ Count("enum", udts', i) = Count("enum", udts, i)
      <3>1. i # Len(udts')
        BY <1>4, <2>2
      <3> QED BY <1>4, <3>1
    <2>3. ValuesInv'
      BY <1>1, <2>2 DEF DriverInv, EntriesInv, ValuesInv
    <2> QED BY <2>1, <2>3 DEF EntriesInv
  <1>11. TextInv'
    BY <1>1, <1>3 DEF DriverInv, TextInv, InClass, InEnum
  <1>12. BuiltInv'
    <2>1. Len(Node.members) \in Nat
      <3> DEFINE M == [name : Names, type : Types]
      <3>1. Node.members \in Seq(M)
        BY <1>2, MatchTyped
      <3> HIDE DEF M
      <3> QED BY <3>1
    <2>2. /\ udts'[Len(udts')].kind = "class" /\ udts'[Len(udts')].name = Node.name
          /\ Len(udts'[Len(udts')].members) = 0
      BY <1>4
    <2> QED BY <1>1, <1>3, <1>4, <2>1, <2>2 DEF BuiltInv, Built, Udt
  <1>13. DeclaredInv'
    <2>1. Len(global_ns') = Count("class", udts', Len(udts'))
      BY <1>4, <1>6 DEF DriverInv, DeclaredInv
    <2>2. ASSUME NEW i \in 1..Len(global_ns)
          PROVE  /\ global_ns'[i].init \in 1..Len(udts) /\ udts'[global_ns'[i].init].kind = "class"
                 /\ udts'[global_ns'[i].init].name = global_ns'[i].name
      BY <1>4, <1>6 DEF DriverInv, DeclaredInv
    <2>3. /\ global_ns'[Len(global_ns')].init = Len(udts')
          /\ global_ns'[Len(global_ns')].name = Node.name
      BY <1>6 DEF g
    <2>4. ASSUME NEW i \in 1..Len(global_ns')
          PROVE  /\ global_ns'[i].init \in 1..Len(udts') /\ udts'[global_ns'[i].init].kind = "class"
                 /\ udts'[global_ns'[i].init].name = global_ns'[i].name
      <3>1. CASE i = Len(global_ns')
        BY <1>4, <2>3, <3>1
      <3>2. CASE i # Len(global_ns')
        BY <1>4, <1>6, <2>2, <3>2
      <3> QED BY <3>1, <3>2
    <2>5. ASSUME NEW i \in 1..Len(global_ns'), NEW j \in 1..Len(global_ns'), i < j
          PROVE  global_ns'[i].init < global_ns'[j].init
      <3>1. i \in 1..Len(global_ns)
        BY <1>6, <2>5
      <3>2. CASE j = Len(global_ns')
        BY <1>4, <2>2, <2>3, <3>1, <3>2
      <3>3. CASE j # Len(global_ns')
        <4>1. j \in 1..Len(global_ns)
          BY <1>6, <3>3
        <4> QED BY <1>6, <2>5, <3>1, <4>1 DEF DriverInv, DeclaredInv
      <3> QED BY <3>2, <3>3
    <2> QED BY <2>1, <2>4, <2>5 DEF DeclaredInv
  <1> QED BY <1>7, <1>8, <1>9, <1>10, <1>11, <1>12, <1>13 DEF DriverInv

LEMMA CreateIprEnumStep ==
  ASSUME DriverInv, CreateIprEnum
  PROVE  DriverInv'
  <1>1. /\ pc = "enum" /\ pc' = "enumerators" /\ NewUdt("enum")
        /\ UNCHANGED <<program, file, turn, injected, res, fileName, classStream, enumStream, iprStream,
                       global_ns>>
    BY DEF CreateIprEnum, streams
  <1>2. AtMatch /\ ~injected /\ Node.kind = "enum"
    BY <1>1 DEF DriverInv, CallbackInv, InEnum
  <1>3. Node' = Node /\ Decls' = Decls /\ AtMatch' = AtMatch
    BY <1>1, SameMatch
  <1>4. /\ udts' \in Seq(Udts) /\ Len(udts') = Len(udts) + 1 /\ udts' # <<>>
        /\ Len(udts) \in Nat /\ DOMAIN udts' = 1..Len(udts')
        /\ udts'[Len(udts')] = [kind |-> "enum", name |-> Node.name, members |-> <<>>]
        /\ \A i \in 1..Len(udts) : udts'[i] = udts[i]
        /\ \A i \in 1..Len(udts) : Count("enum", udts', i) = Count("enum", udts, i)
        /\ Count("enum", udts', Len(udts')) = Count("enum", udts, Len(udts)) + 1
        /\ Count("class", udts', Len(udts')) = Count("class", udts, Len(udts))
        /\ global_ns' \in Seq([name : Names, init : DOMAIN udts'])
    <2>1. Count("class", udts, Len(udts)) \in Nat
      BY Counts
    <2> QED BY <1>1, <1>2, <2>1, NewNode
  <1>5. TypeOK' /\ program' \in Programs
    BY <1>1, <1>4 DEF DriverInv, TypeOK, Udts
  <1>6. CallbackInv'
    BY <1>1, <1>2, <1>3 DEF CallbackInv, InClass, InEnum
  <1>7. LengthsInv'
    <2>1. Ahead(classStream, "class", iprStream, InClass)' /\ Ahead(enumStream, "enum", iprStream, InEnum)'
      BY <1>1 DEF DriverInv, LengthsInv, Ahead, InClass, InEnum
    <2>2. Len(enumStream) = Count("enum", udts, Len(udts)) + 1 /\ Count("enum", udts, Len(udts)) \in Nat
      BY <1>1, Counts DEF DriverInv, LengthsInv, Ahead
    <2>3. Ahead(enumStream, "enum", udts, pc = "enum")'
      BY <1>1, <1>4, <2>2 DEF Ahead
    <2> QED BY <2>1, <2>3 DEF LengthsInv
  <1>8. EntriesInv'
    <2>1. ClassesInv' /\ EnumsInv'
      BY <1>1 DEF DriverInv, EntriesInv, ClassesInv, EnumsInv
    <2>2. ASSUME NEW i \in 1..Len(udts'), i # Len(udts')
          PROVE  i \in 1..Len(udts) /\ udts'[i] = udts[i] /\ Count("enum", udts', i) = Count("enum", udts, i)
      BY <1>4, <2>2
    <2>3. ValuesInv'
      BY <1>1, <2>2 DEF DriverInv, EntriesInv, ValuesInv
    <2> QED BY <2>1, <2>3 DEF EntriesInv
  <1>9. TextInv'
    BY <1>1, <1>3 DEF DriverInv, TextInv, InClass, InEnum
  <1>10. BuiltInv'
    <2>1. Len(Node.members) \in Nat
      BY <1>2, MatchTyped, EnumTyped
    <2>2. /\ udts'[Len(udts')].kind = "enum" /\ udts'[Len(udts')].name = Node.name
          /\ Len(udts'[Len(udts')].members) = 0
      BY <1>4
    <2> QED BY <1>1, <1>3, <1>4, <2>1, <2>2 DEF BuiltInv, Built, Udt
  <1>11. DeclaredInv'
    <2>1. Len(global_ns') = Count("class", udts', Len(udts'))
      BY <1>1, <1>4 DEF DriverInv, DeclaredInv
    <2>2. ASSUME NEW i \in 1..Len(global_ns)
          PROVE  /\ global_ns[i].init \in 1..Len(udts') /\ udts'[global_ns[i].init].kind = "class"
                 /\ udts'[global_ns[i].init].name = global_ns[i].name
      <3>1. /\ global_ns[i].init \in 1..Len(udts) /\ udts[global_ns[i].init].kind = "class"
            /\ udts[global_ns[i].init].name = global_ns[i].name
        BY DEF DriverInv, DeclaredInv
      <3> QED BY <1>4, <3>1
    <2> QED BY <1>1, <2>1, <2>2 DEF DriverInv, DeclaredInv
  <1> QED BY <1>5, <1>6, <1>7, <1>8, <1>9, <1>10, <1>11 DEF DriverInv

\* What creatIprClass declares for a field is a field.
LEMMA FieldsTyped ==
  ASSUME DriverInv, AtMatch, Node.kind = "class"
  PROVE  /\ Len(Node.members) \in Nat
         /\ \A j \in 1..Len(Node.members) : FieldOf(Node.members[j]) \in Fields
  <1> DEFINE M == [name : Names, type : Types]
             ms == Node.members
  <1>1. ms \in Seq(M)
    BY MatchTyped
  <1>2. ASSUME NEW f \in M PROVE FieldOf(f) \in Fields
    BY DEF FieldOf, Fields, IprTypes, IprType
  <1> HIDE DEF M, ms
  <1>3. Len(ms) \in Nat /\ \A j \in 1..Len(ms) : ms[j] \in M
    BY <1>1
  <1> QED BY <1>2, <1>3 DEF ms

LEMMA MembersBuilt ==
  ASSUME DriverInv, NEW k, Built(k)
  PROVE  /\ udts[Udt] \in Udts /\ Len(udts) \in Nat \ {0}
         /\ udts[Udt].members \in Seq(Fields \cup Enumerators)
         /\ Len(udts[Udt].members) \in Nat
         /\ DOMAIN udts[Udt].members = 1..Len(udts[Udt].members)
  <1> DEFINE Ms == Seq(Fields \cup Enumerators)
  <1> HIDE DEF Ms
  <1>1. udts[Udt] \in Udts /\ Len(udts) \in Nat \ {0}
    BY Streams, EmptySeq DEF Built, Udt
  <1>2. Udts = [kind : {"class", "enum"}, name : Names, members : Ms]
    BY DEF Udts, Ms
  <1>3. udts[Udt].members \in Ms
    BY <1>1, <1>2
  <1> QED BY <1>1, <1>3 DEF Ms

\* A member more for the node being built; every other conjunct than the one
\* about its members is preserved.
LEMMA NewMember ==
  ASSUME DriverInv, AtMatch, NEW k, Built(k), ~AllMembers, pc = "enumerators" \/ k = "class",
         pc \in {"fields", "enumerators"}, Len(Node.members) \in Nat,
         NEW m \in Fields \cup Enumerators, AddMember(m),
         UNCHANGED <<program, file, turn, injected, pc, res, fileName, streams, global_ns>>
  PROVE  /\ BuiltInv' => DriverInv'
         /\ Node' = Node /\ Built(k)'
         /\ Len(udts[Udt].members) \in Nat /\ Len(udts[Udt].members) + 1 <= Len(Node.members)
         /\ Len(udts[Udt].members)' = Len(udts[Udt].members) + 1
         /\ udts'[Udt'].members[Len(udts[Udt].members) + 1] = m
         /\ \A j \in 1..Len(udts[Udt].members) : udts'[Udt'].members[j] = udts[Udt].members[j]
  <1> DEFINE u == udts[Udt]
             ms == u.members
             e == [u EXCEPT !.members = Append(ms, m)]
             M == Fields \cup Enumerators
             t == [udts EXCEPT ![Len(udts)] = e]
  <1>1. udts # <<>> /\ u.kind = k /\ u.name = Node.name /\ Len(ms) <= Len(Node.members)
    BY DEF Built
  <1>2. udts \in Seq(Udts) /\ Len(udts) \in Nat \ {0} /\ u \in Udts
    BY <1>1, Streams, EmptySeq DEF Udt
  <1>3. ms \in Seq(M)
    <2> DEFINE Ms == Seq(M)
    <2> HIDE DEF Ms
    <2>1. Udts = [kind : {"class", "enum"}, name : Names, members : Ms]
      BY DEF Udts, Ms
    <2>2. ms \in Ms
      BY <1>2, <2>1
    <2> QED BY <2>2 DEF Ms
  <1>4. /\ Append(ms, m) \in Seq(M) /\ Len(Append(ms, m)) = Len(ms) + 1 /\ Len(ms) \in Nat
        /\ Append(ms, m)[Len(ms) + 1] = m
        /\ \A j \in 1..Len(ms) : Append(ms, m)[j] = ms[j]
    BY <1>3, AppendProperties
  <1>5. /\ e \in Udts /\ e.kind = k /\ e.name = Node.name /\ e.members = Append(ms, m)
    <2> DEFINE Ms == Seq(M)
               a == Append(ms, m)
    <2>1. a \in Ms
      BY <1>4
    <2> HIDE DEF Ms, a
    <2>2. Udts = [kind : {"class", "enum"}, name : Names, members : Ms]
      BY DEF Udts, Ms
    <2>3. e = [u EXCEPT !.members = a]
      BY DEF a
    <2>4. e \in Udts /\ e.kind = u.kind /\ e.name = u.name /\ e.members = a
      BY <1>2, <2>1, <2>2, <2>3
    <2> QED BY <1>1, <2>4 DEF a
  <1>6. udts' = t
    BY DEF AddMember, Udt
  <1> HIDE DEF e
  <1>7. ASSUME NEW q
        PROVE  /\ udts' \in Seq(Udts) /\ Len(udts') = Len(udts)
               /\ udts'[Len(udts)] = e /\ \A i \in 1..(Len(udts) - 1) : udts'[i] = udts[i]
               /\ \A i \in 1..Len(udts) : udts'[i].kind = udts[i].kind
               /\ \A i \in 1..Len(udts) : Count(q, udts', i) = Count(q, udts, i)
    <2>1. udts \in Seq(Udts) /\ e \in Udts /\ udts # <<>> /\ e.kind = udts[Len(udts)].kind
      BY <1>1, <1>2, <1>5 DEF Udt
    <2>2. /\ t \in Seq(Udts) /\ Len(t) = Len(udts)
          /\ t[Len(udts)] = e /\ \A i \in 1..(Len(udts) - 1) : t[i] = udts[i]
          /\ \A i \in 1..Len(udts) : t[i].kind = udts[i].kind
          /\ \A i \in 1..Len(udts) : Count(q, t, i) = Count(q, udts, i)
      BY <2>1, CountReplaced
    <2> HIDE DEF t
    <2> QED BY <1>6, <2>2
  <1> HIDE DEF t
  <1>8. /\ udts'[Udt'] = e /\ Len(ms)' = Len(ms) + 1 /\ udts' # <<>>
        /\ udts'[Udt'].members[Len(ms) + 1] = m
        /\ \A j \in 1..Len(ms) : udts'[Udt'].members[j] = ms[j]
    BY <1>2, <1>4, <1>5, <1>7, EmptySeq DEF Udt
  <1>9. /\ Node' = Node /\ Decls' = Decls /\ AtMatch' = AtMatch
    BY SameMatch
  <1>10. Len(ms) + 1 <= Len(Node.members)
    BY <1>1, <1>4 DEF AllMembers
  <1>11. Built(k)'
    BY <1>5, <1>8, <1>9, <1>10 DEF Built
  <1>12. ASSUME NEW i \in 1..Len(udts)
         PROVE  udts'[i].name = udts[i].name
    <2>1. CASE i = Len(udts)
      BY <1>1, <1>5, <1>7, <2>1 DEF Udt
    <2>2. CASE i # Len(udts)
      <3>1. i \in 1..(Len(udts) - 1)
        BY <1>2, <2>2
      <3>2. udts'[i] = udts[i]
        BY <1>7, <3>1
      <3> QED BY <3>2
    <2> QED BY <2>1, <2>2
  <1>13. UNCHANGED <<classStream, enumStream, iprStream>>
    BY DEF streams
  <1>14. TypeOK' /\ program' \in Programs
    <2>1. DOMAIN udts' = DOMAIN udts
      BY <1>2, <1>7
    <2>2. udts' \in
            Seq([kind : {"class", "enum"}, name : Names, members : Seq(Fields \cup Enumerators)])
      BY <1>7 DEF Udts
    <2> QED BY <1>13, <2>1, <2>2 DEF DriverInv, TypeOK
  <1>15. CallbackInv'
    BY <1>9 DEF DriverInv, CallbackInv, InClass, InEnum
  <1>16. LengthsInv'
    <2>1. Ahead(classStream, "class", iprStream, InClass)' /\ Ahead(enumStream, "enum", iprStream, InEnum)'
      BY <1>13 DEF DriverInv, LengthsInv, Ahead, InClass, InEnum
    <2>2. Ahead(enumStream, "enum", udts, pc = "enum")'
      BY <1>2, <1>7, <1>13 DEF DriverInv, LengthsInv, Ahead
    <2> QED BY <2>1, <2>2 DEF LengthsInv
  <1>17. EntriesInv'
    <2>1. ClassesInv' /\ EnumsInv'
      BY <1>13 DEF DriverInv, EntriesInv, ClassesInv, EnumsInv
    <2>2. ASSUME NEW i \in 1..Len(udts'), udts'[i].kind = "enum", pc' = "enumerators" => i # Len(udts')
          PROVE  SameValues(enumStream'[Count("enum", udts', i)], udts'[i])
      <3>1. i \in 1..(Len(udts) - 1)
        BY <1>1, <1>2, <1>5, <1>7, <2>2
      <3>2. /\ i \in 1..Len(udts) /\ udts'[i] = udts[i] /\ i # Len(udts)
            /\ Count("enum", udts', i) = Count("enum", udts, i)
        BY <1>2, <1>7, <3>1
      <3> QED BY <1>13, <2>2, <3>2 DEF DriverInv, EntriesInv, ValuesInv
    <2>3. ValuesInv'
      BY <2>2 DEF ValuesInv
    <2> QED BY <2>1, <2>3 DEF EntriesInv
  <1>18. TextInv'
    BY <1>9, <1>13 DEF DriverInv, TextInv, InClass, InEnum
  <1>19. DeclaredInv'
    <2>1. Len(global_ns) = Count("class", udts', Len(udts'))
      <3>1. Count("class", udts', Len(udts')) = Count("class", udts, Len(udts))
        BY <1>2, <1>7
      <3> QED BY <3>1 DEF DriverInv, DeclaredInv
    <2>2. ASSUME NEW i \in 1..Len(global_ns)
          PROVE  /\ global_ns[i].init \in 1..Len(udts') /\ udts'[global_ns[i].init].kind = "class"
                 /\ udts'[global_ns[i].init].name = global_ns[i].name
      BY <1>7, <1>12 DEF DriverInv, DeclaredInv
    <2> QED BY <2>1, <2>2 DEF DriverInv, DeclaredInv
  <1>20. BuiltInv' => DriverInv'
    BY <1>14, <1>15, <1>16, <1>17, <1>18, <1>19 DEF DriverInv
  <1> QED BY <1>4, <1>8, <1>9, <1>10, <1>11, <1>20

LEMMA DeclareFieldStep ==
  ASSUME DriverInv, DeclareField
  PROVE  DriverInv'
  <1> DEFINE n == Len(udts[Udt].members)
             m == FieldOf(Node.members[n + 1])
  <1>1. /\ pc = "fields" /\ ~AllMembers /\ AddMember(m)
        /\ UNCHANGED <<program, file, turn, injected, pc, res, fileName, streams, global_ns>>
    BY DEF DeclareField, NextMember, FieldOf
  <1>2. AtMatch /\ ~injected /\ Node.kind = "class"
    BY <1>1 DEF DriverInv, CallbackInv, InClass
  <1>3. /\ Built("class")
        /\ \A j \in 1..n : udts[Udt].members[j] = FieldOf(Node.members[j])
    BY <1>1 DEF DriverInv, BuiltInv
  <1>4. /\ Len(Node.members) \in Nat
        /\ \A j \in 1..Len(Node.members) : FieldOf(Node.members[j]) \in Fields
    BY <1>2, FieldsTyped
  <1>5. n \in Nat /\ n + 1 <= Len(Node.members)
    BY <1>1, <1>3, <1>4, MembersBuilt DEF AllMembers, Built
  <1>6. m \in Fields \cup Enumerators
    BY <1>4, <1>5
  <1> HIDE DEF m
  <1>7. /\ BuiltInv' => DriverInv'
        /\ Node' = Node /\ Built("class")' /\ n' = n + 1
        /\ udts'[Udt'].members[n + 1] = m
        /\ \A j \in 1..n : udts'[Udt'].members[j] = udts[Udt].members[j]
    BY <1>1, <1>2, <1>3, <1>4, <1>6, NewMember
  <1>8. ASSUME NEW j \in 1..(n + 1)
        PROVE  udts'[Udt'].members[j] = FieldOf(Node'.members[j])
    <2>1. CASE j = n + 1
      BY <1>7, <2>1 DEF m
    <2>2. CASE j # n + 1
      BY <1>3, <1>5, <1>7, <2>2
    <2> QED BY <2>1, <2>2
  <1>9. BuiltInv'
    BY <1>1, <1>7, <1>8 DEF BuiltInv
  <1> QED BY <1>7, <1>9

LEMMA AddEnumeratorStep ==
  ASSUME DriverInv, AddEnumerator
  PROVE  DriverInv'
  <1> DEFINE n == Len(udts[Udt].members)
             m == EnumeratorOf(Node.members[n + 1])
  <1>1. /\ pc = "enumerators" /\ ~AllMembers /\ AddMember(m)
        /\ UNCHANGED <<program, file, turn, injected, pc, res, fileName, streams, global_ns>>
    BY DEF AddEnumerator, NextMember, EnumeratorOf
  <1>2. AtMatch /\ ~injected /\ Node.kind = "enum"
    BY <1>1 DEF DriverInv, CallbackInv, InEnum
  <1>3. /\ Built("enum")
        /\ \A j \in 1..n : udts[Udt].members[j] = EnumeratorOf(Node.members[j])
    BY <1>1 DEF DriverInv, BuiltInv
  <1>4. /\ Len(Node.members) \in Nat
        /\ \A j \in 1..Len(Node.members) : EnumeratorOf(Node.members[j]) \in Enumerators
    BY <1>2, MatchTyped, EnumTyped
  <1>5. n \in Nat /\ n + 1 <= Len(Node.members)
    BY <1>1, <1>3, <1>4, MembersBuilt DEF AllMembers, Built
  <1>6. m \in Fields \cup Enumerators
    BY <1>4, <1>5
  <1> HIDE DEF m
  <1>7. /\ BuiltInv' => DriverInv'
        /\ Node' = Node /\ Built("enum")' /\ n' = n + 1
        /\ udts'[Udt'].members[n + 1] = m
        /\ \A j \in 1..n : udts'[Udt'].members[j] = udts[Udt].members[j]
    BY <1>1, <1>2, <1>3, <1>4, <1>6, NewMember
  <1>8. ASSUME NEW j \in 1..(n + 1)
        PROVE  udts'[Udt'].members[j] = EnumeratorOf(Node'.members[j])
    <2>1. CASE j = n + 1
      BY <1>7, <2>1 DEF m
    <2>2. CASE j # n + 1
      BY <1>3, <1>5, <1>7, <2>2
    <2> QED BY <2>1, <2>2
  <1>9. BuiltInv'
    BY <1>1, <1>7, <1>8 DEF BuiltInv
  <1> QED BY <1>7, <1>9

\* With all its members the node is as the declaration was printed.
LEMMA AllFields ==
  ASSUME DriverInv, AtMatch, Node.kind = "class", pc = "fields", AllMembers
  PROVE  /\ udts[Udt] \in IprTexts /\ udts[Udt].kind = "class"
         /\ SameClass(ClassText(Node), udts[Udt])
  <1> DEFINE u == udts[Udt]
             n == Len(u.members)
  <1>1. /\ Built("class") /\ n = Len(Node.members)
        /\ \A j \in 1..n : u.members[j] = FieldOf(Node.members[j])
    BY DEF DriverInv, BuiltInv, AllMembers
  <1>2. u.kind = "class" /\ u.name = Node.name
    BY <1>1 DEF Built
  <1>3. u \in Udts /\ u.members \in Seq(Fields \cup Enumerators) /\ n \in Nat
    BY <1>1, MembersBuilt
  <1>4. \A j \in 1..n : u.members[j] \in Fields
    BY <1>1, FieldsTyped
  <1>5. u.members \in Seq(Fields \cup [name : Names])
    <2> DEFINE ms == u.members
    <2>1. ms \in Seq(Fields \cup Enumerators) /\ \A j \in 1..Len(ms) : ms[j] \in Fields
      BY <1>3, <1>4
    <2> HIDE DEF ms
    <2>2. ms \in Seq(Fields \cup [name : Names])
      BY <2>1
    <2> QED BY <2>2 DEF ms
  <1>6. u \in IprTexts
    <2> DEFINE A == Seq(Fields \cup Enumerators)
               B == Seq(Fields \cup [name : Names])
    <2>1. u.members \in B
      BY <1>5
    <2> HIDE DEF A, B
    <2>2. Udts = [kind : {"class", "enum"}, name : Names, members : A]
      BY DEF Udts, A
    <2>3. IprTexts = [kind : {"class", "enum"}, name : Names, members : B]
      BY DEF IprTexts, B
    <2> HIDE DEF u
    <2> QED BY <1>3, <2>1, <2>2, <2>3
  <1>7. /\ ClassText(Node).name = Node.name
        /\ ClassText(Node).members = Node.members
    BY DEF ClassText
  <1>8. \A f : SameField(f, FieldOf(f))
    BY DEF SameField, FieldOf, IprType
  <1>9. DOMAIN Node.members = 1..n
    <2> DEFINE M == [name : Names, type : Types]
               ms == Node.members
    <2>1. ms \in Seq(M)
      BY MatchTyped
    <2> HIDE DEF M, ms
    <2>2. DOMAIN ms = 1..Len(ms)
      BY <2>1
    <2> QED BY <1>1, <2>2 DEF ms
  <1>10. \A j \in 1..n : SameField(Node.members[j], u.members[j])
    BY <1>1, <1>8
  <1>11. SameClass(ClassText(Node), u)
    BY <1>1, <1>2, <1>7, <1>9, <1>10 DEF SameClass, SameEntry
  <1> QED BY <1>2, <1>6, <1>11

LEMMA AllEnumerators ==
  ASSUME DriverInv, AtMatch, Node.kind = "enum", pc = "enumerators", AllMembers
  PROVE  LET x == [udts[Udt] EXCEPT !.members = [i \in DOMAIN @ |-> [name |-> @[i].name]]]
         IN  /\ x \in IprTexts /\ x.kind = "enum"
             /\ SameNames(EnumText(Node), x) /\ SameValues(EnumText(Node), udts[Udt])
  <1> DEFINE u == udts[Udt]
             n == Len(u.members)
             t == [i \in 1..n |-> [name |-> u.members[i].name]]
             x == [u EXCEPT !.members = t]
             text == EnumText(Node)
             B == Seq(Fields \cup [name : Names])
  <1>1. /\ Built("enum") /\ n = Len(Node.members)
        /\ \A j \in 1..n : u.members[j] = EnumeratorOf(Node.members[j])
    BY DEF DriverInv, BuiltInv, AllMembers
  <1>2. u.kind = "enum" /\ u.name = Node.name
    BY <1>1 DEF Built
  <1>3. u \in Udts /\ n \in Nat /\ DOMAIN u.members = 1..n
    BY <1>1, MembersBuilt
  <1>4. /\ \A j \in 1..n : EnumeratorOf(Node.members[j]) \in Enumerators
        /\ text \in EnumTexts /\ text.name = Node.name /\ Len(text.members) = n
        /\ \A j \in 1..n : text.members[j] = EnumeratorOf(Node.members[j])
    BY <1>1, MatchTyped, EnumTyped
  <1>5. [u EXCEPT !.members = [i \in DOMAIN @ |-> [name |-> @[i].name]]] = x
    BY <1>3
  <1>6. \A j \in 1..n : u.members[j] \in Enumerators /\ text.members[j] = u.members[j]
    BY <1>1, <1>4
  <1>7. \A j \in 1..n : [name |-> u.members[j].name] \in Fields \cup [name : Names]
    BY <1>6 DEF Enumerators
  <1> HIDE DEF u
  <1>8. /\ t \in B /\ Len(t) = n /\ \A j \in 1..n : t[j].name = u.members[j].name
    <2> DEFINE F == Fields \cup [name : Names]
               e(i) == [name |-> u.members[i].name]
               s == [i \in 1..n |-> e(i)]
    <2>1. \A j \in 1..n : e(j) \in F
      BY <1>7
    <2> HIDE DEF F, e
    <2>2. s \in Seq(F) /\ Len(s) = n /\ \A j \in 1..n : s[j] = e(j)
      BY <1>3, <2>1, IsASeq
    <2> QED BY <2>2 DEF F, e
  <1>9. /\ x.kind = "enum" /\ x.name = Node.name /\ x.members = t /\ x \in IprTexts
    <2> DEFINE A == Seq(Fields \cup Enumerators)
    <2> HIDE DEF A, B, t
    <2>1. Udts = [kind : {"class", "enum"}, name : Names, members : A]
      BY DEF Udts, A
    <2>2. IprTexts = [kind : {"class", "enum"}, name : Names, members : B]
      BY DEF IprTexts, B
    <2>3. u.kind = "enum" /\ u.name = Node.name /\ u \in Udts /\ t \in B
      BY <1>2, <1>3, <1>8 DEF u
    <2> QED BY <2>1, <2>2, <2>3
  <1>10. DOMAIN text.members = 1..n
    <2> DEFINE Ms == Seq(Enumerators)
               ms == text.members
    <2> HIDE DEF Ms, text
    <2>1. EnumTexts = [name : Names, members : Ms]
      BY DEF EnumTexts, Ms
    <2>2. ms \in Ms
      BY <1>4, <2>1
    <2> HIDE DEF ms
    <2>3. DOMAIN ms = 1..Len(ms)
      BY <2>2 DEF Ms
    <2> QED BY <1>4, <2>3 DEF ms
  <1> HIDE DEF text, t, x
  <1>11. SameNames(text, x)
    <2>1. \A j \in 1..n : SameName(text.members[j], x.members[j])
      BY <1>6, <1>8, <1>9 DEF SameName
    <2> QED BY <1>4, <1>8, <1>9, <1>10, <2>1 DEF SameNames, SameEntry
  <1>12. SameValues(text, u)
    <2>1. \A j \in 1..n : Same(text.members[j], u.members[j])
      BY <1>6 DEF Same
    <2> QED BY <1>2, <1>4, <1>10, <2>1 DEF SameValues, SameEntry, u
  <1> QED BY <1>5, <1>9, <1>11, <1>12 DEF u, text

\* The loops that print the nodes built.
LEMMA PrintIprStep ==
  ASSUME DriverInv, PrintIpr
  PROVE  DriverInv'
  <1>1. /\ pc \in {"fields", "enumerators"} /\ AllMembers /\ Return
        /\ UNCHANGED <<res, fileName, classStream, enumStream, global_ns, udts>>
    BY DEF PrintIpr
  <1>2. /\ AtMatch /\ ~injected
        /\ pc = "fields" => Node.kind = "class"
        /\ pc = "enumerators" => Node.kind = "enum"
    BY <1>1 DEF DriverInv, CallbackInv, InClass, InEnum
  <1>3. PICK x \in IprTexts :
          /\ iprStream' = Append(iprStream, x) /\ x.kind = Node.kind
          /\ pc = "fields" => SameClass(ClassText(Node), x)
          /\ pc = "enumerators" => /\ SameNames(EnumText(Node), x)
                                   /\ SameValues(EnumText(Node), udts[Udt])
    <2>1. CASE pc = "fields"
      <3>1. iprStream' = Append(iprStream, udts[Udt])
        BY <2>1 DEF PrintIpr
      <3>2. /\ udts[Udt] \in IprTexts /\ udts[Udt].kind = "class"
            /\ SameClass(ClassText(Node), udts[Udt])
        BY <1>1, <1>2, <2>1, AllFields
      <3> QED BY <1>2, <2>1, <3>1, <3>2
    <2>2. CASE pc = "enumerators"
      <3> DEFINE x == [udts[Udt] EXCEPT !.members = [i \in DOMAIN @ |-> [name |-> @[i].name]]]
      <3>1. iprStream' = Append(iprStream, x)
        BY <2>2 DEF PrintIpr
      <3>2. /\ x \in IprTexts /\ x.kind = "enum"
            /\ SameNames(EnumText(Node), x) /\ SameValues(EnumText(Node), udts[Udt])
        BY <1>1, <1>2, <2>2, AllEnumerators
      <3> HIDE DEF x
      <3> QED BY <1>2, <2>2, <3>1, <3>2
    <2> QED BY <1>1, <2>1, <2>2
  <1>4. /\ pc' = "run" /\ UNCHANGED <<program, file>>
        /\ turn' \in Nat \ {0} /\ injected' \in BOOLEAN
        /\ injected' => AtMatch' /\ Decls'[turn'].kind = "class"
    BY <1>1, <1>2, NextMatch
  <1>5. ASSUME NEW q
        PROVE  /\ iprStream' \in Seq(IprTexts) /\ Len(iprStream') = Len(iprStream) + 1
               /\ Len(iprStream) \in Nat
               /\ iprStream'[Len(iprStream')] = x
               /\ \A i \in 1..Len(iprStream) : iprStream'[i] = iprStream[i]
               /\ \A i \in 1..Len(iprStream) : Count(q, iprStream', i) = Count(q, iprStream, i)
               /\ Count(q, iprStream', Len(iprStream')) =
                    Count(q, iprStream, Len(iprStream)) + IF x.kind = q THEN 1 ELSE 0
    <2> DEFINE t == Append(iprStream, x)
    <2>1. iprStream \in Seq(IprTexts)
      BY Streams
    <2>2. /\ t \in Seq(IprTexts) /\ Len(t) = Len(iprStream) + 1 /\ Len(iprStream) \in Nat
          /\ t[Len(iprStream) + 1] = x /\ \A i \in 1..Len(iprStream) : t[i] = iprStream[i]
          /\ \A i \in 1..Len(iprStream) : Count(q, t, i) = Count(q, iprStream, i)
          /\ Count(q, t, Len(t)) = Count(q, iprStream, Len(iprStream)) + IF x.kind = q THEN 1 ELSE 0
      BY <2>1, CountAppended
    <2>3. iprStream' = t
      BY <1>3
    <2> HIDE DEF t
    <2> QED BY <2>2, <2>3
  <1>6. TypeOK' /\ program' \in Programs
    <2>1. iprStream' \in Seq([kind : {"class", "enum"}, name : Names,
                              members : Seq(Fields \cup [name : Names])])
      BY <1>5 DEF IprTexts
    <2> QED BY <1>1, <1>4, <2>1 DEF DriverInv, TypeOK
  <1>7. CallbackInv' /\ TextInv' /\ BuiltInv'
    BY <1>4 DEF CallbackInv, TextInv, BuiltInv, InClass, InEnum
  <1>8. DeclaredInv'
    BY <1>1 DEF DriverInv, DeclaredInv
  <1>9. /\ Len(classStream) = Count("class", iprStream', Len(iprStream'))
        /\ Len(enumStream) = Count("enum", iprStream', Len(iprStream'))
        /\ Len(enumStream) = Count("enum", udts, Len(udts))
    <2>1. /\ Count("class", iprStream, Len(iprStream)) \in Nat
          /\ Count("enum", iprStream, Len(iprStream)) \in Nat
          /\ Count("enum", udts, Len(udts)) \in Nat
      BY Counts
    <2>2. /\ Len(classStream) = Count("class", iprStream, Len(iprStream)) + IF pc = "fields" THEN 1 ELSE 0
          /\ Len(enumStream) = Count("enum", iprStream, Len(iprStream)) + IF pc = "enumerators" THEN 1 ELSE 0
          /\ Len(enumStream) = Count("enum", udts, Len(udts))
      BY <1>1, <2>1 DEF DriverInv, LengthsInv, Ahead, InClass, InEnum
    <2>3. /\ Count("class", iprStream', Len(iprStream')) =
               Count("class", iprStream, Len(iprStream)) + IF x.kind = "class" THEN 1 ELSE 0
          /\ Count("enum", iprStream', Len(iprStream')) =
               Count("enum", iprStream, Len(iprStream)) + IF x.kind = "enum" THEN 1 ELSE 0
      BY <1>5
    <2>4. (x.kind = "class") = (pc = "fields") /\ (x.kind = "enum") = (pc = "enumerators")
      BY <1>1, <1>2, <1>3
    <2> QED BY <2>2, <2>3, <2>4
  <1>10. LengthsInv'
    <2>1. Count("class", iprStream', Len(iprStream')) \in Nat /\ Len(enumStream) \in Nat
      BY <1>9, Streams
    <2> QED BY <1>1, <1>4, <1>9, <2>1 DEF LengthsInv, Ahead, InClass, InEnum
  <1>11. EntriesInv'
    <2>1. ASSUME NEW i \in 1..Len(iprStream'), i # Len(iprStream')
          PROVE  /\ i \in 1..Len(iprStream) /\ iprStream'[i] = iprStream[i]
                 /\ Count("class", iprStream', i) = Count("class", iprStream, i)
                 /\ Count("enum", iprStream', i) = Count("enum", iprStream, i)
      <3>1. i \in 1..Len(iprStream)
        BY <1>5, <2>1
      <3> QED BY <1>5, <3>1
    <2>2. /\ iprStream'[Len(iprStream')] = x
          /\ pc = "fields" => classStream[Len(classStream)] = ClassText(Node)
          /\ pc = "enumerators" => enumStream[Len(enumStream)] = EnumText(Node)
      BY <1>5 DEF DriverInv, TextInv, InClass, InEnum
    <2>3. ClassesInv'
      <3>1. ASSUME NEW i \in 1..Len(iprStream'), iprStream'[i].kind = "class"
            PROVE  SameClass(classStream[Count("class", iprStream', i)], iprStream'[i])
        <4>1. CASE i = Len(iprStream')
          BY <1>1, <1>2, <1>3, <1>9, <2>2, <3>1, <4>1
        <4>2. CASE i # Len(iprStream')
          BY <2>1, <3>1, <4>2 DEF DriverInv, EntriesInv, ClassesInv
        <4> QED BY <4>1, <4>2
      <3> QED BY <1>1, <3>1 DEF ClassesInv
    <2>4. EnumsInv'
      <3>1. ASSUME NEW i \in 1..Len(iprStream'), iprStream'[i].kind = "enum"
            PROVE  SameNames(enumStream[Count("enum", iprStream', i)], iprStream'[i])
        <4>1. CASE i = Len(iprStream')
          BY <1>1, <1>2, <1>3, <1>9, <2>2, <3>1, <4>1
        <4>2. CASE i # Len(iprStream')
          BY <2>1, <3>1, <4>2 DEF DriverInv, EntriesInv, EnumsInv
        <4> QED BY <4>1, <4>2
      <3> QED BY <1>1, <3>1 DEF EnumsInv
    <2>5. ValuesInv'
      <3>1. ASSUME NEW i \in 1..Len(udts), udts[i].kind = "enum"
            PROVE  SameValues(enumStream[Count("enum", udts, i)], udts[i])
        <4>1. CASE pc = "enumerators" /\ i = Len(udts)
          BY <1>3, <1>9, <2>2, <4>1 DEF Udt
        <4>2. CASE ~(pc = "enumerators" /\ i = Len(udts))
          BY <3>1, <4>2 DEF DriverInv, EntriesInv, ValuesInv
        <4> QED BY <4>1, <4>2
      <3> QED BY <1>1, <3>1 DEF ValuesInv
    <2> QED BY <2>3, <2>4, <2>5 DEF EntriesInv
  <1> QED BY <1>6, <1>7, <1>8, <1>10, <1>11 DEF DriverInv

-----------------------------------------------------------------------------
LEMMA InitDriverInv ==
  ASSUME Init
  PROVE  DriverInv
  <1>1. /\ program \in Programs /\ file = 1 /\ turn = 1 /\ injected = FALSE /\ pc = "run"
        /\ res = 0 /\ fileName = 0 /\ classStream = <<>> /\ enumStream = <<>> /\ iprStream = <<>>
        /\ global_ns = <<>> /\ udts = <<>>
    BY DEF Init
  <1>2. Len(program) \in Nat
    <2> DEFINE F == [decls : Seq(ClassDecl \cup EnumDecl), parses : BOOLEAN]
    <2>1. program \in Seq(F)
      BY <1>1, ProgramAssumption
    <2> HIDE DEF F
    <2> QED BY <2>1
  <1>3. TypeOK
    <2> DEFINE A == [scope : Names, name : Names, members : Seq([name : Names, type : Types])]
               B == [name : Names, members : Seq(Enumerators)]
               C == [kind : {"class", "enum"}, name : Names, members : Seq(Fields \cup [name : Names])]
               D == [kind : {"class", "enum"}, name : Names, members : Seq(Fields \cup Enumerators)]
               G == [name : Names, init : DOMAIN udts]
    <2> HIDE DEF A, B, C, D, G
    <2>1. /\ classStream \in Seq(A) /\ enumStream \in Seq(B) /\ iprStream \in Seq(C)
          /\ udts \in Seq(D) /\ global_ns \in Seq(G)
      BY <1>1
    <2>2. injected \in BOOLEAN
      BY <1>1
    <2>3. file \in 1..(Len(program) + 1) /\ turn \in Nat \ {0} /\ fileName \in 0..Len(program)
      BY <1>1, <1>2
    <2> QED BY <1>1, <2>1, <2>2, <2>3 DEF TypeOK, A, B, C, D, G
  <1>4. CallbackInv /\ TextInv /\ BuiltInv
    BY <1>1 DEF CallbackInv, TextInv, BuiltInv, InClass, InEnum
  <1>5. LengthsInv /\ EntriesInv /\ DeclaredInv
    <2>1. Len(<<>>) = 0
      OBVIOUS
    <2>2. /\ Count("class", iprStream, 0) = 0 /\ Count("enum", iprStream, 0) = 0
          /\ Count("enum", udts, 0) = 0 /\ Count("class", udts, 0) = 0
      BY Counting
    <2>3. LengthsInv
      BY <1>1, <2>1, <2>2 DEF LengthsInv, Ahead, InClass, InEnum
    <2>4. EntriesInv
      BY <1>1, <2>1 DEF EntriesInv, ClassesInv, EnumsInv, ValuesInv
    <2>5. DeclaredInv
      BY <1>1, <2>1, <2>2 DEF DeclaredInv
    <2> QED BY <2>3, <2>4, <2>5
  <1> QED BY <1>1, <1>3, <1>4, <1>5 DEF DriverInv

LEMMA NextDriverInv ==
  ASSUME DriverInv, Next
  PROVE  DriverInv'
  <1>1. CASE EndOfFile
    BY <1>1, EndOfFileStep
  <1>2. CASE SkipClass
    BY <1>2, SkipStep DEF SkipClass
  <1>3. CASE SkipUndefined
    BY <1>3, SkipStep DEF SkipUndefined
  <1>4. CASE PrintClassFields
    BY <1>4, PrintClassFieldsStep
  <1>5. CASE CreatIprClass
    BY <1>5, CreatIprClassStep
  <1>6. CASE DeclareField
    BY <1>6, DeclareFieldStep
  <1>7. CASE SkipEnum
    BY <1>7, SkipStep DEF SkipEnum
  <1>8. CASE PrintEnumFields
    BY <1>8, PrintEnumFieldsStep
  <1>9. CASE CreateIprEnum
    BY <1>9, CreateIprEnumStep
  <1>10. CASE AddEnumerator
    BY <1>10, AddEnumeratorStep
  <1>11. CASE PrintIpr
    BY <1>11, PrintIprStep
  <1>12. CASE WriteMetaInfo
    BY <1>12, WriteStep
  <1> QED
    BY <1>1, <1>2, <1>3, <1>4, <1>5, <1>6, <1>7, <1>8, <1>9, <1>10, <1>11, <1>12 DEF Next

LEMMA StutterDriverInv ==
  ASSUME DriverInv, UNCHANGED vars
  PROVE  DriverInv'
  <1>1. UNCHANGED <<program, file, turn, injected, pc, res, fileName, classStream, enumStream,
                    iprStream, global_ns, udts>>
    BY DEF vars, streams
  <1>2. Node' = Node /\ Decls' = Decls /\ AtMatch' = AtMatch
    BY <1>1, SameMatch
  <1>3. TypeOK' /\ program' \in Programs
    BY <1>1 DEF DriverInv, TypeOK
  <1>4. CallbackInv'
    BY <1>1, <1>2 DEF DriverInv, CallbackInv, InClass, InEnum
  <1>5. LengthsInv'
    BY <1>1 DEF DriverInv, LengthsInv, Ahead, InClass, InEnum
  <1>6. EntriesInv'
    BY <1>1 DEF DriverInv, EntriesInv, ClassesInv, EnumsInv, ValuesInv
  <1>7. TextInv'
    BY <1>1, <1>2 DEF DriverInv, TextInv, InClass, InEnum
  <1>8. BuiltInv'
    BY <1>1, <1>2 DEF DriverInv, BuiltInv, Built, Udt
  <1>9. DeclaredInv'
    BY <1>1 DEF DriverInv, DeclaredInv
  <1> QED BY <1>3, <1>4, <1>5, <1>6, <1>7, <1>8, <1>9 DEF DriverInv

\* The three sections and the nodes keep step with the callbacks: while one is
\* answered, its section is ahead of the nodes by the text being built, and the
\* node has the first members of the declaration, after any steps.
THEOREM DriverInvariance == Spec => []DriverInv
  <1>1. Init => DriverInv
    BY InitDriverInv
  <1>2. DriverInv /\ [Next]_vars => DriverInv'
    BY NextDriverInv, StutterDriverInv
  <1> QED BY <1>1, <1>2, PTL DEF Spec

\* What the callbacks print and build has names and types of the programs only,
\* and every declaration in the global namespace is initialized with a node.
THEOREM DriverTypes == Spec => []TypeOK
  <1>1. DriverInv => TypeOK
    BY DEF DriverInv
  <1> QED BY <1>1, DriverInvariance, PTL

\* Between callbacks the Iprs section, printed from the nodes built, has the
\* classes and enums of the other two, printed from clang's declarations, in
\* their order and with the same members, and the values built are those printed.
THEOREM SectionsInStep == Spec => []SectionsAgree
  <1>1. ASSUME DriverInv, pc = "run"
        PROVE  /\ SameEntries(classStream, "class", iprStream, SameField)
               /\ SameEntries(enumStream, "enum", iprStream, SameName)
               /\ SameEntries(enumStream, "enum", udts, Same)
    <2>1. DOMAIN iprStream = 1..Len(iprStream) /\ DOMAIN udts = 1..Len(udts)
      BY <1>1, Streams
    <2>2. /\ Len(classStream) = Count("class", iprStream, Len(iprStream))
          /\ Len(enumStream) = Count("enum", iprStream, Len(iprStream))
          /\ Len(enumStream) = Count("enum", udts, Len(udts))
      BY <1>1, Counts DEF DriverInv, LengthsInv, Ahead, InClass, InEnum
    <2>3. SameEntries(classStream, "class", iprStream, SameField)
      BY <1>1, <2>1, <2>2 DEF SameEntries, DriverInv, EntriesInv, ClassesInv, SameClass
    <2>4. SameEntries(enumStream, "enum", iprStream, SameName)
      BY <1>1, <2>1, <2>2 DEF SameEntries, DriverInv, EntriesInv, EnumsInv, SameNames
    <2>5. SameEntries(enumStream, "enum", udts, Same)
      BY <1>1, <2>1, <2>2 DEF SameEntries, DriverInv, EntriesInv, ValuesInv, SameValues
    <2> QED BY <2>3, <2>4, <2>5
  <1>2. DriverInv => SectionsAgree
    BY <1>1 DEF SectionsAgree
  <1> QED BY <1>2, DriverInvariance, PTL

\* The global namespace declares each class that was built, in their order, and
\* each declaration is initialized with its own class, also when classes share
\* their name.
THEOREM ClassesDeclared == Spec => []Declared
  <1>1. ASSUME DriverInv PROVE Declared
    <2>1. DOMAIN udts = 1..Len(udts)
      BY <1>1, Streams
    <2>2. DOMAIN global_ns = 1..Len(global_ns)
      <3> DEFINE G == [name : Names, init : DOMAIN udts]
      <3>1. global_ns \in Seq(G)
        BY <1>1, Streams
      <3> HIDE DEF G
      <3> QED BY <3>1
    <2> QED BY <1>1, <2>1, <2>2 DEF DriverInv, DeclaredInv, Declared
  <1>2. DriverInv => Declared
    BY <1>1
  <1> QED BY <1>2, DriverInvariance, PTL

=============================================================================
