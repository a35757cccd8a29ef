------------------------------ MODULE Unit_proofs ------------------------------
(***************************************************************************)
(* Proofs about Unit, for every workload, every set of strings and every    *)
(* set of qualifiers.                                                       *)
(***************************************************************************)
EXTENDS Unit, TLAPS, SequenceTheorems, WellFoundedInduction

-----------------------------------------------------------------------------
(***************************************************************************)
(* lexicographical_compare orders sequences.                                *)
(***************************************************************************)
LEMMA LeastNumber ==
  ASSUME NEW D \in SUBSET Nat, D # {}
  PROVE  \E i \in D : \A j \in D : i <= j
  <1>1. IsWellFoundedOn(OpToRel(<, Nat), Nat)
    BY NatLessThanWellFounded
  <1>2. PICK i \in D : \A j \in D : ~ (<<j, i>> \in OpToRel(<, Nat))
    BY <1>1, WFMin
  <1>3. \A j \in D : ~ (j < i)
    BY <1>2 DEF OpToRel
  <1> QED BY <1>3

LEMMA Smaller ==
  ASSUME NEW a \in Nat, NEW b \in Nat, NEW c \in Nat, a < b, b <= c
  PROVE  a < c
  OBVIOUS

LEMMA Differences ==
  ASSUME NEW a \in Nat, NEW b \in Nat, a # b
  PROVE  /\ Sign(a - b) \in Int /\ Sign(a - b) # 0
         /\ Sign(a - b) < 0 => a < b
         /\ Sign(a - b) > 0 => b < a
  BY DEF Sign

LEMMA LexicographicalCases ==
  ASSUME NEW s \in Seq(Nat), NEW t \in Seq(Nat)
  PROVE  \/ /\ \A i \in (1..Len(s)) \cap (1..Len(t)) : s[i] = t[i]
            /\ Lexicographical(s, t) = Sign(Len(s) - Len(t))
         \/ \E i \in (1..Len(s)) \cap (1..Len(t)) :
              /\ s[i] # t[i] /\ \A j \in 1..(i - 1) : s[j] = t[j]
              /\ Lexicographical(s, t) = Sign(s[i] - t[i])
  <1> DEFINE common == DOMAIN s \cap DOMAIN t
             differ == {i \in common : s[i] # t[i]}
  <1>1. common = (1..Len(s)) \cap (1..Len(t))
    OBVIOUS
  <1>2. CASE differ = {}
    <2>1. Lexicographical(s, t) = Sign(Len(s) - Len(t))
      BY <1>2 DEF Lexicographical
    <2>2. \A i \in common : s[i] = t[i]
      BY <1>2
    <2> QED BY <1>1, <2>1, <2>2
  <1>3. CASE differ # {}
    <2> DEFINE i == CHOOSE i \in differ : \A j \in differ : i <= j
    <2>1. i \in differ /\ \A j \in differ : i <= j
      <3>1. differ \in SUBSET Nat
        BY <1>1
      <3> HIDE DEF differ
      <3>2. \E k \in differ : \A j \in differ : k <= j
        BY <1>3, <3>1, LeastNumber
      <3> QED BY <3>2
    <2>2. Lexicographical(s, t) = Sign(s[i] - t[i])
      BY <1>3 DEF Lexicographical
    <2> HIDE DEF i
    <2>3. i \in common /\ s[i] # t[i]
      BY <2>1
    <2>4. ASSUME NEW j \in 1..(i - 1) PROVE s[j] = t[j]
      <3>1. i \in Nat /\ i <= Len(s) /\ i <= Len(t)
        BY <1>1, <2>3
      <3>2. j \in (1..Len(s)) \cap (1..Len(t)) /\ ~ (i <= j)
        BY <3>1
      <3> QED BY <1>1, <2>1, <3>2
    <2> QED BY <1>1, <2>2, <2>3, <2>4
  <1> QED BY <1>2, <1>3

\* s is before t by its place i, the end of s or a smaller member.
BeforeAt(s, t, i) ==
  /\ \A j \in 1..(i - 1) : j <= Len(s) /\ j <= Len(t) /\ s[j] = t[j]
  /\ i <= Len(t)
  /\ i <= Len(s) => s[i] < t[i]

Precedes(s, t) == \E i \in Nat \ {0} : BeforeAt(s, t, i)

LEMMA PrecedesIsStrict ==
  ASSUME NEW s \in Seq(Nat), NEW t \in Seq(Nat), Precedes(s, t)
  PROVE  s # t /\ ~Precedes(t, s)
  <1>1. PICK i \in Nat \ {0} : BeforeAt(s, t, i)
    BY DEF Precedes
  <1>2. ASSUME NEW k \in Nat \ {0}, BeforeAt(t, s, k) PROVE FALSE
    <2>1. CASE i < k
      <3>1. i \in 1..(k - 1)
        BY <2>1
      <3>2. i <= Len(s) /\ i <= Len(t) /\ t[i] = s[i]
        BY <1>2, <3>1 DEF BeforeAt
      <3>3. s[i] \in Nat /\ t[i] \in Nat
        BY <3>2
      <3> QED BY <1>1, <3>2, <3>3 DEF BeforeAt
    <2>2. CASE k < i
      <3>1. k \in 1..(i - 1)
        BY <2>2
      <3>2. k <= Len(s) /\ k <= Len(t) /\ s[k] = t[k]
        BY <1>1, <3>1 DEF BeforeAt
      <3>3. s[k] \in Nat /\ t[k] \in Nat
        BY <3>2
      <3> QED BY <1>2, <3>2, <3>3 DEF BeforeAt
    <2>3. CASE i = k
      <3>1. i <= Len(s) /\ i <= Len(t) /\ s[i] < t[i] /\ t[i] < s[i]
        BY <1>1, <1>2, <2>3 DEF BeforeAt
      <3>2. s[i] \in Nat /\ t[i] \in Nat
        BY <3>1
      <3> QED BY <3>1, <3>2
    <2> QED BY <2>1, <2>2, <2>3
  <1> QED BY <1>1, <1>2 DEF Precedes

LEMMA PrecedesIsTransitive ==
  ASSUME NEW s \in Seq(Nat), NEW t \in Seq(Nat), NEW u \in Seq(Nat),
         Precedes(s, t), Precedes(t, u)
  PROVE  Precedes(s, u)
  <1>1. PICK i \in Nat \ {0} : BeforeAt(s, t, i)
    BY DEF Precedes
  <1>2. PICK k \in Nat \ {0} : BeforeAt(t, u, k)
    BY DEF Precedes
  <1>3. /\ \A j \in 1..Len(s) : s[j] \in Nat
        /\ \A j \in 1..Len(t) : t[j] \in Nat
        /\ \A j \in 1..Len(u) : u[j] \in Nat
    OBVIOUS
  <1>4. CASE i <= k
    <2>1. ASSUME NEW j \in 1..(i - 1)
          PROVE  j <= Len(s) /\ j <= Len(u) /\ s[j] = u[j]
      <3>1. j \in 1..(k - 1)
        BY <1>4
      <3>2. j <= Len(s) /\ s[j] = t[j] /\ j <= Len(u) /\ t[j] = u[j]
        BY <1>1, <1>2, <3>1 DEF BeforeAt
      <3> QED BY <3>2
    <2>2. i <= Len(u)
      <3>1. i < k => i \in 1..(k - 1)
        BY <1>4
      <3> QED BY <1>2, <1>4, <3>1 DEF BeforeAt
    <2>3. i <= Len(s) => s[i] < u[i]
      <3> SUFFICES ASSUME i <= Len(s) PROVE s[i] < u[i]
        OBVIOUS
      <3>1. i <= Len(t) /\ s[i] < t[i]
        BY <1>1 DEF BeforeAt
      <3>2. t[i] <= u[i]
        <4>1. CASE i = k
          <5>1. t[i] < u[i]
            BY <1>2, <3>1, <4>1, Zenon DEF BeforeAt
          <5>2. t[i] \in Nat /\ u[i] \in Nat
            BY <1>3, <2>2, <3>1
          <5> QED BY <5>1, <5>2
        <4>2. CASE i < k
          <5>1. i \in 1..(k - 1)
            BY <4>2
          <5>2. t[i] = u[i]
            BY <1>2, <5>1 DEF BeforeAt
          <5>3. t[i] \in Nat
            BY <1>3, <3>1
          <5> QED BY <5>2, <5>3
        <4> QED BY <1>4, <4>1, <4>2
      <3>3. s[i] \in Nat /\ t[i] \in Nat /\ u[i] \in Nat
        BY <1>3, <2>2, <3>1
      <3> QED BY <3>1, <3>2, <3>3, Smaller, Zenon
    <2> QED BY <2>1, <2>2, <2>3 DEF Precedes, BeforeAt
  <1>5. CASE k < i
    <2>1. k \in 1..(i - 1)
      BY <1>5
    <2>2. k <= Len(s) /\ k <= Len(t) /\ s[k] = t[k]
      BY <1>1, <2>1 DEF BeforeAt
    <2>3. ASSUME NEW j \in 1..(k - 1)
          PROVE  j <= Len(s) /\ j <= Len(u) /\ s[j] = u[j]
      <3>1. j \in 1..(i - 1)
        BY <1>5
      <3>2. j <= Len(s) /\ s[j] = t[j] /\ j <= Len(u) /\ t[j] = u[j]
        BY <1>1, <1>2, <3>1 DEF BeforeAt
      <3> QED BY <3>2
    <2> QED BY <1>2, <2>2, <2>3 DEF Precedes, BeforeAt
  <1> QED BY <1>4, <1>5

\* The comparison of two sequences says whether they are the same, and which of
\* them is first.
LEMMA LexicographicalOrders ==
  ASSUME NEW s \in Seq(Nat), NEW t \in Seq(Nat)
  PROVE  /\ Lexicographical(s, t) = 0 <=> s = t
         /\ Lexicographical(s, t) < 0 <=> Precedes(s, t)
         /\ ~Precedes(s, t) /\ ~Precedes(t, s) => s = t
  <1> DEFINE c == Lexicographical(s, t)
  <1>1. Len(s) \in Nat /\ Len(t) \in Nat
    OBVIOUS
  <1>2. /\ c \in Int
        /\ c = 0 => s = t
        /\ c < 0 => Precedes(s, t)
        /\ c > 0 => Precedes(t, s)
    <2>1. CASE /\ \A i \in (1..Len(s)) \cap (1..Len(t)) : s[i] = t[i]
               /\ c = Sign(Len(s) - Len(t))
      <3>1. c \in Int /\ (c = 0 => Len(s) = Len(t)) /\ (c < 0 => Len(s) < Len(t))
            /\ (c > 0 => Len(t) < Len(s))
        BY <1>1, <2>1 DEF Sign
      <3>2. Len(s) = Len(t) => s = t
        BY <2>1, SeqEqual
      <3>3. Len(s) < Len(t) => BeforeAt(s, t, Len(s) + 1)
        BY <1>1, <2>1 DEF BeforeAt
      <3>4. Len(t) < Len(s) => BeforeAt(t, s, Len(t) + 1)
        BY <1>1, <2>1 DEF BeforeAt
      <3>5. Len(s) + 1 \in Nat \ {0} /\ Len(t) + 1 \in Nat \ {0}
        BY <1>1
      <3> QED BY <3>1, <3>2, <3>3, <3>4, <3>5 DEF Precedes
    <2>2. ASSUME NEW i \in (1..Len(s)) \cap (1..Len(t)),
                 s[i] # t[i], \A j \in 1..(i - 1) : s[j] = t[j], c = Sign(s[i] - t[i])
          PROVE  /\ c \in Int /\ c # 0
                 /\ c < 0 => Precedes(s, t)
                 /\ c > 0 => Precedes(t, s)
      <3>1. s[i] \in Nat /\ t[i] \in Nat
        OBVIOUS
      <3>2. c \in Int /\ c # 0 /\ (c < 0 => s[i] < t[i]) /\ (c > 0 => t[i] < s[i])
        BY <2>2, <3>1, Differences, Zenon
      <3>3. i \in Nat /\ i <= Len(s) /\ i <= Len(t)
            /\ \A j \in 1..(i - 1) : j <= Len(s) /\ j <= Len(t)
        BY <1>1
      <3>4. s[i] < t[i] => BeforeAt(s, t, i)
        BY <2>2, <3>3 DEF BeforeAt
      <3>5. t[i] < s[i] => BeforeAt(t, s, i)
        BY <2>2, <3>3 DEF BeforeAt
      <3>6. i \in Nat \ {0}
        OBVIOUS
      <3> QED BY <3>2, <3>4, <3>5, <3>6 DEF Precedes
    <2> QED BY <2>1, <2>2, LexicographicalCases
  <1>3. s = t => c = 0
    <2> SUFFICES ASSUME s = t, c # 0 PROVE FALSE
      OBVIOUS
    <2>1. c < 0 \/ c > 0
      BY <1>2
    <2> QED BY <1>2, <2>1, PrecedesIsStrict
  <1>4. Precedes(s, t) => c < 0
    <2> SUFFICES ASSUME Precedes(s, t), ~(c < 0) PROVE FALSE
      OBVIOUS
    <2>1. c = 0 \/ c > 0
      BY <1>2
    <2> QED BY <1>2, <2>1, PrecedesIsStrict
  <1>5. ~Precedes(s, t) /\ ~Precedes(t, s) => s = t
    <2>1. c = 0 \/ c < 0 \/ c > 0
      BY <1>2
    <2> QED BY <1>2, <2>1
  <1> QED BY <1>2, <1>3, <1>4, <1>5

-----------------------------------------------------------------------------
(***************************************************************************)
(* The inductive invariant.                                                 *)
(***************************************************************************)
NodeRecord == [kind : NodeKinds, args : Seq(Nat), constraint : Nat, id : Nat]

RequestKinds == NodeKinds \ {"Builtin", "Cxx_linkage", "C_linkage"}

Complete(n) == nodes[n].constraint # 0 /\ nodes[n].id # 0

BuiltinsInv ==
  /\ Len(nodes) >= 14
  /\ nodes[CxxLinkage].kind = "Cxx_linkage" /\ nodes[CLinkage].kind = "C_linkage"

\* An id that is a Type_id is one of its node: finish_type makes no other, and
\* clients give classes names of other kinds.
IdsInv ==
  \A n \in NodeId :
    nodes[n].id # 0 /\ nodes[nodes[n].id].kind = "Type_id" => nodes[nodes[n].id].args = <<n>>

\* A name that has its type has its own decltype for it, and a finished one.
NamesInv ==
  \A n \in NodeId :
    nodes[n].kind \in TypedNames /\ nodes[n].constraint # 0 =>
      LET d == nodes[n].constraint
      IN  nodes[d].kind = "Decltype" /\ nodes[d].args = <<n>> /\ Complete(d)

\* No table that is compared by operands has two nodes of the same.
UniqueInv ==
  \A m, n \in NodeId :
    /\ nodes[m].kind = nodes[n].kind /\ nodes[m].kind \notin Unshared \cup ByIdentity
    /\ nodes[m].args = nodes[n].args
    => m = n

NodesInv == BuiltinsInv /\ IdsInv /\ NamesInv /\ UniqueInv

\* n is what the request q is for.  A Linkage may be one of the built-in ones, and
\* a Decltype of a Decltype is that Decltype.
Fits(n, q) ==
  /\ q.kind # "Linkage" => nodes[n].kind = q.kind
  /\ q.kind # "Decltype" => nodes[n].args = q.args

AnswersInv == \A x \in answers : Fits(x.node, x.asked)

FinishedInv ==
  \A n \in finished :
    /\ nodes[n].kind \in TypeKinds => Complete(n)
    /\ nodes[n].kind \in TypedNames => nodes[n].constraint # 0

\* Of the kinds compared by identity none but Decltype has operands of its own
\* kind, so that no other request finds a node.
Proper(q) ==
  /\ q.kind \in RequestKinds
  /\ q.kind \in ByIdentity \ {"Decltype"} =>
       q.args[1] \in NodeId /\ nodes[q.args[1]].kind # q.kind

\* The first of two lookups is of a String, or of the list of a function's
\* exception types.
PendingInv ==
  pc # "idle" /\ pending # NoLookup =>
    /\ outer = 0
    /\ \/ call.kind = "String" /\ pending.kind \in {"Operator", "Linkage"} /\ pending.args = <<0>>
       \/ call.kind \in {"String", "Sum"} /\ pending.kind \in {"Identifier", "Literal", "Function"}

FindInv ==
  pc = "find" =>
    /\ Proper(call)
    /\ outer # 0 => call = Lookup("Decltype", <<outer>>)
    /\ outer = 0 /\ pending = NoLookup => asked = call

\* A name waits for its decltype.
OuterInv ==
  pc # "idle" /\ outer # 0 =>
    /\ nodes[outer].kind \in TypedNames
    /\ nodes[outer].constraint = 0
    /\ Fits(outer, asked)

TargetInv ==
  pc \notin {"idle", "find"} =>
    /\ target # 0
    /\ outer # 0 => nodes[target].kind = "Decltype" /\ nodes[target].args = <<outer>>
    /\ outer = 0 => Fits(target, IF pending = NoLookup THEN asked ELSE call)

\* How far the target is.
StageInv ==
  /\ pc \in {"constrain", "name"} => nodes[target].kind \in FinishedTypes
  /\ pc = "name" => nodes[target].constraint # 0
  /\ pc = "type" => nodes[target].kind \in TypedNames
  /\ pc = "return" =>
       /\ nodes[target].kind \in TypeKinds => Complete(target)
       /\ nodes[target].kind \in TypedNames /\ ~raw => nodes[target].constraint # 0

CallInv == PendingInv /\ FindInv /\ OuterInv /\ TargetInv /\ StageInv

UnitInv == TypeOK /\ NodesInv /\ AnswersInv /\ FinishedInv /\ CallInv

-----------------------------------------------------------------------------
(***************************************************************************)
(* What a step may do to the nodes.                                         *)
(***************************************************************************)
Kept ==
  /\ Len(nodes) \in Nat /\ Len(nodes') \in Nat /\ Len(nodes) <= Len(nodes')
  /\ \A n \in NodeId :
       /\ nodes'[n].kind = nodes[n].kind /\ nodes'[n].args = nodes[n].args
       /\ nodes[n].constraint # 0 => nodes'[n].constraint = nodes[n].constraint
       /\ nodes[n].id # 0 => nodes'[n].id = nodes[n].id

\* The first two conjuncts of TypeOK that are about nodes.
NodesTyped ==
  /\ nodes \in Seq(NodeRecord)
  /\ \A n \in NodeId : nodes[n].constraint \in NodeId \cup {0} /\ nodes[n].id \in NodeId \cup {0}

LEMMA TypedNodes ==
  ASSUME UnitInv
  PROVE  /\ NodesTyped
         /\ Len(nodes) \in Nat /\ Len(nodes) >= 14 /\ NodeId \subseteq Nat /\ 0 \notin NodeId
         /\ \A n \in NodeId :
              /\ nodes[n] \in NodeRecord
              /\ nodes[n].kind \in NodeKinds /\ nodes[n].args \in Seq(Nat)
              /\ nodes[n].constraint \in NodeId \cup {0} /\ nodes[n].id \in NodeId \cup {0}
         /\ given \subseteq NodeId
  <1>1. NodesTyped
    BY DEF UnitInv, TypeOK, NodesTyped, NodeRecord
  <1>2. Len(nodes) \in Nat /\ \A n \in NodeId : nodes[n] \in NodeRecord
    BY <1>1 DEF NodesTyped, NodeId
  <1>3. Len(nodes) >= 14
    BY DEF UnitInv, NodesInv, BuiltinsInv
  <1>4. given \subseteq NodeId
    <2>1. \A x \in answers : x.node \in NodeId
      BY DEF UnitInv, TypeOK
    <2>2. {CxxLinkage, CLinkage, AnyType, EllipsisType} \subseteq NodeId
      BY <1>2, <1>3 DEF NodeId, CxxLinkage, CLinkage, AnyType, EllipsisType
    <2> QED BY <2>1, <2>2 DEF given
  <1>5. NodeId \subseteq Nat /\ 0 \notin NodeId
    BY DEF NodeId
  <1>6. \A n \in NodeId : nodes[n].kind \in NodeKinds /\ nodes[n].args \in Seq(Nat)
    BY <1>2 DEF NodeRecord
  <1> QED BY <1>1, <1>2, <1>3, <1>4, <1>5, <1>6 DEF NodesTyped

LEMMA KeptNodes ==
  ASSUME UnitInv, UNCHANGED nodes
  PROVE  Kept /\ NodesTyped' /\ NodesInv' /\ NodeId' = NodeId
  <1>1. NodeId' = NodeId
    BY DEF NodeId
  <1>2. Kept
    BY TypedNodes DEF Kept
  <1>3. NodesTyped'
    BY <1>1, TypedNodes DEF NodesTyped
  <1>4. NodesInv'
    BY <1>1 DEF UnitInv, NodesInv, BuiltinsInv, IdsInv, NamesInv, UniqueInv, Complete
  <1> QED BY <1>1, <1>2, <1>3, <1>4

\* What was given stays what it was.
LEMMA KeptAnswers ==
  ASSUME UnitInv, Kept, UNCHANGED <<answers, finished>>
  PROVE  /\ AnswersInv' /\ FinishedInv'
         /\ NodeId \subseteq NodeId'
         /\ \A x \in answers' : x.asked \in LookupRecord /\ x.node \in NodeId'
         /\ finished' \subseteq given'
  <1>1. NodeId \subseteq NodeId'
    BY DEF Kept, NodeId
  <1>2. \A x \in answers : x.asked \in LookupRecord /\ x.node \in NodeId
    BY DEF UnitInv, TypeOK
  <1>3. AnswersInv'
    BY <1>2 DEF UnitInv, AnswersInv, Fits, Kept
  <1>4. finished \subseteq NodeId /\ finished \subseteq given
    BY TypedNodes DEF UnitInv, TypeOK
  <1>5. FinishedInv'
    BY <1>4 DEF UnitInv, FinishedInv, Complete, Kept
  <1>6. given' = given
    BY DEF given
  <1> QED BY <1>1, <1>2, <1>3, <1>4, <1>5, <1>6

LEMMA AppendedNode ==
  ASSUME UnitInv, NEW r \in NodeRecord, nodes' = Append(nodes, r)
  PROVE  /\ nodes' \in Seq(NodeRecord) /\ Len(nodes') = Len(nodes) + 1
         /\ nodes'[Len(nodes) + 1] = r /\ \A n \in NodeId : nodes'[n] = nodes[n]
         /\ NodeId' = NodeId \cup {Len(nodes) + 1} /\ Len(nodes) + 1 \notin NodeId
  BY AppendProperties, TypedNodes DEF NodesTyped, NodeId

LEMMA ConstrainedNode ==
  ASSUME UnitInv, NEW m \in NodeId, NEW c \in Nat, nodes' = [nodes EXCEPT ![m].constraint = c]
  PROVE  /\ nodes' \in Seq(NodeRecord) /\ NodeId' = NodeId
         /\ \A n \in NodeId :
              /\ nodes'[n].kind = nodes[n].kind /\ nodes'[n].args = nodes[n].args
              /\ nodes'[n].id = nodes[n].id
              /\ nodes'[n].constraint = IF n = m THEN c ELSE nodes[n].constraint
  <1> DEFINE r == [nodes[m] EXCEPT !.constraint = c]
  <1>1. nodes \in Seq(NodeRecord) /\ nodes[m] \in NodeRecord
    BY TypedNodes DEF NodesTyped
  <1>2. /\ r \in NodeRecord /\ r.kind = nodes[m].kind /\ r.args = nodes[m].args
        /\ r.id = nodes[m].id /\ r.constraint = c
    BY <1>1 DEF NodeRecord
  <1>3. nodes' = [nodes EXCEPT ![m] = r]
    OBVIOUS
  <1> HIDE DEF r
  <1>4. /\ nodes' \in Seq(NodeRecord) /\ Len(nodes') = Len(nodes)
        /\ \A n \in 1..Len(nodes) : nodes'[n] = IF n = m THEN r ELSE nodes[n]
    BY <1>1, <1>2, <1>3, ExceptSeq DEF NodeId
  <1> QED BY <1>2, <1>4 DEF NodeId

LEMMA IdentifiedNode ==
  ASSUME UnitInv, NEW m \in NodeId, NEW i \in Nat
  PROVE  LET s == [nodes EXCEPT ![m].id = i]
         IN  /\ s \in Seq(NodeRecord) /\ Len(s) = Len(nodes)
             /\ \A n \in NodeId :
                  /\ s[n].kind = nodes[n].kind /\ s[n].args = nodes[n].args
                  /\ s[n].constraint = nodes[n].constraint
                  /\ s[n].id = IF n = m THEN i ELSE nodes[n].id
  <1> DEFINE r == [nodes[m] EXCEPT !.id = i]
             s == [nodes EXCEPT ![m].id = i]
  <1>1. nodes \in Seq(NodeRecord) /\ nodes[m] \in NodeRecord
    BY TypedNodes DEF NodesTyped
  <1>2. /\ r \in NodeRecord /\ r.kind = nodes[m].kind /\ r.args = nodes[m].args
        /\ r.constraint = nodes[m].constraint /\ r.id = i
    BY <1>1 DEF NodeRecord
  <1>3. s = [nodes EXCEPT ![m] = r]
    OBVIOUS
  <1> HIDE DEF r, s
  <1>4. /\ s \in Seq(NodeRecord) /\ Len(s) = Len(nodes)
        /\ \A n \in 1..Len(nodes) : s[n] = IF n = m THEN r ELSE nodes[n]
    BY <1>1, <1>2, <1>3, ExceptSeq DEF NodeId
  <1>5. /\ s \in Seq(NodeRecord) /\ Len(s) = Len(nodes)
        /\ \A n \in NodeId :
             /\ s[n].kind = nodes[n].kind /\ s[n].args = nodes[n].args
             /\ s[n].constraint = nodes[n].constraint
             /\ s[n].id = IF n = m THEN i ELSE nodes[n].id
    BY <1>2, <1>4 DEF NodeId
  <1> QED BY <1>5 DEF s

-----------------------------------------------------------------------------
(***************************************************************************)
(* The steps of a call.                                                     *)
(***************************************************************************)
LEMMA NoLookupTyped == NoLookup \in LookupRecord
  BY EmptySeq DEF NoLookup, Lookup, LookupRecord

LEMMA Tuples ==
  /\ <<>> \in Seq(Nat)
  /\ \A i \in Nat : <<i>> \in Seq(Nat)
  /\ \A i, j \in Nat : <<i, j>> \in Seq(Nat)
  /\ \A i, j, k \in Nat : <<i, j, k>> \in Seq(Nat)
  /\ \A i, j, k, l \in Nat : <<i, j, k, l>> \in Seq(Nat)
  BY EmptySeq

LEMMA OperandsProper ==
  ASSUME UnitInv, NEW k \in work.kinds, NEW a \in Operands(k)
  PROVE  Lookup(k, a) \in LookupRecord /\ Proper(Lookup(k, a))
  <1>1. k \in RequestKinds /\ k \in NodeKinds
    BY WorkloadAssumption DEF UnitInv, TypeOK, RequestKinds
  <1>2. /\ given \subseteq NodeId /\ NodeId \subseteq Nat
        /\ \A n \in Types : nodes[n].kind \in TypeKinds \cup {"Udt"}
        /\ \A n \in Held({"String"}) : nodes[n].kind = "String"
        /\ \A K : Held(K) \subseteq given
    BY TypedNodes DEF Types, Held
  <1>3. Types \subseteq given /\ Exprs \subseteq given /\ Linkages \subseteq given
    BY <1>2 DEF Types, Exprs, Linkages
  <1>4. \A S, T \in SUBSET Nat : \A p \in Pairs(S, T) : p \in Seq(Nat)
    <2> SUFFICES ASSUME NEW S \in SUBSET Nat, NEW T \in SUBSET Nat, NEW p \in Pairs(S, T)
                 PROVE  p \in Seq(Nat)
      OBVIOUS
    <2>1. PICK i \in S, j \in T : p = <<i, j>>
      BY DEF Pairs
    <2> QED BY <2>1, Tuples
  <1> DEFINE SomeTypes == {"Conversion", "Ctor_name", "Dtor_name", "Type_id", "Type_sizeof",
                           "Type_typeid", "Pointer", "Reference", "Rvalue_reference"}
             Two == {"Scope_ref", "Binary", "Array", "As_type", "Ptr_to_member", "Qualified",
                     "Template", "Literal", "Template_id"}
  <1>5. a \in Seq(Nat)
    <2>1. CASE k = "String"
      BY <2>1, OperandAssumption DEF Operands
    <2>2. CASE k \in {"Identifier", "Operator", "Linkage", "Decltype", "Unary"} \cup SomeTypes
      <3>1. \E i \in given : a = <<i>>
        <4>1. CASE k \in {"Identifier", "Operator", "Linkage"}
          BY <1>2, <4>1 DEF Operands
        <4>2. CASE k \in SomeTypes
          BY <1>3, <4>2 DEF Operands
        <4>3. CASE k \in {"Decltype", "Unary"}
          BY <1>3, <4>3 DEF Operands
        <4> QED BY <2>2, <4>1, <4>2, <4>3
      <3> QED BY <1>2, <3>1, Tuples
    <2>3. CASE k \in Two
      <3>1. \E S, T \in SUBSET Nat : a \in Pairs(S, T)
        BY <1>2, <1>3, <2>3, OperandAssumption DEF Operands
      <3> QED BY <1>4, <3>1
    <2>4. CASE k = "Rname"
      <3>1. \E t \in given, l, p \in {0, 1} : a = <<t, l, p>>
        BY <1>3, <2>4 DEF Operands
      <3> QED BY <1>2, <3>1, Tuples
    <2>5. CASE k = "Function"
      <3>1. \E p, t, s, l \in given : a = <<p, t, s, l>>
        BY <1>2, <1>3, <2>5 DEF Operands
      <3>2. \A n \in given : n \in Nat
        BY <1>2
      <3> QED BY <3>1, <3>2, Tuples
    <2>6. CASE k \in {"Product", "Sum"}
      <3>1. a \in {<<>>} \cup {<<t>> : t \in Types} \cup Pairs(Types, Types)
        BY <2>6 DEF Operands
      <3>2. Types \in SUBSET Nat
        BY <1>2, <1>3
      <3>3. a \in Pairs(Types, Types) => a \in Seq(Nat)
        BY <1>4, <3>2
      <3>4. (\E t \in Types : a = <<t>>) => a \in Seq(Nat)
        BY <3>2, Tuples
      <3> QED BY <3>1, <3>3, <3>4, Tuples
    <2>7. CASE k \notin {"String", "Identifier", "Operator", "Linkage", "Decltype", "Unary", "Rname",
                         "Function", "Product", "Sum"} \cup SomeTypes \cup Two
      <3>1. a \in {<<>>}
        BY <2>7 DEF Operands
      <3> QED BY <3>1, Tuples
    <2> QED BY <2>1, <2>2, <2>3, <2>4, <2>5, <2>6, <2>7
  <1>6. k \in ByIdentity \ {"Decltype"} => a[1] \in NodeId /\ nodes[a[1]].kind # k
    <2>1. CASE k \in {"Operator", "Linkage"}
      BY <1>2, <2>1 DEF Operands
    <2>2. CASE k \in {"Conversion", "Ctor_name", "Dtor_name", "Type_id"}
      <3>1. PICK t \in Types : a = <<t>>
        BY <2>2 DEF Operands
      <3>2. t \in NodeId /\ nodes[t].kind \in TypeKinds \cup {"Udt"}
        BY <1>2, <1>3, <3>1
      <3>3. k \notin TypeKinds \cup {"Udt"}
        BY <2>2 DEF TypeKinds, FinishedTypes
      <3> QED BY <3>1, <3>2, <3>3
    <2> QED BY <2>1, <2>2 DEF ByIdentity
  <1>7. Lookup(k, a) \in LookupRecord
    BY <1>1, <1>5 DEF Lookup, LookupRecord
  <1> QED BY <1>1, <1>6, <1>7 DEF Proper, Lookup

LEMMA BeginStep ==
  ASSUME UnitInv, NEW first \in LookupRecord, NEW rest \in LookupRecord, NEW plain \in BOOLEAN,
         Begin(first, rest, plain), Proper(first),
         rest # NoLookup =>
           \/ first.kind = "String" /\ rest.kind \in {"Operator", "Linkage"} /\ rest.args = << 0 >>
           \/ first.kind \in {"String", "Sum"} /\ rest.kind \in {"Identifier", "Literal", "Function"}
  PROVE  UnitInv' /\ Kept
  <1>1. /\ raw' = plain /\ pc' = "find" /\ call' = first /\ pending' = rest /\ target' = 0
        /\ outer' = 0 /\ UNCHANGED <<work, nodes, answers, finished, failures>>
        /\ asked' = IF rest = NoLookup THEN first ELSE rest
    BY DEF Begin
  <1>2. Kept /\ NodesTyped' /\ NodesInv' /\ NodeId' = NodeId
    BY <1>1, KeptNodes
  <1>3. /\ AnswersInv' /\ FinishedInv'
        /\ \A x \in answers' : x.asked \in LookupRecord /\ x.node \in NodeId'
        /\ finished' \subseteq given'
    BY <1>1, <1>2, KeptAnswers
  <1>4. TypeOK'
    BY <1>1, <1>2, <1>3 DEF UnitInv, TypeOK, NodesTyped, NodeRecord
  <1>5. Proper(first)'
    BY <1>1, <1>2 DEF Proper
  <1>6. CallInv'
    BY <1>1, <1>5 DEF CallInv, PendingInv, FindInv, OuterInv, TargetInv, StageInv, Proper
  <1> QED BY <1>2, <1>3, <1>4, <1>6 DEF UnitInv

LEMMA RequestStep ==
  ASSUME UnitInv, Get \/ GetPlain \/ GetByText \/ GetFunction
  PROVE  UnitInv' /\ Kept
  <1>1. CASE Get
    BY <1>1, OperandsProper, BeginStep, NoLookupTyped DEF Get
  <1>2. CASE GetPlain
    BY <1>2, OperandsProper, BeginStep, NoLookupTyped DEF GetPlain
  <1>3. CASE GetByText
    <2>1. PICK c \in Contents, rest \in LookupRecord :
            /\ Begin(Lookup("String", c), rest, FALSE)
            /\ \/ rest.kind \in {"Operator", "Linkage"} /\ rest.args = <<0>>
               \/ rest.kind \in {"Identifier", "Literal"}
      <3>1. PICK c \in Contents :
              \/ \E k \in work.kinds \cap {"Identifier", "Operator", "Linkage"} :
                   Begin(Lookup("String", c), Lookup(k, <<0>>), FALSE)
              \/ \E t \in Types : Begin(Lookup("String", c), Lookup("Literal", <<t, 0>>), FALSE)
        BY <1>3 DEF GetByText
      <3>2. \A k \in {"Identifier", "Operator", "Linkage"} :
              Lookup(k, <<0>>) \in LookupRecord
              /\ Lookup(k, <<0>>).kind = k /\ Lookup(k, <<0>>).args = <<0>>
        BY DEF Lookup, LookupRecord, NodeKinds, TypedNames, ByIdentity
      <3>3. \A t \in Types : Lookup("Literal", <<t, 0>>) \in LookupRecord
                             /\ Lookup("Literal", <<t, 0>>).kind = "Literal"
        <4>1. \A t \in Types : t \in Nat
          BY TypedNodes DEF Types, Held
        <4> QED BY <4>1 DEF Lookup, LookupRecord, NodeKinds
      <3> QED BY <3>1, <3>2, <3>3
    <2>2. Lookup("String", c) \in LookupRecord /\ Proper(Lookup("String", c))
          /\ Lookup("String", c).kind = "String"
      BY OperandAssumption DEF Lookup, LookupRecord, NodeKinds, Proper, RequestKinds, ByIdentity
    <2> QED BY <2>1, <2>2, BeginStep
  <1>4. CASE GetFunction
    <2>1. PICK p \in given, t \in given, l \in given :
            Begin(Lookup("Sum", <<EllipsisType>>), Lookup("Function", <<p, t, 0, l>>), FALSE)
      BY <1>4 DEF GetFunction, Types, Linkages, Held
    <2>2. Lookup("Function", <<p, t, 0, l>>) \in LookupRecord
          /\ Lookup("Function", <<p, t, 0, l>>).kind = "Function"
      <3>1. p \in Nat /\ t \in Nat /\ l \in Nat
        BY TypedNodes
      <3> QED BY <3>1 DEF Lookup, LookupRecord, NodeKinds, TypeKinds, FinishedTypes
    <2>3. Lookup("Sum", <<EllipsisType>>) \in LookupRecord /\ Proper(Lookup("Sum", <<EllipsisType>>))
          /\ Lookup("Sum", <<EllipsisType>>).kind = "Sum"
      BY DEF EllipsisType, Lookup, LookupRecord, NodeKinds, TypeKinds, FinishedTypes, Proper,
             RequestKinds, ByIdentity
    <2> QED BY <2>1, <2>2, <2>3, BeginStep
  <1> QED BY <1>1, <1>2, <1>3, <1>4

\* A call that ends, with or without an answer, leaves nothing behind but nodes.
LEMMA IdleCall ==
  ASSUME UnitInv, Idle
  PROVE  /\ CallInv' /\ pc' = "idle" /\ raw' \in BOOLEAN /\ target' = 0 /\ outer' = 0
         /\ call' \in LookupRecord /\ asked' \in LookupRecord /\ pending' \in LookupRecord
  <1>1. /\ pc' = "idle" /\ raw' \in BOOLEAN /\ target' = 0 /\ outer' = 0
        /\ call' \in LookupRecord /\ asked' \in LookupRecord /\ pending' \in LookupRecord
    BY NoLookupTyped DEF Idle
  <1> QED BY <1>1 DEF CallInv, PendingInv, FindInv, OuterInv, TargetInv, StageInv

LEMMA AbandonStep ==
  ASSUME UnitInv, RejectQualified \/ BadAlloc
  PROVE  UnitInv' /\ Kept
  <1>1. Idle /\ UNCHANGED <<work, nodes, answers, finished>> /\ failures' \in 0..work.failures
    <2>1. work.failures \in Nat /\ failures \in 0..work.failures
      BY WorkloadAssumption DEF UnitInv, TypeOK
    <2> QED BY <2>1 DEF RejectQualified, BadAlloc
  <1>2. Kept /\ NodesTyped' /\ NodesInv' /\ NodeId' = NodeId
    BY <1>1, KeptNodes
  <1>3. /\ AnswersInv' /\ FinishedInv'
        /\ \A x \in answers' : x.asked \in LookupRecord /\ x.node \in NodeId'
        /\ finished' \subseteq given'
    BY <1>1, <1>2, KeptAnswers
  <1>4. TypeOK'
    BY <1>1, <1>2, <1>3, IdleCall DEF UnitInv, TypeOK, NodesTyped, NodeRecord
  <1> QED BY <1>1, <1>2, <1>3, <1>4, IdleCall DEF UnitInv

\* A lookup ends at a node of its kind and operands, by operands or by identity.
LEMMA Matched ==
  ASSUME UnitInv, pc = "find", NEW n \in Matches(call.kind, call.args)
  PROVE  /\ n \in NodeId /\ Fits(n, call) /\ nodes[n].kind \in NodeKinds \ {"Builtin"}
         /\ outer = 0
  <1>1. Proper(call) /\ call \in LookupRecord /\ NodesInv
        /\ (outer # 0 => call = Lookup("Decltype", <<outer>>) /\ nodes[outer].kind \in TypedNames)
    BY DEF UnitInv, CallInv, FindInv, OuterInv, TypeOK
  <1>2. call.args \in Seq(Nat)
    BY <1>1 DEF LookupRecord
  <1>3. CASE n \in Preset(call.kind, call.args)
    <2>1. call.kind = "Linkage" /\ n \in {CxxLinkage, CLinkage} /\ nodes[n].args = call.args
      BY <1>3 DEF Preset
    <2>2. n \in NodeId
      BY <2>1, TypedNodes DEF NodeId, CxxLinkage, CLinkage
    <2>3. nodes[n].kind \in {"Cxx_linkage", "C_linkage"}
      BY <1>1, <2>1 DEF NodesInv, BuiltinsInv
    <2>4. outer = 0
      BY <1>1, <2>1 DEF Lookup
    <2> QED BY <2>1, <2>2, <2>3, <2>4 DEF Fits, NodeKinds
  <1>4. CASE n \in Table(call.kind) /\ Ordering(call.kind, call.args, n) = 0
    <2>1. n \in NodeId /\ nodes[n].kind = call.kind /\ nodes[n].args \in Seq(Nat)
      BY <1>4, TypedNodes DEF Table, NodesTyped, NodeId
    <2>2. call.kind \in NodeKinds \ {"Builtin"}
      BY <1>1 DEF Proper, RequestKinds
    <2>3. CASE call.kind \notin ByIdentity
      <3>1. Lexicographical(call.args, nodes[n].args) = 0
        BY <1>4, <2>3 DEF Ordering
      <3>2. call.args = nodes[n].args
        BY <1>2, <2>1, <3>1, LexicographicalOrders
      <3>3. outer = 0
        BY <1>1, <2>3 DEF Lookup, ByIdentity
      <3> QED BY <2>1, <2>2, <3>2, <3>3 DEF Fits
    <2>4. CASE call.kind \in ByIdentity
      <3>1. Sign(call.args[1] - n) = 0
        BY <1>4, <2>4 DEF Ordering
      <3>2. call.args[1] \in Nat => call.args[1] = n
        BY <2>1, <3>1, TypedNodes DEF Sign
      <3>3. call.kind = "Decltype"
        BY <1>1, <2>1, <2>4, <3>2, TypedNodes DEF Proper
      <3>4. outer = 0
        <4> SUFFICES ASSUME outer # 0 PROVE FALSE
          OBVIOUS
        <4>1. call.args = <<outer>> /\ outer \in Nat
          BY <1>1, TypedNodes DEF Lookup, UnitInv, TypeOK
        <4>2. outer = n
          BY <3>2, <4>1
        <4> QED BY <1>1, <2>1, <3>3, <4>2 DEF TypedNames
      <3> QED BY <2>1, <2>2, <3>3, <3>4 DEF Fits
    <2> QED BY <2>3, <2>4
  <1> QED BY <1>3, <1>4 DEF Matches

\* Where a call goes with its node.
LEMMA AfterMakeStage ==
  ASSUME NEW k \in NodeKinds \ {"Builtin"}, pc' = AfterMake(k), UNCHANGED raw,
         nodes'[target'].kind = k
  PROVE  StageInv' /\ pc' \in {"constrain", "type", "return"}
  <1>1. k \in TypeKinds => k \in FinishedTypes
    BY DEF TypeKinds
  <1>2. CASE k \in FinishedTypes
    BY <1>2 DEF AfterMake, StageInv
  <1>3. CASE k \in TypedNames /\ ~raw /\ k \notin FinishedTypes
    BY <1>3 DEF AfterMake, StageInv
  <1>4. CASE k \notin FinishedTypes /\ ~(k \in TypedNames /\ ~raw)
    BY <1>1, <1>4 DEF AfterMake, StageInv
  <1> QED BY <1>2, <1>3, <1>4

LEMMA FindStep ==
  ASSUME UnitInv, NEW n \in DOMAIN nodes, Find(n)
  PROVE  UnitInv' /\ Kept
  <1>1. /\ pc = "find" /\ n \in Matches(call.kind, call.args)
        /\ target' = n /\ pc' = AfterMake(nodes[n].kind)
        /\ UNCHANGED <<work, nodes, answers, finished, raw, call, asked, pending, outer, failures>>
    BY DEF Find
  <1>2. n \in NodeId /\ Fits(n, call) /\ nodes[n].kind \in NodeKinds \ {"Builtin"} /\ outer = 0
    BY <1>1, Matched
  <1>3. Kept /\ NodesTyped' /\ NodesInv' /\ NodeId' = NodeId
    BY <1>1, KeptNodes
  <1>4. /\ AnswersInv' /\ FinishedInv'
        /\ \A x \in answers' : x.asked \in LookupRecord /\ x.node \in NodeId'
        /\ finished' \subseteq given'
    BY <1>1, <1>3, KeptAnswers
  <1>5. StageInv' /\ pc' \in {"constrain", "type", "return"}
    BY <1>1, <1>2, AfterMakeStage
  <1>6. TypeOK'
    BY <1>1, <1>2, <1>3, <1>4, <1>5 DEF UnitInv, TypeOK, NodesTyped, NodeRecord
  <1>7. PendingInv' /\ FindInv' /\ OuterInv'
    BY <1>1, <1>2, <1>5 DEF UnitInv, CallInv, PendingInv, FindInv, OuterInv
  <1>8. TargetInv'
    <2>1. pending = NoLookup => asked = call
      BY <1>1, <1>2 DEF UnitInv, CallInv, FindInv
    <2> QED BY <1>1, <1>2, <2>1, TypedNodes DEF TargetInv, Fits
  <1> QED BY <1>3, <1>4, <1>5, <1>6, <1>7, <1>8 DEF UnitInv, CallInv

LEMMA MakeStep ==
  ASSUME UnitInv, Make
  PROVE  UnitInv' /\ Kept
  <1> DEFINE m == Len(nodes) + 1
             k == call.kind
             a == call.args
             r == MadeNode(k, a)
  <1>1. /\ pc = "find" /\ MayMiss(k, a) /\ nodes' = Append(nodes, r)
        /\ target' = m /\ pc' = AfterMake(k)
        /\ UNCHANGED <<work, answers, finished, raw, call, asked, pending, outer, failures>>
    BY DEF Make
  <1>2. Proper(call) /\ call \in LookupRecord /\ k \in NodeKinds \ {"Builtin"} /\ a \in Seq(Nat)
    BY <1>1 DEF UnitInv, CallInv, FindInv, TypeOK, Proper, RequestKinds, LookupRecord
  <1>3. /\ r \in NodeRecord /\ r.kind = k /\ r.args = a /\ r.id = 0
        /\ r.constraint \in {0, AnyType} /\ (k # "Udt" => r.constraint = 0)
    BY <1>2 DEF NodeRecord, MadeNode, FirstConstraint, AnyType
  <1>4. k \in NodeKinds /\ a \in Seq(Nat)
    BY <1>2
  <1> HIDE DEF r
  <1>5. /\ nodes' \in Seq(NodeRecord) /\ Len(nodes') = m /\ nodes'[m] = r
        /\ \A n \in NodeId : nodes'[n] = nodes[n]
        /\ NodeId' = NodeId \cup {m} /\ m \notin NodeId
    BY <1>1, <1>3, AppendedNode
  <1>6. /\ Len(nodes) \in Nat /\ Len(nodes) >= 14 /\ NodeId \subseteq Nat /\ 0 \notin NodeId
        /\ m # 0 /\ {CxxLinkage, CLinkage, AnyType} \subseteq NodeId
        /\ \A n \in NodeId :
              nodes[n].constraint \in NodeId \cup {0} /\ nodes[n].id \in NodeId \cup {0}
    BY TypedNodes DEF NodeId, CxxLinkage, CLinkage, AnyType
  <1>7. Kept
    <2>1. Len(nodes') \in Nat /\ Len(nodes) <= Len(nodes')
      BY <1>5, <1>6
    <2> QED BY <1>5, <1>6, <2>1 DEF Kept
  <1> HIDE DEF m
  <1>8. NodesTyped'
    BY <1>3, <1>5, <1>6 DEF NodesTyped
  <1>9. BuiltinsInv'
    <2>1. Len(nodes') >= 14
      BY <1>5, <1>6 DEF m
    <2> QED BY <1>5, <1>6, <2>1 DEF UnitInv, NodesInv, BuiltinsInv
  <1>10. IdsInv'
    <2> SUFFICES ASSUME NEW n \in NodeId', nodes'[n].id # 0,
                        nodes'[nodes'[n].id].kind = "Type_id"
                 PROVE  nodes'[nodes'[n].id].args = <<n>>
      BY DEF IdsInv
    <2>1. n \in NodeId /\ nodes'[n] = nodes[n]
      BY <1>3, <1>5
    <2>2. nodes[n].id \in NodeId /\ nodes'[nodes[n].id] = nodes[nodes[n].id]
      BY <1>5, <1>6, <2>1
    <2> QED BY <2>1, <2>2 DEF UnitInv, NodesInv, IdsInv
  <1>11. NamesInv'
    <2>1. k \in TypedNames => k # "Udt"
      BY DEF TypedNames
    <2> SUFFICES ASSUME NEW n \in NodeId', nodes'[n].kind \in TypedNames, nodes'[n].constraint # 0
                 PROVE  LET d == nodes'[n].constraint
                        IN  /\ nodes'[d].kind = "Decltype" /\ nodes'[d].args = <<n>>
                            /\ nodes'[d].constraint # 0 /\ nodes'[d].id # 0
      BY DEF NamesInv, Complete
    <2>2. n \in NodeId /\ nodes'[n] = nodes[n]
      BY <1>3, <1>5, <2>1
    <2>3. nodes[n].constraint \in NodeId
          /\ nodes'[nodes[n].constraint] = nodes[nodes[n].constraint]
      BY <1>5, <1>6, <2>2
    <2> QED BY <2>2, <2>3 DEF UnitInv, NodesInv, NamesInv, Complete
  <1>12. UniqueInv'
    <2>1. ASSUME NEW n \in NodeId, nodes[n].kind = k, nodes[n].args = a,
                 k \notin Unshared \cup ByIdentity
          PROVE  FALSE
      <3>1. Matches(k, a) = {}
        BY <1>1, <2>1 DEF MayMiss
      <3>2. n \in Table(k)
        BY <2>1, TypedNodes DEF Table, NodesTyped, NodeId
      <3>3. Ordering(k, a, n) = 0
        BY <1>4, <2>1, LexicographicalOrders DEF Ordering
      <3> QED BY <3>1, <3>2, <3>3 DEF Matches
    <2> QED BY <1>3, <1>5, <2>1 DEF UnitInv, NodesInv, UniqueInv
  <1>13. /\ AnswersInv' /\ FinishedInv'
         /\ \A x \in answers' : x.asked \in LookupRecord /\ x.node \in NodeId'
         /\ finished' \subseteq given'
    BY <1>1, <1>7, KeptAnswers
  <1>14. StageInv' /\ pc' \in {"constrain", "type", "return"}
    BY <1>1, <1>2, <1>3, <1>5, AfterMakeStage
  <1>15. TypeOK'
    BY <1>1, <1>5, <1>8, <1>13, <1>14 DEF UnitInv, TypeOK, NodesTyped, NodeRecord
  <1>16. outer # 0 => outer \in NodeId
    BY DEF UnitInv, TypeOK
  <1>17. PendingInv' /\ FindInv' /\ OuterInv'
    BY <1>1, <1>5, <1>14, <1>16 DEF UnitInv, CallInv, PendingInv, FindInv, OuterInv, Fits
  <1>18. TargetInv'
    <2>1. outer = 0 /\ pending = NoLookup => asked = call
      BY <1>1 DEF UnitInv, CallInv, FindInv
    <2>2. outer # 0 => k = "Decltype" /\ a = <<outer>>
      BY <1>1 DEF UnitInv, CallInv, FindInv, Lookup
    <2> QED BY <1>1, <1>3, <1>5, <1>6, <2>1, <2>2 DEF TargetInv, Fits
  <1> QED BY <1>7, <1>8, <1>9, <1>10, <1>11, <1>12, <1>13, <1>14, <1>15, <1>17, <1>18
          DEF UnitInv, NodesInv, CallInv

\* A constraint is set where there was none.
LEMMA SetConstraint ==
  ASSUME UnitInv, NEW m \in NodeId, NEW c \in NodeId,
         nodes[m].constraint = 0, nodes' = [nodes EXCEPT ![m].constraint = c],
         nodes[m].kind \in TypedNames =>
           nodes[c].kind = "Decltype" /\ nodes[c].args = <<m>> /\ Complete(c)
  PROVE  /\ Kept /\ NodesTyped' /\ NodesInv' /\ NodeId' = NodeId
         /\ \A n \in NodeId :
              /\ nodes'[n].id = nodes[n].id
              /\ nodes'[n].constraint = IF n = m THEN c ELSE nodes[n].constraint
  <1>1. c \in Nat /\ c # 0 /\ 0 \notin NodeId /\ Len(nodes) \in Nat /\ Len(nodes) >= 14
        /\ {CxxLinkage, CLinkage} \subseteq NodeId
    BY TypedNodes DEF NodeId, CxxLinkage, CLinkage
  <1>2. /\ nodes' \in Seq(NodeRecord) /\ NodeId' = NodeId
        /\ \A n \in NodeId :
             /\ nodes'[n].kind = nodes[n].kind /\ nodes'[n].args = nodes[n].args
             /\ nodes'[n].id = nodes[n].id
             /\ nodes'[n].constraint = IF n = m THEN c ELSE nodes[n].constraint
    BY <1>1, ConstrainedNode
  <1>3. Len(nodes') = Len(nodes)
    <2>1. Len(nodes') \in Nat /\ 1..Len(nodes') = 1..Len(nodes)
      BY <1>2 DEF NodeId
    <2> QED BY <1>1, <2>1
  <1>4. Kept
    BY <1>1, <1>2, <1>3 DEF Kept
  <1>5. \A n \in NodeId : nodes[n].constraint \in NodeId \cup {0} /\ nodes[n].id \in NodeId \cup {0}
    BY TypedNodes
  <1>6. NodesTyped'
    BY <1>2, <1>5 DEF NodesTyped
  <1>7. BuiltinsInv'
    BY <1>1, <1>2, <1>3 DEF UnitInv, NodesInv, BuiltinsInv
  <1>8. IdsInv'
    <2> SUFFICES ASSUME NEW n \in NodeId, nodes[n].id # 0, nodes'[nodes[n].id].kind = "Type_id"
                 PROVE  nodes'[nodes[n].id].args = <<n>>
      BY <1>2 DEF IdsInv
    <2>1. nodes[n].id \in NodeId
      BY <1>5
    <2> QED BY <1>2, <2>1 DEF UnitInv, NodesInv, IdsInv
  <1>9. UniqueInv'
    BY <1>2 DEF UnitInv, NodesInv, UniqueInv
  <1>10. NamesInv'
    <2> SUFFICES ASSUME NEW n \in NodeId, nodes[n].kind \in TypedNames, nodes'[n].constraint # 0
                 PROVE  LET d == nodes'[n].constraint
                        IN  /\ nodes'[d].kind = "Decltype" /\ nodes'[d].args = <<n>>
                            /\ nodes'[d].constraint # 0 /\ nodes'[d].id # 0
      BY <1>2 DEF NamesInv, Complete
    <2>1. PICK d \in NodeId : d = nodes'[n].constraint
      BY <1>2, <1>5
    <2>2. nodes[d].kind = "Decltype" /\ nodes[d].args = <<n>> /\ Complete(d)
      <3>1. CASE n = m
        BY <1>2, <2>1, <3>1
      <3>2. CASE n # m
        <4>1. d = nodes[n].constraint /\ nodes[n].constraint # 0
          BY <1>1, <1>2, <2>1, <3>2
        <4> QED BY <4>1 DEF UnitInv, NodesInv, NamesInv
      <3> QED BY <3>1, <3>2
    <2> QED BY <1>1, <1>2, <2>1, <2>2 DEF Complete
  <1> QED BY <1>2, <1>4, <1>6, <1>7, <1>8, <1>9, <1>10 DEF NodesInv

\* What is known of the node that a call is at.
LEMMA AtTarget ==
  ASSUME UnitInv, pc \notin {"idle", "find"}
  PROVE  /\ target \in NodeId
         /\ outer # 0 => /\ outer \in NodeId /\ outer # target /\ nodes[outer].kind \in TypedNames
                         /\ nodes[outer].constraint = 0 /\ pending = NoLookup
                         /\ nodes[target].kind = "Decltype" /\ nodes[target].args = <<outer>>
  <1>1. target \in NodeId /\ (outer # 0 => outer \in NodeId)
    BY DEF UnitInv, TypeOK, CallInv, TargetInv
  <1>2. "Decltype" \notin TypedNames
    BY DEF TypedNames
  <1> QED BY <1>1, <1>2 DEF UnitInv, CallInv, TargetInv, OuterInv, PendingInv

\* Steps that finish the target further.
LEMMA FinishingStep ==
  ASSUME UnitInv, pc \in {"constrain", "name", "type"}, pc' \in {"name", "return"},
         Kept, NodesTyped', NodesInv', StageInv',
         UNCHANGED <<work, answers, finished, raw, call, asked, pending, target, outer, failures>>,
         outer # 0 => nodes'[outer].constraint = 0
  PROVE  UnitInv'
  <1>1. target \in NodeId /\ (outer # 0 => outer \in NodeId)
    BY AtTarget
  <1>2. NodeId \subseteq NodeId'
    BY DEF Kept, NodeId
  <1>3. /\ AnswersInv' /\ FinishedInv'
        /\ \A x \in answers' : x.asked \in LookupRecord /\ x.node \in NodeId'
        /\ finished' \subseteq given'
    BY KeptAnswers
  <1>4. TypeOK'
    BY <1>1, <1>2, <1>3 DEF UnitInv, TypeOK, NodesTyped, NodeRecord
  <1>5. PendingInv' /\ FindInv'
    BY DEF UnitInv, CallInv, PendingInv, FindInv
  <1>6. OuterInv'
    BY <1>1 DEF UnitInv, CallInv, OuterInv, Kept, Fits
  <1>7. TargetInv'
    BY <1>1 DEF UnitInv, CallInv, TargetInv, Kept, Fits
  <1> QED BY <1>3, <1>4, <1>5, <1>6, <1>7 DEF UnitInv, CallInv

LEMMA ConstrainStep ==
  ASSUME UnitInv, Constrain
  PROVE  UnitInv' /\ Kept
  <1>1. /\ pc = "constrain" /\ pc' = "name"
        /\ nodes' = IF nodes[target].constraint = 0
                    THEN [nodes EXCEPT ![target].constraint = AnyType] ELSE nodes
        /\ UNCHANGED <<work, answers, finished, raw, call, asked, pending, target, outer, failures>>
    BY DEF Constrain
  <1>2. target \in NodeId /\ (outer # 0 => outer \in NodeId /\ outer # target)
        /\ nodes[target].kind \in FinishedTypes /\ (outer # 0 => nodes[outer].constraint = 0)
    BY <1>1, AtTarget DEF UnitInv, CallInv, StageInv
  <1>3. /\ Kept /\ NodesTyped' /\ NodesInv' /\ nodes'[target].constraint # 0
        /\ outer # 0 => nodes'[outer].constraint = 0
    <2>1. CASE nodes[target].constraint = 0
      <3>1. AnyType \in NodeId /\ AnyType # 0
        BY TypedNodes DEF NodeId, AnyType
      <3>2. nodes[target].kind \in TypedNames =>
              nodes[AnyType].kind = "Decltype" /\ nodes[AnyType].args = <<target>> /\ Complete(AnyType)
        BY <1>2 DEF FinishedTypes, TypedNames
      <3>3. nodes' = [nodes EXCEPT ![target].constraint = AnyType]
        BY <1>1, <2>1
      <3>4. /\ Kept /\ NodesTyped' /\ NodesInv' /\ NodeId' = NodeId
            /\ \A n \in NodeId :
                 /\ nodes'[n].id = nodes[n].id
                 /\ nodes'[n].constraint = IF n = target THEN AnyType ELSE nodes[n].constraint
        BY <1>2, <2>1, <3>1, <3>2, <3>3, SetConstraint, Zenon
      <3>5. nodes'[target].constraint # 0
        BY <1>2, <3>1, <3>4
      <3>6. outer # 0 => nodes'[outer].constraint = 0
        BY <1>2, <3>4
      <3> QED BY <3>4, <3>5, <3>6
    <2>2. CASE nodes[target].constraint # 0
      BY <1>1, <1>2, <2>2, KeptNodes
    <2> QED BY <2>1, <2>2
  <1>4. StageInv'
    BY <1>1, <1>2, <1>3 DEF StageInv, Kept
  <1> QED BY <1>1, <1>3, <1>4, FinishingStep

LEMMA NameStep ==
  ASSUME UnitInv, Name
  PROVE  UnitInv' /\ Kept
  <1> DEFINE m == Len(nodes) + 1
             s == [nodes EXCEPT ![target].id = m]
             r == MadeNode("Type_id", <<target>>)
  <1>1. /\ pc = "name" /\ pc' = "return"
        /\ \/ nodes[target].id # 0 /\ UNCHANGED nodes
           \/ nodes[target].id = 0 /\ nodes' = Append(s, r)
        /\ UNCHANGED <<work, answers, finished, raw, call, asked, pending, target, outer, failures>>
    BY DEF Name
  <1>2. target \in NodeId /\ (outer # 0 => outer \in NodeId /\ outer # target)
        /\ nodes[target].kind \in FinishedTypes /\ nodes[target].constraint # 0
        /\ (outer # 0 => nodes[outer].constraint = 0)
    BY <1>1, AtTarget DEF UnitInv, CallInv, StageInv
  <1>3. /\ Kept /\ NodesTyped' /\ NodesInv' /\ nodes'[target].id # 0
        /\ \A n \in NodeId : nodes'[n].constraint = nodes[n].constraint
    <2>1. CASE nodes[target].id # 0 /\ UNCHANGED nodes
      BY <2>1, KeptNodes
    <2>2. CASE nodes[target].id = 0 /\ nodes' = Append(s, r)
      <3>1. /\ Len(nodes) \in Nat /\ Len(nodes) >= 14 /\ NodeId \subseteq Nat /\ 0 \notin NodeId
            /\ m \in Nat /\ m # 0 /\ {CxxLinkage, CLinkage} \subseteq NodeId
            /\ \A n \in NodeId :
                  nodes[n].constraint \in NodeId \cup {0} /\ nodes[n].id \in NodeId \cup {0}
        BY TypedNodes DEF NodeId, CxxLinkage, CLinkage
      <3>2. /\ s \in Seq(NodeRecord) /\ Len(s) = Len(nodes)
            /\ \A n \in NodeId :
                 /\ s[n].kind = nodes[n].kind /\ s[n].args = nodes[n].args
                 /\ s[n].constraint = nodes[n].constraint
                 /\ s[n].id = IF n = target THEN m ELSE nodes[n].id
        <4>1. target \in NodeId /\ m \in Nat
          BY <1>2, <3>1
        <4> HIDE DEF m
        <4> QED BY <4>1, IdentifiedNode
      <3>3. r \in NodeRecord /\ r.kind = "Type_id" /\ r.args = <<target>> /\ r.constraint = 0 /\ r.id = 0
        <4>1. <<target>> \in Seq(Nat)
          BY <1>2, <3>1, Tuples
        <4> QED BY <4>1 DEF MadeNode, NodeRecord, FirstConstraint, NodeKinds, ByIdentity
      <3> HIDE DEF s, r
      <3>4. /\ nodes' \in Seq(NodeRecord) /\ Len(nodes') = m /\ nodes'[m] = r
            /\ \A n \in NodeId : nodes'[n] = s[n]
            /\ NodeId' = NodeId \cup {m} /\ m \notin NodeId
        BY <2>2, <3>1, <3>2, <3>3, AppendProperties DEF NodeId
      <3>5. Len(nodes') \in Nat /\ Len(nodes) <= Len(nodes') /\ Len(nodes') >= 14
        BY <3>1, <3>4
      <3> HIDE DEF m
      <3>6. \A n \in NodeId :
               /\ nodes'[n].kind = nodes[n].kind /\ nodes'[n].args = nodes[n].args
               /\ nodes'[n].constraint = nodes[n].constraint
               /\ nodes'[n].id = IF n = target THEN m ELSE nodes[n].id
        BY <3>2, <3>4
      <3>7. Kept
        BY <2>2, <3>1, <3>5, <3>6 DEF Kept
      <3>8. NodesTyped'
        BY <3>1, <3>2, <3>3, <3>4 DEF NodesTyped
      <3>9. BuiltinsInv'
        BY <3>1, <3>2, <3>4, <3>5 DEF UnitInv, NodesInv, BuiltinsInv
      <3>10. IdsInv'
        <4> SUFFICES ASSUME NEW n \in NodeId', nodes'[n].id # 0,
                            nodes'[nodes'[n].id].kind = "Type_id"
                     PROVE  nodes'[nodes'[n].id].args = <<n>>
          BY DEF IdsInv
        <4>1. CASE n = target
          BY <1>2, <3>2, <3>3, <3>4, <4>1
        <4>2. CASE n # target
          <5>1. n \in NodeId /\ nodes'[n].id = nodes[n].id /\ nodes[n].id \in NodeId
            BY <3>1, <3>2, <3>3, <3>4, <4>2
          <5>2. PICK j \in NodeId : j = nodes[n].id
            BY <5>1
          <5>3. nodes[j].kind = "Type_id" /\ nodes[n].id # 0
            BY <3>6, <5>1, <5>2
          <5>4. nodes[j].args = <<n>>
            BY <5>1, <5>2, <5>3 DEF UnitInv, NodesInv, IdsInv
          <5> QED BY <3>6, <5>1, <5>2, <5>4
        <4> QED BY <4>1, <4>2
      <3>11. NamesInv'
        <4> SUFFICES ASSUME NEW n \in NodeId', nodes'[n].kind \in TypedNames,
                            nodes'[n].constraint # 0
                     PROVE  LET d == nodes'[n].constraint
                            IN  /\ nodes'[d].kind = "Decltype" /\ nodes'[d].args = <<n>>
                                /\ nodes'[d].constraint # 0 /\ nodes'[d].id # 0
          BY DEF NamesInv, Complete
        <4>1. n \in NodeId
          BY <3>3, <3>4
        <4>2. PICK d \in NodeId : d = nodes'[n].constraint /\ d = nodes[n].constraint
          BY <3>1, <3>6, <4>1
        <4>3. nodes[n].kind \in TypedNames /\ nodes[n].constraint # 0
          BY <3>6, <4>1
        <4>4. nodes[d].kind = "Decltype" /\ nodes[d].args = <<n>> /\ Complete(d)
          BY <4>1, <4>2, <4>3 DEF UnitInv, NodesInv, NamesInv
        <4>5. m # 0
          BY <3>1 DEF m
        <4>6. nodes'[d].constraint # 0 /\ nodes'[d].id # 0
          BY <3>6, <4>4, <4>5 DEF Complete
        <4> QED BY <3>6, <4>2, <4>4, <4>6
      <3>12. UniqueInv'
        <4>1. "Type_id" \in ByIdentity
          BY DEF ByIdentity
        <4>2. \A n \in NodeId' : n \in NodeId \/ (n = m /\ nodes'[n].kind = "Type_id")
          BY <3>3, <3>4
        <4> QED BY <3>6, <4>1, <4>2 DEF UnitInv, NodesInv, UniqueInv
      <3> QED BY <1>2, <3>1, <3>2, <3>4, <3>7, <3>8, <3>9, <3>10, <3>11, <3>12 DEF NodesInv
    <2> QED BY <1>1, <2>1, <2>2
  <1>4. StageInv'
    <2>1. nodes'[target].kind \notin TypedNames
      BY <1>2, <1>3 DEF Kept, FinishedTypes, TypedNames
    <2> QED BY <1>1, <1>2, <1>3, <2>1 DEF StageInv, Complete
  <1> QED BY <1>1, <1>2, <1>3, <1>4, FinishingStep

LEMMA NameUdtStep ==
  ASSUME UnitInv, NameUdt
  PROVE  UnitInv' /\ Kept
  <1>1. /\ pc = "idle" /\ pc' = "idle"
        /\ UNCHANGED <<work, answers, finished, raw, call, asked, pending, target, outer, failures>>
    BY DEF NameUdt
  <1>2. PICK m \in NodeId, i \in NodeId :
          nodes[i].kind \in TypedNames /\ nodes[m].id = 0 /\ nodes' = [nodes EXCEPT ![m].id = i]
    BY TypedNodes DEF NameUdt, Held
  <1>3. /\ Len(nodes) \in Nat /\ Len(nodes) >= 14 /\ NodeId \subseteq Nat /\ 0 \notin NodeId
        /\ {CxxLinkage, CLinkage} \subseteq NodeId
        /\ \A n \in NodeId :
              nodes[n].constraint \in NodeId \cup {0} /\ nodes[n].id \in NodeId \cup {0}
    BY TypedNodes DEF NodeId, CxxLinkage, CLinkage
  <1>4. i \in Nat
    BY <1>3
  <1>5. /\ nodes' \in Seq(NodeRecord) /\ Len(nodes') = Len(nodes)
        /\ \A n \in NodeId :
             /\ nodes'[n].kind = nodes[n].kind /\ nodes'[n].args = nodes[n].args
             /\ nodes'[n].constraint = nodes[n].constraint
             /\ nodes'[n].id = IF n = m THEN i ELSE nodes[n].id
    BY <1>2, <1>4, IdentifiedNode
  <1>6. NodeId' = NodeId
    BY <1>5 DEF NodeId
  <1>7. Kept
    BY <1>2, <1>3, <1>5 DEF Kept
  <1>8. NodesTyped'
    BY <1>3, <1>5, <1>6 DEF NodesTyped
  <1>9. BuiltinsInv'
    BY <1>3, <1>5 DEF UnitInv, NodesInv, BuiltinsInv
  <1>10. IdsInv'
    <2> SUFFICES ASSUME NEW n \in NodeId, nodes'[n].id # 0,
                        nodes'[nodes'[n].id].kind = "Type_id"
                 PROVE  nodes'[nodes'[n].id].args = <<n>>
      BY <1>6 DEF IdsInv
    <2>1. n # m
      BY <1>2, <1>5 DEF TypedNames
    <2>2. nodes'[n].id = nodes[n].id /\ nodes[n].id \in NodeId
      BY <1>3, <1>5, <2>1
    <2>3. PICK j \in NodeId : j = nodes[n].id
      BY <2>2
    <2>4. nodes[j].kind = "Type_id" /\ nodes[n].id # 0
      BY <1>5, <2>2, <2>3
    <2>5. nodes[j].args = <<n>>
      BY <2>3, <2>4 DEF UnitInv, NodesInv, IdsInv
    <2> QED BY <1>5, <2>2, <2>3, <2>5
  <1>11. NamesInv'
    <2> SUFFICES ASSUME NEW n \in NodeId, nodes[n].kind \in TypedNames, nodes[n].constraint # 0
                 PROVE  LET d == nodes[n].constraint
                        IN  /\ nodes'[d].kind = "Decltype" /\ nodes'[d].args = <<n>>
                            /\ nodes'[d].constraint # 0 /\ nodes'[d].id # 0
      <3>1. \A n \in NodeId :
              nodes'[n].kind = nodes[n].kind /\ nodes'[n].constraint = nodes[n].constraint
        BY <1>5
      <3> QED BY <1>6, <3>1 DEF NamesInv, Complete
    <2>1. PICK d \in NodeId : d = nodes[n].constraint
      BY <1>3
    <2>2. nodes[d].kind = "Decltype" /\ nodes[d].args = <<n>> /\ Complete(d)
      BY <2>1 DEF UnitInv, NodesInv, NamesInv
    <2>3. nodes'[d].constraint # 0 /\ nodes'[d].id # 0
      BY <1>3, <1>5, <2>2 DEF Complete
    <2> QED BY <1>5, <2>1, <2>2, <2>3
  <1>12. UniqueInv'
    BY <1>5, <1>6 DEF UnitInv, NodesInv, UniqueInv
  <1>13. /\ AnswersInv' /\ FinishedInv'
         /\ \A x \in answers' : x.asked \in LookupRecord /\ x.node \in NodeId'
         /\ finished' \subseteq given'
    BY <1>1, <1>7, KeptAnswers
  <1>14. TypeOK'
    BY <1>1, <1>6, <1>8, <1>13 DEF UnitInv, TypeOK, NodesTyped, NodeRecord
  <1>15. CallInv'
    BY <1>1 DEF CallInv, PendingInv, FindInv, OuterInv, TargetInv, StageInv
  <1> QED BY <1>7, <1>9, <1>10, <1>11, <1>12, <1>13, <1>14, <1>15 DEF UnitInv, NodesInv

LEMMA TypedStep ==
  ASSUME UnitInv, Typed
  PROVE  UnitInv' /\ Kept
  <1>1. /\ pc = "type" /\ pc' = "return" /\ nodes[target].constraint # 0
        /\ UNCHANGED <<work, nodes, answers, finished, raw, call, asked, pending, target, outer,
                       failures>>
    BY DEF Typed
  <1>2. Kept /\ NodesTyped' /\ NodesInv' /\ NodeId' = NodeId
    BY <1>1, KeptNodes
  <1>3. outer # 0 => nodes'[outer].constraint = 0
    BY <1>1, AtTarget
  <1>4. StageInv'
    <2>1. nodes[target].kind \in TypedNames /\ TypedNames \cap TypeKinds = {}
      BY <1>1 DEF UnitInv, CallInv, StageInv, TypedNames, TypeKinds, FinishedTypes
    <2> QED BY <1>1, <2>1 DEF StageInv
  <1> QED BY <1>1, <1>2, <1>3, <1>4, FinishingStep

LEMMA NeedsTypeStep ==
  ASSUME UnitInv, NeedsType
  PROVE  UnitInv' /\ Kept
  <1>1. /\ pc = "type" /\ pc' = "find" /\ nodes[target].constraint = 0
        /\ outer' = target /\ call' = Lookup("Decltype", <<target>>)
        /\ UNCHANGED <<work, nodes, answers, finished, raw, asked, pending, target, failures>>
    BY DEF NeedsType
  <1>2. target \in NodeId /\ target \in Nat /\ target # 0 /\ nodes[target].kind \in TypedNames
    BY <1>1, AtTarget, TypedNodes DEF UnitInv, CallInv, StageInv
  <1>3. outer = 0
    BY <1>1, <1>2, AtTarget DEF TypedNames
  <1>4. pending = NoLookup
    <2> SUFFICES ASSUME pending # NoLookup PROVE FALSE
      OBVIOUS
    <2>1. call.kind \in {"String", "Sum"} /\ Fits(target, call)
      BY <1>1, <1>3 DEF UnitInv, CallInv, PendingInv, TargetInv
    <2> QED BY <1>2, <2>1 DEF Fits, TypedNames
  <1>5. Fits(target, asked)
    BY <1>1, <1>3, <1>4 DEF UnitInv, CallInv, TargetInv
  <1>6. Kept /\ NodesTyped' /\ NodesInv' /\ NodeId' = NodeId
    BY <1>1, KeptNodes
  <1>7. /\ AnswersInv' /\ FinishedInv'
        /\ \A x \in answers' : x.asked \in LookupRecord /\ x.node \in NodeId'
        /\ finished' \subseteq given'
    BY <1>1, <1>6, KeptAnswers
  <1>8. call' \in LookupRecord /\ call'.kind = "Decltype" /\ "Decltype" \in RequestKinds
    BY <1>1, <1>2, Tuples
       DEF Lookup, LookupRecord, RequestKinds, NodeKinds, TypeKinds, FinishedTypes
  <1>9. TypeOK'
    BY <1>1, <1>2, <1>6, <1>7, <1>8 DEF UnitInv, TypeOK, NodesTyped, NodeRecord
  <1>10. PendingInv' /\ OuterInv' /\ TargetInv' /\ StageInv'
    BY <1>1, <1>2, <1>4, <1>5 DEF PendingInv, OuterInv, TargetInv, StageInv, Fits
  <1>11. FindInv'
    BY <1>1, <1>2, <1>8 DEF FindInv, Proper
  <1> QED BY <1>6, <1>7, <1>9, <1>10, <1>11 DEF UnitInv, CallInv

LEMMA ResumeStep ==
  ASSUME UnitInv, Resume
  PROVE  UnitInv' /\ Kept
  <1>1. /\ pc = "return" /\ pc' = "return" /\ outer # 0 /\ target' = outer /\ outer' = 0
        /\ nodes' = [nodes EXCEPT ![outer].constraint = target]
        /\ UNCHANGED <<work, answers, finished, raw, call, asked, pending, failures>>
    BY DEF Resume
  <1>2. /\ target \in NodeId /\ outer \in NodeId /\ nodes[outer].kind \in TypedNames
        /\ nodes[outer].constraint = 0 /\ pending = NoLookup
        /\ nodes[target].kind = "Decltype" /\ nodes[target].args = <<outer>>
    BY <1>1, AtTarget
  <1>3. Complete(target)
    BY <1>1, <1>2 DEF UnitInv, CallInv, StageInv, TypeKinds, FinishedTypes
  <1>4. /\ Kept /\ NodesTyped' /\ NodesInv' /\ NodeId' = NodeId
        /\ \A n \in NodeId :
             nodes'[n].constraint = IF n = outer THEN target ELSE nodes[n].constraint
    BY <1>1, <1>2, <1>3, SetConstraint
  <1>5. /\ AnswersInv' /\ FinishedInv'
        /\ \A x \in answers' : x.asked \in LookupRecord /\ x.node \in NodeId'
        /\ finished' \subseteq given'
    BY <1>1, <1>4, KeptAnswers
  <1>6. TypeOK'
    BY <1>1, <1>2, <1>4, <1>5 DEF UnitInv, TypeOK, NodesTyped, NodeRecord
  <1>7. Fits(outer, asked) /\ outer # 0 /\ target # 0
    BY <1>1, <1>2, TypedNodes DEF UnitInv, CallInv, OuterInv
  <1>8. PendingInv' /\ FindInv' /\ OuterInv' /\ TargetInv'
    BY <1>1, <1>2, <1>4, <1>7 DEF PendingInv, FindInv, OuterInv, TargetInv, Fits, Kept
  <1>9. StageInv'
    <2>1. nodes'[outer].kind \in TypedNames /\ TypedNames \cap TypeKinds = {}
      BY <1>2, <1>4 DEF Kept, TypedNames, TypeKinds, FinishedTypes
    <2> QED BY <1>1, <1>2, <1>4, <1>7, <2>1 DEF StageInv
  <1> QED BY <1>4, <1>5, <1>6, <1>8, <1>9 DEF UnitInv, CallInv

LEMMA ContinueStep ==
  ASSUME UnitInv, Continue
  PROVE  UnitInv' /\ Kept
  <1>1. /\ pc = "return" /\ pc' = "find" /\ outer = 0 /\ pending # NoLookup /\ pending' = NoLookup
        /\ call' = Lookup(pending.kind, Fill(pending.args, target)) /\ asked' = call' /\ target' = 0
        /\ UNCHANGED <<work, nodes, answers, finished, raw, outer, failures>>
    BY DEF Continue
  <1>2. /\ target \in NodeId /\ target \in Nat /\ target # 0
        /\ pending \in LookupRecord /\ pending.args \in Seq(Nat)
    BY <1>1, AtTarget, TypedNodes DEF UnitInv, TypeOK, LookupRecord
  <1>3. /\ Fits(target, call)
        /\ \/ /\ call.kind = "String"
              /\ pending.kind \in {"Operator", "Linkage"} /\ pending.args = <<0>>
           \/ pending.kind \in {"Identifier", "Literal", "Function"}
    BY <1>1 DEF UnitInv, CallInv, TargetInv, PendingInv
  <1>4. Fill(pending.args, target) \in Seq(Nat)
    <2> DEFINE a == pending.args
    <2>1. Fill(a, target) = [i \in 1..Len(a) |-> IF a[i] = 0 THEN target ELSE a[i]]
      BY <1>2 DEF Fill
    <2>2. \A i \in 1..Len(a) : (IF a[i] = 0 THEN target ELSE a[i]) \in Nat
      BY <1>2
    <2>3. Len(a) \in Nat
      BY <1>2
    <2> DEFINE e(i) == IF a[i] = 0 THEN target ELSE a[i]
    <2>4. Fill(a, target) = [i \in 1..Len(a) |-> e(i)] /\ \A i \in 1..Len(a) : e(i) \in Nat
      BY <2>1, <2>2
    <2> HIDE DEF a, e
    <2>5. [i \in 1..Len(a) |-> e(i)] \in Seq(Nat)
      BY <2>3, <2>4, IsASeq
    <2> QED BY <2>4, <2>5 DEF a
  <1>5. pending.args = <<0>> => Fill(pending.args, target)[1] = target
    BY DEF Fill
  <1>6. Kept /\ NodesTyped' /\ NodesInv' /\ NodeId' = NodeId
    BY <1>1, KeptNodes
  <1>7. /\ AnswersInv' /\ FinishedInv'
        /\ \A x \in answers' : x.asked \in LookupRecord /\ x.node \in NodeId'
        /\ finished' \subseteq given'
    BY <1>1, <1>6, KeptAnswers
  <1>8. call' \in LookupRecord /\ call'.kind = pending.kind
        /\ call'.args = Fill(pending.args, target)
    BY <1>1, <1>2, <1>4 DEF Lookup, LookupRecord
  <1>9. TypeOK'
    BY <1>1, <1>6, <1>7, <1>8, NoLookupTyped DEF UnitInv, TypeOK, NodesTyped, NodeRecord
  <1>10. Proper(call)'
    <2>1. pending.kind \in RequestKinds
      BY <1>3 DEF RequestKinds, NodeKinds, TypeKinds, FinishedTypes, TypedNames, ByIdentity
    <2>2. CASE call.kind = "String" /\ pending.kind \in {"Operator", "Linkage"}
               /\ pending.args = <<0>>
      <3>1. nodes[target].kind = "String"
        BY <1>3, <2>2 DEF Fits
      <3> QED BY <1>1, <1>2, <1>5, <1>6, <1>8, <2>1, <2>2, <3>1 DEF Proper
    <2>3. CASE pending.kind \in {"Identifier", "Literal", "Function"}
      BY <1>8, <2>1, <2>3 DEF Proper, ByIdentity
    <2> QED BY <1>3, <2>2, <2>3
  <1>11. CallInv'
    BY <1>1, <1>10 DEF CallInv, PendingInv, FindInv, OuterInv, TargetInv, StageInv
  <1> QED BY <1>6, <1>7, <1>9, <1>11 DEF UnitInv

\* The answer that a call ends with.
LEMMA ReturnAnswer ==
  ASSUME UnitInv, Return
  PROVE  LET x == [asked |-> asked, node |-> target]
         IN  /\ x.asked = asked /\ x.node = target
             /\ answers' = answers \cup {x} /\ given' = given \cup {target}
             /\ target \in NodeId /\ asked \in LookupRecord /\ Fits(target, asked)
             /\ UNCHANGED nodes
  <1> DEFINE x == [asked |-> asked, node |-> target]
  <1>1. pc = "return" /\ outer = 0 /\ pending = NoLookup /\ answers' = answers \cup {x}
        /\ UNCHANGED nodes
    BY DEF Return
  <1>2. given' = given \cup {target}
    <2>1. x.node = target
      OBVIOUS
    <2> HIDE DEF x
    <2>2. {y.node : y \in answers'} = {y.node : y \in answers} \cup {target}
      BY <1>1, <2>1
    <2> QED BY <2>2 DEF given
  <1>3. target \in NodeId
    BY <1>1, AtTarget
  <1> QED BY <1>1, <1>2, <1>3 DEF UnitInv, TypeOK, CallInv, TargetInv

LEMMA ReturnStep ==
  ASSUME UnitInv, Return
  PROVE  UnitInv' /\ Kept
  <1> DEFINE x == [asked |-> asked, node |-> target]
  <1>1. /\ x.asked = asked /\ x.node = target
        /\ answers' = answers \cup {x} /\ given' = given \cup {target}
        /\ target \in NodeId /\ asked \in LookupRecord /\ Fits(target, asked)
        /\ UNCHANGED nodes
    BY ReturnAnswer
  <1>2. /\ finished' = IF raw THEN finished ELSE finished \cup {target}
        /\ pc = "return" /\ Idle /\ UNCHANGED <<work, failures>>
    BY DEF Return
  <1> HIDE DEF x
  <1>3. Kept /\ NodesTyped' /\ NodesInv' /\ NodeId' = NodeId
    BY <1>1, KeptNodes
  <1>4. AnswersInv'
    BY <1>1 DEF UnitInv, AnswersInv, Fits
  <1>5. FinishedInv'
    BY <1>1, <1>2 DEF UnitInv, FinishedInv, Complete, CallInv, StageInv
  <1>6. /\ \A y \in answers' : y.asked \in LookupRecord /\ y.node \in NodeId'
        /\ finished' \subseteq given'
    BY <1>1, <1>2, <1>3 DEF UnitInv, TypeOK
  <1>7. TypeOK'
    BY <1>2, <1>3, <1>6, IdleCall DEF UnitInv, TypeOK, NodesTyped, NodeRecord
  <1> QED BY <1>2, <1>3, <1>4, <1>5, <1>7, IdleCall DEF UnitInv

-----------------------------------------------------------------------------
\* What Unit's constructor leaves.
LEMMA BuiltinsMade ==
  ASSUME nodes = BuiltinNodes
  PROVE  NodesTyped /\ NodesInv /\ NodeId = 1..14
         /\ Complete(AnyType) /\ Complete(EllipsisType)
         /\ \A n \in {CxxLinkage, CLinkage, AnyType, EllipsisType} :
              n \in NodeId /\ nodes[n].kind \in {"Cxx_linkage", "C_linkage", "Builtin"}
  <1> USE DEF CxxLinkage, CLinkage, AnyType, EllipsisType
  <1>1. Len(nodes) = 14 /\ NodeId = 1..14
    BY DEF BuiltinNodes, NodeId
  <1>2. /\ nodes[1] = [kind |-> "String", args |-> <<67, 43, 43>>, constraint |-> 0, id |-> 0]
        /\ nodes[2] = [kind |-> "Cxx_linkage", args |-> <<1>>, constraint |-> 0, id |-> 0]
        /\ nodes[3] = [kind |-> "String", args |-> <<67>>, constraint |-> 0, id |-> 0]
        /\ nodes[4] = [kind |-> "C_linkage", args |-> <<3>>, constraint |-> 0, id |-> 0]
        /\ nodes[5] = [kind |-> "String", args |-> <<116>>, constraint |-> 0, id |-> 0]
        /\ nodes[6] = [kind |-> "Identifier", args |-> <<5>>, constraint |-> 7, id |-> 0]
        /\ nodes[7] = [kind |-> "Decltype", args |-> <<6>>, constraint |-> 9, id |-> 8]
        /\ nodes[8] = [kind |-> "Type_id", args |-> <<7>>, constraint |-> 0, id |-> 0]
        /\ nodes[9] = [kind |-> "Builtin", args |-> <<6, 2>>, constraint |-> 9, id |-> 6]
        /\ nodes[10] = [kind |-> "String", args |-> <<46>>, constraint |-> 0, id |-> 0]
        /\ nodes[11] = [kind |-> "Identifier", args |-> <<10>>, constraint |-> 12, id |-> 0]
        /\ nodes[12] = [kind |-> "Decltype", args |-> <<11>>, constraint |-> 9, id |-> 13]
        /\ nodes[13] = [kind |-> "Type_id", args |-> <<12>>, constraint |-> 0, id |-> 0]
        /\ nodes[14] = [kind |-> "Builtin", args |-> <<11, 2>>, constraint |-> 9, id |-> 11]
    BY DEF BuiltinNodes, MadeNode, FirstConstraint
  <1>3. \A n \in NodeId : n = 1 \/ n = 2 \/ n = 3 \/ n = 4 \/ n = 5 \/ n = 6 \/ n = 7 \/ n = 8
                          \/ n = 9 \/ n = 10 \/ n = 11 \/ n = 12 \/ n = 13 \/ n = 14
    BY <1>1
  <1>4. NodesTyped
    <2>1. \A n \in NodeId : nodes[n] \in NodeRecord
      <3>1. {"String", "Cxx_linkage", "C_linkage", "Identifier", "Decltype", "Type_id", "Builtin"}
              \subseteq NodeKinds
        BY DEF NodeKinds, TypeKinds, FinishedTypes, TypedNames, ByIdentity
      <3>2. /\ <<67, 43, 43>> \in Seq(Nat) /\ <<6, 2>> \in Seq(Nat) /\ <<11, 2>> \in Seq(Nat)
            /\ \A i \in Nat : <<i>> \in Seq(Nat)
        BY Tuples
      <3> SUFFICES ASSUME NEW n \in NodeId PROVE nodes[n] \in NodeRecord
        OBVIOUS
      <3>3. nodes[n].args \in Seq(Nat)
        <4>1. \/ \E i \in Nat : nodes[n].args = <<i>>
              \/ nodes[n].args \in {<<67, 43, 43>>, <<6, 2>>, <<11, 2>>}
          BY <1>2, <1>3
        <4> QED BY <3>2, <4>1
      <3>4. nodes[n].kind \in NodeKinds
        BY <1>2, <1>3, <3>1
      <3>5. nodes[n].constraint \in Nat /\ nodes[n].id \in Nat
        BY <1>2, <1>3
      <3>6. nodes[n] = [kind |-> nodes[n].kind, args |-> nodes[n].args,
                        constraint |-> nodes[n].constraint, id |-> nodes[n].id]
        BY <1>2, <1>3
      <3> QED BY <3>3, <3>4, <3>5, <3>6 DEF NodeRecord
    <2>2. nodes = [n \in 1..14 |-> nodes[n]]
      BY <1>1 DEF BuiltinNodes
    <2>3. nodes \in Seq(NodeRecord)
      BY <1>1, <2>1, <2>2
    <2>4. \A n \in NodeId :
            nodes[n].constraint \in NodeId \cup {0} /\ nodes[n].id \in NodeId \cup {0}
      BY <1>1, <1>2, <1>3
    <2> QED BY <2>3, <2>4 DEF NodesTyped
  <1>5. BuiltinsInv
    BY <1>1, <1>2 DEF BuiltinsInv
  <1>6. IdsInv
    BY <1>2, <1>3 DEF IdsInv
  <1>7. NamesInv
    BY <1>2, <1>3 DEF NamesInv, Complete, TypedNames
  <1>8. UniqueInv
    <2>1. \A n \in NodeId : nodes[n].kind \notin Unshared \cup ByIdentity =>
            nodes[n].kind \in {"String", "Cxx_linkage", "C_linkage", "Identifier", "Builtin"}
      BY <1>2, <1>3 DEF ByIdentity
    <2>2. <<67, 43, 43>> # <<67>> /\ <<67, 43, 43>> # <<116>> /\ <<67, 43, 43>> # <<46>>
          /\ <<67>> # <<116>> /\ <<67>> # <<46>> /\ <<116>> # <<46>> /\ <<5>> # <<10>>
          /\ <<6, 2>> # <<11, 2>>
      OBVIOUS
    <2>3. \A n \in NodeId :
            /\ nodes[n].kind = "String" => n \in {1, 3, 5, 10}
            /\ nodes[n].kind = "Cxx_linkage" => n = 2
            /\ nodes[n].kind = "C_linkage" => n = 4
            /\ nodes[n].kind = "Identifier" => n \in {6, 11}
            /\ nodes[n].kind = "Builtin" => n \in {9, 14}
      BY <1>2, <1>3
    <2>4. /\ nodes[1].args = <<67, 43, 43>> /\ nodes[3].args = <<67>> /\ nodes[5].args = <<116>>
          /\ nodes[10].args = <<46>> /\ nodes[6].args = <<5>> /\ nodes[11].args = <<10>>
          /\ nodes[9].args = <<6, 2>> /\ nodes[14].args = <<11, 2>>
      BY <1>2
    <2>5. \A m, n \in {1, 3, 5, 10} : m # n => nodes[m].args # nodes[n].args
      <3>1. /\ nodes[1].args # nodes[3].args /\ nodes[1].args # nodes[5].args
            /\ nodes[1].args # nodes[10].args
        BY <2>2, <2>4
      <3>2. nodes[3].args # nodes[5].args /\ nodes[3].args # nodes[10].args
        BY <2>2, <2>4
      <3>3. nodes[5].args # nodes[10].args
        BY <2>2, <2>4
      <3> QED BY <3>1, <3>2, <3>3
    <2>6. nodes[6].args # nodes[11].args /\ nodes[9].args # nodes[14].args
      BY <2>2, <2>4
    <2>7. ASSUME NEW m \in NodeId, NEW n \in NodeId, nodes[m].kind = nodes[n].kind,
                 nodes[m].kind \notin Unshared \cup ByIdentity, nodes[m].args = nodes[n].args
          PROVE  m = n
      <3>1. CASE nodes[m].kind = "String"
        <4>1. m \in {1, 3, 5, 10} /\ n \in {1, 3, 5, 10}
          BY <2>3, <2>7, <3>1
        <4> QED BY <2>5, <2>7, <4>1
      <3>2. CASE nodes[m].kind \in {"Identifier", "Builtin"}
        <4>1. \/ m \in {6, 11} /\ n \in {6, 11}
              \/ m \in {9, 14} /\ n \in {9, 14}
          BY <2>3, <2>7, <3>2
        <4> QED BY <2>6, <2>7, <4>1
      <3>3. CASE nodes[m].kind \in {"Cxx_linkage", "C_linkage"}
        <4>1. m \in {2, 4} /\ n = m
          BY <2>3, <2>7, <3>3
        <4> QED BY <4>1
      <3> QED BY <2>1, <2>7, <3>1, <3>2, <3>3
    <2> QED BY <2>7 DEF UniqueInv
  <1> QED BY <1>1, <1>2, <1>4, <1>5, <1>6, <1>7, <1>8 DEF NodesInv, Complete

LEMMA InitUnitInv == Init => UnitInv
  <1> SUFFICES ASSUME Init PROVE UnitInv
    OBVIOUS
  <1>1. NodesTyped /\ NodesInv /\ NodeId = 1..14
        /\ Complete(AnyType) /\ Complete(EllipsisType)
        /\ \A n \in {CxxLinkage, CLinkage, AnyType, EllipsisType} :
              n \in NodeId /\ nodes[n].kind \in {"Cxx_linkage", "C_linkage", "Builtin"}
    BY BuiltinsMade DEF Init
  <1>2. TypeOK
    <2>1. finished \subseteq given
      BY DEF Init, given
    <2>2. 0 \in 0..work.failures
      BY WorkloadAssumption DEF Init
    <2> QED BY <1>1, <2>1, <2>2, NoLookupTyped DEF Init, TypeOK, NodesTyped, NodeRecord
  <1>3. FinishedInv
    <2>1. "Cxx_linkage" \notin TypeKinds /\ "C_linkage" \notin TypeKinds
          /\ {"Cxx_linkage", "C_linkage", "Builtin"} \cap TypedNames = {}
      BY DEF TypeKinds, FinishedTypes, TypedNames
    <2>2. /\ nodes[CxxLinkage].kind = "Cxx_linkage" /\ nodes[CLinkage].kind = "C_linkage"
      BY <1>1 DEF NodesInv, BuiltinsInv
    <2> QED BY <1>1, <2>1, <2>2 DEF Init, FinishedInv
  <1>4. AnswersInv /\ CallInv
    BY DEF Init, AnswersInv, CallInv, PendingInv, FindInv, OuterInv, TargetInv, StageInv
  <1> QED BY <1>1, <1>2, <1>3, <1>4 DEF UnitInv

LEMMA NextUnitInv ==
  ASSUME UnitInv, [Next]_vars
  PROVE  UnitInv' /\ Kept
  <1>1. CASE UNCHANGED vars
    <2>1. /\ UNCHANGED nodes /\ given' = given
          /\ UNCHANGED <<work, answers, finished, raw, pc, call, asked, pending, target, outer,
                         failures>>
      BY <1>1 DEF vars, given
    <2>2. Kept /\ NodesTyped' /\ NodesInv' /\ NodeId' = NodeId
      BY <2>1, KeptNodes
    <2>3. AnswersInv' /\ FinishedInv'
      BY <2>1, <2>2, KeptAnswers
    <2>4. TypeOK'
      BY <2>1, <2>2 DEF UnitInv, TypeOK, NodesTyped, NodeRecord
    <2>5. CallInv'
      BY <2>1, <2>2 DEF UnitInv, CallInv, PendingInv, FindInv, OuterInv, TargetInv, StageInv,
                        Complete, Proper, Fits
    <2> QED BY <2>2, <2>3, <2>4, <2>5 DEF UnitInv
  <1> QED BY <1>1, RequestStep, AbandonStep, FindStep, MakeStep, ConstrainStep, NameStep, NameUdtStep,
             TypedStep, NeedsTypeStep, ResumeStep, ContinueStep, ReturnStep DEF Next

\* The invariant holds in every state of every call, abandoned ones among them.
THEOREM UnitInvariance == Spec => []UnitInv
  <1>1. UnitInv /\ [Next]_vars => UnitInv'
    BY NextUnitInv
  <1> QED BY <1>1, InitUnitInv, PTL DEF Spec


-----------------------------------------------------------------------------
(***************************************************************************)
(* What the invariant says of the unit and of its clients.                  *)
(***************************************************************************)
\* Every constraint and every id of a node is a node or null, and clients are
\* given nothing but nodes, wherever calls are abandoned.
THEOREM UnitTypes == Spec => []TypeOK
  <1>1. UnitInv => TypeOK
    BY DEF UnitInv
  <1> QED BY <1>1, UnitInvariance, PTL

\* Unit::get_... and make_... give a node whose operands are those asked with,
\* whichever of two lookups made it and whether it was there before.
THEOREM OperandsAreThoseAsked == Spec => []Answers
  <1>1. UnitInv => Answers
    BY DEF UnitInv, AnswersInv, Fits, Answers
  <1> QED BY <1>1, UnitInvariance, PTL

\* A type that Unit gives has its type and its own name, and a name has its own
\* decltype, even if an allocation failed in the call that made the node.
THEOREM GivenNodesAreWhole == Spec => []Whole
  <1>1. ASSUME UnitInv PROVE Whole
    <2> SUFFICES ASSUME NEW n \in finished
                 PROVE  /\ nodes[n].kind \in TypeKinds => NamedType(n)
                        /\ nodes[n].kind \in TypedNames =>
                             \E d \in NodeId :
                               /\ d = nodes[n].constraint /\ d # 0
                               /\ nodes[d].kind = "Decltype" /\ nodes[d].args = <<n>>
                               /\ NamedType(d)
      BY DEF Whole
    <2>1. n \in NodeId
      BY <1>1, TypedNodes DEF UnitInv, TypeOK
    <2>2. ASSUME NEW m \in NodeId, Complete(m) PROVE NamedType(m)
      BY <1>1, <2>2 DEF UnitInv, NodesInv, IdsInv, Complete, NamedType
    <2>3. nodes[n].kind \in TypeKinds => NamedType(n)
      BY <1>1, <2>1, <2>2 DEF UnitInv, FinishedInv
    <2>4. ASSUME nodes[n].kind \in TypedNames
          PROVE  \E d \in NodeId :
                   /\ d = nodes[n].constraint /\ d # 0
                   /\ nodes[d].kind = "Decltype" /\ nodes[d].args = <<n>> /\ NamedType(d)
      <3>1. nodes[n].constraint # 0
        BY <1>1, <2>4 DEF UnitInv, FinishedInv
      <3>2. PICK d \in NodeId : d = nodes[n].constraint
        BY <1>1, <2>1, <3>1, TypedNodes
      <3>3. nodes[d].kind = "Decltype" /\ nodes[d].args = <<n>> /\ Complete(d)
        BY <1>1, <2>1, <2>4, <3>1, <3>2 DEF UnitInv, NodesInv, NamesInv
      <3> QED BY <2>2, <3>1, <3>2, <3>3
    <2> QED BY <2>3, <2>4
  <1> QED BY <1>1, UnitInvariance, PTL

\* No call of any client changes a node that somebody holds, but to set a type
\* or a name that it has not.
THEOREM GivenNodesArePermanent == Spec => Permanent
  <1>1. UnitInv /\ [Next]_vars =>
          [\A n \in given :
             /\ nodes'[n].kind = nodes[n].kind /\ nodes'[n].args = nodes[n].args
             /\ nodes[n].constraint # 0 => nodes'[n].constraint = nodes[n].constraint
             /\ nodes[n].id # 0 => nodes'[n].id = nodes[n].id]_vars
    BY NextUnitInv, TypedNodes DEF Kept
  <1> QED BY <1>1, UnitInvariance, PTL DEF Spec, Permanent

\* The comparator of a table that is searched by operands orders its nodes
\* strictly and totally, as the search of its tree needs.
THEOREM TablesAreSearchable == Spec => []Searchable
  <1>1. ASSUME UnitInv PROVE Searchable
    <2> SUFFICES ASSUME NEW k \in {nodes[n].kind : n \in NodeId} \ (Unshared \cup ByIdentity),
                        NEW l \in Table(k), NEW m \in Table(k), NEW n \in Table(k)
                 PROVE  /\ m # n => (Ordering(k, nodes[m].args, n) < 0 <=>
                                       ~(Ordering(k, nodes[n].args, m) < 0))
                        /\ Ordering(k, nodes[l].args, m) < 0 /\ Ordering(k, nodes[m].args, n) < 0 =>
                             Ordering(k, nodes[l].args, n) < 0
      BY DEF Searchable
    <2>1. \A i \in Table(k) : i \in NodeId /\ nodes[i].kind = k /\ nodes[i].args \in Seq(Nat)
      <3>1. DOMAIN nodes = NodeId
        BY <1>1, TypedNodes DEF NodesTyped, NodeId
      <3> QED BY <1>1, <3>1, TypedNodes DEF Table
    <2>2. \A i, j \in Table(k) :
            Ordering(k, nodes[i].args, j) < 0 <=> Precedes(nodes[i].args, nodes[j].args)
      BY <2>1, LexicographicalOrders DEF Ordering
    <2>3. m # n => nodes[m].args # nodes[n].args
      BY <1>1, <2>1 DEF UnitInv, NodesInv, UniqueInv
    <2>4. m # n => (Precedes(nodes[m].args, nodes[n].args) <=>
                      ~Precedes(nodes[n].args, nodes[m].args))
      BY <2>1, <2>3, LexicographicalOrders, PrecedesIsStrict
    <2>5. Precedes(nodes[l].args, nodes[m].args) /\ Precedes(nodes[m].args, nodes[n].args) =>
            Precedes(nodes[l].args, nodes[n].args)
      BY <2>1, PrecedesIsTransitive
    <2> QED BY <2>2, <2>4, <2>5
  <1> QED BY <1>1, UnitInvariance, PTL

-----------------------------------------------------------------------------
(***************************************************************************)
(* Nodes are interned.                                                      *)
(***************************************************************************)
Shared(X) == {x \in X : x.asked.kind \notin Unshared \cup ByIdentity}

\* Who asks for the same gets the same node, and who gets the same node asked for
\* the same.
LEMMA SharedAnswers ==
  ASSUME UnitInv, NEW x, x.node \in NodeId, x.asked \in LookupRecord, Fits(x.node, x.asked),
         x.asked.kind \notin Unshared \cup ByIdentity,
         NEW y \in Shared(answers)
  PROVE  Interned!Consistent(x, y)
  <1>1. y \in answers /\ y.asked.kind \notin Unshared \cup ByIdentity
    BY DEF Shared
  <1>2. y.node \in NodeId /\ y.asked \in LookupRecord /\ Fits(y.node, y.asked)
    BY <1>1 DEF UnitInv, TypeOK, AnswersInv
  <1>3. {"Linkage", "Decltype"} \subseteq ByIdentity
    BY DEF ByIdentity
  <1>4. /\ nodes[x.node].kind = x.asked.kind /\ nodes[x.node].args = x.asked.args
        /\ nodes[y.node].kind = y.asked.kind /\ nodes[y.node].args = y.asked.args
    BY <1>1, <1>2, <1>3 DEF Fits
  <1>5. x.asked = y.asked => x.node = y.node
    BY <1>1, <1>2, <1>4 DEF UnitInv, NodesInv, UniqueInv
  <1>6. x.asked.kind = y.asked.kind /\ x.asked.args = y.asked.args => x.asked = y.asked
    BY <1>2 DEF LookupRecord
  <1>7. x.node = y.node => x.asked = y.asked
    BY <1>4, <1>6
  <1> QED BY <1>5, <1>7 DEF Interned!Consistent

\* Of all that a unit does, only the return of a call adds to the answers.
LEMMA OnlyReturnAnswers ==
  ASSUME [Next]_vars, ~Return
  PROVE  UNCHANGED answers
  BY DEF Next, vars, Get, GetPlain, GetByText, GetFunction, Begin, RejectQualified, Find, Make,
         Constrain, Name, NameUdt, Typed, NeedsType, Resume, Continue, BadAlloc

\* "Type nodes shall have maximal sharing" (interface.H:44): a unit with its
\* tables and its abandoned calls implements Interning, where whoever asks again
\* gets what was given before.
THEOREM UnitInterns == Spec => InternedSpec
  <1>1. Init => Interned!Init
    BY DEF Init, Interned!Init
  <1>2. ASSUME UnitInv, [Next]_vars
        PROVE  Interned!Give \/ UNCHANGED Shared(answers)
    <2>1. CASE ~Return
      BY <1>2, <2>1, OnlyReturnAnswers DEF Shared
    <2>2. CASE Return
      <3> DEFINE x == [asked |-> asked, node |-> target]
      <3>1. /\ x.asked = asked /\ x.node = target /\ answers' = answers \cup {x}
            /\ target \in NodeId /\ asked \in LookupRecord /\ Fits(target, asked)
        BY <1>2, <2>2, ReturnAnswer
      <3> HIDE DEF x
      <3>2. CASE asked.kind \in Unshared \cup ByIdentity
        BY <3>1, <3>2 DEF Shared
      <3>3. CASE asked.kind \notin Unshared \cup ByIdentity
        <4>1. Shared(answers)' = Shared(answers) \cup {x} /\ x \in Shared(answers)'
          BY <3>1, <3>3 DEF Shared
        <4>2. \A y \in Shared(answers) : Interned!Consistent(x, y)
          BY <1>2, <3>1, <3>3, SharedAnswers
        <4> QED BY <4>1, <4>2 DEF Interned!Give, Shared
      <3> QED BY <3>2, <3>3
    <2> QED BY <2>1, <2>2
  <1>3. UnitInv /\ [Next]_vars =>
          [Interned!Give]_({x \in answers : x.asked.kind \notin Unshared \cup ByIdentity})
    BY <1>2 DEF Shared
  <1> QED BY <1>1, <1>3, UnitInvariance, PTL DEF Spec, InternedSpec, Interned!Spec

=============================================================================
