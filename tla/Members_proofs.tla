---------------------------- MODULE Members_proofs ----------------------------
(***************************************************************************)
(* What holds of lists of members for every set of names and types, and for *)
(* every bound: what is found by an index and by a name, in lists in which  *)
(* failed insertions left raw nodes that are not counted, and how members   *)
(* are numbered.                                                            *)
(***************************************************************************)
EXTENDS Members, SequenceTheorems, FiniteSetTheorems, WellFoundedInduction, TLAPS

\* A list of members that are in S, each as many nodes behind its place as raw
\* nodes are before it.
ListOf(S) == [nodes : Seq(S \cup {Raw}), count : Nat, added : Seq(S)]

InPlace(l, i) ==
  l.nodes[i] # Raw =>
    i - Failed(l, i) \in 1..l.count /\ l.nodes[i] = l.added[i - Failed(l, i)]

InStep(l) ==
  /\ l.count = Len(l.added)
  /\ Len(l.nodes) = l.count + Failed(l, Len(l.nodes))
  /\ \A i \in 1..Len(l.nodes) : InPlace(l, i)

GoodList(l, S) == l \in ListOf(S) /\ InStep(l)

Numbered(l) == \A i \in 1..Len(l.added) : l.added[i].position = i - 1

MappingRecord == [level : Levels \cup {0}, params : ListOf(Parameter)]

\* The parameters the unit makes are numbered by their Rnames.
RnamesNumbered(l) ==
  \A i \in 1..Len(l.added) : l.added[i].unit => l.added[i].rname.position = i - 1

GoodMapping(m) == InStep(List(m)) /\ RnamesNumbered(List(m))

IInv ==
  /\ mappings \in Seq(MappingRecord)
  /\ \A m \in 1..Len(mappings) : GoodMapping(m)
  /\ GoodList(enumerators, Enumerator) /\ Numbered(enumerators)
  /\ GoodList(bases, BaseType) /\ Numbered(bases)
  /\ held \subseteq Rname
  /\ throws \in 0..MaxThrows

-----------------------------------------------------------------------------
\* No member is a raw node.
LEMMA NoMemberRaw == Raw \notin Parameter /\ Raw \notin Enumerator /\ Raw \notin BaseType
  <1>1. "name" \notin DOMAIN Raw
    BY DEF Raw
  <1>2. /\ \A x \in Parameter : "name" \in DOMAIN x
        /\ \A x \in Enumerator : "name" \in DOMAIN x
        /\ \A x \in BaseType : "name" \in DOMAIN x
    BY DEF Parameter, Enumerator, BaseType
  <1> HIDE DEF Raw, Parameter, Enumerator, BaseType
  <1> QED BY <1>1, <1>2

\* How many nodes failed, of those up to a place and of one more.
LEMMA FailedCounts ==
  ASSUME NEW l, NEW i \in Nat
  PROVE  /\ Failed(l, i) \in 0..i
         /\ Failed(l, 0) = 0
         /\ Failed(l, i + 1) = Failed(l, i) + (IF l.nodes[i + 1] = Raw THEN 1 ELSE 0)
         /\ Failed(l, i) = 0 <=> \A j \in 1..i : l.nodes[j] # Raw
  <1> DEFINE R(k) == {j \in 1..k : l.nodes[j] = Raw}
  <1>1. /\ IsFiniteSet(R(i)) /\ Cardinality(R(i)) <= i
        /\ Cardinality(R(i)) \in Nat
    <2>1. IsFiniteSet(1..i) /\ Cardinality(1..i) = i
      BY FS_Interval
    <2> QED BY <2>1, FS_Subset, FS_CardinalityType
  <1>2. Failed(l, i) = Cardinality(R(i)) /\ Failed(l, i + 1) = Cardinality(R(i + 1))
    BY DEF Failed
  <1>3. R(0) = {} /\ Failed(l, 0) = 0
    BY FS_EmptySet DEF Failed
  <1>4. Failed(l, i + 1) = Failed(l, i) + (IF l.nodes[i + 1] = Raw THEN 1 ELSE 0)
    <2>1. CASE l.nodes[i + 1] = Raw
      <3>1. R(i + 1) = R(i) \cup {i + 1} /\ i + 1 \notin R(i)
        BY <2>1
      <3> HIDE DEF R
      <3> QED BY <3>1, <2>1, <1>1, <1>2, FS_AddElement
    <2>2. CASE l.nodes[i + 1] # Raw
      <3>1. R(i + 1) = R(i)
        BY <2>2
      <3> HIDE DEF R
      <3> QED BY <3>1, <2>2, <1>1, <1>2
    <2> QED BY <2>1, <2>2
  <1>5. R(i) = {} <=> \A j \in 1..i : l.nodes[j] # Raw
    OBVIOUS
  <1> HIDE DEF R
  <1>6. Cardinality(R(i)) = 0 <=> R(i) = {}
    BY <1>1, FS_EmptySet
  <1> QED BY <1>1, <1>2, <1>3, <1>4, <1>5, <1>6

\* Lists that begin with the same nodes have as many raw ones among those.
LEMMA FailedAgree ==
  ASSUME NEW k, NEW l, NEW n \in Nat, \A i \in 1..n : k.nodes[i] = l.nodes[i]
  PROVE  \A i \in 0..n : Failed(k, i) = Failed(l, i)
  <1> SUFFICES ASSUME NEW i \in 0..n PROVE Failed(k, i) = Failed(l, i)
    OBVIOUS
  <1>1. {j \in 1..i : k.nodes[j] = Raw} = {j \in 1..i : l.nodes[j] = Raw}
    OBVIOUS
  <1> QED BY <1>1 DEF Failed

LEMMA EmptyGood == \A S : GoodList(Empty, S)
  <1> SUFFICES ASSUME NEW S PROVE GoodList(Empty, S)
    OBVIOUS
  <1>1. <<>> \in Seq(S \cup {Raw}) /\ <<>> \in Seq(S) /\ Len(<<>>) = 0
    BY EmptySeq
  <1>2. Failed(Empty, 0) = 0
    BY FailedCounts
  <1> QED BY <1>1, <1>2 DEF Empty, GoodList, ListOf, InStep

\* A member is added behind the others, whatever nodes are there.
LEMMA PushGood ==
  ASSUME NEW S, NEW l, GoodList(l, S), NEW x \in S, Raw \notin S
  PROVE  /\ GoodList(Push(l, x), S)
         /\ Push(l, x).added = Append(l.added, x)
         /\ Len(Push(l, x).added) = l.count + 1
         /\ \A i \in 1..l.count : Push(l, x).added[i] = l.added[i]
         /\ Push(l, x).added[l.count + 1] = x
  <1> DEFINE k == Push(l, x)
  <1> DEFINE n == Len(l.nodes)
  <1>1. l.nodes \in Seq(S \cup {Raw}) /\ l.added \in Seq(S) /\ l.count \in Nat /\ l.count = Len(l.added)
    BY DEF GoodList, ListOf, InStep
  <1>2. k.nodes = Append(l.nodes, x) /\ k.count = l.count + 1 /\ k.added = Append(l.added, x)
    BY DEF Push
  <1>3. /\ k.added \in Seq(S) /\ Len(k.added) = l.count + 1
        /\ \A i \in 1..l.count : k.added[i] = l.added[i]
        /\ k.added[l.count + 1] = x
    BY <1>1, <1>2, AppendProperties
  <1>4. /\ k.nodes \in Seq(S \cup {Raw}) /\ Len(k.nodes) = n + 1 /\ n \in Nat
        /\ \A i \in 1..n : k.nodes[i] = l.nodes[i]
        /\ k.nodes[n + 1] = x
    <2>1. x \in S \cup {Raw}
      OBVIOUS
    <2> QED BY <1>1, <1>2, <2>1, AppendProperties, LenProperties
  <1>5. k \in ListOf(S)
    BY <1>1, <1>2, <1>3, <1>4 DEF Push, ListOf
  <1>6. n = l.count + Failed(l, n)
    BY DEF GoodList, InStep
  <1> HIDE DEF k, n
  <1>7. /\ \A i \in 0..n : Failed(k, i) = Failed(l, i)
        /\ Failed(k, n + 1) = Failed(l, n)
        /\ Failed(l, n) \in Nat
    <2>1. \A i \in 0..n : Failed(k, i) = Failed(l, i)
      BY <1>4, FailedAgree
    <2>2. n \in Nat /\ k.nodes[n + 1] # Raw
      BY <1>4
    <2>3. Failed(k, n + 1) = Failed(k, n) + (IF k.nodes[n + 1] = Raw THEN 1 ELSE 0)
      BY <2>2, FailedCounts
    <2>4. Failed(k, n) \in Nat /\ Failed(k, n) = Failed(l, n)
      BY <2>1, <2>2, FailedCounts
    <2> QED BY <2>1, <2>2, <2>3, <2>4
  <1>8. ASSUME NEW i \in 1..(n + 1)
        PROVE  InPlace(k, i)
    <2>1. CASE i \in 1..n
      <3>1. Failed(k, i) = Failed(l, i) /\ k.nodes[i] = l.nodes[i]
        BY <2>1, <1>4, <1>7
      <3>2. InPlace(l, i)
        BY <2>1 DEF GoodList, InStep, n
      <3> QED BY <3>1, <3>2, <1>1, <1>2, <1>3 DEF InPlace
    <2>2. CASE i = n + 1
      <3>1. i - Failed(k, i) = l.count + 1
        BY <2>2, <1>1, <1>4, <1>6, <1>7
      <3> QED BY <3>1, <2>2, <1>1, <1>2, <1>3, <1>4 DEF InPlace
    <2> QED BY <2>1, <2>2, <1>4
  <1>9. InStep(k)
    <2>1. Len(k.nodes) = k.count + Failed(k, Len(k.nodes))
      BY <1>1, <1>2, <1>4, <1>6, <1>7
    <2> QED BY <2>1, <1>1, <1>2, <1>3, <1>4, <1>8 DEF InStep
  <1> QED BY <1>2, <1>3, <1>5, <1>9 DEF GoodList, k

\* A member that fails leaves what was added as it is.
LEMMA PushThrowsGood ==
  ASSUME NEW S, NEW l, GoodList(l, S)
  PROVE  GoodList(PushThrows(l), S) /\ PushThrows(l).added = l.added
  <1> DEFINE k == PushThrows(l)
  <1> DEFINE n == Len(l.nodes)
  <1>1. l.nodes \in Seq(S \cup {Raw}) /\ l.added \in Seq(S) /\ l.count \in Nat /\ l.count = Len(l.added)
    BY DEF GoodList, ListOf, InStep
  <1>2. k.nodes = Append(l.nodes, Raw) /\ k.count = l.count /\ k.added = l.added /\ k \in ListOf(S)
    <2>1. Append(l.nodes, Raw) \in Seq(S \cup {Raw})
      BY <1>1, AppendProperties
    <2> QED BY <2>1 DEF PushThrows, GoodList, ListOf
  <1>3. /\ Len(k.nodes) = n + 1 /\ n \in Nat
        /\ \A i \in 1..n : k.nodes[i] = l.nodes[i]
        /\ k.nodes[n + 1] = Raw
    BY <1>1, <1>2, AppendProperties, LenProperties
  <1>4. n = l.count + Failed(l, n) /\ \A i \in 1..n : InPlace(l, i)
    BY DEF GoodList, InStep
  <1> HIDE DEF k, n
  <1>5. \A i \in 0..n : Failed(k, i) = Failed(l, i)
    BY <1>3, FailedAgree
  <1>6. Failed(k, n + 1) = Failed(l, n) + 1 /\ Failed(l, n) \in Nat
    <2>1. Failed(k, n + 1) = Failed(k, n) + (IF k.nodes[n + 1] = Raw THEN 1 ELSE 0)
      BY <1>3, FailedCounts
    <2>2. Failed(k, n) \in Nat /\ Failed(k, n) = Failed(l, n)
      BY <1>3, <1>5, FailedCounts
    <2> QED BY <1>3, <2>1, <2>2
  <1>7. ASSUME NEW i \in 1..(n + 1)
        PROVE  InPlace(k, i)
    <2>1. CASE i \in 1..n
      <3>1. Failed(k, i) = Failed(l, i) /\ k.nodes[i] = l.nodes[i]
        BY <2>1, <1>3, <1>5
      <3> QED BY <2>1, <3>1, <1>2, <1>4 DEF InPlace
    <2>2. CASE i = n + 1
      BY <2>2, <1>3 DEF InPlace
    <2> QED BY <2>1, <2>2, <1>3
  <1>8. InStep(k)
    <2>1. Len(k.nodes) = k.count + Failed(k, Len(k.nodes))
      <3>1. Failed(k, Len(k.nodes)) = Failed(l, n) + 1 /\ Len(k.nodes) = n + 1
        BY <1>3, <1>6
      <3> DEFINE c == l.count
                 failed == Failed(l, n)
      <3>2. n = c + failed /\ c \in Nat /\ failed \in Nat
        BY <1>1, <1>4, <1>6
      <3> HIDE DEF c, failed
      <3>3. n + 1 = c + (failed + 1)
        BY <3>2
      <3> USE DEF c, failed
      <3> QED BY <3>1, <3>3, <1>2
    <2> QED BY <2>1, <1>1, <1>2, <1>3, <1>7 DEF InStep
  <1> QED BY <1>2, <1>8 DEF GoodList, k

-----------------------------------------------------------------------------
\* A step that changes one mapping, or none, leaves the others as they are.
LEMMA OneMapping ==
  ASSUME IInv, NEW m \in 1..Len(mappings), NEW r \in MappingRecord,
         mappings' = [mappings EXCEPT ![m] = r], InStep(r.params), RnamesNumbered(r.params)
  PROVE  mappings' \in Seq(MappingRecord) /\ \A k \in 1..Len(mappings') : GoodMapping(k)'
  <1>1. mappings \in Seq(MappingRecord)
    BY DEF IInv
  <1>2. mappings' \in Seq(MappingRecord) /\ Len(mappings') = Len(mappings)
    BY <1>1, ExceptSeq
  <1>3. ASSUME NEW k \in 1..Len(mappings)
        PROVE  GoodMapping(k)'
    <2>1. CASE k = m
      <3>1. mappings'[k] = r
        BY <1>1, <2>1, ExceptSeq
      <3> QED BY <3>1 DEF GoodMapping, List
    <2>2. CASE k # m
      <3>1. mappings'[k] = mappings[k]
        BY <1>1, <2>2, ExceptSeq
      <3>2. GoodMapping(k)
        BY DEF IInv
      <3> QED BY <3>1, <3>2 DEF GoodMapping, List
    <2> QED BY <2>1, <2>2
  <1> QED BY <1>2, <1>3

\* A mapping's list, as any.
LEMMA ListGood ==
  ASSUME IInv, NEW m \in 1..Len(mappings)
  PROVE  GoodList(List(m), Parameter) /\ mappings[m] \in MappingRecord
  <1>1. mappings \in Seq(MappingRecord) /\ GoodMapping(m)
    BY DEF IInv
  <1>2. mappings[m] \in MappingRecord
    BY <1>1, ElementOfSeq
  <1> QED BY <1>1, <1>2 DEF GoodMapping, List, GoodList, MappingRecord

LEMMA MakeMappingStep == IInv /\ MakeMapping => IInv'
  <1> SUFFICES ASSUME IInv, MakeMapping PROVE IInv'
    OBVIOUS
  <1>1. PICK l \in Levels \cup {0} :
          mappings' = Append(mappings, [level |-> l, params |-> Empty])
    BY DEF MakeMapping
  <1> DEFINE r == [level |-> l, params |-> Empty]
  <1>2. GoodList(Empty, Parameter)
    BY EmptyGood
  <1>3. r \in MappingRecord /\ InStep(r.params) /\ r.params.added = <<>>
    BY <1>2 DEF MappingRecord, GoodList, Empty
  <1>4. /\ mappings' \in Seq(MappingRecord) /\ Len(mappings') = Len(mappings) + 1
        /\ \A k \in 1..Len(mappings) : mappings'[k] = mappings[k]
        /\ mappings'[Len(mappings) + 1] = r
        /\ Len(mappings) \in Nat
    BY <1>1, <1>3, AppendProperties, LenProperties DEF IInv
  <1>5. ASSUME NEW k \in 1..Len(mappings')
        PROVE  GoodMapping(k)'
    <2>1. CASE k \in 1..Len(mappings)
      <3>1. mappings'[k] = mappings[k] /\ GoodMapping(k)
        BY <2>1, <1>4 DEF IInv
      <3> QED BY <3>1 DEF GoodMapping, List
    <2>2. CASE k = Len(mappings) + 1
      <3>1. mappings'[k].params = Empty /\ Len(Empty.added) = 0
        BY <2>2, <1>4, EmptySeq DEF Empty
      <3>2. InStep(Empty) /\ RnamesNumbered(Empty)
        BY <1>2, <3>1 DEF GoodList, RnamesNumbered
      <3> QED BY <3>1, <3>2 DEF GoodMapping, List
    <2> QED BY <2>1, <2>2, <1>4
  <1> QED BY <1>4, <1>5 DEF IInv, MakeMapping, Numbered, GoodList

LEMMA RnameTyped ==
  ASSUME IInv, NEW m \in 1..Len(mappings), NEW t \in Types
  PROVE  RnameForNextParam(m, t) \in Rname
         /\ RnameForNextParam(m, t).position = List(m).count
  BY ListGood DEF GoodList, ListOf, MappingRecord, RnameForNextParam, Rname

LEMMA AskRnameStep ==
  ASSUME IInv, NEW m \in 1..Len(mappings), NEW t \in Types, AskRname(m, t)
  PROVE  IInv'
  <1>1. held' \subseteq Rname
    BY RnameTyped DEF IInv, AskRname
  <1> QED BY <1>1 DEF IInv, AskRname, GoodMapping, List, Numbered, GoodList

\* The two ways to write a mapping that is changed.
LEMMA MappingChange ==
  ASSUME IInv, NEW m \in 1..Len(mappings), NEW l
  PROVE  [mappings EXCEPT ![m].params = l]
           = [mappings EXCEPT ![m] = [level |-> mappings[m].level, params |-> l]]
  <1> DEFINE r == mappings[m]
  <1>1. r \in MappingRecord /\ Len(mappings) \in Nat
        /\ mappings \in [1..Len(mappings) -> MappingRecord]
    BY ListGood, LenProperties DEF IInv
  <1>2. [r EXCEPT !.params = l] = [level |-> r.level, params |-> l]
    BY <1>1 DEF MappingRecord
  <1>3. [mappings EXCEPT ![m].params = l] = [mappings EXCEPT ![m] = [r EXCEPT !.params = l]]
    BY <1>1
  <1> QED BY <1>2, <1>3

\* A parameter with an Rname, which is the next if the unit chose it.
LEMMA PushParameter ==
  ASSUME IInv, NEW m \in 1..Len(mappings), NEW x \in Parameter,
         x.unit => x.rname.position = List(m).count,
         mappings' = [mappings EXCEPT ![m].params = Push(List(m), x)]
  PROVE  mappings' \in Seq(MappingRecord) /\ \A k \in 1..Len(mappings') : GoodMapping(k)'
  <1> DEFINE l == List(m)
  <1> DEFINE r == [level |-> mappings[m].level, params |-> Push(l, x)]
  <1>1. GoodList(l, Parameter) /\ mappings[m] \in MappingRecord /\ l = mappings[m].params
    BY ListGood DEF List
  <1>2. /\ GoodList(Push(l, x), Parameter)
        /\ Len(Push(l, x).added) = l.count + 1
        /\ \A i \in 1..l.count : Push(l, x).added[i] = l.added[i]
        /\ Push(l, x).added[l.count + 1] = x
    BY <1>1, NoMemberRaw, PushGood
  <1>3. r \in MappingRecord /\ r.params = Push(l, x)
    BY <1>1, <1>2 DEF MappingRecord, GoodList
  <1>4. RnamesNumbered(Push(l, x))
    <2>1. l.count \in Nat /\ l.count = Len(l.added) /\ RnamesNumbered(l)
      BY <1>1 DEF GoodList, ListOf, InStep, IInv, GoodMapping
    <2>2. x.unit => x.rname.position = l.count
      OBVIOUS
    <2> DEFINE added == Push(l, x).added
    <2>3. /\ Len(added) = l.count + 1 /\ added[l.count + 1] = x
          /\ \A i \in 1..l.count : added[i] = l.added[i]
      BY <1>2
    <2> HIDE DEF l, added
    <2>4. ASSUME NEW i \in 1..(l.count + 1), added[i].unit
          PROVE  added[i].rname.position = i - 1
      <3>1. CASE i \in 1..l.count
        BY <3>1, <2>1, <2>3, <2>4 DEF RnamesNumbered
      <3>2. CASE i = l.count + 1
        BY <3>2, <2>1, <2>2, <2>3, <2>4
      <3> QED BY <3>1, <3>2, <2>1
    <2> QED BY <2>3, <2>4 DEF RnamesNumbered, added
  <1>5. mappings' = [mappings EXCEPT ![m] = r]
    BY MappingChange
  <1>6. InStep(r.params) /\ RnamesNumbered(r.params)
    BY <1>2, <1>3, <1>4 DEF GoodList
  <1> HIDE DEF r
  <1> QED BY <1>3, <1>5, <1>6, OneMapping

\* What is left alone stays good.
LEMMA Unchanged ==
  ASSUME IInv, UNCHANGED <<enumerators, bases, held, throws>>,
         mappings' \in Seq(MappingRecord), \A k \in 1..Len(mappings') : GoodMapping(k)'
  PROVE  IInv'
  BY DEF IInv, Numbered, GoodList

LEMMA ParamStep ==
  ASSUME IInv, NEW m \in 1..Len(mappings), NEW n \in Names, NEW rn \in held, Param(m, n, rn)
  PROVE  IInv'
  <1> DEFINE x == [name |-> n, rname |-> rn, unit |-> FALSE]
  <1>1. x \in Parameter /\ ~x.unit
    BY DEF IInv, Parameter
  <1>2. mappings' = [mappings EXCEPT ![m].params = Push(List(m), x)]
    BY DEF Param, List
  <1> HIDE DEF x
  <1>3. mappings' \in Seq(MappingRecord) /\ \A k \in 1..Len(mappings') : GoodMapping(k)'
    BY <1>1, <1>2, PushParameter
  <1> QED BY <1>3, Unchanged DEF Param

LEMMA MakeParameterStep ==
  ASSUME IInv, NEW m \in 1..Len(mappings), NEW n \in Names, NEW t \in Types,
         MakeParameter(m, n, t)
  PROVE  IInv'
  <1> DEFINE x == [name |-> n, rname |-> RnameForNextParam(m, t), unit |-> TRUE]
  <1>1. x \in Parameter /\ x.rname.position = List(m).count
    BY RnameTyped DEF Parameter
  <1>2. mappings' = [mappings EXCEPT ![m].params = Push(List(m), x)]
    BY DEF MakeParameter, List
  <1> HIDE DEF x
  <1>3. mappings' \in Seq(MappingRecord) /\ \A k \in 1..Len(mappings') : GoodMapping(k)'
    BY <1>1, <1>2, PushParameter
  <1> QED BY <1>3, Unchanged DEF MakeParameter

\* Enumerators and bases are numbered by the count of those before.
LEMMA PushNumbered ==
  ASSUME NEW S, NEW l, GoodList(l, S), Numbered(l), NEW x \in S, Raw \notin S, x.position = l.count
  PROVE  GoodList(Push(l, x), S) /\ Numbered(Push(l, x))
  <1>1. l.count \in Nat /\ l.count = Len(l.added)
    BY DEF GoodList, ListOf, InStep
  <1>2. /\ GoodList(Push(l, x), S)
        /\ Len(Push(l, x).added) = l.count + 1
        /\ \A i \in 1..l.count : Push(l, x).added[i] = l.added[i]
        /\ Push(l, x).added[l.count + 1] = x
    BY PushGood
  <1>3. ASSUME NEW i \in 1..(l.count + 1)
        PROVE  Push(l, x).added[i].position = i - 1
    <2>1. CASE i \in 1..l.count
      BY <2>1, <1>1, <1>2 DEF Numbered
    <2>2. CASE i = l.count + 1
      BY <2>2, <1>1, <1>2
    <2> QED BY <2>1, <2>2, <1>1
  <1> QED BY <1>2, <1>3 DEF Numbered

LEMMA SameMappings ==
  ASSUME IInv, UNCHANGED mappings
  PROVE  mappings' \in Seq(MappingRecord) /\ \A k \in 1..Len(mappings') : GoodMapping(k)'
  BY DEF IInv, GoodMapping, List

LEMMA AddEnumeratorStep ==
  ASSUME IInv, NEW n \in Names, AddEnumerator(n)
  PROVE  IInv'
  <1> DEFINE x == [name |-> n, position |-> enumerators.count]
  <1>1. x \in Enumerator /\ x.position = enumerators.count
    BY DEF IInv, GoodList, ListOf, Enumerator
  <1> HIDE DEF x
  <1>2. enumerators' = Push(enumerators, x)
    BY DEF AddEnumerator, x
  <1>3. GoodList(enumerators', Enumerator) /\ Numbered(enumerators')
    BY <1>1, <1>2, NoMemberRaw, PushNumbered DEF IInv
  <1>4. UNCHANGED <<mappings, bases, held, throws>>
    BY DEF AddEnumerator
  <1> QED BY <1>3, <1>4, SameMappings DEF IInv, GoodList, Numbered

LEMMA DeclareBaseStep ==
  ASSUME IInv, NEW t \in Types, DeclareBase(t)
  PROVE  IInv'
  <1> DEFINE x == [name |-> t, position |-> bases.count]
  <1>1. x \in BaseType /\ x.position = bases.count
    BY DEF IInv, GoodList, ListOf, BaseType
  <1> HIDE DEF x
  <1>2. bases' = Push(bases, x)
    BY DEF DeclareBase, x
  <1>3. GoodList(bases', BaseType) /\ Numbered(bases')
    BY <1>1, <1>2, NoMemberRaw, PushNumbered DEF IInv
  <1>4. UNCHANGED <<mappings, enumerators, held, throws>>
    BY DEF DeclareBase
  <1> QED BY <1>3, <1>4, SameMappings DEF IInv, GoodList, Numbered

LEMMA ThrowsNumbered ==
  ASSUME NEW S, NEW l, GoodList(l, S), Numbered(l)
  PROVE  GoodList(PushThrows(l), S) /\ Numbered(PushThrows(l))
  BY PushThrowsGood DEF Numbered

LEMMA ThrowStep == IInv /\ Throw => IInv'
  <1> SUFFICES ASSUME IInv, Throw PROVE IInv'
    OBVIOUS
  <1>1. throws' \in 0..MaxThrows /\ held' = held
    BY MaxThrowsAssumption DEF Throw, IInv
  <1>2. CASE enumerators' = PushThrows(enumerators) /\ UNCHANGED <<mappings, bases>>
    <2>1. GoodList(enumerators', Enumerator) /\ Numbered(enumerators')
      BY <1>2, ThrowsNumbered DEF IInv
    <2> QED BY <2>1, <1>1, <1>2, SameMappings DEF IInv, GoodList, Numbered
  <1>3. CASE bases' = PushThrows(bases) /\ UNCHANGED <<mappings, enumerators>>
    <2>1. GoodList(bases', BaseType) /\ Numbered(bases')
      BY <1>3, ThrowsNumbered DEF IInv
    <2> QED BY <2>1, <1>1, <1>3, SameMappings DEF IInv, GoodList, Numbered
  <1>4. ASSUME NEW m \in DOMAIN mappings,
               mappings' = [mappings EXCEPT ![m].params = PushThrows(mappings[m].params)],
               UNCHANGED <<enumerators, bases>>
        PROVE  IInv'
    <2>1. m \in 1..Len(mappings)
      BY LenProperties DEF IInv
    <2> DEFINE l == List(m)
    <2> DEFINE r == [level |-> mappings[m].level, params |-> PushThrows(l)]
    <2>2. GoodList(l, Parameter) /\ mappings[m] \in MappingRecord
      BY <2>1, ListGood
    <2>3. GoodList(PushThrows(l), Parameter) /\ PushThrows(l).added = l.added
      BY <2>2, PushThrowsGood
    <2>4. mappings' = [mappings EXCEPT ![m] = r]
      BY <1>4, <2>1, MappingChange DEF List
    <2>5. r \in MappingRecord /\ r.params = PushThrows(l)
      BY <2>2, <2>3 DEF MappingRecord, GoodList
    <2>6. InStep(r.params)
      BY <2>3, <2>5 DEF GoodList
    <2>7. RnamesNumbered(r.params)
      BY <2>1, <2>3, <2>5 DEF IInv, GoodMapping, RnamesNumbered
    <2> HIDE DEF r
    <2>8. mappings' \in Seq(MappingRecord) /\ \A k \in 1..Len(mappings') : GoodMapping(k)'
      BY <2>1, <2>4, <2>5, <2>6, <2>7, OneMapping
    <2> QED BY <2>8, <1>1, <1>4 DEF IInv, GoodList, Numbered
  <1> QED BY <1>2, <1>3, <1>4 DEF Throw

-----------------------------------------------------------------------------
\* The lists, the mappings and their numbers are as IInv says in every state.
THEOREM Invariance == Spec => []IInv
  <1>1. Init => IInv
    <2> SUFFICES ASSUME Init PROVE IInv
      OBVIOUS
    <2>1. mappings \in Seq(MappingRecord) /\ Len(mappings) = 0
      BY EmptySeq DEF Init
    <2>2. GoodList(enumerators, Enumerator) /\ GoodList(bases, BaseType)
      BY EmptyGood DEF Init
    <2>3. Numbered(enumerators) /\ Numbered(bases)
      BY EmptySeq DEF Init, Empty, Numbered
    <2> QED BY <2>1, <2>2, <2>3, MaxThrowsAssumption DEF Init, IInv
  <1>2. IInv /\ [Next]_vars => IInv'
    <2> SUFFICES ASSUME IInv, [Next]_vars PROVE IInv'
      OBVIOUS
    <2>1. \A m \in DOMAIN mappings : m \in 1..Len(mappings)
      BY LenProperties DEF IInv
    <2>2. CASE MakeMapping
      BY <2>2, MakeMappingStep
    <2>3. ASSUME NEW m \in DOMAIN mappings, NEW t \in Types, AskRname(m, t)
          PROVE  IInv'
      BY <2>1, <2>3, AskRnameStep
    <2>4. ASSUME NEW m \in DOMAIN mappings, NEW n \in Names, NEW rn \in held, Param(m, n, rn)
          PROVE  IInv'
      BY <2>1, <2>4, ParamStep
    <2>5. ASSUME NEW m \in DOMAIN mappings, NEW n \in Names, NEW t \in Types,
                 MakeParameter(m, n, t)
          PROVE  IInv'
      BY <2>1, <2>5, MakeParameterStep
    <2>6. ASSUME NEW n \in Names, AddEnumerator(n)
          PROVE  IInv'
      BY <2>6, AddEnumeratorStep
    <2>7. ASSUME NEW t \in Types, DeclareBase(t)
          PROVE  IInv'
      BY <2>7, DeclareBaseStep
    <2>8. CASE Throw
      BY <2>8, ThrowStep
    <2>9. CASE UNCHANGED vars
      BY <2>9, SameMappings DEF vars, IInv, GoodList, Numbered
    <2> QED BY <2>2, <2>3, <2>4, <2>5, <2>6, <2>7, <2>8, <2>9 DEF Next
  <1> QED BY <1>1, <1>2, PTL DEF Spec

\* Every list of a mapping, of an enum or of a class is good.
LEMMA EveryList ==
  ASSUME IInv, NEW l \in Lists
  PROVE  \E S : GoodList(l, S)
  <1>1. CASE l = enumerators \/ l = bases
    BY <1>1 DEF IInv
  <1>2. ASSUME NEW m \in DOMAIN mappings, l = List(m)
        PROVE  \E S : GoodList(l, S)
    <2>1. m \in 1..Len(mappings)
      BY LenProperties DEF IInv
    <2> QED BY <2>1, <1>2, ListGood
  <1> QED BY <1>1, <1>2 DEF Lists

\* What a good list has at an index.
LEMMA GetGood ==
  ASSUME NEW S, NEW l, GoodList(l, S), NEW i \in 1..l.count
  PROVE  /\ Get(l, i - 1) = l.nodes[i]
         /\ i \in 1..Len(l.nodes) /\ InPlace(l, i)
         /\ DOMAIN l.added = 1..l.count
  <1>1. /\ l.count \in Nat /\ l.count = Len(l.added) /\ Len(l.nodes) \in Nat
        /\ DOMAIN l.added = 1..Len(l.added)
    BY LenProperties DEF GoodList, ListOf, InStep
  <1>2. l.count <= Len(l.nodes)
    BY <1>1, FailedCounts DEF GoodList, InStep
  <1>3. Get(l, i - 1) = l.nodes[i]
    BY <1>1 DEF Get
  <1> QED BY <1>1, <1>2, <1>3 DEF GoodList, InStep

\* What it has as long as no insertion failed.
LEMMA GetSound ==
  ASSUME NEW S, NEW l, GoodList(l, S), NEW k \in 1..l.count, Failed(l, k) = 0, NEW i \in 1..k
  PROVE  Get(l, i - 1) = l.added[i] /\ l.nodes[i] # Raw /\ i \in 1..l.count
  <1>1. l.count \in Nat /\ k \in Nat /\ i \in Nat /\ i \in 1..l.count
    BY DEF GoodList, ListOf
  <1>2. \A j \in 1..k : l.nodes[j] # Raw
    BY <1>1, FailedCounts
  <1>3. Failed(l, i) = 0 /\ l.nodes[i] # Raw
    BY <1>1, <1>2, FailedCounts
  <1>4. Get(l, i - 1) = l.nodes[i] /\ InPlace(l, i)
    BY <1>1, GetGood
  <1> QED BY <1>1, <1>3, <1>4 DEF InPlace

\* Lists, mappings and Rnames are of their types.
THEOREM TypeCorrect == Spec => []TypeOK
  <1>1. IInv => TypeOK
    <2> SUFFICES ASSUME IInv PROVE TypeOK
      OBVIOUS
    <2>1. ASSUME NEW m \in DOMAIN mappings
          PROVE  /\ mappings[m].level \in Levels \cup {0}
                 /\ ToSet(List(m).added) \subseteq Parameter
      <3>1. m \in 1..Len(mappings)
        BY LenProperties DEF IInv
      <3>2. mappings[m] \in MappingRecord /\ List(m).added \in Seq(Parameter)
        BY <3>1, ListGood DEF GoodList, ListOf
      <3> QED BY <3>2, LenProperties DEF MappingRecord, ToSet
    <2>2. ToSet(enumerators.added) \subseteq Enumerator /\ ToSet(bases.added) \subseteq BaseType
      BY LenProperties DEF IInv, GoodList, ListOf, ToSet
    <2>3. ASSUME NEW l \in Lists
          PROVE  l.count \in 0..Len(l.nodes)
      <3>1. PICK S : GoodList(l, S)
        BY EveryList
      <3>2. l.count \in Nat /\ Len(l.nodes) \in Nat
        BY <3>1, LenProperties DEF GoodList, ListOf
      <3>3. Failed(l, Len(l.nodes)) \in Nat /\ Len(l.nodes) = l.count + Failed(l, Len(l.nodes))
        BY <3>1, <3>2, FailedCounts DEF GoodList, InStep
      <3> QED BY <3>2, <3>3
    <2> QED BY <2>1, <2>2, <2>3 DEF TypeOK, IInv
  <1> QED BY <1>1, Invariance, PTL

\* At each index homogeneous_scope::operator[] gives the raw node of an insertion
\* that failed, or the member added as many places earlier as insertions failed
\* before it; while position() of enumerators and bases, and the Rnames that
\* Unit::make_parameter chooses, are places in the order of addition.
THEOREM MembersInOrder == Spec => []GetsMember
  <1>1. IInv => GetsMember
    <2> SUFFICES ASSUME IInv PROVE GetsMember
      OBVIOUS
    <2>1. ASSUME NEW l \in Lists
          PROVE  /\ l.count = Len(l.added)
                 /\ \A i \in 1..l.count :
                      l.nodes[i] = Raw \/ Get(l, i - 1) = l.added[i - Failed(l, i)]
      <3>1. PICK S : GoodList(l, S)
        BY EveryList
      <3>2. l.count = Len(l.added)
        BY <3>1 DEF GoodList, InStep
      <3>3. ASSUME NEW i \in 1..l.count
            PROVE  l.nodes[i] = Raw \/ Get(l, i - 1) = l.added[i - Failed(l, i)]
        BY <3>1, GetGood DEF InPlace
      <3> QED BY <3>2, <3>3
    <2>2. \A l \in {enumerators, bases} : \A i \in DOMAIN l.added : l.added[i].position = i - 1
      <3>1. /\ DOMAIN enumerators.added = 1..Len(enumerators.added)
            /\ DOMAIN bases.added = 1..Len(bases.added)
        BY LenProperties DEF IInv, GoodList, ListOf
      <3> QED BY <3>1 DEF IInv, Numbered
    <2>3. ASSUME NEW m \in DOMAIN mappings, NEW i \in DOMAIN List(m).added, List(m).added[i].unit
          PROVE  List(m).added[i].rname.position = i - 1
      <3>1. m \in 1..Len(mappings)
        BY LenProperties DEF IInv
      <3>2. DOMAIN List(m).added = 1..Len(List(m).added)
        BY <3>1, ListGood, LenProperties DEF GoodList, ListOf
      <3> QED BY <3>1, <3>2, <2>3 DEF IInv, GoodMapping, RnamesNumbered
    <2> QED BY <2>1, <2>2, <2>3 DEF GetsMember
  <1> QED BY <1>1, Invariance, PTL

\* A set of natural numbers has a least one, which Min chooses.
LEMMA MinProperties ==
  ASSUME NEW S \in SUBSET Nat, S # {}
  PROVE  Min(S) \in S /\ \A y \in S : Min(S) <= y
  <1> DEFINE R == OpToRel(<, Nat)
  <1>1. IsWellFoundedOn(R, Nat)
    BY NatLessThanWellFounded
  <1>2. \A x, y \in Nat : y < x => <<y, x>> \in R
    BY DEF OpToRel
  <1> HIDE DEF R
  <1>3. PICK x \in S : \A y \in S : ~ (<<y, x>> \in R)
    BY <1>1, WFMin
  <1>4. ASSUME NEW y \in S
        PROVE  x <= y
    <2>1. x \in Nat /\ y \in Nat
      OBVIOUS
    <2>2. ~ (y < x)
      BY <1>2, <1>3, <2>1, Zenon
    <2> QED BY <2>1, <2>2
  <1> QED BY <1>4 DEF Min

\* A name is looked up to the first member added with it, to none when no member
\* has it, or to the raw node of the first insertion that failed before either:
\* homogeneous_scope::operator[] of a name.
THEOREM FirstFound == Spec => []FindsFirst
  <1>1. ASSUME NEW S, NEW l, GoodList(l, S), NEW n
        PROVE  LET named == {i \in DOMAIN l.added : l.added[i].name = n}
                   found == IF named = {} THEN Throws ELSE l.added[Min(named)]
                   last == IF named = {} THEN l.count ELSE Min(named)
               IN  Lookup(l, n) = IF Failed(l, last) = 0 THEN found ELSE Raw
    <2> DEFINE named == {i \in DOMAIN l.added : l.added[i].name = n}
    <2> DEFINE found == IF named = {} THEN Throws ELSE l.added[Min(named)]
    <2> DEFINE last == IF named = {} THEN l.count ELSE Min(named)
    <2> DEFINE stops == {p \in 0..(l.count - 1) : Get(l, p) = Raw \/ Get(l, p).name = n}
    <2>1. l.count \in Nat /\ DOMAIN l.added = 1..l.count
      BY <1>1, LenProperties DEF GoodList, ListOf, InStep
    \* Where the search stops, and at none before.
    <2>2. ASSUME NEW k \in 1..l.count, l.nodes[k] = Raw \/ l.nodes[k].name = n,
                 \A i \in 1..(k - 1) : l.nodes[i] # Raw /\ l.nodes[i].name # n
          PROVE  Lookup(l, n) = l.nodes[k]
      <3>1. \A i \in 1..l.count : Get(l, i - 1) = l.nodes[i]
        BY <1>1, GetGood
      <3>2. k - 1 \in stops
        BY <2>1, <2>2, <3>1
      <3>3. ASSUME NEW p \in stops, p < k - 1
            PROVE  FALSE
        <4>1. p + 1 \in 1..(k - 1) /\ p + 1 \in 1..l.count /\ (p + 1) - 1 = p
          BY <2>1, <3>3
        <4>2. Get(l, p) = l.nodes[p + 1]
          BY <3>1, <4>1
        <4> QED BY <2>2, <3>3, <4>1, <4>2
      <3>4. Min(stops) = k - 1
        <4>1. stops \in SUBSET Nat /\ stops # {} /\ \A p \in stops : p \in Nat
          BY <3>2, <2>1
        <4> HIDE DEF stops
        <4>2. Min(stops) \in stops /\ Min(stops) <= k - 1
          BY <3>2, <4>1, MinProperties
        <4>3. ~(Min(stops) < k - 1)
          BY <3>3, <4>2
        <4>4. Min(stops) \in Nat
          BY <4>1, <4>2
        <4>5. k \in Nat
          BY <2>1
        <4> QED BY <4>2, <4>3, <4>4, <4>5
      <3>5. Lookup(l, n) = Get(l, k - 1)
        BY <3>2, <3>4 DEF Lookup
      <3> QED BY <3>1, <3>5
    <2>3. ASSUME named # {}
          PROVE  /\ Min(named) \in 1..l.count /\ l.added[Min(named)].name = n
                 /\ \A i \in 1..l.count : l.added[i].name = n => Min(named) <= i
      <3>1. named \in SUBSET Nat
        BY <2>1
      <3> HIDE DEF named
      <3>2. Min(named) \in named /\ \A i \in named : Min(named) <= i
        BY <3>1, <2>3, MinProperties
      <3> QED BY <3>2, <2>1 DEF named
    <2>4. /\ last \in 0..l.count
          /\ \A i \in 1..l.count : l.added[i].name = n => last <= i /\ named # {}
      <3>1. CASE named = {}
        BY <3>1, <2>1
      <3>2. CASE named # {}
        BY <3>2, <2>1, <2>3
      <3> QED BY <3>1, <3>2
    <2>5. ASSUME NEW k \in 1..last, \A i \in 1..k : l.nodes[i] # Raw
          PROVE  l.nodes[k] = l.added[k] /\ k \in 1..l.count
      <3>1. k \in 1..l.count /\ k \in Nat /\ k \in 1..k
        BY <2>1, <2>4
      <3>2. Failed(l, k) = 0
        BY <2>5, <3>1, FailedCounts
      <3> QED BY <3>1, <3>2, <1>1, GetSound, GetGood
    <2>6. CASE Failed(l, last) = 0
      <3>1. \A i \in 1..last : l.nodes[i] # Raw
        BY <2>4, <2>6, FailedCounts
      <3>2. \A k \in 1..last : l.nodes[k] = l.added[k] /\ k \in 1..l.count
        <4> SUFFICES ASSUME NEW k \in 1..last PROVE l.nodes[k] = l.added[k] /\ k \in 1..l.count
          OBVIOUS
        <4>1. last \in Nat
          BY <2>1, <2>4
        <4> HIDE DEF last
        <4>2. \A i \in 1..k : l.nodes[i] # Raw
          BY <3>1, <4>1
        <4> QED BY <2>5, <4>2
      <3>3. CASE named # {}
        <4>1. last = Min(named) /\ found = l.added[last] /\ last \in 1..l.count /\ last \in 1..last
          BY <2>3, <3>3
        <4> HIDE DEF named, last, found
        <4>2. l.nodes[last] = l.added[last] /\ l.added[last].name = n
          BY <2>3, <3>2, <3>3, <4>1
        <4>3. \A i \in 1..(last - 1) : l.nodes[i] # Raw /\ l.nodes[i].name # n
          BY <2>4, <3>1, <3>2, <4>1
        <4>4. Lookup(l, n) = l.nodes[last]
          BY <2>2, <4>1, <4>2, <4>3
        <4> QED BY <2>6, <4>1, <4>2, <4>4 DEF named, last, found
      <3>4. CASE named = {}
        <4>1. ASSUME NEW p \in stops
              PROVE  FALSE
          <5>1. p + 1 \in 1..l.count /\ (p + 1) - 1 = p /\ last = l.count
            BY <2>1, <3>4
          <5>2. Get(l, p) = l.nodes[p + 1]
            BY <5>1, <1>1, GetGood
          <5>3. l.nodes[p + 1] = l.added[p + 1] /\ l.nodes[p + 1] # Raw
            BY <3>1, <3>2, <5>1
          <5>4. p + 1 \in named
            BY <2>1, <4>1, <5>1, <5>2, <5>3
          <5> QED BY <3>4, <5>4
        <4> QED BY <2>6, <3>4, <4>1 DEF Lookup
      <3> QED BY <3>3, <3>4
    <2>7. CASE Failed(l, last) # 0
      <3> DEFINE raw == {i \in 1..last : l.nodes[i] = Raw}
      <3>1. raw # {} /\ raw \in SUBSET Nat
        <4>1. last \in Nat
          BY <2>1, <2>4
        <4> HIDE DEF last
        <4>2. ~ \A j \in 1..last : l.nodes[j] # Raw
          BY <2>7, <4>1, FailedCounts
        <4> QED BY <4>1, <4>2
      <3> DEFINE k == Min(raw)
      <3>2. k \in raw /\ \A i \in raw : k <= i
        BY <3>1, MinProperties
      <3>3. k \in 1..last /\ l.nodes[k] = Raw /\ \A i \in 1..last : l.nodes[i] = Raw => k <= i
        BY <3>2
      <3> HIDE DEF k, raw
      <3>4. k \in 1..l.count /\ k \in Nat /\ last \in Nat
        BY <2>1, <2>4, <3>3
      <3>5. ASSUME NEW i \in 1..(k - 1)
            PROVE  l.nodes[i] # Raw /\ l.nodes[i].name # n
        <4> HIDE DEF last
        <4>1. i \in 1..last /\ i < k /\ \A j \in 1..i : j \in 1..last /\ j < k
          BY <3>3, <3>4
        <4>2. \A j \in 1..i : l.nodes[j] # Raw
          BY <3>3, <3>4, <4>1
        <4>3. l.nodes[i] = l.added[i] /\ i \in 1..l.count
          BY <2>5, <4>1, <4>2
        <4>4. l.added[i].name # n
          <5>1. ~(last <= i)
            BY <3>3, <3>4, <4>1
          <5> QED BY <2>4, <4>3, <5>1
        <4> QED BY <4>1, <4>2, <4>3, <4>4
      <3>6. Lookup(l, n) = Raw
        BY <2>2, <3>3, <3>4, <3>5
      <3> QED BY <2>7, <3>6
    <2> QED BY <2>6, <2>7
  <1>2. IInv => FindsFirst
    <2> SUFFICES ASSUME IInv PROVE FindsFirst
      OBVIOUS
    <2>1. \A l \in Lists : \E S : GoodList(l, S)
      BY EveryList
    <2> QED BY <2>1, <1>1 DEF FindsFirst
  <1> QED BY <1>2, Invariance, PTL
=============================================================================
