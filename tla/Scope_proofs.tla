----------------------------- MODULE Scope_proofs -----------------------------
(***************************************************************************)
(* What holds of a scope for every bound on names, declarations and         *)
(* failures.  An overload set is never found again, as its identifier is    *)
(* that of no name; hence every call works on an overload set and a master  *)
(* of its own, and what an abandoned call leaves is in nobody's way.        *)
(***************************************************************************)
EXTENDS Scope, SequenceTheorems, FiniteSetTheorems, TLAPS

\* The call in progress has its overload set, its master, its declaration.
HasOverload == pc \in {"lookup", "decl", "entry", "master", "member"}
HasMaster == pc \in {"decl", "entry", "master", "member"}
HasDecl == pc \in {"entry", "master", "member"}

\* The pointers a call in progress holds are those it needs.
Pointers ==
  /\ pc = "overload" => asked.name \in names
  /\ HasOverload => ovl \in OverloadId
  /\ HasMaster => mst \in MasterId
  /\ HasDecl => dec \in DeclId

TInv == TypeOK /\ FreshIds /\ Pointers

-----------------------------------------------------------------------------
\* Whatever the scope consists of stays of its kind as the scope grows.
LEMMA Grown ==
  ASSUME TypeOK, count' \in Nat, count <= count', names \subseteq names',
         OverloadId \subseteq OverloadId', MasterId \subseteq MasterId', DeclId \subseteq DeclId'
  PROVE  /\ overloads \in Seq(Overload')
         /\ masters \in Seq(Master')
         /\ decls \in Seq(Decl')
         /\ Request \subseteq Request'
         /\ declared \subseteq [request : Request', decl : DeclId']
         /\ asked \in Request'
         /\ ovl \in OverloadId' \cup {0} /\ mst \in MasterId' \cup {0} /\ dec \in DeclId' \cup {0}
         /\ members \subseteq DeclId'
  <1>1. Seq(MasterId) \subseteq Seq(MasterId') /\ Seq(DeclId) \subseteq Seq(DeclId')
    BY SeqMonotonic
  <1>2. 1..count \subseteq 1..count'
    BY DEF TypeOK
  <1>3. Overload \subseteq Overload'
    BY <1>1, <1>2 DEF Overload
  <1>4. Master \subseteq Master' /\ Decl \subseteq Decl'
    BY <1>1 DEF Master, Decl
  <1>5. Request \subseteq Request'
    BY DEF Request
  <1>6. overloads \in Seq(Overload) /\ masters \in Seq(Master) /\ decls \in Seq(Decl)
    BY DEF TypeOK
  <1>7. overloads \in Seq(Overload') /\ masters \in Seq(Master') /\ decls \in Seq(Decl')
    BY <1>3, <1>4, <1>6, SeqMonotonic
  <1> QED BY <1>5, <1>7 DEF TypeOK

LEMMA InitTInv == Init => TInv
  <1> SUFFICES ASSUME Init PROVE TInv
    OBVIOUS
  <1>1. overloads \in Seq(Overload) /\ masters \in Seq(Master) /\ decls \in Seq(Decl)
    BY EmptySeq DEF Init
  <1>2. NoRequest \in Request
    BY NoTypeAssumption DEF NoRequest, Request
  <1>3. OverloadId = {}
    BY DEF Init, OverloadId
  <1> QED
    BY <1>1, <1>2, <1>3, BoundAssumption
    DEF Init, TInv, TypeOK, FreshIds, Pointers, HasOverload, HasMaster, HasDecl

\* The sequences of the scope, as the provers know them.
LEMMA Shape ==
  ASSUME TypeOK
  PROVE  /\ OverloadId = 1..Len(overloads) /\ Len(overloads) \in Nat
         /\ MasterId = 1..Len(masters) /\ Len(masters) \in Nat
         /\ DeclId = 1..Len(decls) /\ Len(decls) \in Nat
         /\ \A o \in OverloadId : overloads[o] \in Overload
         /\ \A m \in MasterId : masters[m] \in Master
         /\ \A d \in DeclId : decls[d] \in Decl
  BY ElementOfSeq, LenProperties DEF TypeOK, OverloadId, MasterId, DeclId

\* What AddMember, InsertEntry and PushMaster change of a record.
LEMMA Updated ==
  /\ \A d \in Decl, i \in Nat : [d EXCEPT !.scope_pos = i] \in Decl
  /\ \A o \in Overload, m \in MasterId :
       /\ [o EXCEPT !.entries = o.entries \cup {m}] \in Overload
       /\ [o EXCEPT !.entries = o.entries \cup {m}].id = o.id
       /\ [o EXCEPT !.masters = Append(o.masters, m)] \in Overload
       /\ [o EXCEPT !.masters = Append(o.masters, m)].id = o.id
  <1>1. ASSUME NEW d \in Decl, NEW i \in Nat PROVE [d EXCEPT !.scope_pos = i] \in Decl
    BY DEF Decl
  <1>2. ASSUME NEW o \in Overload, NEW m \in MasterId
        PROVE  /\ [o EXCEPT !.entries = o.entries \cup {m}] \in Overload
               /\ [o EXCEPT !.entries = o.entries \cup {m}].id = o.id
    BY DEF Overload
  <1>3. ASSUME NEW o \in Overload, NEW m \in MasterId
        PROVE  /\ [o EXCEPT !.masters = Append(o.masters, m)] \in Overload
               /\ [o EXCEPT !.masters = Append(o.masters, m)].id = o.id
    <2>1. o.masters \in Seq(MasterId)
      BY DEF Overload
    <2>2. Append(o.masters, m) \in Seq(MasterId)
      BY <2>1
    <2> QED BY <2>2 DEF Overload
  <1> QED BY <1>1, <1>2, <1>3

LEMMA TInvStep == TInv /\ [Next]_vars => TInv'
  <1> SUFFICES ASSUME TInv, [Next]_vars PROVE TInv'
    OBVIOUS
  <1> USE DEF TInv
  <1>0. Request = [name : names \cup {0}, type : Types] /\ NoRequest \in Request'
    BY NoTypeAssumption DEF NoRequest, Request
  <1> DEFINE Same == UNCHANGED <<overloads, masters, decls>>
  <1>a. ASSUME Same
        PROVE  OverloadId' = OverloadId /\ MasterId' = MasterId /\ DeclId' = DeclId
    BY <1>a DEF OverloadId, MasterId, DeclId
  <1>1. CASE MakeName
    <2>1. count' = count + 1 /\ names' = names \cup {count'} /\ Same /\ pc' = "idle"
      BY <1>1 DEF MakeName, scope
    <2>2. UNCHANGED <<members, size, asked, ovl, mst, dec, failures, declared, pc>>
      BY <1>1 DEF MakeName, scope, local
    <2>3. count' \in Nat /\ count <= count' /\ names \subseteq names' /\ names' \subseteq 1..count'
      BY <2>1 DEF TypeOK
    <2>4. TypeOK'
      BY <1>a, <2>1, <2>2, <2>3, Grown DEF TypeOK
    <2>5. FreshIds'
      <3>1. \A o \in OverloadId : overloads[o].id \in 1..count
        BY Shape DEF Overload
      <3> QED BY <1>a, <2>1, <3>1 DEF FreshIds, TypeOK
    <2> QED BY <2>1, <2>4, <2>5 DEF Pointers, HasOverload, HasMaster, HasDecl
  <1>2. ASSUME NEW n \in names, NEW t \in Types, Declare(n, t)
        PROVE  TInv'
    <2>1. Same /\ UNCHANGED <<count, names, members, size, ovl, mst, dec, failures, declared>>
      BY <1>2 DEF Declare, scope
    <2>2. asked' = [name |-> n, type |-> t] /\ pc' = "overload"
      BY <1>2 DEF Declare
    <2>3. asked' \in Request'
      BY <2>1, <2>2 DEF Request
    <2>4. TypeOK'
      BY <1>a, <2>1, <2>2, <2>3, Grown DEF TypeOK
    <2> QED BY <1>a, <2>1, <2>2, <2>4 DEF FreshIds, Pointers, HasOverload, HasMaster, HasDecl
  <1>3. CASE FindOverload
    <2>1. pc = "overload" /\ pc' = "lookup" /\ asked.name \in names
      BY <1>3 DEF FindOverload, Pointers
    <2>2. UNCHANGED <<names, masters, decls, members, size, asked, mst, dec, failures, declared>>
      BY <1>3 DEF FindOverload
    <2>3. MasterId' = MasterId /\ DeclId' = DeclId
      BY <2>2 DEF MasterId, DeclId
    <2>4. CASE Named(asked.name) # {}
      BY <2>1, <2>4 DEF Named, SameName, OverloadId, FreshIds
    <2>5. CASE Named(asked.name) = {}
      <3> DEFINE o == [id |-> count', name |-> asked.name, entries |-> {}, masters |-> <<>>]
      <3>1. count' = count + 1 /\ overloads' = Append(overloads, o) /\ ovl' = Len(overloads')
        BY <2>5, <1>3 DEF FindOverload
      <3>2. count' \in Nat /\ count <= count' /\ 1..count \subseteq 1..count'
        BY <3>1 DEF TypeOK
      <3>3. o \in Overload'
        BY <2>1, <2>2, <3>1, <3>2, EmptySeq DEF Overload, TypeOK
      <3>4. Len(overloads') = Len(overloads) + 1 /\ overloads'[Len(overloads) + 1] = o
            /\ \A i \in OverloadId : overloads'[i] = overloads[i]
        <4> HIDE DEF o
        <4> QED BY <3>1, Shape DEF TypeOK
      <3>5. OverloadId \subseteq OverloadId' /\ ovl' \in OverloadId'
            /\ OverloadId' = OverloadId \cup {ovl'}
        <4>1. OverloadId' = 1..Len(overloads')
          <5> HIDE DEF o
          <5> QED BY <3>1, Shape DEF OverloadId, TypeOK
        <4> QED BY <3>1, <3>4, <4>1, Shape
      <3>6. overloads \in Seq(Overload')
        BY <2>2, <2>3, <3>2, <3>5, Grown
      <3>7. overloads' \in Seq(Overload')
        <4> HIDE DEF o
        <4> QED BY <3>1, <3>3, <3>6
      <3>8. TypeOK'
        BY <2>1, <2>2, <2>3, <3>2, <3>5, <3>7, Grown DEF TypeOK
      <3>9. FreshIds'
        <4>1. \A i \in OverloadId : overloads[i].id \in 1..count
          BY Shape DEF Overload
        <4>2. overloads'[ovl'].id = count + 1
          BY <3>1, <3>4
        <4>3. \A i \in OverloadId : overloads'[i].id # count + 1 /\ overloads'[i].id = overloads[i].id
          BY <4>1, <3>4 DEF TypeOK
        <4>4. count + 1 \notin names'
          BY <2>2 DEF TypeOK
        <4> QED BY <2>2, <3>5, <4>2, <4>3, <4>4 DEF FreshIds
      <3> QED BY <2>1, <3>5, <3>8, <3>9 DEF Pointers, HasOverload, HasMaster, HasDecl
    <2> QED BY <2>4, <2>5
  <1>4. CASE FindMaster
    <2>1. pc = "lookup" /\ pc' = "decl" /\ ovl \in OverloadId
      BY <1>4 DEF FindMaster, Pointers, HasOverload
    <2>2. UNCHANGED <<count, names, overloads, decls, members, size, asked, ovl, dec, failures, declared>>
      BY <1>4 DEF FindMaster
    <2>3. OverloadId' = OverloadId /\ DeclId' = DeclId
      BY <2>2 DEF OverloadId, DeclId
    <2>4. CASE Entries(ovl, asked.type) # {}
      <3>1. mst' \in MasterId /\ UNCHANGED masters
        <4>1. Entries(ovl, asked.type) \subseteq MasterId
          BY <2>1, Shape DEF Entries, Overload
        <4> QED BY <2>4, <4>1, <1>4 DEF FindMaster
      <3>2. MasterId' = MasterId
        BY <3>1 DEF MasterId
      <3>3. TypeOK'
        BY <2>1, <2>2, <2>3, <3>1, <3>2, Grown DEF TypeOK
      <3> QED BY <2>1, <2>2, <2>3, <3>1, <3>2, <3>3 DEF FreshIds, Pointers, HasOverload, HasMaster, HasDecl
    <2>5. CASE Entries(ovl, asked.type) = {}
      <3> DEFINE m == [overload |-> ovl, type |-> asked.type, declset |-> <<>>, decl |-> 0]
      <3>1. masters' = Append(masters, m) /\ mst' = Len(masters')
        BY <2>5, <1>4 DEF FindMaster
      <3>2. m \in Master'
        BY <1>0, <2>1, <2>3, EmptySeq DEF Master, TypeOK
      <3>3. Len(masters') = Len(masters) + 1 /\ MasterId' = 1..Len(masters')
        <4> HIDE DEF m
        <4> QED BY <3>1, Shape DEF TypeOK, MasterId
      <3>4. MasterId \subseteq MasterId' /\ mst' \in MasterId'
        BY <3>1, <3>3, Shape
      <3>5. masters \in Seq(Master')
        BY <2>2, <2>3, <3>4, Grown DEF TypeOK
      <3>6. masters' \in Seq(Master')
        <4> HIDE DEF m
        <4> QED BY <3>1, <3>2, <3>5
      <3>7. TypeOK'
        BY <2>1, <2>2, <2>3, <3>4, <3>6, Grown DEF TypeOK
      <3> QED BY <2>1, <2>2, <2>3, <3>4, <3>7 DEF FreshIds, Pointers, HasOverload, HasMaster, HasDecl
    <2> QED BY <2>4, <2>5
  <1>5. CASE MakeDecl
    <2> DEFINE d == [master |-> mst, scope_pos |-> -1]
               m == [masters[mst] EXCEPT !.declset = Append(@, dec')]
    <2>1. /\ pc = "decl" /\ pc' \in {"member", "entry"} /\ ovl \in OverloadId /\ mst \in MasterId
          /\ count' = count + 1
          /\ decls' = Append(decls, d) /\ dec' = Len(decls')
          /\ masters' = [masters EXCEPT ![mst] = m]
      BY <1>5 DEF MakeDecl, Pointers, HasOverload, HasMaster
    <2>2. UNCHANGED <<names, overloads, members, size, asked, ovl, mst, failures, declared>>
      BY <1>5 DEF MakeDecl
    <2>3. count' \in Nat /\ count <= count' /\ names' \subseteq 1..count'
      BY <2>1, <2>2 DEF TypeOK
    <2>4. Len(decls') = Len(decls) + 1 /\ DeclId' = 1..Len(decls')
      <3> HIDE DEF d
      <3> QED BY <2>1, Shape DEF TypeOK, DeclId
    <2>5. DeclId \subseteq DeclId' /\ dec' \in DeclId'
      BY <2>1, <2>4, Shape
    <2>6. OverloadId' = OverloadId /\ MasterId' = MasterId
      <3> HIDE DEF m
      <3> QED BY <2>1, <2>2, Shape DEF OverloadId, MasterId, TypeOK
    <2>7. overloads' \in Seq(Overload') /\ masters \in Seq(Master') /\ decls \in Seq(Decl')
      BY <2>2, <2>3, <2>5, <2>6, Grown
    <2>8. masters[mst] \in Master'
      BY <2>1, <2>7, ElementOfSeq, Shape
    <2>9. m \in Master'
      BY <2>5, <2>8 DEF Master
    <2>10. d \in Decl'
      BY <2>1, <2>6 DEF Decl
    <2>11. masters' \in Seq(Master') /\ decls' \in Seq(Decl')
      <3> HIDE DEF m, d
      <3>1. masters' \in Seq(Master')
        BY <2>1, <2>7, <2>9, ExceptSeq, Shape
      <3> QED BY <3>1, <2>1, <2>7, <2>10
    <2>12. TypeOK'
      BY <2>1, <2>2, <2>3, <2>5, <2>6, <2>7, <2>11, Grown DEF TypeOK
    <2> QED BY <2>1, <2>2, <2>5, <2>6, <2>12 DEF FreshIds, Pointers, HasOverload, HasMaster, HasDecl
  <1>6. CASE InsertEntry \/ PushMaster
    <2> DEFINE o == overloads'[ovl]
    <2>1. /\ pc \in {"entry", "master"} /\ pc' \in {"master", "member"}
          /\ ovl \in OverloadId /\ mst \in MasterId /\ dec \in DeclId
          /\ UNCHANGED <<count, names, masters, decls, members, size, asked, ovl, mst, dec, failures, declared>>
      BY <1>6 DEF InsertEntry, PushMaster, Pointers, HasOverload, HasMaster, HasDecl, local
    <2>2. \/ overloads' = [overloads EXCEPT ![ovl] = [overloads[ovl] EXCEPT !.entries = overloads[ovl].entries \cup {mst}]]
          \/ overloads' = [overloads EXCEPT ![ovl] = [overloads[ovl] EXCEPT !.masters = Append(overloads[ovl].masters, mst)]]
      BY <1>6 DEF InsertEntry, PushMaster
    <2>3. MasterId' = MasterId /\ DeclId' = DeclId
      BY <2>1 DEF MasterId, DeclId
    <2>4. overloads[ovl] \in Overload /\ overloads \in Seq(Overload) /\ ovl \in 1..Len(overloads)
      BY <2>1, Shape DEF TypeOK
    <2>5. PICK e \in Overload : overloads' = [overloads EXCEPT ![ovl] = e] /\ e.id = overloads[ovl].id
      <3>1. /\ [overloads[ovl] EXCEPT !.entries = overloads[ovl].entries \cup {mst}] \in Overload
            /\ [overloads[ovl] EXCEPT !.entries = overloads[ovl].entries \cup {mst}].id = overloads[ovl].id
        BY <2>1, <2>4, Updated
      <3>2. /\ [overloads[ovl] EXCEPT !.masters = Append(overloads[ovl].masters, mst)] \in Overload
            /\ [overloads[ovl] EXCEPT !.masters = Append(overloads[ovl].masters, mst)].id = overloads[ovl].id
        BY <2>1, <2>4, Updated
      <3> QED BY <2>2, <2>4, <3>1, <3>2, Zenon
    <2>6. /\ overloads' \in Seq(Overload) /\ Len(overloads') = Len(overloads)
          /\ \A i \in OverloadId : overloads'[i].id = overloads[i].id
      BY <2>4, <2>5, ExceptSeq, Shape
    <2>7. OverloadId' = OverloadId
      BY <2>6, Shape, LenProperties DEF OverloadId
    <2>8. Overload' = Overload
      BY <2>1, <2>3 DEF Overload
    <2>9. TypeOK'
      BY <2>1, <2>3, <2>6, <2>7, <2>8, Grown DEF TypeOK
    <2>10. FreshIds'
      BY <2>1, <2>6, <2>7 DEF FreshIds
    <2> QED BY <2>1, <2>3, <2>7, <2>9, <2>10 DEF Pointers, HasOverload, HasMaster, HasDecl
  <1>7. CASE AddMember
    <2>1. pc = "member" /\ dec \in DeclId
      BY <1>7 DEF AddMember, Pointers, HasDecl
    <2>2. /\ decls' = [decls EXCEPT ![dec] = [@ EXCEPT !.scope_pos = size]]
          /\ members' = members \cup {dec} /\ size' = size + 1
          /\ declared' = declared \cup {[request |-> asked, decl |-> dec]}
          /\ pc' = "idle" /\ asked' = NoRequest /\ ovl' = 0 /\ mst' = 0 /\ dec' = 0
          /\ UNCHANGED <<count, names, overloads, masters, failures>>
      BY <1>7 DEF AddMember
    <2>3. decls[dec] \in Decl /\ decls \in Seq(Decl) /\ dec \in 1..Len(decls)
      BY <2>1, Shape DEF TypeOK
    <2>4. [decls[dec] EXCEPT !.scope_pos = size] \in Decl
      BY <2>3, Updated DEF TypeOK
    <2>5. decls' \in Seq(Decl) /\ Len(decls') = Len(decls)
      BY <2>2, <2>3, <2>4, ExceptSeq
    <2>6. OverloadId' = OverloadId /\ MasterId' = MasterId /\ DeclId' = DeclId
      BY <2>2, <2>5, Shape, LenProperties DEF OverloadId, MasterId, DeclId
    <2>7. Decl' = Decl
      BY <2>6 DEF Decl
    <2>8. asked \in Request /\ Request' = Request
      BY <2>2 DEF TypeOK, Request
    <2>9. TypeOK'
      BY <1>0, <2>1, <2>2, <2>5, <2>6, <2>7, <2>8, Grown DEF TypeOK
    <2> QED BY <2>2, <2>6, <2>9 DEF FreshIds, Pointers, HasOverload, HasMaster, HasDecl
  <1>8. CASE Throw
    <2>1. /\ failures < MaxFailures /\ failures' = failures + 1 /\ count' \in {count, count + 1}
          /\ pc' = "idle" /\ asked' = NoRequest /\ ovl' = 0 /\ mst' = 0 /\ dec' = 0
          /\ Same /\ UNCHANGED <<names, members, size, declared>>
      BY <1>8 DEF Throw, scope
    <2>2. count' \in Nat /\ count <= count' /\ names' \subseteq 1..count'
      BY <2>1 DEF TypeOK
    <2>3. failures' \in 0..MaxFailures
      BY <2>1, BoundAssumption DEF TypeOK
    <2>4. TypeOK'
      BY <1>0, <1>a, <2>1, <2>2, <2>3, Grown DEF TypeOK
    <2> QED BY <1>a, <2>1, <2>4 DEF FreshIds, Pointers, HasOverload, HasMaster, HasDecl
  <1>9. CASE UNCHANGED vars
    <2>1. Same /\ UNCHANGED <<count, names, members, size, pc, asked, ovl, mst, dec, failures, declared>>
      BY <1>9 DEF vars, scope, local
    <2>2. TypeOK'
      BY <1>a, <2>1, Grown DEF TypeOK
    <2> QED BY <1>a, <2>1, <2>2 DEF FreshIds, Pointers, HasOverload, HasMaster, HasDecl
  <1> QED BY <1>1, <1>2, <1>3, <1>4, <1>5, <1>6, <1>7, <1>8, <1>9 DEF Next

-----------------------------------------------------------------------------
\* The call in progress has an overload set that no declaration in the scope
\* is in, of the name asked for, and fills it with one master, of the type
\* asked for, whose declaration is the latest.
InHand ==
  /\ HasOverload => /\ overloads[ovl].name = asked.name
                    /\ \A d \in members : MasterOf(d).overload # ovl
  /\ pc \in {"lookup", "decl", "entry"} => overloads[ovl].entries = {}
  /\ pc \in {"master", "member"} => overloads[ovl].entries = {mst}
  /\ pc \in {"lookup", "decl", "entry", "master"} => overloads[ovl].masters = <<>>
  /\ pc = "member" => overloads[ovl].masters = <<mst>>
  /\ HasMaster => masters[mst].type = asked.type /\ masters[mst].overload = ovl
  /\ HasDecl => /\ dec = Len(decls) /\ dec \notin members
                /\ decls[dec].master = mst
                /\ \E i \in DOMAIN DeclSet(dec) : DeclSet(dec)[i] = dec

\* The overload set of a declaration in the scope has one entry, its master.
Settled ==
  \A d \in members : /\ OverloadOf(d).entries = {decls[d].master}
                      /\ OverloadOf(d).masters = <<decls[d].master>>

\* What a step keeps of masters, overload sets and declarations.
KeptMasters ==
  \A m \in MasterId :
    /\ m \in MasterId'
    /\ masters'[m].type = masters[m].type /\ masters'[m].overload = masters[m].overload
    /\ \A i \in DOMAIN masters[m].declset :
         i \in DOMAIN masters'[m].declset /\ masters'[m].declset[i] = masters[m].declset[i]

KeptOverloads ==
  \A o \in OverloadId :
    /\ o \in OverloadId' /\ overloads'[o].name = overloads[o].name
    /\ overloads'[o] = overloads[o] \/ (HasOverload /\ o = ovl)

KeptDecls ==
  \A d \in DeclId :
    /\ d \in DeclId' /\ decls'[d].master = decls[d].master
    /\ d \in members => decls'[d] = decls[d]

LEMMA Appended ==
  ASSUME NEW S, NEW s \in Seq(S), NEW x
  PROVE  /\ Len(Append(s, x)) = Len(s) + 1 /\ DOMAIN Append(s, x) = 1..(Len(s) + 1)
         /\ Append(s, x)[Len(s) + 1] = x
         /\ \A i \in 1..Len(s) : Append(s, x)[i] = s[i]
  OBVIOUS

LEMMA Kept == TInv /\ InHand /\ [Next]_vars => KeptMasters /\ KeptOverloads /\ KeptDecls
  <1> SUFFICES ASSUME TInv, InHand, [Next]_vars PROVE KeptMasters /\ KeptOverloads /\ KeptDecls
    OBVIOUS
  <1>1. KeptMasters
    <2>1. CASE UNCHANGED masters
      BY <2>1 DEF KeptMasters, MasterId
    <2>2. CASE FindMaster /\ masters' # masters
      <3>1. PICK x : masters' = Append(masters, x)
        BY <2>2 DEF FindMaster
      <3>2. /\ MasterId' = 1..(Len(masters) + 1)
            /\ \A m \in MasterId : masters'[m] = masters[m]
        BY <3>1, Shape, Appended DEF TInv, TypeOK, MasterId
      <3> QED BY <3>2, Shape DEF KeptMasters, TInv
    <2>3. CASE MakeDecl
      <3> DEFINE ds == Append(masters[mst].declset, dec')
      <3>1. /\ masters' = [masters EXCEPT ![mst] = [masters[mst] EXCEPT !.declset = ds]]
            /\ mst \in MasterId
        BY <2>3 DEF MakeDecl, TInv, Pointers, HasMaster
      <3>2. masters[mst] \in Master
        BY <3>1, Shape DEF TInv
      <3>3. /\ [masters[mst] EXCEPT !.declset = ds].type = masters[mst].type
            /\ [masters[mst] EXCEPT !.declset = ds].overload = masters[mst].overload
            /\ [masters[mst] EXCEPT !.declset = ds].declset = ds
        BY <3>2 DEF Master
      <3>4. \A i \in DOMAIN masters[mst].declset : i \in DOMAIN ds /\ ds[i] = masters[mst].declset[i]
        <4>1. masters[mst].declset \in Seq(DeclId)
          BY <3>2 DEF Master
        <4> QED BY <4>1, LenProperties, Appended
      <3>5. MasterId' = MasterId
        BY <3>1 DEF MasterId
      <3>6. /\ masters'[mst] = [masters[mst] EXCEPT !.declset = ds]
            /\ \A m \in MasterId : m # mst => masters'[m] = masters[m]
        BY <3>1 DEF MasterId
      <3> HIDE DEF ds
      <3>7. /\ masters'[mst].type = masters[mst].type /\ masters'[mst].overload = masters[mst].overload
            /\ masters'[mst].declset = ds
        BY <3>3, <3>6
      <3> QED BY <3>4, <3>5, <3>6, <3>7 DEF KeptMasters
    <2> QED BY <2>1, <2>2, <2>3
        DEF Next, MakeName, Declare, FindOverload, FindMaster, InsertEntry, PushMaster, AddMember, Throw, vars, scope
  <1>2. KeptOverloads
    <2>1. CASE UNCHANGED overloads
      BY <2>1 DEF KeptOverloads, OverloadId
    <2>2. CASE FindOverload /\ overloads' # overloads
      <3>1. PICK x : overloads' = Append(overloads, x)
        BY <2>2 DEF FindOverload
      <3>2. /\ OverloadId' = 1..(Len(overloads) + 1)
            /\ \A o \in OverloadId : overloads'[o] = overloads[o]
        BY <3>1, Shape, Appended DEF TInv, TypeOK, OverloadId
      <3> QED BY <3>2, Shape DEF KeptOverloads, TInv
    <2>3. CASE InsertEntry \/ PushMaster
      <3>1. HasOverload /\ ovl \in OverloadId
        BY <2>3 DEF InsertEntry, PushMaster, TInv, Pointers, HasOverload
      <3>2. PICK e \in {overloads[ovl].entries, overloads[ovl].entries \cup {mst}},
                 s \in {overloads[ovl].masters, Append(overloads[ovl].masters, mst)} :
              \/ overloads' = [overloads EXCEPT ![ovl] = [overloads[ovl] EXCEPT !.entries = e]]
              \/ overloads' = [overloads EXCEPT ![ovl] = [overloads[ovl] EXCEPT !.masters = s]]
        BY <2>3 DEF InsertEntry, PushMaster
      <3>3. overloads[ovl] \in Overload
        BY <3>1, Shape DEF TInv
      <3>4. /\ [overloads[ovl] EXCEPT !.entries = e].name = overloads[ovl].name
            /\ [overloads[ovl] EXCEPT !.masters = s].name = overloads[ovl].name
        BY <3>3 DEF Overload
      <3>5. OverloadId' = OverloadId /\ \A o \in OverloadId : o # ovl => overloads'[o] = overloads[o]
        BY <3>2 DEF OverloadId
      <3>6. overloads'[ovl].name = overloads[ovl].name
        BY <3>1, <3>2, <3>4 DEF OverloadId
      <3> QED BY <3>1, <3>5, <3>6 DEF KeptOverloads
    <2> QED BY <2>1, <2>2, <2>3
        DEF Next, MakeName, Declare, FindOverload, FindMaster, MakeDecl, AddMember, Throw, vars, scope
  <1>3. KeptDecls
    <2>1. CASE UNCHANGED decls
      BY <2>1 DEF KeptDecls, DeclId
    <2>2. CASE MakeDecl
      <3>1. PICK x : decls' = Append(decls, x)
        BY <2>2 DEF MakeDecl
      <3>2. /\ DeclId' = 1..(Len(decls) + 1)
            /\ \A d \in DeclId : decls'[d] = decls[d]
        BY <3>1, Shape, Appended DEF TInv, TypeOK, DeclId
      <3> QED BY <3>2, Shape DEF KeptDecls, TInv
    <2>3. CASE AddMember
      <3>1. /\ decls' = [decls EXCEPT ![dec] = [decls[dec] EXCEPT !.scope_pos = size]]
            /\ dec \in DeclId /\ dec \notin members
        BY <2>3 DEF AddMember, TInv, Pointers, InHand, HasDecl
      <3>2. decls[dec] \in Decl
        BY <3>1, Shape DEF TInv
      <3>3. [decls[dec] EXCEPT !.scope_pos = size].master = decls[dec].master
        BY <3>2 DEF Decl
      <3>4. DeclId' = DeclId /\ \A d \in DeclId : d # dec => decls'[d] = decls[d]
        BY <3>1 DEF DeclId
      <3>5. decls'[dec].master = decls[dec].master
        BY <3>1, <3>3 DEF DeclId
      <3> QED BY <3>1, <3>4, <3>5 DEF KeptDecls
    <2> QED BY <2>1, <2>2, <2>3
        DEF Next, MakeName, Declare, FindOverload, FindMaster, InsertEntry, PushMaster, Throw, vars, scope
  <1> QED BY <1>1, <1>2, <1>3

\* The accessors of a declaration answer as before.
LEMMA KeptAnswers ==
  ASSUME TInv, KeptMasters, KeptOverloads, KeptDecls, NEW d \in DeclId
  PROVE  /\ decls[d].master \in MasterId /\ MasterOf(d).overload \in OverloadId
         /\ decls'[d].master = decls[d].master
         /\ TypeOf(d)' = TypeOf(d) /\ NameOf(d)' = NameOf(d)
         /\ MasterOf(d)'.overload = MasterOf(d).overload
         /\ \A i \in DOMAIN DeclSet(d) : i \in DOMAIN DeclSet(d)' /\ DeclSet(d)'[i] = DeclSet(d)[i]
  <1>1. decls[d] \in Decl
    BY Shape DEF TInv
  <1>2. decls[d].master \in MasterId
    BY <1>1 DEF Decl
  <1>3. masters[decls[d].master] \in Master
    BY <1>2, Shape DEF TInv
  <1>4. MasterOf(d).overload \in OverloadId
    BY <1>3 DEF Master, MasterOf
  <1>5. decls'[d].master = decls[d].master
    BY DEF KeptDecls
  <1> QED BY <1>2, <1>4, <1>5 DEF KeptMasters, KeptOverloads, MasterOf, OverloadOf, TypeOf, NameOf, DeclSet

\* IInv relates the call in progress to what is in the scope already.
IInv == TInv /\ InHand /\ InOrder /\ Settled /\ Described

LEMMA InitIInv == Init => IInv
  <1> SUFFICES ASSUME Init PROVE IInv
    OBVIOUS
  <1>1. TInv
    BY InitTInv
  <1> QED BY <1>1 DEF Init, IInv, InHand, InOrder, Settled, Described, HasOverload, HasMaster, HasDecl

\* A step that is not AddMember leaves the members and their positions.
LEMMA OrderKept ==
  ASSUME IInv, KeptDecls, UNCHANGED <<members, size>>
  PROVE  InOrder'
  <1>1. members \subseteq DeclId
    BY DEF IInv, TInv, TypeOK
  <1>2. \A d \in members : Position(d)' = Position(d)
    BY <1>1 DEF KeptDecls, Position
  <1> QED BY <1>2 DEF IInv, InOrder

LEMMA InOrderStep == IInv /\ KeptDecls /\ [Next]_vars => InOrder'
  <1> SUFFICES ASSUME IInv, KeptDecls, [Next]_vars PROVE InOrder'
    OBVIOUS
  <1>1. CASE AddMember
    <2>1. /\ dec \in DeclId /\ dec = Len(decls) /\ dec \notin members
          /\ members' = members \cup {dec} /\ size' = size + 1
          /\ decls' = [decls EXCEPT ![dec] = [decls[dec] EXCEPT !.scope_pos = size]]
      BY <1>1 DEF AddMember, IInv, InHand, TInv, Pointers, HasDecl
    <2>2. members \subseteq 1..Len(decls) /\ Len(decls) \in Nat /\ size \in Nat
      BY Shape DEF IInv, TInv, TypeOK
    <2>3. \A d \in members : d \in Nat /\ d < dec
      BY <2>1, <2>2
    <2>4. \A d \in members : decls'[d].scope_pos = Position(d)
      BY <2>2, Shape DEF KeptDecls, Position, IInv, TInv
    <2>5. decls'[dec].scope_pos = size
      <3>1. decls[dec] \in Decl
        BY <2>1, Shape DEF IInv, TInv
      <3>2. [decls[dec] EXCEPT !.scope_pos = size].scope_pos = size
        BY <3>1 DEF Decl
      <3> QED BY <2>1, <3>2 DEF DeclId
    <2> DEFINE pos(d) == decls'[d].scope_pos
    <2>6. \A d, e \in members : d < e <=> pos(d) < pos(e)
      BY <2>4 DEF IInv, InOrder
    <2>7. \A d \in members : pos(d) \in 0..(size - 1)
      BY <2>4 DEF IInv, InOrder
    <2>8. {pos(d) : d \in members'} = {pos(d) : d \in members} \cup {size}
      BY <2>1, <2>5
    <2>9. {pos(d) : d \in members} = 0..(size - 1)
      <3>1. {pos(d) : d \in members} = {Position(d) : d \in members}
        BY <2>4
      <3> QED BY <3>1 DEF IInv, InOrder
    <2>10. {pos(d) : d \in members'} = 0..(size' - 1)
      <3>1. 0..(size' - 1) = 0..(size - 1) \cup {size}
        BY <2>1, <2>2
      <3> HIDE DEF pos
      <3> QED BY <2>8, <2>9, <3>1
    <2>11. \A d, e \in members' : d < e <=> pos(d) < pos(e)
      <3>1. pos(dec) = size
        BY <2>5
      <3> HIDE DEF pos
      <3> QED BY <2>1, <2>2, <2>3, <2>6, <2>7, <3>1
    <2> QED BY <2>10, <2>11 DEF InOrder, Position
  <1>2. CASE ~AddMember
    <2>1. UNCHANGED <<members, size>>
      BY <1>2 DEF Next, MakeName, Declare, FindOverload, FindMaster, MakeDecl, InsertEntry, PushMaster,
             Throw, vars, scope
    <2> QED BY <2>1, OrderKept
  <1> QED BY <1>1, <1>2

LEMMA DescribedStep == IInv /\ KeptMasters /\ KeptOverloads /\ KeptDecls /\ [Next]_vars => Described'
  <1> SUFFICES ASSUME IInv, KeptMasters, KeptOverloads, KeptDecls, [Next]_vars
               PROVE  Described'
    OBVIOUS
  <1>1. members \subseteq members' /\ members \subseteq DeclId
    BY DEF IInv, TInv, TypeOK, Next, MakeName, Declare, FindOverload, FindMaster, MakeDecl, InsertEntry,
           PushMaster, AddMember, Throw, vars, scope
  <1>2. ASSUME NEW x \in declared
        PROVE  /\ x.decl \in members'
               /\ TypeOf(x.decl)' = x.request.type
               /\ NameOf(x.decl)' = x.request.name
               /\ \E i \in DOMAIN DeclSet(x.decl)' : DeclSet(x.decl)'[i] = x.decl
    <2>1. /\ x.decl \in members /\ TypeOf(x.decl) = x.request.type /\ NameOf(x.decl) = x.request.name
          /\ \E i \in DOMAIN DeclSet(x.decl) : DeclSet(x.decl)[i] = x.decl
      BY DEF IInv, Described
    <2> QED BY <1>1, <2>1, KeptAnswers DEF IInv
  <1>3. CASE AddMember
    <2>1. /\ dec \in DeclId /\ decls[dec].master = mst
          /\ masters[mst].type = asked.type /\ masters[mst].overload = ovl
          /\ overloads[ovl].name = asked.name
          /\ \E i \in DOMAIN DeclSet(dec) : DeclSet(dec)[i] = dec
          /\ members' = members \cup {dec} /\ declared' = declared \cup {[request |-> asked, decl |-> dec]}
      BY <1>3 DEF AddMember, IInv, InHand, TInv, Pointers, HasOverload, HasMaster, HasDecl
    <2>2. TypeOf(dec) = asked.type /\ NameOf(dec) = asked.name
      BY <2>1 DEF TypeOf, NameOf, MasterOf, OverloadOf
    <2>3. ASSUME NEW d \in DeclId, d = dec
          PROVE  /\ TypeOf(d)' = asked.type /\ NameOf(d)' = asked.name
                 /\ \E i \in DOMAIN DeclSet(d)' : DeclSet(d)'[i] = d
      BY <2>1, <2>2, <2>3, KeptAnswers DEF IInv
    <2>4. ASSUME NEW x \in declared', x \notin declared
          PROVE  /\ x.decl \in members'
                 /\ TypeOf(x.decl)' = x.request.type
                 /\ NameOf(x.decl)' = x.request.name
                 /\ \E i \in DOMAIN DeclSet(x.decl)' : DeclSet(x.decl)'[i] = x.decl
      <3>1. x.decl = dec /\ x.request = asked
        BY <2>1, <2>4
      <3> QED BY <2>1, <2>3, <3>1
    <2> QED BY <1>2, <2>4 DEF Described
  <1>4. CASE ~AddMember
    <2>1. declared' = declared
      BY <1>4 DEF Next, MakeName, Declare, FindOverload, FindMaster, MakeDecl, InsertEntry, PushMaster,
             Throw, vars
    <2> QED BY <1>2, <2>1 DEF Described
  <1> QED BY <1>3, <1>4

LEMMA SettledStep == IInv /\ KeptMasters /\ KeptOverloads /\ KeptDecls /\ [Next]_vars => Settled'
  <1> SUFFICES ASSUME IInv, KeptMasters, KeptOverloads, KeptDecls, [Next]_vars
               PROVE  Settled'
    OBVIOUS
  <1>1. ASSUME NEW d \in members
        PROVE  OverloadOf(d)'.entries = {decls'[d].master} /\ OverloadOf(d)'.masters = <<decls'[d].master>>
    <2>1. d \in DeclId
      BY DEF IInv, TInv, TypeOK
    <2>2. HasOverload => MasterOf(d).overload # ovl
      BY DEF IInv, InHand
    <2>3. overloads'[MasterOf(d).overload] = overloads[MasterOf(d).overload]
      BY <2>1, <2>2, KeptAnswers DEF KeptOverloads, IInv
    <2>4. OverloadOf(d)' = OverloadOf(d)
      BY <2>1, <2>3, KeptAnswers DEF OverloadOf, IInv
    <2> QED BY <2>1, <2>4, KeptAnswers DEF IInv, Settled
  <1>2. CASE AddMember
    <2>1. /\ dec \in DeclId /\ decls[dec].master = mst /\ masters[mst].overload = ovl
          /\ overloads[ovl].entries = {mst} /\ overloads[ovl].masters = <<mst>>
          /\ members' = members \cup {dec} /\ UNCHANGED <<masters, overloads>>
      BY <1>2 DEF AddMember, IInv, InHand, TInv, Pointers, HasMaster, HasDecl
    <2>2. ASSUME NEW d \in members', d \notin members
          PROVE  OverloadOf(d)'.entries = {decls'[d].master} /\ OverloadOf(d)'.masters = <<decls'[d].master>>
      <3>1. d = dec /\ decls'[d].master = mst
        BY <2>1, <2>2 DEF KeptDecls
      <3> QED BY <2>1, <3>1 DEF OverloadOf, MasterOf
    <2> QED BY <1>1, <2>2 DEF Settled
  <1>3. CASE ~AddMember
    <2>1. members' = members
      BY <1>3 DEF Next, MakeName, Declare, FindOverload, FindMaster, MakeDecl, InsertEntry, PushMaster,
             Throw, vars, scope
    <2> QED BY <1>1, <2>1 DEF Settled
  <1> QED BY <1>2, <1>3

LEMMA InHandStep == IInv /\ KeptMasters /\ KeptOverloads /\ KeptDecls /\ [Next]_vars => InHand'
  <1> SUFFICES ASSUME IInv, KeptMasters, KeptOverloads, KeptDecls, [Next]_vars
               PROVE  InHand'
    OBVIOUS
  <1>0. /\ TInv /\ InHand /\ TypeOK /\ members \subseteq DeclId
        /\ \A d \in members : MasterOf(d).overload \in OverloadId
        /\ \A d \in members : MasterOf(d)'.overload = MasterOf(d).overload
    <2>1. TInv /\ InHand /\ TypeOK /\ members \subseteq DeclId
      BY DEF IInv, TInv, TypeOK
    <2> QED BY <2>1, KeptAnswers
  <1>1. CASE MakeName \/ (\E n \in names, t \in Types : Declare(n, t)) \/ AddMember \/ Throw
    <2>1. pc' \in {"idle", "overload"}
      BY <1>1 DEF MakeName, Declare, AddMember, Throw
    <2> QED BY <2>1 DEF InHand, HasOverload, HasMaster, HasDecl
  <1>2. CASE FindOverload
    <2> DEFINE o == [id |-> count', name |-> asked.name, entries |-> {}, masters |-> <<>>]
    <2>1. pc = "overload" /\ pc' = "lookup" /\ asked.name \in names
      BY <1>0, <1>2 DEF FindOverload, TInv, Pointers
    <2>2. Named(asked.name) = {}
      BY <1>0, <2>1 DEF TInv, Named, SameName, FreshIds, OverloadId
    <2>3. overloads' = Append(overloads, o) /\ ovl' = Len(overloads') /\ UNCHANGED <<members, asked>>
      BY <1>2, <2>2 DEF FindOverload
    <2>4. ovl' = Len(overloads) + 1 /\ overloads'[ovl'] = o
      <3> HIDE DEF o
      <3> QED BY <1>0, <2>3, Appended DEF TypeOK
    <2>5. ovl' \notin OverloadId
      BY <1>0, <2>4, Shape
    <2> QED BY <1>0, <2>1, <2>3, <2>4, <2>5 DEF InHand, HasOverload, HasMaster, HasDecl
  <1>3. CASE FindMaster
    <2> DEFINE m == [overload |-> ovl, type |-> asked.type, declset |-> <<>>, decl |-> 0]
    <2>1. pc = "lookup" /\ pc' = "decl" /\ UNCHANGED <<overloads, members, asked, ovl>>
      BY <1>3 DEF FindMaster
    <2>2. /\ overloads[ovl].entries = {} /\ overloads[ovl].masters = <<>> /\ overloads[ovl].name = asked.name
          /\ \A d \in members : MasterOf(d).overload # ovl
      BY <1>0, <2>1 DEF InHand, HasOverload
    <2>3. Entries(ovl, asked.type) = {}
      BY <2>2 DEF Entries
    <2>4. masters' = Append(masters, m) /\ mst' = Len(masters')
      BY <1>3, <2>3 DEF FindMaster
    <2>5. masters'[mst'] = m
      <3> HIDE DEF m
      <3> QED BY <1>0, <2>4, Appended DEF TypeOK
    <2> QED BY <1>0, <2>1, <2>2, <2>5 DEF InHand, HasOverload, HasMaster, HasDecl
  <1>4. CASE MakeDecl
    <2> DEFINE ds == Append(masters[mst].declset, dec')
               d == [master |-> mst, scope_pos |-> -1]
    <2>1. pc = "decl" /\ mst \in MasterId
      BY <1>0, <1>4 DEF MakeDecl, TInv, Pointers, HasMaster
    <2>2. /\ overloads[ovl].entries = {} /\ overloads[ovl].masters = <<>> /\ overloads[ovl].name = asked.name
          /\ masters[mst].type = asked.type /\ masters[mst].overload = ovl
          /\ \A e \in members : MasterOf(e).overload # ovl
      BY <1>0, <2>1 DEF InHand, HasOverload, HasMaster
    <2>3. /\ pc' = "entry" /\ UNCHANGED <<overloads, members, asked, ovl, mst>>
          /\ decls' = Append(decls, d) /\ dec' = Len(decls')
          /\ masters' = [masters EXCEPT ![mst] = [masters[mst] EXCEPT !.declset = ds]]
      BY <1>4, <2>2 DEF MakeDecl
    <2>4. dec' = Len(decls) + 1 /\ decls'[dec'] = d
      <3> HIDE DEF d
      <3> QED BY <1>0, <2>3, Appended DEF TypeOK
    <2>5. dec' \notin members
      BY <1>0, <2>4, Shape
    <2>6. masters[mst] \in Master
      BY <1>0, <2>1, Shape
    <2>7. masters'[mst].declset = ds
      <3>1. [masters[mst] EXCEPT !.declset = ds].declset = ds
        BY <2>6 DEF Master
      <3> HIDE DEF ds
      <3> QED BY <2>1, <2>3, <3>1 DEF MasterId
    <2>8. \E i \in DOMAIN ds : ds[i] = dec'
      <3>1. masters[mst].declset \in Seq(DeclId)
        BY <2>6 DEF Master
      <3>2. Len(masters[mst].declset) + 1 \in 1..(Len(masters[mst].declset) + 1)
        BY <3>1, LenProperties
      <3> QED BY <3>1, <3>2, Appended
    <2>9. masters'[mst].type = asked.type /\ masters'[mst].overload = ovl
      BY <2>1, <2>2 DEF KeptMasters
    <2>10. DeclSet(dec)' = ds
      <3> HIDE DEF ds
      <3> QED BY <2>3, <2>4, <2>7 DEF DeclSet, MasterOf
    <2>11. decls'[dec'].master = mst
      BY <2>4
    <2> HIDE DEF ds, d
    <2> QED BY <1>0, <2>2, <2>3, <2>5, <2>8, <2>9, <2>10, <2>11 DEF InHand, HasOverload, HasMaster, HasDecl
  <1>5. CASE InsertEntry
    <2>1. /\ pc = "entry" /\ pc' = "master" /\ ovl \in OverloadId
          /\ overloads' = [overloads EXCEPT ![ovl] = [overloads[ovl] EXCEPT !.entries = overloads[ovl].entries \cup {mst}]]
          /\ UNCHANGED <<masters, decls, members, asked, ovl, mst, dec>>
      BY <1>0, <1>5 DEF InsertEntry, TInv, Pointers, HasOverload, local
    <2>2. overloads[ovl] \in Overload /\ overloads[ovl].entries = {} /\ overloads[ovl].masters = <<>>
      BY <1>0, <2>1, Shape DEF InHand
    <2>3. overloads'[ovl].entries = {mst} /\ overloads'[ovl].masters = <<>>
      BY <2>1, <2>2 DEF OverloadId, Overload
    <2>4. overloads'[ovl].name = overloads[ovl].name
      BY <2>1 DEF KeptOverloads
    <2>5. HasOverload /\ HasMaster /\ HasDecl
      BY <2>1 DEF HasOverload, HasMaster, HasDecl
    <2>6. DeclSet(dec)' = DeclSet(dec)
      BY <2>1 DEF DeclSet, MasterOf
    <2> QED BY <1>0, <2>1, <2>3, <2>4, <2>5, <2>6 DEF InHand
  <1>6. CASE PushMaster
    <2>1. /\ pc = "master" /\ pc' = "member" /\ ovl \in OverloadId
          /\ overloads' = [overloads EXCEPT ![ovl] = [overloads[ovl] EXCEPT !.masters = Append(overloads[ovl].masters, mst)]]
          /\ UNCHANGED <<masters, decls, members, asked, ovl, mst, dec>>
      BY <1>0, <1>6 DEF PushMaster, TInv, Pointers, HasOverload, local
    <2>2. overloads[ovl] \in Overload /\ overloads[ovl].entries = {mst} /\ overloads[ovl].masters = <<>>
      BY <1>0, <2>1, Shape DEF InHand
    <2>3. overloads'[ovl].entries = {mst} /\ overloads'[ovl].masters = <<mst>>
      <3>1. Append(overloads[ovl].masters, mst) = <<mst>>
        BY <2>2
      <3> QED BY <2>1, <2>2, <3>1 DEF OverloadId, Overload
    <2>4. overloads'[ovl].name = overloads[ovl].name
      BY <2>1 DEF KeptOverloads
    <2>5. HasOverload /\ HasMaster /\ HasDecl
      BY <2>1 DEF HasOverload, HasMaster, HasDecl
    <2>6. DeclSet(dec)' = DeclSet(dec)
      BY <2>1 DEF DeclSet, MasterOf
    <2> QED BY <1>0, <2>1, <2>3, <2>4, <2>5, <2>6 DEF InHand
  <1>7. CASE UNCHANGED vars
    <2>1. UNCHANGED <<overloads, masters, decls, members, pc, asked, ovl, mst, dec>>
      BY <1>7 DEF vars, scope, local
    <2>2. UNCHANGED <<HasOverload, HasMaster, HasDecl>> /\ DeclSet(dec)' = DeclSet(dec)
      BY <2>1 DEF HasOverload, HasMaster, HasDecl, DeclSet, MasterOf
    <2> QED BY <1>0, <2>1, <2>2 DEF InHand
  <1> QED BY <1>1, <1>2, <1>3, <1>4, <1>5, <1>6, <1>7 DEF Next

LEMMA IInvStep == IInv /\ [Next]_vars => IInv'
  <1> SUFFICES ASSUME IInv, [Next]_vars PROVE IInv'
    OBVIOUS
  <1>1. TInv'
    BY TInvStep DEF IInv
  <1>2. KeptMasters /\ KeptOverloads /\ KeptDecls
    BY Kept DEF IInv
  <1> QED BY <1>1, <1>2, InHandStep, InOrderStep, SettledStep, DescribedStep DEF IInv

-----------------------------------------------------------------------------
\* IInv holds in every state of a scope, of eight kinds of declaration alike.
THEOREM Invariance == Spec => []IInv
  BY InitIInv, IInvStep, PTL DEF Spec

\* Every pointer in overload sets, masters, declarations and the locals of a
\* call is null or to something the scope made (impl::Scope).
THEOREM TypeCorrect == Spec => []TypeOK
  BY Invariance, PTL DEF IInv, TInv

\* No name and no two overload sets share an identifier (Node::Node), however
\* calls are abandoned.
THEOREM IdentifiersFresh == Spec => []FreshIds
  BY Invariance, PTL DEF IInv, TInv

\* Positions in the scope are 0 to size - 1 in the order of declaration
\* (Scope::add_member), however many calls are abandoned in between.
THEOREM PositionsInOrder == Spec => []InOrder
  BY Invariance, PTL DEF IInv

\* A declaration answers with the name and the type it was made for, and is in
\* its own decl-set (decl_rep).
THEOREM DeclarationsDescribed == Spec => []Described
  BY Invariance, PTL DEF IInv

\* The overload set of a declaration in the scope has in its tree what it has
\* in its vector (Overload::push_back), in spite of calls that were left
\* between the two.
THEOREM OverloadsWhole == Spec => []WholeOverloads
  <1>1. IInv => WholeOverloads
    <2> SUFFICES ASSUME IInv, NEW d \in members
                 PROVE  LET o == OverloadOf(d)
                        IN  /\ decls[d].master \in o.entries
                            /\ o.entries = {o.masters[i] : i \in DOMAIN o.masters}
                            /\ Cardinality(o.entries) = Len(o.masters)
      BY DEF WholeOverloads
    <2> DEFINE m == decls[d].master
    <2>1. OverloadOf(d).entries = {m} /\ OverloadOf(d).masters = <<m>>
      BY DEF IInv, Settled
    <2>2. Cardinality({m}) = 1
      BY FS_Singleton
    <2> QED BY <2>1, <2>2
  <1> QED BY <1>1, Invariance, PTL

\* A declaration in a scope stays there and does not change (add_member changes
\* only the one that it adds).
THEOREM MembersKept == Spec => MembersStay
  <1>1. IInv /\ [Next]_vars => [members \subseteq members' /\ \A d \in members : decls'[d] = decls[d]]_vars
    <2> SUFFICES ASSUME IInv, [Next]_vars
                 PROVE  members \subseteq members' /\ \A d \in members : decls'[d] = decls[d]
      OBVIOUS
    <2>1. members \subseteq members'
      BY DEF Next, MakeName, Declare, FindOverload, FindMaster, MakeDecl, InsertEntry, PushMaster,
             AddMember, Throw, vars, scope
    <2>2. members \subseteq DeclId
      BY DEF IInv, TInv, TypeOK
    <2> QED BY <2>1, <2>2, Kept DEF IInv, KeptDecls
  <1> QED BY <1>1, Invariance, PTL DEF Spec, MembersStay

\* The lookup of a name in a scope ends at no overload set, whatever was
\* declared (Scope::operator[] compares identifiers of names and of sets).
LEMMA NothingFound == Spec => [](\A n \in names : Named(n) = {})
  <1>1. IInv => \A n \in names : Named(n) = {}
    BY DEF IInv, TInv, FreshIds, Named, SameName, OverloadId
  <1> QED BY <1>1, Invariance, PTL

\* Of what was declared in a scope nothing is ever found by its name, so that
\* what interface.H:960 says of look-up by name holds of the empty scope only.
THEOREM LookupFails == Spec => [](declared # {} => ~LookupFinds)
  <1>1. IInv /\ (\A n \in names : Named(n) = {}) => (declared # {} => ~LookupFinds)
    <2> SUFFICES ASSUME IInv, \A n \in names : Named(n) = {}, NEW x \in declared
                 PROVE  Named(x.request.name) = {}
      BY DEF LookupFinds
    <2>1. x.decl \in DeclId /\ x.request.name = NameOf(x.decl)
      BY DEF IInv, TInv, TypeOK, Described
    <2>2. decls[x.decl].master \in MasterId
      <3>1. decls[x.decl] \in Decl
        BY <2>1 DEF IInv, TInv, TypeOK, DeclId
      <3> QED BY <3>1 DEF Decl
    <2>3. MasterOf(x.decl).overload \in OverloadId
      <3>1. masters[decls[x.decl].master] \in Master
        BY <2>2 DEF IInv, TInv, TypeOK, MasterId
      <3> QED BY <3>1 DEF Master, MasterOf
    <2>4. overloads[MasterOf(x.decl).overload] \in Overload
      BY <2>3 DEF IInv, TInv, TypeOK, OverloadId
    <2>5. NameOf(x.decl) \in names
      BY <2>4 DEF Overload, NameOf, OverloadOf
    <2> QED BY <2>1, <2>5
  <1> QED BY <1>1, NothingFound, Invariance, PTL

\* The data of a master never has its declaration, which master() and
\* Overload::get follow: what interface.H:1924 says of it holds of no
\* declaration in any scope.
THEOREM MasterNotFirst == Spec => [](declared # {} => ~MasterIsFirst)
  <1>1. IInv => (declared # {} => ~MasterIsFirst)
    <2> SUFFICES ASSUME IInv, NEW x \in declared
                 PROVE  MasterOf(x.decl).decl # DeclSet(x.decl)[1]
      BY DEF MasterIsFirst
    <2>1. x.decl \in DeclId /\ \E i \in DOMAIN DeclSet(x.decl) : DeclSet(x.decl)[i] = x.decl
      BY DEF IInv, TInv, TypeOK, Described
    <2>2. decls[x.decl].master \in MasterId
      <3>1. decls[x.decl] \in Decl
        BY <2>1 DEF IInv, TInv, TypeOK, DeclId
      <3> QED BY <3>1 DEF Decl
    <2>3. MasterOf(x.decl) \in Master
      BY <2>2 DEF IInv, TInv, TypeOK, MasterId, MasterOf
    <2>4. MasterOf(x.decl).decl = 0 /\ DeclSet(x.decl) \in Seq(DeclId)
      BY <2>3 DEF Master, DeclSet
    <2>5. DeclSet(x.decl)[1] \in DeclId
      BY <2>1, <2>4
    <2>6. 0 \notin DeclId
      BY DEF IInv, TInv, TypeOK, DeclId
    <2> QED BY <2>4, <2>5, <2>6
  <1> QED BY <1>1, Invariance, PTL
=============================================================================
