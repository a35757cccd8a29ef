-------------------------------- MODULE Scope --------------------------------
(***************************************************************************)
(* impl::Scope (ipr/impl.H, impl.C): the declarations of a scope, in the    *)
(* order they were made, and the bookkeeping of overload sets, master       *)
(* declarations and declaration sets around each of them.                   *)
(*                                                                         *)
(* make_alias ... make_secondary_map are one call, Declare, that takes a    *)
(* step per container it changes; a step that allocates may fail and leave  *)
(* the call by an exception.  Overloads, masters and declarations are their *)
(* places in the sequences that hold them; 0 is the null pointer.           *)
(***************************************************************************)
EXTENDS Integers, Sequences, FiniteSets

CONSTANTS
  Types,      \* types, and NoType
  NoType,     \* what an alias has the type of when that is not set yet
  MaxNames,   \* bound: the names clients make
  MaxDecls,   \* bound: the declarations they ask for
  MaxFailures \* bound: the calls left by an exception

ASSUME NoTypeAssumption == NoType \in Types
ASSUME BoundAssumption == MaxFailures \in Nat

VARIABLES
  count,     \* node_total_count: the identifiers of nodes given out
  names,     \* the identifiers of the names
  overloads, \* Scope::overloads: id, name, entries (a set) and masters
  masters,   \* master_info of the factories: overload, type, declset, decl
  decls,     \* decls of the factories: master and scope_pos
  members,   \* Scope::decls, the tree of the declarations in the scope
  size,      \* its count
  pc,        \* where the call in progress is
  asked,     \* the name and the type it is for
  ovl, mst, dec, \* its local variables
  failures,
  declared   \* history: what clients declared, and what they were given

scope == <<overloads, masters, decls, members, size>>
local == <<asked, ovl, mst, dec>>
vars == <<count, names, scope, pc, local, failures, declared>>

-----------------------------------------------------------------------------
NoRequest == [name |-> 0, type |-> NoType]

\* Nodes are numbered as they are made.
Init ==
  /\ count = 0
  /\ names = {}
  /\ overloads = <<>> /\ masters = <<>> /\ decls = <<>>
  /\ members = {} /\ size = 0
  /\ pc = "idle"
  /\ asked = NoRequest /\ ovl = 0 /\ mst = 0 /\ dec = 0
  /\ failures = 0
  /\ declared = {}

\* A name is made by the unit.
MakeName ==
  /\ pc = "idle"
  /\ Cardinality(names) < MaxNames
  /\ count' = count + 1
  /\ names' = names \cup {count'}
  /\ UNCHANGED <<scope, pc, local, failures, declared>>

\* Equality by node_compare, for a name and an overload set: of identifiers.
SameNameMutant(n, o) == n = overloads[o].name
SameName(n, o) == n = overloads[o].id

\* What Scope::operator[] ends at, of which there is at most one.
Named(n) == {o \in DOMAIN overloads : SameName(n, o)}

\* Overload::lookup, which compares the types of the entries.
Entries(o, t) == {m \in overloads[o].entries : masters[m].type = t}

\* A client asks for a declaration of a name with a type.
Declare(n, t) ==
  /\ pc = "idle"
  /\ Len(decls) < MaxDecls
  /\ t = NoType => failures < MaxFailures
  /\ asked' = [name |-> n, type |-> t]
  /\ pc' = "overload"
  /\ UNCHANGED <<count, names, scope, ovl, mst, dec, failures, declared>>

\* An overload set is made by copying the node of its name.
FindOverloadMutant ==
  /\ pc = "overload"
  /\ overloads' = Append(overloads,
       [id |-> asked.name, name |-> asked.name, entries |-> {}, masters |-> <<>>])
  /\ ovl' = Len(overloads')
  /\ pc' = "lookup"
  /\ UNCHANGED <<count, names, masters, decls, members, size, asked, mst, dec, failures, declared>>

\* The overload set of the name, looked up or made.
FindOverload ==
  /\ pc = "overload"
  /\ IF Named(asked.name) # {}
     THEN /\ ovl' \in Named(asked.name)
          /\ UNCHANGED <<count, overloads>>
     ELSE /\ count' = count + 1
          /\ overloads' = Append(overloads,
               [id |-> count', name |-> asked.name, entries |-> {}, masters |-> <<>>])
          /\ ovl' = Len(overloads')
  /\ pc' = "lookup"
  /\ UNCHANGED <<names, masters, decls, members, size, asked, mst, dec, failures, declared>>

\* The type is looked up in the scope, not in the overload set.
FindMasterMutant ==
  /\ pc = "lookup"
  /\ asked.type # NoType
  /\ LET same == {m \in DOMAIN masters : masters[m].type = asked.type}
     IN  IF same # {}
         THEN /\ mst' \in same
              /\ UNCHANGED masters
         ELSE /\ masters' = Append(masters,
                   [overload |-> ovl, type |-> asked.type, declset |-> <<>>, decl |-> 0])
              /\ mst' = Len(masters')
  /\ pc' = "decl"
  /\ UNCHANGED <<count, names, overloads, decls, members, size, asked, ovl, dec, failures, declared>>

\* The master declaration of the type in it, looked up or made.
FindMaster ==
  /\ pc = "lookup"
  /\ asked.type # NoType
  /\ IF Entries(ovl, asked.type) # {}
     THEN /\ mst' \in Entries(ovl, asked.type)
          /\ UNCHANGED masters
     ELSE /\ masters' = Append(masters,
               [overload |-> ovl, type |-> asked.type, declset |-> <<>>, decl |-> 0])
          /\ mst' = Len(masters')
  /\ pc' = "decl"
  /\ UNCHANGED <<count, names, overloads, decls, members, size, asked, ovl, dec, failures, declared>>

\* The factory gives the place after the declaration it made.
MakeDeclMutant ==
  /\ pc = "decl"
  /\ count' = count + 1
  /\ decls' = Append(decls, [master |-> mst, scope_pos |-> -1])
  /\ dec' = Len(decls') + 1
  /\ masters' = [masters EXCEPT ![mst].declset = Append(@, dec')]
  /\ pc' = IF mst \in overloads[ovl].entries THEN "member" ELSE "entry"
  /\ UNCHANGED <<names, overloads, members, size, asked, ovl, mst, failures, declared>>

\* decl_rep: the declaration points to the master's data and joins its
\* decl-set.  It sets its own back-pointer, which is not the master's.
MakeDecl ==
  /\ pc = "decl"
  /\ count' = count + 1
  /\ decls' = Append(decls, [master |-> mst, scope_pos |-> -1])
  /\ dec' = Len(decls')
  /\ masters' = [masters EXCEPT ![mst].declset = Append(@, dec')]
  /\ pc' = IF mst \in overloads[ovl].entries THEN "member" ELSE "entry"
  /\ UNCHANGED <<names, overloads, members, size, asked, ovl, mst, failures, declared>>

\* Overload::push_back of a master: into the tree, which allocates nothing,
\* and then into the vector, which may.
InsertEntry ==
  /\ pc = "entry"
  /\ overloads' = [overloads EXCEPT ![ovl].entries = @ \cup {mst}]
  /\ pc' = "master"
  /\ UNCHANGED <<count, names, masters, decls, members, size, local, failures, declared>>

PushMaster ==
  /\ pc = "master"
  /\ overloads' = [overloads EXCEPT ![ovl].masters = Append(@, mst)]
  /\ pc' = "member"
  /\ UNCHANGED <<count, names, masters, decls, members, size, local, failures, declared>>

\* The position is counted from one, and after the insertion.
AddMemberMutant ==
  /\ pc = "member"
  /\ decls' = [decls EXCEPT ![dec].scope_pos = size + 1]
  /\ members' = members \cup {dec}
  /\ size' = size + 1
  /\ declared' = declared \cup {[request |-> asked, decl |-> dec]}
  /\ pc' = "idle"
  /\ asked' = NoRequest /\ ovl' = 0 /\ mst' = 0 /\ dec' = 0
  /\ UNCHANGED <<count, names, overloads, masters, failures>>

\* The declaration becomes the first of its scope.
AddMemberFrontMutant ==
  /\ pc = "member"
  /\ decls' = [d \in DOMAIN decls |->
       IF d = dec THEN [decls[d] EXCEPT !.scope_pos = 0]
       ELSE IF d \in members THEN [decls[d] EXCEPT !.scope_pos = @ + 1] ELSE decls[d]]
  /\ members' = members \cup {dec}
  /\ size' = size + 1
  /\ declared' = declared \cup {[request |-> asked, decl |-> dec]}
  /\ pc' = "idle"
  /\ asked' = NoRequest /\ ovl' = 0 /\ mst' = 0 /\ dec' = 0
  /\ UNCHANGED <<count, names, overloads, masters, failures>>

\* add_member, and the client has its declaration.
AddMember ==
  /\ pc = "member"
  /\ decls' = [decls EXCEPT ![dec].scope_pos = size]
  /\ members' = members \cup {dec}
  /\ size' = size + 1
  /\ declared' = declared \cup {[request |-> asked, decl |-> dec]}
  /\ pc' = "idle"
  /\ asked' = NoRequest /\ ovl' = 0 /\ mst' = 0 /\ dec' = 0
  /\ UNCHANGED <<count, names, overloads, masters, failures>>

\* operator new throws, or the type of an alias is not set: the call is
\* abandoned with what it did so far.  The node of a declaration may have been
\* numbered by then.
Throw ==
  /\ pc \in {"overload", "lookup", "decl", "master"}
  /\ failures < MaxFailures
  /\ failures' = failures + 1
  /\ pc' = "idle"
  /\ asked' = NoRequest /\ ovl' = 0 /\ mst' = 0 /\ dec' = 0
  /\ count' \in IF pc = "decl" THEN {count, count + 1} ELSE {count}
  /\ UNCHANGED <<names, scope, declared>>

Next ==
  \/ MakeName
  \/ \E n \in names, t \in Types : Declare(n, t)
  \/ FindOverload \/ FindMaster
  \/ MakeDecl
  \/ InsertEntry \/ PushMaster
  \/ AddMember
  \/ Throw

Spec == Init /\ [][Next]_vars

-----------------------------------------------------------------------------
\* What decl_rep answers of a declaration: through its master, in the end.
MasterOf(d) == masters[decls[d].master]
OverloadOf(d) == overloads[MasterOf(d).overload]
NameOf(d) == OverloadOf(d).name
TypeOf(d) == MasterOf(d).type
DeclSet(d) == MasterOf(d).declset
Position(d) == decls[d].scope_pos

Request == [name : names \cup {0}, type : Types]
OverloadId == DOMAIN overloads
MasterId == DOMAIN masters
DeclId == DOMAIN decls

\* impl::Overload, master_decl_data and basic_decl_data.
Overload == [id : 1..count, name : names, entries : SUBSET MasterId, masters : Seq(MasterId)]
Master == [overload : OverloadId, type : Types, declset : Seq(DeclId), decl : {0}]
Decl == [master : MasterId, scope_pos : Int]

\* Every pointer the scope keeps is null or to something it made.
TypeOK ==
  /\ count \in Nat /\ names \subseteq 1..count
  /\ overloads \in Seq(Overload)
  /\ masters \in Seq(Master)
  /\ decls \in Seq(Decl)
  /\ members \subseteq DeclId
  /\ size \in Nat
  /\ pc \in {"idle", "overload", "lookup", "decl", "entry", "master", "member"}
  /\ asked \in Request
  /\ ovl \in OverloadId \cup {0} /\ mst \in MasterId \cup {0} /\ dec \in DeclId \cup {0}
  /\ failures \in 0..MaxFailures
  /\ declared \subseteq [request : Request, decl : DeclId]

\* "Each node acquires such an identifier at its creation" (impl.H:146): no
\* overload set has the identifier of a name or of another overload set.
FreshIds ==
  /\ \A o \in OverloadId : overloads[o].id \notin names
  /\ \A o, p \in OverloadId : overloads[o].id = overloads[p].id => o = p

\* "A declaration in a Scope has a position, that uniquely identifies it as a
\* member of a sequence" (impl.H:380): positions are those of the sequence of
\* declarations, without a gap and in the order they were made, whatever calls
\* were abandoned in between.
InOrder ==
  /\ {Position(d) : d \in members} = 0..(size - 1)
  /\ \A d, e \in members : d < e <=> Position(d) < Position(e)

\* A declaration has the name and the type it was declared with, both of which
\* it gets from its master, and is in the decl-set of that master.
Described ==
  \A x \in declared :
    /\ x.decl \in members
    /\ TypeOf(x.decl) = x.request.type
    /\ NameOf(x.decl) = x.request.name
    /\ \E i \in DOMAIN DeclSet(x.decl) : DeclSet(x.decl)[i] = x.decl

\* The overload set of a declaration in the scope counts as many entries as it
\* can give by number, the declaration's master among them.
WholeOverloads ==
  \A d \in members :
    LET o == OverloadOf(d)
    IN  /\ decls[d].master \in o.entries
        /\ o.entries = {o.masters[i] : i \in DOMAIN o.masters}
        /\ Cardinality(o.entries) = Len(o.masters)

\* What is in a scope stays there, at its position.
MembersStay ==
  [][members \subseteq members' /\ \A d \in members : decls'[d] = decls[d]]_vars

-----------------------------------------------------------------------------
\* "Look-up by name returns the overload-set of all declarations, for the
\* subscripting name, contained in this scope" (interface.H:960), which is not
\* what the code does (LookupFails of Scope_proofs).
LookupFinds ==
  \A x \in declared : \E o \in Named(x.request.name) : decls[x.decl].master \in overloads[o].entries

\* "This is the first seen declaration for name() in a given translation unit.
\* The master declaration is therefore the first element of the
\* declaration-set" (interface.H:1924); it is not (MasterNotFirst).
MasterIsFirst == \A x \in declared : MasterOf(x.decl).decl = DeclSet(x.decl)[1]
=============================================================================
