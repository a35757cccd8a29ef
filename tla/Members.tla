------------------------------- MODULE Members -------------------------------
(***************************************************************************)
(* The scopes whose members cannot be redeclared (homogeneous_scope of      *)
(* ipr/impl.H): the parameters of mappings, the enumerators of an enum and  *)
(* the bases of a class, each kept by value in a util::slist, and the names *)
(* parameters have by position, the Rnames.                                 *)
(*                                                                         *)
(* slist::push_back links a node and only then constructs the member in it; *)
(* a member that fails to be constructed leaves a raw node in the list.     *)
(* Members are found by their index or, linearly, by their name.            *)
(***************************************************************************)
EXTENDS Integers, Sequences, SequencesExt, FiniteSetsExt

CONSTANTS
  Names, Types, \* what parameters, enumerators and bases are made of
  Levels,       \* the levels clients give mappings of their own
  MaxMappings,  \* bound: the mappings
  MaxMembers,   \* bound: the nodes of all lists
  MaxThrows     \* bound: the members that fail to be constructed

ASSUME MaxThrowsAssumption == MaxThrows \in Nat

VARIABLES
  mappings,    \* the level and the parameters of each
  enumerators, \* Enum::body
  bases,       \* Class::base_subobjects
  held,        \* the Rnames clients were given
  throws

vars == <<mappings, enumerators, bases, held, throws>>

-----------------------------------------------------------------------------
\* A list: its nodes, in the order they are linked, and its count; added is
\* history, the members clients were given.
Raw == [raw |-> TRUE]
Empty == [nodes |-> <<>>, count |-> 0, added |-> <<>>]

Push(l, x) ==
  [nodes |-> Append(l.nodes, x), count |-> l.count + 1, added |-> Append(l.added, x)]

\* The count is incremented as the node is linked.
PushThrowsMutant(l) == [l EXCEPT !.nodes = Append(@, Raw), !.count = @ + 1]
PushThrows(l) == [l EXCEPT !.nodes = Append(@, Raw)]

\* val_sequence::get, which walks from node to node, and homogeneous_scope's.
Throws == [throws |-> TRUE]
Get(l, p) == IF p < 0 \/ p >= l.count THEN Throws ELSE l.nodes[p + 1]

\* The search goes on to the last member of the name.
LookupMutant(l, n) ==
  LET stops == {p \in 0..(l.count - 1) : Get(l, p) = Raw \/ Get(l, p).name = n}
  IN  IF stops = {} THEN Throws ELSE Get(l, Max(stops))

\* homogeneous_scope::operator[]: the first member of the name, of which it
\* gives the overload set, or the empty one, of which everything throws; it
\* ends too, in whatever way, at a node that no member was made in.
Lookup(l, n) ==
  LET stops == {p \in 0..(l.count - 1) : Get(l, p) = Raw \/ Get(l, p).name = n}
  IN  IF stops = {} THEN Throws ELSE Get(l, Min(stops))

\* Parameter lists of mappings.
List(m) == mappings[m].params

Room ==
  LET params == MapThenSumSet(LAMBDA m : Len(List(m).nodes), DOMAIN mappings)
  IN  Len(enumerators.nodes) + Len(bases.nodes) + params < MaxMembers

Init ==
  /\ mappings = <<>>
  /\ enumerators = Empty
  /\ bases = Empty
  /\ held = {}
  /\ throws = 0

\* make_mapping of the unit, whose level is the default argument, and of a
\* factory, whose level is the client's.
MakeMapping ==
  /\ Len(mappings) < MaxMappings
  /\ \E l \in Levels \cup {0} :
       mappings' = Append(mappings, [level |-> l, params |-> Empty])
  /\ UNCHANGED <<enumerators, bases, held, throws>>

\* The position of the last parameter, and not of the next.
RnameForNextParamMutant(m, t) ==
  [type |-> t, level |-> mappings[m].level, position |-> List(m).count - 1]

\* rname_for_next_param: Rnames are unified, so one is its three operands.
RnameForNextParam(m, t) ==
  [type |-> t, level |-> mappings[m].level, position |-> List(m).count]

AskRname(m, t) ==
  /\ held' = held \cup {RnameForNextParam(m, t)}
  /\ UNCHANGED <<mappings, enumerators, bases, throws>>

\* Mapping::param, with any Rname; whether the unit chose it is history.
Param(m, n, rn) ==
  /\ Room
  /\ mappings' = [mappings EXCEPT ![m].params =
                    Push(@, [name |-> n, rname |-> rn, unit |-> FALSE])]
  /\ UNCHANGED <<enumerators, bases, held, throws>>

\* Unit::make_parameter: the next Rname, and a parameter with it.
MakeParameter(m, n, t) ==
  /\ Room
  /\ mappings' = [mappings EXCEPT ![m].params =
                    Push(@, [name |-> n, rname |-> RnameForNextParam(m, t), unit |-> TRUE])]
  /\ UNCHANGED <<enumerators, bases, held, throws>>

\* Enum::add_member.
AddEnumerator(n) ==
  /\ Room
  /\ enumerators' = Push(enumerators, [name |-> n, position |-> enumerators.count])
  /\ UNCHANGED <<mappings, bases, held, throws>>

\* Class::declare_base; a base is named as its type is.
DeclareBase(t) ==
  /\ Room
  /\ bases' = Push(bases, [name |-> t, position |-> bases.count])
  /\ UNCHANGED <<mappings, enumerators, held, throws>>

\* The constructor of a member throws in any of these.
Throw ==
  /\ throws < MaxThrows
  /\ throws' = throws + 1
  /\ Room
  /\ \/ /\ enumerators' = PushThrows(enumerators)
        /\ UNCHANGED <<mappings, bases>>
     \/ /\ bases' = PushThrows(bases)
        /\ UNCHANGED <<mappings, enumerators>>
     \/ \E m \in DOMAIN mappings :
          /\ mappings' = [mappings EXCEPT ![m].params = PushThrows(@)]
          /\ UNCHANGED <<enumerators, bases>>
  /\ UNCHANGED held

Next ==
  \/ MakeMapping
  \/ \E m \in DOMAIN mappings :
       \/ \E t \in Types : AskRname(m, t)
       \/ \E n \in Names, rn \in held : Param(m, n, rn)
       \/ \E n \in Names, t \in Types : MakeParameter(m, n, t)
  \/ \E n \in Names : AddEnumerator(n)
  \/ \E t \in Types : DeclareBase(t)
  \/ Throw

Spec == Init /\ [][Next]_vars

-----------------------------------------------------------------------------
Rname == [type : Types, level : Levels \cup {0}, position : Nat]
Parameter == [name : Names, rname : Rname, unit : BOOLEAN]
Enumerator == [name : Names, position : Nat]
BaseType == [name : Types, position : Nat]
Lists == {enumerators, bases} \cup {List(m) : m \in DOMAIN mappings}

TypeOK ==
  /\ \A m \in DOMAIN mappings :
       /\ mappings[m].level \in Levels \cup {0}
       /\ ToSet(List(m).added) \subseteq Parameter
  /\ ToSet(enumerators.added) \subseteq Enumerator
  /\ ToSet(bases.added) \subseteq BaseType
  /\ \A l \in Lists : l.count \in 0..Len(l.nodes)
  /\ held \subseteq Rname
  /\ throws \in 0..MaxThrows

\* How many of the first i nodes no member was made in.
Failed(l, i) == Cardinality({j \in 1..i : l.nodes[j] = Raw})

\* At an index a scope gives the member that was added as many places earlier as
\* insertions failed before it, or the raw node of one that failed: the indices run
\* over all nodes, and there are as many of them as members, so that each failure
\* puts one of the last members out of reach.  Numbers do not shift: enumerators and
\* bases are numbered in the order they were added (position()), and so is each
\* parameter the unit makes, by its Rname: "the position is its position, starting
\* from 0, in the parameter-list" (interface.H:918), although other insertions fail
\* and clients add parameters with Rnames they asked for earlier or elsewhere.
GetsMember ==
  /\ \A l \in Lists :
       /\ l.count = Len(l.added)
       /\ \A i \in 1..l.count :
            l.nodes[i] = Raw \/ Get(l, i - 1) = l.added[i - Failed(l, i)]
  /\ \A l \in {enumerators, bases} : \A i \in DOMAIN l.added : l.added[i].position = i - 1
  /\ \A m \in DOMAIN mappings : \A i \in DOMAIN List(m).added :
       List(m).added[i].unit => List(m).added[i].rname.position = i - 1

\* A name is looked up to the first member that was added with it, and to none when
\* no member has it; but where an insertion failed before that member, or before
\* the search ends, to the raw node it left, and never to another member.
FindsFirst ==
  \A l \in Lists : \A n \in Names \cup Types :
    LET named == {i \in DOMAIN l.added : l.added[i].name = n}
        found == IF named = {} THEN Throws ELSE l.added[Min(named)]
        last == IF named = {} THEN l.count ELSE Min(named)
    IN  Lookup(l, n) = IF Failed(l, last) = 0 THEN found ELSE Raw
=============================================================================
