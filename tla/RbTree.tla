------------------------------- MODULE RbTree -------------------------------
(***************************************************************************)
(* The red-black tree of ipr/utility.H (namespace rb_tree), the structure  *)
(* behind every hash-consing table, overload set and declaration table of  *)
(* the IPR library.                                                        *)
(*                                                                         *)
(* A node is a link with three arms (left, right, parent) and a colour.    *)
(* core keeps the root and a count; chain (intrusive, the caller owns the  *)
(* nodes) and container (the tree makes the nodes) add find and insert.    *)
(* One action is one iteration of a loop of the source, so the states      *)
(* between two iterations of fixup_insert, where the tree breaks its own   *)
(* rules, are states of the model.                                         *)
(***************************************************************************)
EXTENDS Integers, FiniteSets

CONSTANTS
  Node,       \* the nodes a caller can offer to the tree
  NULL,       \* the null pointer
  KeyOf,      \* KeyOf[n] is what the comparator orders node n by
  Key,        \* the keys a caller can look up
  Intrusive,  \* TRUE for chain<>, FALSE for container<>
  MaxCount    \* bound: insert is not called once count has reached it

ASSUME NullAssumption == NULL \notin Node
ASSUME NodeAssumption == IsFiniteSet(Node)
ASSUME KeyAssumption == /\ Key \subseteq Int
                        /\ KeyOf \in [Node -> Key]
                        /\ NULL \notin Key
ASSUME FormAssumption == Intrusive \in BOOLEAN /\ MaxCount \in Nat

VARIABLES
  arm,    \* arm[n][d]: the link<Node>::arm array of every node
  color,  \* color[n]
  root,   \* core::root
  count,  \* core::count
  pc,     \* where the call in progress is
  key,    \* the key of the call
  inserting, \* whether the call is an insert
  z,      \* the node to insert once there is one; then fixup_insert's z
  up,     \* the node whose arm *slot is, NULL when slot is &root
  side,   \* which arm of up
  result  \* what the call returns, set where the code decides it

heap == <<arm, color, root>>
call == <<key, inserting, z, up, side, result>>
vars == <<heap, count, pc, call>>

Side == {"Left", "Right"}
Arm == Side \cup {"Parent"}
Pointer == Node \cup {NULL}

Opposite(d) == IF d = "Left" THEN "Right" ELSE "Left"

Parent(n) == arm[n]["Parent"]
Grandparent(n) == Parent(Parent(n))

\* *slot
Slot == IF up = NULL THEN root ELSE arm[up][side]

IsRed(n) == n # NULL /\ color[n] = "Red"

-----------------------------------------------------------------------------
(***************************************************************************)
(* core: rotations.  Rotated(a, d, x) is the arms after rotate_left(x)     *)
(* (d = "Left") or rotate_right(x) (d = "Right"): the child y of x on the  *)
(* other side takes x's place and x becomes y's child on side d.           *)
(*                                                                         *)
(* The definitions named ...Mutant here and below are slips the code could *)
(* have had.  No specification uses them: they show that the properties    *)
(* would notice.                                                           *)
(***************************************************************************)
\* y's inner child keeps its old parent arm.
RotatedMutant(a, d, x) ==
  LET y == a[x][Opposite(d)]
      p == a[x]["Parent"]
      turned == [a EXCEPT ![x] = [@ EXCEPT ![Opposite(d)] = a[y][d], !["Parent"] = y],
                          ![y] = [@ EXCEPT ![d] = x, !["Parent"] = p]]
  IN  IF p = NULL THEN turned
      ELSE [turned EXCEPT ![p] = [@ EXCEPT ![IF a[p][d] = x THEN d ELSE Opposite(d)] = y]]

Rotated(a, d, x) ==
  LET y == a[x][Opposite(d)]
      inner == a[y][d]
      p == a[x]["Parent"]
      turned == [a EXCEPT ![x] = [@ EXCEPT ![Opposite(d)] = inner, !["Parent"] = y],
                          ![y] = [@ EXCEPT ![d] = x, !["Parent"] = p]]
      adopted == IF inner = NULL THEN turned
                 ELSE [turned EXCEPT ![inner] = [@ EXCEPT !["Parent"] = x]]
  IN  IF p = NULL THEN adopted
      ELSE [adopted EXCEPT
              ![p] = [@ EXCEPT ![IF a[p][d] = x THEN d ELSE Opposite(d)] = y]]

\* The root after the same rotation.
RotatedRoot(a, r, d, x) == IF a[x]["Parent"] = NULL THEN a[x][Opposite(d)] ELSE r

-----------------------------------------------------------------------------
\* core's and link's constructors: no node is linked, a chain's links are red.
\* container::allocate clears the arms of raw memory and leaves the colour.
Init ==
  /\ arm = [n \in Node |-> [d \in Arm |-> NULL]]
  /\ color = [n \in Node |-> IF Intrusive THEN "Red" ELSE "Unset"]
  /\ root = NULL
  /\ count = 0
  /\ pc = "idle"
  /\ key = NULL
  /\ inserting = FALSE
  /\ z = NULL
  /\ up = NULL
  /\ side = "Left"
  /\ result = NULL

\* The nodes linked into the tree.
Members == {n \in Node : n = root \/ Parent(n) # NULL}

Begin(k, ins, n) ==
  /\ pc = "idle"
  /\ pc' = "search"
  /\ key' = k
  /\ inserting' = ins
  /\ z' = n
  /\ up' = NULL
  /\ side' = "Left"
  /\ result' = NULL
  /\ UNCHANGED <<heap, count>>

\* chain::find, container::find
Find(k) == Begin(k, FALSE, NULL)

\* chain::insert: the caller brings a node that is in no tree.
ChainInsert(n) ==
  /\ Intrusive
  /\ count < MaxCount
  /\ n \notin Members
  /\ Begin(KeyOf[n], TRUE, n)

\* container::insert: the caller brings a key.
ContainerInsert(k) ==
  /\ ~Intrusive
  /\ count < MaxCount
  /\ Begin(k, TRUE, NULL)

\* The node that goes into the tree: the chain's caller's, or the one that
\* container::make_node builds out of the key, new to the tree.
NewNode == IF Intrusive THEN {z} ELSE {n \in Node \ Members : KeyOf[n] = key}

\* A wrong index into the arm array.
DescendArmMutant ==
  /\ pc = "search" /\ Slot # NULL /\ key # KeyOf[Slot]
  /\ up' = Slot
  /\ side' = IF key < KeyOf[Slot] THEN "Left" ELSE "Parent"
  /\ UNCHANGED <<heap, count, pc, key, inserting, z, result>>

\* The comparison is read the wrong way round.
DescendOrderMutant ==
  /\ pc = "search" /\ Slot # NULL /\ key # KeyOf[Slot]
  /\ up' = Slot
  /\ side' = IF key < KeyOf[Slot] THEN "Right" ELSE "Left"
  /\ UNCHANGED <<heap, count, pc, key, inserting, z, result>>

\* slot is not advanced.
DescendStuckMutant ==
  /\ pc = "search" /\ Slot # NULL /\ key # KeyOf[Slot]
  /\ UNCHANGED <<heap, count, pc, key, inserting, z, up, side, result>>

\* One iteration of the search loop: go down one level.
Descend ==
  /\ pc = "search"
  /\ Slot # NULL
  /\ key # KeyOf[Slot]
  /\ up' = Slot
  /\ side' = IF key < KeyOf[Slot] THEN "Left" ELSE "Right"
  /\ UNCHANGED <<heap, count, pc, key, inserting, z, result>>

\* The last iteration: the comparator says the key is here.  chain::insert
\* hands back the caller's node, the others the node of the tree.
Hit ==
  /\ pc = "search"
  /\ Slot # NULL
  /\ key = KeyOf[Slot]
  /\ result' = IF Intrusive /\ inserting THEN z ELSE Slot
  /\ pc' = "return"
  /\ UNCHANGED <<heap, count, key, inserting, z, up, side>>

\* The last node visited is handed out.
MissMutant ==
  /\ pc = "search" /\ Slot = NULL /\ ~inserting
  /\ result' = up
  /\ pc' = "return"
  /\ UNCHANGED <<heap, count, key, inserting, z, up, side>>

\* A find that runs off the tree.
Miss ==
  /\ pc = "search"
  /\ Slot = NULL
  /\ ~inserting
  /\ pc' = "return"
  /\ UNCHANGED <<heap, count, call>>

\* The first node keeps the colour its memory had.
PlantRootMutant(n) ==
  /\ pc = "search" /\ root = NULL /\ inserting /\ n \in NewNode
  /\ root' = n
  /\ count' = IF Intrusive THEN count ELSE count + 1
  /\ z' = n
  /\ result' = n
  /\ pc' = "return"
  /\ UNCHANGED <<arm, color, key, inserting, up, side>>

\* An insert into an empty tree.
PlantRoot(n) ==
  /\ pc = "search"
  /\ root = NULL
  /\ inserting
  /\ n \in NewNode
  /\ root' = n
  /\ color' = [color EXCEPT ![n] = "Black"]
  /\ count' = IF Intrusive THEN count ELSE count + 1
  /\ z' = n
  /\ result' = n
  /\ pc' = "return"
  /\ UNCHANGED <<arm, key, inserting, up, side>>

\* The new node is painted black.
AttachBlackMutant(n) ==
  /\ pc = "search" /\ root # NULL /\ Slot = NULL /\ inserting /\ n \in NewNode
  /\ arm' = [arm EXCEPT ![up] = [@ EXCEPT ![side] = n],
                        ![n] = [@ EXCEPT !["Parent"] = up]]
  /\ color' = [color EXCEPT ![n] = "Black"]
  /\ count' = IF Intrusive THEN count ELSE count + 1
  /\ z' = n /\ result' = n /\ pc' = "fixup"
  /\ UNCHANGED <<root, key, inserting, up, side>>

\* The new node's parent arm is not set.
AttachOrphanMutant(n) ==
  /\ pc = "search" /\ root # NULL /\ Slot = NULL /\ inserting /\ n \in NewNode
  /\ arm' = [arm EXCEPT ![up] = [@ EXCEPT ![side] = n]]
  /\ color' = [color EXCEPT ![n] = "Red"]
  /\ count' = IF Intrusive THEN count ELSE count + 1
  /\ z' = n /\ result' = n /\ pc' = "fixup"
  /\ UNCHANGED <<root, key, inserting, up, side>>

\* An insert at an empty slot, before fixup_insert is called.
Attach(n) ==
  /\ pc = "search"
  /\ root # NULL
  /\ Slot = NULL
  /\ inserting
  /\ n \in NewNode
  /\ arm' = [arm EXCEPT ![up] = [@ EXCEPT ![side] = n],
                        ![n] = [@ EXCEPT !["Parent"] = up]]
  /\ color' = [color EXCEPT ![n] = "Red"]
  /\ count' = IF Intrusive THEN count ELSE count + 1
  /\ z' = n
  /\ result' = n
  /\ pc' = "fixup"
  /\ UNCHANGED <<root, key, inserting, up, side>>

-----------------------------------------------------------------------------
(***************************************************************************)
(* core::fixup_insert.  The source writes the loop body twice, once for a  *)
(* parent that is a left child and once mirrored; Outside is that test.    *)
(***************************************************************************)
MustFix == z # root /\ color[Parent(z)] = "Red"

Outside == IF Parent(z) = arm[Grandparent(z)]["Left"] THEN "Left" ELSE "Right"

Uncle == arm[Grandparent(z)][Opposite(Outside)]

\* The uncle stays red.
RecolorMutant ==
  /\ pc = "fixup" /\ MustFix /\ IsRed(Uncle)
  /\ color' = [color EXCEPT ![Parent(z)] = "Black", ![Grandparent(z)] = "Red"]
  /\ z' = Grandparent(z)
  /\ UNCHANGED <<arm, root, count, pc, key, inserting, up, side, result>>

\* Red uncle: push the blackness of the grandparent down, move up two levels.
Recolor ==
  /\ pc = "fixup"
  /\ MustFix
  /\ IsRed(Uncle)
  /\ color' = [color EXCEPT ![Parent(z)] = "Black", ![Uncle] = "Black",
                            ![Grandparent(z)] = "Red"]
  /\ z' = Grandparent(z)
  /\ UNCHANGED <<arm, root, count, pc, key, inserting, up, side, result>>

\* Black uncle, z an inner grandchild: rotate z's parent to the outside.
RotateInner ==
  /\ pc = "fixup"
  /\ MustFix
  /\ ~IsRed(Uncle)
  /\ arm[Parent(z)][Opposite(Outside)] = z
  /\ z' = Parent(z)
  /\ arm' = Rotated(arm, Outside, Parent(z))
  /\ root' = RotatedRoot(arm, root, Outside, Parent(z))
  /\ pc' = "outer"
  /\ UNCHANGED <<color, count, key, inserting, up, side, result>>

\* Black uncle, z an outer grandchild (or just made one): recolour and rotate
\* the grandparent down on the other side.
RotateOuter ==
  /\ \/ pc = "outer"
     \/ /\ pc = "fixup"
        /\ MustFix
        /\ ~IsRed(Uncle)
        /\ arm[Parent(z)][Opposite(Outside)] # z
  /\ color' = [color EXCEPT ![Parent(z)] = "Black", ![Grandparent(z)] = "Red"]
  /\ arm' = Rotated(arm, Opposite(Outside), Grandparent(z))
  /\ root' = RotatedRoot(arm, root, Opposite(Outside), Grandparent(z))
  /\ pc' = "fixup"
  /\ UNCHANGED <<count, call>>

\* A red root is left red.
EndFixupMutant ==
  /\ pc = "fixup" /\ ~MustFix
  /\ pc' = "return"
  /\ UNCHANGED <<heap, count, call>>

\* The loop ends and the root is painted black.
EndFixup ==
  /\ pc = "fixup"
  /\ ~MustFix
  /\ color' = [color EXCEPT ![root] = "Black"]
  /\ pc' = "return"
  /\ UNCHANGED <<arm, root, count, call>>

\* The end of the call.  A chain counts every call of insert, a container has
\* counted the nodes it made.
Return ==
  /\ pc = "return"
  /\ count' = IF Intrusive /\ inserting THEN count + 1 ELSE count
  /\ pc' = "idle"
  /\ UNCHANGED <<heap, call>>

\* A step of the call in progress.
Step ==
  \/ Descend \/ Hit \/ Miss
  \/ \E n \in Node : PlantRoot(n) \/ Attach(n)
  \/ Recolor \/ RotateInner \/ RotateOuter \/ EndFixup
  \/ Return

Next ==
  \/ \E k \in Key : Find(k) \/ ContainerInsert(k)
  \/ \E n \in Node : ChainInsert(n)
  \/ Step

Spec == Init /\ [][Next]_vars

\* One thread runs the call: once begun it is not abandoned, while nothing
\* obliges a caller to make another.
FairSpec == Spec /\ WF_vars(Step)

-----------------------------------------------------------------------------
(***************************************************************************)
(* Properties.                                                             *)
(***************************************************************************)

\* Every pointer is null or a node.
TypeOK ==
  /\ arm \in [Node -> [Arm -> Pointer]]
  /\ color \in [Node -> {"Red", "Black", "Unset"}]
  /\ root \in Pointer
  /\ count \in Nat
  /\ pc \in {"idle", "search", "fixup", "outer", "return"}
  /\ key \in Key \cup {NULL}
  /\ inserting \in BOOLEAN
  /\ z \in Pointer
  /\ up \in Pointer
  /\ side \in Side
  /\ result \in Pointer

\* No colour is read before it is written: container::allocate leaves the
\* field as the memory was, so every node that fixup_insert or a rotation can
\* look at has been painted.
ColorIsSet == \A n \in Members : color[n] \in {"Red", "Black"}

\* Parent arms and child arms are inverse of each other: a node's parent has
\* it as exactly one child, a child's parent arm leads back, the root has no
\* parent and a node outside the tree has no arm set.
Linked ==
  /\ root # NULL => Parent(root) = NULL
  /\ \A n \in Node, d \in Side : arm[n][d] # NULL => Parent(arm[n][d]) = n
  /\ \A n \in Node : arm[n]["Left"] # NULL => arm[n]["Left"] # arm[n]["Right"]
  /\ \A n \in Node : Parent(n) # NULL =>
        n \in {arm[Parent(n)]["Left"], arm[Parent(n)]["Right"]}
  /\ \A n \in Node \ Members, d \in Side : arm[n][d] = NULL

\* fixup_insert and the rotations follow parent, grandparent and child arms
\* without a test: none of them is null when they do.
NoNullDereference ==
  /\ pc = "fixup" /\ z # root => z # NULL /\ Parent(z) # NULL
  /\ pc = "fixup" /\ z # root /\ color[Parent(z)] = "Red" => Grandparent(z) # NULL
  /\ pc = "outer" =>
       /\ z # NULL /\ Parent(z) # NULL /\ Grandparent(z) # NULL
       /\ arm[Grandparent(z)][Outside] # NULL

\* A red node has a red parent only while fixup_insert is at work, and then
\* it is the node fixup_insert is looking at.
OneRedPair ==
  \A n \in Node : Parent(n) # NULL /\ IsRed(n) /\ IsRed(Parent(n)) =>
    pc \in {"fixup", "outer"} /\ n = z

\* The nodes on the way from n to the root, n included.
Ancestry(n) ==
  LET steps == Cardinality(Node)
      way[i \in 0..steps] ==
        IF i = 0 THEN n
        ELSE IF way[i-1] = NULL THEN NULL ELSE Parent(way[i-1])
  IN  {way[i] : i \in 0..steps} \ {NULL}

\* A set of nodes with every child of its nodes.
Closed(S) == \A n \in S, d \in Side : arm[n][d] \in S \cup {NULL}

\* Every node of the tree is reached by going down from the root: no rotation
\* ever cuts a subtree off or ties a knot.
AllReachable ==
  \A S \in SUBSET Node :
    Closed(S) /\ root \in S \cup {NULL} => Members \subseteq S

\* Below any node, smaller keys are on its left and larger ones on its right,
\* in the middle of a fixup too.
SearchOrder ==
  \A n \in Members : \A a \in Ancestry(n) \ {n} :
    \/ arm[a]["Left"] \in Ancestry(n) /\ KeyOf[n] < KeyOf[a]
    \/ arm[a]["Right"] \in Ancestry(n) /\ KeyOf[n] > KeyOf[a]

\* As many black nodes above every place where a node could be attached: the
\* recolourings and rotations of a fixup never lose this.
BlackBalanced ==
  LET open == {n \in Members : NULL \in {arm[n]["Left"], arm[n]["Right"]}}
      blacks(n) == Cardinality({a \in Ancestry(n) : color[a] = "Black"})
  IN  \A m, n \in open : blacks(m) = blacks(n)

\* Every call returns: the searches reach the bottom and the fixup loop, which
\* climbs two levels or ends, runs out of tree.
CallsReturn == pc # "idle" ~> pc = "idle"

-----------------------------------------------------------------------------
(***************************************************************************)
(* The inductive invariant behind Linked, NoNullDereference and OneRedPair.*)
(***************************************************************************)

\* The search stands on a node of the tree; a chain's new node is outside it.
SearchInv ==
  pc = "search" =>
    /\ up \in Members \cup {NULL}
    /\ Intrusive /\ inserting => z \in Node \ Members

\* fixup_insert looks at a red node of the tree.  The root is black, unless it
\* is that node: this is what gives a red parent a parent of its own.
FixupInv ==
  /\ pc = "fixup" => z \in Members /\ IsRed(z)
  /\ IsRed(root) => pc = "fixup" /\ z = root

\* Between its two rotations fixup_insert has a red outer grandchild of a red
\* child of a black node.
OuterInv ==
  pc = "outer" =>
    /\ z # NULL /\ Parent(z) # NULL /\ Grandparent(z) # NULL
    /\ IsRed(z) /\ IsRed(Parent(z)) /\ ~IsRed(Grandparent(z))
    /\ arm[Parent(z)][Outside] = z
    /\ arm[Grandparent(z)][Outside] = Parent(z)
    /\ ~IsRed(Uncle)

\* The shape and colour rules of the tree hold in every state, with the one
\* exception that the call in progress is about to mend.
IInv ==
  /\ TypeOK
  /\ ColorIsSet
  /\ Linked
  /\ AllReachable
  /\ OneRedPair
  /\ SearchInv
  /\ FixupInv
  /\ OuterInv

-----------------------------------------------------------------------------
\* What find and insert promise, in terms of the set of keys alone.
Abstract == INSTANCE KeySet WITH
  keys <- {KeyOf[n] : n \in Members},
  wanted <- key,
  inserting <- inserting,
  phase <- CASE pc = "idle" -> "idle"
             [] pc = "search" -> "asked"
             [] OTHER -> "decided",
  answer <- IF result = NULL THEN NULL ELSE KeyOf[result]

ImplementsKeySet == Abstract!Spec
=============================================================================
