------------------------- MODULE RbTreeOrder_proofs -------------------------
(***************************************************************************)
(* What the rotations and recolourings of RbTree are for, for every set of  *)
(* nodes and keys: the tree is searched in the order of its keys, a search  *)
(* finds what is there, and every way down meets as many black nodes.       *)
(* RbTree states the first and the last with the ways up from nodes, which  *)
(* are recursive; here they follow from invariants without ways.            *)
(***************************************************************************)
EXTENDS RbTree_proofs, FiniteSetTheorems, WellFoundedInduction

-----------------------------------------------------------------------------
(***************************************************************************)
(* The order.  All below an arm of a node are in a closed set whose keys    *)
(* are on that arm's side; a search that came by there looks for such a key.*)
(***************************************************************************)
Beyond(k, a, d) == IF d = "Left" THEN k < KeyOf[a] ELSE k > KeyOf[a]

CameBy(S, a, d) == pc = "search" /\ (up \in S \/ (up = a /\ side = d))

Separates(S, a, d) ==
  /\ Closed(S)
  /\ arm[a][d] \in S \cup {NULL}
  /\ \A n \in S : Beyond(KeyOf[n], a, d)
  /\ CameBy(S, a, d) => Beyond(key, a, d)

Sorted == \A a \in Node, d \in Side : \E S \in SUBSET Node : Separates(S, a, d)

\* A search has its key, has found nothing yet, and leaves no node of its key
\* behind: all are below *slot.
Narrowed ==
  pc = "search" =>
    /\ key \in Key
    /\ Intrusive /\ inserting => key = KeyOf[z]
    /\ result = NULL
    /\ \A S \in SUBSET Node : Closed(S) /\ Slot \in S \cup {NULL} =>
         \A m \in Members : KeyOf[m] = key => m \in S

OrderInv == IInv /\ Sorted /\ Narrowed

-----------------------------------------------------------------------------
LEMMA KeysAreIntegers == \A n \in Node : KeyOf[n] \in Int
  BY KeyAssumption

LEMMA BeyondIsStrict ==
  ASSUME NEW a \in Node, NEW d \in Side
  PROVE  /\ ~Beyond(KeyOf[a], a, d)
         /\ \A k \in Int : ~(Beyond(k, a, d) /\ Beyond(k, a, Opposite(d)))
  BY KeysAreIntegers DEF Beyond, Opposite, Side

\* What is on one side of x is on the same side of y, when x is on that side.
LEMMA BeyondIsTransitive ==
  ASSUME NEW x \in Node, NEW y \in Node, NEW d \in Side, NEW k \in Int,
         Beyond(k, x, d), Beyond(KeyOf[y], x, Opposite(d))
  PROVE  Beyond(k, y, d) /\ Beyond(KeyOf[x], y, d)
  BY KeysAreIntegers DEF Beyond, Opposite, Side

\* A set around a node with none of that node's parents may leave it out.
LEMMA LeaveOut ==
  ASSUME TypeOK, Linked, NEW S \in SUBSET Node, Closed(S), NEW y \in Node,
         \A n \in S : n # Parent(y)
  PROVE  Closed(S \ {y})
  <1> SUFFICES ASSUME NEW n \in S \ {y}, NEW e \in Side
               PROVE  arm[n][e] \in (S \ {y}) \cup {NULL}
    BY DEF Closed
  <1>1. arm[n][e] \in S \cup {NULL}
    BY DEF Closed
  <1>2. arm[n][e] = y => n = Parent(y)
    BY NullAssumption DEF Linked
  <1> QED BY <1>1, <1>2

\* A closed set with a node has its children; one without it has no parent of it.
LEMMA ClosedUnder ==
  ASSUME TypeOK, Linked, NEW S \in SUBSET Node, Closed(S), NEW n \in Node
  PROVE  /\ n \in S => \A e \in Side : arm[n][e] \in S \cup {NULL}
         /\ n \notin S => Parent(n) \notin S
  <1>1. n \notin S => Parent(n) \notin S
    <2> SUFFICES ASSUME n \notin S, Parent(n) \in S PROVE FALSE
      OBVIOUS
    <2>1. Parent(n) # NULL
      BY NullAssumption
    <2>2. PICK e \in Side : arm[Parent(n)][e] = n
      BY <2>1 DEF Linked, Side
    <2> QED BY <2>2, NullAssumption DEF Closed
  <1> QED BY <1>1 DEF Closed

LEMMA RotationSorts ==
  ASSUME IInv, Sorted, pc' # "search",
         NEW x \in Node, NEW d \in Side, arm[x][Opposite(d)] # NULL,
         arm' = Rotated(arm, d, x)
  PROVE  Sorted'
  <1> DEFINE o == Opposite(d)
             y == arm[x][o]
             inner == arm[y][d]
             p == Parent(x)
  <1>1. TypeOK /\ Linked /\ AllReachable
    BY DEF IInv
  <1>2. o \in Side /\ o # d /\ Opposite(o) = d /\ Side = {d, o}
    BY DEF Opposite, Side
  <1>3. /\ y \in Node /\ y # x /\ Parent(y) = x
        /\ inner \in Pointer /\ inner \notin {x, y}
        /\ p \in Pointer /\ p \notin {x, y}
        /\ inner # NULL => Parent(inner) = y
    BY <1>1, RotationNodes
  <1>4. Relinks(x, d, o, y, inner, p)
    BY <1>1, RotationLinks
  <1>5. y = arm[x][o] /\ inner = arm[y][d] /\ p = Parent(x)
    OBVIOUS
  <1>6. \A n \in Node, e \in Side : arm[n][e] = x => n = p
    BY <1>5, NullAssumption, <1>1 DEF Linked
  <1>7. \A n \in Node, e \in Side : arm[n][e] = y => n = x
    BY <1>3, NullAssumption, <1>1 DEF Linked
  <1> HIDE DEF o, y, inner, p
  <1>8. \A n \in Node, e \in Side :
          arm'[n][e] = IF n = x /\ e = o THEN inner
                       ELSE IF n = y /\ e = d THEN x
                       ELSE IF arm[n][e] = x THEN y ELSE arm[n][e]
    BY <1>4 DEF Relinks
  \* Closed sets stay closed that hold x, or neither x nor y.
  <1>9. ASSUME NEW S \in SUBSET Node, Closed(S), x \in S \/ y \notin S
        PROVE  Closed(S)'
    <2> SUFFICES ASSUME NEW n \in S, NEW e \in Side
                 PROVE  arm'[n][e] \in S \cup {NULL}
      BY DEF Closed
    <2>1. arm[n][e] \in S \cup {NULL}
      BY <1>9 DEF Closed
    <2>2. x \in S => y \in S \cup {NULL} /\ inner \in S \cup {NULL}
      <3>1. x \in S => y \in S
        BY <1>2, <1>3, <1>5, <1>9, NullAssumption DEF Closed
      <3>2. y \in S => inner \in S \cup {NULL}
        BY <1>2, <1>5, <1>9 DEF Closed
      <3> QED BY <3>1, <3>2
    <2>3. arm[n][e] = x => x \in S
      BY <2>1, NullAssumption
    <2>4. n # y \/ x \in S
      BY <1>9
    <2> QED BY <1>8, <2>1, <2>2, <2>3, <2>4
  <1>10. PICK Sxo \in SUBSET Node : Separates(Sxo, x, o)
    BY <1>2 DEF Sorted
  <1>11. PICK Sxd \in SUBSET Node : Separates(Sxd, x, d)
    BY DEF Sorted
  <1>12. PICK Syd \in SUBSET Node : Separates(Syd, y, d)
    BY <1>3 DEF Sorted
  <1>13. Beyond(KeyOf[y], x, o)
    BY <1>3, <1>5, <1>10, NullAssumption DEF Separates
  <1>14. x \notin Sxo /\ x \notin Sxd /\ y \notin Syd
    BY <1>2, <1>3, <1>10, <1>11, <1>12, BeyondIsStrict DEF Separates
  <1>15. y \notin Sxd
    <2>1. ~(Beyond(KeyOf[y], x, d) /\ Beyond(KeyOf[y], x, o))
      BY <1>2, <1>3, BeyondIsStrict, KeysAreIntegers DEF o
    <2> QED BY <1>11, <1>13, <2>1 DEF Separates
  <1>16. x \notin Syd
    <2> SUFFICES ASSUME x \in Syd PROVE FALSE
      OBVIOUS
    <2>1. y \in Syd
      BY <1>2, <1>3, <1>5, <1>12, NullAssumption DEF Separates, Closed
    <2> QED BY <1>14, <2>1
  <1>17. \A S, a, e : ~CameBy(S, a, e)'
    BY DEF CameBy
  <1> SUFFICES ASSUME NEW a \in Node, NEW e \in Side
               PROVE  \E S \in SUBSET Node :
                        /\ Closed(S)' /\ arm'[a][e] \in S \cup {NULL}
                        /\ \A n \in S : Beyond(KeyOf[n], a, e)
    BY <1>17 DEF Sorted, Separates, Beyond
  \* The arm of x that is turned: what was on that side of x and below y.
  <1>18. CASE a = x /\ e = o
    <2> DEFINE S == Sxo \cap Syd
    <2>1. Closed(S)
      BY <1>10, <1>12 DEF Separates, Closed
    <2>2. Closed(S)'
      BY <1>9, <1>14, <2>1
    <2>3. inner \in S \cup {NULL}
      <3>1. y \in Sxo
        BY <1>3, <1>5, <1>10, NullAssumption DEF Separates
      <3> QED BY <1>5, <1>10, <1>12, <3>1 DEF Separates, Closed
    <2>4. \A n \in S : Beyond(KeyOf[n], x, o)
      BY <1>10 DEF Separates
    <2> HIDE DEF S
    <2> QED BY <1>8, <1>18, <2>2, <2>3, <2>4 DEF S
  \* The arm of y that x is on now: x, its other side, and what was below y.
  <1>19. CASE a = y /\ e = d
    <2> DEFINE S == {x} \cup Sxd \cup Syd
    <2>1. ASSUME NEW n \in S, NEW f \in Side
          PROVE  arm'[n][f] \in S \cup {NULL}
      <3>1. CASE n = x
        <4>1. f = o => arm'[n][f] = inner /\ inner \in Syd \cup {NULL}
          BY <1>2, <1>5, <1>8, <1>12, <3>1 DEF Separates
        <4>2. f = d => arm[x][d] \in Sxd \cup {NULL}
          BY <1>11 DEF Separates
        <4>3. f = d => arm'[n][f] = arm[x][d]
          <5>1. arm[x][d] # x
            BY <1>11, <1>14, NullAssumption DEF Separates
          <5> QED BY <1>2, <1>3, <1>8, <3>1, <5>1
        <4> QED BY <1>2, <4>1, <4>2, <4>3
      <3>2. CASE n \in Sxd
        <4>1. arm[n][f] \in Sxd \cup {NULL}
          BY <1>11, <3>2 DEF Separates, Closed
        <4> QED BY <1>8, <1>14, <1>15, <3>2, <4>1, NullAssumption
      <3>3. CASE n \in Syd
        <4>1. arm[n][f] \in Syd \cup {NULL}
          BY <1>12, <3>3 DEF Separates, Closed
        <4> QED BY <1>8, <1>14, <1>16, <3>3, <4>1, NullAssumption
      <3> QED BY <3>1, <3>2, <3>3
    <2>2. Closed(S)'
      BY <2>1 DEF Closed
    <2>3. \A n \in S : Beyond(KeyOf[n], y, d)
      <3>1. \A n \in Sxd : Beyond(KeyOf[n], x, d) /\ KeyOf[n] \in Int
        BY <1>11, KeysAreIntegers DEF Separates
      <3>2. \A k \in Int : Beyond(k, x, d) => Beyond(k, y, d)
        BY <1>3, <1>13, BeyondIsTransitive DEF o
      <3>3. Beyond(KeyOf[x], y, d)
        BY <1>2, <1>3, <1>13, KeysAreIntegers DEF Beyond, Side
      <3>4. \A n \in Syd : Beyond(KeyOf[n], y, d)
        BY <1>12 DEF Separates
      <3> QED BY <3>1, <3>2, <3>3, <3>4
    <2>4. arm'[a][e] = x /\ x \in S /\ S \in SUBSET Node
      BY <1>3, <1>8, <1>19
    <2> HIDE DEF S
    <2> QED BY <1>19, <2>2, <2>3, <2>4
  \* Other arms keep their sets, without y where x is not in them.
  <1>20. CASE ~(a = x /\ e = o) /\ ~(a = y /\ e = d)
    <2>1. PICK S \in SUBSET Node : Separates(S, a, e)
      BY DEF Sorted
    <2>2. CASE x \in S
      <3>1. Closed(S)' /\ y \in S
        BY <1>2, <1>3, <1>5, <1>9, <2>1, <2>2, NullAssumption DEF Separates, Closed
      <3> QED BY <1>8, <1>20, <2>1, <3>1 DEF Separates
    <2>3. CASE x \notin S
      <3>2. PICK T \in SUBSET Node : T = S \ {y}
        OBVIOUS
      <3>1. Closed(T)
        BY <1>1, <1>3, <2>1, <2>3, <3>2, LeaveOut DEF Separates
      <3>3. arm[a][e] # y /\ arm[a][e] # x
        <4>1. arm[a][e] # x
          BY <2>1, <2>3, NullAssumption DEF Separates
        <4>2. arm[a][e] # y
          <5> SUFFICES ASSUME arm[a][e] = y PROVE FALSE
            OBVIOUS
          <5>1. a = x /\ e = d
            BY <1>2, <1>7, <1>20
          <5>2. arm[x][d] # arm[x][o]
            BY <1>1, <1>2, <1>3, <1>5, NullAssumption DEF Linked, Side
          <5> QED BY <1>5, <5>1, <5>2
        <4> QED BY <4>1, <4>2
      <3>4. arm'[a][e] \in T \cup {NULL}
        BY <1>8, <1>20, <2>1, <3>2, <3>3 DEF Separates
      <3>5. \A n \in T : Beyond(KeyOf[n], a, e)
        BY <2>1, <3>2 DEF Separates
      <3>6. Closed(T)'
        BY <1>9, <3>1, <3>2
      <3> QED BY <3>2, <3>4, <3>5, <3>6
    <2> QED BY <2>2, <2>3
  <1> QED BY <1>18, <1>19, <1>20

-----------------------------------------------------------------------------
\* The rotation of an inner grandchild, and that of the grandparent.
LEMMA InnerRotates ==
  ASSUME IInv, RotateInner
  PROVE  LET P == Parent(z)
             d == Outside
         IN  /\ P \in Node /\ z \in Node /\ d \in Side /\ arm[P][Opposite(d)] = z
             /\ color[z] = "Red" /\ color[P] = "Red" /\ UNCHANGED color
             /\ arm' = Rotated(arm, d, P) /\ root' = RotatedRoot(arm, root, d, P)
             /\ pc = "fixup" /\ pc' = "outer" /\ UNCHANGED <<result, key, inserting>>
  BY RedPairFamily DEF RotateInner, IsRed

LEMMA OuterRotates ==
  ASSUME IInv, RotateOuter
  PROVE  LET P == Parent(z)
             G == Grandparent(z)
             d == Opposite(Outside)
         IN  /\ P \in Node /\ G \in Node /\ d \in Side /\ arm[G][Opposite(d)] = P /\ P # G
             /\ color[P] = "Red" /\ color[G] = "Black"
             /\ color' = [color EXCEPT ![P] = "Black", ![G] = "Red"]
             /\ arm' = Rotated(arm, d, G) /\ root' = RotatedRoot(arm, root, d, G)
             /\ pc \in {"fixup", "outer"} /\ pc' = "fixup" /\ UNCHANGED <<result, key, inserting>>
  <1> DEFINE P == Parent(z)
             G == Grandparent(z)
             d == Opposite(Outside)
  <1>1. /\ P \in Node /\ G \in Node /\ IsRed(P) /\ ~IsRed(G) /\ Outside \in Side
        /\ arm[G][Outside] = P /\ (pc = "outer" \/ pc = "fixup")
    BY OuterFamily
  <1>2. d \in Side /\ Opposite(d) = Outside
    BY <1>1 DEF Opposite, Side
  <1>3. G \in Members
    BY <1>1, NullAssumption DEF IInv, Linked
  <1>4. color[P] = "Red" /\ color[G] = "Black"
    BY <1>1, <1>3, NullAssumption DEF IInv, ColorIsSet, IsRed
  <1> QED BY <1>1, <1>2, <1>4 DEF RotateOuter, call

LEMMA InitSorted == Init => Sorted /\ Narrowed
  <1> SUFFICES ASSUME Init PROVE Sorted /\ Narrowed
    OBVIOUS
  <1>1. ASSUME NEW a \in Node, NEW d \in Side
        PROVE  Separates({}, a, d)
    BY DEF Init, Separates, Closed, CameBy, Arm
  <1> QED BY <1>1 DEF Sorted, Narrowed, Init

\* A search starts above the whole tree.
LEMMA BeginSorted ==
  ASSUME OrderInv, NEW k \in Key, NEW ins \in BOOLEAN, NEW n, Begin(k, ins, n),
         Intrusive /\ ins => k = KeyOf[n]
  PROVE  Sorted' /\ Narrowed'
  <1>1. /\ UNCHANGED heap /\ up' = NULL /\ key' = k /\ inserting' = ins /\ z' = n
        /\ result' = NULL /\ pc = "idle"
    BY DEF Begin
  <1>2. Members' = Members /\ arm' = arm /\ root' = root
    BY <1>1 DEF heap, Members, Parent
  <1>3. Sorted'
    <2> SUFFICES ASSUME NEW a \in Node, NEW d \in Side
                 PROVE  \E S \in SUBSET Node : Separates(S, a, d)'
      BY DEF Sorted
    <2>1. PICK S \in SUBSET Node : Separates(S, a, d)
      BY DEF OrderInv, Sorted
    <2>2. ~CameBy(S, a, d)'
      BY <1>1, NullAssumption DEF CameBy
    <2>3. Separates(S, a, d)'
      BY <1>2, <2>1, <2>2 DEF Separates, Closed, Beyond
    <2> QED BY <2>3
  <1>4. Narrowed'
    <2> SUFFICES ASSUME NEW S \in SUBSET Node, Closed(S), root \in S \cup {NULL}
                 PROVE  Members \subseteq S
      BY <1>1, <1>2 DEF Narrowed, Slot, Closed
    <2> QED BY DEF OrderInv, IInv, AllReachable
  <1> QED BY <1>3, <1>4

\* One level down: what was below *slot is below the arm that the key is on.
LEMMA DescendSorted ==
  ASSUME OrderInv, Descend
  PROVE  Sorted' /\ Narrowed'
  <1> DEFINE c == Slot
             e == IF key < KeyOf[c] THEN "Left" ELSE "Right"
  <1>1. /\ pc = "search" /\ key # KeyOf[c] /\ up' = c /\ side' = e /\ c # NULL
        /\ UNCHANGED <<arm, root, pc, key, inserting, z, result>>
    BY DEF Descend, heap
  <1>2. TypeOK /\ Linked /\ IInv /\ Sorted /\ Narrowed
    BY DEF OrderInv, IInv
  <1>3. c \in Members /\ c \in Node /\ e \in Side
    BY <1>1, <1>2, SlotIsMember DEF Members, Side
  <1>4. key \in Int /\ KeyOf[c] \in Int
    BY <1>1, <1>2, <1>3, KeyAssumption, KeysAreIntegers DEF Narrowed
  <1>5. Beyond(key, c, e) /\ ~Beyond(key, c, Opposite(e))
    BY <1>1, <1>4 DEF Beyond, Opposite
  <1>6. Members' = Members
    BY <1>1 DEF Members, Parent
  <1>7. up # NULL => up \in Node /\ side \in Side /\ c = arm[up][side]
    BY <1>2 DEF TypeOK, Pointer, Slot
  <1>8. up = NULL => c = root
    BY DEF Slot
  <1>9. up = NULL => Parent(c) = NULL
    BY <1>1, <1>2, <1>8 DEF Linked
  <1>10. up # NULL => Parent(c) = up
    BY <1>1, <1>2, <1>7 DEF Linked
  <1> HIDE DEF c, e
  <1>11. Sorted'
    <2> SUFFICES ASSUME NEW a \in Node, NEW d \in Side
                 PROVE  \E S \in SUBSET Node : Separates(S, a, d)'
      BY DEF Sorted
    <2>1. PICK S \in SUBSET Node : Separates(S, a, d)
      BY <1>2 DEF Sorted
    <2>2. PICK T \in SUBSET Node :
            /\ Closed(T) /\ T \subseteq S /\ arm[a][d] \in T \cup {NULL}
            /\ c \in T => Beyond(key, a, d)
      <3>1. CASE c \notin S \/ Beyond(key, a, d)
        BY <2>1, <3>1 DEF Separates
      <3>2. CASE c \in S /\ ~Beyond(key, a, d)
        <4>1. up \notin S /\ ~(up = a /\ side = d)
          BY <1>1, <2>1, <3>2 DEF Separates, CameBy
        <4>2. Parent(c) \notin S
          BY <1>9, <1>10, <4>1, NullAssumption
        <4>3. Closed(S \ {c})
          BY <1>2, <1>3, <2>1, <4>2, LeaveOut DEF Separates
        <4>4. arm[a][d] # c
          <5> SUFFICES ASSUME arm[a][d] = c PROVE FALSE
            OBVIOUS
          <5>1. Parent(c) = a
            BY <1>2, <1>3, NullAssumption DEF Linked
          <5>2. up = a
            BY <1>9, <1>10, <5>1, NullAssumption
          <5>3. arm[a][side] = arm[a][d] /\ side \in Side /\ arm[a][d] # NULL
            BY <1>3, <1>7, <5>2, NullAssumption
          <5>4. side = d
            BY <1>2, <5>3 DEF Linked, Side
          <5> QED BY <4>1, <5>2, <5>4
        <4> QED BY <2>1, <4>3, <4>4 DEF Separates
      <3> QED BY <3>1, <3>2
    <2>3. CASE a = c
      <3>1. c \notin T
        BY <1>3, <2>1, <2>2, <2>3, BeyondIsStrict DEF Separates
      <3>2. d = e => Beyond(key, a, d)
        BY <1>5, <2>3
      <3>3. Separates(T, a, d)'
        BY <1>1, <2>1, <2>2, <3>1, <3>2 DEF Separates, CameBy, Closed, Beyond
      <3> QED BY <3>3
    <2>4. CASE a # c
      <3>1. Separates(T, a, d)'
        BY <1>1, <2>1, <2>2, <2>4 DEF Separates, CameBy, Closed, Beyond
      <3> QED BY <3>1
    <2> QED BY <2>3, <2>4
  <1>12. Narrowed'
    <2> SUFFICES ASSUME NEW S \in SUBSET Node, Closed(S), arm[c][e] \in S \cup {NULL},
                        NEW m \in Members, KeyOf[m] = key
                 PROVE  m \in S
      BY <1>1, <1>2, <1>3, <1>6, NullAssumption DEF Narrowed, Slot, Closed
    <2>1. PICK R \in SUBSET Node : Separates(R, c, Opposite(e))
      <3>1. Opposite(e) \in Side
        BY DEF Opposite, Side
      <3> QED BY <1>2, <1>3, <3>1 DEF Sorted
    <2> DEFINE T == {c} \cup S \cup R
    <2>2. \A d \in Side : arm[c][d] \in T \cup {NULL}
      <3>1. Side = {e, Opposite(e)}
        BY <1>3 DEF Opposite, Side
      <3>2. arm[c][Opposite(e)] \in R \cup {NULL}
        BY <2>1 DEF Separates
      <3> QED BY <3>1, <3>2
    <2>3. Closed(T)
      BY <2>1, <2>2 DEF Closed, Separates
    <2>4. m \in T
      <3>1. T \in SUBSET Node /\ Slot \in T \cup {NULL}
        BY <1>3 DEF c
      <3> HIDE DEF T
      <3> QED BY <1>1, <1>2, <2>3, <3>1 DEF Narrowed
    <2>5. m # c
      BY <1>1
    <2>6. m \notin R
      BY <1>5, <2>1 DEF Separates
    <2> QED BY <2>4, <2>5, <2>6
  <1> QED BY <1>11, <1>12

\* Steps that leave arms and search nothing.
LEMMA ArmsKept ==
  ASSUME Sorted, UNCHANGED arm, pc' # "search"
  PROVE  Sorted' /\ Narrowed'
  <1> SUFFICES ASSUME NEW a \in Node, NEW d \in Side
               PROVE  \E S \in SUBSET Node : Separates(S, a, d)'
    BY DEF Sorted, Narrowed
  <1>1. PICK S \in SUBSET Node : Separates(S, a, d)
    BY DEF Sorted
  <1>2. Separates(S, a, d)'
    BY <1>1 DEF Separates, CameBy, Closed, Beyond
  <1> QED BY <1>2

\* A new node has the key that was searched for.
LEMMA NewNodeKey ==
  ASSUME OrderInv, pc = "search", inserting, NEW n \in Node, n \in NewNode
  PROVE  KeyOf[n] = key
  BY DEF OrderInv, Narrowed, NewNode

LEMMA AttachSorted ==
  ASSUME OrderInv, NEW n \in Node, Attach(n)
  PROVE  Sorted' /\ Narrowed'
  <1>1. IInv /\ Sorted /\ pc = "search" /\ pc' = "fixup" /\ KeyOf[n] = key
    BY NewNodeKey DEF OrderInv, Attach
  <1>2. /\ up \in Node /\ side \in Side /\ arm[up][side] = NULL /\ up # n
        /\ \A m \in Node, d \in Side :
             arm'[m][d] = IF m = up /\ d = side THEN n ELSE arm[m][d]
        /\ \A d \in Side : arm[n][d] = NULL
        /\ \A m \in Node, d \in Side : arm[m][d] # n
    BY <1>1, AttachLinks
  <1>3. \A S, a, d : ~CameBy(S, a, d)'
    BY <1>1 DEF CameBy
  <1> SUFFICES ASSUME NEW a \in Node, NEW d \in Side
               PROVE  \E S \in SUBSET Node :
                        /\ Closed(S)' /\ arm'[a][d] \in S \cup {NULL}
                        /\ \A m \in S : Beyond(KeyOf[m], a, d)
    BY <1>1, <1>3 DEF Sorted, Narrowed, Separates, Beyond
  <1>4. PICK S \in SUBSET Node : Separates(S, a, d)
    BY <1>1 DEF Sorted
  \* n goes into the sets that the search came by, and into no other.
  <1>5. PICK T \in SUBSET Node : T = IF CameBy(S, a, d) THEN S \cup {n} ELSE S \ {n}
    OBVIOUS
  <1>6. Closed(T)'
    <2> SUFFICES ASSUME NEW m \in T, NEW e \in Side
                 PROVE  arm'[m][e] \in T \cup {NULL}
      BY DEF Closed
    <2>1. m \in S => arm[m][e] \in S \cup {NULL}
      BY <1>4 DEF Separates, Closed
    <2>2. m \notin S => m = n
      BY <1>5
    <2>3. up \in S => CameBy(S, a, d)
      BY <1>1 DEF CameBy
    <2> QED BY <1>2, <1>5, <2>1, <2>2, <2>3
  <1>7. arm'[a][d] \in T \cup {NULL}
    <2>1. a = up /\ d = side => CameBy(S, a, d)
      BY <1>1 DEF CameBy
    <2>2. arm[a][d] \in S \cup {NULL}
      BY <1>4 DEF Separates
    <2> QED BY <1>2, <1>5, <2>1, <2>2
  <1>8. \A m \in T : Beyond(KeyOf[m], a, d)
    BY <1>1, <1>4, <1>5 DEF Separates
  <1> QED BY <1>6, <1>7, <1>8

LEMMA NextOrderInv ==
  ASSUME OrderInv, [Next]_vars
  PROVE  OrderInv'
  <1>1. IInv /\ Sorted /\ IInv'
    BY NextIInv DEF OrderInv
  <1> SUFFICES Sorted' /\ Narrowed'
    BY <1>1 DEF OrderInv
  <1>2. ASSUME NEW k \in Key, Find(k) \/ ContainerInsert(k)
        PROVE  Sorted' /\ Narrowed'
    BY <1>2, BeginSorted DEF Find, ContainerInsert
  <1>3. ASSUME NEW n \in Node, ChainInsert(n)
        PROVE  Sorted' /\ Narrowed'
    BY <1>3, BeginSorted, KeyAssumption DEF ChainInsert
  <1>4. CASE Hit \/ Miss \/ Recolor \/ EndFixup \/ Return \/ \E n \in Node : PlantRoot(n)
    <2>1. UNCHANGED arm /\ pc' # "search"
      BY <1>4 DEF Hit, Miss, Recolor, EndFixup, Return, PlantRoot, heap
    <2> QED BY <1>1, <2>1, ArmsKept
  <1>5. CASE RotateInner \/ RotateOuter
    <2>1. PICK x \in Node, d \in Side :
            arm[x][Opposite(d)] # NULL /\ arm' = Rotated(arm, d, x) /\ pc' # "search"
      BY <1>1, <1>5, InnerRotates, OuterRotates, NullAssumption
    <2>2. Sorted'
      BY <1>1, <2>1, RotationSorts
    <2> QED BY <2>1, <2>2 DEF Narrowed
  <1>6. CASE UNCHANGED vars
    <2>1. UNCHANGED <<arm, color, root, pc, key, inserting, z, up, side, result>>
      BY <1>6 DEF vars, heap, call
    <2>2. Sorted'
      <3> SUFFICES ASSUME NEW a \in Node, NEW d \in Side
                   PROVE  \E S \in SUBSET Node : Separates(S, a, d)'
        BY DEF Sorted
      <3>1. PICK S \in SUBSET Node : Separates(S, a, d)
        BY <1>1 DEF Sorted
      <3>2. Separates(S, a, d)'
        BY <2>1, <3>1 DEF Separates, CameBy, Closed, Beyond
      <3> QED BY <3>2
    <2>3. Members' = Members /\ Slot' = Slot
      BY <2>1 DEF Members, Parent, Slot
    <2>4. Narrowed'
      BY <2>1, <2>3 DEF OrderInv, Narrowed, Closed
    <2> QED BY <2>2, <2>4
  <1> QED BY <1>2, <1>3, <1>4, <1>5, <1>6, DescendSorted, AttachSorted DEF Next, Step

\* The tree stays in order, and searches stay on the way to their key.
THEOREM OrderInvariance == Spec => []OrderInv
  <1>1. Init => OrderInv
    BY InitIInv, InitSorted DEF OrderInv
  <1>2. OrderInv /\ [Next]_vars => OrderInv'
    BY NextOrderInv
  <1> QED BY <1>1, <1>2, PTL DEF Spec

-----------------------------------------------------------------------------
(***************************************************************************)
(* The refinement: one step of a call decides it, the others stutter.       *)
(***************************************************************************)
KeysOf(S) == {KeyOf[n] : n \in S}
Phase == CASE pc = "idle" -> "idle" [] pc = "search" -> "asked" [] OTHER -> "decided"
Answer == IF result = NULL THEN NULL ELSE KeyOf[result]

\* Steps between two decisions.
LEMMA StepStutters ==
  ASSUME UNCHANGED <<key, inserting, result>>, Members' = Members, Phase' = Phase
  PROVE  UNCHANGED Abstract!vars
  <1>1. KeysOf(Members)' = KeysOf(Members) /\ Answer' = Answer
    BY DEF KeysOf, Answer
  <1> QED BY <1>1 DEF Abstract!vars, KeysOf, Answer, Phase

\* The step in which a call gets its node, or comes to the end of its way.
LEMMA StepDecides ==
  ASSUME pc = "search", pc' \notin {"idle", "search"}, UNCHANGED <<key, inserting>>,
         KeysOf(Members') = IF inserting THEN KeysOf(Members) \cup {key} ELSE KeysOf(Members),
         Answer' = IF inserting \/ key \in KeysOf(Members) THEN key ELSE NULL
  PROVE  Abstract!Next
  <1>1. Phase = "asked" /\ Phase' = "decided"
    BY DEF Phase
  <1>2. KeysOf(Members)' = KeysOf(Members')
    BY DEF KeysOf
  <1>3. Abstract!Decide
    BY <1>1, <1>2 DEF Abstract!Decide, KeysOf, Answer, Phase
  <1> QED BY <1>3 DEF Abstract!Next

LEMMA BeginAsks ==
  ASSUME NEW k \in Key, NEW ins \in BOOLEAN, NEW n, Begin(k, ins, n)
  PROVE  Abstract!Next
  <1>1. Phase = "idle" /\ Phase' = "asked" /\ Answer' = NULL
    BY DEF Begin, Phase, Answer
  <1>2. Members' = Members /\ KeysOf(Members)' = KeysOf(Members) /\ key' = k /\ inserting' = ins
    BY DEF Begin, heap, Members, Parent, KeysOf
  <1>3. Abstract!Ask(k, ins)
    BY <1>1, <1>2 DEF Abstract!Ask, KeysOf, Answer, Phase
  <1> QED BY <1>3 DEF Abstract!Next

\* Of a chain's insertion that finds its key, the caller has the node back that
\* it brought, and not the node of the tree: of the same key it is.
LEMMA HitDecides ==
  ASSUME OrderInv, Hit
  PROVE  Abstract!Next
  <1>1. /\ pc = "search" /\ pc' = "return" /\ UNCHANGED <<key, inserting>> /\ Slot # NULL
        /\ key = KeyOf[Slot] /\ result' = IF Intrusive /\ inserting THEN z ELSE Slot
    BY DEF Hit
  <1>2. Slot \in Members
    BY <1>1, SlotIsMember DEF OrderInv
  <1>3. key \in KeysOf(Members)
    BY <1>1, <1>2 DEF KeysOf
  <1>4. Members' = Members
    BY DEF Hit, heap, Members, Parent
  <1>5. result' # NULL /\ KeyOf[result'] = key
    <2>1. Intrusive /\ inserting => z \in Node /\ key = KeyOf[z]
      BY <1>1 DEF OrderInv, IInv, SearchInv, Narrowed
    <2> QED BY <1>1, <2>1, NullAssumption
  <1>6. Answer' = key
    BY <1>5 DEF Answer
  <1> QED BY <1>1, <1>3, <1>4, <1>6, StepDecides

\* A search that comes to the end of its way has passed no node of its key.
LEMMA MissDecides ==
  ASSUME OrderInv, Miss
  PROVE  Abstract!Next
  <1>1. /\ pc = "search" /\ pc' = "return" /\ UNCHANGED <<key, inserting, result>>
        /\ Slot = NULL /\ ~inserting
    BY DEF Miss, call
  <1>2. Members' = Members
    BY DEF Miss, heap, Members, Parent
  <1>3. key \notin KeysOf(Members)
    <2>1. Closed({})
      BY DEF Closed
    <2>2. \A m \in Members : KeyOf[m] # key
      BY <1>1, <2>1 DEF OrderInv, Narrowed
    <2> QED BY <2>2 DEF KeysOf
  <1>4. Answer' = NULL
    BY <1>1 DEF Answer, OrderInv, Narrowed
  <1> QED BY <1>1, <1>2, <1>3, <1>4, StepDecides

LEMMA PlantDecides ==
  ASSUME OrderInv, NEW n \in Node, PlantRoot(n) \/ Attach(n)
  PROVE  Abstract!Next
  <1>1. /\ pc = "search" /\ pc' \in {"return", "fixup"} /\ UNCHANGED <<key, inserting>>
        /\ inserting /\ result' = n /\ n \in NewNode
    BY DEF PlantRoot, Attach
  <1>2. KeyOf[n] = key
    BY <1>1, NewNodeKey
  <1>3. Members' = Members \cup {n}
    <2>1. CASE PlantRoot(n)
      <3>1. Members = {}
        BY <2>1, EmptyTree DEF PlantRoot, OrderInv, IInv
      <3>2. \A m \in Node : Parent(m) = NULL
        BY <3>1 DEF Members
      <3> QED BY <2>1, <3>1, <3>2 DEF PlantRoot, Members, Parent
    <2>2. CASE Attach(n)
      BY <2>2, AttachLinks DEF OrderInv
    <2> QED BY <2>1, <2>2
  <1>4. KeysOf(Members') = KeysOf(Members) \cup {key}
    BY <1>2, <1>3 DEF KeysOf
  <1>5. Answer' = key
    BY <1>1, <1>2, NullAssumption DEF Answer
  <1> QED BY <1>1, <1>4, <1>5, StepDecides

LEMMA ReturnAnswers ==
  ASSUME Return
  PROVE  Abstract!Next
  <1>1. Phase = "decided" /\ Phase' = "idle"
    BY DEF Return, Phase
  <1>2. UNCHANGED <<key, inserting, result>> /\ Members' = Members
    BY DEF Return, call, heap, Members, Parent
  <1>3. KeysOf(Members)' = KeysOf(Members) /\ Answer' = Answer
    BY <1>2 DEF KeysOf, Answer
  <1>4. Abstract!Answer
    BY <1>1, <1>2, <1>3 DEF Abstract!Answer, KeysOf, Answer, Phase
  <1> QED BY <1>4 DEF Abstract!Next

LEMMA FixupStutters ==
  ASSUME OrderInv, Recolor \/ RotateInner \/ RotateOuter \/ EndFixup
  PROVE  UNCHANGED Abstract!vars
  <1>1. /\ UNCHANGED <<key, inserting, result>>
        /\ pc \notin {"idle", "search"} /\ pc' \notin {"idle", "search"}
    BY DEF Recolor, RotateInner, RotateOuter, EndFixup, call
  <1>2. Phase' = Phase
    BY <1>1 DEF Phase
  <1>3. Members' = Members
    <2>1. CASE Recolor \/ EndFixup
      BY <2>1 DEF Recolor, EndFixup, Members, Parent
    <2>2. CASE RotateInner \/ RotateOuter
      <3>1. PICK x \in Node, d \in Side :
              /\ arm[x][Opposite(d)] # NULL /\ arm' = Rotated(arm, d, x)
              /\ root' = RotatedRoot(arm, root, d, x)
        BY <2>2, InnerRotates, OuterRotates, NullAssumption DEF OrderInv
      <3> QED BY <3>1, RotationKeepsTree DEF OrderInv, IInv
    <2> QED BY <2>1, <2>2
  <1> QED BY <1>1, <1>2, <1>3, StepStutters

\* find and insert do what a set of keys does: an inserted key is found from
\* then on, no other is, and an insertion adds nothing but its key.
THEOREM TreeIsASet == Spec => ImplementsKeySet
  <1>1. Init => Abstract!Init
    <2> SUFFICES ASSUME Init PROVE Abstract!Init
      OBVIOUS
    <2>1. Members = {}
      BY NullAssumption DEF Init, Members, Parent, Arm
    <2> QED BY <2>1 DEF Init, Abstract!Init
  <1>2. OrderInv /\ [Next]_vars => [Abstract!Next]_Abstract!vars
    <2> SUFFICES ASSUME OrderInv, [Next]_vars PROVE Abstract!Next \/ UNCHANGED Abstract!vars
      OBVIOUS
    <2>1. ASSUME NEW k \in Key, Find(k) \/ ContainerInsert(k)
          PROVE  Abstract!Next
      BY <2>1, BeginAsks DEF Find, ContainerInsert
    <2>2. ASSUME NEW n \in Node, ChainInsert(n)
          PROVE  Abstract!Next
      BY <2>2, BeginAsks, KeyAssumption DEF ChainInsert
    <2>3. CASE Descend
      <3>1. UNCHANGED <<key, inserting, result>> /\ Members' = Members /\ Phase' = Phase
        BY <2>3 DEF Descend, heap, Members, Parent, Phase
      <3> QED BY <3>1, StepStutters
    <2>4. CASE UNCHANGED vars
      <3>1. UNCHANGED <<key, inserting, result>> /\ Members' = Members /\ Phase' = Phase
        BY <2>4 DEF vars, call, heap, Members, Parent, Phase
      <3> QED BY <3>1, StepStutters
    <2>5. CASE Step /\ ~Descend
      BY <2>5, HitDecides, MissDecides, PlantDecides, ReturnAnswers, FixupStutters DEF Step
    <2> QED BY <2>1, <2>2, <2>3, <2>4, <2>5 DEF Next
  <1> QED BY <1>1, <1>2, OrderInvariance, PTL DEF Spec, ImplementsKeySet, Abstract!Spec

-----------------------------------------------------------------------------
(***************************************************************************)
(* Ways up.  Ancestry is a recursive function; what is used of it is that   *)
(* it is the least set with n and all parents of its nodes.                 *)
(***************************************************************************)
LEMMA AllNumbers ==
  ASSUME NEW T \in SUBSET Nat, 0 \in T, \A k \in T : k + 1 \in T
  PROVE  T = Nat
  <1> DEFINE R == OpToRel(<, Nat)
             F == Nat \ T
  <1>1. IsWellFoundedOn(R, Nat)
    BY NatLessThanWellFounded
  <1>2. \A x, y \in Nat : y < x => <<y, x>> \in R
    BY DEF OpToRel
  <1> HIDE DEF R
  <1> SUFFICES ASSUME F # {} PROVE FALSE
    OBVIOUS
  <1>3. PICK x \in F : \A y \in F : ~ (<<y, x>> \in R)
    <2> F \in SUBSET Nat
      OBVIOUS
    <2> HIDE DEF F
    <2> QED BY <1>1, WFMin
  <1>4. x - 1 \in Nat /\ x - 1 < x
    BY <1>3
  <1>5. x - 1 \in T
    BY <1>2, <1>3, <1>4, Zenon
  <1>6. (x - 1) + 1 = x
    BY <1>3
  <1> QED BY <1>3, <1>5, <1>6

Up(p) == IF p = NULL THEN NULL ELSE Parent(p)

WayUp(n) ==
  CHOOSE w : w = [i \in 0..Cardinality(Node) |-> IF i = 0 THEN n ELSE Up(w[i - 1])]

LEMMA AncestryOnWay ==
  ASSUME NEW n
  PROVE  Ancestry(n) = {WayUp(n)[i] : i \in 0..Cardinality(Node)} \ {NULL}
  BY DEF Ancestry, WayUp, Up

LEMMA WayProperties ==
  ASSUME TypeOK, NEW n \in Node
  PROVE  /\ Cardinality(Node) \in Nat
         /\ WayUp(n) \in [0..Cardinality(Node) -> Pointer]
         /\ WayUp(n)[0] = n
         /\ \A i \in 1..Cardinality(Node) : WayUp(n)[i] = Up(WayUp(n)[i - 1])
  <1> DEFINE N == Cardinality(Node)
  <1>1. N \in Nat
    BY NodeAssumption, FS_CardinalityType
  <1>2. \A p \in Pointer : Up(p) \in Pointer
    BY DEF Up, TypeOK, Pointer, Parent, Arm
  <1>3. n \in Pointer
    BY DEF Pointer
  <1> DEFINE Way(w, k) == w[0] = n /\ \A i \in 1..k : w[i] = Up(w[i - 1])
             T == {k \in Nat : \E w \in [0..k -> Pointer] : Way(w, k)}
  <1> HIDE DEF N
  <1>4. 0 \in T
    <2> DEFINE w == [i \in 0..0 |-> n]
    <2>1. w \in [0..0 -> Pointer] /\ Way(w, 0)
      BY <1>3
    <2> QED BY <2>1
  <1>5. ASSUME NEW k \in T
        PROVE  k + 1 \in T
    <2>1. PICK w \in [0..k -> Pointer] : Way(w, k)
      OBVIOUS
    <2> DEFINE v == [i \in 0..(k + 1) |-> IF i = k + 1 THEN Up(w[k]) ELSE w[i]]
    <2>2. w[k] \in Pointer
      BY <1>5
    <2>3. v \in [0..(k + 1) -> Pointer]
      BY <1>2, <2>2
    <2>4. v[0] = n /\ v[k + 1] = Up(v[k])
      BY <1>5, <2>1
    <2>5. ASSUME NEW i \in 1..k
          PROVE  v[i] = Up(v[i - 1])
      <3>1. v[i] = w[i] /\ v[i - 1] = w[i - 1]
        BY <1>5
      <3> QED BY <2>1, <3>1
    <2> HIDE DEF v
    <2>6. \A i \in 1..(k + 1) : i = k + 1 \/ i \in 1..k
      BY <1>5
    <2>7. (k + 1) - 1 = k /\ k + 1 \in Nat
      BY <1>5
    <2>8. Way(v, k + 1)
      BY <2>4, <2>5, <2>6, <2>7
    <2> QED BY <2>3, <2>7, <2>8
  <1>6. T = Nat
    <2> T \in SUBSET Nat
      OBVIOUS
    <2> HIDE DEF T
    <2> QED BY <1>4, <1>5, AllNumbers
  <1>7. PICK w \in [0..N -> Pointer] : Way(w, N)
    BY <1>1, <1>6
  <1>8. w = [i \in 0..N |-> IF i = 0 THEN n ELSE Up(w[i - 1])]
    <2>1. \A i \in 0..N : w[i] = IF i = 0 THEN n ELSE Up(w[i - 1])
      BY <1>1, <1>7
    <2> QED BY <1>7, <2>1
  <1>9. WayUp(n) = [i \in 0..N |-> IF i = 0 THEN n ELSE Up(WayUp(n)[i - 1])]
    BY <1>8, Zenon DEF WayUp, N
  <1> DEFINE u == WayUp(n)
  <1> HIDE DEF u
  <1>10. u = [i \in 0..N |-> IF i = 0 THEN n ELSE Up(u[i - 1])]
    BY <1>9 DEF u
  <1>11. u = [i \in 0..N |-> u[i]]
    BY <1>10
  <1>12. u[0] = n /\ \A i \in 1..N : u[i] = Up(u[i - 1])
    <2>1. \A i \in 0..N : u[i] = IF i = 0 THEN n ELSE Up(u[i - 1])
      BY <1>10
    <2>2. 0 \in 0..N /\ \A i \in 1..N : i \in 0..N /\ i # 0
      BY <1>1
    <2> QED BY <2>1, <2>2
  <1> DEFINE V == {k \in Nat : k <= N => u[k] \in Pointer}
  <1>13. 0 \in V /\ \A k \in V : k + 1 \in V
    <2>1. ASSUME NEW k \in V, k + 1 <= N
          PROVE  u[k + 1] \in Pointer
      <3>1. k + 1 \in 1..N /\ (k + 1) - 1 = k /\ u[k] \in Pointer
        BY <1>1, <2>1
      <3> QED BY <1>2, <1>12, <3>1
    <2>2. ASSUME NEW k \in V PROVE k + 1 \in V
      BY <2>1, <2>2
    <2>3. 0 \in V
      BY <1>3, <1>12
    <2> QED BY <2>2, <2>3
  <1>14. V = Nat
    <2> V \in SUBSET Nat
      OBVIOUS
    <2> HIDE DEF V
    <2> QED BY <1>13, AllNumbers
  <1>15. u \in [0..N -> Pointer]
    <2>1. \A i \in 0..N : u[i] \in Pointer
      BY <1>1, <1>14
    <2> QED BY <1>11, <2>1
  <1> QED BY <1>1, <1>12, <1>15 DEF u, N

\* n, with its parents.
LEMMA AncestryProperties ==
  ASSUME TypeOK, Linked, AllReachable, NEW n \in Node
  PROVE  /\ Ancestry(n) \in SUBSET Node
         /\ n \in Ancestry(n)
         /\ \A a \in Ancestry(n) : Parent(a) \in Ancestry(n) \cup {NULL}
         /\ \A S \in SUBSET Node :
              n \in S /\ (\A m \in S : Parent(m) \in S \cup {NULL}) => Ancestry(n) \subseteq S
  <1> DEFINE N == Cardinality(Node)
             u == WayUp(n)
  <1>1. /\ N \in Nat /\ u \in [0..N -> Pointer] /\ u[0] = n
        /\ \A i \in 1..N : u[i] = Up(u[i - 1])
    BY WayProperties
  <1>2. Ancestry(n) = {u[i] : i \in 0..N} \ {NULL}
    BY AncestryOnWay
  <1> HIDE DEF N, u
  <1>3. \A i \in 0..(N - 1) : u[i + 1] = Up(u[i])
    <2> SUFFICES ASSUME NEW i \in 0..(N - 1) PROVE u[i + 1] = Up(u[i])
      OBVIOUS
    <2>1. i + 1 \in 1..N /\ (i + 1) - 1 = i
      BY <1>1
    <2> QED BY <1>1, <2>1
  \* There are more steps than nodes.
  <1>4. u[N] = NULL
    <2> SUFFICES ASSUME u[N] # NULL PROVE FALSE
      OBVIOUS
    <2> DEFINE T == {k \in Nat : k <= N => u[N - k] # NULL}
    <2>1. 0 \in T
      BY <1>1
    <2>2. ASSUME NEW k \in T PROVE k + 1 \in T
      <3> SUFFICES ASSUME k + 1 <= N PROVE u[N - (k + 1)] # NULL
        BY <2>2
      <3>1. N - (k + 1) \in 0..(N - 1) /\ (N - (k + 1)) + 1 = N - k /\ u[N - k] # NULL
        BY <1>1, <2>2
      <3> QED BY <1>3, <3>1 DEF Up
    <2>3. T = Nat
      <3> T \in SUBSET Nat
        OBVIOUS
      <3> HIDE DEF T
      <3> QED BY <2>1, <2>2, AllNumbers
    <2>4. ASSUME NEW i \in 0..N PROVE u[i] # NULL
      <3>1. N - i \in Nat /\ N - i <= N /\ N - (N - i) = i
        BY <1>1
      <3>2. N - i \in T
        BY <2>3, <3>1, Zenon
      <3> QED BY <3>1, <3>2
    <2> HIDE DEF T
    <2>5. u \in [0..N -> Node]
      BY <1>1, <2>4 DEF Pointer
    <2>6. PICK i, j \in 0..N : i < j /\ u[i] = u[j]
      <3>1. IsFiniteSet(0..N) /\ Cardinality(0..N) = N + 1
        BY <1>1, FS_Interval
      <3>2. Cardinality(Node) < Cardinality(0..N)
        BY <1>1, <3>1 DEF N
      <3>3. PICK i, j \in 0..N : i # j /\ u[i] = u[j]
        BY <2>5, <3>1, <3>2, NodeAssumption, FS_PigeonHole
      <3>4. i < j \/ j < i
        BY <1>1, <3>3
      <3> QED BY <3>3, <3>4
    <2> DEFINE C == {u[k] : k \in i..(j - 1)}
    <2>7. C \in SUBSET Node
      BY <1>1, <2>5
    <2>8. ASSUME NEW k \in i..(j - 1) PROVE Parent(u[k]) \in C
      <3>1. k \in 0..(N - 1) /\ k \in 0..N
        BY <1>1
      <3>2. u[k + 1] = Parent(u[k])
        BY <1>3, <2>4, <3>1 DEF Up
      <3>3. k + 1 \in i..(j - 1) \/ k + 1 = j
        BY <1>1
      <3>4. i \in i..(j - 1)
        BY <1>1, <2>6
      <3> QED BY <2>6, <3>2, <3>3, <3>4
    <2>9. u[i] \in C
      BY <1>1, <2>6
    <2>10. \A m \in C : Parent(m) \in C
      BY <2>8
    <2> HIDE DEF C
    <2> QED BY <2>7, <2>9, <2>10, NoParentCycle
  <1>5. ASSUME NEW i \in 0..N, u[i] # NULL
        PROVE  Parent(u[i]) \in {u[k] : k \in 0..N}
    <2>1. i \in 0..(N - 1) /\ i + 1 \in 0..N
      BY <1>1, <1>4, <1>5
    <2>2. u[i + 1] = Parent(u[i])
      BY <1>3, <1>5, <2>1 DEF Up
    <2> QED BY <2>1, <2>2
  <1>6. ASSUME NEW S \in SUBSET Node, n \in S, \A m \in S : Parent(m) \in S \cup {NULL}
        PROVE  \A i \in 0..N : u[i] \in S \cup {NULL}
    <2> DEFINE T == {k \in Nat : k <= N => u[k] \in S \cup {NULL}}
    <2>1. 0 \in T
      BY <1>1, <1>6
    <2>2. ASSUME NEW k \in T PROVE k + 1 \in T
      <3> SUFFICES ASSUME k + 1 <= N PROVE u[k + 1] \in S \cup {NULL}
        BY <2>2
      <3>1. k \in 0..(N - 1) /\ u[k] \in S \cup {NULL}
        BY <1>1, <2>2
      <3> QED BY <1>3, <1>6, <3>1 DEF Up
    <2>3. T = Nat
      <3> T \in SUBSET Nat
        OBVIOUS
      <3> HIDE DEF T
      <3> QED BY <2>1, <2>2, AllNumbers
    <2> QED BY <1>1, <2>3
  <1>7. Ancestry(n) \in SUBSET Node /\ n \in Ancestry(n)
    <2>1. 0 \in 0..N /\ n # NULL
      BY <1>1, NullAssumption
    <2> QED BY <1>1, <1>2, <2>1 DEF Pointer
  <1>8. \A a \in Ancestry(n) : Parent(a) \in Ancestry(n) \cup {NULL}
    BY <1>2, <1>5
  <1> QED BY <1>2, <1>6, <1>7, <1>8

\* Whoever is above n has an arm that leads to n.
LEMMA NodeBelowAncestor ==
  ASSUME TypeOK, Linked, AllReachable, NEW n \in Node, NEW a \in Ancestry(n) \ {n}
  PROVE  a \in Node /\ \E d \in Side : arm[a][d] \in Ancestry(n)
  <1> DEFINE A == Ancestry(n)
             S == {b \in A : b = n \/ \E d \in Side : arm[b][d] \in A}
  <1>1. /\ A \in SUBSET Node /\ n \in A
        /\ \A b \in A : Parent(b) \in A \cup {NULL}
        /\ \A T \in SUBSET Node :
             n \in T /\ (\A m \in T : Parent(m) \in T \cup {NULL}) => A \subseteq T
    BY AncestryProperties
  <1> HIDE DEF A
  <1>2. ASSUME NEW m \in S PROVE Parent(m) \in S \cup {NULL}
    <2> SUFFICES ASSUME Parent(m) # NULL PROVE Parent(m) \in S
      OBVIOUS
    <2>1. m \in A /\ m \in Node /\ Parent(m) \in A
      BY <1>1
    <2>2. PICK d \in Side : arm[Parent(m)][d] = m
      BY <2>1 DEF Linked, Side
    <2> QED BY <2>1, <2>2
  <1>3. A \subseteq S
    <2> S \in SUBSET Node /\ n \in S
      BY <1>1
    <2> HIDE DEF S
    <2> QED BY <1>1, <1>2
  <1> QED BY <1>1, <1>3 DEF A

\* Below any node, smaller keys are on its left and larger ones on its right,
\* in the middle of a fixup too (rb_tree's search follows the comparator only).
THEOREM TreeIsSorted == Spec => []SearchOrder
  <1>1. OrderInv => SearchOrder
    <2> SUFFICES ASSUME OrderInv, NEW n \in Members, NEW a \in Ancestry(n) \ {n}
                 PROVE  \/ arm[a]["Left"] \in Ancestry(n) /\ KeyOf[n] < KeyOf[a]
                        \/ arm[a]["Right"] \in Ancestry(n) /\ KeyOf[n] > KeyOf[a]
      BY DEF SearchOrder
    <2>1. TypeOK /\ Linked /\ AllReachable /\ Sorted /\ n \in Node
      BY DEF OrderInv, IInv, Members
    <2>2. PICK d \in Side : a \in Node /\ arm[a][d] \in Ancestry(n)
      BY <2>1, NodeBelowAncestor
    <2>3. PICK S \in SUBSET Node : Separates(S, a, d)
      BY <2>1, <2>2 DEF Sorted
    <2>4. n \in S
      <3> SUFFICES ASSUME n \notin S PROVE FALSE
        OBVIOUS
      <3>1. \A m \in Node \ S : Parent(m) \in (Node \ S) \cup {NULL}
        <4> SUFFICES ASSUME NEW m \in Node \ S
                     PROVE  Parent(m) \in (Node \ S) \cup {NULL}
          OBVIOUS
        <4>1. Parent(m) \in Pointer
          BY <2>1 DEF TypeOK, Parent, Arm
        <4> QED BY <2>1, <2>3, <4>1, ClosedUnder DEF Separates, Pointer
      <3>2. Ancestry(n) \subseteq Node \ S
        BY <2>1, <3>1, AncestryProperties
      <3> QED BY <2>2, <2>3, <3>2, NullAssumption DEF Separates
    <2> QED BY <2>2, <2>3, <2>4 DEF Separates, Beyond, Side
  <1> QED BY <1>1, OrderInvariance, PTL

-----------------------------------------------------------------------------
(***************************************************************************)
(* The balance.  Every node has a height: the black nodes on any way down   *)
(* from it, itself not counted.                                             *)
(***************************************************************************)
Above(colors, h, c) ==
  IF c = NULL THEN 0 ELSE IF colors[c] = "Black" THEN h[c] + 1 ELSE h[c]

Heights(h) == \A n \in Members, d \in Side : h[n] = Above(color, h, arm[n][d])

Balanced == \E h \in [Node -> Nat] : Heights(h)

BalanceInv == IInv /\ Balanced

\* A rotation in which a red node takes the place and the colour of its parent.
LEMMA RotationBalances ==
  ASSUME IInv, NEW h \in [Node -> Nat], Heights(h),
         NEW x \in Node, NEW d \in Side, NEW y \in Node, y = arm[x][Opposite(d)],
         arm' = Rotated(arm, d, x), root' = RotatedRoot(arm, root, d, x),
         color[y] = "Red", color'[y] = color[x], color'[x] = "Red",
         \A n \in Node \ {x, y} : color'[n] = color[n]
  PROVE  Heights(h)'
  <1> DEFINE o == Opposite(d)
             inner == arm[y][d]
             p == Parent(x)
  <1>1. TypeOK /\ Linked /\ AllReachable /\ y # NULL
    BY NullAssumption DEF IInv
  <1>2. o \in Side /\ Side = {d, o}
    BY DEF Opposite, Side
  <1>3. /\ y # x /\ Parent(y) = x /\ inner \in Pointer /\ inner \notin {x, y} /\ x \in Members
        /\ p \notin {x, y}
    BY <1>1, RotationNodes
  <1>4. Relinks(x, d, o, y, inner, p) /\ Members' = Members
    BY <1>1, RotationLinks, RotationKeepsTree
  <1>5. y \in Members
    BY <1>1, <1>3, NullAssumption DEF Members
  <1>6. \A n \in Node, e \in Side : (arm[n][e] = y => n = x /\ e = o) /\ (arm[n][e] = x => n = p)
    BY <1>1, <1>2, <1>3, NullAssumption DEF Linked, Side
  <1> HIDE DEF inner, p
  <1>7. h[x] = h[y] /\ h[y] = Above(color, h, inner)
    BY <1>1, <1>2, <1>3, <1>5 DEF Heights, Above, inner
  <1>8. Above(color', h, inner) = Above(color, h, inner)
    BY <1>3 DEF Above, Pointer
  <1>9. Above(color', h, y) = Above(color, h, x) /\ Above(color', h, x) = h[x]
    BY <1>1, <1>7, NullAssumption DEF Above
  <1> SUFFICES ASSUME NEW n \in Members, NEW e \in Side
               PROVE  h[n] = Above(color', h, arm'[n][e])
    BY <1>4 DEF Heights
  <1>10. n \in Node /\ arm[n][e] \in Pointer /\ h[n] = Above(color, h, arm[n][e])
    BY <1>1 DEF Members, TypeOK, Arm, Heights
  <1>11. arm'[n][e] = IF n = x /\ e = o THEN inner
                      ELSE IF n = y /\ e = d THEN x
                      ELSE IF arm[n][e] = x THEN y ELSE arm[n][e]
    BY <1>4, <1>10 DEF Relinks
  <1>12. CASE n = x /\ e = o
    BY <1>7, <1>8, <1>11, <1>12
  <1>13. CASE n = y /\ e = d
    BY <1>3, <1>7, <1>9, <1>11, <1>13
  <1>14. CASE ~(n = x /\ e = o) /\ ~(n = y /\ e = d)
    <2>1. CASE arm[n][e] = x
      BY <1>9, <1>10, <1>11, <1>14, <2>1
    <2>2. CASE arm[n][e] # x
      <3>1. arm'[n][e] = arm[n][e] /\ arm[n][e] \notin {x, y}
        BY <1>6, <1>10, <1>11, <1>14, <2>2
      <3>2. Above(color', h, arm[n][e]) = Above(color, h, arm[n][e])
        BY <1>10, <3>1 DEF Above, Pointer
      <3> QED BY <1>10, <3>1, <3>2
    <2> QED BY <2>1, <2>2
  <1> QED BY <1>12, <1>13, <1>14

LEMMA RotationsBalance ==
  ASSUME BalanceInv, RotateInner \/ RotateOuter
  PROVE  Balanced'
  <1>1. PICK h \in [Node -> Nat] : Heights(h)
    BY DEF BalanceInv, Balanced
  <1>2. PICK x \in Node, d \in Side, y \in Node :
          /\ y = arm[x][Opposite(d)] /\ arm' = Rotated(arm, d, x)
          /\ root' = RotatedRoot(arm, root, d, x)
          /\ color[y] = "Red" /\ color'[y] = color[x] /\ color'[x] = "Red"
          /\ \A n \in Node \ {x, y} : color'[n] = color[n]
    <2>1. CASE RotateInner
      BY <2>1, InnerRotates DEF BalanceInv
    <2>2. CASE RotateOuter
      <3> DEFINE P == Parent(z)
                 G == Grandparent(z)
                 d == Opposite(Outside)
      <3>1. /\ P \in Node /\ G \in Node /\ d \in Side /\ arm[G][Opposite(d)] = P /\ P # G
            /\ color[P] = "Red" /\ color[G] = "Black"
            /\ color' = [color EXCEPT ![P] = "Black", ![G] = "Red"]
            /\ arm' = Rotated(arm, d, G) /\ root' = RotatedRoot(arm, root, d, G)
        BY <2>2, OuterRotates DEF BalanceInv
      <3> HIDE DEF P, G, d
      <3>2. /\ color'[P] = color[G] /\ color'[G] = "Red"
            /\ \A n \in Node \ {G, P} : color'[n] = color[n]
        BY <3>1 DEF BalanceInv, IInv, TypeOK
      <3> QED BY <3>1, <3>2
    <2> QED BY <2>1, <2>2
  <1>3. Heights(h)'
    BY <1>1, <1>2, RotationBalances DEF BalanceInv
  <1> QED BY <1>3 DEF Balanced

\* The grandparent has one more: its children's ways all turned black.
LEMMA RecolorBalances ==
  ASSUME BalanceInv, Recolor
  PROVE  Balanced'
  <1> DEFINE P == Parent(z)
             G == Grandparent(z)
             U == Uncle
  <1>1. PICK h \in [Node -> Nat] : Heights(h)
    BY DEF BalanceInv, Balanced
  <1>2. /\ TypeOK /\ Linked /\ P \in Node /\ G \in Node /\ IsRed(P) /\ ~IsRed(G)
        /\ Outside \in Side /\ arm[G][Outside] = P /\ G \in Members /\ U \in Pointer /\ IsRed(U)
        /\ P # G
    BY RedPairFamily DEF Recolor, BalanceInv, IInv
  <1>3. U \in Node /\ U # NULL /\ P # NULL /\ G # NULL
    BY <1>2, NullAssumption DEF IsRed, Pointer
  <1>4. arm[G][Opposite(Outside)] = U /\ Side = {Outside, Opposite(Outside)}
    BY <1>2 DEF Uncle, Opposite, Side
  <1>5. /\ UNCHANGED <<arm, root>>
        /\ color' = [color EXCEPT ![P] = "Black", ![U] = "Black", ![G] = "Red"]
    BY DEF Recolor
  <1>6. Members' = Members
    BY <1>5 DEF Members, Parent
  <1> HIDE DEF P, G, U
  <1>7. \A n \in Node : color'[n] = IF n = G THEN "Red" ELSE
                                    IF n \in {P, U} THEN "Black" ELSE color[n]
    BY <1>2, <1>3, <1>5 DEF TypeOK
  <1>8. color[P] = "Red" /\ color[U] = "Red" /\ color[G] = "Black" /\ U # G
    BY <1>2, <1>3 DEF IsRed, BalanceInv, IInv, ColorIsSet
  <1>9. \A n \in Node, e \in Side : arm[n][e] \in {P, U} => n = G
    BY <1>2, <1>3, <1>4 DEF Linked
  <1>10. \A e \in Side : arm[G][e] \in {P, U}
    BY <1>2, <1>4
  <1>11. PICK g \in [Node -> Nat] : g[G] = h[G] + 1 /\ \A n \in Node \ {G} : g[n] = h[n]
    <2> [h EXCEPT ![G] = h[G] + 1] \in [Node -> Nat]
      BY <1>2
    <2> QED BY <1>2
  <1>12. ASSUME NEW n \in Members, NEW e \in Side
         PROVE  g[n] = Above(color', g, arm[n][e])
    <2>1. n \in Node /\ arm[n][e] \in Pointer /\ h[n] = Above(color, h, arm[n][e])
      BY <1>1, <1>2 DEF Members, TypeOK, Arm, Heights
    <2>2. CASE n = G
      <3>1. PICK c \in Node : c = arm[n][e] /\ c \in {P, U}
        BY <1>2, <1>3, <1>10, <2>2
      <3>2. c # G /\ color[c] = "Red" /\ color'[c] = "Black" /\ c # NULL
        BY <1>2, <1>3, <1>7, <1>8, <3>1
      <3>3. h[n] = h[c] /\ Above(color', g, c) = h[c] + 1
        BY <1>11, <2>1, <3>1, <3>2 DEF Above
      <3> QED BY <1>11, <2>2, <3>1, <3>3
    <2>3. CASE n # G
      <3>1. arm[n][e] \notin {P, U} /\ g[n] = h[n]
        BY <1>9, <1>11, <2>1, <2>3
      <3>2. CASE arm[n][e] = G
        <4>1. Above(color', g, G) = h[G] + 1 /\ Above(color, h, G) = h[G] + 1
          BY <1>2, <1>3, <1>7, <1>8, <1>11 DEF Above
        <4> QED BY <2>1, <3>1, <3>2, <4>1
      <3>3. CASE arm[n][e] # G
        <4>1. Above(color', g, arm[n][e]) = Above(color, h, arm[n][e])
          BY <1>5, <1>7, <1>11, <2>1, <3>1, <3>3 DEF Above, Pointer
        <4> QED BY <2>1, <3>1, <4>1
      <3> QED BY <3>2, <3>3
    <2> QED BY <2>2, <2>3
  <1>13. Heights(g)'
    BY <1>5, <1>6, <1>12 DEF Heights
  <1> QED BY <1>11, <1>13 DEF Balanced

\* A new node is a red leaf.
LEMMA AttachBalances ==
  ASSUME BalanceInv, NEW n \in Node, Attach(n)
  PROVE  Balanced'
  <1>1. PICK h \in [Node -> Nat] : Heights(h)
    BY DEF BalanceInv, Balanced
  <1>2. IInv /\ TypeOK
    BY DEF BalanceInv, IInv
  <1>3. /\ n \notin Members
        /\ up \in Members /\ up \in Node /\ side \in Side /\ arm[up][side] = NULL /\ up # n
        /\ \A m \in Node, d \in Side :
             arm'[m][d] = IF m = up /\ d = side THEN n ELSE arm[m][d]
        /\ \A d \in Side : arm[n][d] = NULL
        /\ Members' = Members \cup {n}
        /\ \A m \in Node, d \in Side : arm[m][d] # n
    BY <1>2, AttachLinks
  <1>4. color'[n] = "Red" /\ \A m \in Node \ {n} : color'[m] = color[m]
    BY <1>2 DEF Attach, TypeOK
  <1>5. PICK g \in [Node -> Nat] : g[n] = 0 /\ \A m \in Node \ {n} : g[m] = h[m]
    <2> [h EXCEPT ![n] = 0] \in [Node -> Nat]
      OBVIOUS
    <2> QED OBVIOUS
  <1>6. ASSUME NEW m \in Members', NEW e \in Side
        PROVE  g[m] = Above(color', g, arm'[m][e])
    <2>1. CASE m = n
      BY <1>3, <1>5, <2>1 DEF Above
    <2>2. CASE m = up /\ e = side
      <3>1. h[up] = 0
        BY <1>1, <1>3 DEF Heights, Above
      <3> QED BY <1>3, <1>4, <1>5, <2>2, <3>1, NullAssumption DEF Above
    <2>3. CASE m # n /\ ~(m = up /\ e = side)
      <3>1. /\ m \in Members /\ m \in Node /\ arm'[m][e] = arm[m][e] /\ arm[m][e] \in Pointer
            /\ arm[m][e] # n
        BY <1>2, <1>3, <2>3 DEF Members, TypeOK, Arm
      <3>2. h[m] = Above(color, h, arm[m][e])
        BY <1>1, <3>1 DEF Heights
      <3>3. Above(color', g, arm[m][e]) = Above(color, h, arm[m][e])
        BY <1>4, <1>5, <3>1 DEF Above, Pointer
      <3> QED BY <1>5, <2>3, <3>1, <3>2, <3>3
    <2> QED BY <2>1, <2>2, <2>3
  <1>7. Heights(g)'
    BY <1>6 DEF Heights
  <1> QED BY <1>5, <1>7 DEF Balanced

LEMMA PlantRootBalances ==
  ASSUME BalanceInv, NEW n \in Node, PlantRoot(n)
  PROVE  Balanced'
  <1>1. Members = {}
    BY EmptyTree DEF BalanceInv, IInv, PlantRoot
  <1>2. \A m \in Node : Parent(m) = NULL /\ \A d \in Side : arm[m][d] = NULL
    BY <1>1 DEF Members, BalanceInv, IInv, Linked
  <1>3. arm' = arm /\ Members' = {n}
    BY <1>2 DEF PlantRoot, Members, Parent
  <1>4. PICK h \in [Node -> Nat] : h[n] = 0
    <2> [m \in Node |-> 0] \in [Node -> Nat]
      OBVIOUS
    <2> QED OBVIOUS
  <1>5. Heights(h)'
    BY <1>2, <1>3, <1>4 DEF Heights, Above
  <1> QED BY <1>4, <1>5 DEF Balanced

\* Of what the other steps write, only the root's colour is looked at, from
\* nowhere.
LEMMA RestBalances ==
  ASSUME BalanceInv, UNCHANGED <<arm, root>>,
         color' = color \/ color' = [color EXCEPT ![root] = "Black"]
  PROVE  Balanced'
  <1>1. PICK h \in [Node -> Nat] : Heights(h)
    BY DEF BalanceInv, Balanced
  <1>2. Members' = Members /\ TypeOK /\ Linked
    BY DEF Members, Parent, BalanceInv, IInv
  <1>3. ASSUME NEW n \in Members, NEW e \in Side
        PROVE  h[n] = Above(color', h, arm[n][e])
    <2>1. n \in Node /\ arm[n][e] \in Pointer /\ h[n] = Above(color, h, arm[n][e])
      BY <1>1, <1>2 DEF Members, TypeOK, Arm, Heights
    <2>2. arm[n][e] # NULL => arm[n][e] # root /\ color'[arm[n][e]] = color[arm[n][e]]
      BY <1>2, <2>1, NullAssumption DEF TypeOK, Pointer, Linked
    <2> QED BY <2>1, <2>2 DEF Above
  <1>4. Heights(h)'
    BY <1>2, <1>3 DEF Heights
  <1> QED BY <1>4 DEF Balanced

LEMMA NextBalanceInv ==
  ASSUME BalanceInv, [Next]_vars
  PROVE  BalanceInv'
  <1>1. IInv'
    BY NextIInv DEF BalanceInv
  <1>2. CASE RotateInner \/ RotateOuter
    BY <1>1, <1>2, RotationsBalance DEF BalanceInv
  <1>3. CASE Recolor
    BY <1>1, <1>3, RecolorBalances DEF BalanceInv
  <1>4. CASE \E n \in Node : PlantRoot(n) \/ Attach(n)
    BY <1>1, <1>4, PlantRootBalances, AttachBalances DEF BalanceInv
  <1>5. CASE \/ \E k \in Key : Find(k) \/ ContainerInsert(k)
             \/ \E n \in Node : ChainInsert(n)
             \/ Descend \/ Hit \/ Miss \/ EndFixup \/ Return \/ UNCHANGED vars
    <2>1. /\ UNCHANGED <<arm, root>>
          /\ color' = color \/ color' = [color EXCEPT ![root] = "Black"]
      BY <1>5 DEF Find, ContainerInsert, ChainInsert, Begin, Descend, Hit, Miss, EndFixup, Return,
                  vars, heap
    <2> QED BY <1>1, <2>1, RestBalances DEF BalanceInv
  <1> QED BY <1>2, <1>3, <1>4, <1>5 DEF Next, Step

LEMMA Balance == Spec => []BalanceInv
  <1>1. Init => BalanceInv
    <2> SUFFICES ASSUME Init PROVE Balanced
      BY InitIInv DEF BalanceInv
    <2> DEFINE h == [m \in Node |-> 0]
    <2>1. h \in [Node -> Nat] /\ Heights(h)
      BY DEF Init, Heights, Above, Arm, Members
    <2> QED BY <2>1 DEF Balanced
  <1>2. BalanceInv /\ [Next]_vars => BalanceInv'
    BY NextBalanceInv
  <1> QED BY <1>1, <1>2, PTL DEF Spec

\* Going up one level takes one node away.
LEMMA AncestryOfChild ==
  ASSUME TypeOK, Linked, AllReachable, NEW n \in Node, Parent(n) # NULL
  PROVE  Ancestry(n) = Ancestry(Parent(n)) \cup {n} /\ n \notin Ancestry(Parent(n))
  <1>1. \A m \in Node :
          /\ Ancestry(m) \in SUBSET Node /\ m \in Ancestry(m)
          /\ \A a \in Ancestry(m) : Parent(a) \in Ancestry(m) \cup {NULL}
          /\ \A S \in SUBSET Node :
               m \in S /\ (\A a \in S : Parent(a) \in S \cup {NULL}) => Ancestry(m) \subseteq S
    BY AncestryProperties
  <1>2. \A m \in Node : Parent(m) \in Node \cup {NULL}
    BY DEF TypeOK, Parent, Arm, Pointer
  <1>3. ASSUME NEW m \in Node, Parent(m) # NULL
        PROVE  Ancestry(m) = Ancestry(Parent(m)) \cup {m}
    <2>1. PICK p \in Node : p = Parent(m)
      BY <1>2, <1>3
    <2>2. Ancestry(p) \subseteq Ancestry(m)
      BY <1>1, <2>1, NullAssumption
    <2>3. Ancestry(m) \subseteq Ancestry(p) \cup {m}
      <3> DEFINE S == Ancestry(p) \cup {m}
      <3>1. S \in SUBSET Node /\ m \in S /\ \A a \in S : Parent(a) \in S \cup {NULL}
        BY <1>1, <2>1
      <3> HIDE DEF S
      <3>2. Ancestry(m) \subseteq S
        BY <1>1, <3>1
      <3> QED BY <3>2 DEF S
    <2> QED BY <1>1, <2>1, <2>2, <2>3
  <1>4. ASSUME NEW m \in Node, Parent(m) = NULL
        PROVE  Ancestry(m) \subseteq {m}
    <2> {m} \in SUBSET Node /\ \A a \in {m} : Parent(a) \in {m} \cup {NULL}
      BY <1>4
    <2> QED BY <1>1
  <1>5. n \notin Ancestry(Parent(n))
    <2> SUFFICES ASSUME n \in Ancestry(Parent(n)) PROVE FALSE
      OBVIOUS
    <2> DEFINE C == {a \in Node : n \in Ancestry(a)}
    <2>1. ASSUME NEW a \in C PROVE Parent(a) \in C
      <3>1. CASE a = n
        BY <1>2, <3>1
      <3>2. CASE a # n
        <4>1. Parent(a) # NULL
          BY <1>4, <3>2
        <4>2. n \in Ancestry(Parent(a)) \cup {a}
          BY <1>3, <4>1
        <4> QED BY <1>2, <3>2, <4>1, <4>2
      <3> QED BY <3>1, <3>2
    <2>2. n \in C /\ C \in SUBSET Node
      BY <1>1
    <2> HIDE DEF C
    <2> QED BY <2>1, <2>2, NoParentCycle
  <1> QED BY <1>3, <1>5

\* The black nodes on the way from n to the root.
Blacks(n) == Cardinality({a \in Ancestry(n) : color[a] = "Black"})

LEMMA BlacksOfChild ==
  ASSUME TypeOK, Linked, AllReachable, NEW n \in Node, Parent(n) # NULL
  PROVE  /\ Blacks(n) \in Nat /\ Blacks(Parent(n)) \in Nat
         /\ Blacks(n) = IF color[n] = "Black" THEN Blacks(Parent(n)) + 1 ELSE Blacks(Parent(n))
  <1> DEFINE B(m) == {a \in Ancestry(m) : color[a] = "Black"}
  <1>1. Parent(n) \in Node
    BY DEF TypeOK, Parent, Arm, Pointer
  <1>2. ASSUME NEW m \in Node PROVE IsFiniteSet(B(m))
    <2> B(m) \subseteq Node
      BY AncestryProperties
    <2> QED BY NodeAssumption, FS_Subset
  <1>3. B(n) = IF color[n] = "Black" THEN B(Parent(n)) \cup {n} ELSE B(Parent(n))
    BY AncestryOfChild
  <1>4. n \notin B(Parent(n))
    BY AncestryOfChild
  <1>5. IsFiniteSet(B(n)) /\ IsFiniteSet(B(Parent(n)))
    BY <1>1, <1>2
  <1>6. Blacks(n) = Cardinality(B(n)) /\ Blacks(Parent(n)) = Cardinality(B(Parent(n)))
    BY DEF Blacks
  <1> HIDE DEF B
  <1>7. Cardinality(B(n)) \in Nat /\ Cardinality(B(Parent(n))) \in Nat
    BY <1>5, FS_CardinalityType
  <1>8. Cardinality(B(Parent(n)) \cup {n}) = Cardinality(B(Parent(n))) + 1
    BY <1>4, <1>5, FS_AddElement
  <1> QED BY <1>3, <1>6, <1>7, <1>8

\* As many black nodes above every place where a node could be attached, in the
\* middle of a fixup too: fixup_insert's recolourings and rotations keep it.
THEOREM TreeIsBalanced == Spec => []BlackBalanced
  <1>1. ASSUME BalanceInv PROVE BlackBalanced
    <2>1. TypeOK /\ Linked /\ AllReachable
      BY <1>1 DEF BalanceInv, IInv
    <2>2. PICK h \in [Node -> Nat] : Heights(h)
      BY <1>1 DEF BalanceInv, Balanced
    <2> DEFINE W(m) == Blacks(m) + h[m]
               S == {m \in Members : W(m) = W(root)}
    <2>3. ASSUME NEW n \in S, NEW d \in Side
          PROVE  arm[n][d] \in S \cup {NULL}
      <3> SUFFICES ASSUME arm[n][d] # NULL PROVE arm[n][d] \in S
        OBVIOUS
      <3>1. PICK c \in Members : c = arm[n][d] /\ c \in Node /\ Parent(c) = n /\ n \in Node
        BY <2>1, ChildIsMember DEF Members
      <3>2. Blacks(c) \in Nat /\ Blacks(n) \in Nat
            /\ Blacks(c) = IF color[c] = "Black" THEN Blacks(n) + 1 ELSE Blacks(n)
        BY <2>1, <3>1, BlacksOfChild, NullAssumption
      <3>3. h[n] = IF color[c] = "Black" THEN h[c] + 1 ELSE h[c]
        BY <2>2, <3>1 DEF Heights, Above
      <3>4. W(c) = W(n)
        BY <3>1, <3>2, <3>3
      <3> QED BY <3>1, <3>4
    <2>4. root \in S \cup {NULL}
      BY <2>1 DEF TypeOK, Pointer, Members
    <2>5. S \in SUBSET Node /\ Closed(S)
      BY <2>3 DEF Closed, Members
    <2>6. Members \subseteq S
      <3> HIDE DEF S
      <3> QED BY <2>1, <2>4, <2>5 DEF AllReachable
    <2>7. ASSUME NEW n \in Members, NULL \in {arm[n]["Left"], arm[n]["Right"]}
          PROVE  Blacks(n) = W(root)
      <3>1. PICK d \in Side : arm[n][d] = NULL
        BY <2>7 DEF Side
      <3>2. h[n] = 0
        BY <2>2, <3>1 DEF Heights, Above
      <3>3. Blacks(n) + h[n] = W(root)
        BY <2>6
      <3>4. Blacks(n) \in Nat
        <4>1. {a \in Ancestry(n) : color[a] = "Black"} \subseteq Node
          BY <2>1, AncestryProperties DEF Members
        <4> QED BY <4>1, NodeAssumption, FS_Subset, FS_CardinalityType DEF Blacks
      <3> QED BY <3>2, <3>3, <3>4
    <2> HIDE DEF W
    <2> QED BY <2>7 DEF BlackBalanced, Blacks
  <1> QED BY <1>1, Balance, PTL

=============================================================================
