--------------------------- MODULE RbTree_proofs ---------------------------
(***************************************************************************)
(* Proofs about RbTree, for every set of nodes and keys.                   *)
(***************************************************************************)
EXTENDS RbTree, TLAPS

\* No set of nodes is closed under the parent arm: following parents from a
\* node of the tree always leaves the set, by the root at the latest.
LEMMA NoParentCycle ==
  ASSUME TypeOK, Linked, AllReachable,
         NEW C \in SUBSET Node, \A n \in C : Parent(n) \in C
  PROVE  C = {}
<1> DEFINE S == Node \ C
<1>1. Closed(S)
  <2> SUFFICES ASSUME NEW n \in S, NEW d \in Side, arm[n][d] # NULL
               PROVE  arm[n][d] \in S
    BY DEF Closed
  <2>1. arm[n][d] \in Node /\ Parent(arm[n][d]) = n
    BY DEF Linked, TypeOK, Side, Arm, Pointer
  <2> QED BY <2>1
<1>2. root \in S \cup {NULL}
  BY NullAssumption DEF TypeOK, Linked, Pointer
<1>3. Members \subseteq S
  BY <1>1, <1>2, Zenon DEF AllReachable
<1> QED BY <1>3, NullAssumption DEF Members

\* The four nodes a rotation touches are different nodes: x, its child y on
\* the other side, y's inner child and x's parent.
LEMMA RotationNodes ==
  ASSUME TypeOK, Linked, AllReachable,
         NEW x \in Node, NEW d \in Side, arm[x][Opposite(d)] # NULL
  PROVE  LET y == arm[x][Opposite(d)]
             inner == arm[y][d]
             p == Parent(x)
         IN  /\ y \in Node /\ y # x /\ Parent(y) = x
             /\ inner \in Pointer /\ inner \notin {x, y}
             /\ p \in Pointer /\ p \notin {x, y}
             /\ p = inner => p = NULL
             /\ inner # NULL => Parent(inner) = y
             /\ x \in Members
<1> DEFINE y == arm[x][Opposite(d)]
           inner == arm[y][d]
           p == Parent(x)
<1>1. Opposite(d) \in Side /\ Side \subseteq Arm /\ "Parent" \in Arm
  BY DEF Opposite, Side, Arm
<1>2. y \in Node /\ Parent(y) = x
  BY <1>1 DEF TypeOK, Linked, Pointer
<1>3. inner \in Pointer /\ p \in Pointer
  BY <1>1, <1>2 DEF TypeOK, Parent
<1>4. inner # NULL => inner \in Node /\ Parent(inner) = y
  BY <1>2, <1>3 DEF Linked, Pointer
<1>5. y # x
  <2> SUFFICES ASSUME y = x PROVE FALSE
    OBVIOUS
  <2> {x} = {}
    BY <1>2, NoParentCycle
  <2> QED OBVIOUS
<1>6. p # y /\ inner # x
  <2> SUFFICES ASSUME p = y \/ inner = x PROVE FALSE
    OBVIOUS
  <2>1. Parent(x) = y
    BY <1>4, NullAssumption
  <2>2. {x, y} = {}
    <3> DEFINE C == {x, y}
    <3> C \in SUBSET Node /\ \A n \in C : Parent(n) \in C
      BY <1>2, <2>1
    <3> HIDE DEF C
    <3> C = {}
      BY NoParentCycle
    <3> QED BY DEF C
  <2> QED BY <2>2
<1>7. inner # y
  BY <1>2, <1>4, <1>5, NullAssumption
<1>8. p # x
  <2> SUFFICES ASSUME p = x PROVE FALSE
    OBVIOUS
  <2> DEFINE C == {x}
  <2> C \in SUBSET Node /\ \A n \in C : Parent(n) \in C
    OBVIOUS
  <2> HIDE DEF C
  <2> C = {}
    BY NoParentCycle
  <2> QED BY DEF C
<1>9. p = inner => p = NULL
  <2> SUFFICES ASSUME p = inner, p # NULL PROVE FALSE
    OBVIOUS
  <2> DEFINE C == {x, y, inner}
  <2> C \in SUBSET Node /\ \A n \in C : Parent(n) \in C
    BY <1>2, <1>4
  <2> HIDE DEF C
  <2> C = {}
    BY NoParentCycle
  <2> QED BY DEF C
<1>10. x \in Members
  BY <1>1 DEF Linked
<1> QED BY <1>2, <1>3, <1>4, <1>5, <1>6, <1>7, <1>8, <1>9, <1>10

\* What a rotation does to every arm: y takes the place of x below p, and x that
\* of inner below y.
Turns(x, d, o, y, inner, p) ==
  /\ arm' \in [Node -> [Arm -> Pointer]]
  /\ arm'[x][o] = inner /\ arm'[x][d] = arm[x][d] /\ arm'[x]["Parent"] = y
  /\ arm'[y][d] = x /\ arm'[y][o] = arm[y][o] /\ arm'[y]["Parent"] = p
  /\ inner # NULL =>
       /\ arm'[inner]["Parent"] = x
       /\ \A e \in Side : arm'[inner][e] = arm[inner][e]
  /\ p # NULL =>
       /\ arm'[p]["Parent"] = arm[p]["Parent"]
       /\ \A e \in Side : arm'[p][e] = IF arm[p][e] = x THEN y ELSE arm[p][e]
  /\ \A n \in Node \ {x, y, inner, p} : arm'[n] = arm[n]

LEMMA RotationArms ==
  ASSUME TypeOK, Linked, AllReachable,
         NEW x \in Node, NEW d \in Side, arm[x][Opposite(d)] # NULL,
         arm' = Rotated(arm, d, x)
  PROVE  LET y == arm[x][Opposite(d)]
         IN  Turns(x, d, Opposite(d), y, arm[y][d], Parent(x))
<1> DEFINE o == Opposite(d)
           y == arm[x][o]
           inner == arm[y][d]
           p == Parent(x)
           turned == [arm EXCEPT ![x] = [@ EXCEPT ![o] = inner, !["Parent"] = y],
                                 ![y] = [@ EXCEPT ![d] = x, !["Parent"] = p]]
           adopted == IF inner = NULL THEN turned
                      ELSE [turned EXCEPT ![inner] = [@ EXCEPT !["Parent"] = x]]
           e0 == IF arm[p][d] = x THEN d ELSE o
<1>1. /\ o \in Side /\ o # d /\ Side \subseteq Arm /\ "Parent" \in Arm
      /\ "Parent" \notin Side /\ Side = {d, o} /\ Arm = {d, o, "Parent"}
  BY DEF Opposite, Side, Arm
<1>2. /\ y \in Node /\ y # x /\ Parent(y) = x
      /\ inner \in Pointer /\ inner \notin {x, y}
      /\ p \in Pointer /\ p \notin {x, y}
      /\ p = inner => p = NULL
      /\ inner # NULL => Parent(inner) = y
  BY RotationNodes
<1>3. p # NULL => p \in Node /\ e0 \in Side /\ arm[p][e0] = x
               /\ \A e \in Side : arm[p][e] = x <=> e = e0
  <2> SUFFICES ASSUME p # NULL
               PROVE  /\ p \in Node /\ e0 \in Side /\ arm[p][e0] = x
                      /\ \A e \in Side : arm[p][e] = x <=> e = e0
    OBVIOUS
  <2>1. p \in Node
    BY <1>2 DEF Pointer
  <2>2. x = arm[p]["Left"] \/ x = arm[p]["Right"]
    BY DEF Linked
  <2>3. ~(x = arm[p]["Left"] /\ x = arm[p]["Right"])
    BY <2>1, NullAssumption DEF Linked
  <2> HIDE DEF p
  <2> QED BY <1>1, <2>1, <2>2, <2>3 DEF Side
<1>4. arm' = IF p = NULL THEN adopted
             ELSE [adopted EXCEPT ![p] = [@ EXCEPT ![e0] = y]]
  BY Zenon DEF Rotated, Parent
<1>5. /\ turned \in [Node -> [Arm -> Pointer]]
      /\ turned[x][o] = inner /\ turned[x][d] = arm[x][d] /\ turned[x]["Parent"] = y
      /\ turned[y][d] = x /\ turned[y][o] = arm[y][o] /\ turned[y]["Parent"] = p
      /\ \A n \in Node \ {x, y} : turned[n] = arm[n]
  <2> DEFINE ax == [arm[x] EXCEPT ![o] = inner, !["Parent"] = y]
             ay == [arm[y] EXCEPT ![d] = x, !["Parent"] = p]
  <2>1. arm \in [Node -> [Arm -> Pointer]]
    BY DEF TypeOK
  <2>2. turned = [arm EXCEPT ![x] = ax, ![y] = ay]
    BY <1>2, <2>1
  <2>3. /\ ax \in [Arm -> Pointer]
        /\ ax[o] = inner /\ ax[d] = arm[x][d] /\ ax["Parent"] = y
    BY <1>1, <1>2, <2>1 DEF Pointer
  <2>4. /\ ay \in [Arm -> Pointer]
        /\ ay[d] = x /\ ay[o] = arm[y][o] /\ ay["Parent"] = p
    BY <1>1, <1>2, <2>1 DEF Pointer
  <2> HIDE DEF ax, ay, y, inner, p, o, turned
  <2> DEFINE once == [arm EXCEPT ![x] = ax]
  <2>5. once \in [Node -> [Arm -> Pointer]]
    BY <2>1, <2>3
  <2>6. once[x] = ax /\ \A n \in Node \ {x} : once[n] = arm[n]
    BY <2>1
  <2>7. turned = [once EXCEPT ![y] = ay]
    BY <2>2
  <2> HIDE DEF once
  <2>8. turned \in [Node -> [Arm -> Pointer]]
    BY <2>4, <2>5, <2>7
  <2>9. turned[y] = ay /\ \A n \in Node \ {y} : turned[n] = once[n]
    BY <1>2, <2>5, <2>7
  <2>10. turned[x] = ax
    BY <1>2, <2>6, <2>9
  <2>11. \A n \in Node \ {x, y} : turned[n] = arm[n]
    BY <2>6, <2>9
  <2> QED BY <2>3, <2>4, <2>8, <2>9, <2>10, <2>11
<1> HIDE DEF turned
<1>6. /\ adopted \in [Node -> [Arm -> Pointer]]
      /\ inner # NULL => /\ adopted[inner]["Parent"] = x
                         /\ \A e \in Side : adopted[inner][e] = arm[inner][e]
      /\ \A n \in Node \ {inner} : adopted[n] = turned[n]
  BY <1>1, <1>2, <1>5 DEF TypeOK, Pointer
<1> HIDE DEF adopted
<1>7. /\ arm' \in [Node -> [Arm -> Pointer]]
      /\ p # NULL => /\ arm'[p][e0] = y
                     /\ \A e \in Arm \ {e0} : arm'[p][e] = arm[p][e]
      /\ \A n \in Node \ {p} : arm'[n] = adopted[n]
  <2>1. CASE p = NULL
    BY <1>4, <1>6, <2>1, NullAssumption
  <2>2. CASE p # NULL
    <3>1. p \in Node /\ e0 \in Side /\ adopted[p] = arm[p]
      BY <1>1, <1>2, <1>3, <1>5, <1>6, <2>2
    <3>2. arm' = [adopted EXCEPT ![p] = [@ EXCEPT ![e0] = y]]
      BY <1>4, <2>2
    <3>3. y \in Pointer /\ e0 \in Arm
      BY <1>1, <1>2, <3>1 DEF Pointer
    <3> HIDE DEF e0, p, y, o, inner
    <3>4. arm'[p] = [arm[p] EXCEPT ![e0] = y] /\ arm' \in [Node -> [Arm -> Pointer]]
          /\ \A n \in Node \ {p} : arm'[n] = adopted[n]
      BY <1>6, <3>1, <3>2, <3>3
    <3>5. arm[p] \in [Arm -> Pointer]
      BY <3>1 DEF TypeOK
    <3> QED BY <3>3, <3>4, <3>5
  <2> QED BY <2>1, <2>2
<1>8. /\ arm'[x][o] = inner /\ arm'[x][d] = arm[x][d] /\ arm'[x]["Parent"] = y
      /\ arm'[y][d] = x /\ arm'[y][o] = arm[y][o] /\ arm'[y]["Parent"] = p
  <2>1. arm'[x] = turned[x] /\ arm'[y] = turned[y]
    BY <1>2, <1>6, <1>7
  <2> QED BY <1>5, <2>1
<1>9. inner # NULL => /\ arm'[inner]["Parent"] = x
                      /\ \A e \in Side : arm'[inner][e] = arm[inner][e]
  <2>1. inner # NULL => inner \in Node \ {p}
    BY <1>2 DEF Pointer
  <2> QED BY <1>6, <1>7, <2>1
<1>10. p # NULL => /\ arm'[p]["Parent"] = arm[p]["Parent"]
                   /\ \A e \in Side : arm'[p][e] = IF arm[p][e] = x THEN y ELSE arm[p][e]
  <2> HIDE DEF e0
  <2> QED BY <1>1, <1>3, <1>7
<1>11. \A n \in Node \ {x, y, inner, p} : arm'[n] = arm[n]
  BY <1>5, <1>6, <1>7
<1> QED
  BY <1>7, <1>8, <1>9, <1>10, <1>11, Zenon DEF Turns

\* Child arms and parent arms after a rotation, for every node.
Relinks(x, d, o, y, inner, p) ==
  /\ \A n \in Node, e \in Side :
       arm'[n][e] = IF n = x /\ e = o THEN inner
                    ELSE IF n = y /\ e = d THEN x
                    ELSE IF arm[n][e] = x THEN y ELSE arm[n][e]
  /\ \A n \in Node :
       arm'[n]["Parent"] = IF n = x THEN y ELSE IF n = y THEN p
                           ELSE IF n = inner THEN x ELSE arm[n]["Parent"]

LEMMA RotationLinks ==
  ASSUME TypeOK, Linked, AllReachable,
         NEW x \in Node, NEW d \in Side, arm[x][Opposite(d)] # NULL,
         arm' = Rotated(arm, d, x)
  PROVE  LET y == arm[x][Opposite(d)]
         IN  Relinks(x, d, Opposite(d), y, arm[y][d], Parent(x))
<1> DEFINE o == Opposite(d)
           y == arm[x][o]
           inner == arm[y][d]
           p == Parent(x)
<1>1. /\ o \in Side /\ o # d /\ Side \subseteq Arm /\ "Parent" \in Arm
      /\ Side = {d, o}
  BY DEF Opposite, Side, Arm
<1>2. /\ y \in Node /\ y # x /\ arm[y]["Parent"] = x
      /\ inner \in Pointer /\ inner \notin {x, y}
      /\ p \in Pointer /\ p \notin {x, y}
      /\ p = inner => p = NULL
      /\ inner # NULL => arm[inner]["Parent"] = y
      /\ x \in Members
  BY RotationNodes, Zenon DEF Parent
<1>3. /\ arm' \in [Node -> [Arm -> Pointer]]
      /\ arm'[x][o] = inner /\ arm'[x][d] = arm[x][d] /\ arm'[x]["Parent"] = y
      /\ arm'[y][d] = x /\ arm'[y][o] = arm[y][o] /\ arm'[y]["Parent"] = p
      /\ inner # NULL =>
           /\ arm'[inner]["Parent"] = x
           /\ \A e \in Side : arm'[inner][e] = arm[inner][e]
      /\ p # NULL =>
           /\ arm'[p]["Parent"] = arm[p]["Parent"]
           /\ \A e \in Side : arm'[p][e] = IF arm[p][e] = x THEN y ELSE arm[p][e]
      /\ \A n \in Node \ {x, y, inner, p} : arm'[n] = arm[n]
  <2>1. Turns(x, d, o, y, inner, p)
    BY RotationArms
  <2> HIDE DEF o, y, inner, p
  <2> QED BY <2>1 DEF Turns
<1>4. p = arm[x]["Parent"]
  BY DEF Parent
<1> HIDE DEF o, y, inner, p
<1>5. \A n \in Node, e \in Side : arm[n][e] # NULL => arm[arm[n][e]]["Parent"] = n
  BY <1>1 DEF Linked, Parent, Side
<1>6. \A n \in Node, e \in Side :
        arm'[n][e] = IF n = x /\ e = o THEN inner
                     ELSE IF n = y /\ e = d THEN x
                     ELSE IF arm[n][e] = x THEN y ELSE arm[n][e]
  <2> SUFFICES ASSUME NEW n \in Node, NEW e \in Side
               PROVE  arm'[n][e] = IF n = x /\ e = o THEN inner
                                   ELSE IF n = y /\ e = d THEN x
                                   ELSE IF arm[n][e] = x THEN y ELSE arm[n][e]
    OBVIOUS
  <2>1. arm[n][e] = x => n = p
    BY <1>4, <1>5, NullAssumption
  <2>2. CASE n = x
    BY <1>1, <1>2, <1>3, <2>1, <2>2
  <2>3. CASE n = y
    BY <1>1, <1>2, <1>3, <2>1, <2>3
  <2>4. CASE n = inner
    BY <1>1, <1>2, <1>3, <2>1, <2>4, NullAssumption
  <2>5. CASE n = p /\ p # NULL
    BY <1>1, <1>2, <1>3, <2>5
  <2>6. CASE n \notin {x, y, inner, p}
    BY <1>1, <1>2, <1>3, <2>1, <2>6
  <2> QED BY <2>2, <2>3, <2>4, <2>5, <2>6, NullAssumption
<1>7. \A n \in Node :
         arm'[n]["Parent"] = IF n = x THEN y ELSE IF n = y THEN p
                             ELSE IF n = inner THEN x ELSE arm[n]["Parent"]
  BY <1>2, <1>3, NullAssumption
<1>8. Relinks(x, d, o, y, inner, p)
  BY <1>6, <1>7 DEF Relinks
<1> QED BY <1>8 DEF o, y, inner, p

LEMMA RotationKeepsTree ==
  ASSUME TypeOK, Linked, AllReachable,
         NEW x \in Node, NEW d \in Side, arm[x][Opposite(d)] # NULL,
         arm' = Rotated(arm, d, x),
         root' = RotatedRoot(arm, root, d, x)
  PROVE  /\ Linked' /\ AllReachable'
         /\ Members' = Members
         /\ root' = IF root = x THEN arm[x][Opposite(d)] ELSE root
<1> DEFINE o == Opposite(d)
           y == arm[x][o]
           inner == arm[y][d]
           p == Parent(x)
<1>1. /\ o \in Side /\ o # d /\ Side \subseteq Arm /\ "Parent" \in Arm
      /\ Side = {d, o}
  BY DEF Opposite, Side, Arm
<1>2. /\ y \in Node /\ y # x /\ arm[y]["Parent"] = x
      /\ inner \in Pointer /\ inner \notin {x, y}
      /\ p \in Pointer /\ p \notin {x, y}
      /\ p = inner => p = NULL
      /\ inner # NULL => arm[inner]["Parent"] = y
      /\ x \in Members
  BY RotationNodes, Zenon DEF Parent
<1>3. /\ arm' \in [Node -> [Arm -> Pointer]]
      /\ arm'[x][o] = inner /\ arm'[x][d] = arm[x][d] /\ arm'[x]["Parent"] = y
      /\ arm'[y][d] = x /\ arm'[y][o] = arm[y][o] /\ arm'[y]["Parent"] = p
      /\ inner # NULL =>
           /\ arm'[inner]["Parent"] = x
           /\ \A e \in Side : arm'[inner][e] = arm[inner][e]
      /\ p # NULL =>
           /\ arm'[p]["Parent"] = arm[p]["Parent"]
           /\ \A e \in Side : arm'[p][e] = IF arm[p][e] = x THEN y ELSE arm[p][e]
      /\ \A n \in Node \ {x, y, inner, p} : arm'[n] = arm[n]
  <2>1. Turns(x, d, o, y, inner, p)
    BY RotationArms
  <2> HIDE DEF o, y, inner, p
  <2> QED BY <2>1 DEF Turns
\* Child arms and parent arms after the rotation, for every node.
<1>9. /\ \A n \in Node, e \in Side :
           arm'[n][e] = IF n = x /\ e = o THEN inner
                        ELSE IF n = y /\ e = d THEN x
                        ELSE IF arm[n][e] = x THEN y ELSE arm[n][e]
      /\ \A n \in Node :
           arm'[n]["Parent"] = IF n = x THEN y ELSE IF n = y THEN p
                               ELSE IF n = inner THEN x ELSE arm[n]["Parent"]
  <2>1. Relinks(x, d, o, y, inner, p)
    BY RotationLinks
  <2> HIDE DEF o, y, inner, p
  <2> QED BY <2>1 DEF Relinks
<1>4. p = arm[x]["Parent"] /\ y = arm[x][o] /\ inner = arm[y][d]
      /\ root' = IF p = NULL THEN y ELSE root
  BY DEF Parent, RotatedRoot
<1> HIDE DEF o, y, inner, p
<1>5. /\ root # NULL => arm[root]["Parent"] = NULL
      /\ \A n \in Node, e \in Side : arm[n][e] # NULL => arm[arm[n][e]]["Parent"] = n
      /\ \A n \in Node : arm[n][d] # NULL => arm[n][d] # arm[n][o]
      /\ \A n \in Node : arm[n]["Parent"] # NULL =>
           \E e \in Side : arm[arm[n]["Parent"]][e] = n
      /\ \A n \in Node, e \in Side : arm[n][e] # NULL => n \in Members
  BY <1>1 DEF Linked, Parent, Side
<1>6. Members = {n \in Node : n = root \/ arm[n]["Parent"] # NULL}
      /\ Members' = {n \in Node : n = root' \/ arm'[n]["Parent"] # NULL}
  BY DEF Members, Parent
<1>7. p = NULL <=> root = x
  BY <1>2, <1>4, <1>5, <1>6, NullAssumption
<1>8. \A n \in Node, e \in Side : arm[n][e] \in Pointer /\ arm[n]["Parent"] \in Pointer
                                /\ arm'[n][e] \in Pointer /\ arm'[n]["Parent"] \in Pointer
  BY <1>1, <1>3 DEF TypeOK
<1>11. Members' = Members
  BY <1>2, <1>4, <1>6, <1>7, <1>9, NullAssumption
<1>12. Linked'
  <2>1. root' # NULL => arm'[root']["Parent"] = NULL
    BY <1>2, <1>4, <1>5, <1>7, <1>9, NullAssumption DEF TypeOK, Pointer
  <2>2. ASSUME NEW n \in Node, NEW e \in Side, arm'[n][e] # NULL
        PROVE  arm'[arm'[n][e]]["Parent"] = n
    <3>1. CASE n = x /\ e = o
      BY <1>2, <1>3, <2>2, <3>1
    <3>2. CASE n = y /\ e = d
      BY <1>2, <1>3, <3>2
    <3>3. CASE ~(n = x /\ e = o) /\ ~(n = y /\ e = d) /\ arm[n][e] = x
      <4>1. n = p
        BY <1>4, <1>5, <3>3, NullAssumption
      <4> QED BY <1>3, <1>9, <3>3, <4>1
    <3>4. CASE ~(n = x /\ e = o) /\ ~(n = y /\ e = d) /\ arm[n][e] # x
      <4>1. arm'[n][e] = arm[n][e] /\ arm[n][e] \in Node
        BY <1>8, <1>9, <2>2, <3>4 DEF Pointer
      <4>2. arm[arm[n][e]]["Parent"] = n
        BY <1>5, <4>1, NullAssumption
      <4>3. arm[n][e] # y
        <5> SUFFICES ASSUME arm[n][e] = y PROVE FALSE
          OBVIOUS
        <5> n = x /\ e = d
          BY <1>1, <1>2, <3>4, <4>2
        <5> QED BY <1>2, <1>4, <1>5, NullAssumption
      <4>4. arm[n][e] # inner
        <5> SUFFICES ASSUME arm[n][e] = inner PROVE FALSE
          OBVIOUS
        <5> n = y /\ e = o
          BY <1>1, <1>2, <3>4, <4>1, <4>2, NullAssumption
        <5> QED BY <1>2, <1>4, <1>5, <4>1, NullAssumption
      <4> QED BY <1>9, <3>4, <4>1, <4>2, <4>3, <4>4
    <3> QED BY <3>1, <3>2, <3>3, <3>4
  <2>3. ASSUME NEW n \in Node, arm'[n][d] # NULL
        PROVE  arm'[n][d] # arm'[n][o]
    <3>1. CASE n = x
      <4>1. arm[x][d] # inner
        BY <1>1, <1>2, <1>3, <1>5, <2>3, <3>1
      <4> QED BY <1>3, <3>1, <4>1
    <3>2. CASE n = y
      <4>1. arm[y][o] # x
        <5> SUFFICES ASSUME arm[y][o] = x PROVE FALSE
          OBVIOUS
        <5> arm[x]["Parent"] = y
          BY <1>1, <1>2, <1>5, NullAssumption
        <5> QED BY <1>2, <1>4
      <4> QED BY <1>3, <3>2, <4>1
    <3>3. CASE n \notin {x, y}
      <4>1. arm'[n][d] = (IF arm[n][d] = x THEN y ELSE arm[n][d])
            /\ arm'[n][o] = (IF arm[n][o] = x THEN y ELSE arm[n][o])
        BY <1>1, <1>9, <3>3
      <4>2. arm[n][d] # y /\ arm[n][o] # y
        BY <1>1, <1>2, <1>5, <3>3, NullAssumption
      <4>3. arm[n][d] # NULL => arm[n][d] # arm[n][o]
        BY <1>5
      <4> QED BY <2>3, <4>1, <4>2, <4>3, NullAssumption
    <3> QED BY <3>1, <3>2, <3>3
  <2>4. ASSUME NEW n \in Node, arm'[n]["Parent"] # NULL
        PROVE  \E e \in Side : arm'[arm'[n]["Parent"]][e] = n
    <3>1. CASE n = x
      BY <1>1, <1>3, <3>1
    <3>2. CASE n = y
      <4>1. p # NULL /\ p \in Node
        BY <1>2, <1>3, <2>4, <3>2 DEF Pointer
      <4>2. PICK e \in Side : arm[p][e] = x
        BY <1>4, <1>5, <4>1
      <4> QED BY <1>3, <3>2, <4>1, <4>2
    <3>3. CASE n = inner
      BY <1>1, <1>3, <3>3, NullAssumption
    <3>4. CASE n \notin {x, y, inner}
      <4>1. arm'[n]["Parent"] = arm[n]["Parent"]
        BY <1>9, <3>4
      <4> DEFINE m == arm[n]["Parent"]
      <4>2. m \in Node
        BY <1>1, <1>8, <2>4, <4>1 DEF Pointer
      <4>3. PICK e \in Side : arm[m][e] = n
        BY <1>5, <2>4, <4>1
      <4>4. ~(m = x /\ e = o) /\ ~(m = y /\ e = d)
        BY <1>4, <3>4, <4>3
      <4>5. arm'[m][e] = n
        BY <1>9, <3>4, <4>2, <4>3, <4>4
      <4> QED BY <4>1, <4>5
    <3> QED BY <3>1, <3>2, <3>3, <3>4
  <2>5. ASSUME NEW n \in Node \ Members', NEW e \in Side
        PROVE  arm'[n][e] = NULL
    <3>1. arm[n][e] = NULL
      BY <1>5, <1>11
    <3>2. n # x /\ n # y
      BY <1>2, <1>6, <1>11, NullAssumption
    <3> QED BY <1>9, <3>1, <3>2, NullAssumption
  <2>6. \A n \in Node : arm'[n]["Left"] # NULL => arm'[n]["Left"] # arm'[n]["Right"]
    BY <1>1, <2>3 DEF Side
  <2>7. \A n \in Node : arm'[n]["Parent"] # NULL =>
          n \in {arm'[arm'[n]["Parent"]]["Left"], arm'[arm'[n]["Parent"]]["Right"]}
    BY <2>4 DEF Side
  <2> QED BY <2>1, <2>2, <2>5, <2>6, <2>7 DEF Linked, Parent
<1>13. AllReachable'
  <2> SUFFICES ASSUME NEW S \in SUBSET Node, Closed(S)', root' \in S \cup {NULL}
               PROVE  Members' \subseteq S
    BY DEF AllReachable
  <2>1. \A n \in S, e \in Side : arm'[n][e] \in S \cup {NULL}
    BY DEF Closed
  \* T is closed in the tree before the rotation.
  <2> DEFINE T == IF y \in S THEN S ELSE S \ {x}
  <2>2. Closed(T)
    <3> SUFFICES ASSUME NEW n \in T, NEW e \in Side
                 PROVE  arm[n][e] \in T \cup {NULL}
      BY DEF Closed
    <3>1. CASE y \in S
      <4>1. x \in S
        BY <1>1, <1>2, <1>3, <2>1, <3>1, NullAssumption
      <4>2. arm'[n][e] \in S \cup {NULL}
        BY <2>1, <3>1
      <4>3. inner \in S \cup {NULL}
        BY <1>1, <1>3, <2>1, <4>1
      <4> QED BY <1>4, <1>9, <3>1, <4>1, <4>2, <4>3
    <3>2. CASE y \notin S
      <4>1. n \in S /\ n # x /\ n # y
        BY <3>2
      <4>2. arm'[n][e] = IF arm[n][e] = x THEN y ELSE arm[n][e]
        BY <1>9, <4>1
      <4>3. arm'[n][e] \in S \cup {NULL}
        BY <2>1, <4>1
      <4> QED BY <1>2, <3>2, <4>2, <4>3, NullAssumption
    <3> QED BY <3>1, <3>2
  <2>3. root \in T \cup {NULL}
    <3>1. CASE root = x
      <4>1. root' = y
        BY <1>4, <1>7, <3>1
      <4>2. y \in S
        BY <1>2, <4>1, NullAssumption
      <4>3. x \in S
        BY <1>1, <1>2, <1>3, <2>1, <4>2, NullAssumption
      <4> QED BY <3>1, <4>2, <4>3
    <3>2. CASE root # x
      BY <1>4, <1>7, <3>2
    <3> QED BY <3>1, <3>2
  <2>4. T \in SUBSET Node
    OBVIOUS
  <2> HIDE DEF T
  <2>5. Members \subseteq T
    BY <2>2, <2>3, <2>4, Zenon DEF AllReachable
  <2> QED BY <1>11, <2>5 DEF T
<1>14. root' = IF root = x THEN arm[x][Opposite(d)] ELSE root
  BY <1>4, <1>7 DEF o
<1> QED BY <1>11, <1>12, <1>13, <1>14

-----------------------------------------------------------------------------
\* The empty tree has no members.
LEMMA EmptyTree ==
  ASSUME AllReachable, root = NULL
  PROVE  Members = {}
<1> Closed({})
  BY DEF Closed
<1> QED BY Zenon DEF AllReachable

\* Steps that leave the tree alone.
LEMMA SameHeap ==
  ASSUME Linked, AllReachable, UNCHANGED heap
  PROVE  Linked' /\ AllReachable' /\ Members' = Members
<1>1. Members' = Members
  BY DEF heap, Members, Parent
<1>2. Linked'
  BY <1>1 DEF heap, Linked, Parent
<1>3. AllReachable'
  BY <1>1 DEF heap, AllReachable, Closed
<1> QED BY <1>1, <1>2, <1>3

\* A child of a node and the parent of a child are in the tree.
LEMMA ChildIsMember ==
  ASSUME TypeOK, Linked, NEW n \in Node, NEW d \in Side, arm[n][d] # NULL
  PROVE  /\ arm[n][d] \in Members /\ n \in Members
         /\ Parent(arm[n][d]) = n
<1>1. arm[n][d] \in Node
  BY DEF TypeOK, Side, Arm, Pointer
<1> QED BY <1>1, NullAssumption DEF Linked, Members

\* What fixup_insert finds above a red node with a red parent.
LEMMA RedPairFamily ==
  ASSUME IInv, pc = "fixup", MustFix
  PROVE  LET P == Parent(z)
             G == Grandparent(z)
         IN  /\ z \in Node /\ P \in Node /\ G \in Node
             /\ z # P /\ G \notin {z, P}
             /\ IsRed(z) /\ IsRed(P) /\ ~IsRed(G)
             /\ Outside \in Side /\ arm[G][Outside] = P
             /\ z \in {arm[P][Outside], arm[P][Opposite(Outside)]}
             /\ Uncle \in Pointer /\ Uncle \notin {P, z}
             /\ P \in Members /\ G \in Members
<1> DEFINE P == Parent(z)
           G == Grandparent(z)
<1> USE NullAssumption
<1>1. z \in Node /\ P \in Node /\ IsRed(z) /\ IsRed(P) /\ z # root
  <2>1. z \in Members /\ IsRed(z) /\ z # root /\ color[P] = "Red"
    BY DEF IInv, FixupInv, MustFix
  <2>2. z \in Node /\ P # NULL
    BY <2>1 DEF Members
  <2>3. P \in Node
    BY <2>2 DEF IInv, TypeOK, Arm, Pointer, Parent
  <2> QED BY <2>1, <2>2, <2>3 DEF IsRed
<1>2. z # P
  <2> SUFFICES ASSUME z = P PROVE FALSE
    OBVIOUS
  <2> {z} = {}
    BY <1>1, NoParentCycle DEF IInv
  <2> QED OBVIOUS
<1>3. z \in {arm[P]["Left"], arm[P]["Right"]}
  BY <1>1 DEF IInv, Linked
<1>4. P \in Members
  BY <1>1, <1>3 DEF IInv, Linked, Side
<1>5. G \in Node
  <2>1. P # root
    BY <1>1, <1>2 DEF IInv, FixupInv
  <2>2. G # NULL
    BY <1>4, <2>1 DEF Members, Grandparent
  <2> QED BY <1>1, <2>2 DEF IInv, TypeOK, Arm, Pointer, Parent, Grandparent
<1>6. ~IsRed(G)
  BY <1>1, <1>2, <1>5 DEF IInv, OneRedPair, Grandparent
<1>7. G \notin {z, P}
  BY <1>1, <1>6
<1>8. P \in {arm[G]["Left"], arm[G]["Right"]}
  BY <1>1, <1>5 DEF IInv, Linked, Grandparent
<1>9. Outside \in Side /\ arm[G][Outside] = P
  BY <1>8 DEF Outside, Side
<1>10. G \in Members
  BY <1>1, <1>5, <1>9 DEF IInv, Linked
<1>11. z \in {arm[P][Outside], arm[P][Opposite(Outside)]}
  BY <1>3, <1>9 DEF Opposite, Side
<1>12. Uncle \in Pointer
  BY <1>5 DEF Uncle, IInv, TypeOK, Arm, Side, Opposite
<1>13. Uncle # P
  BY <1>1, <1>5, <1>8, <1>9 DEF Uncle, IInv, Linked, Opposite, Side
<1>14. Uncle # z
  <2> SUFFICES ASSUME Uncle = z PROVE FALSE
    OBVIOUS
  <2> Parent(z) = G
    BY <1>1, <1>5, <1>9 DEF Uncle, IInv, Linked, Opposite, Side
  <2> QED BY <1>7
<1> QED BY <1>1, <1>2, <1>4, <1>5, <1>6, <1>7, <1>9, <1>10, <1>11, <1>12, <1>13, <1>14

-----------------------------------------------------------------------------
(***************************************************************************)
(* IInv is inductive: one lemma per action that changes the tree.          *)
(***************************************************************************)
LEMMA InitIInv == Init => IInv
<1> SUFFICES ASSUME Init PROVE IInv
  OBVIOUS
<1> USE NullAssumption
<1>1. TypeOK
  BY DEF Init, TypeOK, Arm, Side, Pointer
<1>2. \A n \in Node, d \in Arm : arm[n][d] = NULL
  BY DEF Init
<1>3. Members = {} /\ root = NULL
  BY <1>2 DEF Init, Members, Parent, Arm
<1>4. Linked
  BY <1>2, <1>3 DEF Linked, Parent, Arm, Side
<1>5. AllReachable
  BY <1>3 DEF AllReachable
<1>6. OneRedPair
  BY <1>2 DEF OneRedPair, Parent, Arm
<1>7. SearchInv /\ FixupInv /\ OuterInv
  BY <1>3 DEF Init, SearchInv, FixupInv, OuterInv, IsRed
<1>8. ColorIsSet
  BY <1>3 DEF ColorIsSet
<1> QED BY <1>1, <1>4, <1>5, <1>6, <1>7, <1>8 DEF IInv

\* The node *slot points to is in the tree.
LEMMA SlotIsMember ==
  ASSUME IInv, pc = "search", Slot # NULL
  PROVE  Slot \in Members
<1>1. CASE up = NULL
  BY <1>1, NullAssumption DEF IInv, TypeOK, Pointer, Slot, Members
<1>2. CASE up # NULL
  <2>1. up \in Node /\ side \in Side
    BY <1>2 DEF IInv, TypeOK, Pointer
  <2> QED BY <1>2, <2>1, ChildIsMember DEF IInv, Slot
<1> QED BY <1>1, <1>2

LEMMA PlantRootStep ==
  ASSUME IInv, NEW n \in Node, PlantRoot(n)
  PROVE  IInv'
<1> USE NullAssumption DEF PlantRoot
<1>1. Members = {}
  BY EmptyTree DEF IInv
<1>2. \A m \in Node : Parent(m) = NULL /\ \A d \in Side : arm[m][d] = NULL
  BY <1>1 DEF Members, IInv, Linked
<1>3. Members' = {n}
  BY <1>2 DEF Members, Parent
<1>4. TypeOK'
  BY DEF IInv, TypeOK, Pointer
<1>5. Linked'
  BY <1>2, <1>3 DEF Linked, Parent, Side
<1>6. AllReachable'
  BY <1>3 DEF AllReachable
<1>7. OneRedPair'
  BY <1>2 DEF OneRedPair, Parent
<1>8. SearchInv' /\ OuterInv' /\ FixupInv'
  BY DEF SearchInv, OuterInv, FixupInv, IsRed, IInv, TypeOK
<1>9. ColorIsSet'
  BY <1>3 DEF ColorIsSet, IInv, TypeOK
<1> QED BY <1>4, <1>5, <1>6, <1>7, <1>8, <1>9 DEF IInv

\* A new node is linked below up, where there was none.
LEMMA AttachLinks ==
  ASSUME IInv, NEW n \in Node, Attach(n)
  PROVE  /\ n \notin Members
         /\ up \in Members /\ up \in Node /\ side \in Side /\ arm[up][side] = NULL /\ up # n
         /\ arm' \in [Node -> [Arm -> Pointer]]
         /\ \A m \in Node, d \in Side :
              arm'[m][d] = IF m = up /\ d = side THEN n ELSE arm[m][d]
         /\ \A m \in Node : arm'[m]["Parent"] = IF m = n THEN up ELSE arm[m]["Parent"]
         /\ \A d \in Side : arm[n][d] = NULL
         /\ Parent(n) = NULL /\ n # root
         /\ Members' = Members \cup {n}
         /\ \A m \in Node, d \in Side : arm[m][d] # n
         /\ \A m \in Node : Parent(m) # n
<1> USE NullAssumption
<1>1. n \notin Members
  BY DEF Attach, NewNode, IInv, SearchInv
<1>2. up \in Members /\ up \in Node /\ side \in Side /\ arm[up][side] = NULL /\ up # n
  BY <1>1 DEF Attach, Slot, IInv, SearchInv, TypeOK, Members
<1>3. Side \subseteq Arm /\ "Parent" \in Arm /\ "Parent" \notin Side
      /\ Side = {"Left", "Right"}
  BY DEF Side, Arm
<1>4. arm \in [Node -> [Arm -> Pointer]]
  BY DEF IInv, TypeOK
<1>0. /\ root # NULL /\ UNCHANGED <<root, up>> /\ z' = n
      /\ pc = "search" /\ pc' = "fixup"
      /\ color' = [color EXCEPT ![n] = "Red"]
  BY DEF Attach
<1>5. /\ arm' \in [Node -> [Arm -> Pointer]]
      /\ arm'[up] = [arm[up] EXCEPT ![side] = n]
      /\ arm'[n] = [arm[n] EXCEPT !["Parent"] = up]
      /\ \A m \in Node \ {up, n} : arm'[m] = arm[m]
  BY <1>2, <1>3, <1>4 DEF Attach, Pointer
<1>6. \A m \in Node, d \in Side :
        arm'[m][d] = IF m = up /\ d = side THEN n ELSE arm[m][d]
  BY <1>2, <1>3, <1>4, <1>5
<1>7. \A m \in Node : arm'[m]["Parent"] = IF m = n THEN up ELSE arm[m]["Parent"]
  BY <1>2, <1>3, <1>4, <1>5
<1>8. \A d \in Side : arm[n][d] = NULL
  BY <1>1 DEF IInv, Linked
<1>9. Parent(n) = NULL /\ n # root
  BY <1>1 DEF Members
<1>10. Members' = Members \cup {n}
  BY <1>0, <1>2, <1>7, <1>9 DEF Members, Parent
<1>11. \A m \in Node, d \in Side : arm[m][d] # n
  BY <1>9, <1>2 DEF IInv, Linked, Members
<1>12. \A m \in Node : Parent(m) # n
  BY <1>8, <1>3 DEF IInv, Linked
<1> QED BY <1>1, <1>2, <1>5, <1>6, <1>7, <1>8, <1>9, <1>10, <1>11, <1>12

LEMMA AttachStep ==
  ASSUME IInv, NEW n \in Node, Attach(n)
  PROVE  IInv'
<1> USE NullAssumption
<1>1. n \notin Members
  BY AttachLinks
<1>2. up \in Members /\ up \in Node /\ side \in Side /\ arm[up][side] = NULL /\ up # n
  BY AttachLinks
<1>3. Side \subseteq Arm /\ "Parent" \in Arm /\ "Parent" \notin Side
      /\ Side = {"Left", "Right"}
  BY DEF Side, Arm
<1>4. arm \in [Node -> [Arm -> Pointer]]
  BY DEF IInv, TypeOK
<1>0. /\ root # NULL /\ UNCHANGED <<root, up>> /\ z' = n
      /\ pc = "search" /\ pc' = "fixup"
      /\ color' = [color EXCEPT ![n] = "Red"]
  BY DEF Attach
<1>5. arm' \in [Node -> [Arm -> Pointer]]
  BY AttachLinks
<1>6. \A m \in Node, d \in Side :
        arm'[m][d] = IF m = up /\ d = side THEN n ELSE arm[m][d]
  BY AttachLinks
<1>7. \A m \in Node : arm'[m]["Parent"] = IF m = n THEN up ELSE arm[m]["Parent"]
  BY AttachLinks
<1>8. \A d \in Side : arm[n][d] = NULL
  BY AttachLinks
<1>9. Parent(n) = NULL /\ n # root
  BY AttachLinks
<1>10. Members' = Members \cup {n}
  BY AttachLinks
<1>11. \A m \in Node, d \in Side : arm[m][d] # n
  BY AttachLinks
<1>12. \A m \in Node : Parent(m) # n
  BY AttachLinks
<1>13. TypeOK'
  <2>1. color' \in [Node -> {"Red", "Black", "Unset"}] /\ count' \in Nat
    BY DEF Attach, IInv, TypeOK
  <2> QED BY <1>5, <2>1 DEF Attach, IInv, TypeOK, Pointer
<1>14. Linked'
  <2>1. root' # NULL => arm'[root']["Parent"] = NULL
    BY <1>0, <1>7, <1>9 DEF IInv, Linked, TypeOK, Pointer, Parent
  <2>2. ASSUME NEW m \in Node, NEW d \in Side, arm'[m][d] # NULL
        PROVE  arm'[arm'[m][d]]["Parent"] = m
    <3>1. CASE m = up /\ d = side
      BY <1>6, <1>7, <3>1
    <3>2. CASE ~(m = up /\ d = side)
      <4>1. arm'[m][d] = arm[m][d] /\ arm[m][d] \in Node
        BY <1>3, <1>4, <1>6, <2>2, <3>2 DEF Pointer
      <4>2. Parent(arm[m][d]) = m
        BY <4>1 DEF IInv, Linked
      <4> QED BY <1>7, <1>11, <4>1, <4>2 DEF Parent
    <3> QED BY <3>1, <3>2
  <2>3. ASSUME NEW m \in Node, arm'[m]["Left"] # NULL
        PROVE  arm'[m]["Left"] # arm'[m]["Right"]
    <3>1. /\ arm'[m]["Left"] = IF m = up /\ "Left" = side THEN n ELSE arm[m]["Left"]
          /\ arm'[m]["Right"] = IF m = up /\ "Right" = side THEN n ELSE arm[m]["Right"]
      BY <1>3, <1>6
    <3>2. arm[m]["Left"] # n /\ arm[m]["Right"] # n
      BY <1>3, <1>11
    <3>3. arm[m]["Left"] # NULL => arm[m]["Left"] # arm[m]["Right"]
      BY DEF IInv, Linked
    <3> QED BY <2>3, <3>1, <3>2, <3>3
  <2>4. ASSUME NEW m \in Node, arm'[m]["Parent"] # NULL
        PROVE  \E d \in Side : arm'[arm'[m]["Parent"]][d] = m
    <3>1. CASE m = n
      BY <1>2, <1>6, <1>7, <3>1
    <3>2. CASE m # n
      <4>1. arm'[m]["Parent"] = Parent(m) /\ Parent(m) \in Node
        BY <1>3, <1>4, <1>7, <2>4, <3>2 DEF Parent, Pointer
      <4>2. PICK d \in Side : arm[Parent(m)][d] = m
        BY <1>3, <4>1 DEF IInv, Linked
      <4> QED BY <1>2, <1>6, <4>1, <4>2
    <3> QED BY <3>1, <3>2
  <2>5. ASSUME NEW m \in Node \ Members', NEW d \in Side
        PROVE  arm'[m][d] = NULL
    <3>1. m \notin Members /\ m # up
      BY <1>2, <1>10
    <3>2. arm[m][d] = NULL
      BY <3>1 DEF IInv, Linked
    <3> QED BY <1>6, <3>1, <3>2
  <2>6. \A m \in Node : arm'[m]["Parent"] # NULL =>
          m \in {arm'[arm'[m]["Parent"]]["Left"], arm'[arm'[m]["Parent"]]["Right"]}
    BY <1>3, <2>4
  <2> QED BY <2>1, <2>2, <2>3, <2>5, <2>6 DEF Linked, Parent
<1>15. AllReachable'
  <2> SUFFICES ASSUME NEW S \in SUBSET Node, Closed(S)', root' \in S \cup {NULL}
               PROVE  Members' \subseteq S
    BY DEF AllReachable
  <2>1. \A m \in S, d \in Side : arm'[m][d] \in S \cup {NULL}
    BY DEF Closed
  <2>2. Closed(S)
    <3> SUFFICES ASSUME NEW m \in S, NEW d \in Side
                 PROVE  arm[m][d] \in S \cup {NULL}
      BY DEF Closed
    <3>1. arm'[m][d] \in S \cup {NULL}
      BY <2>1
    <3>2. arm'[m][d] = IF m = up /\ d = side THEN n ELSE arm[m][d]
      BY <1>6
    <3> QED BY <1>2, <3>1, <3>2
  <2>3. Members \subseteq S
    BY <1>0, <2>2 DEF IInv, AllReachable
  <2>4. n \in S
    <3>1. up \in S /\ arm'[up][side] = n
      BY <1>2, <1>6, <2>3
    <3> QED BY <1>2, <2>1, <3>1
  <2> QED BY <1>10, <2>3, <2>4
<1>16. OneRedPair'
  <2> SUFFICES ASSUME NEW m \in Node, m # n, arm'[m]["Parent"] # NULL,
                      IsRed(m)', color'[arm'[m]["Parent"]] = "Red"
               PROVE  FALSE
    BY <1>0 DEF OneRedPair, Parent, IsRed
  <2>1. arm'[m]["Parent"] = Parent(m) /\ Parent(m) \in Node
    BY <1>3, <1>4, <1>7 DEF Parent, Pointer
  <2>2. Parent(m) # n
    BY <1>12
  <2>3. color'[m] = color[m] /\ color'[Parent(m)] = color[Parent(m)]
    BY <1>0, <2>1, <2>2 DEF IInv, TypeOK
  <2>4. IsRed(m) /\ IsRed(Parent(m))
    BY <2>1, <2>3 DEF IsRed
  <2> QED BY <1>0, <2>1, <2>4 DEF IInv, OneRedPair
<1>17. FixupInv'
  <2>1. n \in Members' /\ color'[n] = "Red"
    BY <1>0, <1>10 DEF IInv, TypeOK
  <2>2. ~IsRed(root)
    BY <1>0 DEF IInv, FixupInv
  <2>3. color'[root] = color[root]
    BY <1>0, <1>9 DEF IInv, TypeOK, Pointer
  <2> QED BY <1>0, <2>1, <2>2, <2>3 DEF FixupInv, IsRed
<1>18. SearchInv' /\ OuterInv'
  BY <1>0 DEF SearchInv, OuterInv
<1>19. ColorIsSet'
  BY <1>0, <1>10 DEF ColorIsSet, IInv, TypeOK, Members
<1> QED BY <1>13, <1>14, <1>15, <1>16, <1>17, <1>18, <1>19 DEF IInv

LEMMA RecolorStep ==
  ASSUME IInv, Recolor
  PROVE  IInv'
<1> DEFINE P == Parent(z)
           G == Grandparent(z)
           U == Uncle
<1> USE NullAssumption
<1>1. /\ z \in Node /\ P \in Node /\ G \in Node
      /\ z # P /\ G \notin {z, P}
      /\ IsRed(z) /\ IsRed(P) /\ ~IsRed(G)
      /\ Outside \in Side /\ arm[G][Outside] = P
      /\ U \in Pointer /\ U \notin {P, z}
      /\ G \in Members
  BY RedPairFamily DEF Recolor
<1>2. U \in Node /\ IsRed(U) /\ U # G
  BY <1>1 DEF Recolor, IsRed, Pointer
<1>3. /\ UNCHANGED <<arm, root, up>> /\ pc' = "fixup" /\ pc = "fixup" /\ z' = G
      /\ color' = [color EXCEPT ![P] = "Black", ![U] = "Black", ![G] = "Red"]
      /\ z # root
  BY DEF Recolor, MustFix
<1>4. arm[G][Opposite(Outside)] = U
  BY DEF Uncle
<1> HIDE DEF P, G, U
<1>5. color' \in [Node -> {"Red", "Black", "Unset"}]
      /\ \A n \in Node : color'[n] = IF n = G THEN "Red" ELSE
                                     IF n \in {P, U} THEN "Black" ELSE color[n]
  BY <1>1, <1>2, <1>3 DEF IInv, TypeOK
<1>6. TypeOK'
  BY <1>1, <1>5 DEF Recolor, IInv, TypeOK, Pointer, G
<1>7. Linked' /\ AllReachable' /\ Members' = Members
  <2>1. Members' = Members
    BY <1>3 DEF Members, Parent
  <2>2. Linked'
    BY <1>3, <2>1 DEF IInv, Linked, Parent
  <2>3. AllReachable'
    BY <1>3, <2>1 DEF IInv, AllReachable, Closed
  <2> QED BY <2>1, <2>2, <2>3
<1>8. OneRedPair'
  <2> SUFFICES ASSUME NEW n \in Node, Parent(n) # NULL, n # G,
                      color'[n] = "Red", color'[Parent(n)] = "Red"
               PROVE  FALSE
    BY <1>3 DEF OneRedPair, IsRed, Parent
  <2>1. Parent(n) \in Node
    BY DEF IInv, TypeOK, Parent, Arm, Pointer
  <2>2. Parent(n) # G
    <3> SUFFICES ASSUME Parent(n) = G PROVE FALSE
      OBVIOUS
    <3> n \in {P, U}
      BY <1>1, <1>4 DEF IInv, Linked, Side, Opposite
    <3> QED BY <1>1, <1>2, <1>5
  <2>3. color[n] = "Red" /\ color[Parent(n)] = "Red" /\ Parent(n) # P
    BY <1>5, <2>1, <2>2
  <2>4. n = z
    BY <2>1, <2>3 DEF IInv, OneRedPair, IsRed
  <2> QED BY <2>3, <2>4 DEF P
<1>9. FixupInv'
  <2>1. z' \in Members' /\ IsRed(z)'
    BY <1>1, <1>3, <1>5, <1>7 DEF IsRed
  <2>2. IsRed(root)' => root' = G
    BY <1>3, <1>5 DEF IsRed, IInv, FixupInv, TypeOK, Pointer
  <2> QED BY <1>3, <2>1, <2>2 DEF FixupInv
<1>10. SearchInv' /\ OuterInv'
  BY <1>3 DEF SearchInv, OuterInv
<1>11. ColorIsSet'
  BY <1>5, <1>7 DEF ColorIsSet, IInv, Members
<1> QED BY <1>6, <1>7, <1>8, <1>9, <1>10, <1>11 DEF IInv

LEMMA RotateInnerStep ==
  ASSUME IInv, RotateInner
  PROVE  IInv'
<1> DEFINE P == Parent(z)
           G == Grandparent(z)
           d == Outside
           o == Opposite(d)
           inner == arm[z][d]
           U == Uncle
<1> USE NullAssumption
<1>1. /\ z \in Node /\ P \in Node /\ G \in Node
      /\ z # P /\ G \notin {z, P}
      /\ IsRed(z) /\ IsRed(P) /\ ~IsRed(G)
      /\ d \in Side /\ arm[G][d] = P
      /\ U \in Pointer /\ U \notin {P, z}
  BY RedPairFamily DEF RotateInner
<1>2. /\ pc' = "outer" /\ pc = "fixup" /\ z # root /\ z' = P
      /\ UNCHANGED <<color, up>>
      /\ arm' = Rotated(arm, d, P) /\ root' = RotatedRoot(arm, root, d, P)
      /\ arm[P][o] = z /\ ~IsRed(U)
  BY DEF RotateInner, MustFix
<1>3. o \in Side /\ o # d /\ Side = {d, o} /\ Side = {"Left", "Right"} /\ Side \subseteq Arm
  BY <1>1 DEF Opposite, Side, Arm
<1>4. G = Parent(P) /\ G = arm[P]["Parent"] /\ P = arm[z]["Parent"] /\ arm[G][o] = U
  BY DEF Grandparent, Uncle, Parent
<1>5. TypeOK /\ Linked /\ AllReachable
  BY DEF IInv
<1>6. /\ Linked' /\ AllReachable' /\ Members' = Members
      /\ root' = IF root = P THEN z ELSE root
  BY <1>1, <1>2, <1>5, RotationKeepsTree
<1>7. /\ arm' \in [Node -> [Arm -> Pointer]]
      /\ arm'[P]["Parent"] = z
      /\ arm'[z][d] = P /\ arm'[z]["Parent"] = G
      /\ inner # NULL => arm'[inner]["Parent"] = P
      /\ arm'[G]["Parent"] = arm[G]["Parent"]
      /\ \A e \in Side : arm'[G][e] = IF arm[G][e] = P THEN z ELSE arm[G][e]
      /\ \A n \in Node \ {P, z, inner, G} : arm'[n] = arm[n]
  <2>1. arm[P][Opposite(d)] = z /\ z # NULL /\ G = Parent(P) /\ inner = arm[z][d]
    BY <1>1, <1>2, <1>4
  <2> HIDE DEF P, G, d, inner
  <2>2. Turns(P, d, Opposite(d), z, inner, G)
    BY <1>1, <1>2, <1>4, <1>5, <2>1, RotationArms
  <2> QED BY <1>1, <2>2 DEF Turns
<1>8. inner \in Pointer /\ inner # z /\ (inner # NULL => Parent(inner) = z)
  BY <1>1, <1>2, <1>5, RotationNodes
<1>9. arm'[G][d] = z /\ arm'[G][o] = U
  BY <1>1, <1>3, <1>4, <1>7
<1>10. root' = root /\ ~IsRed(root)
  BY <1>1, <1>2, <1>6 DEF IInv, FixupInv
<1>11. TypeOK'
  <2>1. z' \in Pointer
    BY <1>1, <1>2 DEF Pointer
  <2>2. pc' = "outer" /\ UNCHANGED <<color, count, key, inserting, up, side, result>>
    BY Zenon DEF RotateInner
  <2> HIDE DEF P, G, d, inner
  <2> QED BY <1>7, <1>10, <2>1, <2>2 DEF IInv, TypeOK
<1>12. Parent(z)' = z /\ Grandparent(z)' = G
  BY <1>2, <1>7 DEF Parent, Grandparent
<1>13. Outside' = d
  <2>1. Outside' = IF z = arm'[G]["Left"] THEN "Left" ELSE "Right"
    BY <1>12 DEF Outside
  <2>2. z # U
    BY <1>1
  <2> HIDE DEF d, o
  <2> QED BY <1>1, <1>3, <1>9, <2>1, <2>2
<1>14. Uncle' = U
  BY <1>9, <1>12, <1>13 DEF Uncle
<1>15. OuterInv'
  <2>1. IsRed(z)' /\ IsRed(Parent(z))' /\ ~IsRed(Grandparent(z))' /\ ~IsRed(Uncle)'
    BY <1>1, <1>2, <1>12, <1>14 DEF IsRed
  <2>2. arm'[Parent(z)'][Outside'] = z' /\ arm'[Grandparent(z)'][Outside'] = Parent(z)'
    BY <1>2, <1>7, <1>9, <1>12, <1>13
  <2>3. z' # NULL /\ Parent(z)' # NULL /\ Grandparent(z)' # NULL
    BY <1>1, <1>2, <1>12
  <2> QED BY <2>1, <2>2, <2>3 DEF OuterInv
<1>16. OneRedPair'
  <2> SUFFICES ASSUME NEW n \in Node, arm'[n]["Parent"] # NULL, n # P,
                      color[n] = "Red", color[arm'[n]["Parent"]] = "Red"
               PROVE  FALSE
    BY <1>2 DEF OneRedPair, Parent, IsRed
  <2>1. CASE n = z
    BY <1>1, <1>7, <2>1 DEF IsRed
  <2>2. CASE n = inner
    BY <1>1, <1>8, <2>2 DEF IInv, OneRedPair, IsRed
  <2>3. CASE n \notin {z, inner}
    <3>1. arm'[n]["Parent"] = Parent(n)
      BY <1>7, <2>3 DEF Parent
    <3>2. Parent(n) \in Node
      BY <1>7, <3>1 DEF Arm, Pointer
    <3>3. n = z
      BY <3>1, <3>2 DEF IInv, OneRedPair, IsRed
    <3> QED BY <2>3, <3>3
  <2> QED BY <2>1, <2>2, <2>3
<1>17. FixupInv'
  BY <1>2, <1>10 DEF FixupInv, IsRed
<1>18. SearchInv'
  BY <1>2 DEF SearchInv
<1>19. ColorIsSet'
  BY <1>2, <1>6 DEF ColorIsSet, IInv
<1> QED BY <1>6, <1>11, <1>15, <1>16, <1>17, <1>18, <1>19 DEF IInv

\* What RotateOuter finds: a red outer grandchild of a red child.
LEMMA OuterFamily ==
  ASSUME IInv, RotateOuter
  PROVE  LET P == Parent(z)
             G == Grandparent(z)
         IN  /\ z \in Node /\ P \in Node /\ G \in Node
             /\ IsRed(z) /\ IsRed(P) /\ ~IsRed(G)
             /\ Outside \in Side
             /\ arm[G][Outside] = P /\ arm[P][Outside] = z
             /\ ~IsRed(Uncle) /\ (pc = "outer" \/ (pc = "fixup" /\ z # root))
<1> DEFINE P == Parent(z)
           G == Grandparent(z)
           d == Opposite(Outside)
<1> USE NullAssumption
<1>1. CASE pc = "outer"
  <2>1. z \in Node /\ P \in Node /\ G \in Node
    BY <1>1 DEF IInv, OuterInv, TypeOK, Pointer, Arm, Parent, Grandparent
  <2>2. Outside \in Side
    BY DEF Outside, Side
  <2> QED BY <1>1, <2>1, <2>2 DEF IInv, OuterInv
<1>2. CASE pc = "fixup" /\ MustFix
  <2>1. ~IsRed(Uncle) /\ arm[P][d] # z
    BY <1>2 DEF RotateOuter
  <2> QED BY <1>2, <2>1, RedPairFamily DEF MustFix
<1> QED BY <1>1, <1>2 DEF RotateOuter

LEMMA RotateOuterStep ==
  ASSUME IInv, RotateOuter
  PROVE  IInv'
<1> DEFINE P == Parent(z)
           G == Grandparent(z)
           d == Opposite(Outside)
           inner == arm[P][d]
           U == Uncle
<1> USE NullAssumption
<1>1. /\ z \in Node /\ P \in Node /\ G \in Node
      /\ IsRed(z) /\ IsRed(P) /\ ~IsRed(G)
      /\ Outside \in Side
      /\ arm[G][Outside] = P /\ arm[P][Outside] = z
      /\ ~IsRed(U) /\ (pc = "outer" \/ (pc = "fixup" /\ z # root))
  BY OuterFamily
<1>2. /\ pc' = "fixup" /\ UNCHANGED <<z, up>>
      /\ color' = [color EXCEPT ![P] = "Black", ![G] = "Red"]
      /\ arm' = Rotated(arm, d, G) /\ root' = RotatedRoot(arm, root, d, G)
  BY DEF RotateOuter, call
<1>3. d \in Side /\ Outside = Opposite(d) /\ d # Outside /\ Side = {d, Outside}
  BY <1>1 DEF Opposite, Side
<1>4. G = arm[P]["Parent"] /\ P = arm[z]["Parent"] /\ arm[G][d] = U
  BY DEF Grandparent, Uncle, Parent
<1>5. TypeOK /\ Linked /\ AllReachable
  BY DEF IInv
<1>6. /\ Linked' /\ AllReachable' /\ Members' = Members
      /\ root' = IF root = G THEN P ELSE root
  BY <1>1, <1>2, <1>3, <1>5, RotationKeepsTree
<1>7. /\ arm' \in [Node -> [Arm -> Pointer]]
      /\ arm'[G]["Parent"] = P
      /\ arm'[P]["Parent"] = Parent(G)
      /\ inner # NULL => arm'[inner]["Parent"] = G
      /\ Parent(G) # NULL => arm'[Parent(G)]["Parent"] = arm[Parent(G)]["Parent"]
      /\ \A n \in Node \ {G, P, inner, Parent(G)} : arm'[n] = arm[n]
  <2>1. arm[G][Opposite(d)] = P /\ P # NULL /\ inner = arm[P][d]
    BY <1>1, <1>2, <1>3
  <2> HIDE DEF P, G, d, inner
  <2>2. Turns(G, d, Opposite(d), P, inner, Parent(G))
    BY <1>1, <1>2, <1>3, <1>5, <2>1, RotationArms
  <2> QED BY <2>2 DEF Turns
<1>8. inner \in Pointer /\ inner # P /\ (inner # NULL => Parent(inner) = P)
  BY <1>1, <1>3, <1>5, RotationNodes
<1>9. inner # z
  BY <1>1, <1>3, <1>5 DEF Linked, Side
<1>10. G # P /\ z # G /\ z # P
  <2>1. G # P /\ z # G
    BY <1>1
  <2>2. z # P
    BY <1>1, <1>4, <2>1
  <2> QED BY <2>1, <2>2
<1> HIDE DEF P, G, d, inner, U
<1>11. color' \in [Node -> {"Red", "Black", "Unset"}]
       /\ \A n \in Node : color'[n] = IF n = G THEN "Red" ELSE
                                      IF n = P THEN "Black" ELSE color[n]
  BY <1>1, <1>2, <1>10, <1>5 DEF TypeOK
<1>12. ~IsRed(root) \/ root = z
  BY <1>1 DEF IInv, FixupInv
<1>13. root # z
  BY <1>1, <1>4, <1>5 DEF Linked, Parent
<1>14. TypeOK'
  <2>1. root' \in Pointer
    BY <1>1, <1>5, <1>6 DEF TypeOK, Pointer
  <2> QED BY <1>2, <1>5, <1>7, <1>11, <2>1 DEF RotateOuter, TypeOK, call
<1>15. root' \in Pointer /\ ~(root' # NULL /\ color'[root'] = "Red")
  <2>1. CASE root = G
    BY <1>1, <1>6, <1>10, <1>11, <2>1 DEF Pointer
  <2>2. CASE root # G
    BY <1>5, <1>6, <1>11, <1>12, <1>13, <2>2 DEF Pointer, TypeOK, IsRed
  <2> QED BY <2>1, <2>2
<1>16. FixupInv'
  <2>1. z \in Members'
    BY <1>1, <1>4, <1>6 DEF Members, Parent
  <2>2. color'[z] = "Red"
    BY <1>1, <1>10, <1>11 DEF IsRed
  <2> QED BY <1>1, <1>2, <1>15, <2>1, <2>2 DEF FixupInv, IsRed
<1>17. OneRedPair'
  <2> SUFFICES ASSUME NEW n \in Node, arm'[n]["Parent"] # NULL, n # z,
                      color'[n] = "Red", color'[arm'[n]["Parent"]] = "Red"
               PROVE  FALSE
    BY <1>2 DEF OneRedPair, Parent, IsRed
  <2>1. n # P
    BY <1>10, <1>11
  <2>2. CASE n = G
    BY <1>1, <1>7, <1>10, <1>11, <2>2
  <2>3. CASE n = inner
    <3>1. color[n] = "Red" /\ Parent(n) = P
      BY <1>8, <1>11, <2>1, <2>2, <2>3
    <3> QED BY <1>1, <3>1 DEF IInv, OneRedPair, IsRed
  <2>4. CASE n \notin {G, P, inner}
    <3>1. arm'[n]["Parent"] = Parent(n)
      BY <1>7, <2>4 DEF Parent
    <3>2. Parent(n) \in Node /\ color[n] = "Red"
      BY <1>7, <1>11, <2>4, <3>1 DEF Arm, Pointer
    <3>3. Parent(n) # G
      <4> SUFFICES ASSUME Parent(n) = G PROVE FALSE
        OBVIOUS
      <4> n = U
        BY <1>1, <1>3, <1>4, <1>5, <2>1 DEF Linked, Side
      <4> QED BY <1>1, <3>2 DEF IsRed
    <3>4. color[Parent(n)] = "Red"
      BY <1>10, <1>11, <3>1, <3>2, <3>3
    <3> QED BY <3>2, <3>4 DEF IInv, OneRedPair, IsRed
  <2> QED BY <2>1, <2>2, <2>3, <2>4
<1>18. SearchInv' /\ OuterInv'
  BY <1>2 DEF SearchInv, OuterInv
<1>19. ColorIsSet'
  BY <1>6, <1>11 DEF ColorIsSet, IInv, Members
<1> QED BY <1>6, <1>14, <1>16, <1>17, <1>18, <1>19 DEF IInv

LEMMA EndFixupStep ==
  ASSUME IInv, EndFixup
  PROVE  IInv'
<1> USE NullAssumption DEF EndFixup
<1>1. Linked' /\ AllReachable' /\ Members' = Members
  <2>1. Members' = Members
    BY DEF Members, Parent
  <2>2. Linked'
    BY <2>1 DEF IInv, Linked, Parent
  <2>3. AllReachable'
    BY <2>1 DEF IInv, AllReachable, Closed
  <2> QED BY <2>1, <2>2, <2>3
<1>2. root # NULL
  BY EmptyTree DEF IInv, FixupInv
<1>3. root \in Node /\ color' \in [Node -> {"Red", "Black", "Unset"}]
      /\ \A n \in Node : color'[n] = IF n = root THEN "Black" ELSE color[n]
  BY <1>2 DEF IInv, TypeOK, Pointer
<1>4. TypeOK'
  BY <1>3 DEF IInv, TypeOK, call
<1>5. OneRedPair'
  <2> SUFFICES ASSUME NEW n \in Node, Parent(n) # NULL,
                      color'[n] = "Red", color'[Parent(n)] = "Red"
               PROVE  FALSE
    BY DEF OneRedPair, Parent, IsRed
  <2>1. Parent(n) \in Node
    BY DEF IInv, TypeOK, Parent, Arm, Pointer
  <2>2. color[n] = "Red" /\ color[Parent(n)] = "Red" /\ n # root
    BY <1>3, <2>1
  <2>3. n = z
    BY <2>1, <2>2 DEF IInv, OneRedPair, IsRed
  <2> QED BY <2>2, <2>3 DEF MustFix
<1>6. SearchInv' /\ OuterInv' /\ FixupInv'
  BY <1>3 DEF SearchInv, OuterInv, FixupInv, IsRed
<1>7. ColorIsSet'
  BY <1>1, <1>3 DEF ColorIsSet, IInv, Members
<1> QED BY <1>1, <1>4, <1>5, <1>6, <1>7 DEF IInv

\* Steps that only move the program counter of the call.
LEMMA QuietStep ==
  ASSUME IInv, UNCHANGED heap, TypeOK', SearchInv', pc' \notin {"fixup", "outer"},
         pc \notin {"fixup", "outer"}
  PROVE  IInv'
<1>1. Linked' /\ AllReachable' /\ Members' = Members
  BY SameHeap DEF IInv
<1>2. OneRedPair'
  BY DEF IInv, OneRedPair, heap, Parent, IsRed
<1>3. FixupInv' /\ OuterInv'
  BY DEF IInv, FixupInv, OuterInv, heap, IsRed
<1>4. ColorIsSet'
  BY <1>1 DEF IInv, ColorIsSet, heap
<1> QED BY <1>1, <1>2, <1>3, <1>4 DEF IInv

LEMMA NextIInv ==
  ASSUME IInv, [Next]_vars
  PROVE  IInv'
<1> USE NullAssumption, KeyAssumption
<1>1. ASSUME NEW k \in Key, NEW ins \in BOOLEAN, NEW n \in Pointer, Begin(k, ins, n),
             Intrusive /\ ins => n \in Node \ Members
      PROVE  IInv'
  <2>1. TypeOK'
    BY <1>1 DEF Begin, heap, IInv, TypeOK, Pointer, Side
  <2>2. SearchInv'
    BY <1>1, SameHeap DEF Begin, SearchInv, IInv
  <2> QED BY <1>1, <2>1, <2>2, QuietStep DEF Begin
<1>2. ASSUME NEW k \in Key, Find(k) \/ ContainerInsert(k)
      PROVE  IInv'
  BY <1>1, <1>2 DEF Find, ContainerInsert, Pointer
<1>3. ASSUME NEW n \in Node, ChainInsert(n)
      PROVE  IInv'
  BY <1>1, <1>3 DEF ChainInsert, Pointer
<1>4. CASE Descend
  <2>1. Slot \in Members
    BY <1>4, SlotIsMember DEF Descend
  <2>2. TypeOK'
    BY <1>4, <2>1 DEF Descend, heap, IInv, TypeOK, Pointer, Side, Members
  <2>3. SearchInv'
    <3>1. Members' = Members
      BY <1>4 DEF Descend, heap, Members, Parent
    <3> QED BY <1>4, <2>1, <3>1 DEF Descend, SearchInv, IInv
  <2> QED BY <1>4, <2>2, <2>3, QuietStep DEF Descend
<1>5. CASE Hit
  <2>1. Slot \in Pointer /\ z \in Pointer
    BY <1>5, SlotIsMember DEF Hit, Members, Pointer, IInv, TypeOK
  <2>2. TypeOK'
    BY <1>5, <2>1 DEF Hit, heap, IInv, TypeOK
  <2>3. SearchInv'
    BY <1>5 DEF Hit, SearchInv
  <2> QED BY <1>5, <2>2, <2>3, QuietStep DEF Hit
<1>6. CASE Miss
  <2>1. TypeOK' /\ SearchInv'
    BY <1>6 DEF Miss, heap, call, IInv, TypeOK, SearchInv
  <2> QED BY <1>6, <2>1, QuietStep DEF Miss
<1>7. CASE Return
  <2>1. TypeOK' /\ SearchInv'
    BY <1>7 DEF Return, heap, call, IInv, TypeOK, SearchInv
  <2> QED BY <1>7, <2>1, QuietStep DEF Return
<1>8. CASE UNCHANGED vars
  <2>1. UNCHANGED <<arm, color, root, count, pc, key, inserting, z, up, side, result>>
    BY <1>8 DEF vars, heap, call
  <2>3. TypeOK' /\ ColorIsSet' /\ SearchInv'
    BY <2>1 DEF IInv, TypeOK, ColorIsSet, SearchInv, Members, Parent
  <2>4. OneRedPair' /\ FixupInv'
    BY <2>1 DEF IInv, OneRedPair, FixupInv, Members, Parent, IsRed
  <2>5. OuterInv'
    <3>1. UNCHANGED <<Parent(z), Grandparent(z)>>
      BY <2>1 DEF Parent, Grandparent
    <3>2. UNCHANGED Outside
      BY <2>1, <3>1 DEF Outside
    <3>3. UNCHANGED Uncle
      BY <2>1, <3>1, <3>2 DEF Uncle
    <3> QED BY <2>1, <3>1, <3>2, <3>3 DEF IInv, OuterInv, IsRed
  <2>2. Linked' /\ AllReachable'
    BY <1>8, SameHeap DEF vars, IInv
  <2> QED BY <2>2, <2>3, <2>4, <2>5 DEF IInv
<1> QED
  BY <1>2, <1>3, <1>4, <1>5, <1>6, <1>7, <1>8, PlantRootStep, AttachStep, RecolorStep,
     RotateInnerStep, RotateOuterStep, EndFixupStep
  DEF Next, Step

-----------------------------------------------------------------------------
\* The inductive invariant holds in every state of every call.
THEOREM Invariance == Spec => []IInv
BY InitIInv, NextIInv, PTL DEF Spec

\* Pointers point to nodes or are null, in every state.
THEOREM TypeCorrect == Spec => []TypeOK
<1> IInv => TypeOK
  BY DEF IInv
<1> QED BY Invariance, PTL

\* fixup_insert reads no colour that was never written.
THEOREM ColorsInitialized == Spec => []ColorIsSet
<1> IInv => ColorIsSet
  BY DEF IInv
<1> QED BY Invariance, PTL

\* The tree stays a tree through every insertion: child and parent arms match
\* and no node is cut off, in the middle of a rotation sequence too.
THEOREM TreeShape == Spec => [](Linked /\ AllReachable)
<1> IInv => Linked /\ AllReachable
  BY DEF IInv
<1> QED BY Invariance, PTL

\* A red node has a red parent only where fixup_insert is working.
THEOREM RedRule == Spec => []OneRedPair
<1> IInv => OneRedPair
  BY DEF IInv
<1> QED BY Invariance, PTL

\* fixup_insert follows no null pointer, although it tests none: a red parent
\* is never the root.
THEOREM MemorySafety == Spec => []NoNullDereference
<1>1. IInv => NoNullDereference
  <2> SUFFICES ASSUME IInv PROVE NoNullDereference
    OBVIOUS
  <2>1. ASSUME pc = "fixup", z # root
        PROVE  z # NULL /\ Parent(z) # NULL
    BY <2>1, NullAssumption DEF IInv, FixupInv, Members
  <2>2. ASSUME pc = "fixup", z # root, color[Parent(z)] = "Red"
        PROVE  Grandparent(z) # NULL
    BY <2>2, RedPairFamily, NullAssumption DEF MustFix
  <2>3. ASSUME pc = "outer"
        PROVE  /\ z # NULL /\ Parent(z) # NULL /\ Grandparent(z) # NULL
               /\ arm[Grandparent(z)][Outside] # NULL
    BY <2>3 DEF IInv, OuterInv
  <2> QED BY <2>1, <2>2, <2>3 DEF NoNullDereference
<1> QED BY <1>1, Invariance, PTL
=============================================================================
