---------------------------- MODULE Printer_proofs ----------------------------
(***************************************************************************)
(* Proofs about Printer, for every set of workloads, whatever their nodes   *)
(* and declarations are.                                                    *)
(***************************************************************************)
EXTENDS Printer, TLAPS, SequenceTheorems, WellFoundedInduction

\* The declarations of a name are in the order of their first use, each once.
IsSequence(s) == s \in Seq({s[i] : i \in DOMAIN s})
MapInv ==
  \A n \in DOMAIN map :
    /\ IsSequence(map[n])
    /\ \A i, j \in DOMAIN map[n] : map[n][i] = map[n][j] => i = j

\* What was written after a use is the place of its declaration, until octal.
ResolvedInv ==
  base = 10 =>
    \A x \in resolved :
      /\ x.name \in DOMAIN map
      /\ x.at \in DOMAIN map[x.name]
      /\ map[x.name][x.at] = x.decl

DisambiguationInv == MapInv /\ ResolvedInv

-----------------------------------------------------------------------------
\* What print_resolution makes of the declarations of a name.
LEMMA Resolution ==
  ASSUME NEW s, IsSequence(s), \A i, j \in DOMAIN s : s[i] = s[j] => i = j, NEW d
  PROVE  LET t == IF Contains(s, d) THEN s ELSE Append(s, d)
         IN  /\ IsSequence(t)
             /\ \A i, j \in DOMAIN t : t[i] = t[j] => i = j
             /\ Disambiguation(s, d) \in DOMAIN t /\ t[Disambiguation(s, d)] = d
             /\ \A i \in DOMAIN s : i \in DOMAIN t /\ t[i] = s[i]
  <1> DEFINE R == {s[i] : i \in DOMAIN s}
  <1>1. Len(s) \in Nat /\ DOMAIN s = 1..Len(s) /\ s \in Seq(R)
    BY DEF IsSequence
  <1>2. CASE Contains(s, d)
    <2>1. \E i \in DOMAIN s : s[i] = d
      BY <1>1, <1>2 DEF Contains
    <2>2. Disambiguation(s, d) = CHOOSE i \in DOMAIN s : s[i] = d
      BY <1>2 DEF Disambiguation
    <2>3. Disambiguation(s, d) \in DOMAIN s /\ s[Disambiguation(s, d)] = d
      BY <2>1, <2>2
    <2> QED BY <1>2, <2>3
  <1>3. CASE ~Contains(s, d)
    <2> DEFINE t == Append(s, d)
    <2>1. d \notin R
      BY <1>1, <1>3 DEF Contains
    <2>2. s \in Seq(R \cup {d})
      BY <1>1
    <2> HIDE DEF R
    <2>3. /\ t \in Seq(R \cup {d}) /\ Len(t) = Len(s) + 1
          /\ t[Len(s) + 1] = d /\ \A i \in 1..Len(s) : t[i] = s[i]
      BY <2>2, AppendProperties
    <2> HIDE DEF t
    <2>4. DOMAIN t = 1..(Len(s) + 1)
      BY <2>3
    <2>5. IsSequence(t)
      <3> DEFINE Q == {t[i] : i \in DOMAIN t}
      <3>1. \A i \in 1..Len(t) : t[i] \in Q
        BY <2>3, <2>4
      <3> HIDE DEF Q
      <3>2. t \in Seq(Q)
        BY <1>1, <2>3, <3>1
      <3> QED BY <3>2 DEF Q, IsSequence
    <2>6. \A i \in 1..Len(s) : t[i] # d
      BY <1>1, <2>1, <2>3 DEF R
    <2>7. \A i, j \in DOMAIN t : t[i] = t[j] => i = j
      <3> SUFFICES ASSUME NEW i \in DOMAIN t, NEW j \in DOMAIN t, t[i] = t[j] PROVE i = j
        OBVIOUS
      <3>1. i \in 1..Len(s) \/ i = Len(s) + 1
        BY <1>1, <2>4
      <3>2. j \in 1..Len(s) \/ j = Len(s) + 1
        BY <1>1, <2>4
      <3> QED BY <1>1, <2>3, <2>6, <3>1, <3>2
    <2>8. Disambiguation(s, d) = Len(s) + 1
      BY <1>3 DEF Disambiguation
    <2>9. \A i \in DOMAIN s : i \in DOMAIN t /\ t[i] = s[i]
      BY <1>1, <2>3, <2>4
    <2>10. Disambiguation(s, d) \in DOMAIN t /\ t[Disambiguation(s, d)] = d
      BY <1>1, <2>3, <2>4, <2>8
    <2> QED BY <1>3, <2>5, <2>7, <2>9, <2>10 DEF t
  <1> QED BY <1>2, <1>3

LEMMA WriteResolutionStep ==
  ASSUME DisambiguationInv, WriteResolution
  PROVE  DisambiguationInv'
  <1> DEFINE n == Head(todo).node
             d == Head(todo).decl
             s == IF n \in DOMAIN map THEN map[n] ELSE <<>>
             t == IF Contains(s, d) THEN s ELSE Append(s, d)
             at == Disambiguation(s, d)
  <1>1. /\ map' = [m \in DOMAIN map \cup {n} |-> IF m = n THEN t ELSE map[m]]
        /\ base' = base
        /\ resolved' = resolved \cup {[name |-> n, decl |-> d, at |-> Written(at)]}
    BY Zenon DEF WriteResolution
  <1>2. IsSequence(s) /\ \A i, j \in DOMAIN s : s[i] = s[j] => i = j
    <2>1. CASE n \in DOMAIN map
      BY <2>1 DEF DisambiguationInv, MapInv
    <2>2. CASE n \notin DOMAIN map
      BY <2>2 DEF IsSequence
    <2> QED BY <2>1, <2>2
  <1> HIDE DEF s
  <1>3. /\ IsSequence(t) /\ \A i, j \in DOMAIN t : t[i] = t[j] => i = j
        /\ at \in DOMAIN t /\ t[at] = d
        /\ \A i \in DOMAIN s : i \in DOMAIN t /\ t[i] = s[i]
    BY <1>2, Resolution
  <1> HIDE DEF t, at, n, d
  <1>4. /\ DOMAIN map' = DOMAIN map \cup {n} /\ map'[n] = t
        /\ \A m \in DOMAIN map : m # n => map'[m] = map[m]
    BY <1>1
  <1>5. MapInv'
    BY <1>3, <1>4 DEF DisambiguationInv, MapInv
  <1>6. ResolvedInv'
    <2> SUFFICES ASSUME base = 10, NEW x \in resolved'
                 PROVE  /\ x.name \in DOMAIN map' /\ x.at \in DOMAIN map'[x.name]
                        /\ map'[x.name][x.at] = x.decl
      BY <1>1 DEF ResolvedInv
    <2>1. CASE x \in resolved
      <3>1. /\ x.name \in DOMAIN map /\ x.at \in DOMAIN map[x.name]
            /\ map[x.name][x.at] = x.decl
        BY <2>1 DEF DisambiguationInv, ResolvedInv
      <3>2. CASE x.name # n
        BY <1>4, <3>1, <3>2
      <3>3. CASE x.name = n
        <4>1. s = map[n]
          BY <3>1, <3>3 DEF s
        <4> QED BY <1>3, <1>4, <3>1, <3>3, <4>1
      <3> QED BY <3>2, <3>3
    <2>2. CASE x = [name |-> n, decl |-> d, at |-> Written(at)]
      <3>1. Written(at) = at
        BY DEF Written
      <3> QED BY <1>3, <1>4, <2>2, <3>1
    <2> QED BY <1>1, <2>1, <2>2
  <1> QED BY <1>5, <1>6 DEF DisambiguationInv

LEMMA NextDisambiguationInv ==
  ASSUME DisambiguationInv, [Next]_vars
  PROVE  DisambiguationInv'
  <1>1. CASE WriteResolution
    BY <1>1, WriteResolutionStep
  <1>2. CASE SetOctal
    BY <1>2 DEF SetOctal, DisambiguationInv, MapInv, ResolvedInv
  <1>3. CASE UNCHANGED <<base, map, resolved>>
    BY <1>3 DEF DisambiguationInv, MapInv, ResolvedInv
  <1>4. WriteResolution \/ SetOctal \/ UNCHANGED <<base, map, resolved>>
    BY DEF Next, Step, BeginPrint, StartLine, Accept, Return, Write, WriteNumber, Indent,
           BreakLine, NeedNewline, Throw, vars
  <1> QED BY <1>1, <1>2, <1>3, <1>4

\* The map of a printer numbers the declarations of each name in the order of
\* their first use, and what was written after a use is that number.
THEOREM DisambiguationInvariance == Spec => []DisambiguationInv
  <1>1. Init => DisambiguationInv
    BY DEF Init, DisambiguationInv, MapInv, ResolvedInv
  <1>2. DisambiguationInv /\ [Next]_vars => DisambiguationInv'
    BY NextDisambiguationInv
  <1> QED BY <1>1, <1>2, PTL DEF Spec

\* print_resolution writes equal numbers after two uses of a name if and only if
\* they are uses of one declaration, in all that one printer prints, failed prints
\* among them, as long as no control character was written.
THEOREM DeclarationsDisambiguated == Spec => []Disambiguated
  <1>1. DisambiguationInv => Disambiguated
    BY DEF DisambiguationInv, MapInv, ResolvedInv, Disambiguated
  <1> QED BY <1>1, DisambiguationInvariance, PTL

-----------------------------------------------------------------------------
\* Induction and the concatenations of FlattenSeq.

\* Induction over the naturals, from the well-foundedness of their order.
Before == {ss \in Nat \X Nat : ss[1] < ss[2]}

LEMMA InBefore == ASSUME NEW x \in Nat, NEW y \in Nat, y < x PROVE <<y, x>> \in Before
  <1> DEFINE p == <<y, x>>
  <1>1. p \in Nat \X Nat /\ p[1] = y /\ p[2] = x
    OBVIOUS
  <1> HIDE DEF p
  <1>2. p \in Before
    BY <1>1 DEF Before
  <1> QED BY <1>2 DEF p

LEMMA Induction ==
  ASSUME NEW S, 0 \in S, \A n \in Nat : n \in S => n + 1 \in S
  PROVE  Nat \subseteq S
  <1> SUFFICES ASSUME Nat \ S # {} PROVE FALSE
    OBVIOUS
  <1> DEFINE T == Nat \ S
  <1>1. \E x \in T : \A y \in T : ~ (<<y, x>> \in Before)
    <2>1. IsWellFoundedOn(Before, Nat)
      <3>1. OpToRel(<, Nat) = Before
        BY DEF OpToRel, Before
      <3> QED BY <3>1, NatLessThanWellFounded
    <2>2. T \subseteq Nat /\ T # {}
      OBVIOUS
    <2> QED BY <2>1, <2>2, WFMin
  <1>2. PICK x \in T : \A y \in T : ~ (<<y, x>> \in Before)
    BY <1>1
  <1>3. x - 1 \in T
    BY <1>2
  <1>4. <<x - 1, x>> \in Before
    BY <1>2, <1>3, InBefore
  <1> QED BY <1>2, <1>3, <1>4

\* The concatenation of all the elements of s is the last element of the series g.
Sums(g, s, j) ==
  g = [i \in 1..j |-> IF i = 1 THEN s[i] ELSE g[i - 1] \o s[i]]

LEMMA SumsExtend ==
  ASSUME NEW s, NEW j \in Nat, NEW g, Sums(g, s, j + 1)
  PROVE  \E h : Sums(h, s, j + 2)
  <1> DEFINE h == [i \in 1..(j + 2) |-> IF i = j + 2 THEN g[j + 1] \o s[i] ELSE g[i]]
             Def(f, i) == IF i = 1 THEN s[i] ELSE f[i - 1] \o s[i]
  <1>1. \A i \in 1..(j + 2) : h[i] = Def(h, i)
    <2> SUFFICES ASSUME NEW i \in 1..(j + 2) PROVE h[i] = Def(h, i)
      OBVIOUS
    <2>1. CASE i = j + 2
      <3>1. h[i] = g[j + 1] \o s[i]
        BY <2>1
      <3>2. i - 1 \in 1..(j + 2) /\ i - 1 # j + 2 /\ i - 1 = j + 1 /\ i # 1
        BY <2>1
      <3>3. h[i - 1] = g[i - 1]
        BY <3>2
      <3> HIDE DEF h
      <3>4. h[i] = h[i - 1] \o s[i]
        BY <3>1, <3>2, <3>3
      <3> QED BY <3>2, <3>4
    <2>2. CASE i \in 1..(j + 1)
      <3>1. h[i] = g[i]
        BY <2>2
      <3>2. g[i] = Def(g, i)
        BY <2>2 DEF Sums
      <3>3. i # 1 => i - 1 \in 1..(j + 2) /\ i - 1 # j + 2
        BY <2>2
      <3>4. i # 1 => h[i - 1] = g[i - 1]
        BY <3>3
      <3> HIDE DEF h
      <3> QED BY <3>1, <3>2, <3>4
    <2> QED BY <2>1, <2>2
  <1>2. h = [i \in 1..(j + 2) |-> h[i]]
    OBVIOUS
  <1> HIDE DEF h
  <1>3. h = [i \in 1..(j + 2) |-> Def(h, i)]
    <2> DEFINE k == [i \in 1..(j + 2) |-> Def(h, i)]
    <2>1. k = [i \in 1..(j + 2) |-> k[i]] /\ \A i \in 1..(j + 2) : k[i] = Def(h, i)
      OBVIOUS
    <2> HIDE DEF k, Def
    <2>2. h = k
      BY <1>1, <1>2, <2>1
    <2> QED BY <2>2 DEF k
  <1>4. Sums(h, s, j + 2)
    BY <1>3 DEF Sums
  <1> QED BY <1>4

LEMMA SumsExist ==
  ASSUME NEW s, NEW n \in Nat, n # 0
  PROVE  \E g : Sums(g, s, n)
  <1> DEFINE P == {j \in Nat : \E g : Sums(g, s, j + 1)}
  <1>1. 0 \in P
    <2>1. Sums([i \in 1..1 |-> s[1]], s, 0 + 1)
      BY DEF Sums
    <2> QED BY <2>1
  <1>2. \A j \in Nat : j \in P => j + 1 \in P
    <2> SUFFICES ASSUME NEW j \in Nat, j \in P PROVE \E g : Sums(g, s, (j + 1) + 1)
      OBVIOUS
    <2>1. PICK g : Sums(g, s, j + 1)
      OBVIOUS
    <2>2. \E h : Sums(h, s, j + 2)
      BY <2>1, SumsExtend
    <2>3. (j + 1) + 1 = j + 2
      OBVIOUS
    <2> QED BY <2>2, <2>3
  <1>3. Nat \subseteq P
    <2> HIDE DEF P
    <2> QED BY <1>1, <1>2, Induction
  <1>4. n - 1 \in P /\ (n - 1) + 1 = n
    BY <1>3
  <1> QED BY <1>4

\* FlattenSeq stays in a set of sequences that is closed under concatenation.
LEMMA Concatenations ==
  ASSUME NEW T, \A a, b \in T : a \o b \in T, NEW s \in Seq(T), s # << >>
  PROVE  FlattenSeq(s) \in T
  <1> DEFINE n == Len(s)
             f == CHOOSE g : Sums(g, s, n)
  <1>0. n \in Nat /\ n # 0 /\ \A i \in 1..n : s[i] \in T
    OBVIOUS
  <1>1. Sums(f, s, n)
    BY <1>0, SumsExist
  <1>2. FlattenSeq(s) = f[n]
    <2>1. Len(s) # 0
      BY <1>0
    <2> QED BY <2>1, Zenon DEF FlattenSeq, Sums
  <1> HIDE DEF f, n
  <1> DEFINE Q == {j \in Nat : j + 1 \in 1..n => f[j + 1] \in T}
  <1>3. f[1] = s[1] /\ \A i \in 2..n : f[i] = f[i - 1] \o s[i]
    <2>1. f = [i \in 1..n |-> IF i = 1 THEN s[i] ELSE f[i - 1] \o s[i]]
      BY <1>1 DEF Sums
    <2>2. \A i \in 1..n : f[i] = IF i = 1 THEN s[i] ELSE f[i - 1] \o s[i]
      BY <2>1
    <2>3. 1 \in 1..n /\ \A i \in 2..n : i \in 1..n /\ i # 1
      BY <1>0
    <2> QED BY <2>2, <2>3
  <1>4. 0 \in Q
    BY <1>0, <1>3
  <1>5. \A j \in Nat : j \in Q => j + 1 \in Q
    <2> SUFFICES ASSUME NEW j \in Nat, j \in Q, (j + 1) + 1 \in 1..n
                 PROVE  f[(j + 1) + 1] \in T
      OBVIOUS
    <2>1. f[j + 1] \in T
      BY <1>0
    <2>2. (j + 1) + 1 \in 2..n /\ ((j + 1) + 1) - 1 = j + 1 /\ s[(j + 1) + 1] \in T
      BY <1>0
    <2>3. f[(j + 1) + 1] = f[j + 1] \o s[(j + 1) + 1]
      BY <1>3, <2>2
    <2> QED BY <2>1, <2>2, <2>3
  <1>6. Nat \subseteq Q
    <2> HIDE DEF Q
    <2> QED BY <1>4, <1>5, Induction
  <1>7. n - 1 \in Q /\ (n - 1) + 1 = n
    BY <1>0, <1>6
  <1> QED BY <1>0, <1>2, <1>7

-----------------------------------------------------------------------------
\* What handlers do, and where it leaves the indentation and the line.

\* What handlers do, whatever they write.
IsItem(i) ==
  \/ i.do \in {"write", "octal", "needs_newline", "throw"}
  \/ i.do = "number" /\ i.what \in Nat
  \/ i.do \in {"indent", "newline"} /\ i.by \in Int
  \/ i.do = "visit" /\ i.as \in DOMAIN Handles /\ i.node \in Nodes
  \/ i.do = "resolve" /\ i.node.kind \in NameKinds

AreItems(s) == IsSequence(s) /\ \A i \in 1..Len(s) : IsItem(s[i])

LEMMA SequenceOf == ASSUME NEW U, NEW s \in Seq(U) PROVE IsSequence(s)
  <1> DEFINE Q == {s[i] : i \in DOMAIN s}
  <1>1. Len(s) \in Nat /\ DOMAIN s = 1..Len(s) /\ s = [i \in 1..Len(s) |-> s[i]]
    OBVIOUS
  <1>2. \A i \in 1..Len(s) : s[i] \in Q
    BY <1>1
  <1> HIDE DEF Q
  <1>3. s \in Seq(Q)
    BY <1>1, <1>2
  <1> QED BY <1>3 DEF Q, IsSequence

LEMMA SequenceConcat ==
  ASSUME NEW a, NEW b, IsSequence(a), IsSequence(b)
  PROVE  /\ IsSequence(a \o b)
         /\ Len(a) \in Nat /\ Len(b) \in Nat /\ Len(a \o b) = Len(a) + Len(b)
         /\ \A i \in 1..Len(a) : (a \o b)[i] = a[i]
         /\ \A i \in (Len(a) + 1)..(Len(a) + Len(b)) : (a \o b)[i] = b[i - Len(a)]
  <1> DEFINE A == {a[i] : i \in DOMAIN a}
             B == {b[i] : i \in DOMAIN b}
             s == a \o b
  <1>1. a \in Seq(A) /\ b \in Seq(B)
    BY DEF IsSequence
  <1> HIDE DEF A, B
  <1>2. a \in Seq(A \cup B) /\ b \in Seq(A \cup B)
    BY <1>1
  <1>3. /\ s \in Seq(A \cup B)
        /\ Len(a) \in Nat /\ Len(b) \in Nat /\ Len(s) = Len(a) + Len(b)
        /\ \A i \in 1..Len(a) : s[i] = a[i]
        /\ \A i \in (Len(a) + 1)..(Len(a) + Len(b)) : s[i] = b[i - Len(a)]
    BY <1>2
  <1> HIDE DEF s
  <1>4. IsSequence(s)
    BY <1>3, SequenceOf
  <1> QED BY <1>3, <1>4 DEF s

LEMMA SequenceAssoc ==
  ASSUME NEW a, NEW b, NEW c, IsSequence(a), IsSequence(b), IsSequence(c)
  PROVE  (a \o b) \o c = a \o (b \o c)
  <1> DEFINE A == {a[i] : i \in DOMAIN a}
             B == {b[i] : i \in DOMAIN b}
             C == {c[i] : i \in DOMAIN c}
  <1>1. a \in Seq(A) /\ b \in Seq(B) /\ c \in Seq(C)
    BY DEF IsSequence
  <1> HIDE DEF A, B, C
  <1> DEFINE U == A \cup B \cup C
  <1>2. a \in Seq(U) /\ b \in Seq(U) /\ c \in Seq(U)
    BY <1>1
  <1> HIDE DEF U
  <1> QED BY <1>2, ConcatAssociative

LEMMA ItemsConcat ==
  ASSUME NEW a, NEW b, AreItems(a), AreItems(b)
  PROVE  /\ AreItems(a \o b)
         /\ Len(a) \in Nat /\ Len(b) \in Nat /\ Len(a \o b) = Len(a) + Len(b)
         /\ \A i \in 1..Len(a) : (a \o b)[i] = a[i]
         /\ \A i \in (Len(a) + 1)..(Len(a) + Len(b)) : (a \o b)[i] = b[i - Len(a)]
  <1> DEFINE s == a \o b
  <1>1. /\ IsSequence(s)
        /\ Len(a) \in Nat /\ Len(b) \in Nat /\ Len(s) = Len(a) + Len(b)
        /\ \A i \in 1..Len(a) : s[i] = a[i]
        /\ \A i \in (Len(a) + 1)..(Len(a) + Len(b)) : s[i] = b[i - Len(a)]
    BY SequenceConcat DEF AreItems
  <1> HIDE DEF s
  <1>2. ASSUME NEW i \in 1..Len(s) PROVE IsItem(s[i])
    <2>1. CASE i \in 1..Len(a)
      BY <1>1, <2>1 DEF AreItems
    <2>2. CASE i \in (Len(a) + 1)..(Len(a) + Len(b))
      <3>1. i - Len(a) \in 1..Len(b)
        BY <1>1, <2>2
      <3> QED BY <1>1, <2>2, <3>1 DEF AreItems
    <2> QED BY <1>1, <2>1, <2>2
  <1>3. AreItems(s)
    BY <1>1, <1>2 DEF AreItems
  <1> QED BY <1>1, <1>3 DEF s

\* What an item adds to the indentation.
Shift(i) == IF i.do \in {"indent", "newline"} THEN i.by ELSE 0

\* What is known of the line after an item, at most: 0 nothing, 1 that it is
\* empty or a newline is needed, 2 that a newline is needed.
LineAfter(i, p) ==
  CASE i.do = "newline" -> 1
    [] i.do \in {"needs_newline", "throw"} -> 2
    [] i.do = "return" -> p
    [] i.do = "indent" -> IF p = 2 THEN 2 ELSE 0
    [] i.do = "visit" -> IF i.as = "Stmt" /\ i.node.kind = "Handler" THEN 1 ELSE 0
    [] OTHER -> 0

\* A visit that has to start on a line of its own, in a statement.
NeedsLine(i) == i.do = "visit" /\ i.as = "Stmt"

\* l and m label the places in s with the indentation and what is known of the line.
Labels(s, l, m) ==
  /\ l \in [Nat -> Int] /\ m \in [Nat -> 0..2]
  /\ \A i \in 1..Len(s) : l[i + 1] = l[i] + Shift(s[i]) /\ m[i + 1] <= LineAfter(s[i], m[i])

Labelled(s, l, m, k, p, q) ==
  /\ Labels(s, l, m)
  /\ l[1] = 0 /\ l[Len(s) + 1] = k
  /\ m[1] <= p /\ q <= m[Len(s) + 1]
  /\ \A i \in 1..Len(s) : NeedsLine(s[i]) => m[i] >= 1

\* From what p says of the line, s leads to what q says, with k more indentation,
\* and each of its statements has its line.
Runs(s, k, p, q) == AreItems(s) /\ \E l, m : Labelled(s, l, m, k, p, q)

LEMMA ShiftOf == ASSUME NEW i, IsItem(i) PROVE Shift(i) \in Int
  BY DEF Shift, IsItem

LEMMA RunsEmpty == ASSUME NEW p \in 0..2, NEW q \in 0..2, q <= p PROVE Runs(<< >>, 0, p, q)
  <1>1. Labelled(<< >>, [i \in Nat |-> 0], [i \in Nat |-> q], 0, p, q)
    BY DEF Labelled, Labels
  <1>2. AreItems(<< >>)
    BY DEF AreItems, IsSequence
  <1> QED BY <1>1, <1>2 DEF Runs

LEMMA RunsOne ==
  ASSUME NEW i, IsItem(i), NEW p \in 0..2, NEW q \in 0..2, q <= LineAfter(i, p),
         NeedsLine(i) => p >= 1
  PROVE  Runs(<< i >>, Shift(i), p, q)
  <1> DEFINE l == [j \in Nat |-> IF j = 1 THEN 0 ELSE Shift(i)]
             m == [j \in Nat |-> IF j = 1 THEN p ELSE q]
             s == << i >>
  <1>1. Shift(i) \in Int
    BY ShiftOf
  <1>2. s \in Seq({i}) /\ Len(s) = 1 /\ s[1] = i
    OBVIOUS
  <1>3. /\ l \in [Nat -> Int] /\ m \in [Nat -> 0..2]
        /\ l[1] = 0 /\ l[2] = Shift(i) /\ m[1] = p /\ m[2] = q
    BY <1>1
  <1> HIDE DEF l, m, s
  <1>4. Labelled(s, l, m, Shift(i), p, q)
    BY <1>1, <1>2, <1>3 DEF Labelled, Labels
  <1>5. AreItems(s)
    BY <1>2, SequenceOf DEF AreItems
  <1>6. Runs(s, Shift(i), p, q)
    BY <1>4, <1>5 DEF Runs
  <1> QED BY <1>6 DEF s

\* What follows starts where what precedes it ends.
LEMMA RunsConcat ==
  ASSUME NEW a, NEW b, NEW j \in Int, NEW k \in Int, NEW p \in 0..2, NEW q \in 0..2, NEW r \in 0..2,
         Runs(a, j, p, q), Runs(b, k, q, r)
  PROVE  Runs(a \o b, j + k, p, r)
  <1>1. PICK la, ma : Labelled(a, la, ma, j, p, q)
    BY DEF Runs
  <1>2. PICK lb, mb : Labelled(b, lb, mb, k, q, r)
    BY DEF Runs
  <1> DEFINE n == Len(a)
             s == a \o b
             l == [i \in Nat |-> IF i <= n THEN la[i] ELSE j + lb[i - n]]
             m == [i \in Nat |-> IF i <= n THEN ma[i] ELSE mb[i - n]]
  <1>3. /\ AreItems(a) /\ AreItems(b) /\ n \in Nat /\ Len(b) \in Nat
        /\ AreItems(s) /\ Len(s) = n + Len(b)
        /\ \A i \in 1..n : s[i] = a[i]
        /\ \A i \in (n + 1)..(n + Len(b)) : s[i] = b[i - n]
    BY ItemsConcat DEF Runs
  <1>4. /\ la \in [Nat -> Int] /\ ma \in [Nat -> 0..2] /\ la[1] = 0 /\ la[n + 1] = j /\ ma[1] <= p
        /\ q <= ma[n + 1]
        /\ \A i \in 1..n : /\ la[i + 1] = la[i] + Shift(a[i]) /\ ma[i + 1] <= LineAfter(a[i], ma[i])
                           /\ NeedsLine(a[i]) => ma[i] >= 1
    BY <1>1 DEF Labelled, Labels
  <1>5. /\ lb \in [Nat -> Int] /\ mb \in [Nat -> 0..2] /\ lb[1] = 0 /\ lb[Len(b) + 1] = k
        /\ mb[1] <= q /\ r <= mb[Len(b) + 1]
        /\ \A i \in 1..Len(b) :
             /\ lb[i + 1] = lb[i] + Shift(b[i]) /\ mb[i + 1] <= LineAfter(b[i], mb[i])
             /\ NeedsLine(b[i]) => mb[i] >= 1
    BY <1>2 DEF Labelled, Labels
  <1>a. /\ j + 0 = j
        /\ \A i \in Nat : la[i] \in Int /\ lb[i] \in Int /\ ma[i] \in 0..2 /\ mb[i] \in 0..2
    BY <1>4, <1>5
  <1> HIDE DEF n, s
  <1>6. /\ l \in [Nat -> Int] /\ m \in [Nat -> 0..2]
        /\ \A i \in 1..n : l[i] = la[i] /\ m[i] = ma[i]
        /\ \A i \in Nat : i > n => l[i] = j + lb[i - n] /\ m[i] = mb[i - n]
    <2>1. ASSUME NEW i \in Nat
          PROVE  /\ (IF i <= n THEN la[i] ELSE j + lb[i - n]) \in Int
                 /\ (IF i <= n THEN ma[i] ELSE mb[i - n]) \in 0..2
      <3>1. i > n => i - n \in Nat
        BY <1>3
      <3> QED BY <1>3, <1>a, <3>1
    <2>2. l \in [Nat -> Int] /\ m \in [Nat -> 0..2]
      BY <2>1
    <2>3. \A i \in Nat : /\ l[i] = (IF i <= n THEN la[i] ELSE j + lb[i - n])
                          /\ m[i] = (IF i <= n THEN ma[i] ELSE mb[i - n])
      OBVIOUS
    <2> HIDE DEF l, m
    <2> QED BY <1>3, <2>2, <2>3
  <1> HIDE DEF l, m
  <1>7. l[n + 1] = la[n + 1] /\ m[n + 1] <= ma[n + 1] /\ l[n + 1] = j + lb[1] /\ m[n + 1] = mb[1]
    <2>1. n + 1 \in Nat /\ n + 1 > n /\ (n + 1) - n = 1
      BY <1>3
    <2>2. l[n + 1] = j + lb[1] /\ m[n + 1] = mb[1]
      BY <1>6, <2>1
    <2>3. mb[1] \in Int /\ ma[n + 1] \in Int
      BY <1>a, <2>1
    <2> QED BY <1>4, <1>5, <2>2, <2>3
  <1>8. l[1] = 0 /\ m[1] <= p
    <2>1. CASE n = 0
      <3>1. l[1] = la[1] /\ m[1] <= ma[1] /\ m[1] \in Int /\ ma[1] \in Int
        <4>1. n + 1 = 1 /\ 1 \in Nat
          BY <2>1
        <4>2. l[1] = la[1] /\ m[1] <= ma[1]
          BY <1>7, <4>1
        <4> QED BY <1>a, <1>6, <4>1, <4>2
      <3> QED BY <1>4, <3>1
    <2>2. CASE n # 0
      <3>1. 1 \in 1..n
        BY <1>3, <2>2
      <3> QED BY <1>4, <1>6, <3>1
    <2> QED BY <1>3, <2>1, <2>2
  <1>9. l[Len(s) + 1] = j + k /\ r <= m[Len(s) + 1]
    <2>1. (Len(s) + 1) - n = Len(b) + 1 /\ Len(s) + 1 \in Nat /\ Len(s) + 1 > n
      BY <1>3
    <2>2. l[Len(s) + 1] = j + lb[Len(b) + 1] /\ m[Len(s) + 1] = mb[Len(b) + 1]
      BY <1>6, <2>1
    <2> QED BY <1>5, <2>2
  <1>10. ASSUME NEW i \in 1..Len(s)
         PROVE  /\ l[i + 1] = l[i] + Shift(s[i]) /\ m[i + 1] <= LineAfter(s[i], m[i])
                /\ NeedsLine(s[i]) => m[i] >= 1
    <2>1. CASE i \in 1..(n - 1)
      <3>1. i \in 1..n /\ i + 1 \in 1..n
        BY <1>3, <2>1
      <3> QED BY <1>3, <1>4, <1>6, <3>1
    <2>2. CASE i = n
      <3>1. n \in 1..n
        BY <1>3, <2>2
      <3>2. /\ ma[n + 1] <= LineAfter(a[n], ma[n]) /\ m[n] = ma[n] /\ s[n] = a[n] /\ l[n] = la[n]
            /\ la[n + 1] = la[n] + Shift(a[n]) /\ (NeedsLine(a[n]) => ma[n] >= 1)
        BY <1>3, <1>4, <1>6, <3>1
      <3>3. LineAfter(a[n], ma[n]) \in Int
        BY <1>4, <3>1 DEF LineAfter
      <3>4. m[n + 1] \in Int /\ ma[n + 1] \in Int
        BY <1>3, <1>a, <1>7
      <3> HIDE DEF Shift, LineAfter, NeedsLine
      <3>5. l[n + 1] = l[n] + Shift(s[n]) /\ (NeedsLine(s[n]) => m[n] >= 1)
        BY <1>7, <3>2
      <3>6. m[n + 1] <= LineAfter(s[n], m[n])
        BY <1>7, <3>2, <3>3, <3>4
      <3> QED BY <2>2, <3>5, <3>6, <3>2, <1>7
    <2>3. CASE i > n
      <3>1. /\ i - n \in 1..Len(b) /\ (i + 1) - n = (i - n) + 1
            /\ i \in (n + 1)..(n + Len(b)) /\ i + 1 > n
        BY <1>3, <2>3
      <3>2. /\ l[i] = j + lb[i - n] /\ m[i] = mb[i - n] /\ s[i] = b[i - n]
            /\ l[i + 1] = j + lb[(i - n) + 1] /\ m[i + 1] = mb[(i - n) + 1]
        <4>1. i \in Nat /\ i + 1 \in Nat
          BY <1>3
        <4>2. l[i + 1] = j + lb[(i + 1) - n] /\ m[i + 1] = mb[(i + 1) - n]
          BY <1>6, <3>1, <4>1
        <4>3. l[i] = j + lb[i - n] /\ m[i] = mb[i - n]
          BY <1>6, <2>3, <4>1
        <4> QED BY <1>3, <3>1, <4>2, <4>3
      <3>3. /\ lb[(i - n) + 1] = lb[i - n] + Shift(b[i - n])
            /\ mb[(i - n) + 1] <= LineAfter(b[i - n], mb[i - n])
            /\ NeedsLine(b[i - n]) => mb[i - n] >= 1
        BY <1>5, <3>1
      <3>4. lb[i - n] \in Int /\ Shift(b[i - n]) \in Int
        BY <1>3, <1>5, <3>1, ShiftOf DEF AreItems
      <3> HIDE DEF Shift
      <3> QED BY <3>2, <3>3, <3>4
    <2> QED BY <1>3, <2>1, <2>2, <2>3
  <1>11. Labelled(s, l, m, j + k, p, r)
    BY <1>6, <1>8, <1>9, <1>10 DEF Labelled, Labels
  <1> QED BY <1>3, <1>11 DEF Runs, s

\* What starts with nothing known of the line can start anywhere.
LEMMA RunsWeaken ==
  ASSUME NEW s, NEW k \in Int, NEW p \in 0..2, NEW q \in 0..2, NEW p2 \in 0..2, NEW q2 \in 0..2,
         Runs(s, k, p, q), p <= p2, q2 <= q
  PROVE  Runs(s, k, p2, q2)
  <1>1. PICK l, m : Labelled(s, l, m, k, p, q)
    BY DEF Runs
  <1>2. m[1] \in Int /\ m[Len(s) + 1] \in Int
    <2>1. Len(s) \in Nat /\ m \in [Nat -> 0..2]
      BY <1>1 DEF Runs, AreItems, IsSequence, Labelled, Labels
    <2> QED BY <2>1
  <1>3. Labelled(s, l, m, k, p2, q2)
    BY <1>1, <1>2 DEF Labelled
  <1> QED BY <1>3 DEF Runs

\* Items that leave the indentation, and need no line of their own.
Plain(s) == Runs(s, 0, 0, 0)

LEMMA PlainEmpty == Plain(<< >>)
  BY RunsEmpty DEF Plain

LEMMA PlainConcat == \A a, b : Plain(a) /\ Plain(b) => Plain(a \o b)
  <1> SUFFICES ASSUME NEW a, NEW b, Runs(a, 0, 0, 0), Runs(b, 0, 0, 0)
               PROVE  Runs(a \o b, 0 + 0, 0, 0)
    BY DEF Plain
  <1> QED BY RunsConcat

LEMMA PlainOne ==
  ASSUME NEW i, IsItem(i), i.do \notin {"indent", "newline"}, ~NeedsLine(i)
  PROVE  Plain(<< i >>)
  <1>1. LineAfter(i, 0) \in 0..2
    BY DEF LineAfter
  <1>2. Shift(i) = 0
    BY DEF Shift
  <1>3. Runs(<< i >>, Shift(i), 0, 0)
    BY <1>1, RunsOne
  <1> QED BY <1>2, <1>3 DEF Plain

LEMMA PlainTok == \A s : Plain(Tok(s))
  <1> SUFFICES ASSUME NEW s PROVE Plain(Tok(s))
    OBVIOUS
  <1> DEFINE i == [do |-> "write", what |-> s]
  <1>1. IsItem(i) /\ i.do \notin {"indent", "newline"} /\ ~NeedsLine(i)
    BY DEF IsItem, NeedsLine
  <1> HIDE DEF i
  <1>2. Plain(<< i >>)
    BY <1>1, PlainOne
  <1> QED BY <1>2 DEF i, Tok

\* Sequences that can follow one another do so when they are flattened.
LEMMA RunsFlatten ==
  ASSUME NEW p \in 0..2, NEW n \in Nat, NEW f, f = [i \in 1..n |-> f[i]],
         \A i \in 1..n : Runs(f[i], 0, p, p)
  PROVE  Runs(FlattenSeq(f), 0, p, p)
  <1>1. CASE n = 0
    <2>1. f = << >> /\ Len(f) = 0
      BY <1>1
    <2>2. FlattenSeq(f) = << >>
      BY <2>1 DEF FlattenSeq
    <2> QED BY <2>2, RunsEmpty
  <1>2. CASE n # 0
    <2> DEFINE U == UNION {{f[i][j] : j \in DOMAIN f[i]} : i \in 1..n}
               T == {s \in Seq(U) : Runs(s, 0, p, p)}
    <2>1. f \in Seq(T)
      <3>1. ASSUME NEW i \in 1..n PROVE f[i] \in T
        <4> DEFINE R == {f[i][j] : j \in DOMAIN f[i]}
        <4>1. f[i] \in Seq(R)
          BY DEF Runs, AreItems, IsSequence
        <4>2. R \subseteq U
          OBVIOUS
        <4> HIDE DEF R, U
        <4>3. f[i] \in Seq(U)
          BY <4>1, <4>2
        <4> QED BY <4>3
      <3> HIDE DEF T
      <3> QED BY <3>1
    <2>2. f # << >>
      BY <1>2
    <2>3. ASSUME NEW a \in T, NEW b \in T PROVE a \o b \in T
      <3>0. Runs(a, 0, p, p) /\ Runs(b, 0, p, p) /\ a \o b \in Seq(U)
        <4> HIDE DEF U
        <4> QED OBVIOUS
      <3> HIDE DEF T
      <3>1. Runs(a \o b, 0 + 0, p, p)
        <4>1. 0 \in Int /\ p \in 0..2
          OBVIOUS
        <4> QED BY ONLY <3>0, <4>1, RunsConcat
      <3> QED BY <3>0, <3>1 DEF T
    <2>4. FlattenSeq(f) \in T
      <3> HIDE DEF T
      <3> QED BY <2>1, <2>2, <2>3, Concatenations
    <2> QED BY <2>4
  <1> QED BY <1>1, <1>2

LEMMA PlainFlatten ==
  ASSUME NEW n \in Nat, NEW f, f = [i \in 1..n |-> f[i]], \A i \in 1..n : Plain(f[i])
  PROVE  Plain(FlattenSeq(f))
  BY RunsFlatten DEF Plain

\* The visitor classes of io.C.
Visitors ==
  {"Name", "Primary", "Postfix", "Unary", "Cast", "Pm", "Mul", "Add", "Shift", "Rel", "Eq",
   "And", "Xor", "Ior", "Land", "Lor", "Cond", "Assignment", "Expr", "TypeExpr", "Type",
   "Initializer", "Stmt", "Decl"}

LEMMA VisitorsOf == DOMAIN Handles = Visitors
  <1>1. DOMAIN Handles = DOMAIN HandledByFunction \cup DOMAIN HandledByRow
    BY DEF Handles
  <1>2. DOMAIN HandledByRow = {"Mul", "Add", "Shift", "Rel", "Eq", "And", "Xor", "Ior", "Land",
                               "Lor", "Assignment"}
    BY DEF HandledByRow, BinaryTables
  <1>3. DOMAIN HandledByFunction =
          {"Name", "Primary", "Postfix", "Unary", "Cast", "Pm", "Cond", "Expr", "TypeExpr",
           "Type", "Initializer", "Stmt", "Decl", "Assignment"}
    BY DEF HandledByFunction
  <1> QED BY <1>1, <1>2, <1>3 DEF Visitors

\* What the smallest pieces do.
LEMMA PlainItems ==
  /\ \A n \in Nat : Plain(Num(n))
  /\ Plain(Octal) /\ Plain(NeedsNewline) /\ Plain(Raise)
  /\ \A v \in Visitors \ {"Stmt"}, n \in Nodes : Plain(Visit(v, n))
  /\ \A n \in Nodes : \A d : Plain(VisitName(n, d))
  <1>1. ASSUME NEW n \in Nat PROVE Plain(Num(n))
    <2> DEFINE i == [do |-> "number", what |-> n]
    <2>1. IsItem(i) /\ i.do \notin {"indent", "newline"} /\ ~NeedsLine(i)
      BY DEF IsItem, NeedsLine
    <2> HIDE DEF i
    <2>2. Plain(<< i >>)
      BY <2>1, PlainOne
    <2> QED BY <2>2 DEF i, Num
  <1>2. ASSUME NEW w \in {"octal", "needs_newline", "throw"} PROVE Plain(<< [do |-> w] >>)
    <2> DEFINE i == [do |-> w]
    <2>1. IsItem(i) /\ i.do \notin {"indent", "newline"} /\ ~NeedsLine(i)
      BY DEF IsItem, NeedsLine
    <2> HIDE DEF i
    <2>2. Plain(<< i >>)
      BY <2>1, PlainOne
    <2> QED BY <2>2 DEF i
  <1>3. ASSUME NEW v \in Visitors \ {"Stmt"}, NEW n \in Nodes, NEW d
        PROVE  Plain(<< [do |-> "visit", as |-> v, node |-> n, decl |-> d] >>)
    <2> DEFINE i == [do |-> "visit", as |-> v, node |-> n, decl |-> d]
    <2>1. IsItem(i) /\ i.do \notin {"indent", "newline"} /\ ~NeedsLine(i)
      BY VisitorsOf DEF IsItem, NeedsLine
    <2> HIDE DEF i
    <2>2. Plain(<< i >>)
      BY <2>1, PlainOne
    <2> QED BY <2>2 DEF i
  <1>4. "Name" \in Visitors \ {"Stmt"}
    BY DEF Visitors
  <1> QED BY <1>1, <1>2, <1>3, <1>4 DEF Num, Octal, NeedsNewline, Raise, Visit, VisitName

LEMMA PlainToks == \A ss : IsSequence(ss) => Plain(Toks(ss))
  <1> SUFFICES ASSUME NEW ss, IsSequence(ss) PROVE Plain(Toks(ss))
    OBVIOUS
  <1> DEFINE f == [i \in DOMAIN ss |-> Tok(ss[i])]
  <1>1. Len(ss) \in Nat /\ DOMAIN ss = 1..Len(ss)
    BY DEF IsSequence
  <1>2. f = [i \in 1..Len(ss) |-> f[i]] /\ \A i \in 1..Len(ss) : f[i] = Tok(ss[i])
    BY <1>1
  <1> HIDE DEF f
  <1>3. Plain(FlattenSeq(f))
    BY <1>1, <1>2, PlainFlatten, PlainTok
  <1> QED BY <1>3 DEF f, Toks

LEMMA PlainListed == \A v \in Visitors \ {"Stmt"}, ns \in Seq(Nodes) : Plain(Listed(v, ns))
  <1> SUFFICES ASSUME NEW v \in Visitors \ {"Stmt"}, NEW ns \in Seq(Nodes)
               PROVE  Plain(Listed(v, ns))
    OBVIOUS
  <1> DEFINE f == [i \in DOMAIN ns |-> (IF i = 1 THEN << >> ELSE Tok(", ")) \o Visit(v, ns[i])]
  <1>1. Len(ns) \in Nat /\ DOMAIN ns = 1..Len(ns) /\ \A i \in 1..Len(ns) : ns[i] \in Nodes
    OBVIOUS
  <1>2. /\ f = [i \in 1..Len(ns) |-> f[i]]
        /\ \A i \in 1..Len(ns) : f[i] = (IF i = 1 THEN << >> ELSE Tok(", ")) \o Visit(v, ns[i])
    BY <1>1
  <1>3. ASSUME NEW i \in 1..Len(ns)
        PROVE  Plain((IF i = 1 THEN << >> ELSE Tok(", ")) \o Visit(v, ns[i]))
    <2>1. Plain(Visit(v, ns[i]))
      BY <1>1, PlainItems
    <2>2. Plain(IF i = 1 THEN << >> ELSE Tok(", "))
      <3>1. Plain(<< >>) /\ Plain(Tok(", "))
        BY PlainEmpty, PlainTok
      <3> QED BY <3>1
    <2> QED BY <2>1, <2>2, PlainConcat
  <1> HIDE DEF f
  <1>4. Plain(FlattenSeq(f))
    BY <1>1, <1>2, <1>3, PlainFlatten
  <1> QED BY <1>4 DEF f, Listed

LEMMA PlainHaving == ASSUME NEW ws, IsSequence(ws), NEW s PROVE Plain(Having(ws, s))
  <1> DEFINE f == [i \in DOMAIN ws |-> IF Contains(s, ws[i]) THEN Tok(ws[i]) ELSE << >>]
  <1>1. Len(ws) \in Nat /\ DOMAIN ws = 1..Len(ws)
    BY DEF IsSequence
  <1>2. /\ f = [i \in 1..Len(ws) |-> f[i]]
        /\ \A i \in 1..Len(ws) : f[i] = Tok(ws[i]) \/ f[i] = << >>
    BY <1>1
  <1> HIDE DEF f
  <1>3. \A i \in 1..Len(ws) : Plain(f[i])
    BY <1>1, <1>2, PlainTok, PlainEmpty
  <1>4. Plain(FlattenSeq(f))
    BY <1>1, <1>2, <1>3, PlainFlatten
  <1> QED BY <1>4 DEF f, Having

LEMMA PlainGroups ==
  \A s : Plain(s) => /\ Plain(Parens(s)) /\ Plain(Angles(s)) /\ \A ns : Plain(Optional(s, ns))
                     /\ \A n, i : Plain(Initializer(s, n, i))
  <1> SUFFICES ASSUME NEW s, Plain(s)
               PROVE  /\ Plain(Parens(s)) /\ Plain(Angles(s)) /\ \A ns : Plain(Optional(s, ns))
                      /\ \A n, i : Plain(Initializer(s, n, i))
    OBVIOUS
  <1>1. Plain(Parens(s)) /\ Plain(Angles(s))
    BY PlainTok, PlainConcat DEF Parens, Angles
  <1>2. ASSUME NEW ns PROVE Plain(Optional(s, ns))
    BY PlainEmpty DEF Optional
  <1>3. ASSUME NEW n, NEW i PROVE Plain(Initializer(s, n, i))
    BY PlainEmpty DEF Initializer
  <1> QED BY <1>1, <1>2, <1>3

-----------------------------------------------------------------------------
\* The functions of each visitor.

\* The operands that each function reads are there, as NodesAssumption says.
LEMMA OperandCounts ==
  /\ \A c \in {"Conversion", "Type_id", "Label", "Id_expr", "As_type", "Paren_expr",
              "Decltype", "Pointer", "Qualified", "Reference", "Rvalue_reference", "Udt",
              "Throw", "Expr_stmt", "Goto", "Return", "Enumerator"} \cup UnaryKinds :
       OperandsRead(c) = 1
  /\ \A c \in {"Scope_ref", "Template_id", "Member_init", "Array", "Class", "Ptr_to_member",
              "Template", "Labeled_stmt", "Block", "Ctor_body", "If_then", "Switch", "While",
              "Do", "Handler", "Decl", "Typedecl", "Base_type"} \cup BinaryKinds
              \cup (MoreBinaryKinds \ {"Literal", "Conditional", "New"}) : OperandsRead(c) = 2
  /\ \A c \in {"New", "Conditional", "Mapping", "Function", "If_then_else", "For_in", "Alias",
              "Bitfield", "Fundecl", "Named_map"} : OperandsRead(c) = 3
  /\ OperandsRead("For") = 4
  BY DEF OperandsRead, UnaryKinds, BinaryKinds, MoreBinaryKinds

LEMMA NodeSubs ==
  ASSUME NEW n \in Nodes
  PROVE  /\ n.sub \in Seq(Nodes)
         /\ \A c \in Classes[n.kind] : \A i \in 1..OperandsRead(c) :
              n.sub[i] \in Nodes /\ n.sub[i].sub \in Seq(Nodes)
  <1>1. \A m \in Nodes : m.sub \in Seq(Nodes)
    BY NodesAssumption
  <1>2. ASSUME NEW c \in Classes[n.kind], NEW i \in 1..OperandsRead(c) PROVE n.sub[i] \in Nodes
    <2>1. Len(n.sub) >= OperandsRead(c)
      BY NodesAssumption
    <2>2. OperandsRead(c) \in Nat
      BY DEF OperandsRead
    <2>3. i \in 1..Len(n.sub)
      BY <1>1, <2>1, <2>2
    <2> QED BY <1>1, <2>3
  <1> QED BY <1>1, <1>2

\* All of these pieces at once.
LEMMA PlainRules ==
  /\ Plain(<< >>) /\ Plain(Octal) /\ Plain(NeedsNewline) /\ Plain(Raise)
  /\ \A s : Plain(Tok(s))
  /\ \A n \in Nat : Plain(Num(n))
  /\ \A v \in Visitors \ {"Stmt"}, n \in Nodes : Plain(Visit(v, n))
  /\ \A n \in Nodes : \A d : Plain(VisitName(n, d))
  /\ \A v \in Visitors \ {"Stmt"}, ns \in Seq(Nodes) : Plain(Listed(v, ns))
  /\ \A ss : IsSequence(ss) => Plain(Toks(ss))
  /\ \A a, b : Plain(a) /\ Plain(b) => Plain(a \o b)
  /\ \A s : Plain(s) => /\ Plain(Parens(s)) /\ Plain(Angles(s)) /\ \A ns : Plain(Optional(s, ns))
                     /\ \A n, i : Plain(Initializer(s, n, i))
  BY PlainEmpty, PlainItems, PlainTok, PlainListed, PlainToks, PlainConcat, PlainGroups

\* The functions of the visitors of expressions.
LEMMA PlainPostfixItems ==
  ASSUME NEW n \in Nodes, NEW k \in Postfixes \cap Classes[n.kind]
  PROVE  Plain(PostfixItems(k, n))
  <1>1. Postfixes = {"Array_ref", "Dot", "Arrow", "Call", "Datum", "Post_decrement",
              "Post_increment", "Expr_typeid", "Type_typeid",
              "Dynamic_cast", "Static_cast", "Const_cast", "Reinterpret_cast"}
    BY DEF Postfixes, NewStyleCasts
  <1>2. n.sub[1] \in Nodes
    <2>1. 1 \in 1..OperandsRead(k)
      BY <1>1, OperandCounts DEF UnaryKinds, BinaryKinds, MoreBinaryKinds
    <2> QED BY <2>1, NodeSubs
  <1>3. k \in {"Array_ref", "Dot", "Arrow", "Call", "Datum",
                  "Dynamic_cast", "Static_cast", "Const_cast", "Reinterpret_cast"}
        => n.sub[2] \in Nodes /\ n.sub[2].sub \in Seq(Nodes)
    <2> HAVE k \in {"Array_ref", "Dot", "Arrow", "Call", "Datum",
                  "Dynamic_cast", "Static_cast", "Const_cast", "Reinterpret_cast"}
    <2>1. 2 \in 1..OperandsRead(k)
      BY OperandCounts DEF BinaryKinds, MoreBinaryKinds
    <2> QED BY <2>1, NodeSubs
  <1>4. CASE k \in DOMAIN NewStyleCasts
    BY <1>2, <1>3, <1>4, PlainRules DEF PostfixItems, Visitors, CastItems, NewStyleCasts
  <1> QED BY <1>1, <1>2, <1>3, <1>4, PlainRules DEF PostfixItems, Visitors, NewStyleCasts

LEMMA PlainUnaryItems ==
  ASSUME NEW n \in Nodes, NEW k \in Unaries \cap Classes[n.kind]
  PROVE  Plain(UnaryItems(k, n))
  <1>1. Unaries = {"Expr_sizeof", "Type_sizeof", "Unary_plus", "New", "Delete", "Array_delete",
             "Pre_decrement", "Pre_increment", "Address", "Complement", "Deref",
             "Unary_minus", "Not"}
    BY DEF Unaries, PrefixOperators
  <1>2. n.sub[1] \in Nodes /\ n.sub[1].sub \in Seq(Nodes)
    <2>1. 1 \in 1..OperandsRead(k)
      BY <1>1, OperandCounts DEF UnaryKinds
    <2> QED BY <2>1, NodeSubs
  <1>3. CASE k \in DOMAIN PrefixOperators
    <2>1. \A w, x : IsSequence(<< w >>) /\ IsSequence(<< w, x >>)
      <3> TAKE w, x
      <3>1. << w >> \in Seq({w}) /\ << w, x >> \in Seq({w, x})
        OBVIOUS
      <3> QED BY <3>1, SequenceOf
    <2>2. IsSequence(PrefixOperators[k])
      <3>1. PrefixOperators[k] \in {<< "-", "-" >>, << "+", "+" >>, << "&" >>, << "~" >>, << "*" >>,
                                    << "-" >>, << "!" >>}
        BY <1>3 DEF PrefixOperators
      <3> QED BY <2>1, <3>1
    <2>3. UnaryItems(k, n) = UnaryOperation(PrefixOperators[k], n)
      BY <1>3 DEF UnaryItems, PrefixOperators
    <2> QED BY <1>2, <2>2, <2>3, PlainRules DEF UnaryOperation, Visitors
  <1>4. CASE k = "New"
    <2>1. n.sub[2] \in Nodes /\ n.sub[3] \in Nodes /\ n.sub[3].sub \in Seq(Nodes)
      BY <1>4, OperandCounts, NodeSubs
    <2> QED BY <1>2, <1>4, <2>1, PlainRules DEF UnaryItems, Visitors, PrefixOperators
  <1> QED BY <1>1, <1>2, <1>3, <1>4, PlainRules DEF UnaryItems, Visitors, PrefixOperators

\* The i-th operand of n is a node, and so are its own operands.
NodeAt(n, i) == n.sub[i] \in Nodes /\ n.sub[i].sub \in Seq(Nodes)

LEMMA Operands ==
  ASSUME NEW n \in Nodes, NEW k \in Classes[n.kind]
  PROVE  /\ OperandsRead(k) >= 1 => NodeAt(n, 1)
         /\ OperandsRead(k) >= 2 => NodeAt(n, 2)
         /\ OperandsRead(k) >= 3 => NodeAt(n, 3)
         /\ OperandsRead(k) >= 4 => NodeAt(n, 4)
  <1>1. OperandsRead(k) \in Nat
    BY DEF OperandsRead
  <1>2. \A i \in 1..4 : OperandsRead(k) >= i => NodeAt(n, i)
    <2> SUFFICES ASSUME NEW i \in 1..4, OperandsRead(k) >= i PROVE NodeAt(n, i)
      OBVIOUS
    <2>1. i \in 1..OperandsRead(k)
      BY <1>1
    <2> QED BY <2>1, NodeSubs DEF NodeAt
  <1> QED BY <1>2

LEMMA PlainResolution ==
  ASSUME NEW n, n.kind \in NameKinds, NEW d
  PROVE  Plain(PrintResolution(n, d))
  <1> DEFINE i == [do |-> "resolve", node |-> n, decl |-> d]
  <1>1. IsItem(i) /\ i.do \notin {"indent", "newline"} /\ ~NeedsLine(i)
    BY DEF IsItem, NeedsLine
  <1> HIDE DEF i
  <1>2. Plain(<< i >>)
    BY <1>1, PlainOne
  <1> QED BY <1>2, PlainEmpty DEF i, PrintResolution

LEMMA PlainNameItems ==
  ASSUME NEW n \in Nodes, NEW k \in NameKinds \cap Classes[n.kind], n.kind \in NameKinds, NEW d
  PROVE  Plain(NameItems(k, n, d))
  <1>1. Plain(PrintResolution(n, d))
    BY PlainResolution
  <1>2. OpenAngle \in Nat /\ CloseAngle \in Nat
    BY DEF OpenAngle, CloseAngle
  <1>3. k \in {"Identifier", "Operator"} => IsSequence(n.val)
    BY NodesAssumption, SequenceOf
  <1>4. k = "Rname" => n.val[1] \in Nat /\ n.val[2] \in Nat
    BY NodesAssumption
  <1>5. k \in {"Conversion", "Type_id", "Scope_ref", "Template_id"} => NodeAt(n, 1)
    BY OperandCounts, Operands
  <1>6. k \in {"Scope_ref", "Template_id"} => NodeAt(n, 2)
    BY OperandCounts, Operands
  <1> QED BY <1>1, <1>2, <1>3, <1>4, <1>5, <1>6, PlainRules
          DEF NameItems, NameKinds, Visitors, NodeAt

LEMMA PlainCharItems == \A c : Plain(CharItems(c))
  <1> TAKE c
  <1>1. c \in DOMAIN Controls => Controls[c] \in Nat
    BY DEF Controls
  <1> QED BY <1>1, PlainRules DEF CharItems

LEMMA PlainPrimaryItems ==
  ASSUME NEW n \in Nodes, NEW k \in HandledByFunction.Primary \cap Classes[n.kind]
  PROVE  Plain(PrimaryItems(k, n))
  <1>1. k \in {"Label", "Id_expr", "Literal", "As_type", "Phantom", "Paren_expr", "Expr", "Decl"}
    BY DEF HandledByFunction
  <1>2. k \in {"Label", "Id_expr", "As_type", "Paren_expr", "Decl"} => NodeAt(n, 1)
    BY OperandCounts, Operands
  <1>3. CASE k = "Literal"
    <2> DEFINE f == [i \in DOMAIN n.val |-> CharItems(n.val[i])]
    <2>1. Len(n.val) \in Nat /\ DOMAIN n.val = 1..Len(n.val)
      BY <1>3, NodesAssumption
    <2>2. f = [i \in 1..Len(n.val) |-> f[i]] /\ \A i \in 1..Len(n.val) : f[i] = CharItems(n.val[i])
      BY <2>1
    <2> HIDE DEF f
    <2>3. Plain(FlattenSeq(f))
      BY <2>1, <2>2, PlainFlatten, PlainCharItems
    <2> QED BY <1>3, <2>3 DEF f, PrimaryItems
  <1> QED BY <1>1, <1>2, <1>3, PlainRules DEF PrimaryItems, Visitors, NodeAt

\* Both operands of a binary operation are printed by visitors of expressions.
Rows(table) ==
  \A k \in DOMAIN table :
    /\ k \in BinaryKinds \cup (MoreBinaryKinds \ {"Literal", "Conditional", "New"})
    /\ table[k].left \in Visitors \ {"Stmt"} /\ table[k].right \in Visitors \ {"Stmt"}

LEMMA RowsOf ==
  Rows(Selections) /\ Rows(Assignments) /\ \A c \in DOMAIN BinaryTables : Rows(BinaryTables[c])
  <1>1. Rows(Selections)
    BY DEF Rows, Selections, Row, Visitors, BinaryKinds, MoreBinaryKinds
  <1>2. Rows(Multiplicative) /\ Rows(Additive) /\ Rows(Shifts)
    BY DEF Rows, Multiplicative, Additive, Shifts, Row, Visitors, BinaryKinds, MoreBinaryKinds
  <1>3. Rows(Relational) /\ Rows(Equality)
    BY DEF Rows, Relational, Equality, Row, Visitors, BinaryKinds, MoreBinaryKinds
  <1>4. Rows(BitwiseRows.And) /\ Rows(BitwiseRows.Xor) /\ Rows(BitwiseRows.Ior)
    BY DEF Rows, BitwiseRows, Row, Visitors, BinaryKinds, MoreBinaryKinds
  <1>5. Rows(Logical.Land) /\ Rows(Logical.Lor)
    BY DEF Rows, Logical, Row, Visitors, BinaryKinds, MoreBinaryKinds
  <1>6. Rows(Assignments)
    BY DEF Rows, Assignments, Row, Visitors, BinaryKinds, MoreBinaryKinds
  <1> QED BY <1>1, <1>2, <1>3, <1>4, <1>5, <1>6 DEF BinaryTables

LEMMA PlainBinary ==
  ASSUME NEW n \in Nodes, NEW table, Rows(table), NEW k \in DOMAIN table \cap Classes[n.kind]
  PROVE  Plain(BinaryExpression(table[k], n)) /\ Plain(OffsetWithPm(table[k], n))
  <1>1. OperandsRead(k) = 2
    BY OperandCounts DEF Rows
  <1>2. NodeAt(n, 1) /\ NodeAt(n, 2)
    BY <1>1, Operands
  <1>3. table[k].left \in Visitors \ {"Stmt"} /\ table[k].right \in Visitors \ {"Stmt"}
    BY DEF Rows
  <1>4. Plain(Visit(table[k].left, n.sub[1])) /\ Plain(Visit(table[k].right, n.sub[2]))
    BY <1>2, <1>3, PlainRules DEF NodeAt
  <1> QED BY <1>4, PlainRules DEF BinaryExpression, OffsetWithPm

LEMMA PlainMappingItems ==
  ASSUME NEW n \in Nodes, "Mapping" \in Classes[n.kind]
  PROVE  Plain(MappingItems(n))
  <1> DEFINE t == n.sub[3]
  <1>1. NodeAt(n, 1) /\ NodeAt(n, 2) /\ NodeAt(n, 3)
    BY OperandCounts, Operands
  <1>2. t.kind = "Function" => NodeAt(t, 3)
    <2>1. t \in Nodes /\ t.kind \in Kinds
      BY <1>1, NodesAssumption DEF NodeAt, WellFormed
    <2>2. t.kind \in Classes[t.kind]
      BY <2>1 DEF Classes
    <2> QED BY <2>1, <2>2, OperandCounts, Operands
  <1> HIDE DEF t
  <1>3. Plain(Listed("Decl", n.sub[1].sub)) /\ Plain(Visit("Initializer", n.sub[2]))
    BY <1>1, PlainRules DEF NodeAt, Visitors
  <1>4. t.kind = "Function" => Plain(ExceptionSpec(t.sub[3]))
    BY <1>2, PlainRules DEF NodeAt, ExceptionSpec, Visitors
  <1> QED BY <1>3, <1>4, PlainRules DEF MappingItems, t

LEMMA PlainAssignmentItems ==
  ASSUME NEW n \in Nodes, NEW k \in Handles.Assignment \cap Classes[n.kind]
  PROVE  Plain(AssignmentItems(k, n))
  <1>1. k \in {"Throw", "Mapping"} \/ k \in DOMAIN Assignments
    BY DEF Handles, HandledByFunction, HandledByRow, BinaryTables
  <1>2. k = "Throw" => NodeAt(n, 1)
    BY OperandCounts, Operands
  <1>3. k \in DOMAIN Assignments =>
          Plain(BinaryExpression(Assignments[k], n)) /\ k \notin {"Throw", "Mapping"}
    BY RowsOf, PlainBinary DEF Assignments
  <1>4. k = "Mapping" => Plain(MappingItems(n))
    BY PlainMappingItems
  <1> QED BY <1>1, <1>2, <1>3, <1>4, PlainRules DEF AssignmentItems, NodeAt, Visitors

LEMMA PlainConditional ==
  ASSUME NEW n \in Nodes, "Conditional" \in Classes[n.kind]
  PROVE  Plain(ConditionalItems(n))
  <1>1. NodeAt(n, 1) /\ NodeAt(n, 2) /\ NodeAt(n, 3)
    BY OperandCounts, Operands
  <1> QED BY <1>1, PlainRules DEF ConditionalItems, NodeAt, Visitors

LEMMA PlainCast ==
  ASSUME NEW n \in Nodes, NEW op, "Cast" \in Classes[n.kind]
  PROVE  Plain(CastItems(op, n))
  <1>1. NodeAt(n, 1) /\ NodeAt(n, 2)
    BY OperandCounts, Operands DEF BinaryKinds
  <1> QED BY <1>1, PlainRules DEF CastItems, NodeAt, Visitors

\* The pieces that statements are made of.
LEMMA RunsNewline ==
  ASSUME NEW k \in Int, NEW p \in 0..2, NEW q \in 0..1
  PROVE  Runs(NewlineAndIndent(k), k, p, q)
  <1> DEFINE i == [do |-> "newline", by |-> k]
  <1>1. IsItem(i) /\ ~NeedsLine(i) /\ Shift(i) = k /\ LineAfter(i, p) = 1
    BY DEF IsItem, NeedsLine, Shift, LineAfter
  <1> HIDE DEF i
  <1>2. Runs(<< i >>, Shift(i), p, q)
    BY <1>1, RunsOne
  <1> QED BY <1>1, <1>2 DEF i, NewlineAndIndent

\* A statement is visited where a line has begun, or will.
LEMMA RunsStmt ==
  ASSUME NEW n \in Nodes, NEW p \in 1..2, NEW q \in 0..1, q = 1 => n.kind = "Handler"
  PROVE  Runs(Visit("Stmt", n), 0, p, q)
  <1> DEFINE i == [do |-> "visit", as |-> "Stmt", node |-> n, decl |-> NoDecl]
  <1>1. IsItem(i) /\ Shift(i) = 0 /\ q <= LineAfter(i, p)
    <2>1. "Stmt" \in DOMAIN Handles
      BY VisitorsOf DEF Visitors
    <2> QED BY <2>1 DEF IsItem, Shift, LineAfter
  <1> HIDE DEF i
  <1>2. Runs(<< i >>, Shift(i), p, q)
    BY <1>1, RunsOne
  <1> QED BY <1>1, <1>2 DEF i, Visit

\* A sequence that something follows.
LEMMA RunsThen ==
  ASSUME NEW a, NEW b, NEW j \in Int, NEW q \in 0..2, NEW r \in 0..2,
         Runs(a, j, 0, q), Runs(b, 0, q, r)
  PROVE  Runs(a \o b, j, 0, r)
  <1>1. Runs(a \o b, j + 0, 0, r)
    BY RunsConcat
  <1> QED BY <1>1

LEMMA ThenPlain ==
  ASSUME NEW a, NEW b, NEW j \in Int, NEW q \in 0..2, Runs(a, j, 0, q), Plain(b)
  PROVE  Runs(a \o b, j, 0, 0)
  <1>1. Runs(b, 0, q, 0)
    BY RunsWeaken DEF Plain
  <1> QED BY <1>1, RunsThen

LEMMA ThenNewline ==
  ASSUME NEW a, NEW j \in Int, NEW q \in 0..2, Runs(a, j, 0, q), NEW k \in Int
  PROVE  Runs(a \o NewlineAndIndent(k), j + k, 0, 1)
  <1>1. Runs(NewlineAndIndent(k), k, q, 1)
    BY RunsNewline
  <1> QED BY <1>1, RunsConcat

LEMMA RunsIndentation ==
  ASSUME NEW k \in Int, NEW p \in 0..2, NEW q \in {0, 2}, q = 2 => p = 2
  PROVE  Runs(Indentation(k), k, p, q)
  <1> DEFINE i == [do |-> "indent", by |-> k]
  <1>1. IsItem(i) /\ ~NeedsLine(i) /\ Shift(i) = k /\ LineAfter(i, p) = IF p = 2 THEN 2 ELSE 0
    BY DEF IsItem, NeedsLine, Shift, LineAfter
  <1> HIDE DEF i
  <1>2. Runs(<< i >>, k, p, q)
    BY <1>1, RunsOne
  <1> QED BY <1>2 DEF i, Indentation

LEMMA RunsNeedsNewline == ASSUME NEW p \in 0..2 PROVE Runs(NeedsNewline, 0, p, 2)
  <1> DEFINE i == [do |-> "needs_newline"]
  <1>1. IsItem(i) /\ ~NeedsLine(i) /\ Shift(i) = 0 /\ LineAfter(i, p) = 2
    BY DEF IsItem, NeedsLine, Shift, LineAfter
  <1> HIDE DEF i
  <1>2. Runs(<< i >>, 0, p, 2)
    BY <1>1, RunsOne
  <1> QED BY <1>2 DEF i, NeedsNewline

LEMMA ThenIndentation ==
  ASSUME NEW a, NEW j \in Int, NEW q \in 0..2, Runs(a, j, 0, q), NEW k \in Int
  PROVE  /\ Runs(a \o Indentation(k), j + k, 0, 0)
         /\ q = 2 => Runs(a \o Indentation(k), j + k, 0, 2)
  <1>1. Runs(Indentation(k), k, q, 0) /\ (q = 2 => Runs(Indentation(k), k, q, 2))
    BY RunsIndentation
  <1> QED BY <1>1, RunsConcat

LEMMA ThenNeedsNewline ==
  ASSUME NEW a, NEW j \in Int, NEW q \in 0..2, Runs(a, j, 0, q)
  PROVE  Runs(a \o NeedsNewline, j, 0, 2)
  BY RunsNeedsNewline, RunsThen

LEMMA ThenStmt ==
  ASSUME NEW a, NEW j \in Int, NEW q \in 1..2, Runs(a, j, 0, q), NEW n \in Nodes
  PROVE  Runs(a \o Visit("Stmt", n), j, 0, 0)
  <1>1. Runs(Visit("Stmt", n), 0, q, 0)
    BY RunsStmt
  <1> QED BY <1>1, RunsThen

LEMMA PlainUdtItems ==
  ASSUME NEW n \in Nodes, NEW k \in Classes[n.kind], OperandsRead(k) >= 1
  PROVE  Plain(UdtItems(n))
  <1>1. n.sub \in Seq(Nodes) /\ Len(n.sub) >= 1
    <2>1. n.sub \in Seq(Nodes) /\ Len(n.sub) >= OperandsRead(k)
      BY NodesAssumption
    <2>2. OperandsRead(k) \in Nat
      BY DEF OperandsRead
    <2> QED BY <2>1, <2>2
  <1>2. n.sub[Len(n.sub)] \in Nodes
    BY <1>1
  <1> DEFINE x == n.sub[Len(n.sub)]
  <1>3. Plain(Visit("Expr", x))
    BY <1>2, PlainRules DEF Visitors
  <1> HIDE DEF x
  <1> DEFINE a == Tok(" ") \o Tok("{")
             b == a \o NewlineAndIndent(3)
             c == b \o Visit("Expr", x)
             d == c \o NewlineAndIndent(-3)
  <1>4. Runs(a, 0, 0, 0)
    BY PlainRules DEF Plain
  <1>5. Runs(b, 0 + 3, 0, 1)
    <2> HIDE DEF a
    <2> QED BY <1>4, ThenNewline
  <1>6. Runs(c, 0 + 3, 0, 0)
    <2> HIDE DEF b
    <2> QED BY <1>3, <1>5, ThenPlain
  <1>7. Runs(d, (0 + 3) + (-3), 0, 1)
    <2> HIDE DEF c
    <2> QED BY <1>6, ThenNewline
  <1> HIDE DEF d
  <1>8. Plain(d)
    BY <1>7, RunsWeaken DEF Plain
  <1>9. Plain(d \o Tok("}") \o NeedsNewline)
    BY <1>8, PlainRules
  <1> QED BY <1>9 DEF UdtItems, d, x

\* xpr::Expr leaves a statement to xpr::Stmt as it is, on no line of its own.
LEMMA RunsExprItems ==
  ASSUME NEW n \in Nodes, NEW k \in HandledByFunction.Expr \cap Classes[n.kind]
  PROVE  Runs(ExprItems(k, n), 0, IF k = "Stmt" THEN 1 ELSE 0, 0)
  <1>1. k \in {"Comma", "Scope", "Expr_list", "Member_init", "Type", "Expr", "Stmt", "Decl"}
    BY DEF HandledByFunction
  <1>2. k \in {"Comma", "Member_init", "Decl"} => NodeAt(n, 1) /\ NodeAt(n, 2)
    BY OperandCounts, Operands DEF BinaryKinds
  <1>3. n.sub \in Seq(Nodes)
    BY NodesAssumption
  <1>4. CASE k = "Stmt"
    BY <1>4, RunsStmt DEF ExprItems
  <1>5. CASE k = "Scope"
    <2> DEFINE f == [i \in DOMAIN n.sub |->
                     Visit("Decl", n.sub[i]) \o Tok(";") \o NewlineAndIndent(0)]
    <2>1. /\ Len(n.sub) \in Nat /\ DOMAIN n.sub = 1..Len(n.sub)
          /\ \A i \in 1..Len(n.sub) : n.sub[i] \in Nodes
      BY <1>3
    <2>2. /\ f = [i \in 1..Len(n.sub) |-> f[i]]
          /\ \A i \in 1..Len(n.sub) :
               f[i] = Visit("Decl", n.sub[i]) \o Tok(";") \o NewlineAndIndent(0)
      BY <2>1
    <2> HIDE DEF f
    <2>3. Plain(NewlineAndIndent(0))
      BY RunsNewline DEF Plain
    <2>4. ASSUME NEW i \in 1..Len(n.sub) PROVE Plain(f[i])
      <3>1. Plain(Visit("Decl", n.sub[i]))
        BY <2>1, PlainRules DEF Visitors
      <3>2. Plain(Visit("Decl", n.sub[i]) \o Tok(";") \o NewlineAndIndent(0))
        BY <2>3, <3>1, PlainRules
      <3> QED BY <2>2, <3>2
    <2>5. Plain(FlattenSeq(f))
      BY <2>1, <2>2, <2>4, PlainFlatten
    <2> QED BY <1>5, <2>5 DEF f, ExprItems, Plain
  <1>6. CASE k \notin {"Stmt", "Scope"}
    <2>1. Plain(ExprItems(k, n))
      BY <1>1, <1>2, <1>3, <1>6, PlainRules DEF ExprItems, NodeAt, Visitors
    <2> QED BY <1>6, <2>1 DEF Plain
  <1> QED BY <1>4, <1>5, <1>6

LEMMA PlainWords ==
  \A s : Plain(Qualifiers(s)) /\ \A n : Plain(Specifiers(n))
  <1>1. ASSUME NEW s PROVE Plain(Qualifiers(s))
    <2>1. << "const", "volatile", "restrict" >> \in Seq({"const", "volatile", "restrict"})
      OBVIOUS
    <2> QED BY <2>1, SequenceOf, PlainHaving DEF Qualifiers
  <1>2. ASSUME NEW n PROVE Plain(Specifiers(n))
    <2> DEFINE W == << "export", "auto", "register", "static", "extern", "mutable",
           "inline", "virtual",
           "explicit", "friend", "public", "protected", "private" >>
    <2>1. W \in Seq({"export", "auto", "register", "static", "extern", "mutable",
           "inline", "virtual",
           "explicit", "friend", "public", "protected", "private"})
      OBVIOUS
    <2> HIDE DEF W
    <2>2. Plain(Having(W, Tail(n.val)))
      BY <2>1, SequenceOf, PlainHaving
    <2> QED BY <2>2 DEF Specifiers, W
  <1> QED BY <1>1, <1>2

LEMMA PlainTypeExprItems ==
  ASSUME NEW n \in Nodes, NEW k \in HandledByFunction.TypeExpr \cap Classes[n.kind]
  PROVE  Plain(TypeExprItems(k, n))
  <1>1. k \in {"Array", "As_type", "Class", "Decltype", "Function", "Pointer", "Ptr_to_member",
                 "Qualified", "Reference", "Rvalue_reference", "Template", "Udt"}
    BY DEF HandledByFunction
  <1>2. NodeAt(n, 1)
    BY <1>1, OperandCounts, Operands
  <1>3. k \in {"Array", "Class", "Ptr_to_member", "Template", "Function"} => NodeAt(n, 2)
    BY OperandCounts, Operands
  <1>4. k = "Function" => NodeAt(n, 3)
    BY OperandCounts, Operands
  <1>5. k \in {"Class", "Udt"} => Plain(UdtItems(n))
    BY OperandCounts, PlainUdtItems
  <1>6. k = "Class" => Plain(BaseClasses(n.sub[2].sub))
    BY <1>3, PlainRules DEF BaseClasses, NodeAt, Visitors
  <1>7. k = "Function" => Plain(ExceptionSpec(n.sub[3]))
    BY <1>4, PlainRules DEF ExceptionSpec, NodeAt, Visitors
  <1> QED BY <1>1, <1>2, <1>3, <1>4, <1>5, <1>6, <1>7, PlainRules, PlainWords
          DEF TypeExprItems, NodeAt, Visitors

LEMMA PlainTypeItems ==
  ASSUME NEW n \in Nodes, NEW k \in HandledByFunction.Type \cap Classes[n.kind]
  PROVE  Plain(TypeItems(k, n))
  <1>1. k \in SpelledTypes \cup {"As_type", "Type", "Product", "Sum"}
    BY DEF HandledByFunction
  <1>2. k = "As_type" => NodeAt(n, 1)
    BY OperandCounts, Operands
  <1>3. k = "Type" => TypeName(n) \in Nodes
    BY NodesAssumption
  <1>4. n.sub \in Seq(Nodes)
    BY NodesAssumption
  <1> QED BY <1>1, <1>2, <1>3, <1>4, PlainRules DEF TypeItems, SpelledTypes, NodeAt, Visitors

LEMMA RunsInitializerItems ==
  ASSUME NEW n \in Nodes, NEW k \in HandledByFunction.Initializer \cap Classes[n.kind]
  PROVE  Runs(InitializerItems(k, n), 0, 1, 0)
  <1>1. k \in {"Type", "Expr", "Stmt"}
    BY DEF HandledByFunction
  <1>2. k = "Stmt" => Runs(InitializerItems(k, n), 0, 1, 0)
    BY RunsStmt DEF InitializerItems
  <1>3. k # "Stmt" => Plain(InitializerItems(k, n))
    BY <1>1, PlainRules DEF InitializerItems, Visitors
  <1> QED BY <1>2, <1>3, RunsWeaken DEF Plain

LEMMA PlainKeywords == Plain(End) /\ \A w : Plain(Keyword(w))
  BY PlainRules DEF End, Keyword

\* Statements: what each raises the indentation by, it lowers it by, and
\* a statement in it is preceded by the end of a line.
LEMMA PlainIfThenItems ==
  ASSUME NEW n \in Nodes, NodeAt(n, 1), NodeAt(n, 2)
  PROVE  Plain(IfThenItems(n))
  <1> DEFINE a == Keyword("if") \o Parens(Visit("Expr", n.sub[1]))
             b == a \o NewlineAndIndent(3)
             c == b \o Visit("Stmt", n.sub[2])
             d == c \o NewlineAndIndent(-3)
             e == d \o Tok("else")
             f == e \o NewlineAndIndent(3)
             g == f \o Indentation(-3)
             h == g \o NeedsNewline
  <1>1. Runs(a, 0, 0, 0)
    <2>1. Plain(a)
      BY PlainRules, PlainKeywords DEF NodeAt, Visitors
    <2> QED BY <2>1 DEF Plain
  <1>2. Runs(b, 3, 0, 1)
    <2> HIDE DEF a
    <2> QED BY <1>1, ThenNewline
  <1>3. Runs(c, 3, 0, 0)
    <2> HIDE DEF b
    <2> QED BY <1>2, ThenStmt DEF NodeAt
  <1>4. Runs(d, 0, 0, 1)
    <2> HIDE DEF c
    <2> QED BY <1>3, ThenNewline
  <1>5. Runs(e, 0, 0, 0)
    <2> HIDE DEF d
    <2> QED BY <1>4, ThenPlain, PlainRules, PlainKeywords DEF NodeAt, Visitors
  <1>6. Runs(f, 3, 0, 1)
    <2> HIDE DEF e
    <2> QED BY <1>5, ThenNewline
  <1>7. Runs(g, 0, 0, 0)
    <2> HIDE DEF f
    <2> QED BY <1>6, ThenIndentation
  <1>8. Runs(h, 0, 0, 2)
    <2> HIDE DEF g
    <2> QED BY <1>7, ThenNeedsNewline
  <1> HIDE DEF h
  <1>9. Plain(h)
    BY <1>8, RunsWeaken DEF Plain
  <1> QED BY <1>9 DEF IfThenItems, h

LEMMA PlainIfThenElseItems ==
  ASSUME NEW n \in Nodes, NodeAt(n, 1), NodeAt(n, 2), NodeAt(n, 3)
  PROVE  Plain(IfThenElseItems(n))
  <1> DEFINE a == Keyword("if") \o Parens(Visit("Expr", n.sub[1]))
             b == a \o NewlineAndIndent(3)
             c == b \o Visit("Stmt", n.sub[2])
             d == c \o NewlineAndIndent(-3)
             e == d \o Tok("else")
             f == e \o NewlineAndIndent(3)
             g == f \o Visit("Stmt", n.sub[3])
             h == g \o Indentation(-3)
             i == h \o NeedsNewline
  <1>1. Runs(a, 0, 0, 0)
    <2>1. Plain(a)
      BY PlainRules, PlainKeywords DEF NodeAt, Visitors
    <2> QED BY <2>1 DEF Plain
  <1>2. Runs(b, 3, 0, 1)
    <2> HIDE DEF a
    <2> QED BY <1>1, ThenNewline
  <1>3. Runs(c, 3, 0, 0)
    <2> HIDE DEF b
    <2> QED BY <1>2, ThenStmt DEF NodeAt
  <1>4. Runs(d, 0, 0, 1)
    <2> HIDE DEF c
    <2> QED BY <1>3, ThenNewline
  <1>5. Runs(e, 0, 0, 0)
    <2> HIDE DEF d
    <2> QED BY <1>4, ThenPlain, PlainRules, PlainKeywords DEF NodeAt, Visitors
  <1>6. Runs(f, 3, 0, 1)
    <2> HIDE DEF e
    <2> QED BY <1>5, ThenNewline
  <1>7. Runs(g, 3, 0, 0)
    <2> HIDE DEF f
    <2> QED BY <1>6, ThenStmt DEF NodeAt
  <1>8. Runs(h, 0, 0, 0)
    <2> HIDE DEF g
    <2> QED BY <1>7, ThenIndentation
  <1>9. Runs(i, 0, 0, 2)
    <2> HIDE DEF h
    <2> QED BY <1>8, ThenNeedsNewline
  <1> HIDE DEF i
  <1>10. Plain(i)
    BY <1>9, RunsWeaken DEF Plain
  <1> QED BY <1>10 DEF IfThenElseItems, i

LEMMA PlainSwitchItems ==
  ASSUME NEW n \in Nodes, NodeAt(n, 1), NodeAt(n, 2)
  PROVE  Plain(SwitchItems(n))
  <1> DEFINE a == Keyword("switch") \o Parens(Visit("Expr", n.sub[1]))
             b == a \o NewlineAndIndent(3)
             c == b \o Visit("Stmt", n.sub[2])
             d == c \o NewlineAndIndent(-3)
  <1>1. Runs(a, 0, 0, 0)
    <2>1. Plain(a)
      BY PlainRules, PlainKeywords DEF NodeAt, Visitors
    <2> QED BY <2>1 DEF Plain
  <1>2. Runs(b, 3, 0, 1)
    <2> HIDE DEF a
    <2> QED BY <1>1, ThenNewline
  <1>3. Runs(c, 3, 0, 0)
    <2> HIDE DEF b
    <2> QED BY <1>2, ThenStmt DEF NodeAt
  <1>4. Runs(d, 0, 0, 1)
    <2> HIDE DEF c
    <2> QED BY <1>3, ThenNewline
  <1> HIDE DEF d
  <1>5. Plain(d)
    BY <1>4, RunsWeaken DEF Plain
  <1> QED BY <1>5 DEF SwitchItems, d

LEMMA PlainWhileItems ==
  ASSUME NEW n \in Nodes, NodeAt(n, 1), NodeAt(n, 2)
  PROVE  Plain(WhileItems(n))
  <1> DEFINE a == Keyword("while") \o Parens(Visit("Expr", n.sub[1]))
             b == a \o NewlineAndIndent(3)
             c == b \o Visit("Stmt", n.sub[2])
             d == c \o NeedsNewline
             e == d \o Indentation(-3)
  <1>1. Runs(a, 0, 0, 0)
    <2>1. Plain(a)
      BY PlainRules, PlainKeywords DEF NodeAt, Visitors
    <2> QED BY <2>1 DEF Plain
  <1>2. Runs(b, 3, 0, 1)
    <2> HIDE DEF a
    <2> QED BY <1>1, ThenNewline
  <1>3. Runs(c, 3, 0, 0)
    <2> HIDE DEF b
    <2> QED BY <1>2, ThenStmt DEF NodeAt
  <1>4. Runs(d, 3, 0, 2)
    <2> HIDE DEF c
    <2> QED BY <1>3, ThenNeedsNewline
  <1>5. Runs(e, 0, 0, 2)
    <2> HIDE DEF d
    <2> QED BY <1>4, ThenIndentation
  <1> HIDE DEF e
  <1>6. Plain(e)
    BY <1>5, RunsWeaken DEF Plain
  <1> QED BY <1>6 DEF WhileItems, e

LEMMA PlainDoItems ==
  ASSUME NEW n \in Nodes, NodeAt(n, 1), NodeAt(n, 2)
  PROVE  Plain(DoItems(n))
  <1> DEFINE a == Tok("do")
             b == a \o NewlineAndIndent(3)
             c == b \o Visit("Stmt", n.sub[2])
             d == c \o NewlineAndIndent(-3)
             e == d \o Keyword("while")
             f == e \o Parens(Visit("Expr", n.sub[1]))
             g == f \o End
  <1>1. Runs(a, 0, 0, 0)
    <2>1. Plain(a)
      BY PlainRules, PlainKeywords DEF NodeAt, Visitors
    <2> QED BY <2>1 DEF Plain
  <1>2. Runs(b, 3, 0, 1)
    <2> HIDE DEF a
    <2> QED BY <1>1, ThenNewline
  <1>3. Runs(c, 3, 0, 0)
    <2> HIDE DEF b
    <2> QED BY <1>2, ThenStmt DEF NodeAt
  <1>4. Runs(d, 0, 0, 1)
    <2> HIDE DEF c
    <2> QED BY <1>3, ThenNewline
  <1>5. Runs(e, 0, 0, 0)
    <2> HIDE DEF d
    <2> QED BY <1>4, ThenPlain, PlainRules, PlainKeywords DEF NodeAt, Visitors
  <1>6. Runs(f, 0, 0, 0)
    <2> HIDE DEF e
    <2> QED BY <1>5, ThenPlain, PlainRules, PlainKeywords DEF NodeAt, Visitors
  <1>7. Runs(g, 0, 0, 0)
    <2> HIDE DEF f
    <2> QED BY <1>6, ThenPlain, PlainRules, PlainKeywords DEF NodeAt, Visitors
  <1> HIDE DEF g
  <1> QED BY <1>7 DEF DoItems, Plain, g

\* A handler leaves a line begun, on which the next can start.
LEMMA PlainHandlerItems ==
  ASSUME NEW n \in Nodes, NodeAt(n, 1), NodeAt(n, 2)
  PROVE  Runs(HandlerItems(n), 0, 0, 1)
  <1> DEFINE a == Keyword("catch") \o Parens(IF IsEllipsisHandler(n) THEN Tok("...")
                                           ELSE Visit("Decl", n.sub[1]))
             b == a \o NewlineAndIndent(3)
             c == b \o Visit("Stmt", n.sub[2])
             d == c \o NewlineAndIndent(-3)
  <1>1. Runs(a, 0, 0, 0)
    <2>1. Plain(a)
      BY PlainRules, PlainKeywords DEF NodeAt, Visitors
    <2> QED BY <2>1 DEF Plain
  <1>2. Runs(b, 3, 0, 1)
    <2> HIDE DEF a
    <2> QED BY <1>1, ThenNewline
  <1>3. Runs(c, 3, 0, 0)
    <2> HIDE DEF b
    <2> QED BY <1>2, ThenStmt DEF NodeAt
  <1>4. Runs(d, 0, 0, 1)
    <2> HIDE DEF c
    <2> QED BY <1>3, ThenNewline
  <1> HIDE DEF d
  <1> QED BY <1>4 DEF HandlerItems, d

LEMMA PlainLoopBody == ASSUME NEW m \in Nodes PROVE Plain(LoopBody(m))
  <1> DEFINE a == Tok(")")
             b == a \o NewlineAndIndent(3)
             c == b \o Visit("Stmt", m)
             d == c \o Indentation(-3)
  <1>1. Runs(a, 0, 0, 0)
    BY PlainRules DEF Plain
  <1>2. Runs(b, 3, 0, 1)
    <2> HIDE DEF a
    <2> QED BY <1>1, ThenNewline
  <1>3. Runs(c, 3, 0, 0)
    <2> HIDE DEF b
    <2> QED BY <1>2, ThenStmt
  <1>4. Runs(d, 0, 0, 0)
    <2> HIDE DEF c
    <2> QED BY <1>3, ThenIndentation
  <1> HIDE DEF d
  <1>5. Plain(d \o NeedsNewline)
    BY <1>4, PlainRules DEF Plain
  <1> QED BY <1>5 DEF LoopBody, d

\* Whether a newline is due or not, a label is one step to the left.
LEMMA PlainLabeledItems ==
  ASSUME NEW n \in Nodes, NodeAt(n, 1), NodeAt(n, 2)
  PROVE  Plain(LabeledItems(n))
  <1> DEFINE a == IF newline THEN NewlineAndIndent(-3) ELSE Indentation(-3)
             b == a \o Keyword("label") \o Visit("Expr", n.sub[1]) \o Tok(":")
             c == b \o Indentation(3)
             d == c \o NeedsNewline
             e == d \o Visit("Stmt", n.sub[2])
  <1>1. Runs(a, -3, 0, 0)
    <2>1. Runs(NewlineAndIndent(-3), -3, 0, 0)
      BY RunsNewline
    <2>2. Runs(Indentation(-3), -3, 0, 0)
      BY RunsIndentation
    <2> QED BY <2>1, <2>2
  <1>2. Runs(b, -3, 0, 0)
    <2> HIDE DEF a
    <2>1. Plain(Visit("Expr", n.sub[1])) /\ Plain(Keyword("label")) /\ Plain(Tok(":"))
      BY PlainRules, PlainKeywords DEF NodeAt, Visitors
    <2>2. Runs(a \o Keyword("label"), -3, 0, 0)
      BY <1>1, <2>1, ThenPlain
    <2>3. Runs((a \o Keyword("label")) \o Visit("Expr", n.sub[1]), -3, 0, 0)
      BY <2>1, <2>2, ThenPlain
    <2> QED BY <2>1, <2>3, ThenPlain
  <1>3. Runs(c, 0, 0, 0)
    <2> HIDE DEF b
    <2> QED BY <1>2, ThenIndentation
  <1>4. Runs(d, 0, 0, 2)
    <2> HIDE DEF c
    <2> QED BY <1>3, ThenNeedsNewline
  <1>5. Runs(e, 0, 0, 0)
    <2> HIDE DEF d
    <2> QED BY <1>4, ThenStmt DEF NodeAt
  <1> HIDE DEF e
  <1>6. Plain(e \o NeedsNewline)
    BY <1>5, PlainRules DEF Plain
  <1> QED BY <1>6 DEF LabeledItems, e

\* The statements of a block, each of which ends its line, and its handlers,
\* each of which leaves a line begun.
LEMMA RunsBlockParts ==
  ASSUME NEW ns \in Seq(Nodes)
  PROVE  /\ Runs(FlattenSeq([i \in DOMAIN ns |-> Visit("Stmt", ns[i]) \o NeedsNewline]), 0, 2, 2)
         /\ {h.kind : h \in ToSet(ns)} \subseteq {"Handler"} =>
              Runs(FlattenSeq([i \in DOMAIN ns |-> Visit("Stmt", ns[i])]), 0, 2, 1)
  <1>1. Len(ns) \in Nat /\ DOMAIN ns = 1..Len(ns) /\ \A i \in 1..Len(ns) : ns[i] \in Nodes
    OBVIOUS
  <1>2. Runs(FlattenSeq([i \in DOMAIN ns |-> Visit("Stmt", ns[i]) \o NeedsNewline]), 0, 2, 2)
    <2> DEFINE f == [i \in DOMAIN ns |-> Visit("Stmt", ns[i]) \o NeedsNewline]
    <2>1. /\ f = [i \in 1..Len(ns) |-> f[i]]
          /\ \A i \in 1..Len(ns) : f[i] = Visit("Stmt", ns[i]) \o NeedsNewline
      BY <1>1
    <2> HIDE DEF f
    <2>2. ASSUME NEW i \in 1..Len(ns) PROVE Runs(f[i], 0, 2, 2)
      <3>1. Runs(Visit("Stmt", ns[i]), 0, 2, 0)
        BY <1>1, RunsStmt
      <3>2. Runs(NeedsNewline, 0, 0, 2)
        BY RunsNeedsNewline
      <3>3. Runs(Visit("Stmt", ns[i]) \o NeedsNewline, 0, 2, 2)
        BY <3>1, <3>2, RunsConcat
      <3>4. f[i] = Visit("Stmt", ns[i]) \o NeedsNewline
        BY <2>1
      <3> QED BY ONLY <3>3, <3>4
    <2>3. Runs(FlattenSeq(f), 0, 2, 2)
      BY <1>1, <2>1, <2>2, RunsFlatten
    <2> QED BY <2>3 DEF f
  <1>3. ASSUME {h.kind : h \in ToSet(ns)} \subseteq {"Handler"}
        PROVE  Runs(FlattenSeq([i \in DOMAIN ns |-> Visit("Stmt", ns[i])]), 0, 2, 1)
    <2> DEFINE f == [i \in DOMAIN ns |-> Visit("Stmt", ns[i])]
    <2>1. f = [i \in 1..Len(ns) |-> f[i]] /\ \A i \in 1..Len(ns) : f[i] = Visit("Stmt", ns[i])
      BY <1>1
    <2> HIDE DEF f
    <2>2. \A i \in 1..Len(ns) : ns[i].kind = "Handler"
      BY <1>1, <1>3 DEF ToSet
    <2>3. \A i \in 1..Len(ns) : Runs(f[i], 0, 1, 1)
      BY <1>1, <2>1, <2>2, RunsStmt
    <2>4. Runs(FlattenSeq(f), 0, 1, 1)
      BY <1>1, <2>1, <2>3, RunsFlatten
    <2>5. Runs(FlattenSeq(f), 0, 2, 1)
      BY <2>4, RunsWeaken
    <2> QED BY <2>5 DEF f
  <1> QED BY <1>2, <1>3

LEMMA PlainBlockItems ==
  ASSUME NEW n \in Nodes, NodeAt(n, 1), NodeAt(n, 2),
         {h.kind : h \in ToSet(n.sub[2].sub)} \subseteq {"Handler"}
  PROVE  Plain(BlockItems(n))
  <1> DEFINE body == n.sub[1].sub
             handlers == n.sub[2].sub
             f == FlattenSeq([i \in DOMAIN body |-> Visit("Stmt", body[i]) \o NeedsNewline])
             g == FlattenSeq([i \in DOMAIN handlers |-> Visit("Stmt", handlers[i])])
             a == Tok("{") \o NeedsNewline
             b == a \o Indentation(3)
             c == b \o f
             d == c \o NewlineAndIndent(-3)
             e == d \o Tok("}") \o NeedsNewline
  <1>1. Runs(f, 0, 2, 2) /\ Runs(g, 0, 2, 1)
    BY RunsBlockParts DEF NodeAt
  <1> HIDE DEF f, g
  <1>2. Runs(a, 0, 0, 2)
    <2> DEFINE t == Tok("{")
    <2>1. Runs(t, 0, 0, 0)
      BY PlainRules DEF Plain
    <2> HIDE DEF t
    <2>2. Runs(t \o NeedsNewline, 0, 0, 2)
      BY <2>1, ThenNeedsNewline
    <2> QED BY <2>2 DEF t
  <1>3. Runs(b, 3, 0, 2)
    <2> HIDE DEF a
    <2> QED BY <1>2, ThenIndentation
  <1>4. Runs(c, 3, 0, 2)
    <2> HIDE DEF b
    <2> QED BY <1>1, <1>3, RunsThen
  <1>5. Runs(d, 0, 0, 1)
    <2> HIDE DEF c
    <2> QED BY <1>4, ThenNewline
  <1>6. Runs(e, 0, 0, 2)
    <2> HIDE DEF d
    <2> DEFINE t == Tok("}")
    <2>1. Plain(t)
      BY PlainRules
    <2> HIDE DEF t
    <2>2. Runs(d \o t, 0, 0, 0)
      BY <1>5, <2>1, ThenPlain
    <2>3. Runs((d \o t) \o NeedsNewline, 0, 0, 2)
      BY <2>2, ThenNeedsNewline
    <2> QED BY <2>3 DEF t
  <1>7. Runs(e \o g, 0, 0, 1)
    <2> HIDE DEF e
    <2> QED BY <1>1, <1>6, RunsThen
  <1> DEFINE all == e \o g
  <1>8. Plain(all)
    <2> HIDE DEF e
    <2> QED BY <1>7, RunsWeaken DEF Plain
  <1>9. all = BlockItems(n)
    BY DEF BlockItems, f, g
  <1> QED BY <1>8, <1>9

LEMMA PlainCtorBodyItems ==
  ASSUME NEW n \in Nodes, NodeAt(n, 1), NodeAt(n, 2)
  PROVE  Plain(CtorBodyItems(n))
  <1> DEFINE inits == n.sub[1].sub
             a == Optional(Tok(" : ") \o Listed("Expr", inits) \o NeedsNewline, inits)
             b == a \o NeedsNewline
             c == b \o Visit("Stmt", n.sub[2])
  <1>1. Runs(a, 0, 0, 0)
    <2>1. Plain(a)
      BY PlainRules DEF NodeAt, Visitors
    <2> QED BY <2>1 DEF Plain
  <1>2. Runs(b, 0, 0, 2)
    <2> HIDE DEF a
    <2> QED BY <1>1, ThenNeedsNewline
  <1>3. Runs(c, 0, 0, 0)
    <2> HIDE DEF b
    <2> QED BY <1>2, ThenStmt DEF NodeAt
  <1> QED BY <1>3 DEF CtorBodyItems, Plain

\* All functions of xpr::Stmt.
LEMMA PlainStmtItems ==
  ASSUME NEW n \in Nodes, NEW k \in HandledByFunction.Stmt \cap Classes[n.kind]
  PROVE  /\ Plain(StmtItems(k, n))
         /\ k = "Handler" => Runs(StmtItems(k, n), 0, 0, 1)
  <1>1. k \in {"Labeled_stmt", "Block", "Ctor_body", "Expr_stmt", "If_then", "If_then_else",
               "Switch", "While", "Do", "For", "For_in", "Break", "Continue", "Goto", "Return",
               "Handler", "Decl"}
    BY DEF HandledByFunction, StmtKinds
  <1>2. k \notin {"Break", "Continue", "Decl"} => NodeAt(n, 1)
    BY <1>1, OperandCounts, Operands
  <1>3. k \notin {"Break", "Continue", "Decl", "Expr_stmt", "Goto", "Return"} => NodeAt(n, 2)
    BY <1>1, OperandCounts, Operands
  <1>4. k \in {"If_then_else", "For", "For_in"} => NodeAt(n, 3)
    BY OperandCounts, Operands
  <1>5. k = "For" => NodeAt(n, 4)
    BY OperandCounts, Operands
  <1>6. k = "Labeled_stmt" => Plain(LabeledItems(n))
    BY <1>2, <1>3, PlainLabeledItems
  <1>7. k = "Block" => Plain(BlockItems(n))
    <2> HAVE k = "Block"
    <2>1. {h.kind : h \in ToSet(n.sub[2].sub)} \subseteq {"Handler"}
      BY NodesAssumption
    <2> QED BY <1>2, <1>3, <2>1, PlainBlockItems
  <1>8. k = "Ctor_body" => Plain(CtorBodyItems(n))
    BY <1>2, <1>3, PlainCtorBodyItems
  <1>9. /\ k = "If_then" => Plain(IfThenItems(n))
        /\ k = "If_then_else" => Plain(IfThenElseItems(n))
    BY <1>2, <1>3, <1>4, PlainIfThenItems, PlainIfThenElseItems
  <1>10. /\ k = "Switch" => Plain(SwitchItems(n))
         /\ k = "While" => Plain(WhileItems(n))
         /\ k = "Do" => Plain(DoItems(n))
    BY <1>2, <1>3, PlainSwitchItems, PlainWhileItems, PlainDoItems
  <1>11. k = "For" => Plain(ForItems(n))
    <2> HAVE k = "For"
    <2>1. Plain(LoopBody(n.sub[4]))
      BY <1>5, PlainLoopBody DEF NodeAt
    <2> QED BY <1>2, <1>3, <1>4, <2>1, PlainRules DEF ForItems, NodeAt, Visitors
  <1>12. k = "For_in" => Plain(ForInItems(n))
    <2> HAVE k = "For_in"
    <2>1. Plain(LoopBody(n.sub[3]))
      BY <1>4, PlainLoopBody DEF NodeAt
    <2> QED BY <1>2, <1>3, <2>1, PlainRules DEF ForInItems, NodeAt, Visitors
  <1>13. k = "Expr_stmt" => Plain(ExprStmtItems(n))
    BY <1>2, PlainRules, PlainKeywords DEF ExprStmtItems, NodeAt, Visitors
  <1>14. k = "Handler" => Runs(HandlerItems(n), 0, 0, 1) /\ Plain(HandlerItems(n))
    BY <1>2, <1>3, PlainHandlerItems, RunsWeaken DEF Plain
  <1>15. k \in {"Break", "Continue", "Goto", "Return", "Decl"} => Plain(StmtItems(k, n))
    BY <1>2, PlainRules, PlainKeywords DEF StmtItems, NodeAt, Visitors
  <1>16. k \in {"Labeled_stmt", "Block", "Ctor_body", "If_then", "If_then_else"} =>
           Plain(StmtItems(k, n))
    BY <1>6, <1>7, <1>8, <1>9 DEF StmtItems
  <1>17. k \in {"Switch", "While", "Do", "For", "For_in", "Expr_stmt"} => Plain(StmtItems(k, n))
    BY <1>10, <1>11, <1>12, <1>13 DEF StmtItems
  <1>18. k = "Handler" => Runs(StmtItems(k, n), 0, 0, 1) /\ Plain(StmtItems(k, n))
    BY <1>14 DEF StmtItems
  <1> QED BY <1>1, <1>15, <1>16, <1>17, <1>18

LEMMA LastNode ==
  ASSUME NEW n \in Nodes, NEW k \in Classes[n.kind], OperandsRead(k) >= 1
  PROVE  Last(n.sub) \in Nodes
  <1>1. n.sub \in Seq(Nodes) /\ Len(n.sub) >= OperandsRead(k) /\ OperandsRead(k) \in Nat
    BY NodesAssumption DEF OperandsRead
  <1>2. Len(n.sub) \in 1..Len(n.sub)
    BY <1>1
  <1> QED BY <1>1, <1>2 DEF Last

\* The functions of xpr::Decl.
LEMMA PlainFundeclItems ==
  ASSUME NEW n \in Nodes, "Fundecl" \in Classes[n.kind]
  PROVE  Plain(FundeclItems(n))
  <1> DEFINE t == n.sub[2]
             m == Last(n.sub)
             type == IF t.kind = "Function" THEN Visit("Type", t.sub[2]) ELSE << >>
             body == NeedsNewline \o Visit("Stmt", m)
  <1>1. NodeAt(n, 1) /\ NodeAt(n, 2) /\ NodeAt(n, 3) /\ m \in Nodes
    BY OperandCounts, Operands, LastNode
  <1>2. Plain(type)
    <2>1. CASE t.kind = "Function"
      <3>1. t \in Nodes /\ t.kind \in Kinds
        BY <1>1, NodesAssumption DEF NodeAt, WellFormed
      <3>2. t.kind \in Classes[t.kind]
        BY <3>1 DEF Classes
      <3>3. NodeAt(t, 2)
        BY <2>1, <3>1, <3>2, OperandCounts, Operands
      <3> HIDE DEF t
      <3>4. Plain(Visit("Type", t.sub[2]))
        BY <3>3, PlainRules DEF NodeAt, Visitors
      <3> QED BY <2>1, <3>4
    <2>2. CASE t.kind # "Function"
      BY <2>2, PlainRules
    <2> QED BY <2>1, <2>2
  <1> HIDE DEF m
  <1>3. Plain(body)
    <2>1. Runs(NeedsNewline, 0, 0, 2)
      BY RunsNeedsNewline
    <2> QED BY <1>1, <2>1, ThenStmt DEF Plain
  <1> HIDE DEF type, body
  <1>4. Plain(DeclName(n)) /\ Plain(Listed("Decl", n.sub[3].sub))
    BY <1>1, PlainRules DEF DeclName, NodeAt, Visitors
  <1>5. Plain(DeclName(n) \o Tok(" : ") \o Parens(Listed("Decl", n.sub[3].sub)) \o type
                \o Initializer(body, n, 3))
    BY <1>2, <1>3, <1>4, PlainRules
  <1> QED BY <1>5 DEF FundeclItems, m, type, body

LEMMA PlainDeclItems ==
  ASSUME NEW n \in Nodes, NEW k \in HandledByFunction.Decl \cap Classes[n.kind]
  PROVE  Plain(DeclItems(k, n))
  <1>1. k \in {"Alias", "Decl", "Typedecl", "Enumerator", "Bitfield", "Base_type", "Fundecl",
              "Named_map"}
    BY DEF HandledByFunction
  <1>2. NodeAt(n, 1) /\ Last(n.sub) \in Nodes
    BY <1>1, OperandCounts, Operands, LastNode
  <1>3. k # "Enumerator" => NodeAt(n, 2)
    BY <1>1, OperandCounts, Operands
  <1>4. k \in {"Alias", "Bitfield", "Fundecl", "Named_map"} => NodeAt(n, 3)
    BY <1>1, OperandCounts, Operands
  <1>5. k = "Named_map" => Plain(MappingItems(n.sub[3]))
    <2> HAVE k = "Named_map"
    <2> DEFINE m == n.sub[3]
    <2>1. m \in Nodes /\ m.kind = "Mapping" /\ m.kind \in Kinds
      BY <1>4, NodesAssumption DEF NodeAt, WellFormed
    <2>2. m.kind \in Classes[m.kind]
      BY <2>1 DEF Classes
    <2> QED BY <2>1, <2>2, PlainMappingItems
  <1>6. Plain(DeclName(n)) /\ Plain(Specifiers(n))
    BY <1>2, PlainRules, PlainWords DEF DeclName, NodeAt
  <1>7. k = "Fundecl" => Plain(FundeclItems(n))
    BY PlainFundeclItems
  <1>8. CASE k \in {"Alias", "Decl", "Typedecl"}
    BY <1>2, <1>3, <1>4, <1>6, <1>8, PlainRules DEF DeclItems, NodeAt, Visitors
  <1>9. CASE k \in {"Enumerator", "Bitfield", "Base_type"}
    BY <1>2, <1>3, <1>4, <1>6, <1>9, PlainRules DEF DeclItems, NodeAt, Visitors
  <1>10. CASE k \in {"Fundecl", "Named_map"}
    BY <1>2, <1>5, <1>7, <1>10, PlainRules DEF DeclItems, NodeAt, Visitors
  <1> QED BY <1>1, <1>8, <1>9, <1>10

-----------------------------------------------------------------------------
\* Which function is called.

\* The classes that others are forwarded to, and in how many steps at most
\* the functions of each are forwarded to those of Expr or Stmt.
Rank1 == {"Expr", "Stmt"}

Rank2 == Rank1 \cup {"Name", "Type", "Decl", "Classic", "Expr_stmt"}

Rank3 == Rank2 \cup {"Udt", "As_type"}

Rank4 == Rank3 \cup {"Namespace"}

\* The definition of Bases, once.
Forward(g) ==
  [k \in Kinds |-> IF k \in {"Expr", "Stmt"} THEN << k >> ELSE << k >> \o g[Base[k]]]

LEMMA Ranks ==
  /\ Rank4 \subseteq Kinds
  /\ \A k \in Rank2 \ Rank1 : Base[k] \in Rank1
  /\ \A k \in Rank3 \ Rank1 : Base[k] \in Rank2
  /\ \A k \in Rank4 \ Rank1 : Base[k] \in Rank3
  /\ \A k \in Kinds : Base[k] \in Rank4
  /\ Base["Handler"] = "Stmt" /\ "Handler" \in Kinds
  <1>1. Rank4 \subseteq Kinds /\ "Handler" \in Kinds
    BY DEF Rank4, Rank3, Rank2, Rank1, Kinds, NameKinds, UdtKinds, TypeKinds, StmtKinds
  <1>2. ASSUME NEW k \in Kinds PROVE Base[k] \in Rank4
    BY DEF Base, Rank4, Rank3, Rank2, Rank1
  <1>3. /\ Base["Name"] = "Expr" /\ Base["Type"] = "Expr" /\ Base["Decl"] = "Expr"
        /\ Base["Classic"] = "Expr"
    BY <1>1 DEF Rank4, Rank3, Rank2, Rank1, Base, NameKinds, UdtKinds, TypeKinds, BuiltinKinds,
                Classics, UnaryKinds, BinaryKinds, MoreBinaryKinds, StmtKinds, DeclKinds
  <1>4. /\ Base["Expr_stmt"] = "Stmt" /\ Base["Udt"] = "Type" /\ Base["As_type"] = "Type"
        /\ Base["Namespace"] = "Udt" /\ Base["Handler"] = "Stmt"
    BY <1>1 DEF Rank4, Rank3, Rank2, Rank1, Base, NameKinds, UdtKinds, TypeKinds, BuiltinKinds,
                Classics, UnaryKinds, BinaryKinds, MoreBinaryKinds, StmtKinds, DeclKinds
  <1> QED BY <1>1, <1>2, <1>3, <1>4 DEF Rank4, Rank3, Rank2, Rank1

Agree(f, g, A) == \A k \in A : f[k] = g[k]

\* Where g is settled for a rank, Forward settles the next.
LEMMA ForwardAgrees ==
  ASSUME NEW f, NEW g
  PROVE  /\ Agree(Forward(f), Forward(g), Rank1)
         /\ Agree(f, g, Rank1) => Agree(Forward(f), Forward(g), Rank2)
         /\ Agree(f, g, Rank2) => Agree(Forward(f), Forward(g), Rank3)
         /\ Agree(f, g, Rank3) => Agree(Forward(f), Forward(g), Rank4)
         /\ Agree(f, g, Rank4) => Agree(Forward(f), Forward(g), Kinds)
  <1>1. ASSUME NEW A \in SUBSET Kinds, NEW B, \A k \in A \ Rank1 : Base[k] \in B, Agree(f, g, B)
        PROVE  Agree(Forward(f), Forward(g), A)
    <2> SUFFICES ASSUME NEW k \in A PROVE Forward(f)[k] = Forward(g)[k]
      BY DEF Agree
    <2>1. CASE k \in Rank1
      BY <2>1 DEF Forward, Rank1
    <2>2. CASE k \notin Rank1
      <3>1. f[Base[k]] = g[Base[k]]
        BY <1>1, <2>2 DEF Agree
      <3> QED BY <2>2, <3>1 DEF Forward, Rank1
    <2> QED BY <2>1, <2>2
  <1>2. Agree(Forward(f), Forward(g), Rank1)
    BY Ranks DEF Agree, Forward, Rank1, Rank4, Rank3, Rank2
  <1>3. /\ Rank1 \in SUBSET Kinds /\ Rank2 \in SUBSET Kinds
        /\ Rank3 \in SUBSET Kinds /\ Rank4 \in SUBSET Kinds
    BY Ranks DEF Rank2, Rank3, Rank4
  <1> QED BY <1>1, <1>2, <1>3, Ranks

\* The forwarding of the default functions ends: the CHOOSE in Bases finds the
\* function that its definition describes.
LEMMA BasesDefined == Bases = Forward(Bases)
  <1> DEFINE g0 == [k \in Kinds |-> << >>]
             g1 == Forward(g0)
             g2 == Forward(g1)
             g3 == Forward(g2)
             g4 == Forward(g3)
             g5 == Forward(g4)
             g6 == Forward(g5)
  <1> HIDE DEF g0
  <1>1. Agree(g1, g2, Rank1)
    BY ForwardAgrees
  <1>2. Agree(g2, g3, Rank2)
    BY <1>1, ForwardAgrees
  <1>3. Agree(g3, g4, Rank3)
    BY <1>2, ForwardAgrees
  <1>4. Agree(g4, g5, Rank4)
    BY <1>3, ForwardAgrees
  <1>5. Agree(g5, g6, Kinds)
    BY <1>4, ForwardAgrees
  <1>6. g5 = g6
    <2>1. g5 = [k \in Kinds |-> g5[k]]
      <3> HIDE DEF g4
      <3> QED BY DEF Forward
    <2>2. g6 = [k \in Kinds |-> g6[k]]
      <3> HIDE DEF g5
      <3> QED BY DEF Forward
    <2> HIDE DEF g5, g6
    <2> QED BY <1>5, <2>1, <2>2 DEF Agree
  <1>7. \E g : g = Forward(g)
    <2> HIDE DEF g5
    <2> QED BY <1>6
  <1> HIDE DEF g1, g2, g3, g4, g5, g6
  <1>8. Bases = CHOOSE g : g = Forward(g)
    BY DEF Bases, Forward
  <1> QED BY <1>7, <1>8

LEMMA BasesOf == \A k \in Kinds : Bases[k] \in Seq({k} \cup Rank4)
  <1>1. \A k \in Kinds :
          Bases[k] = IF k \in {"Expr", "Stmt"} THEN << k >> ELSE << k >> \o Bases[Base[k]]
    BY BasesDefined DEF Forward
  <1>2. \A k \in Rank1 : Bases[k] \in Seq(Rank4)
    <2>1. \A k \in Rank1 : Bases[k] = << k >> /\ k \in Rank4
      BY <1>1, Ranks DEF Rank1, Rank2, Rank3, Rank4
    <2>2. ASSUME NEW U, NEW k \in U PROVE << k >> \in Seq(U)
      OBVIOUS
    <2> QED BY <2>1, <2>2
  <1>3. ASSUME NEW A \in SUBSET Kinds, NEW B \in SUBSET Rank4, \A k \in A \ Rank1 : Base[k] \in B,
               \A k \in B : Bases[k] \in Seq(Rank4)
        PROVE  \A k \in A : Bases[k] \in Seq({k} \cup Rank4)
    <2> SUFFICES ASSUME NEW k \in A PROVE Bases[k] \in Seq({k} \cup Rank4)
      OBVIOUS
    <2>1. CASE k \in Rank1
      <3> DEFINE U == {k} \cup Rank4
      <3>1. Bases[k] = << k >> /\ k \in U
        BY <1>1, <2>1 DEF Rank1
      <3> HIDE DEF U
      <3>2. Bases[k] \in Seq(U)
        BY <3>1
      <3> QED BY <3>2 DEF U
    <2>2. CASE k \notin Rank1
      <3>1. Bases[Base[k]] \in Seq(Rank4) /\ Bases[k] = << k >> \o Bases[Base[k]]
        BY <1>1, <1>3, <2>2 DEF Rank1
      <3> DEFINE U == {k} \cup Rank4
      <3>2. Bases[Base[k]] \in Seq(U) /\ << k >> \in Seq(U)
        BY <3>1
      <3> HIDE DEF U
      <3>3. << k >> \o Bases[Base[k]] \in Seq(U)
        BY <3>2
      <3> QED BY <3>1, <3>3 DEF U
    <2> QED BY <2>1, <2>2
  <1>4. ASSUME NEW A \in SUBSET Rank4, \A k \in A : Bases[k] \in Seq({k} \cup Rank4)
        PROVE  \A k \in A : Bases[k] \in Seq(Rank4)
    <2> SUFFICES ASSUME NEW k \in A PROVE Bases[k] \in Seq(Rank4)
      OBVIOUS
    <2>1. {k} \cup Rank4 = Rank4
      OBVIOUS
    <2> QED BY <1>4, <2>1
  <1>5. \A k \in Rank2 : Bases[k] \in Seq(Rank4)
    BY <1>2, <1>3, <1>4, Ranks DEF Rank2, Rank3, Rank4
  <1>6. \A k \in Rank3 : Bases[k] \in Seq(Rank4)
    BY <1>5, <1>3, <1>4, Ranks DEF Rank3, Rank4
  <1>7. \A k \in Rank4 : Bases[k] \in Seq(Rank4)
    BY <1>6, <1>3, <1>4, Ranks DEF Rank4
  <1> QED BY <1>7, <1>3, Ranks

\* The classes of a node are its own and some of those that others are
\* forwarded to, none of which is a kind of name.
LEMMA ClassesOf ==
  /\ \A k \in Kinds : k \in Classes[k] /\ Classes[k] \subseteq {k} \cup Rank4
  /\ \A k \in Kinds : \A i \in DOMAIN Bases[k] : Bases[k][i] \in Classes[k]
  /\ \A k \in Kinds : Classes[k] \cap NameKinds # {} => k \in NameKinds
  /\ Classes["Handler"] \subseteq {"Handler", "Stmt"}
  <1>1. ASSUME NEW k \in Kinds
        PROVE  /\ k \in Classes[k] /\ Classes[k] \subseteq {k} \cup Rank4
               /\ \A i \in DOMAIN Bases[k] : Bases[k][i] \in Classes[k]
    <2>1. Classes[k] = {k} \cup {Bases[k][i] : i \in DOMAIN Bases[k]}
      BY DEF Classes, ToSet
    <2>2. \A i \in DOMAIN Bases[k] : Bases[k][i] \in {k} \cup Rank4
      <3> DEFINE U == {k} \cup Rank4
      <3>1. Bases[k] \in Seq(U)
        BY BasesOf
      <3> HIDE DEF U
      <3>2. \A i \in DOMAIN Bases[k] : Bases[k][i] \in U
        BY <3>1
      <3> QED BY <3>2 DEF U
    <2> QED BY <2>1, <2>2
  <1>2. Rank4 \cap NameKinds = {}
    BY DEF Rank4, Rank3, Rank2, Rank1, NameKinds
  <1>3. Classes["Handler"] \subseteq {"Handler", "Stmt"}
    <2>1. Bases["Handler"] = << "Handler" >> \o << "Stmt" >>
      <3>1. "Stmt" \in Kinds
        BY DEF Kinds
      <3> QED BY <3>1, Ranks, BasesDefined DEF Forward
    <2>2. Bases["Handler"] \in Seq({"Handler", "Stmt"})
      <3> DEFINE U == {"Handler", "Stmt"}
      <3>1. << "Handler" >> \in Seq(U) /\ << "Stmt" >> \in Seq(U)
        OBVIOUS
      <3> HIDE DEF U
      <3>2. Bases["Handler"] \in Seq(U)
        BY <2>1, <3>1
      <3> QED BY <3>2 DEF U
    <2>3. Classes["Handler"] =
            {"Handler"} \cup {Bases["Handler"][i] : i \in DOMAIN Bases["Handler"]}
      BY Ranks DEF Classes, ToSet
    <2> QED BY <2>2, <2>3
  <1> QED BY <1>1, <1>2, <1>3

\* The bases of a visitor are visitors; those of xpr::Stmt and xpr::Decl are
\* visitors of expressions, statements and declarations.
LEMMA LineageOf ==
  /\ \A v \in Visitors : \A j \in DOMAIN Lineage[v] : Lineage[v][j] \in Visitors
  /\ \A v \in {"Stmt", "Decl"} : \A j \in DOMAIN Lineage[v] :
       Lineage[v][j] \in Visitors \ {"Expr", "TypeExpr", "Type", "Initializer"}
  /\ \A j \in DOMAIN Lineage["Stmt"] : Lineage["Stmt"][j] # "Decl"
  <1> DEFINE Steps == Visitors \ {"Expr", "TypeExpr", "Type", "Initializer", "Stmt", "Decl"}
  <1>1. Ladder \in Seq(Steps) /\ Len(Ladder) = 18
    BY DEF Ladder, Visitors
  <1>2. ToSet(Ladder) = {Ladder[i] : i \in DOMAIN Ladder} /\ DOMAIN Ladder = 1..18
    BY <1>1 DEF ToSet
  <1> HIDE DEF Steps
  <1>3. ToSet(Ladder) \subseteq Steps /\ \A i \in 1..18 : Ladder[i] \in Steps
    <2>1. \A s \in Seq(Steps) : \A i \in 1..Len(s) : s[i] \in Steps
      OBVIOUS
    <2>2. \A i \in 1..18 : Ladder[i] \in Steps
      BY <1>1, <2>1
    <2> QED BY <1>2, <2>2
  <1>4. /\ "Stmt" \notin ToSet(Ladder) /\ "Decl" \notin ToSet(Ladder)
        /\ "Initializer" \notin ToSet(Ladder)
    BY <1>3 DEF Steps
  <1>a. ASSUME NEW v \in ToSet(Ladder)
        PROVE  \A j \in DOMAIN Lineage[v] : Lineage[v][j] \in Steps
    <2> DEFINE m == CHOOSE i \in DOMAIN Ladder : Ladder[i] = v
    <2>1. m \in 1..18
      BY <1>2
    <2>2. v \in Visitors
      BY <1>3 DEF Steps
    <2>3. v \notin {"Initializer", "Stmt", "Decl"}
      BY <1>4
    <2>4. Lineage[v] = SubSeq(Ladder, 1, m)
      BY <2>2, <2>3, VisitorsOf DEF Lineage
    <2> HIDE DEF m
    <2>5. SubSeq(Ladder, 1, m) \in Seq(Steps)
      BY <1>3, <2>1, SubSeqProperties
    <2> QED BY <2>4, <2>5
  <1>5. /\ Lineage["Stmt"] = Append(Ladder, "Stmt")
        /\ Lineage["Initializer"] = Append(Ladder, "Initializer")
    BY <1>4, VisitorsOf DEF Lineage, Visitors
  <1>6. Lineage["Decl"] = Ladder \o << "Stmt", "Decl" >>
    BY <1>4, VisitorsOf DEF Lineage, Visitors
  <1>7. \A j \in DOMAIN Lineage["Stmt"] : Lineage["Stmt"][j] \in Steps \cup {"Stmt"}
    <2>1. Append(Ladder, "Stmt") \in Seq(Steps \cup {"Stmt"})
      BY <1>1
    <2> QED BY <1>5, <2>1
  <1>8. \A j \in DOMAIN Lineage["Initializer"] :
          Lineage["Initializer"][j] \in Steps \cup {"Initializer"}
    <2>1. Append(Ladder, "Initializer") \in Seq(Steps \cup {"Initializer"})
      BY <1>1
    <2> QED BY <1>5, <2>1
  <1>9. \A j \in DOMAIN Lineage["Decl"] : Lineage["Decl"][j] \in Steps \cup {"Stmt", "Decl"}
    <2> DEFINE U == Steps \cup {"Stmt", "Decl"}
    <2>1. Ladder \in Seq(U) /\ << "Stmt", "Decl" >> \in Seq(U)
      BY <1>1
    <2> HIDE DEF U
    <2>2. Ladder \o << "Stmt", "Decl" >> \in Seq(U)
      BY <2>1
    <2> QED BY <1>6, <2>2 DEF U
  <1>10. ASSUME NEW v \in Visitors, v \notin ToSet(Ladder), v \notin {"Stmt", "Decl", "Initializer"}
         PROVE  \A j \in DOMAIN Lineage[v] : Lineage[v][j] = v
    <2>1. Lineage[v] = << v >>
      BY <1>10, VisitorsOf DEF Lineage
    <2> QED BY <2>1
  <1>11. Steps \subseteq Visitors \ {"Expr", "TypeExpr", "Type", "Initializer", "Stmt", "Decl"}
    BY DEF Steps
  <1> HIDE DEF Steps
  <1>12. ASSUME NEW v \in Visitors PROVE \A j \in DOMAIN Lineage[v] : Lineage[v][j] \in Visitors
    <2>1. {"Stmt", "Decl", "Initializer"} \subseteq Visitors
      BY DEF Visitors
    <2> QED BY <1>a, <1>7, <1>8, <1>9, <1>10, <1>11, <2>1
  <1>13. \A v \in {"Stmt", "Decl"} : \A j \in DOMAIN Lineage[v] :
           Lineage[v][j] \in Visitors \ {"Expr", "TypeExpr", "Type", "Initializer"}
    <2>1. {"Stmt", "Decl"} \subseteq Visitors \ {"Expr", "TypeExpr", "Type", "Initializer"}
      BY DEF Visitors
    <2> QED BY <1>7, <1>9, <1>11, <2>1
  <1>14. \A j \in DOMAIN Lineage["Stmt"] : Lineage["Stmt"][j] # "Decl"
    BY <1>7, <1>11
  <1> QED BY <1>12, <1>13, <1>14

\* The function that is called for a node is one of a base of the visitor, for a
\* class of the node's; or none is.
LEMMA OverriderOf ==
  ASSUME NEW v \in Visitors, NEW k \in Kinds
  PROVE  \/ Overrider[v][k].by = "Missing_overrider"
         \/ /\ \E j \in DOMAIN Lineage[v] : Overrider[v][k].by = Lineage[v][j]
            /\ Overrider[v][k].visit \in Handles[Overrider[v][k].by] \cap Classes[k]
  <1> DEFINE Has(i, j) == Bases[k][i] \in Handles[Lineage[v][j]]
             found == {f \in (DOMAIN Bases[k]) \X (DOMAIN Lineage[v]) : Has(f[1], f[2])}
             first == {f \in found : \A g \in found :
                                       f[1] < g[1] \/ (f[1] = g[1] /\ f[2] >= g[2])}
             f0 == CHOOSE f \in first : TRUE
  <1>1. Overrider[v][k] =
          IF first = {} THEN [by |-> "Missing_overrider", visit |-> k]
          ELSE [by |-> Lineage[v][f0[2]], visit |-> Bases[k][f0[1]]]
    BY VisitorsOf, Zenon DEF Overrider
  <1>2. \A f \in first : /\ f[1] \in DOMAIN Bases[k] /\ f[2] \in DOMAIN Lineage[v]
                         /\ Bases[k][f[1]] \in Handles[Lineage[v][f[2]]]
    OBVIOUS
  <1> HIDE DEF first
  <1>3. CASE first # {}
    <2>1. f0 \in first
      BY <1>3
    <2> HIDE DEF f0
    <2>2. /\ f0[1] \in DOMAIN Bases[k] /\ f0[2] \in DOMAIN Lineage[v]
          /\ Bases[k][f0[1]] \in Handles[Lineage[v][f0[2]]]
      BY <1>2, <2>1
    <2>3. Overrider[v][k] = [by |-> Lineage[v][f0[2]], visit |-> Bases[k][f0[1]]]
      BY <1>1, <1>3
    <2> QED BY <2>2, <2>3, ClassesOf
  <1>4. CASE first = {}
    BY <1>1, <1>4
  <1> QED BY <1>3, <1>4

LEMMA HandlesOf ==
  /\ \A c \in {"Name", "Primary", "Postfix", "Unary", "Cast", "Pm", "Cond", "Expr", "TypeExpr",
               "Type", "Initializer", "Stmt", "Decl"} : Handles[c] = HandledByFunction[c]
  /\ \A c \in {"Mul", "Add", "Shift", "Rel", "Eq", "And", "Xor", "Ior", "Land", "Lor"} :
       Handles[c] = DOMAIN BinaryTables[c]
  <1>1. DOMAIN HandledByRow = {"Mul", "Add", "Shift", "Rel", "Eq", "And", "Xor", "Ior", "Land",
                               "Lor", "Assignment"}
    BY DEF HandledByRow, BinaryTables
  <1>2. DOMAIN HandledByFunction =
          {"Name", "Primary", "Postfix", "Unary", "Cast", "Pm", "Cond", "Expr", "TypeExpr",
           "Type", "Initializer", "Stmt", "Decl", "Assignment"}
    BY DEF HandledByFunction
  <1>3. \A c \in DOMAIN HandledByRow : HandledByRow[c] = DOMAIN BinaryTables[c]
    BY DEF HandledByRow
  <1> QED BY <1>1, <1>2, <1>3 DEF Handles

\* No visitor of expressions handles a Handler, or whatever is a statement.
LEMMA HandlerHandled ==
  \A c \in Visitors \ {"Expr", "TypeExpr", "Type", "Initializer", "Decl", "Stmt"} :
    Handles[c] \cap {"Handler", "Stmt"} = {}
  <1>1. \A table : Rows(table) => DOMAIN table \cap {"Handler", "Stmt"} = {}
    BY DEF Rows, BinaryKinds, MoreBinaryKinds
  <1>2. \A c \in DOMAIN BinaryTables : DOMAIN BinaryTables[c] \cap {"Handler", "Stmt"} = {}
    BY <1>1, RowsOf
  <1>3. \A c \in {"Mul", "Add", "Shift", "Rel", "Eq", "And", "Xor", "Ior", "Land", "Lor"} :
          Handles[c] \cap {"Handler", "Stmt"} = {}
    <2>1. \A c \in {"Mul", "Add", "Shift", "Rel", "Eq", "And", "Xor", "Ior", "Land", "Lor"} :
            c \in DOMAIN BinaryTables
      BY DEF BinaryTables
    <2> QED BY <1>2, <2>1, HandlesOf
  <1>4. \A c \in {"Name", "Primary", "Cast", "Cond"} : Handles[c] \cap {"Handler", "Stmt"} = {}
    BY HandlesOf DEF HandledByFunction, NameKinds
  <1>5. \A c \in {"Postfix", "Unary", "Pm"} : Handles[c] \cap {"Handler", "Stmt"} = {}
    BY HandlesOf
       DEF HandledByFunction, Postfixes, NewStyleCasts, Unaries, PrefixOperators, Selections
  <1>6. Handles.Assignment \cap {"Handler", "Stmt"} = {}
    <2>1. \A k \in Handles.Assignment :
            k \in {"Throw", "Mapping"} \/ k \in DOMAIN BinaryTables.Assignment
      BY DEF Handles, HandledByFunction, HandledByRow, BinaryTables
    <2>2. "Assignment" \in DOMAIN BinaryTables
      BY DEF BinaryTables
    <2> QED BY <1>2, <2>1, <2>2
  <1> QED BY <1>3, <1>4, <1>5, <1>6 DEF Visitors

LEMMA RunsRaise == ASSUME NEW q \in 0..2 PROVE Runs(Raise, 0, 0, q)
  <1> DEFINE i == [do |-> "throw"]
  <1>1. IsItem(i) /\ ~NeedsLine(i) /\ Shift(i) = 0 /\ LineAfter(i, 0) = 2
    BY DEF IsItem, NeedsLine, Shift, LineAfter
  <1> HIDE DEF i
  <1>2. Runs(<< i >>, 0, 0, q)
    BY <1>1, RunsOne
  <1> QED BY <1>2 DEF i, Raise

\* What is done for a node leaves the indentation as it was; in handlers of
\* statements and declarations every statement has a line of its own.
LEMMA ItemsRun ==
  ASSUME NEW v \in Visitors, NEW n \in Nodes, NEW d
  PROVE  /\ Runs(Items(v, n, d), 0, IF v \in {"Stmt", "Decl"} THEN 0 ELSE 1, 0)
         /\ v = "Stmt" /\ n.kind = "Handler" => Runs(Items(v, n, d), 0, 0, 1)
  <1> DEFINE by == Overrider[v][n.kind].by
             k == Overrider[v][n.kind].visit
  <1>1. n.kind \in Kinds
    BY NodesAssumption DEF WellFormed
  <1>2. \/ by = "Missing_overrider"
        \/ /\ \E j \in DOMAIN Lineage[v] : by = Lineage[v][j]
           /\ k \in Handles[by] /\ k \in Classes[n.kind]
    BY <1>1, OverriderOf
  <1>3. /\ by = "Name" => Items(v, n, d) = NameItems(k, n, d)
        /\ by = "Primary" => Items(v, n, d) = PrimaryItems(k, n)
        /\ by = "Postfix" => Items(v, n, d) = PostfixItems(k, n)
        /\ by = "Unary" => Items(v, n, d) = UnaryItems(k, n)
        /\ by = "Cast" => Items(v, n, d) = CastItems("cast", n)
        /\ by = "Pm" => Items(v, n, d) = OffsetWithPm(Selections[k], n)
        /\ by = "Cond" => Items(v, n, d) = ConditionalItems(n)
        /\ by = "Assignment" => Items(v, n, d) = AssignmentItems(k, n)
    BY Zenon DEF Items
  <1>4. /\ by = "Expr" => Items(v, n, d) = ExprItems(k, n)
        /\ by = "TypeExpr" => Items(v, n, d) = TypeExprItems(k, n)
        /\ by = "Type" => Items(v, n, d) = TypeItems(k, n)
        /\ by = "Initializer" => Items(v, n, d) = InitializerItems(k, n)
        /\ by = "Stmt" => Items(v, n, d) = StmtItems(k, n)
        /\ by = "Decl" => Items(v, n, d) = DeclItems(k, n)
        /\ by = "Missing_overrider" => Items(v, n, d) = Raise
    BY Zenon DEF Items
  <1>5. by \in {"Mul", "Add", "Shift", "Rel", "Eq", "And", "Xor", "Ior", "Land", "Lor"}
          => Items(v, n, d) = BinaryExpression(BinaryTables[by][k], n)
    BY Zenon DEF Items
  <1> HIDE DEF by, k
  <1>6. by \in {"Missing_overrider"} \cup Visitors
    BY <1>2, LineageOf
  <1>7. CASE by = "Missing_overrider"
    BY <1>4, <1>7, RunsRaise, RunsWeaken
  <1>8. CASE by # "Missing_overrider"
    <2>1. k \in Handles[by] /\ k \in Classes[n.kind] /\ by \in Visitors
      BY <1>2, <1>6, <1>8
    <2>2. by = "Name" => Plain(Items(v, n, d))
      <3> HAVE by = "Name"
      <3>1. k \in NameKinds
        BY <2>1, HandlesOf DEF HandledByFunction
      <3>2. n.kind \in NameKinds
        BY <1>1, <2>1, <3>1, ClassesOf
      <3> QED BY <1>3, <2>1, <3>1, <3>2, PlainNameItems
    <2>3. by \in {"Primary", "Postfix", "Unary"} => Plain(Items(v, n, d))
      <3>1. by = "Primary" => Plain(Items(v, n, d))
        BY <1>3, <2>1, HandlesOf, PlainPrimaryItems
      <3>2. by = "Postfix" => Plain(Items(v, n, d))
        BY <1>3, <2>1, HandlesOf, PlainPostfixItems DEF HandledByFunction
      <3>3. by = "Unary" => Plain(Items(v, n, d))
        BY <1>3, <2>1, HandlesOf, PlainUnaryItems DEF HandledByFunction
      <3> QED BY <3>1, <3>2, <3>3
    <2>4. by \in {"Cast", "Pm", "Cond", "Assignment"} => Plain(Items(v, n, d))
      <3>1. by = "Cast" => Plain(Items(v, n, d))
        BY <1>3, <2>1, HandlesOf, PlainCast DEF HandledByFunction
      <3>2. by = "Pm" => Plain(Items(v, n, d))
        BY <1>3, <2>1, HandlesOf, RowsOf, PlainBinary DEF HandledByFunction
      <3>3. by = "Cond" => Plain(Items(v, n, d))
        BY <1>3, <2>1, HandlesOf, PlainConditional DEF HandledByFunction
      <3>4. by = "Assignment" => Plain(Items(v, n, d))
        BY <1>3, <2>1, PlainAssignmentItems
      <3> QED BY <3>1, <3>2, <3>3, <3>4
    <2>5. by \in {"Mul", "Add", "Shift", "Rel", "Eq", "And", "Xor", "Ior", "Land", "Lor"}
            => Plain(Items(v, n, d))
      <3> HAVE by \in {"Mul", "Add", "Shift", "Rel", "Eq", "And", "Xor", "Ior", "Land", "Lor"}
      <3>1. by \in DOMAIN BinaryTables /\ k \in DOMAIN BinaryTables[by]
        BY <2>1, HandlesOf DEF BinaryTables
      <3> QED BY <1>5, <2>1, <3>1, RowsOf, PlainBinary
    <2>6. by \in {"TypeExpr", "Type", "Decl"} => Plain(Items(v, n, d))
      <3>1. by = "TypeExpr" => Plain(Items(v, n, d))
        BY <1>4, <2>1, HandlesOf, PlainTypeExprItems
      <3>2. by = "Type" => Plain(Items(v, n, d))
        BY <1>4, <2>1, HandlesOf, PlainTypeItems
      <3>3. by = "Decl" => Plain(Items(v, n, d))
        BY <1>4, <2>1, HandlesOf, PlainDeclItems
      <3> QED BY <3>1, <3>2, <3>3
    <2>7. by = "Stmt" => Plain(Items(v, n, d)) /\ (k = "Handler" => Runs(Items(v, n, d), 0, 0, 1))
      BY <1>4, <2>1, HandlesOf, PlainStmtItems
    <2>8. by \in {"Expr", "Initializer"} => Runs(Items(v, n, d), 0, 1, 0)
      <3>1. by = "Expr" => Runs(Items(v, n, d), 0, 1, 0)
        <4>1. by = "Expr" => Runs(Items(v, n, d), 0, IF k = "Stmt" THEN 1 ELSE 0, 0)
          BY <1>4, <2>1, HandlesOf, RunsExprItems
        <4> QED BY <4>1, RunsWeaken
      <3>2. by = "Initializer" => Runs(Items(v, n, d), 0, 1, 0)
        BY <1>4, <2>1, HandlesOf, RunsInitializerItems
      <3> QED BY <3>1, <3>2
    <2>9. v \in {"Stmt", "Decl"} => by \notin {"Expr", "Initializer"}
      BY <1>2, <1>8, LineageOf
    <2>10. by \notin {"Expr", "Initializer"} => Plain(Items(v, n, d))
      BY <2>1, <2>2, <2>3, <2>4, <2>5, <2>6, <2>7 DEF Visitors
    <2>11. Runs(Items(v, n, d), 0, IF v \in {"Stmt", "Decl"} THEN 0 ELSE 1, 0)
      BY <2>8, <2>9, <2>10, RunsWeaken DEF Plain
    <2>12. ASSUME v = "Stmt", n.kind = "Handler" PROVE by = "Stmt" /\ k = "Handler"
      <3>1. k \in {"Handler", "Stmt"} /\ k \in Handles[by]
        BY <2>1, <2>12, ClassesOf
      <3>2. by \in Visitors \ {"Expr", "TypeExpr", "Type", "Initializer", "Decl"}
        BY <1>2, <1>8, <2>12, LineageOf
      <3>3. by # "Stmt" => Handles[by] \cap {"Handler", "Stmt"} = {}
        BY <3>2, HandlerHandled
      <3>4. "Stmt" \notin Handles["Stmt"]
        BY HandlesOf DEF HandledByFunction, StmtKinds
      <3> QED BY <3>1, <3>3, <3>4
    <2> QED BY <2>7, <2>11, <2>12
  <1> QED BY <1>7, <1>8

-----------------------------------------------------------------------------
\* The stack of what is left to do.

\* What is on the stack of what is left to do: items and returns of handlers.
IsReturn(i) == i.do = "return" /\ i.as \in Visitors /\ i.node \in Nodes

\* The i-th item is one of a handler of a visitor of statements or declarations.
InStatement(s, i) ==
  \E j \in i..Len(s) : /\ s[j].do = "return" /\ s[j].as \in {"Stmt", "Decl"}
                       /\ \A x \in i..(j - 1) : s[x].do # "return"

PlacedBy(s, l, m) ==
  /\ Labels(s, l, m)
  /\ \A i \in 1..Len(s) : /\ s[i].do = "return" => s[i].indent = l[i]
                          /\ NeedsLine(s[i]) /\ InStatement(s, i) => m[i] >= 1

Stacked(s) == IsSequence(s) /\ \A i \in 1..Len(s) : IsItem(s[i]) \/ IsReturn(s[i])

\* All of s can be done from indentation a and with p known of the line, and
\* each handler then returns with the indentation it was called with.
Placed(s, a, p) == Stacked(s) /\ \E l, m : PlacedBy(s, l, m) /\ l[1] = a /\ m[1] = p

LEMMA ShiftOfStacked == ASSUME NEW i, IsItem(i) \/ IsReturn(i) PROVE Shift(i) \in Int
  BY ShiftOf DEF IsReturn, Shift

LEMMA PlacedEmpty == ASSUME NEW a \in Int PROVE Placed(<< >>, a, 0)
  <1>1. PlacedBy(<< >>, [i \in Nat |-> a], [i \in Nat |-> 0])
    BY DEF PlacedBy, Labels
  <1>2. Stacked(<< >>)
    BY DEF Stacked, IsSequence
  <1> QED BY <1>1, <1>2 DEF Placed

LEMMA SequenceTail ==
  ASSUME NEW s, IsSequence(s), s # << >>
  PROVE  /\ Len(s) \in Nat /\ Len(s) >= 1 /\ Head(s) = s[1]
         /\ IsSequence(Tail(s)) /\ Len(Tail(s)) = Len(s) - 1
         /\ \A i \in 1..Len(Tail(s)) : Tail(s)[i] = s[i + 1]
  <1> DEFINE Q == {s[i] : i \in DOMAIN s}
  <1>1. s \in Seq(Q)
    BY DEF IsSequence
  <1> HIDE DEF Q
  <1>2. /\ Tail(s) \in Seq(Q) /\ Len(Tail(s)) = Len(s) - 1 /\ Len(s) \in Nat /\ Len(s) >= 1
        /\ Head(s) = s[1] /\ \A i \in 1..Len(Tail(s)) : Tail(s)[i] = s[i + 1]
    BY <1>1, HeadTailProperties
  <1> QED BY <1>2, SequenceOf

\* What is left after the first item is placed as that leaves it.
LEMMA PlacedTail ==
  ASSUME NEW s, s # << >>, NEW a, NEW p, Placed(s, a, p)
  PROVE  /\ IsItem(Head(s)) \/ IsReturn(Head(s))
         /\ a \in Int /\ p \in 0..2
         /\ Head(s).do = "return" => Head(s).indent = a
         /\ NeedsLine(Head(s)) /\ InStatement(s, 1) => p >= 1
         /\ \E q \in 0..2 : q <= LineAfter(Head(s), p) /\ Placed(Tail(s), a + Shift(Head(s)), q)
  <1>1. PICK l, m : PlacedBy(s, l, m) /\ l[1] = a /\ m[1] = p
    BY DEF Placed
  <1> DEFINE t == Tail(s)
             k == [i \in Nat |-> l[i + 1]]
             n == [i \in Nat |-> m[i + 1]]
  <1>2. /\ Len(s) \in Nat /\ Len(s) >= 1 /\ Head(s) = s[1]
        /\ IsSequence(t) /\ Len(t) = Len(s) - 1
        /\ \A i \in 1..Len(t) : t[i] = s[i + 1]
    BY SequenceTail DEF Placed, Stacked
  <1>3. /\ l \in [Nat -> Int] /\ m \in [Nat -> 0..2]
        /\ \A i \in 1..Len(s) : /\ l[i + 1] = l[i] + Shift(s[i])
                                /\ m[i + 1] <= LineAfter(s[i], m[i])
                                /\ s[i].do = "return" => s[i].indent = l[i]
                                /\ NeedsLine(s[i]) /\ InStatement(s, i) => m[i] >= 1
    BY <1>1 DEF PlacedBy, Labels
  <1>4. k \in [Nat -> Int] /\ n \in [Nat -> 0..2] /\ k[1] = l[2] /\ n[1] = m[2]
    BY <1>3
  <1>5. \A i \in Nat : /\ k[i] = l[i + 1] /\ n[i] = m[i + 1]
                     /\ k[i + 1] = l[(i + 1) + 1] /\ n[i + 1] = m[(i + 1) + 1]
    OBVIOUS
  <1> HIDE DEF k, n, t
  <1>6. /\ 1 \in 1..Len(s) /\ l[2] = a + Shift(Head(s))
        /\ m[2] <= LineAfter(Head(s), p) /\ m[2] \in 0..2
    BY <1>1, <1>2, <1>3
  <1>7. ASSUME NEW i \in 1..Len(t)
        PROVE  /\ k[i + 1] = k[i] + Shift(t[i]) /\ n[i + 1] <= LineAfter(t[i], n[i])
               /\ t[i].do = "return" => t[i].indent = k[i]
               /\ NeedsLine(t[i]) /\ InStatement(t, i) => n[i] >= 1
               /\ IsItem(t[i]) \/ IsReturn(t[i])
    <2>1. i \in Nat /\ i + 1 \in 1..Len(s) /\ t[i] = s[i + 1]
      BY <1>2
    <2>2. InStatement(t, i) => InStatement(s, i + 1)
      <3> SUFFICES ASSUME NEW j \in i..Len(t), t[j].do = "return", t[j].as \in {"Stmt", "Decl"},
                          \A x \in i..(j - 1) : t[x].do # "return"
                   PROVE  InStatement(s, i + 1)
        BY DEF InStatement
      <3>1. j + 1 \in (i + 1)..Len(s) /\ t[j] = s[j + 1]
        BY <1>2
      <3>2. ASSUME NEW x \in (i + 1)..((j + 1) - 1) PROVE s[x].do # "return"
        <4>1. x - 1 \in i..(j - 1) /\ x - 1 \in 1..Len(t) /\ (x - 1) + 1 = x
          BY <1>2
        <4>2. t[x - 1] = s[x]
          BY <1>2, <4>1
        <4> QED BY <4>1, <4>2
      <3> QED BY <3>1, <3>2 DEF InStatement
    <2>3. /\ k[i] = l[i + 1] /\ n[i] = m[i + 1]
          /\ k[i + 1] = l[(i + 1) + 1] /\ n[i + 1] = m[(i + 1) + 1]
      BY <1>5, <2>1
    <2>4. IsItem(t[i]) \/ IsReturn(t[i])
      BY <2>1 DEF Placed, Stacked
    <2> QED BY <1>3, <2>1, <2>2, <2>3, <2>4
  <1>8. PlacedBy(t, k, n)
    BY <1>4, <1>7 DEF PlacedBy, Labels
  <1>9. Placed(t, l[2], m[2])
    BY <1>2, <1>4, <1>7, <1>8 DEF Placed, Stacked
  <1>10. IsItem(Head(s)) \/ IsReturn(Head(s))
    BY <1>2, <1>6 DEF Placed, Stacked
  <1>11. a \in Int /\ p \in 0..2
    BY <1>1, <1>3
  <1> QED BY <1>1, <1>2, <1>3, <1>6, <1>9, <1>10, <1>11 DEF t

\* A handler's return is pushed where its visit was.
LEMMA PlacedReturn ==
  ASSUME NEW s, NEW a, NEW q, Placed(s, a, q), NEW r, IsReturn(r), r.indent = a
  PROVE  Placed(<< r >> \o s, a, q)
  <1>1. PICK l, m : PlacedBy(s, l, m) /\ l[1] = a /\ m[1] = q
    BY DEF Placed
  <1> DEFINE e == << r >>
             t == e \o s
             k == [i \in Nat |-> IF i <= 1 THEN a ELSE l[i - 1]]
             n == [i \in Nat |-> IF i <= 1 THEN q ELSE m[i - 1]]
  <1>2. e \in Seq({r}) /\ Len(e) = 1 /\ e[1] = r
    OBVIOUS
  <1> HIDE DEF e
  <1>3. /\ IsSequence(s) /\ IsSequence(t) /\ Len(s) \in Nat /\ Len(t) = 1 + Len(s)
        /\ t[1] = r /\ \A i \in 2..Len(t) : t[i] = s[i - 1]
    <2>1. IsSequence(e) /\ IsSequence(s)
      BY <1>2, SequenceOf DEF Placed, Stacked
    <2>2. /\ IsSequence(t) /\ Len(s) \in Nat /\ Len(t) = 1 + Len(s)
          /\ \A i \in 1..1 : t[i] = e[i]
          /\ \A i \in (1 + 1)..(1 + Len(s)) : t[i] = s[i - 1]
      <3>1. /\ IsSequence(t) /\ Len(s) \in Nat /\ Len(t) = Len(e) + Len(s)
            /\ \A i \in 1..Len(e) : t[i] = e[i]
            /\ \A i \in (Len(e) + 1)..(Len(e) + Len(s)) : t[i] = s[i - Len(e)]
        BY <2>1, SequenceConcat
      <3> HIDE DEF t
      <3> QED BY <1>2, <3>1
    <2> HIDE DEF t
    <2> QED BY <1>2, <2>1, <2>2
  <1>4. /\ l \in [Nat -> Int] /\ m \in [Nat -> 0..2] /\ a \in Int /\ q \in 0..2
        /\ \A i \in 1..Len(s) : /\ l[i + 1] = l[i] + Shift(s[i])
                                /\ m[i + 1] <= LineAfter(s[i], m[i])
                                /\ s[i].do = "return" => s[i].indent = l[i]
                                /\ NeedsLine(s[i]) /\ InStatement(s, i) => m[i] >= 1
                                /\ IsItem(s[i]) \/ IsReturn(s[i])
    BY <1>1 DEF PlacedBy, Labels, Placed, Stacked
  <1>5. /\ k \in [Nat -> Int] /\ n \in [Nat -> 0..2] /\ k[1] = a /\ n[1] = q
        /\ \A i \in Nat : i > 1 => k[i] = l[i - 1] /\ n[i] = m[i - 1]
    BY <1>4
  <1> HIDE DEF t, k, n
  <1>6. k[2] = a /\ n[2] = q
    BY <1>1, <1>5
  <1>7. ASSUME NEW i \in 1..Len(t)
        PROVE  /\ k[i + 1] = k[i] + Shift(t[i]) /\ n[i + 1] <= LineAfter(t[i], n[i])
               /\ t[i].do = "return" => t[i].indent = k[i]
               /\ NeedsLine(t[i]) /\ InStatement(t, i) => n[i] >= 1
               /\ IsItem(t[i]) \/ IsReturn(t[i])
    <2>1. CASE i = 1
      <3>1. Shift(r) = 0 /\ LineAfter(r, q) = q /\ ~NeedsLine(r)
        BY DEF IsReturn, Shift, LineAfter, NeedsLine
      <3> QED BY <1>3, <1>4, <1>5, <1>6, <2>1, <3>1
    <2>2. CASE i > 1
      <3>1. i - 1 \in 1..Len(s) /\ t[i] = s[i - 1] /\ (i - 1) + 1 = i /\ i \in Nat
        BY <1>3, <2>2
      <3>2. InStatement(t, i) => InStatement(s, i - 1)
        <4> SUFFICES ASSUME NEW j \in i..Len(t), t[j].do = "return", t[j].as \in {"Stmt", "Decl"},
                            \A x \in i..(j - 1) : t[x].do # "return"
                     PROVE  InStatement(s, i - 1)
          BY DEF InStatement
        <4>1. j - 1 \in (i - 1)..Len(s) /\ t[j] = s[j - 1]
          BY <1>3, <2>2
        <4>2. ASSUME NEW x \in (i - 1)..((j - 1) - 1) PROVE s[x].do # "return"
          <5>1. x + 1 \in i..(j - 1) /\ x + 1 \in 2..Len(t) /\ (x + 1) - 1 = x
            BY <1>3, <2>2
          <5>2. t[x + 1] = s[x]
            BY <1>3, <5>1
          <5> QED BY <5>1, <5>2
        <4> QED BY <4>1, <4>2 DEF InStatement
      <3>3. /\ k[i] = l[i - 1] /\ n[i] = m[i - 1]
            /\ k[i + 1] = l[(i - 1) + 1] /\ n[i + 1] = m[(i - 1) + 1]
        <4>1. i + 1 \in Nat /\ i + 1 > 1 /\ (i + 1) - 1 = (i - 1) + 1
          BY <3>1
        <4>2. k[i + 1] = l[(i + 1) - 1] /\ n[i + 1] = m[(i + 1) - 1]
          BY <1>5, <4>1
        <4> QED BY <1>5, <2>2, <3>1, <4>1, <4>2
      <3> QED BY <1>4, <3>1, <3>2, <3>3
    <2> QED BY <1>3, <2>1, <2>2
  <1>8. PlacedBy(t, k, n)
    BY <1>5, <1>7 DEF PlacedBy, Labels
  <1>9. Stacked(t)
    BY <1>3, <1>7 DEF Stacked
  <1>10. Placed(t, a, q)
    BY <1>5, <1>8, <1>9 DEF Placed
  <1> QED BY <1>10 DEF t, e

\* What a handler of v does, as its own return sees it.
Returns(t, v, q) ==
  \/ v \in {"Stmt", "Decl"} /\ Runs(t, 0, 0, q)
  \/ v \notin {"Stmt", "Decl"} /\ Runs(t, 0, 1, 0) /\ q = 0

LEMMA ReturnsLabels ==
  ASSUME NEW t, NEW v, NEW q \in 0..2, Returns(t, v, q)
  PROVE  \E l, m : /\ Labels(t, l, m) /\ l[1] = 0 /\ l[Len(t) + 1] = 0
                   /\ m[1] = 0 /\ q <= m[Len(t) + 1]
                   /\ v \in {"Stmt", "Decl"} => \A i \in 1..Len(t) : NeedsLine(t[i]) => m[i] >= 1
  <1>1. CASE v \in {"Stmt", "Decl"} /\ Runs(t, 0, 0, q)
    <2>1. PICK l, m : Labelled(t, l, m, 0, 0, q)
      BY <1>1 DEF Runs
    <2>2. m[1] = 0
      <3>1. m \in [Nat -> 0..2] /\ m[1] <= 0
        BY <2>1 DEF Labelled, Labels
      <3>2. m[1] \in 0..2
        BY <3>1
      <3> QED BY <3>1, <3>2
    <2> QED BY <2>1, <2>2 DEF Labelled
  <1>2. CASE v \notin {"Stmt", "Decl"} /\ Runs(t, 0, 1, 0) /\ q = 0
    <2>1. PICK l, m : Labelled(t, l, m, 0, 1, 0)
      BY <1>2 DEF Runs
    <2>2. Len(t) \in Nat /\ \A i \in 1..Len(t) : IsItem(t[i])
      BY <1>2 DEF Runs, AreItems, IsSequence
    <2> DEFINE n == [i \in Nat |-> 0]
    <2>3. n \in [Nat -> 0..2] /\ n[1] = 0 /\ n[Len(t) + 1] = 0
      BY <2>2
    <2>4. ASSUME NEW i \in 1..Len(t) PROVE n[i + 1] <= LineAfter(t[i], n[i])
      <3>1. n[i] = 0 /\ n[i + 1] = 0
        BY <2>2
      <3>2. LineAfter(t[i], 0) >= 0
        BY DEF LineAfter
      <3> QED BY <3>1, <3>2
    <2> HIDE DEF n
    <2>5. Labels(t, l, n) /\ l[1] = 0 /\ l[Len(t) + 1] = 0
      BY <2>1, <2>3, <2>4 DEF Labelled, Labels
    <2>6. q <= n[Len(t) + 1]
      BY <1>2, <2>3
    <2> QED BY <1>2, <2>3, <2>5, <2>6
  <1> QED BY <1>1, <1>2 DEF Returns

\* What a handler does is pushed on its return.
LEMMA PlacedPush ==
  ASSUME NEW s, NEW a, NEW q, Placed(s, a, q), s # << >>, IsReturn(s[1]),
         NEW t, Returns(t, s[1].as, q)
  PROVE  Placed(t \o s, a, 0)
  <1>1. PICK ls, ms : PlacedBy(s, ls, ms) /\ ls[1] = a /\ ms[1] = q
    BY DEF Placed
  <1>2. /\ ls \in [Nat -> Int] /\ ms \in [Nat -> 0..2] /\ a \in Int /\ q \in 0..2
        /\ \A i \in 1..Len(s) : /\ ls[i + 1] = ls[i] + Shift(s[i])
                                /\ ms[i + 1] <= LineAfter(s[i], ms[i])
                                /\ s[i].do = "return" => s[i].indent = ls[i]
                                /\ NeedsLine(s[i]) /\ InStatement(s, i) => ms[i] >= 1
                                /\ IsItem(s[i]) \/ IsReturn(s[i])
    BY <1>1 DEF PlacedBy, Labels, Placed, Stacked
  <1>3. PICK lt, mt : /\ Labels(t, lt, mt) /\ lt[1] = 0 /\ lt[Len(t) + 1] = 0
                      /\ mt[1] = 0 /\ q <= mt[Len(t) + 1]
                      /\ s[1].as \in {"Stmt", "Decl"} =>
                           \A i \in 1..Len(t) : NeedsLine(t[i]) => mt[i] >= 1
    BY <1>2, ReturnsLabels
  <1>4. AreItems(t)
    BY DEF Returns, Runs
  <1> DEFINE n == Len(t)
             u == t \o s
             l == [i \in Nat |-> IF i <= n THEN a + lt[i] ELSE ls[i - n]]
             m == [i \in Nat |-> IF i <= n THEN mt[i] ELSE ms[i - n]]
  <1>5. /\ IsSequence(u) /\ n \in Nat /\ Len(s) \in Nat /\ Len(u) = n + Len(s) /\ Len(s) >= 1
        /\ \A i \in 1..n : u[i] = t[i]
        /\ \A i \in (n + 1)..(n + Len(s)) : u[i] = s[i - n]
    <2>1. IsSequence(t) /\ IsSequence(s)
      BY <1>4 DEF AreItems, Placed, Stacked
    <2>2. Len(s) >= 1
      BY <2>1, SequenceTail
    <2> QED BY <2>1, <2>2, SequenceConcat
  <1>6. /\ lt \in [Nat -> Int] /\ mt \in [Nat -> 0..2] /\ lt[1] = 0 /\ lt[n + 1] = 0 /\ mt[1] = 0
        /\ q <= mt[n + 1]
        /\ \A i \in 1..n : /\ lt[i + 1] = lt[i] + Shift(t[i]) /\ mt[i + 1] <= LineAfter(t[i], mt[i])
                           /\ IsItem(t[i])
                           /\ s[1].as \in {"Stmt", "Decl"} /\ NeedsLine(t[i]) => mt[i] >= 1
    BY <1>3, <1>4 DEF Labels, AreItems
  <1>a. \A i \in Nat : lt[i] \in Int /\ ls[i] \in Int /\ mt[i] \in 0..2 /\ ms[i] \in 0..2
    BY <1>2, <1>6
  <1> HIDE DEF n, u
  <1>7. /\ l \in [Nat -> Int] /\ m \in [Nat -> 0..2]
        /\ \A i \in 1..n : l[i] = a + lt[i] /\ m[i] = mt[i]
        /\ \A i \in Nat : i > n => l[i] = ls[i - n] /\ m[i] = ms[i - n]
    <2>1. ASSUME NEW i \in Nat
          PROVE  /\ (IF i <= n THEN a + lt[i] ELSE ls[i - n]) \in Int
                 /\ (IF i <= n THEN mt[i] ELSE ms[i - n]) \in 0..2
      <3>1. CASE i <= n
        <4>1. a + lt[i] \in Int /\ mt[i] \in 0..2
          BY <1>2, <1>a
        <4> QED BY <3>1, <4>1
      <3>2. CASE i > n
        <4>1. i - n \in Nat /\ ~(i <= n)
          BY <1>5, <3>2
        <4> QED BY <1>a, <4>1
      <3> QED BY <1>5, <3>1, <3>2
    <2>2. l \in [Nat -> Int] /\ m \in [Nat -> 0..2]
      BY <2>1
    <2>3. \A i \in Nat : /\ l[i] = (IF i <= n THEN a + lt[i] ELSE ls[i - n])
                          /\ m[i] = (IF i <= n THEN mt[i] ELSE ms[i - n])
      OBVIOUS
    <2> HIDE DEF l, m
    <2>4. \A i \in 1..n : i \in Nat /\ i <= n
      BY <1>5
    <2>5. \A i \in Nat : i > n => ~(i <= n)
      BY <1>5
    <2> QED BY <2>2, <2>3, <2>4, <2>5
  <1> HIDE DEF l, m
  <1>8. l[n + 1] = a /\ m[n + 1] = q
    <2>1. n + 1 \in Nat /\ n + 1 > n /\ (n + 1) - n = 1
      BY <1>5
    <2> QED BY <1>1, <1>7, <2>1
  <1>9. l[1] = a /\ m[1] = 0
    <2>1. CASE n = 0
      <3>1. 0 + 1 = 1 /\ mt[1] = 0 /\ q = 0
        BY <1>2, <1>6, <2>1
      <3> QED BY <1>8, <2>1, <3>1
    <2>2. CASE n # 0
      <3>1. 1 \in 1..n
        BY <1>5, <2>2
      <3> QED BY <1>2, <1>6, <1>7, <3>1
    <2> QED BY <2>1, <2>2
  <1>10. ASSUME NEW i \in 1..n
         PROVE  /\ u[i] = t[i] /\ IsItem(t[i]) /\ t[i].do # "return"
                /\ InStatement(u, i) => s[1].as \in {"Stmt", "Decl"}
    <2>1. \A j \in 1..n : u[j] = t[j] /\ IsItem(t[j]) /\ t[j].do # "return"
      BY <1>5, <1>6 DEF IsItem
    <2>2. u[n + 1] = s[1] /\ s[1].do = "return"
      BY <1>5 DEF IsReturn
    <2>3. ASSUME NEW j \in i..Len(u), u[j].do = "return", u[j].as \in {"Stmt", "Decl"},
                 \A x \in i..(j - 1) : u[x].do # "return"
          PROVE  s[1].as \in {"Stmt", "Decl"}
      <3>1. j \notin 1..n /\ n + 1 \notin i..(j - 1)
        BY <2>1, <2>2, <2>3
      <3>2. j = n + 1
        BY <1>5, <3>1
      <3> QED BY <2>2, <2>3, <3>2
    <2> QED BY <2>1, <2>3 DEF InStatement
  <1>11. ASSUME NEW i \in 1..Len(u)
         PROVE  /\ l[i + 1] = l[i] + Shift(u[i]) /\ m[i + 1] <= LineAfter(u[i], m[i])
                /\ u[i].do = "return" => u[i].indent = l[i]
                /\ NeedsLine(u[i]) /\ InStatement(u, i) => m[i] >= 1
                /\ IsItem(u[i]) \/ IsReturn(u[i])
    <2>1. CASE i \in 1..n
      <3>1. /\ u[i] = t[i] /\ IsItem(t[i]) /\ t[i].do # "return" /\ l[i] = a + lt[i] /\ m[i] = mt[i]
            /\ NeedsLine(t[i]) /\ InStatement(u, i) => mt[i] >= 1
        BY <1>6, <1>7, <1>10, <2>1
      <3>2. /\ lt[i + 1] = lt[i] + Shift(t[i]) /\ mt[i + 1] <= LineAfter(t[i], mt[i])
            /\ lt[i] \in Int /\ Shift(t[i]) \in Int /\ LineAfter(t[i], mt[i]) \in Int
            /\ mt[i + 1] \in Int
        <4>1. i \in Nat /\ i + 1 \in Nat
          BY <1>5, <2>1
        <4>2. mt[i] \in 0..2 /\ lt[i] \in Int /\ mt[i + 1] \in 0..2
          BY <1>a, <4>1
        <4>3. LineAfter(t[i], mt[i]) \in Int
          BY <4>2 DEF LineAfter
        <4> QED BY <1>6, <2>1, <3>1, <4>2, <4>3, ShiftOf
      <3>3. l[i + 1] = a + lt[i + 1] /\ m[i + 1] <= mt[i + 1] /\ m[i + 1] \in Int
        <4>1. CASE i + 1 \in 1..n
          <5>1. l[i + 1] = a + lt[i + 1] /\ m[i + 1] = mt[i + 1]
            BY <1>7, <4>1
          <5> QED BY <3>2, <5>1
        <4>2. CASE i = n
          BY <1>2, <1>6, <1>8, <4>2
        <4> QED BY <1>5, <2>1, <4>1, <4>2
      <3> HIDE DEF Shift, LineAfter, NeedsLine
      <3>4. l[i + 1] = l[i] + Shift(u[i])
        BY <1>2, <3>1, <3>2, <3>3
      <3>5. m[i + 1] <= LineAfter(u[i], m[i])
        BY <3>1, <3>2, <3>3
      <3> QED BY <3>1, <3>4, <3>5
    <2>2. CASE i > n
      <3>1. /\ i - n \in 1..Len(s) /\ (i + 1) - n = (i - n) + 1 /\ i \in (n + 1)..(n + Len(s))
            /\ i + 1 > n /\ i \in Nat /\ i + 1 \in Nat
        BY <1>5, <2>2
      <3>2. u[i] = s[i - n] /\ l[i] = ls[i - n] /\ m[i] = ms[i - n]
        BY <1>5, <1>7, <2>2, <3>1
      <3>3. l[i + 1] = ls[(i - n) + 1] /\ m[i + 1] = ms[(i - n) + 1]
        <4>1. l[i + 1] = ls[(i + 1) - n] /\ m[i + 1] = ms[(i + 1) - n]
          BY <1>7, <3>1
        <4> QED BY <3>1, <4>1
      <3>4. InStatement(u, i) => InStatement(s, i - n)
        <4> SUFFICES ASSUME NEW j \in i..Len(u), u[j].do = "return", u[j].as \in {"Stmt", "Decl"},
                            \A x \in i..(j - 1) : u[x].do # "return"
                     PROVE  InStatement(s, i - n)
          BY DEF InStatement
        <4>1. j - n \in (i - n)..Len(s) /\ u[j] = s[j - n]
          BY <1>5, <2>2
        <4>2. ASSUME NEW x \in (i - n)..((j - n) - 1) PROVE s[x].do # "return"
          <5>1. x + n \in i..(j - 1) /\ x + n \in (n + 1)..(n + Len(s)) /\ (x + n) - n = x
            BY <1>5, <2>2
          <5>2. u[x + n] = s[x]
            BY <1>5, <5>1
          <5> QED BY <5>1, <5>2
        <4> QED BY <4>1, <4>2 DEF InStatement
      <3> QED BY <1>2, <3>1, <3>2, <3>3, <3>4
    <2> QED BY <1>5, <2>1, <2>2
  <1>12. PlacedBy(u, l, m)
    BY <1>7, <1>11 DEF PlacedBy, Labels
  <1>13. Stacked(u)
    BY <1>5, <1>11 DEF Stacked
  <1>14. Placed(u, a, 0)
    BY <1>9, <1>12, <1>13 DEF Placed
  <1> QED BY <1>14 DEF u

-----------------------------------------------------------------------------
\* The invariant.

\* What p says of the line is so.
OnLine(p) ==
  /\ p >= 1 => newline \/ (text # << >> /\ Last(text) = Newline(indent))
  /\ p = 2 => newline

\* A token; the end of a line or a number has what it stands for.
IsWord(w) == Len(w) = 1 \/ (Len(w) = 2 /\ w[1] \in {"\n", "%d"})

\* The printer stands where all that is left to do can be done: each handler
\* returns with the indentation it was called with, and each statement in a
\* statement or a declaration starts a line.
PlaceInv ==
  /\ IsSequence(text) /\ \A i \in DOMAIN text : IsWord(text[i])
  /\ indent \in Int /\ newline \in BOOLEAN
  /\ \E p \in 0..2 : Placed(todo, indent, p) /\ OnLine(p)

\* The stack of a print that begins.
LEMMA PlacedVisit ==
  ASSUME NEW i, IsItem(i), i.do = "visit", NEW a \in Int PROVE Placed(<< i >>, a, 0)
  <1> DEFINE s == << i >>
             l == [j \in Nat |-> a]
             m == [j \in Nat |-> 0]
  <1>1. s \in Seq({i}) /\ Len(s) = 1 /\ s[1] = i
    OBVIOUS
  <1>2. /\ l \in [Nat -> Int] /\ m \in [Nat -> 0..2]
        /\ l[1] = a /\ l[2] = a /\ m[1] = 0 /\ m[2] = 0
    OBVIOUS
  <1> HIDE DEF s, l, m
  <1>3. Shift(i) = 0 /\ LineAfter(i, 0) >= 0
    BY DEF Shift, LineAfter
  <1>4. ~InStatement(s, 1)
    BY <1>1 DEF InStatement
  <1>5. PlacedBy(s, l, m)
    BY <1>1, <1>2, <1>3, <1>4 DEF PlacedBy, Labels
  <1>6. Stacked(s)
    BY <1>1, SequenceOf DEF Stacked
  <1>7. Placed(s, a, 0)
    BY <1>2, <1>5, <1>6 DEF Placed
  <1> QED BY <1>7 DEF s

\* A visit starts where it can, whatever else is known of the line.
LEMMA PlacedOver ==
  ASSUME NEW s, NEW a, NEW p, Placed(s, a, p), s # << >>, Head(s).do = "visit",
         NEW q \in 0..2, q >= 1
  PROVE  Placed(s, a, q)
  <1>1. PICK l, m : PlacedBy(s, l, m) /\ l[1] = a /\ m[1] = p
    BY DEF Placed
  <1> DEFINE n == [i \in Nat |-> IF i = 1 THEN q ELSE m[i]]
  <1>2. Len(s) \in Nat /\ Len(s) >= 1 /\ Head(s) = s[1] /\ Stacked(s)
    BY SequenceTail DEF Placed, Stacked
  <1>3. /\ l \in [Nat -> Int] /\ m \in [Nat -> 0..2]
        /\ \A i \in 1..Len(s) : /\ l[i + 1] = l[i] + Shift(s[i])
                                /\ m[i + 1] <= LineAfter(s[i], m[i])
                                /\ s[i].do = "return" => s[i].indent = l[i]
                                /\ NeedsLine(s[i]) /\ InStatement(s, i) => m[i] >= 1
    BY <1>1 DEF PlacedBy, Labels
  <1>4. n \in [Nat -> 0..2] /\ n[1] = q /\ \A i \in Nat : i # 1 => n[i] = m[i]
    BY <1>3
  <1> HIDE DEF n
  <1>5. ASSUME NEW i \in 1..Len(s)
        PROVE  /\ n[i + 1] <= LineAfter(s[i], n[i])
               /\ NeedsLine(s[i]) /\ InStatement(s, i) => n[i] >= 1
    <2>1. CASE i = 1
      <3>1. LineAfter(s[1], q) = LineAfter(s[1], m[1])
        BY <1>2 DEF LineAfter
      <3>2. n[2] = m[2] /\ 1 \in 1..Len(s)
        BY <1>2, <1>4
      <3> QED BY <1>3, <1>4, <2>1, <3>1, <3>2
    <2>2. CASE i # 1
      <3>1. i \in Nat /\ i + 1 \in Nat /\ i + 1 # 1
        BY <1>2, <2>2
      <3>2. n[i] = m[i] /\ n[i + 1] = m[i + 1]
        BY <1>4, <2>2, <3>1
      <3> QED BY <1>3, <3>2
    <2> QED BY <2>1, <2>2
  <1>6. PlacedBy(s, l, n)
    BY <1>3, <1>4, <1>5 DEF PlacedBy, Labels
  <1> QED BY <1>1, <1>2, <1>4, <1>6 DEF Placed

LEMMA TextGrows ==
  ASSUME NEW s, IsSequence(s), NEW w
  PROVE  /\ IsSequence(Append(s, w)) /\ Append(s, w) # << >> /\ Last(Append(s, w)) = w
         /\ DOMAIN Append(s, w) = DOMAIN s \cup {Len(s) + 1}
         /\ \A i \in DOMAIN Append(s, w) :
              Append(s, w)[i] = IF i = Len(s) + 1 THEN w ELSE s[i]
  <1> DEFINE R == {s[i] : i \in DOMAIN s}
             t == Append(s, w)
  <1>1. s \in Seq(R)
    BY DEF IsSequence
  <1> HIDE DEF R
  <1>2. s \in Seq(R \cup {w})
    BY <1>1
  <1>3. /\ t \in Seq(R \cup {w}) /\ Len(s) \in Nat /\ Len(t) = Len(s) + 1
        /\ t[Len(s) + 1] = w /\ \A i \in 1..Len(s) : t[i] = s[i]
    BY <1>2, AppendProperties
  <1> HIDE DEF t
  <1>4. /\ DOMAIN t = 1..(Len(s) + 1) /\ DOMAIN s = 1..Len(s) /\ t # << >>
        /\ Last(t) = t[Len(t)]
    BY <1>1, <1>3 DEF Last
  <1>5. IsSequence(t)
    BY <1>3, SequenceOf
  <1>6. t # << >> /\ Last(t) = w /\ DOMAIN t = DOMAIN s \cup {Len(s) + 1}
    BY <1>3, <1>4
  <1>7. \A i \in DOMAIN t : t[i] = IF i = Len(s) + 1 THEN w ELSE s[i]
    BY <1>3, <1>4
  <1> QED BY <1>5, <1>6, <1>7 DEF t

\* A step does the first item.
LEMMA ItemDone ==
  ASSUME PlaceInv, todo # << >>, todo' = Tail(todo), indent' = indent + Shift(Head(todo)),
         IsSequence(text)', \A i \in DOMAIN text' : IsWord(text'[i]), newline' \in BOOLEAN,
         \A p \in 0..2 : \A q \in 0..2 : OnLine(p) /\ q <= LineAfter(Head(todo), p) => OnLine(q)'
  PROVE  PlaceInv'
  <1>1. PICK p \in 0..2 : Placed(todo, indent, p) /\ OnLine(p)
    BY DEF PlaceInv
  <1>2. PICK q \in 0..2 : /\ q <= LineAfter(Head(todo), p)
                        /\ Placed(Tail(todo), indent + Shift(Head(todo)), q)
    BY <1>1, PlacedTail
  <1>3. OnLine(q)'
    BY <1>1, <1>2
  <1>4. Placed(todo, indent, q)'
    BY <1>2
  <1>5. indent' \in Int
    <2>1. IsItem(Head(todo)) \/ IsReturn(Head(todo))
      BY <1>1, PlacedTail
    <2> QED BY <2>1, ShiftOfStacked DEF PlaceInv
  <1> QED BY <1>3, <1>4, <1>5 DEF PlaceInv

LEMMA NewlineIsWord == \A n : IsWord(Newline(n))
  <1> SUFFICES ASSUME NEW n PROVE IsWord(Newline(n))
    OBVIOUS
  <1> DEFINE c == "\n"
             d == IF n > 0 THEN n ELSE 0
             w == << c, d >>
  <1>1. Len(w) = 2 /\ w[1] = c
    OBVIOUS
  <1>2. IsWord(w)
    BY <1>1 DEF IsWord
  <1> QED BY <1>2 DEF Newline

LEMMA DigitsIsWord == \A n : IsWord(Digits(n))
  <1> SUFFICES ASSUME NEW n PROVE IsWord(Digits(n))
    OBVIOUS
  <1> DEFINE w == << "%d", Written(n) >>
  <1>1. Len(w) = 2 /\ w[1] = "%d"
    OBVIOUS
  <1>2. IsWord(w)
    BY <1>1 DEF IsWord
  <1> QED BY <1>2 DEF Digits

LEMMA WordsGrow ==
  ASSUME NEW s, IsSequence(s), \A i \in DOMAIN s : IsWord(s[i]), NEW w, IsWord(w)
  PROVE  /\ IsSequence(Append(s, w)) /\ \A i \in DOMAIN Append(s, w) : IsWord(Append(s, w)[i])
         /\ Append(s, w) # << >> /\ Last(Append(s, w)) = w
  <1>1. /\ IsSequence(Append(s, w)) /\ Append(s, w) # << >> /\ Last(Append(s, w)) = w
        /\ DOMAIN Append(s, w) = DOMAIN s \cup {Len(s) + 1}
        /\ \A i \in DOMAIN Append(s, w) : Append(s, w)[i] = IF i = Len(s) + 1 THEN w ELSE s[i]
    BY TextGrows
  <1>2. ASSUME NEW i \in DOMAIN Append(s, w) PROVE IsWord(Append(s, w)[i])
    <2>1. CASE i = Len(s) + 1
      BY <1>1, <2>1
    <2>2. CASE i # Len(s) + 1
      BY <1>1, <2>2
    <2> QED BY <2>1, <2>2
  <1> QED BY <1>1, <1>2

\* Nothing need be known of the line after what is not a newline.
LEMMA OnAnyLine == \A q \in 0..2 : q <= 0 => OnLine(q)'
  BY DEF OnLine

\* One step at a time: what writes, and leaves the line unknown.
LEMMA WriteStep ==
  ASSUME PlaceInv, Write \/ WriteNumber \/ SetOctal \/ WriteResolution
  PROVE  PlaceInv'
  <1> DEFINE i == Head(todo)
  <1>1. /\ todo # << >> /\ todo' = Tail(todo) /\ indent' = indent /\ newline' = newline
        /\ i.do \in {"write", "number", "octal", "resolve"}
    BY DEF Write, WriteNumber, SetOctal, WriteResolution, Doing
  <1>2. Shift(i) = 0 /\ \A p : LineAfter(i, p) = 0
    BY <1>1 DEF Shift, LineAfter
  <1>3. IsSequence(text') /\ \A j \in DOMAIN text' : IsWord(text'[j])
    <2>1. CASE \E w : IsWord(w) /\ text' = Append(text, w)
      <3>1. PICK w : IsWord(w) /\ text' = Append(text, w)
        BY <2>1
      <3> QED BY <3>1, WordsGrow DEF PlaceInv
    <2>2. CASE Write
      <3> DEFINE w == << Head(todo).what >>
      <3>1. Len(w) = 1
        OBVIOUS
      <3>2. IsWord(w) /\ text' = Append(text, w)
        BY <2>2, <3>1 DEF Write, IsWord
      <3> QED BY <2>1, <3>2
    <2>3. CASE WriteNumber
      <3>1. text' = Append(text, Digits(Head(todo).what))
        BY <2>3 DEF WriteNumber
      <3> QED BY <2>1, <3>1, DigitsIsWord
    <2>4. CASE SetOctal
      BY <2>4 DEF SetOctal, PlaceInv
    <2>5. CASE WriteResolution
      <3> DEFINE at == << "@" >>
                 sp == << " " >>
      <3>1. PICK a : text' = text \o << at, Digits(a), sp >>
        BY <2>5 DEF WriteResolution
      <3> DEFINE w == Digits(a)
                 t1 == Append(text, at)
                 t2 == Append(t1, w)
                 t3 == Append(t2, sp)
      <3>2. IsWord(at) /\ IsWord(sp) /\ IsWord(w)
        <4>1. Len(at) = 1 /\ Len(sp) = 1
          OBVIOUS
        <4> QED BY <4>1, DigitsIsWord DEF IsWord
      <3> HIDE DEF at, sp, w
      <3>3. text' = t3
        <4> DEFINE R == {text[j] : j \in DOMAIN text} \cup {at, w, sp}
        <4>1. text \in Seq(R) /\ at \in R /\ w \in R /\ sp \in R
          <5>1. text \in Seq({text[j] : j \in DOMAIN text})
            BY DEF PlaceInv, IsSequence
          <5> QED BY <5>1
        <4> HIDE DEF R
        <4> QED BY <3>1, <4>1 DEF w
      <3>4. IsSequence(t1) /\ \A j \in DOMAIN t1 : IsWord(t1[j])
        BY <3>2, WordsGrow DEF PlaceInv
      <3> HIDE DEF t1
      <3>5. IsSequence(t2) /\ \A j \in DOMAIN t2 : IsWord(t2[j])
        BY <3>2, <3>4, WordsGrow
      <3> HIDE DEF t2
      <3>6. IsSequence(t3) /\ \A j \in DOMAIN t3 : IsWord(t3[j])
        BY <3>2, <3>5, WordsGrow
      <3> QED BY <3>3, <3>6
    <2> QED BY <2>2, <2>3, <2>4, <2>5
  <1>4. indent' = indent + Shift(i) /\ newline' \in BOOLEAN
    BY <1>1, <1>2 DEF PlaceInv
  <1>5. \A p \in 0..2 : \A q \in 0..2 : OnLine(p) /\ q <= LineAfter(i, p) => OnLine(q)'
    BY <1>2, OnAnyLine
  <1> HIDE DEF i
  <1>6. IsSequence(text)'
    BY <1>3
  <1> QED BY <1>1, <1>3, <1>4, <1>5, <1>6, ItemDone DEF i

\* What does not write, and leaves the indentation.
LEMMA ReturnStep == ASSUME PlaceInv, Return PROVE PlaceInv'
  <1>1. /\ todo # << >> /\ todo' = Tail(todo) /\ Head(todo).do = "return"
        /\ indent' = indent /\ newline' = newline /\ text' = text
    BY DEF Return, Doing
  <1>2. Shift(Head(todo)) = 0 /\ \A p : LineAfter(Head(todo), p) = p
    BY <1>1 DEF Shift, LineAfter
  <1>3. \A p \in 0..2 : \A q \in 0..2 : OnLine(p) /\ q <= LineAfter(Head(todo), p) => OnLine(q)'
    BY <1>1, <1>2 DEF OnLine
  <1>4. indent' = indent + Shift(Head(todo)) /\ IsSequence(text)'
    BY <1>1, <1>2 DEF PlaceInv
  <1>5. newline' \in BOOLEAN /\ \A i \in DOMAIN text' : IsWord(text'[i])
    BY <1>1 DEF PlaceInv
  <1> QED BY <1>1, <1>3, <1>4, <1>5, ItemDone

LEMMA IndentStep == ASSUME PlaceInv, Indent PROVE PlaceInv'
  <1>1. /\ todo # << >> /\ todo' = Tail(todo) /\ Head(todo).do = "indent"
        /\ indent' = indent + Head(todo).by /\ newline' = newline /\ text' = text
    BY DEF Indent, Doing
  <1>2. /\ Shift(Head(todo)) = Head(todo).by
        /\ \A p : LineAfter(Head(todo), p) = IF p = 2 THEN 2 ELSE 0
    BY <1>1 DEF Shift, LineAfter
  <1>3. \A p \in 0..2 : \A q \in 0..2 : OnLine(p) /\ q <= LineAfter(Head(todo), p) => OnLine(q)'
    BY <1>1, <1>2 DEF OnLine
  <1>4. indent' = indent + Shift(Head(todo)) /\ IsSequence(text)'
    BY <1>1, <1>2 DEF PlaceInv
  <1>5. newline' \in BOOLEAN /\ \A i \in DOMAIN text' : IsWord(text'[i])
    BY <1>1 DEF PlaceInv
  <1> QED BY <1>1, <1>3, <1>4, <1>5, ItemDone

\* A newline is due.
LEMMA NeedNewlineStep == ASSUME PlaceInv, NeedNewline PROVE PlaceInv'
  <1>1. /\ todo # << >> /\ todo' = Tail(todo) /\ Head(todo).do = "needs_newline"
        /\ indent' = indent /\ newline' = TRUE /\ text' = text
    BY DEF NeedNewline, Doing
  <1>2. Shift(Head(todo)) = 0
    BY <1>1 DEF Shift
  <1>3. \A p \in 0..2 : \A q \in 0..2 : OnLine(p) /\ q <= LineAfter(Head(todo), p) => OnLine(q)'
    BY <1>1 DEF OnLine
  <1>4. indent' = indent + Shift(Head(todo)) /\ IsSequence(text)'
    BY <1>1, <1>2 DEF PlaceInv
  <1>5. newline' \in BOOLEAN /\ \A i \in DOMAIN text' : IsWord(text'[i])
    BY <1>1 DEF PlaceInv
  <1> QED BY <1>1, <1>3, <1>4, <1>5, ItemDone

\* A line ends, and the next has its indentation.
LEMMA BreakLineStep == ASSUME PlaceInv, BreakLine PROVE PlaceInv'
  <1>1. /\ todo # << >> /\ todo' = Tail(todo) /\ Head(todo).do = "newline"
        /\ indent' = indent + Head(todo).by /\ newline' = FALSE
        /\ text' = Append(text, Newline(indent'))
    BY DEF BreakLine, Doing
  <1>2. Shift(Head(todo)) = Head(todo).by /\ \A p : LineAfter(Head(todo), p) = 1
    BY <1>1 DEF Shift, LineAfter
  <1>3. /\ IsSequence(text') /\ \A i \in DOMAIN text' : IsWord(text'[i])
        /\ text' # << >> /\ Last(text') = Newline(indent')
    BY <1>1, NewlineIsWord, WordsGrow DEF PlaceInv
  <1>4. Last(text)' = Newline(indent)'
    <2>1. Last(text)' = Last(text') /\ Newline(indent)' = Newline(indent')
      BY DEF Last, Newline
    <2> QED BY <1>3, <2>1
  <1>5. \A p \in 0..2 : \A q \in 0..2 : OnLine(p) /\ q <= LineAfter(Head(todo), p) => OnLine(q)'
    <2>1. \A q \in 0..2 : q <= 1 => OnLine(q)'
      BY <1>3, <1>4 DEF OnLine
    <2> QED BY <1>2, <2>1
  <1>6. indent' = indent + Shift(Head(todo)) /\ IsSequence(text)'
    BY <1>1, <1>2, <1>3 DEF IsSequence
  <1> QED BY <1>1, <1>3, <1>5, <1>6, ItemDone

\* A newline that is due is written before a statement or a declaration.
LEMMA StartLineStep == ASSUME PlaceInv, StartLine PROVE PlaceInv'
  <1>1. /\ todo # << >> /\ todo' = todo /\ Head(todo).do = "visit"
        /\ indent' = indent /\ newline' = FALSE
        /\ text' = Append(text, Newline(indent))
    BY DEF StartLine, Doing
  <1>2. /\ IsSequence(text') /\ \A i \in DOMAIN text' : IsWord(text'[i])
        /\ text' # << >> /\ Last(text') = Newline(indent)
    BY <1>1, NewlineIsWord, WordsGrow DEF PlaceInv
  <1>3. Last(text)' = Newline(indent)'
    <2>1. Last(text)' = Last(text') /\ Newline(indent)' = Newline(indent)
      BY <1>1 DEF Last, Newline
    <2> QED BY <1>2, <2>1
  <1>4. OnLine(1)'
    BY <1>2, <1>3 DEF OnLine
  <1>5. Placed(todo, indent, 1)'
    <2>1. PICK p \in 0..2 : Placed(todo, indent, p)
      BY DEF PlaceInv
    <2>2. Placed(todo, indent, 1)
      BY <1>1, <2>1, PlacedOver
    <2> QED BY <1>1, <2>2
  <1>6. IsSequence(text)' /\ indent' \in Int /\ newline' \in BOOLEAN
    BY <1>1, <1>2 DEF PlaceInv, IsSequence
  <1> QED BY <1>2, <1>4, <1>5, <1>6 DEF PlaceInv

\* What a handler does is put before its return.
LEMMA AcceptStep == ASSUME PlaceInv, Accept PROVE PlaceInv'
  <1> DEFINE v == Head(todo)
             r == [do |-> "return", as |-> v.as, node |-> v.node, indent |-> indent]
             t == Items(v.as, v.node, v.decl)
             rest == Tail(todo)
             s == << r >> \o rest
  <1>1. /\ todo # << >> /\ v.do = "visit" /\ todo' = t \o << r >> \o rest
        /\ indent' = indent /\ newline' = newline /\ text' = text
    BY DEF Accept, Doing
  <1>2. PICK p \in 0..2 : Placed(todo, indent, p)
    BY DEF PlaceInv
  <1> HIDE DEF t
  <1>3. /\ IsItem(v) /\ indent \in Int
        /\ \E q \in 0..2 : q <= LineAfter(v, p) /\ Placed(rest, indent + Shift(v), q)
    <2>1. IsItem(v) \/ IsReturn(v)
      BY <1>1, <1>2, PlacedTail
    <2>2. ~IsReturn(v)
      BY <1>1 DEF IsReturn
    <2> QED BY <1>1, <1>2, <2>1, <2>2, PlacedTail
  <1>4. v.as \in Visitors /\ v.node \in Nodes
    BY <1>1, <1>3, VisitorsOf DEF IsItem
  <1>5. PICK q \in 0..2 : q <= LineAfter(v, p) /\ Placed(rest, indent, q)
    <2>1. Shift(v) = 0
      BY <1>1 DEF Shift
    <2> QED BY <1>3, <2>1
  <1>6. IsReturn(r) /\ r.indent = indent /\ r.as = v.as
    BY <1>4 DEF IsReturn
  <1>7. Returns(t, v.as, q)
    <2>1. /\ Runs(t, 0, IF v.as \in {"Stmt", "Decl"} THEN 0 ELSE 1, 0)
          /\ v.as = "Stmt" /\ v.node.kind = "Handler" => Runs(t, 0, 0, 1)
      BY <1>4, ItemsRun DEF t
    <2>2. q <= 1 /\ (q = 0 \/ (v.as = "Stmt" /\ v.node.kind = "Handler"))
      BY <1>1, <1>5 DEF LineAfter
    <2>3. CASE v.as = "Stmt" /\ v.node.kind = "Handler"
      <3>1. Runs(t, 0, 0, q)
        BY <2>1, <2>2, <2>3, RunsWeaken
      <3> QED BY <2>3, <3>1 DEF Returns
    <2>4. CASE q = 0
      BY <2>1, <2>4 DEF Returns
    <2> QED BY <2>2, <2>3, <2>4
  <1> HIDE DEF v, r
  <1>8. Placed(s, indent, q)
    BY <1>5, <1>6, PlacedReturn
  <1>9. s # << >> /\ s[1] = r /\ todo' = t \o s
    <2> DEFINE e == << r >>
    <2>1. e \in Seq({r}) /\ Len(e) = 1 /\ e[1] = r
      OBVIOUS
    <2> HIDE DEF e
    <2>2. IsSequence(t) /\ IsSequence(e) /\ IsSequence(rest)
      BY <1>5, <1>7, <2>1, SequenceOf DEF Returns, Runs, AreItems, Placed, Stacked
    <2> HIDE DEF rest
    <2>3. (t \o e) \o rest = t \o (e \o rest)
      BY <2>2, SequenceAssoc
    <2>4. /\ IsSequence(e \o rest) /\ Len(rest) \in Nat /\ Len(e \o rest) = Len(e) + Len(rest)
          /\ \A i \in 1..Len(e) : (e \o rest)[i] = e[i]
      BY <2>2, SequenceConcat
    <2>5. (e \o rest)[1] = r /\ e \o rest # << >>
      <3> DEFINE w == e \o rest
      <3>1. /\ IsSequence(w) /\ Len(rest) \in Nat /\ Len(w) = Len(e) + Len(rest)
            /\ \A i \in 1..Len(e) : w[i] = e[i]
        BY <2>4
      <3> HIDE DEF w
      <3>2. w[1] = r /\ Len(w) # 0
        BY <2>1, <3>1
      <3>3. w # << >>
        BY <3>2
      <3> QED BY <3>2, <3>3 DEF w
    <2> QED BY <1>1, <2>3, <2>5 DEF e, rest
  <1> HIDE DEF s
  <1>10. Placed(t \o s, indent, 0)
    BY <1>6, <1>7, <1>8, <1>9, PlacedPush
  <1>11. Placed(todo, indent, 0)'
    BY <1>1, <1>9, <1>10
  <1>12. IsSequence(text)' /\ indent' \in Int /\ newline' \in BOOLEAN
    BY <1>1 DEF PlaceInv, IsSequence
  <1>13. OnLine(0)' /\ \A i \in DOMAIN text' : IsWord(text'[i])
    BY <1>1 DEF OnLine, PlaceInv
  <1> QED BY <1>11, <1>12, <1>13 DEF PlaceInv

\* An exception leaves nothing to do.
LEMMA ThrowStep == ASSUME PlaceInv, Throw PROVE PlaceInv'
  <1>1. todo' = << >> /\ indent' = indent /\ newline' = newline /\ text' = text
    BY DEF Throw
  <1>2. Placed(todo, indent, 0)'
    BY <1>1, PlacedEmpty DEF PlaceInv
  <1>3. IsSequence(text)' /\ indent' \in Int /\ newline' \in BOOLEAN
    BY <1>1 DEF PlaceInv, IsSequence
  <1>4. OnLine(0)' /\ \A i \in DOMAIN text' : IsWord(text'[i])
    BY <1>1 DEF OnLine, PlaceInv
  <1> QED BY <1>2, <1>3, <1>4 DEF PlaceInv

\* A client prints a node.
LEMMA BeginStep ==
  ASSUME PlaceInv, work \in DOMAIN Workloads, BeginPrint
  PROVE  PlaceInv'
  <1>1. PICK r \in Workloads[work].roots : todo' = Visit(r.as, r.node)
    BY DEF BeginPrint
  <1>2. text' = << >> /\ indent' = indent /\ newline' = newline
    BY DEF BeginPrint
  <1> DEFINE i == [do |-> "visit", as |-> r.as, node |-> r.node, decl |-> NoDecl]
  <1>3. IsItem(i) /\ i.do = "visit"
    <2>1. r \in [as : DOMAIN Handles, node : Nodes]
      BY WorkloadsAssumption
    <2> QED BY <2>1 DEF IsItem
  <1>4. todo' = << i >>
    BY <1>1 DEF Visit
  <1> HIDE DEF i
  <1>5. Placed(todo, indent, 0)'
    BY <1>2, <1>3, <1>4, PlacedVisit DEF PlaceInv
  <1>6. IsSequence(text)' /\ indent' \in Int /\ newline' \in BOOLEAN
    BY <1>2 DEF PlaceInv, IsSequence
  <1>7. OnLine(0)' /\ \A j \in DOMAIN text' : IsWord(text'[j])
    BY <1>2 DEF OnLine
  <1> QED BY <1>5, <1>6, <1>7 DEF PlaceInv

\* The rest of the types: the map has only kinds of names, each with a declaration.
TypeInv ==
  /\ work \in DOMAIN Workloads /\ left \in 0..Workloads[work].prints
  /\ root = << >> \/ root.as \in DOMAIN Handles
  /\ thrown \in BOOLEAN
  /\ base \in {8, 10}
  /\ \A n \in DOMAIN map : /\ n.kind \in NameKinds /\ map[n] # << >>
                           /\ IsSequence(map[n])

LEMMA NextPlaceInv ==
  ASSUME PlaceInv, work \in DOMAIN Workloads, [Next]_vars PROVE PlaceInv'
  <1>1. CASE BeginPrint
    BY <1>1, BeginStep
  <1>2. CASE StartLine
    BY <1>2, StartLineStep
  <1>3. CASE Accept
    BY <1>3, AcceptStep
  <1>4. CASE Return
    BY <1>4, ReturnStep
  <1>5. CASE Write \/ WriteNumber \/ SetOctal \/ WriteResolution
    BY <1>5, WriteStep
  <1>6. CASE Indent
    BY <1>6, IndentStep
  <1>7. CASE BreakLine
    BY <1>7, BreakLineStep
  <1>8. CASE NeedNewline
    BY <1>8, NeedNewlineStep
  <1>9. CASE Throw
    BY <1>9, ThrowStep
  <1>10. CASE UNCHANGED vars
    <2>1. todo' = todo /\ text' = text /\ indent' = indent /\ newline' = newline
      BY <1>10 DEF vars
    <2>2. /\ IsSequence(text)' /\ indent' \in Int /\ newline' \in BOOLEAN
          /\ \A j \in DOMAIN text' : IsWord(text'[j])
      BY <2>1 DEF PlaceInv, IsSequence
    <2>3. \A p : OnLine(p) => OnLine(p)'
      BY <2>1 DEF OnLine, Last, Newline
    <2>4. \A p : Placed(todo, indent, p) => Placed(todo, indent, p)'
      BY <2>1
    <2> QED BY <2>2, <2>3, <2>4 DEF PlaceInv
  <1> QED
    BY <1>1, <1>2, <1>3, <1>4, <1>5, <1>6, <1>7, <1>8, <1>9, <1>10 DEF Next, Step

LEMMA NextTypeInv ==
  ASSUME TypeInv, PlaceInv, [Next]_vars PROVE TypeInv'
  <1>1. CASE BeginPrint
    <2>1. PICK r \in Workloads[work].roots : root' = r
      BY <1>1 DEF BeginPrint
    <2>2. r.as \in DOMAIN Handles
      <3>1. r \in [as : DOMAIN Handles, node : Nodes]
        BY WorkloadsAssumption DEF TypeInv
      <3> QED BY <3>1
    <2>3. left' \in 0..Workloads[work].prints
      <3>1. Workloads[work].prints \in Nat
        BY WorkloadsAssumption DEF TypeInv
      <3> QED BY <1>1, <3>1 DEF BeginPrint, TypeInv
    <2> QED BY <1>1, <2>1, <2>2, <2>3 DEF BeginPrint, TypeInv, IsSequence
  <1>2. CASE WriteResolution
    <2> DEFINE n == Head(todo).node
               d == Head(todo).decl
               s == IF n \in DOMAIN map THEN map[n] ELSE << >>
               t == IF Contains(s, d) THEN s ELSE Append(s, d)
    <2>1. /\ map' = [m \in DOMAIN map \cup {n} |-> IF m = n THEN t ELSE map[m]]
          /\ UNCHANGED <<work, left, root, thrown, base>>
          /\ todo # << >> /\ Head(todo).do = "resolve"
      BY <1>2, Zenon DEF WriteResolution, Doing
    <2>2. n.kind \in NameKinds
      <3>1. IsItem(Head(todo)) \/ IsReturn(Head(todo))
        BY <2>1, PlacedTail DEF PlaceInv
      <3> QED BY <2>1, <3>1 DEF IsItem, IsReturn
    <2>3. IsSequence(s)
      BY DEF TypeInv, IsSequence
    <2> HIDE DEF s
    <2>4. IsSequence(t) /\ t # << >>
      <3>1. CASE Contains(s, d)
        <4>1. s # << >>
          BY <3>1 DEF Contains
        <4> QED BY <2>3, <3>1, <4>1
      <3>2. CASE ~Contains(s, d)
        BY <2>3, <3>2, TextGrows
      <3> QED BY <3>1, <3>2
    <2> HIDE DEF n, t
    <2>5. ASSUME NEW m \in DOMAIN map'
          PROVE  m.kind \in NameKinds /\ map'[m] # << >> /\ IsSequence(map'[m])
      <3>1. CASE m = n
        BY <2>1, <2>2, <2>4, <3>1
      <3>2. CASE m # n
        <4>1. m \in DOMAIN map /\ map'[m] = map[m]
          BY <2>1, <3>2
        <4> QED BY <4>1 DEF TypeInv
      <3> QED BY <3>1, <3>2
    <2> QED BY <2>1, <2>5 DEF TypeInv, IsSequence
  <1>3. CASE SetOctal
    BY <1>3 DEF SetOctal, TypeInv, IsSequence
  <1>4. CASE Throw
    BY <1>4 DEF Throw, TypeInv, IsSequence
  <1>5. CASE UNCHANGED <<work, left, root, thrown, base, map>>
    BY <1>5 DEF TypeInv, IsSequence
  <1>6. \/ BeginPrint \/ WriteResolution \/ SetOctal \/ Throw
        \/ UNCHANGED <<work, left, root, thrown, base, map>>
    BY DEF Next, Step, StartLine, Accept, Return, Write, WriteNumber, Indent,
           BreakLine, NeedNewline, vars
  <1> QED BY <1>1, <1>2, <1>3, <1>4, <1>5, <1>6

\* Whatever is printed, thrown out of or printed again, the printer stands
\* where what is left to do can be done, and its state has its types.
THEOREM PrinterInvariance == Spec => [](PlaceInv /\ TypeInv)
  <1>1. Init => PlaceInv /\ TypeInv
    <2> SUFFICES ASSUME Init PROVE PlaceInv /\ TypeInv
      OBVIOUS
    <2>1. /\ todo = << >> /\ text = << >> /\ indent = 0 /\ newline = FALSE
          /\ work \in DOMAIN Workloads /\ left = Workloads[work].prints
          /\ root = << >> /\ thrown = FALSE /\ base = 10 /\ map = << >>
      BY DEF Init
    <2>2. Placed(todo, indent, 0)
      BY <2>1, PlacedEmpty
    <2>3. PlaceInv
      <3>1. IsSequence(text) /\ \A i \in DOMAIN text : IsWord(text[i])
        BY <2>1 DEF IsSequence
      <3>2. indent \in Int /\ newline \in BOOLEAN
        <4>1. newline \in BOOLEAN
          BY Zenon DEF Init
        <4> QED BY <2>1, <4>1
      <3>3. OnLine(0)
        BY DEF OnLine
      <3> QED BY <2>2, <3>1, <3>2, <3>3 DEF PlaceInv
    <2>4. Workloads[work].prints \in Nat
      BY <2>1, WorkloadsAssumption
    <2>5. TypeInv
      <3>1. DOMAIN map = {}
        BY <2>1
      <3>2. thrown \in BOOLEAN
        BY <2>1
      <3> QED BY <2>1, <2>4, <3>1, <3>2 DEF TypeInv
    <2> QED BY <2>3, <2>5
  <1>2. PlaceInv /\ TypeInv /\ [Next]_vars => (PlaceInv /\ TypeInv)'
    <2>1. TypeInv => work \in DOMAIN Workloads
      BY DEF TypeInv
    <2> QED BY <2>1, NextPlaceInv, NextTypeInv
  <1> QED BY <1>1, <1>2, PTL DEF Spec

\* Every function of xpr::Name ... xpr::Decl returns with the indentation that
\* it was called with, for all nodes and whatever they are made of.
THEOREM IndentationBalanced == Spec => []Balanced
  <1>1. PlaceInv => Balanced
    BY PlacedTail DEF PlaceInv, Balanced, Doing
  <1> QED BY <1>1, PrinterInvariance, PTL

\* A statement that is part of a statement or of a function stands on a line of
\* its own: xpr::Stmt and xpr::Decl end the line, or need a newline, before it.
THEOREM StatementsOnOwnLines == Spec => []OwnLine
  <1>1. PlaceInv => OwnLine
    <2> SUFFICES ASSUME PlaceInv, Doing("visit"), ~StartsLine, Head(todo).as = "Stmt",
                        NEW i \in DOMAIN todo, Innermost(todo, i), todo[i].as \in {"Stmt", "Decl"}
                 PROVE  text # << >> /\ Last(text) = Newline(indent)
      BY DEF OwnLine
    <2>1. PICK p \in 0..2 : Placed(todo, indent, p) /\ OnLine(p)
      BY DEF PlaceInv
    <2>2. todo # << >> /\ Head(todo).do = "visit" /\ ~newline
      BY DEF Doing, StartsLine
    <2>3. InStatement(todo, 1)
      <3>1. Len(todo) \in Nat /\ DOMAIN todo = 1..Len(todo)
        BY <2>1 DEF Placed, Stacked, IsSequence
      <3> QED BY <3>1 DEF Innermost, InStatement
    <2>4. p >= 1
      BY <2>1, <2>2, <2>3, PlacedTail DEF NeedsLine
    <2> QED BY <2>1, <2>2, <2>4 DEF OnLine
  <1> QED BY <1>1, PrinterInvariance, PTL

\* The type invariant of the printer.
THEOREM PrinterTypes == Spec => []TypeOK
  <1>1. PlaceInv /\ TypeInv => TypeOK
    <2> SUFFICES ASSUME PlaceInv, TypeInv PROVE TypeOK
      OBVIOUS
    <2>1. ASSUME NEW i \in DOMAIN todo, todo[i].do \in {"visit", "return"}
          PROVE  todo[i].as \in DOMAIN Handles /\ WellFormed(todo[i].node)
      <3>1. IsItem(todo[i]) \/ IsReturn(todo[i])
        BY DEF PlaceInv, Placed, Stacked, IsSequence
      <3>2. todo[i].as \in DOMAIN Handles /\ todo[i].node \in Nodes
        BY <2>1, <3>1, VisitorsOf DEF IsItem, IsReturn
      <3> QED BY <3>2, NodesAssumption
    <2>2. \A i \in DOMAIN text :
            Len(text[i]) = 1 \/ (Len(text[i]) = 2 /\ text[i][1] \in {"\n", "%d"})
      BY DEF PlaceInv, IsWord
    <2>3. indent \in Int /\ newline \in BOOLEAN
      BY DEF PlaceInv
    <2> QED BY <2>1, <2>2, <2>3 DEF TypeInv, TypeOK
  <1> QED BY <1>1, PrinterInvariance, PTL

-----------------------------------------------------------------------------
\* What traversal.C forwards to, and what interface.H derives from.

\* The classes that interface.H declares with operands are kinds of node.
LEMMA Declared ==
  /\ DOMAIN NameClasses \cup {"Type_id"} = NameKinds
  /\ DOMAIN TypeClasses = TypeKinds \ {"Udt"}
  /\ DOMAIN Classic = Classics
  /\ DOMAIN StmtClasses \cup PlainStmts = StmtKinds
  <1>1. \A c, o : DOMAIN Each(c, o) = c
    BY DEF Each
  <1>2. DOMAIN NameClasses \cup {"Type_id"} = NameKinds
    <2> DEFINE rest == [Scope_ref |-> Binary, Template_id |-> <<"Name", "Expr_list">>,
                        Rname |-> <<"Type", "int", "int">>]
    <2>1. DOMAIN rest = {"Scope_ref", "Template_id", "Rname"}
      OBVIOUS
    <2> HIDE DEF rest
    <2>2. NameClasses = Each({"Identifier", "Operator"}, <<"String">>)
                          ++ Each({"Conversion", "Ctor_name", "Dtor_name"}, <<"Type">>) ++ rest
      BY DEF NameClasses, rest
    <2>3. DOMAIN NameClasses = {"Identifier", "Operator"}
            \cup {"Conversion", "Ctor_name", "Dtor_name"} \cup DOMAIN rest
      BY <1>1, <2>2 DEF ++
    <2> QED BY <2>1, <2>3 DEF NameKinds
  <1>3. DOMAIN TypeClasses = TypeKinds \ {"Udt"}
    BY <1>1 DEF TypeClasses, TypeKinds, ++
  <1>4. DOMAIN StmtClasses \cup PlainStmts = StmtKinds
    BY <1>1 DEF StmtClasses, PlainStmts, StmtKinds, ++
  <1>5. DOMAIN Classic = Classics
    <2>1. DOMAIN Classic = (DOMAIN UnaryClasses \cup DOMAIN CastClasses
            \cup DOMAIN BinaryClasses \cup DOMAIN MoreBinaryClasses \cup DOMAIN TernaryClasses)
      BY DEF Classic, ++
    <2>2. DOMAIN UnaryClasses = UnaryKinds
      BY <1>1 DEF UnaryClasses, UnaryKinds, ++
    <2>3. DOMAIN CastClasses \cup DOMAIN BinaryClasses \cup DOMAIN MoreBinaryClasses
            \cup DOMAIN TernaryClasses = BinaryKinds \cup MoreBinaryKinds
      BY <1>1 DEF CastClasses, BinaryClasses, MoreBinaryClasses, TernaryClasses, BinaryKinds,
         MoreBinaryKinds, ++
    <2> QED BY <2>1, <2>2, <2>3 DEF Classics
  <1> QED BY <1>2, <1>3, <1>4, <1>5

\* The classes that others are derived from.
CategoryKinds == {"Name", "Type", "Classic", "Stmt", "Decl", "Udt", "Expr"}

\* No class is in two of the groups that Inherits is made of.
LEMMA Apart ==
  /\ (NameKinds \cup {"Id_expr"}) \cap CategoryKinds = {}
  /\ (TypeKinds \ {"Udt"}) \cap (CategoryKinds \cup NameKinds \cup {"Id_expr"}) = {}
  /\ Classics \cap (CategoryKinds \cup NameKinds \cup {"Id_expr"} \cup TypeKinds) = {}
  /\ (ExprKinds \ {"Id_expr"}) \cap (CategoryKinds \cup NameKinds \cup {"Id_expr"}
       \cup TypeKinds \cup Classics) = {}
  /\ StmtKinds \cap (CategoryKinds \cup NameKinds \cup TypeKinds \cup Classics
       \cup ExprKinds) = {}
  /\ PlainDecls \cap (CategoryKinds \cup NameKinds \cup TypeKinds \cup Classics
       \cup ExprKinds \cup StmtKinds) = {}
  /\ Udts \cap (CategoryKinds \cup NameKinds \cup TypeKinds \cup Classics \cup ExprKinds
       \cup StmtKinds \cup PlainDecls) = {}
  /\ BuiltinConstants \cap (CategoryKinds \cup NameKinds \cup TypeKinds \cup Classics
       \cup ExprKinds \cup StmtKinds \cup PlainDecls \cup Udts) = {}
  /\ {"Global_scope", "Empty_stmt"} \cap (CategoryKinds \cup NameKinds \cup TypeKinds
       \cup Classics \cup ExprKinds \cup StmtKinds \cup PlainDecls \cup Udts
         \cup BuiltinConstants) = {}
  <1>1. (NameKinds \cup {"Id_expr"}) \cap CategoryKinds = {}
    BY DEF CategoryKinds, NameKinds
  <1>2. (TypeKinds \ {"Udt"}) \cap (CategoryKinds \cup NameKinds \cup {"Id_expr"}) = {}
    BY DEF CategoryKinds, NameKinds, TypeKinds
  <1>3. Classics \cap (CategoryKinds \cup NameKinds \cup {"Id_expr"} \cup TypeKinds) = {}
    BY DEF CategoryKinds, NameKinds, TypeKinds, Classics, UnaryKinds, BinaryKinds, MoreBinaryKinds
  <1>4. (ExprKinds \ {"Id_expr"}) \cap (CategoryKinds \cup NameKinds \cup {"Id_expr"}
          \cup TypeKinds \cup Classics) = {}
    BY DEF CategoryKinds, NameKinds, TypeKinds, Classics, UnaryKinds, BinaryKinds,
       MoreBinaryKinds, ExprKinds
  <1>5. StmtKinds \cap (CategoryKinds \cup NameKinds \cup TypeKinds \cup Classics
          \cup ExprKinds) = {}
    BY DEF CategoryKinds, NameKinds, TypeKinds, Classics, UnaryKinds, BinaryKinds,
       MoreBinaryKinds, ExprKinds, StmtKinds
  <1>6. PlainDecls \cap (CategoryKinds \cup NameKinds \cup TypeKinds \cup Classics
          \cup ExprKinds \cup StmtKinds) = {}
    BY DEF CategoryKinds, NameKinds, TypeKinds, Classics, UnaryKinds, BinaryKinds,
       MoreBinaryKinds, ExprKinds, StmtKinds, PlainDecls
  <1>7. Udts \cap (CategoryKinds \cup NameKinds \cup TypeKinds \cup Classics \cup ExprKinds
          \cup StmtKinds \cup PlainDecls) = {}
    BY DEF CategoryKinds, NameKinds, TypeKinds, Classics, UnaryKinds, BinaryKinds,
       MoreBinaryKinds, ExprKinds, StmtKinds, PlainDecls, Udts
  <1>8. BuiltinConstants \cap (CategoryKinds \cup NameKinds \cup TypeKinds \cup Classics
          \cup ExprKinds \cup StmtKinds \cup PlainDecls \cup Udts) = {}
    BY DEF CategoryKinds, NameKinds, TypeKinds, Classics, UnaryKinds, BinaryKinds,
       MoreBinaryKinds, ExprKinds, StmtKinds, PlainDecls, Udts, BuiltinConstants
  <1>9. {"Global_scope", "Empty_stmt"} \cap (CategoryKinds \cup NameKinds \cup TypeKinds
          \cup Classics \cup ExprKinds \cup StmtKinds \cup PlainDecls \cup Udts
            \cup BuiltinConstants) = {}
    BY DEF CategoryKinds, NameKinds, TypeKinds, Classics, UnaryKinds, BinaryKinds,
       MoreBinaryKinds, ExprKinds, StmtKinds, PlainDecls, Udts, BuiltinConstants
  <1> QED BY <1>1, <1>2, <1>3, <1>4, <1>5, <1>6, <1>7, <1>8, <1>9

\* What interface.H derives each class from.
LEMMA Inheritance ==
  /\ DOMAIN Inherits =
       CategoryKinds \cup NameKinds \cup TypeKinds \cup Classics \cup ExprKinds \cup StmtKinds
         \cup PlainDecls \cup Udts \cup BuiltinConstants \cup {"Global_scope", "Empty_stmt"}
  /\ Inherits["Expr"] = "Node" /\ Inherits["Stmt"] = "Expr" /\ Inherits["Decl"] = "Stmt"
  /\ Inherits["Id_expr"] = "Name"
  /\ Inherits["Udt"] = "Type"
  /\ \A k \in {"Name", "Type", "Classic"} \cup (ExprKinds \ {"Id_expr"}) : Inherits[k] = "Expr"
  /\ \A k \in NameKinds : Inherits[k] = "Name"
  /\ \A k \in TypeKinds \ {"Udt"} : Inherits[k] = "Type"
  /\ \A k \in Classics : Inherits[k] = "Classic"
  /\ \A k \in StmtKinds : Inherits[k] = "Stmt"
  /\ \A k \in DeclKinds : Inherits[k] = "Decl"
  /\ \A k \in UdtKinds : Inherits[k] = "Udt"
  /\ \A k \in BuiltinConstants : Inherits[k] = "As_type"
  /\ Inherits["Global_scope"] = "Namespace" /\ Inherits["Empty_stmt"] = "Expr_stmt"
  <1> DEFINE exprs == {"Expr_list", "Label", "Phantom", "Mapping",
                         "Member_init", "Overload", "Scope"}
             i1 == Categories ++ Derived(DOMAIN NameClasses \cup {"Type_id", "Id_expr"}, "Name")
             i2 == i1 ++ Derived(DOMAIN TypeClasses, "Type")
             i3 == i2 ++ Derived(DOMAIN Classic, "Classic")
             i4 == i3 ++ Derived(exprs, "Expr")
             i5 == i4 ++ Derived(DOMAIN StmtClasses \cup PlainStmts, "Stmt")
             i6 == i5 ++ Derived(PlainDecls, "Decl")
             i7 == i6 ++ Derived(Udts, "Udt")
             i8 == i7 ++ Derived(BuiltinConstants, "As_type")
             r == [Global_scope |-> "Namespace", Empty_stmt |-> "Expr_stmt"]
  <1>1. Inherits = i8 ++ r
    BY DEF Inherits
  <1>2. /\ DOMAIN Categories = {"Name", "Type", "Classic", "Stmt", "Decl", "Udt", "Expr"}
        /\ \A k \in {"Name", "Type", "Classic", "Stmt"} : Categories[k] = "Expr"
        /\ Categories["Decl"] = "Stmt" /\ Categories["Udt"] = "Type"
        /\ Categories["Expr"] = "Node"
    <2> DEFINE c1 == Derived({"Name", "Type", "Classic", "Stmt"}, "Expr")
                       ++ Derived({"Decl"}, "Stmt")
               c2 == c1 ++ Derived({"Udt"}, "Type")
    <2>1. /\ DOMAIN c1 = {"Name", "Type", "Classic", "Stmt", "Decl"}
          /\ \A k \in {"Name", "Type", "Classic", "Stmt"} : c1[k] = "Expr"
          /\ c1["Decl"] = "Stmt"
      BY DEF ++, Derived
    <2> HIDE DEF c1
    <2>2. /\ DOMAIN c2 = DOMAIN c1 \cup {"Udt"}
          /\ \A k \in DOMAIN c1 : c2[k] = c1[k]
          /\ c2["Udt"] = "Type"
      BY <2>1 DEF ++, Derived
    <2> HIDE DEF c2
    <2>3. Categories = c2 ++ Derived({"Expr"}, "Node")
      BY DEF Categories, c1, c2
    <2> QED BY <2>1, <2>2, <2>3 DEF ++, Derived
  <1>3. /\ DOMAIN i1 = DOMAIN Categories \cup NameKinds \cup {"Id_expr"}
        /\ \A k \in DOMAIN Categories : i1[k] = Categories[k]
        /\ \A k \in NameKinds \cup {"Id_expr"} : k \notin DOMAIN Categories => i1[k] = "Name"
    <2>1. DOMAIN NameClasses \cup {"Type_id", "Id_expr"} = NameKinds \cup {"Id_expr"}
      BY Declared
    <2> HIDE DEF i1
    <2>2. i1 = Categories ++ Derived(DOMAIN NameClasses \cup {"Type_id", "Id_expr"}, "Name")
      BY DEF i1
    <2> QED BY <2>1, <2>2 DEF ++, Derived
  <1> HIDE DEF i1
  <1>4. /\ DOMAIN i2 = DOMAIN i1 \cup (TypeKinds \ {"Udt"})
        /\ \A k \in DOMAIN i1 : i2[k] = i1[k]
        /\ \A k \in TypeKinds \ {"Udt"} : k \notin DOMAIN i1 => i2[k] = "Type"
    <2> HIDE DEF i2
    <2>2. i2 = i1 ++ Derived(DOMAIN TypeClasses, "Type")
      BY DEF i2
    <2> QED BY <2>2, Declared DEF ++, Derived
  <1> HIDE DEF i2
  <1>5. /\ DOMAIN i3 = DOMAIN i2 \cup Classics
        /\ \A k \in DOMAIN i2 : i3[k] = i2[k]
        /\ \A k \in Classics : k \notin DOMAIN i2 => i3[k] = "Classic"
    <2> HIDE DEF i3
    <2>2. i3 = i2 ++ Derived(DOMAIN Classic, "Classic")
      BY DEF i3
    <2> QED BY <2>2, Declared DEF ++, Derived
  <1> HIDE DEF i3
  <1>6. /\ DOMAIN i4 = DOMAIN i3 \cup exprs
        /\ \A k \in DOMAIN i3 : i4[k] = i3[k]
        /\ \A k \in exprs : k \notin DOMAIN i3 => i4[k] = "Expr"
    <2> HIDE DEF i4, exprs
    <2>2. i4 = i3 ++ Derived(exprs, "Expr")
      BY DEF i4
    <2> QED BY <2>2 DEF ++, Derived
  <1> HIDE DEF i4
  <1>7. /\ DOMAIN i5 = DOMAIN i4 \cup StmtKinds
        /\ \A k \in DOMAIN i4 : i5[k] = i4[k]
        /\ \A k \in StmtKinds : k \notin DOMAIN i4 => i5[k] = "Stmt"
    <2> HIDE DEF i5
    <2>2. i5 = i4 ++ Derived(DOMAIN StmtClasses \cup PlainStmts, "Stmt")
      BY DEF i5
    <2> QED BY <2>2, Declared DEF ++, Derived
  <1> HIDE DEF i5
  <1>8. /\ DOMAIN i6 = DOMAIN i5 \cup PlainDecls
        /\ \A k \in DOMAIN i5 : i6[k] = i5[k]
        /\ \A k \in PlainDecls : k \notin DOMAIN i5 => i6[k] = "Decl"
    <2> HIDE DEF i6
    <2>2. i6 = i5 ++ Derived(PlainDecls, "Decl")
      BY DEF i6
    <2> QED BY <2>2 DEF ++, Derived
  <1> HIDE DEF i6
  <1>9. /\ DOMAIN i7 = DOMAIN i6 \cup Udts
        /\ \A k \in DOMAIN i6 : i7[k] = i6[k]
        /\ \A k \in Udts : k \notin DOMAIN i6 => i7[k] = "Udt"
    <2> HIDE DEF i7
    <2>2. i7 = i6 ++ Derived(Udts, "Udt")
      BY DEF i7
    <2> QED BY <2>2 DEF ++, Derived
  <1> HIDE DEF i7
  <1>10. /\ DOMAIN i8 = DOMAIN i7 \cup BuiltinConstants
         /\ \A k \in DOMAIN i7 : i8[k] = i7[k]
         /\ \A k \in BuiltinConstants : k \notin DOMAIN i7 => i8[k] = "As_type"
    <2> HIDE DEF i8
    <2>2. i8 = i7 ++ Derived(BuiltinConstants, "As_type")
      BY DEF i8
    <2> QED BY <2>2 DEF ++, Derived
  <1> HIDE DEF i8
  <1>11. /\ DOMAIN Inherits = DOMAIN i8 \cup {"Global_scope", "Empty_stmt"}
         /\ \A k \in DOMAIN i8 : Inherits[k] = i8[k]
         /\ "Global_scope" \notin DOMAIN i8 => Inherits["Global_scope"] = "Namespace"
         /\ "Empty_stmt" \notin DOMAIN i8 => Inherits["Empty_stmt"] = "Expr_stmt"
    BY <1>1 DEF ++
  <1>12. exprs = ExprKinds \ {"Id_expr"}
    BY DEF ExprKinds
  <1>13. DeclKinds = PlainDecls /\ UdtKinds = Udts
    BY DEF DeclKinds, PlainDecls, UdtKinds, Udts
  <1> HIDE DEF exprs, r
  <1>14. /\ DOMAIN Categories = CategoryKinds
         /\ DOMAIN i1 = CategoryKinds \cup NameKinds \cup {"Id_expr"}
         /\ DOMAIN i2 = CategoryKinds \cup NameKinds \cup {"Id_expr"} \cup TypeKinds
    BY <1>2, <1>3, <1>4 DEF CategoryKinds
  <1>15. DOMAIN i3 = CategoryKinds \cup NameKinds \cup {"Id_expr"} \cup TypeKinds \cup Classics
    BY <1>5, <1>14
  <1>16. DOMAIN i4 = CategoryKinds \cup NameKinds \cup TypeKinds \cup Classics \cup ExprKinds
    BY <1>6, <1>12, <1>15 DEF ExprKinds
  <1>17. DOMAIN i5 = CategoryKinds \cup NameKinds \cup TypeKinds \cup Classics
           \cup ExprKinds \cup StmtKinds
    BY <1>7, <1>16
  <1>18. DOMAIN i6 = CategoryKinds \cup NameKinds \cup TypeKinds \cup Classics \cup ExprKinds
                      \cup StmtKinds \cup PlainDecls
    BY <1>8, <1>17
  <1>19. DOMAIN i7 = CategoryKinds \cup NameKinds \cup TypeKinds \cup Classics \cup ExprKinds
                      \cup StmtKinds \cup PlainDecls \cup Udts
    BY <1>9, <1>18
  <1>20. DOMAIN i8 = CategoryKinds \cup NameKinds \cup TypeKinds \cup Classics \cup ExprKinds
                      \cup StmtKinds \cup PlainDecls \cup Udts \cup BuiltinConstants
    BY <1>10, <1>19
  <1>a. \A k \in DOMAIN i7 : Inherits[k] = i7[k]
    BY <1>10, <1>11
  <1>b. \A k \in DOMAIN i6 : Inherits[k] = i6[k]
    BY <1>9, <1>a
  <1>c. \A k \in DOMAIN i5 : Inherits[k] = i5[k]
    BY <1>8, <1>b
  <1>d. \A k \in DOMAIN i4 : Inherits[k] = i4[k]
    BY <1>7, <1>c
  <1>21. /\ \A k \in DOMAIN i7 : Inherits[k] = i7[k]
         /\ \A k \in DOMAIN i6 : Inherits[k] = i6[k]
         /\ \A k \in DOMAIN i5 : Inherits[k] = i5[k]
         /\ \A k \in DOMAIN i4 : Inherits[k] = i4[k]
    BY <1>a, <1>b, <1>c, <1>d
  <1>22. /\ \A k \in DOMAIN i3 : Inherits[k] = i3[k]
         /\ \A k \in DOMAIN i2 : Inherits[k] = i2[k]
         /\ \A k \in DOMAIN i1 : Inherits[k] = i1[k]
         /\ \A k \in CategoryKinds : Inherits[k] = Categories[k]
    BY <1>3, <1>4, <1>5, <1>6, <1>7, <1>14, <1>21
  <1>23. \A k \in BuiltinConstants : Inherits[k] = "As_type"
    BY <1>10, <1>11, <1>19, Apart
  <1>24. \A k \in UdtKinds : Inherits[k] = "Udt"
    BY <1>9, <1>13, <1>18, <1>21, Apart
  <1>25. \A k \in DeclKinds : Inherits[k] = "Decl"
    BY <1>8, <1>13, <1>17, <1>21, Apart
  <1>26. \A k \in StmtKinds : Inherits[k] = "Stmt"
    BY <1>7, <1>16, <1>21, Apart
  <1>27. \A k \in ExprKinds \ {"Id_expr"} : Inherits[k] = "Expr"
    BY <1>6, <1>12, <1>15, <1>21, Apart
  <1>28. \A k \in Classics : Inherits[k] = "Classic"
    BY <1>5, <1>14, <1>22, Apart
  <1>29. \A k \in TypeKinds \ {"Udt"} : Inherits[k] = "Type"
    BY <1>4, <1>14, <1>22, Apart
  <1>30. \A k \in NameKinds \cup {"Id_expr"} : Inherits[k] = "Name"
    BY <1>3, <1>14, <1>22, Apart
  <1>31. /\ Inherits["Expr"] = "Node" /\ Inherits["Stmt"] = "Expr" /\ Inherits["Decl"] = "Stmt"
         /\ Inherits["Udt"] = "Type" /\ Inherits["Name"] = "Expr" /\ Inherits["Type"] = "Expr"
         /\ Inherits["Classic"] = "Expr"
    BY <1>2, <1>22 DEF CategoryKinds
  <1>32. Inherits["Global_scope"] = "Namespace" /\ Inherits["Empty_stmt"] = "Expr_stmt"
    BY <1>11, <1>20, Apart
  <1>33. DOMAIN Inherits = CategoryKinds \cup NameKinds \cup TypeKinds \cup Classics
           \cup ExprKinds
           \cup StmtKinds \cup PlainDecls \cup Udts \cup BuiltinConstants
             \cup {"Global_scope", "Empty_stmt"}
    BY <1>11, <1>20
  <1> QED BY <1>23, <1>24, <1>25, <1>26, <1>27, <1>28, <1>29, <1>30, <1>31, <1>32, <1>33

\* traversal.C forwards what is visited to the class it is derived from; but an
\* Id_expr, and what is a declaration and nothing more, to Expr.
LEMMA Forwards ==
  /\ \A k \in Kinds \ {"Id_expr", "Decl", "Expr", "Stmt"} : Base[k] = Inherits[k]
  /\ Base["Id_expr"] = "Expr" /\ Base["Decl"] = "Expr"
  /\ Kinds \subseteq DOMAIN Inherits
  <1>1. DeclKinds = PlainDecls /\ UdtKinds = Udts /\ BuiltinKinds \subseteq BuiltinConstants
    BY DEF DeclKinds, PlainDecls, UdtKinds, Udts, BuiltinKinds, BuiltinConstants
  <1>2. Kinds \subseteq DOMAIN Inherits
    BY <1>1, Inheritance DEF Kinds, CategoryKinds
  <1>3. /\ NameKinds \cup UdtKinds \cup TypeKinds \cup BuiltinKinds \cup Classics \cup StmtKinds
             \cup DeclKinds \cup ExprKinds \subseteq Kinds
        /\ {"Global_scope", "Empty_stmt"} \cup (CategoryKinds \ {"Udt"}) \subseteq Kinds
    BY DEF Kinds, CategoryKinds
  <1>4. ASSUME NEW k \in NameKinds PROVE Base[k] = "Name"
    <2>1. k \notin UdtKinds \cup TypeKinds \cup BuiltinKinds \cup Classics \cup StmtKinds
            \cup DeclKinds
      BY <1>1, Apart DEF CategoryKinds
    <2>2. k \notin {"Global_scope", "Empty_stmt"} /\ k \in Kinds
      BY <1>3, Apart
    <2> QED BY <2>1, <2>2 DEF Base
  <1>5. \A k \in UdtKinds : Base[k] = "Udt"
    BY <1>1, <1>3, Apart DEF Base
  <1>6. \A k \in TypeKinds \ {"Udt"} : Base[k] = "Type"
    BY <1>1, <1>3, Apart DEF Base
  <1>7. \A k \in BuiltinKinds : Base[k] = "As_type"
    BY <1>1, <1>3, Apart DEF Base
  <1>8. \A k \in Classics : Base[k] = "Classic"
    BY <1>1, <1>3, Apart DEF Base
  <1>9. \A k \in StmtKinds : Base[k] = "Stmt"
    BY <1>1, <1>3, Apart DEF Base
  <1>10. \A k \in DeclKinds : Base[k] = "Decl"
    BY <1>1, <1>3, Apart DEF Base
  <1>a. /\ "Id_expr" \notin NameKinds /\ "Id_expr" \in ExprKinds /\ "Udt" \in TypeKinds
        /\ {"Id_expr", "Udt", "Name", "Type", "Classic", "Decl"}
             \cap {"Global_scope", "Empty_stmt"} = {}
    BY DEF NameKinds, ExprKinds, TypeKinds
  <1>11. \A k \in ExprKinds : Base[k] = "Expr"
    BY <1>1, <1>3, <1>a, Apart DEF Base
  <1>12. \A k \in {"Name", "Type", "Classic", "Decl"} : Base[k] = "Expr"
    BY <1>1, <1>3, Apart DEF Base, CategoryKinds
  <1>13. /\ Base["Udt"] = "Type"
         /\ Base["Global_scope"] = "Namespace" /\ Base["Empty_stmt"] = "Expr_stmt"
    <2>1. Base["Udt"] = "Type"
      <3>1. "Udt" \in Kinds /\ "Udt" \in CategoryKinds
        BY <1>3, <1>a DEF CategoryKinds
      <3> QED BY <1>1, <1>a, <3>1, Apart DEF Base
    <2>2. Base["Global_scope"] = "Namespace" /\ Base["Empty_stmt"] = "Expr_stmt"
      BY <1>1, <1>3, Apart DEF Base
    <2> QED BY <2>1, <2>2
  <1>14. ASSUME NEW k \in Kinds \ {"Id_expr", "Decl", "Expr", "Stmt"} PROVE Base[k] = Inherits[k]
    <2>1. CASE k \in NameKinds \cup UdtKinds \cup BuiltinKinds \cup Classics \cup StmtKinds
      BY <1>1, <1>4, <1>5, <1>7, <1>8, <1>9, <2>1, Inheritance
    <2>2. CASE k \in TypeKinds
      BY <1>6, <1>13, <2>2, Inheritance
    <2>4. CASE k \in DeclKinds
      BY <1>10, <2>4, Inheritance
    <2>5. CASE k \in ExprKinds
      <3>1. \A d \in ExprKinds \ {"Id_expr"} : Inherits[d] = "Expr"
        BY Inheritance
      <3> QED BY <1>11, <1>14, <2>5, <3>1
    <2>3. CASE k \in {"Global_scope", "Empty_stmt", "Classic", "Name", "Type"}
      BY <1>12, <1>13, <2>3, Inheritance
    <2> QED BY <1>14, <2>1, <2>2, <2>3, <2>4, <2>5 DEF Kinds
  <1> QED BY <1>2, <1>11, <1>12, <1>14, <1>a

\* The derivation of classes ends: the CHOOSE in Lineages finds the function that
\* its definition describes.
LEMMA LineagesDefined ==
  /\ Lineages["Node"] = << "Node" >>
  /\ \A c \in DOMAIN Inherits : Lineages[c] = << c >> \o Lineages[Inherits[c]]
  <1> DEFINE All == DOMAIN Inherits \cup {"Node"}
             Derive(g) ==
               [c \in All |-> IF c = "Node" THEN << c >> ELSE << c >> \o g[Inherits[c]]]
             R1 == {"Node", "Expr"}
             R2 == R1 \cup {"Name", "Type", "Classic", "Stmt"}
             R3 == R2 \cup {"Decl", "Udt", "As_type", "Expr_stmt"}
             R4 == R3 \cup {"Namespace"}
  <1>1. /\ R4 \subseteq All
        /\ \A c \in R1 \ {"Node"} : Inherits[c] \in {"Node"}
        /\ \A c \in R2 \ {"Node"} : Inherits[c] \in R1
        /\ \A c \in R3 \ {"Node"} : Inherits[c] \in R2
        /\ \A c \in R4 \ {"Node"} : Inherits[c] \in R3
        /\ \A c \in All \ {"Node"} : Inherits[c] \in R4
    <2>1. "As_type" \in TypeKinds /\ "Expr_stmt" \in StmtKinds /\ "Namespace" \in UdtKinds
      BY DEF TypeKinds, StmtKinds, UdtKinds
    <2>2. UdtKinds = Udts /\ PlainDecls = DeclKinds
      BY DEF UdtKinds, Udts, PlainDecls, DeclKinds
    <2>3. R4 \subseteq All
      BY <2>1, <2>2, Inheritance DEF CategoryKinds
    <2>4. ASSUME NEW c \in All, c # "Node" PROVE Inherits[c] \in R4
      <3>1. CASE c \in CategoryKinds \cup {"Global_scope", "Empty_stmt", "Id_expr"}
        BY <3>1, Inheritance DEF CategoryKinds
      <3>2. CASE c \in NameKinds \cup (TypeKinds \ {"Udt"}) \cup Classics
              \cup (ExprKinds \ {"Id_expr"})
        BY <3>2, Inheritance
      <3>3. CASE c \in StmtKinds \cup DeclKinds \cup UdtKinds \cup BuiltinConstants
        BY <3>3, Inheritance
      <3>4. "Udt" \in CategoryKinds
        BY DEF CategoryKinds
      <3> QED BY <2>2, <2>4, <3>1, <3>2, <3>3, <3>4, Inheritance
    <2> QED BY <2>1, <2>3, <2>4, Inheritance
  <1> HIDE DEF All, R1, R2, R3, R4
  <1>2. ASSUME NEW f, NEW g, NEW A \in SUBSET All, NEW B,
               \A c \in A \ {"Node"} : Inherits[c] \in B, Agree(f, g, B)
        PROVE  Agree(Derive(f), Derive(g), A)
    <2> SUFFICES ASSUME NEW c \in A PROVE Derive(f)[c] = Derive(g)[c]
      BY DEF Agree
    <2>1. CASE c = "Node"
      BY <2>1
    <2>2. CASE c # "Node"
      <3>1. f[Inherits[c]] = g[Inherits[c]]
        BY <1>2, <2>2 DEF Agree
      <3> QED BY <2>2, <3>1
    <2> QED BY <2>1, <2>2
  <1> DEFINE g0 == [c \in All |-> << >>]
             g1 == Derive(g0)
             g2 == Derive(g1)
             g3 == Derive(g2)
             g4 == Derive(g3)
             g5 == Derive(g4)
             g6 == Derive(g5)
             g7 == Derive(g6)
  <1>3. Agree(g1, g2, {"Node"})
    BY DEF Agree, All
  <1> HIDE DEF Derive
  <1>4. R1 \in SUBSET All /\ R2 \in SUBSET All /\ R3 \in SUBSET All /\ R4 \in SUBSET All
    BY <1>1 DEF R1, R2, R3, R4
  <1>5. Agree(g2, g3, R1)
    BY <1>1, <1>2, <1>3, <1>4
  <1>6. Agree(g3, g4, R2)
    BY <1>1, <1>2, <1>4, <1>5
  <1>7. Agree(g4, g5, R3)
    BY <1>1, <1>2, <1>4, <1>6
  <1>8. Agree(g5, g6, R4)
    BY <1>1, <1>2, <1>4, <1>7
  <1>9. Agree(g6, g7, All)
    BY <1>1, <1>2, <1>8
  <1>10. g6 = g7
    <2>1. g6 = [c \in All |-> g6[c]]
      <3> HIDE DEF g5
      <3> QED BY DEF Derive
    <2>2. g7 = [c \in All |-> g7[c]]
      <3> HIDE DEF g6
      <3> QED BY DEF Derive
    <2> HIDE DEF g6, g7
    <2> QED BY <1>9, <2>1, <2>2 DEF Agree
  <1>11. \E g : g = Derive(g)
    <2> HIDE DEF g6
    <2> QED BY <1>10
  <1> HIDE DEF g1, g2, g3, g4, g5, g6, g7
  <1>12. Lineages = CHOOSE g : g = Derive(g)
    BY DEF Lineages, Derive, All
  <1>13. Lineages = Derive(Lineages)
    BY <1>11, <1>12
  <1>14. "Node" \notin DOMAIN Inherits
    BY Inheritance DEF CategoryKinds, NameKinds, TypeKinds, Classics, UnaryKinds, BinaryKinds,
          MoreBinaryKinds, ExprKinds, StmtKinds, PlainDecls, Udts, BuiltinConstants
  <1> QED BY <1>13, <1>14 DEF Derive, All

\* The shortest of the sequences of classes.
LEMMA OneElement ==
  ASSUME NEW k PROVE IsSequence(<< k >>) /\ Len(<< k >>) = 1 /\ << k >>[1] = k
  <1>1. << k >> \in Seq({k})
    OBVIOUS
  <1> QED BY <1>1, SequenceOf

\* The first element of s that is in H is c; none is.
First(s, H, c) == \E i \in DOMAIN s : s[i] = c /\ c \in H /\ \A j \in 1..(i - 1) : s[j] \notin H

None(s, H) == \A i \in DOMAIN s : s[i] \notin H

\* What comes first when a class is put before others.
LEMMA FirstOf ==
  ASSUME NEW k, NEW s, IsSequence(s), NEW H
  PROVE  /\ IsSequence(<< k >> \o s)
         /\ k \in H => First(<< k >> \o s, H, k)
         /\ \A c : k \notin H /\ First(s, H, c) => First(<< k >> \o s, H, c)
         /\ k \notin H /\ None(s, H) => None(<< k >> \o s, H)
  <1> DEFINE a == << k >>
             t == a \o s
  <1>1. IsSequence(a) /\ Len(a) = 1 /\ a[1] = k
    BY OneElement
  <1> HIDE DEF a
  <1>2. /\ IsSequence(t) /\ Len(s) \in Nat /\ Len(t) = 1 + Len(s)
        /\ t[1] = k
        /\ \A i \in 2..(1 + Len(s)) : t[i] = s[i - 1]
    <2>1. /\ IsSequence(t) /\ Len(s) \in Nat /\ Len(t) = Len(a) + Len(s)
          /\ \A i \in 1..Len(a) : t[i] = a[i]
          /\ \A i \in (Len(a) + 1)..(Len(a) + Len(s)) : t[i] = s[i - Len(a)]
      BY <1>1, SequenceConcat
    <2> HIDE DEF t
    <2> QED BY <1>1, <2>1
  <1> HIDE DEF t
  <1>3. DOMAIN t = 1..(1 + Len(s)) /\ DOMAIN s = 1..Len(s)
    BY <1>2 DEF IsSequence
  <1>4. k \in H => First(t, H, k)
    BY <1>2, <1>3 DEF First
  <1>5. ASSUME NEW c, k \notin H, First(s, H, c) PROVE First(t, H, c)
    <2>1. PICK i \in DOMAIN s : s[i] = c /\ c \in H /\ \A j \in 1..(i - 1) : s[j] \notin H
      BY <1>5 DEF First
    <2>2. i + 1 \in DOMAIN t /\ t[i + 1] = c
      BY <1>2, <1>3, <2>1
    <2>3. ASSUME NEW j \in 1..i PROVE t[j] \notin H
      <3>1. CASE j = 1
        BY <1>2, <1>5, <3>1
      <3>2. CASE j # 1
        BY <1>2, <1>3, <2>1, <3>2
      <3> QED BY <3>1, <3>2
    <2> QED BY <1>3, <2>1, <2>2, <2>3 DEF First
  <1>6. k \notin H /\ None(s, H) => None(t, H)
    <2> SUFFICES ASSUME k \notin H, None(s, H), NEW i \in DOMAIN t PROVE t[i] \notin H
      BY DEF None
    <2>1. CASE i = 1
      BY <1>2, <2>1
    <2>2. CASE i # 1
      BY <1>2, <1>3, <2>2 DEF None
    <2> QED BY <2>1, <2>2
  <1> QED BY <1>2, <1>4, <1>5, <1>6 DEF t, a

\* When there are functions for the classes in H, the nearest class that a kind of
\* node is derived from and that has one, if only Expr's or Stmt's that throws, is
\* the one that visits of it are forwarded to.
Reached(k, H) ==
  /\ IsSequence(Bases[k]) /\ IsSequence(Lineages[k])
  /\ \E c : /\ First(Lineages[k], H \cup {"Expr", "Stmt"}, c)
            /\ IF c \in H THEN First(Bases[k], H, c) ELSE None(Bases[k], H)

\* So it is for every kind of node, by the rank of what it is forwarded to: the two
\* that are forwarded past a class they are derived from are no exceptions when
\* there is no function for names in general, and one for declarations or else
\* none for expressions and statements.
LEMMA Reaching ==
  ASSUME NEW H, "Name" \notin H, "Decl" \in H \/ H \cap {"Expr", "Stmt"} = {}
  PROVE  \A k \in Kinds : Reached(k, H)
  <1> DEFINE T == H \cup {"Expr", "Stmt"}
  <1>1. \A k \in Kinds :
          /\ Lineages[k] = << k >> \o Lineages[Inherits[k]]
          /\ Bases[k] = IF k \in {"Expr", "Stmt"} THEN << k >> ELSE << k >> \o Bases[Base[k]]
    BY LineagesDefined, Forwards, BasesDefined DEF Forward
  <1>2. Rank4 \subseteq Kinds
    BY Ranks
  <1>a. /\ Inherits["Decl"] = "Stmt" /\ Base["Decl"] = "Expr"
        /\ Inherits["Id_expr"] = "Name" /\ Base["Id_expr"] = "Expr" /\ Inherits["Name"] = "Expr"
    BY Inheritance, Forwards
  <1>3. IsSequence(Lineages["Node"])
    BY LineagesDefined, OneElement
  <1>4. Reached("Expr", H)
    <2>1. Lineages["Expr"] = << "Expr" >> \o Lineages["Node"] /\ Bases["Expr"] = << "Expr" >>
      BY <1>1, <1>2, Inheritance DEF Rank4, Rank3, Rank2, Rank1
    <2>2. IsSequence(Lineages["Expr"]) /\ First(Lineages["Expr"], T, "Expr")
      BY <1>3, <2>1, FirstOf
    <2>3. IsSequence(Bases["Expr"])
      BY <2>1, OneElement
    <2>4. IF "Expr" \in H THEN First(Bases["Expr"], H, "Expr") ELSE None(Bases["Expr"], H)
      BY <2>1 DEF First, None
    <2> QED BY <2>2, <2>3, <2>4 DEF Reached
  <1>5. Reached("Stmt", H)
    <2>1. Lineages["Stmt"] = << "Stmt" >> \o Lineages["Expr"] /\ Bases["Stmt"] = << "Stmt" >>
      BY <1>1, <1>2, Inheritance DEF Rank4, Rank3, Rank2, Rank1
    <2>2. IsSequence(Lineages["Stmt"]) /\ First(Lineages["Stmt"], T, "Stmt")
      BY <1>4, <2>1, FirstOf DEF Reached
    <2>3. IsSequence(Bases["Stmt"])
      BY <2>1, OneElement
    <2>4. IF "Stmt" \in H THEN First(Bases["Stmt"], H, "Stmt") ELSE None(Bases["Stmt"], H)
      BY <2>1 DEF First, None
    <2> QED BY <2>2, <2>3, <2>4 DEF Reached
  <1>6. ASSUME NEW k \in Kinds, k \notin {"Id_expr", "Decl", "Expr", "Stmt"}, Reached(Base[k], H)
        PROVE  Reached(k, H)
    <2> DEFINE b == Base[k]
    <2>1. Lineages[k] = << k >> \o Lineages[b] /\ Bases[k] = << k >> \o Bases[b]
      BY <1>1, <1>6, Forwards
    <2>2. PICK c : /\ First(Lineages[b], T, c)
                   /\ IF c \in H THEN First(Bases[b], H, c) ELSE None(Bases[b], H)
      BY <1>6 DEF Reached
    <2>3. IsSequence(Lineages[b]) /\ IsSequence(Bases[b])
      BY <1>6 DEF Reached
    <2> HIDE DEF b, T
    <2>4. IsSequence(Lineages[k]) /\ IsSequence(Bases[k])
      BY <2>1, <2>3, FirstOf
    <2>5. CASE k \in H
      <3>1. First(Lineages[k], T, k) /\ First(Bases[k], H, k)
        BY <2>1, <2>3, <2>5, FirstOf DEF T
      <3> QED BY <2>4, <2>5, <3>1 DEF Reached, T
    <2>6. CASE k \notin H
      <3>1. k \notin T
        BY <1>6, <2>6 DEF T
      <3>2. First(Lineages[k], T, c)
        BY <2>1, <2>2, <2>3, <3>1, FirstOf
      <3>3. IF c \in H THEN First(Bases[k], H, c) ELSE None(Bases[k], H)
        BY <2>1, <2>2, <2>3, <2>6, FirstOf
      <3> QED BY <2>4, <3>2, <3>3 DEF Reached, T
    <2> QED BY <2>5, <2>6
  <1>7. Reached("Decl", H)
    <2>1. "Decl" \in Kinds
      BY <1>2 DEF Rank4, Rank3, Rank2
    <2>2. /\ Lineages["Decl"] = << "Decl" >> \o Lineages["Stmt"]
          /\ Bases["Decl"] = << "Decl" >> \o Bases["Expr"]
      BY <1>1, <1>a, <2>1
    <2>3. /\ IsSequence(Lineages["Stmt"]) /\ IsSequence(Bases["Expr"])
          /\ First(Lineages["Stmt"], T, "Stmt")
      <3>1. Lineages["Stmt"] = << "Stmt" >> \o Lineages["Expr"] /\ IsSequence(Lineages["Expr"])
        BY <1>1, <1>2, <1>4, Inheritance DEF Reached, Rank4, Rank3, Rank2, Rank1
      <3> QED BY <1>4, <1>5, <3>1, FirstOf DEF Reached
    <2>4. IsSequence(Lineages["Decl"]) /\ IsSequence(Bases["Decl"])
      BY <2>2, <2>3, FirstOf
    <2>5. CASE "Decl" \in H
      <3>1. First(Lineages["Decl"], T, "Decl") /\ First(Bases["Decl"], H, "Decl")
        BY <2>2, <2>3, <2>5, FirstOf
      <3> QED BY <2>4, <2>5, <3>1 DEF Reached
    <2>6. CASE "Decl" \notin H
      <3>1. "Decl" \notin T /\ "Stmt" \notin H /\ "Expr" \notin H
        BY <2>6
      <3>2. None(Bases["Expr"], H)
        <4>1. Bases["Expr"] = << "Expr" >>
          BY <1>1, <1>2 DEF Rank4, Rank3, Rank2, Rank1
        <4> QED BY <3>1, <4>1 DEF None
      <3> HIDE DEF T
      <3>3. First(Lineages["Decl"], T, "Stmt") /\ None(Bases["Decl"], H)
        BY <2>2, <2>3, <2>6, <3>1, <3>2, FirstOf
      <3> QED BY <2>4, <3>1, <3>3 DEF Reached, T
    <2> QED BY <2>5, <2>6
  <1>8. \A k \in Rank2 : Reached(k, H)
    BY <1>2, <1>4, <1>5, <1>6, <1>7, Ranks DEF Rank4, Rank3, Rank2, Rank1
  <1>9. \A k \in Rank3 : Reached(k, H)
    BY <1>2, <1>6, <1>8, Ranks DEF Rank4, Rank3, Rank2, Rank1
  <1>10. \A k \in Rank4 : Reached(k, H)
    BY <1>2, <1>6, <1>9, Ranks DEF Rank4, Rank3, Rank2, Rank1
  <1>11. Reached("Id_expr", H)
    <2>1. "Id_expr" \in Kinds /\ {"Name", "Expr"} \subseteq Kinds
      BY DEF Kinds, ExprKinds
    <2>2. /\ Lineages["Id_expr"] = << "Id_expr" >> \o Lineages["Name"]
          /\ Lineages["Name"] = << "Name" >> \o Lineages["Expr"]
          /\ Bases["Id_expr"] = << "Id_expr" >> \o Bases["Expr"]
      BY <1>1, <1>a, <2>1
    <2>3. PICK c : /\ First(Lineages["Expr"], T, c)
                   /\ IF c \in H THEN First(Bases["Expr"], H, c) ELSE None(Bases["Expr"], H)
      BY <1>4 DEF Reached
    <2>4. IsSequence(Lineages["Expr"]) /\ IsSequence(Bases["Expr"]) /\ "Name" \notin T
      BY <1>4 DEF Reached
    <2>5. "Id_expr" \in H <=> "Id_expr" \in T
      OBVIOUS
    <2> HIDE DEF T
    <2>6. IsSequence(Lineages["Name"]) /\ First(Lineages["Name"], T, c)
      BY <2>2, <2>3, <2>4, FirstOf
    <2>7. IsSequence(Lineages["Id_expr"]) /\ IsSequence(Bases["Id_expr"])
      BY <2>2, <2>4, <2>6, FirstOf
    <2>8. CASE "Id_expr" \in H
      <3>1. First(Lineages["Id_expr"], T, "Id_expr") /\ First(Bases["Id_expr"], H, "Id_expr")
        BY <2>2, <2>4, <2>5, <2>6, <2>8, FirstOf
      <3> QED BY <2>7, <2>8, <3>1 DEF Reached, T
    <2>9. CASE "Id_expr" \notin H
      <3>1. First(Lineages["Id_expr"], T, c)
        BY <2>2, <2>5, <2>6, <2>9, FirstOf
      <3>2. IF c \in H THEN First(Bases["Id_expr"], H, c) ELSE None(Bases["Id_expr"], H)
        BY <2>2, <2>3, <2>4, <2>9, FirstOf
      <3> QED BY <2>7, <3>1, <3>2 DEF Reached, T
    <2> QED BY <2>8, <2>9
  <1>12. ASSUME NEW k \in Kinds PROVE Reached(k, H)
    <2>1. Base[k] \in Rank4
      BY Ranks
    <2> QED BY <1>4, <1>5, <1>6, <1>7, <1>10, <1>11, <2>1
  <1> QED BY <1>12

\* The visitors and their bases are sequences; all but four of them derive from
\* the visitor of primary expressions.
LEMMA LineageSequence ==
  /\ \A v \in Visitors : IsSequence(Lineage[v])
  /\ \A v \in Visitors \ {"Name", "TypeExpr", "Type", "Expr"} :
       \E j \in DOMAIN Lineage[v] : Lineage[v][j] = "Primary"
  /\ \A v \in {"Name", "TypeExpr", "Type", "Expr"} :
       DOMAIN Lineage[v] = {1} /\ Lineage[v][1] = v
  <1>1. /\ Ladder \in Seq(Visitors) /\ Len(Ladder) = 18
        /\ Ladder[1] = "Name" /\ Ladder[2] = "Primary"
    BY DEF Ladder, Visitors
  <1>2. ToSet(Ladder) = {Ladder[i] : i \in 1..18} /\ DOMAIN Ladder = 1..18
    BY <1>1 DEF ToSet
  <1>b. \A i \in 1..18 : Ladder[i] \in Visitors
    <2>1. \A s \in Seq(Visitors) : \A i \in 1..Len(s) : s[i] \in Visitors
      OBVIOUS
    <2> QED BY <1>1, <2>1
  <1>3. /\ "Expr" \notin ToSet(Ladder) /\ "TypeExpr" \notin ToSet(Ladder)
        /\ "Type" \notin ToSet(Ladder)
        /\ {"Initializer", "Stmt", "Decl"} \cap ToSet(Ladder) = {}
        /\ Visitors \subseteq ToSet(Ladder)
             \cup {"Expr", "TypeExpr", "Type", "Initializer", "Stmt", "Decl"}
        /\ \A i \in 1..18 : Ladder[i] = "Name" => i = 1
    BY <1>1, <1>2 DEF Ladder, Visitors
  <1>4. ASSUME NEW v \in ToSet(Ladder)
        PROVE  /\ IsSequence(Lineage[v])
               /\ v # "Name" => \E j \in DOMAIN Lineage[v] : Lineage[v][j] = "Primary"
               /\ v = "Name" => DOMAIN Lineage[v] = {1} /\ Lineage[v][1] = v
    <2> DEFINE m == CHOOSE i \in DOMAIN Ladder : Ladder[i] = v
    <2>1. m \in 1..18 /\ Ladder[m] = v
      BY <1>1, <1>2
    <2>2. Lineage[v] = SubSeq(Ladder, 1, m)
      <3>1. v \in Visitors /\ v \notin {"Initializer", "Stmt", "Decl"}
        <4>1. v \in Visitors
          BY <1>b, <2>1
        <4> QED BY <1>3, <4>1
      <3> QED BY <3>1, VisitorsOf DEF Lineage
    <2> HIDE DEF m
    <2>3. /\ Lineage[v] \in Seq(Visitors) /\ Len(Lineage[v]) = m
          /\ \A i \in 1..m : Lineage[v][i] = Ladder[i]
      <3>1. 1 \in 1..(Len(Ladder) + 1) /\ m \in 0..Len(Ladder) /\ 1 <= m
        BY <1>1, <2>1
      <3> QED BY <1>1, <1>b, <2>2, <3>1, SubSeqProperties
    <2>4. IsSequence(Lineage[v]) /\ DOMAIN Lineage[v] = 1..m
      BY <2>3, SequenceOf
    <2>5. CASE v = "Name"
      <3>1. m = 1
        BY <1>3, <2>1, <2>5
      <3> QED BY <1>1, <2>3, <2>4, <2>5, <3>1
    <2>6. CASE v # "Name"
      <3>1. m >= 2
        BY <1>1, <2>1, <2>6
      <3>2. 2 \in DOMAIN Lineage[v] /\ Lineage[v][2] = "Primary"
        BY <1>1, <2>1, <2>3, <2>4, <3>1
      <3> QED BY <2>4, <2>6, <3>2
    <2> QED BY <2>5, <2>6
  <1>5. ASSUME NEW v \in {"Expr", "TypeExpr", "Type"}
        PROVE  IsSequence(Lineage[v]) /\ DOMAIN Lineage[v] = {1} /\ Lineage[v][1] = v
    <2>1. Lineage[v] = << v >>
      <3>1. v \in Visitors /\ v \notin {"Initializer", "Stmt", "Decl"}
        BY DEF Visitors
      <3> QED BY <1>3, <3>1, VisitorsOf DEF Lineage
    <2> QED BY <2>1, OneElement
  <1>6. ASSUME NEW v \in {"Initializer", "Stmt", "Decl"}
        PROVE  /\ IsSequence(Lineage[v])
               /\ \E j \in DOMAIN Lineage[v] : Lineage[v][j] = "Primary"
    <2> DEFINE b == IF v = "Decl" THEN << "Stmt", "Decl" >> ELSE << v >>
    <2>1. b \in Seq(Visitors)
      <3>1. {"Initializer", "Stmt", "Decl"} \subseteq Visitors
        BY DEF Visitors
      <3>2. << "Stmt", "Decl" >> \in Seq(Visitors) /\ << v >> \in Seq(Visitors)
        BY <3>1
      <3> QED BY <3>2
    <2>2. Lineage[v] = Ladder \o b
      <3>1. v \in Visitors /\ v \notin ToSet(Ladder)
        BY <1>3 DEF Visitors
      <3>2. Append(Ladder, v) = Ladder \o << v >>
        BY <1>1, <3>1, AppendIsConcat
      <3> QED BY <3>1, <3>2, VisitorsOf DEF Lineage
    <2> HIDE DEF b
    <2>3. Lineage[v] \in Seq(Visitors) /\ 2 \in DOMAIN Lineage[v] /\ Lineage[v][2] = "Primary"
      <3>1. Len(b) \in Nat /\ Lineage[v] \in Seq(Visitors)
        BY <1>1, <2>1, <2>2
      <3>2. /\ \A i \in 1..Len(Ladder) : (Ladder \o b)[i] = Ladder[i]
            /\ Len(Ladder \o b) = Len(Ladder) + Len(b)
        BY <1>1, <2>1, SequenceOf, SequenceConcat
      <3> QED BY <1>1, <2>2, <3>1, <3>2
    <2> QED BY <2>3, SequenceOf
  <1>7. ASSUME NEW v \in Visitors
        PROVE  \/ v \in ToSet(Ladder) \/ v \in {"Expr", "TypeExpr", "Type"}
               \/ v \in {"Initializer", "Stmt", "Decl"}
    BY <1>3
  <1>8. "Name" \in ToSet(Ladder)
    BY <1>1, <1>2
  <1> QED BY <1>3, <1>4, <1>5, <1>6, <1>7, <1>8

\* No visitor of io.C has a function for names in general; which have some for
\* declarations, expressions and statements in general.
LEMMA HandledNames ==
  /\ \A c \in Visitors : "Name" \notin Handles[c]
  /\ "Decl" \in Handles["Primary"] /\ "Decl" \in Handles["Expr"]
  /\ \A c \in {"Name", "TypeExpr", "Type"} : Handles[c] \cap {"Expr", "Stmt"} = {}
  <1>1. \A table : Rows(table) => "Name" \notin DOMAIN table
    BY DEF Rows, BinaryKinds, MoreBinaryKinds
  <1>2. \A c \in DOMAIN BinaryTables : "Name" \notin DOMAIN BinaryTables[c]
    BY <1>1, RowsOf
  <1>3. \A c \in {"Mul", "Add", "Shift", "Rel", "Eq", "And", "Xor", "Ior", "Land", "Lor"} :
          "Name" \notin Handles[c]
    <2>1. \A c \in {"Mul", "Add", "Shift", "Rel", "Eq", "And", "Xor", "Ior", "Land", "Lor"} :
            c \in DOMAIN BinaryTables
      BY DEF BinaryTables
    <2> QED BY <1>2, <2>1, HandlesOf
  <1>4. \A c \in {"Name", "Primary", "Cast", "Cond", "Expr"} : "Name" \notin Handles[c]
    BY HandlesOf DEF HandledByFunction, NameKinds
  <1>5. \A c \in {"Postfix", "Unary", "Pm"} : "Name" \notin Handles[c]
    BY HandlesOf
       DEF HandledByFunction, Postfixes, NewStyleCasts, Unaries, PrefixOperators, Selections
  <1>6. "Name" \notin Handles["Assignment"]
    <2>1. \A k \in Handles.Assignment :
            k \in {"Throw", "Mapping"} \/ k \in DOMAIN BinaryTables.Assignment
      BY DEF Handles, HandledByFunction, HandledByRow, BinaryTables
    <2>2. "Assignment" \in DOMAIN BinaryTables
      BY DEF BinaryTables
    <2> QED BY <1>2, <2>1, <2>2
  <1>7. \A c \in {"TypeExpr", "Type", "Initializer", "Stmt", "Decl"} : "Name" \notin Handles[c]
    BY HandlesOf DEF HandledByFunction, SpelledTypes, StmtKinds
  <1>8. "Decl" \in Handles["Primary"] /\ "Decl" \in Handles["Expr"]
    BY HandlesOf DEF HandledByFunction
  <1>9. \A c \in {"Name", "TypeExpr", "Type"} : Handles[c] \cap {"Expr", "Stmt"} = {}
    BY HandlesOf DEF HandledByFunction, SpelledTypes, NameKinds
  <1> QED BY <1>3, <1>4, <1>5, <1>6, <1>7, <1>8, <1>9 DEF Visitors

\* The classes that a visitor or a base has functions for.
Handled(v) == UNION {Handles[Lineage[v][i]] : i \in DOMAIN Lineage[v]}

\* The visitors of io.C have functions for the classes of declarations when they
\* have for those of expressions or statements, and none for names in general.
LEMMA HandledClasses ==
  ASSUME NEW v \in Visitors
  PROVE  /\ "Name" \notin Handled(v)
         /\ "Decl" \in Handled(v) \/ Handled(v) \cap {"Expr", "Stmt"} = {}
  <1>1. "Name" \notin Handled(v)
    BY HandledNames, LineageOf DEF Handled
  <1>2. CASE \E j \in DOMAIN Lineage[v] : Lineage[v][j] = "Primary"
    BY <1>1, <1>2, HandledNames DEF Handled
  <1>3. CASE v \in {"Name", "TypeExpr", "Type", "Expr"}
    <2>1. Handled(v) = Handles[v]
      BY <1>3, LineageSequence DEF Handled
    <2> QED BY <1>1, <1>3, <2>1, HandledNames
  <1> QED BY <1>2, <1>3, LineageSequence

\* The function called is that of the first class forwarded to for which the
\* visitor or a base has one.
LEMMA Overriding ==
  ASSUME NEW v \in Visitors, NEW k \in Kinds, IsSequence(Bases[k])
  PROVE  /\ None(Bases[k], Handled(v)) => Overrider[v][k].by = "Missing_overrider"
         /\ \A c : First(Bases[k], Handled(v), c) => Overrider[v][k].visit = c
  <1> DEFINE H == Handled(v)
             Has(i, j) == Bases[k][i] \in Handles[Lineage[v][j]]
             found == {f \in (DOMAIN Bases[k]) \X (DOMAIN Lineage[v]) : Has(f[1], f[2])}
             first == {f \in found : \A g \in found :
                                       f[1] < g[1] \/ (f[1] = g[1] /\ f[2] >= g[2])}
             f0 == CHOOSE f \in first : TRUE
  <1>1. Overrider[v][k] =
          IF first = {} THEN [by |-> "Missing_overrider", visit |-> k]
          ELSE [by |-> Lineage[v][f0[2]], visit |-> Bases[k][f0[1]]]
    BY VisitorsOf, Zenon DEF Overrider
  <1>2. \A f \in found : /\ f[1] \in DOMAIN Bases[k] /\ f[2] \in DOMAIN Lineage[v]
                         /\ Bases[k][f[1]] \in H
    BY DEF Handled
  <1>h. \A c : c \in H => \E l \in DOMAIN Lineage[v] : c \in Handles[Lineage[v][l]]
    BY DEF Handled
  <1> HIDE DEF H
  <1>3. ASSUME None(Bases[k], H) PROVE Overrider[v][k].by = "Missing_overrider"
    <2>1. found = {}
      BY <1>2, <1>3 DEF None
    <2>2. first = {}
      BY <2>1
    <2> HIDE DEF first, found
    <2> QED BY <1>1, <2>2
  <1>4. ASSUME NEW c, First(Bases[k], H, c) PROVE Overrider[v][k].visit = c
    <2>1. PICK i \in DOMAIN Bases[k] :
            Bases[k][i] = c /\ c \in H /\ \A j \in 1..(i - 1) : Bases[k][j] \notin H
      BY <1>4 DEF First
    <2>2. PICK j \in DOMAIN Lineage[v] : Has(i, j) /\ \A l \in DOMAIN Lineage[v] : Has(i,
            l) => l <= j
      <3> DEFINE S == {n \in Nat : (\E l \in DOMAIN Lineage[v] : Has(i, l) /\ l <= n) =>
                         \E j \in DOMAIN Lineage[v] : Has(i, j) /\ j <= n
                            /\ \A l \in DOMAIN Lineage[v] : Has(i, l) /\ l <= n => l <= j}
      <3>1. DOMAIN Lineage[v] = 1..Len(Lineage[v]) /\ Len(Lineage[v]) \in Nat
        BY LineageSequence DEF IsSequence
      <3> HIDE DEF Has
      <3>2. 0 \in S
        BY <3>1
      <3>3. ASSUME NEW n \in Nat, n \in S PROVE n + 1 \in S
        <4>1. CASE n + 1 \in DOMAIN Lineage[v] /\ Has(i, n + 1)
          BY <3>1, <4>1
        <4>2. CASE ~(n + 1 \in DOMAIN Lineage[v] /\ Has(i, n + 1))
          <5>1. \A l \in DOMAIN Lineage[v] : Has(i, l) => (l <= n + 1 <=> l <= n)
            BY <3>1, <4>2
          <5> QED BY <3>3, <5>1, <3>1
        <4> QED BY <4>1, <4>2
      <3> HIDE DEF S
      <3>4. Nat \subseteq S
        BY <3>2, <3>3, Induction
      <3>5. Len(Lineage[v]) \in S
        BY <3>1, <3>4
      <3>6. \E l \in DOMAIN Lineage[v] : Has(i, l)
        BY <1>h, <2>1 DEF Has
      <3> QED BY <3>1, <3>5, <3>6 DEF S
    <2> DEFINE p == <<i, j>>
    <2>3. p \in found /\ p[1] = i /\ p[2] = j
      BY <2>1, <2>2
    <2>4. ASSUME NEW g \in found PROVE i < g[1] \/ (i = g[1] /\ j >= g[2])
      <3>1. DOMAIN Bases[k] = 1..Len(Bases[k]) /\ Len(Bases[k]) \in Nat
        BY DEF IsSequence
      <3>2. DOMAIN Lineage[v] = 1..Len(Lineage[v]) /\ Len(Lineage[v]) \in Nat
        BY LineageSequence DEF IsSequence
      <3>3. g[1] \in DOMAIN Bases[k] /\ g[2] \in DOMAIN Lineage[v] /\ Has(g[1],
              g[2]) /\ Bases[k][g[1]] \in H
        BY <1>2
      <3> HIDE DEF Has, found
      <3>4. g[1] >= i
        BY <2>1, <3>1, <3>3
      <3> QED BY <2>1, <2>2, <3>1, <3>2, <3>3, <3>4
    <2> HIDE DEF p
    <2>5. p \in first
      BY <2>3, <2>4
    <2>6. \A f \in first : f[1] = i
      <3>1. \A f \in first : f \in found /\ (f[1] < p[1] \/ f[1] = p[1])
        BY <2>3
      <3>2. i \in Nat /\ \A f \in found : f[1] \in Nat
        <4>1. DOMAIN Bases[k] = 1..Len(Bases[k]) /\ Len(Bases[k]) \in Nat
          BY DEF IsSequence
        <4> QED BY <1>2, <2>1, <4>1
      <3> HIDE DEF found, first
      <3> QED BY <2>3, <2>4, <3>1, <3>2
    <2> HIDE DEF first
    <2>7. f0 \in first
      BY <2>5
    <2> QED BY <1>1, <2>1, <2>5, <2>6, <2>7
  <1> QED BY <1>3, <1>4 DEF H

\* What is called for a node is the function for the nearest class that interface.H
\* derives it from and that the visitor has one for; it throws when there is none.
THEOREM FunctionsForwarded == Spec => []Forwarded
  <1>1. PlaceInv => Forwarded
    <2> SUFFICES ASSUME PlaceInv, Doing("visit") PROVE Forwarded
      BY DEF Forwarded
    <2> DEFINE v == Head(todo).as
               k == Head(todo).node.kind
               H == Handled(v)
    <2>1. v \in Visitors /\ k \in Kinds
      <3>1. IsItem(Head(todo)) \/ IsReturn(Head(todo))
        BY PlacedTail DEF PlaceInv, Doing
      <3> QED BY <3>1, VisitorsOf, NodesAssumption DEF IsItem, IsReturn, Doing, WellFormed
    <2> HIDE DEF v, k, H
    <2>2. Reached(k, H)
      BY <2>1, HandledClasses, Reaching DEF H
    <2>3. /\ None(Bases[k], H) => Overrider[v][k].by = "Missing_overrider"
          /\ \A c : First(Bases[k], H, c) => Overrider[v][k].visit = c
      BY <2>1, <2>2, Overriding DEF H, Reached
    <2>4. PICK c : /\ First(Lineages[k], H \cup {"Expr", "Stmt"}, c)
                   /\ IF c \in H THEN First(Bases[k], H, c) ELSE None(Bases[k], H)
      BY <2>2 DEF Reached
    <2>5. PICK i \in DOMAIN Lineages[k] :
            /\ Lineages[k][i] = c /\ c \in H \cup {"Expr", "Stmt"}
            /\ \A j \in 1..(i - 1) : Lineages[k][j] \notin H \cup {"Expr", "Stmt"}
      BY <2>4 DEF First
    <2>6. IF Lineages[k][i] \in H THEN Overrider[v][k].visit = Lineages[k][i]
          ELSE Overrider[v][k].by = "Missing_overrider"
      BY <2>3, <2>4, <2>5
    <2> QED BY <2>5, <2>6 DEF Forwarded, v, k, H, Handled
  <1> QED BY <1>1, PrinterInvariance, PTL
=============================================================================
