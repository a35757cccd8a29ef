-------------------------- MODULE StringArena_proofs --------------------------
(***************************************************************************)
(* What holds of the arena for every header size, pool size and set of     *)
(* lengths: the strings of a pool lie one behind another.                  *)
(***************************************************************************)
EXTENDS StringArena, SequenceTheorems, TLAPS

\* The first header behind string s.
Behind(s) == s.first + HeaderCount(s.length)

\* Strings of one pool are laid out in the order they were made, and the
\* current pool's next_header is behind all of them.
IInv ==
  /\ TypeOK
  /\ ~dying => mem \in Pool
  /\ \A i \in DOMAIN strings : strings[i].length \in Lengths
  /\ ~dying => \A i \in DOMAIN strings : strings[i].pool = mem => Behind(strings[i]) <= next
  /\ \A i, j \in DOMAIN strings :
       i < j /\ strings[i].pool = strings[j].pool => Behind(strings[i]) <= strings[j].first

\* Quotients by a positive number, as the division of the solvers has them.
LEMMA Quotient ==
  ASSUME NEW a \in Nat, NEW h \in Nat \ {0}
  PROVE  /\ a \div h \in Nat
         /\ a < (a \div h + 1) * h
  OBVIOUS

\* The headers given to a string of length n hold its length and characters.
LEMMA Sufficient ==
  ASSUME NEW n \in Nat
  PROVE  /\ HeaderCount(n) \in Nat
         /\ HeaderSize - IntSize + n <= HeaderCount(n) * HeaderSize
  <1>1. IntSize \in Nat \ {0} /\ HeaderSize \in Nat \ {0} /\ HeaderSize = IntSize + IntSize
    BY SizeAssumption DEF HeaderSize
  <1> DEFINE a == n - IntSize + HeaderSize - 1
  <1>2. a \in Nat /\ a = n + IntSize - 1
    BY <1>1
  <1>3. a \div HeaderSize \in Nat /\ a < (a \div HeaderSize + 1) * HeaderSize
    <2> HIDE DEF a
    <2> QED BY <1>1, <1>2, Quotient
  <1>4. HeaderCount(n) = a \div HeaderSize + 1
    BY DEF HeaderCount
  <1>5. HeaderCount(n) * HeaderSize \in Nat
    <2> HIDE DEF a
    <2> QED BY <1>1, <1>3, <1>4
  <1> HIDE DEF a
  <1> QED BY <1>1, <1>2, <1>3, <1>4, <1>5

\* A string that starts at or behind the end of another shares no byte with it.
LEMMA Apart ==
  ASSUME NEW s \in StringRecord, NEW t \in StringRecord, Behind(s) <= t.first
  PROVE  EndByte(s) <= FirstByte(t)
  <1>1. s.first \in Nat /\ s.length \in Nat /\ t.first \in Nat
    BY DEF StringRecord
  <1>2. HeaderSize \in Nat /\ IntSize \in Nat
    BY SizeAssumption DEF HeaderSize
  <1> DEFINE m == HeaderCount(s.length)
             h == HeaderSize
  <1>3. m \in Nat /\ h - IntSize + s.length <= m * h
    BY <1>1, Sufficient
  <1>4. s.first + m <= t.first
    BY DEF Behind
  <1>5. EndByte(s) = s.first * h + (h - IntSize) + s.length /\ FirstByte(t) = t.first * h
    BY DEF EndByte, FirstByte
  <1> HIDE DEF m, h
  <1>6. h \in Nat
    BY <1>2 DEF h
  <1>7. (s.first + m) * h <= t.first * h
    BY <1>1, <1>3, <1>4, <1>6
  <1>8. (s.first + m) * h = s.first * h + m * h
    BY <1>1, <1>3, <1>6
  <1>9. s.first * h \in Nat /\ m * h \in Nat /\ t.first * h \in Nat
    BY <1>1, <1>3, <1>6
  <1> QED BY <1>1, <1>2, <1>3, <1>5, <1>6, <1>7, <1>8, <1>9

LEMMA StringsTyped ==
  ASSUME TypeOK, NEW i \in DOMAIN strings
  PROVE  /\ strings[i].pool \in Pool /\ strings[i].first \in Nat /\ strings[i].length \in Nat
         /\ strings[i] \in StringRecord /\ i \in Nat
  <1>1. i \in 1..Len(strings) /\ strings \in Seq(StringRecord)
    BY DEF TypeOK
  <1>2. strings[i] \in StringRecord
    BY <1>1, ElementOfSeq
  <1> QED BY <1>1, <1>2 DEF StringRecord

\* What a new string does to the two facts about layout, wherever it is put:
\* behind the strings of the pool that has it.
LEMMA AppendString ==
  ASSUME IInv, NEW p \in Nat, NEW first \in Nat, NEW n \in Lengths,
         \A i \in DOMAIN strings : strings[i].pool = p => Behind(strings[i]) <= first,
         strings' = Made(p, first, n)
  PROVE  /\ DOMAIN strings' = DOMAIN strings \cup {Len(strings) + 1}
         /\ \A i \in DOMAIN strings : strings'[i] = strings[i]
         /\ strings'[Len(strings) + 1] = [pool |-> p, first |-> first, length |-> n]
         /\ \A i \in DOMAIN strings' : strings'[i].length \in Lengths
         /\ \A i, j \in DOMAIN strings' :
              i < j /\ strings'[i].pool = strings'[j].pool =>
                Behind(strings'[i]) <= strings'[j].first
  <1> DEFINE s == [pool |-> p, first |-> first, length |-> n]
             l == Len(strings)
  <1>1. strings \in Seq(StringRecord) /\ l \in Nat /\ DOMAIN strings = 1..l
    BY DEF IInv, TypeOK
  <1>2. s.pool = p /\ s.first = first /\ s.length = n
    OBVIOUS
  <1>3. strings' = Append(strings, s)
    BY DEF Made
  <1> HIDE DEF s
  <1>4. DOMAIN strings' = 1..(l + 1) /\ (\A i \in 1..l : strings'[i] = strings[i]) /\ strings'[l + 1] = s
    BY <1>1, <1>3
  <1> HIDE DEF l
  <1>5. \A i \in 1..(l + 1) : i \in 1..l \/ i = l + 1
    BY <1>1
  <1>6. \A i \in 1..l : strings[i].length \in Lengths
    BY <1>1 DEF IInv
  <1>7. \A i \in DOMAIN strings' : strings'[i].length \in Lengths
    BY <1>2, <1>4, <1>5, <1>6
  <1>8. ASSUME NEW i \in DOMAIN strings', NEW j \in DOMAIN strings', i < j,
               strings'[i].pool = strings'[j].pool
        PROVE  Behind(strings'[i]) <= strings'[j].first
    <2>1. i \in 1..l
      BY <1>1, <1>4, <1>8
    <2>2. CASE j = l + 1
      BY <1>1, <1>2, <1>4, <1>8, <2>1, <2>2
    <2>3. CASE j \in 1..l
      <3>1. strings'[i] = strings[i] /\ strings'[j] = strings[j]
        BY <1>4, <2>1, <2>3
      <3>2. i \in DOMAIN strings /\ j \in DOMAIN strings
        BY <1>1, <2>1, <2>3
      <3>3. Behind(strings[i]) <= strings[j].first
        BY <1>8, <3>1, <3>2 DEF IInv
      <3> QED BY <3>1, <3>3
    <2> QED BY <1>4, <1>5, <2>2, <2>3
  <1>9. 1..(l + 1) = 1..l \cup {l + 1}
    BY <1>1
  <1> QED BY <1>1, <1>4, <1>7, <1>8, <1>9 DEF s, l

\* The type of what allocate leaves behind when it takes a new pool.
LEMMA NewPool ==
  ASSUME TypeOK, NEW link \in Pool \cup {0}, NEW more \in Nat, NEW n \in Nat,
         NEW old \in Seq(Pool \cup {0, pools + 1}), Len(old) = pools,
         pools' = pools + 1, alive' = alive \cup {pools + 1},
         extra' = Append(extra, more), previous' = Append(old, link),
         strings' = Made(pools + 1, 0, n)
  PROVE  /\ pools' \in Nat \ {0} /\ alive' \subseteq Pool' /\ strings' \in Seq(StringRecord')
         /\ previous' \in Seq(Pool' \cup {0}) /\ Len(previous') = pools'
         /\ extra' \in Seq(Nat) /\ Len(extra') = pools'
         /\ Pool \subseteq Pool' /\ pools + 1 \in Pool'
         /\ \A i \in DOMAIN strings : strings[i].pool # pools + 1
  <1>1. pools \in Nat \ {0} /\ Pool = 1..pools /\ Pool' = 1..(pools + 1)
    BY DEF TypeOK, Pool
  <1>2. Pool \subseteq Pool' /\ pools + 1 \in Pool' /\ pools + 1 \notin Pool
    BY <1>1
  <1>3. StringRecord \subseteq StringRecord'
    BY <1>2 DEF StringRecord
  <1>4. [pool |-> pools + 1, first |-> 0, length |-> n] \in StringRecord'
    BY <1>2 DEF StringRecord
  <1>5. strings' \in Seq(StringRecord')
    BY <1>3, <1>4 DEF TypeOK, Made
  <1>6. extra' \in Seq(Nat) /\ Len(extra') = pools'
    BY <1>1 DEF TypeOK
  <1>7. previous' \in Seq(Pool' \cup {0}) /\ Len(previous') = pools'
    <2>1. Pool \cup {0, pools + 1} \subseteq Pool' \cup {0}
      BY <1>2
    <2>2. old \in Seq(Pool' \cup {0}) /\ link \in Pool' \cup {0}
      BY <1>2, <2>1
    <2> QED BY <1>1, <2>2
  <1>8. \A i \in DOMAIN strings : strings[i].pool \in Pool
    BY StringsTyped
  <1>9. \A i \in DOMAIN strings : strings[i].pool # pools + 1
    BY <1>2, <1>8
  <1>10. pools' \in Nat \ {0} /\ alive' \subseteq Pool'
    BY <1>1, <1>2 DEF TypeOK
  <1> QED BY <1>2, <1>5, <1>6, <1>7, <1>9, <1>10

LEMMA GrabStep ==
  ASSUME IInv, NEW n \in Lengths, Grab(n)
  PROVE  IInv'
  <1>0. /\ ~dying /\ mem \in Pool /\ next \in Nat /\ n \in Nat /\ HeaderCount(n) \in Nat
        /\ strings' = Made(mem, next, n) /\ next' = next + HeaderCount(n)
        /\ UNCHANGED <<pools, alive, previous, extra, mem, dying>>
        /\ Pool \subseteq Nat
    <2>1. ~dying /\ strings' = Made(mem, next, n) /\ next' = next + HeaderCount(n)
          /\ UNCHANGED <<pools, alive, previous, extra, mem, dying>>
      BY Zenon DEF Grab, CanMake
    <2>2. next \in Nat /\ Pool \subseteq Nat
      BY DEF IInv, TypeOK, Pool
    <2>3. n \in Nat /\ HeaderCount(n) \in Nat
      BY LengthAssumption, Sufficient
    <2> QED BY <2>1, <2>2, <2>3 DEF IInv
  <1>1. \A i \in DOMAIN strings : strings[i].pool = mem => Behind(strings[i]) <= next
    BY <1>0 DEF IInv
  <1>2. /\ DOMAIN strings' = DOMAIN strings \cup {Len(strings) + 1}
        /\ \A i \in DOMAIN strings : strings'[i] = strings[i]
        /\ strings'[Len(strings) + 1] = [pool |-> mem, first |-> next, length |-> n]
        /\ \A i \in DOMAIN strings' : strings'[i].length \in Lengths
        /\ \A i, j \in DOMAIN strings' :
             i < j /\ strings'[i].pool = strings'[j].pool =>
               Behind(strings'[i]) <= strings'[j].first
    BY <1>0, <1>1, AppendString
  <1>3. TypeOK'
    <2>1. [pool |-> mem, first |-> next, length |-> n] \in StringRecord
      BY <1>0 DEF StringRecord
    <2>2. strings' \in Seq(StringRecord)
      BY <1>0, <2>1 DEF Made, IInv, TypeOK
    <2> QED BY <1>0, <2>2 DEF IInv, TypeOK, Pool, StringRecord
  <1>4. \A i \in DOMAIN strings' : strings'[i].pool = mem => Behind(strings'[i]) <= next'
    <2>1. ASSUME NEW i \in DOMAIN strings, strings[i].pool = mem
          PROVE  Behind(strings[i]) <= next'
      <3>1. strings[i].first \in Nat /\ HeaderCount(strings[i].length) \in Nat
        BY StringsTyped, Sufficient DEF IInv
      <3> QED BY <1>0, <1>1, <2>1, <3>1 DEF Behind
    <2>2. Behind(strings'[Len(strings) + 1]) <= next'
      BY <1>0, <1>2 DEF Behind
    <2> QED BY <1>2, <2>1, <2>2
  <1> QED BY <1>0, <1>2, <1>3, <1>4 DEF IInv, Pool, Behind, HeaderCount, HeaderSize

LEMMA GiveOwnPoolStep ==
  ASSUME IInv, NEW n \in Lengths, GiveOwnPool(n)
  PROVE  IInv'
  <1>0. /\ ~dying /\ mem \in Pool /\ next \in Nat /\ n \in Nat /\ n - BufSize \in Nat
        /\ pools \in Nat \ {0} /\ previous \in Seq(Pool \cup {0}) /\ Len(previous) = pools
        /\ Pool = 1..pools
        /\ pools' = pools + 1 /\ alive' = alive \cup {pools + 1}
        /\ extra' = Append(extra, n - BufSize)
        /\ previous' = Append([previous EXCEPT ![mem] = pools + 1], previous[mem])
        /\ strings' = Made(pools + 1, 0, n) /\ UNCHANGED <<mem, next, dying>>
    BY LengthAssumption, SizeAssumption DEF IInv, TypeOK, GiveOwnPool, CanMake, Pool
  <1>1. /\ [previous EXCEPT ![mem] = pools + 1] \in Seq(Pool \cup {0, pools + 1})
        /\ Len([previous EXCEPT ![mem] = pools + 1]) = pools
    <2>1. previous \in Seq(Pool \cup {0, pools + 1}) /\ mem \in 1..Len(previous)
      BY <1>0
    <2>2. pools + 1 \in Pool \cup {0, pools + 1}
      OBVIOUS
    <2> QED BY <1>0, <2>1, <2>2, ExceptSeq
  <1>2. /\ pools' \in Nat \ {0} /\ alive' \subseteq Pool' /\ strings' \in Seq(StringRecord')
        /\ previous' \in Seq(Pool' \cup {0}) /\ Len(previous') = pools'
        /\ extra' \in Seq(Nat) /\ Len(extra') = pools'
        /\ Pool \subseteq Pool' /\ pools + 1 \in Pool'
        /\ \A i \in DOMAIN strings : strings[i].pool # pools + 1
    <2> DEFINE old == [previous EXCEPT ![mem] = pools + 1]
    <2>1. previous[mem] \in Pool \cup {0} /\ TypeOK
      BY <1>0 DEF IInv
    <2>2. /\ old \in Seq(Pool \cup {0, pools + 1}) /\ Len(old) = pools
          /\ previous' = Append(old, previous[mem])
      BY <1>0, <1>1
    <2> HIDE DEF old
    <2> QED BY <1>0, <2>1, <2>2, NewPool
  <1>3. /\ DOMAIN strings' = DOMAIN strings \cup {Len(strings) + 1}
        /\ \A i \in DOMAIN strings : strings'[i] = strings[i]
        /\ strings'[Len(strings) + 1] = [pool |-> pools + 1, first |-> 0, length |-> n]
        /\ \A i \in DOMAIN strings' : strings'[i].length \in Lengths
        /\ \A i, j \in DOMAIN strings' :
             i < j /\ strings'[i].pool = strings'[j].pool =>
               Behind(strings'[i]) <= strings'[j].first
    BY <1>0, <1>2, AppendString
  <1>4. TypeOK'
    BY <1>0, <1>2 DEF IInv, TypeOK
  <1>5. \A i \in DOMAIN strings' : strings'[i].pool = mem => Behind(strings'[i]) <= next'
    <2>1. \A i \in DOMAIN strings : strings[i].pool = mem => Behind(strings[i]) <= next
      BY <1>0 DEF IInv
    <2>2. mem # pools + 1
      BY <1>0
    <2> QED BY <1>0, <1>3, <2>1, <2>2
  <1> QED BY <1>0, <1>2, <1>3, <1>4, <1>5 DEF IInv, Behind, HeaderCount, HeaderSize

LEMMA OpenPoolStep ==
  ASSUME IInv, NEW n \in Lengths, OpenPool(n)
  PROVE  IInv'
  <1>0. /\ ~dying /\ mem \in Pool /\ n \in Nat /\ HeaderCount(n) \in Nat
        /\ pools \in Nat \ {0} /\ previous \in Seq(Pool \cup {0}) /\ Len(previous) = pools
        /\ Pool = 1..pools
        /\ pools' = pools + 1 /\ alive' = alive \cup {pools + 1}
        /\ extra' = Append(extra, 0) /\ previous' = Append(previous, mem)
        /\ mem' = pools + 1 /\ next' = HeaderCount(n)
        /\ strings' = Made(pools + 1, 0, n) /\ UNCHANGED dying
    BY LengthAssumption, Sufficient DEF IInv, TypeOK, OpenPool, CanMake, Pool
  <1>1. /\ pools' \in Nat \ {0} /\ alive' \subseteq Pool' /\ strings' \in Seq(StringRecord')
        /\ previous' \in Seq(Pool' \cup {0}) /\ Len(previous') = pools'
        /\ extra' \in Seq(Nat) /\ Len(extra') = pools'
        /\ Pool \subseteq Pool' /\ pools + 1 \in Pool'
        /\ \A i \in DOMAIN strings : strings[i].pool # pools + 1
    <2>1. previous \in Seq(Pool \cup {0, pools + 1}) /\ Len(previous) = pools
      BY <1>0
    <2>2. mem \in Pool \cup {0} /\ TypeOK /\ 0 \in Nat
      BY <1>0 DEF IInv
    <2> QED BY <1>0, <2>1, <2>2, NewPool
  <1>2. /\ DOMAIN strings' = DOMAIN strings \cup {Len(strings) + 1}
        /\ \A i \in DOMAIN strings : strings'[i] = strings[i]
        /\ strings'[Len(strings) + 1] = [pool |-> pools + 1, first |-> 0, length |-> n]
        /\ \A i \in DOMAIN strings' : strings'[i].length \in Lengths
        /\ \A i, j \in DOMAIN strings' :
             i < j /\ strings'[i].pool = strings'[j].pool =>
               Behind(strings'[i]) <= strings'[j].first
    BY <1>0, <1>1, AppendString
  <1>3. TypeOK'
    BY <1>0, <1>1 DEF IInv, TypeOK
  <1>4. \A i \in DOMAIN strings' : strings'[i].pool = mem' => Behind(strings'[i]) <= next'
    <2>1. Behind(strings'[Len(strings) + 1]) <= next'
      BY <1>0, <1>2 DEF Behind
    <2> QED BY <1>0, <1>1, <1>2, <2>1
  <1> QED BY <1>0, <1>1, <1>2, <1>3, <1>4 DEF IInv, Behind, HeaderCount, HeaderSize

LEMMA InitIInv ==
  ASSUME Init
  PROVE  IInv
  <1>1. Pool = {1} /\ strings = <<>> /\ DOMAIN strings = {} /\ pools = 1 /\ mem = 1
    BY DEF Init, Pool
  <1>2. strings \in Seq(StringRecord)
    BY <1>1
  <1>3. previous \in Seq(Pool \cup {0}) /\ Len(previous) = 1 /\ extra \in Seq(Nat) /\ Len(extra) = 1
    BY DEF Init
  <1>4. pools \in Nat \ {0} /\ alive \subseteq Pool /\ mem \in Pool /\ next \in Nat /\ dying = FALSE
    BY <1>1 DEF Init
  <1>5. TypeOK
    BY <1>1, <1>2, <1>3, <1>4 DEF TypeOK
  <1> QED BY <1>1, <1>4, <1>5 DEF IInv

LEMMA NextIInv ==
  ASSUME IInv, [Next]_vars
  PROVE  IInv'
  <1>1. CASE BeginDestroy
    BY <1>1 DEF BeginDestroy, IInv, TypeOK, Pool, StringRecord, Behind, HeaderCount, HeaderSize
  <1>2. CASE Free
    <2>1. /\ dying /\ mem \in Pool /\ alive' \subseteq alive /\ mem' = previous[mem]
          /\ UNCHANGED <<pools, previous, extra, next, strings, dying>>
      BY <1>2 DEF Free, IInv, TypeOK
    <2>2. mem' \in Pool \cup {0}
      <3>1. previous \in Seq(Pool \cup {0}) /\ mem \in 1..Len(previous)
        BY <2>1 DEF IInv, TypeOK, Pool
      <3> QED BY <2>1, <3>1, ElementOfSeq
    <2> QED BY <2>1, <2>2 DEF IInv, TypeOK, Pool, StringRecord, Behind, HeaderCount, HeaderSize
  <1>3. CASE UNCHANGED vars
    BY <1>3 DEF vars, IInv, TypeOK, Pool, StringRecord, Behind, HeaderCount, HeaderSize
  <1> QED BY <1>1, <1>2, <1>3, GrabStep, GiveOwnPoolStep, OpenPoolStep DEF Next

THEOREM Invariance == Spec => []IInv
  <1>1. Init => IInv
    BY InitIInv
  <1>2. IInv /\ [Next]_vars => IInv'
    BY NextIInv
  <1> QED BY <1>1, <1>2, PTL DEF Spec

\* The shapes of the arena's state, for every size of header and pool.
THEOREM TypeCorrect == Spec => []TypeOK
  <1>1. IInv => TypeOK
    BY DEF IInv
  <1> QED BY <1>1, Invariance, PTL

\* The strings of one pool do not overlap, be they inside it or not.
LEMMA OnePoolApart ==
  ASSUME IInv, NEW i \in DOMAIN strings, NEW j \in DOMAIN strings,
         i # j, strings[i].pool = strings[j].pool
  PROVE  \/ EndByte(strings[i]) <= FirstByte(strings[j])
         \/ EndByte(strings[j]) <= FirstByte(strings[i])
  <1>1. strings[i] \in StringRecord /\ strings[j] \in StringRecord /\ i \in Nat /\ j \in Nat
    BY StringsTyped DEF IInv
  <1>2. CASE i < j
    BY <1>1, <1>2, Apart DEF IInv
  <1>3. CASE j < i
    BY <1>1, <1>3, Apart DEF IInv
  <1> QED BY <1>1, <1>2, <1>3

\* As long as every string lies inside its pool, no two strings of the arena share
\* a byte: allocate, whichever of its branches it takes, puts a string behind those
\* that its pool has.
THEOREM PermanentStrings == Spec => []StringsDisjoint
  <1>1. IInv => StringsDisjoint
    BY OnePoolApart DEF StringsDisjoint
  <1> QED BY <1>1, Invariance, PTL

-----------------------------------------------------------------------------
\* A pool that was made larger holds one string, from its first header, and is
\* larger by what the string has more characters than a pool has headers; no
\* other is put there, as it is never the current one.
OwnPools ==
  /\ ~dying => extra[mem] = 0
  /\ \A i \in DOMAIN strings : extra[strings[i].pool] > 0 =>
       strings[i].first = 0 /\ strings[i].length = extra[strings[i].pool] + BufSize

\* The sizes of pools, as the list of them grows.
LEMMA AppendExtra ==
  ASSUME TypeOK, NEW x \in Nat, extra' = Append(extra, x)
  PROVE  /\ \A p \in Pool : extra'[p] = extra[p]
         /\ extra'[pools + 1] = x
  <1>1. extra \in Seq(Nat) /\ Len(extra) = pools /\ Pool = 1..pools
    BY DEF TypeOK, Pool
  <1> QED BY <1>1, AppendProperties

LEMMA OwnPoolsStep ==
  ASSUME IInv, OwnPools, [Next]_vars
  PROVE  OwnPools'
  <1>1. TypeOK /\ pools \in Nat /\ (~dying => mem \in Pool /\ mem \in Nat) /\ Len(strings) \in Nat
    BY DEF IInv, TypeOK, Pool
  <1>2. DOMAIN strings = 1..Len(strings)
    BY <1>1 DEF TypeOK
  <1>3. ASSUME NEW n \in Lengths, Grab(n)
        PROVE  OwnPools'
    <2>1. /\ ~dying /\ next \in Nat /\ strings' = Made(mem, next, n)
          /\ UNCHANGED <<extra, mem, dying>>
      BY <1>1, <1>3 DEF Grab, CanMake, TypeOK
    <2>2. \A i \in DOMAIN strings : strings[i].pool = mem => Behind(strings[i]) <= next
      BY <2>1 DEF IInv
    <2>3. /\ DOMAIN strings' = DOMAIN strings \cup {Len(strings) + 1}
          /\ \A i \in DOMAIN strings : strings'[i] = strings[i]
          /\ strings'[Len(strings) + 1].pool = mem
      <3>1. mem \in Nat
        BY <1>1, <2>1
      <3>2. /\ DOMAIN strings' = DOMAIN strings \cup {Len(strings) + 1}
            /\ \A i \in DOMAIN strings : strings'[i] = strings[i]
            /\ strings'[Len(strings) + 1] = [pool |-> mem, first |-> next, length |-> n]
        BY <2>1, <2>2, <3>1, AppendString
      <3> QED BY <3>2
    <2>4. extra[mem] = 0
      BY <2>1 DEF OwnPools
    <2> QED BY <2>1, <2>3, <2>4 DEF OwnPools
  <1>4. ASSUME NEW n \in Lengths, GiveOwnPool(n) \/ OpenPool(n)
        PROVE  OwnPools'
    <2>1. n \in Nat /\ BufSize \in Nat
      BY LengthAssumption, SizeAssumption
    <2>2. PICK x \in Nat :
            /\ x > 0 => n = x + BufSize
            /\ ~dying /\ ~dying' /\ extra' = Append(extra, x) /\ strings' = Made(pools + 1, 0, n)
            /\ mem' = mem \/ (mem' = pools + 1 /\ x = 0)
      <3>1. CASE GiveOwnPool(n)
        <4>1. n - BufSize \in Nat /\ (n - BufSize > 0 => n = (n - BufSize) + BufSize)
          BY <2>1, <3>1 DEF GiveOwnPool
        <4> QED BY <4>1, <3>1 DEF GiveOwnPool, CanMake
      <3>2. CASE OpenPool(n)
        BY <3>2 DEF OpenPool, CanMake
      <3> QED BY <1>4, <3>1, <3>2
    <2>3. \A p \in Pool : extra'[p] = extra[p]
      BY <1>1, <2>2, AppendExtra
    <2>4. extra'[pools + 1] = x
      BY <1>1, <2>2, AppendExtra
    <2>5. \A i \in DOMAIN strings : strings[i].pool \in Pool /\ strings[i].pool # pools + 1
      BY <1>1, StringsTyped DEF Pool
    <2>6. /\ DOMAIN strings' = DOMAIN strings \cup {Len(strings) + 1}
          /\ \A i \in DOMAIN strings : strings'[i] = strings[i]
          /\ strings'[Len(strings) + 1] = [pool |-> pools + 1, first |-> 0, length |-> n]
      <3> DEFINE p == pools + 1
      <3>1. p \in Nat /\ 0 \in Nat
        BY <1>1
      <3>2. \A i \in DOMAIN strings : strings[i].pool = p => Behind(strings[i]) <= 0
        BY <2>5
      <3>3. strings' = Made(p, 0, n)
        BY <2>2
      <3> HIDE DEF p
      <3>4. /\ DOMAIN strings' = DOMAIN strings \cup {Len(strings) + 1}
            /\ \A i \in DOMAIN strings : strings'[i] = strings[i]
            /\ strings'[Len(strings) + 1] = [pool |-> p, first |-> 0, length |-> n]
        BY <3>1, <3>2, <3>3, AppendString
      <3> QED BY <3>4 DEF p
    <2>7. extra'[mem'] = 0
      BY <1>1, <2>2, <2>3, <2>4 DEF OwnPools
    <2>8. ASSUME NEW i \in DOMAIN strings', extra'[strings'[i].pool] > 0
          PROVE  strings'[i].first = 0 /\ strings'[i].length = extra'[strings'[i].pool] + BufSize
      <3>1. CASE i \in DOMAIN strings
        BY <2>3, <2>5, <2>6, <2>8, <3>1 DEF OwnPools
      <3>2. CASE i = Len(strings) + 1
        <4>1. strings'[i].pool = pools + 1 /\ strings'[i].first = 0 /\ strings'[i].length = n
          BY <2>6, <3>2
        <4>2. extra'[strings'[i].pool] = x
          BY <2>4, <4>1
        <4> QED BY <2>2, <2>8, <4>1, <4>2
      <3> QED BY <2>6, <3>1, <3>2
    <2> QED BY <2>7, <2>8 DEF OwnPools
  <1>5. CASE BeginDestroy \/ Free
    BY <1>5 DEF BeginDestroy, Free, OwnPools
  <1>6. CASE UNCHANGED vars
    BY <1>6 DEF vars, OwnPools
  <1> QED BY <1>3, <1>4, <1>5, <1>6 DEF Next

\* The excess of half a header and a string over its pool, in bytes, is less
\* than what the headers of a pool have more than one byte each.
LEMMA Excess ==
  ASSUME NEW h \in Nat \ {0}, NEW b \in Nat \ {0}, NEW e \in Nat
  PROVE  h + (e + b) <= b * (h + h) + e
  <1>1. b * (h + h) = b * h + b * h
    OBVIOUS
  <1>2. b * h >= b /\ b * h >= h
    OBVIOUS
  <1> QED BY <1>1, <1>2

\* The second branch of allocate takes enough: a string with a pool of its own
\* ends inside it, although the size of the pool is computed from a number of
\* characters less a number of headers (utility.C:69).
THEOREM OwnPoolsSuffice == Spec => []OwnPoolFits
  <1>1. Init => OwnPools
    BY DEF Init, OwnPools
  <1>2. IInv /\ OwnPools /\ [Next]_vars => OwnPools'
    BY OwnPoolsStep
  <1>3. IInv /\ OwnPools => OwnPoolFits
    <2> SUFFICES ASSUME IInv, OwnPools, NEW i \in DOMAIN strings, extra[strings[i].pool] > 0
                 PROVE  EndByte(strings[i]) <= Capacity(strings[i].pool)
      BY DEF OwnPoolFits
    <2> DEFINE e == extra[strings[i].pool]
    <2>1. strings[i].pool \in Pool /\ extra \in Seq(Nat) /\ Len(extra) = pools
      BY StringsTyped DEF IInv, TypeOK
    <2>2. e \in Nat
      BY <2>1, ElementOfSeq DEF Pool
    <2>3. strings[i].first = 0 /\ strings[i].length = e + BufSize
      BY DEF OwnPools
    <2> HIDE DEF e
    <2>4. IntSize \in Nat \ {0} /\ BufSize \in Nat \ {0} /\ HeaderSize = IntSize + IntSize
      BY SizeAssumption DEF HeaderSize
    <2>5. IntSize + (e + BufSize) <= BufSize * (IntSize + IntSize) + e
      BY <2>2, <2>4, Excess
    <2>6. EndByte(strings[i]) = IntSize + (e + BufSize)
      BY <2>2, <2>3, <2>4 DEF EndByte, FirstByte
    <2>7. Capacity(strings[i].pool) = BufSize * (IntSize + IntSize) + e
      BY <2>4 DEF Capacity, e
    <2> QED BY <2>5, <2>6, <2>7
  <1> QED BY <1>1, <1>2, <1>3, Invariance, PTL DEF Spec
=============================================================================
