----------------------------- MODULE StringArena -----------------------------
(***************************************************************************)
(* util::string::arena of ipr/utility.H and utility.C: the storage of every *)
(* string an IPR unit has interned.  Memory is taken from pools of BufSize *)
(* headers; a string occupies a whole number of headers, its length in the *)
(* first half of the first one and its characters after it.  Pools form a  *)
(* list by their previous field, which the destructor walks.               *)
(*                                                                         *)
(* A pool is the number of its operator new, 0 the null pointer.           *)
(***************************************************************************)
EXTENDS Integers, Sequences

CONSTANTS
  IntSize,    \* sizeof (size_type), the characters a header holds beside it
  BufSize,    \* arena::bufsz, headers in a pool
  Lengths,    \* the lengths callers ask for
  MaxStrings  \* bound: strings made in one behaviour

ASSUME SizeAssumption == IntSize \in Nat \ {0} /\ BufSize \in Nat \ {0}
ASSUME LengthAssumption == Lengths \subseteq Nat /\ MaxStrings \in Nat

VARIABLES
  pools,     \* how many pools were ever taken from operator new
  alive,     \* the pools not deleted yet
  previous,  \* previous[p], pool p's link
  extra,     \* extra[p], bytes that p's operator new asked for beyond poolsz
  mem,       \* arena::mem
  next,      \* next_header - &mem->storage[0]
  strings,   \* the strings made: pool, index of the header, length
  dying      \* the destructor has begun

vars == <<pools, alive, previous, extra, mem, next, strings, dying>>

HeaderSize == 2 * IntSize

\* The headers of a string of length n.
HeaderCount(n) == (n - IntSize + HeaderSize - 1) \div HeaderSize + 1

\* remaining_header_count(): it measures from the start of storage.
Remaining == next

-----------------------------------------------------------------------------
Init ==
  /\ pools = 1
  /\ alive = {1}
  /\ previous = <<0>>
  /\ extra = <<0>>
  /\ mem = 1
  /\ next = 0
  /\ strings = <<>>
  /\ dying = FALSE

CanMake == ~dying /\ Len(strings) < MaxStrings

Made(p, first, n) == Append(strings, [pool |-> p, first |-> first, length |-> n])

\* The first branch of allocate.
Grab(n) ==
  /\ CanMake
  /\ HeaderCount(n) <= Remaining
  /\ strings' = Made(mem, next, n)
  /\ next' = next + HeaderCount(n)
  /\ UNCHANGED <<pools, alive, previous, extra, mem, dying>>

\* The excess is asked for in headers instead of bytes.
GiveOwnPoolShortMutant(n) ==
  /\ CanMake /\ HeaderCount(n) > Remaining /\ n > BufSize
  /\ pools' = pools + 1
  /\ alive' = alive \cup {pools + 1}
  /\ extra' = Append(extra, (n - BufSize) \div HeaderSize)
  /\ previous' = Append([previous EXCEPT ![mem] = pools + 1], previous[mem])
  /\ strings' = Made(pools + 1, 0, n)
  /\ UNCHANGED <<mem, next, dying>>

\* The second branch: a pool for this string alone, linked behind mem.  The
\* source compares n, a count of characters, with bufsz, a count of headers.
GiveOwnPool(n) ==
  /\ CanMake
  /\ HeaderCount(n) > Remaining
  /\ n > BufSize
  /\ pools' = pools + 1
  /\ alive' = alive \cup {pools + 1}
  /\ extra' = Append(extra, n - BufSize)
  /\ previous' = Append([previous EXCEPT ![mem] = pools + 1], previous[mem])
  /\ strings' = Made(pools + 1, 0, n)
  /\ UNCHANGED <<mem, next, dying>>

\* next_header is left in front of the string it was given for.
OpenPoolMutant(n) ==
  /\ CanMake /\ HeaderCount(n) > Remaining /\ n <= BufSize
  /\ pools' = pools + 1
  /\ alive' = alive \cup {pools + 1}
  /\ extra' = Append(extra, 0)
  /\ previous' = Append(previous, mem)
  /\ mem' = pools + 1
  /\ next' = HeaderCount(n) - 1
  /\ strings' = Made(pools + 1, 0, n)
  /\ UNCHANGED dying

\* The new pool's link is never set.
OpenPoolUnlinkedMutant(n) ==
  /\ CanMake /\ HeaderCount(n) > Remaining /\ n <= BufSize
  /\ pools' = pools + 1
  /\ alive' = alive \cup {pools + 1}
  /\ extra' = Append(extra, 0)
  /\ mem' = pools + 1
  /\ next' = HeaderCount(n)
  /\ strings' = Made(pools + 1, 0, n)
  /\ UNCHANGED <<previous, dying>>

\* The third branch: a new current pool.
OpenPool(n) ==
  /\ CanMake
  /\ HeaderCount(n) > Remaining
  /\ n <= BufSize
  /\ pools' = pools + 1
  /\ alive' = alive \cup {pools + 1}
  /\ extra' = Append(extra, 0)
  /\ previous' = Append(previous, mem)
  /\ mem' = pools + 1
  /\ next' = HeaderCount(n)
  /\ strings' = Made(pools + 1, 0, n)
  /\ UNCHANGED dying

BeginDestroy ==
  /\ ~dying
  /\ dying' = TRUE
  /\ UNCHANGED <<pools, alive, previous, extra, mem, next, strings>>

\* The loop looks one pool ahead and stops before the last.
FreeMutant ==
  /\ dying /\ mem # 0 /\ previous[mem] # 0
  /\ alive' = alive \ {mem}
  /\ mem' = previous[mem]
  /\ UNCHANGED <<pools, previous, extra, next, strings, dying>>

\* One iteration of the destructor.
Free ==
  /\ dying
  /\ mem # 0
  /\ alive' = alive \ {mem}
  /\ mem' = previous[mem]
  /\ UNCHANGED <<pools, previous, extra, next, strings, dying>>

Next ==
  \/ \E n \in Lengths : Grab(n) \/ GiveOwnPool(n) \/ OpenPool(n)
  \/ BeginDestroy
  \/ Free

Spec == Init /\ [][Next]_vars

\* The destructor is a loop of one thread.
FairSpec == Spec /\ WF_vars(Free)

-----------------------------------------------------------------------------
Pool == 1..pools
StringRecord == [pool : Pool, first : Nat, length : Nat]

TypeOK ==
  /\ pools \in Nat \ {0}
  /\ alive \subseteq Pool
  /\ previous \in Seq(Pool \cup {0}) /\ Len(previous) = pools
  /\ extra \in Seq(Nat) /\ Len(extra) = pools
  /\ mem \in Pool \cup {0}
  /\ next \in Nat
  /\ strings \in Seq(StringRecord)
  /\ dying \in BOOLEAN

\* The bytes of a string in its pool's storage: from its header to its last
\* character.
FirstByte(s) == s.first * HeaderSize
EndByte(s) == FirstByte(s) + (HeaderSize - IntSize) + s.length

\* The bytes of storage that pool p has.
Capacity(p) == BufSize * HeaderSize + extra[p]

\* "Allocate storage sufficient to hold an immutable string of length n"
\* (utility.C:46): every string lies inside its pool.  The code after a string
\* that does not is undefined, and such a string may lie over whatever is
\* behind its pool.
StringsInBounds ==
  \A i \in DOMAIN strings : EndByte(strings[i]) <= Capacity(strings[i].pool)

\* Strings are permanent: as long as each lies inside its pool, no two strings of
\* the arena share a byte, so making one never changes another.  Those of different
\* pools cannot, since operator new keeps what it gives apart.  Where a string has
\* run past its pool nothing is said of any.
StringsDisjoint ==
  StringsInBounds =>
    \A i, j \in DOMAIN strings :
      i # j =>
        \/ strings[i].pool # strings[j].pool
        \/ EndByte(strings[i]) <= FirstByte(strings[j])
        \/ EndByte(strings[j]) <= FirstByte(strings[i])

\* A string given a pool of its own fits in it, although the pool's size is
\* computed from characters and headers mixed.
OwnPoolFits ==
  \A i \in DOMAIN strings :
    extra[strings[i].pool] > 0 => EndByte(strings[i]) <= Capacity(strings[i].pool)

\* The destructor deletes every pool, and none that it deleted already.
AllFreed ==
  /\ dying /\ StringsInBounds ~> alive = {}
  /\ [](dying /\ StringsInBounds /\ mem # 0 => mem \in alive)
=============================================================================
