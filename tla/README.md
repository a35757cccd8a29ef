# A verification of cpp-reflector-mini

cpp-reflector-mini reads C++ sources with clang and writes what it finds out
about their classes and enums.  Between the two it keeps the *Internal Program
Representation* (IPR) of the Pivot framework (`src/ipr`), and nearly all logic
of the program is in that library: hash-consed nodes in hand-written red-black
trees, strings in a hand-written arena, scopes and overload sets.  These TLA+
modules model the library and the program from their code; TLC checks them on small instances,
and TLAPS proves what is said under *Proofs* for all.

The program is sequential and keeps nothing on disk.  What makes it hard is not
concurrency but pointer structures that break their own rules in the middle of
an operation, calls that an exception (`std::bad_alloc`, `std::logic_error` of
`util::check`) leaves half done with their effects still in the tables, tables
searched with one comparator and built with another, and arithmetic at the ends
of pools, lists and sequences.

## Inventory

| Part | State | Operations | Hard | Correct when |
| --- | --- | --- | --- | --- |
| Red-black trees, `util::rb_tree` (utility.H:60-396) | three arms and a colour per node, root, count | `find`, `insert` of `chain` (nodes of the caller) and `container` (nodes of the tree) | rotations and recolourings in some order; colour left uninitialised by `allocate` | linked both ways, ordered, balanced, nothing lost, a set of keys |
| String arena, `util::string::arena` (utility.H:642-690, utility.C) | list of pools, next free header | `make_string`, destructor | boundary arithmetic, three ways to allocate, list of pools spliced | strings disjoint and inside their pool, every pool deleted once |
| Lists, `util::slist` (utility.H:399-640) | linked nodes, count | `push_back`, iteration, destructor | constructor of the value throws | positions and count fit the values |
| Node factories, `impl::Unit`, `type_factory`, `expr_factory` (impl.C:933-1198, 1517-2741) | a table per kind of node | `get_...`, `make_...` | finishing a node makes others; exceptions in between; comparators | one node per kind and operands, complete, unchanging |
| Scopes, `impl::Scope`, `Overload`, `decl_factory` (impl.C:20-111, 1289-1472; impl.H:349-628, 988-1036, 1387-1601) | overload sets, masters, declarations, tree by position | `make_alias` ... `make_secondary_map`, lookup, accessors | five containers changed by one call, any of which may throw | dense permanent positions; name, type and decl-set agree; whole overload sets |
| Homogeneous scopes, mappings (impl.C:840-931, 1247-1284, 1977-1991; impl.H:757-986) | lists of parameters, enumerators, bases | `param`, `make_parameter`, `add_member`, `declare_base`, subscripts by index and by name | numbers taken from a count, linear search over nodes a failure left raw | members numbered in order, kept in place, found |
| Sequences and their iterators (interface.H:464-575, impl.H:42-127, 417-439) | none | `begin`, `end`, `get` | first and last index | iteration meets every element once |
| Node numbers and statistics (interface.C) | the count of all nodes, and one for each category | constructor of `ipr::Node` | copied nodes, unchecked category | identifiers unique, counts add up |
| Statements (impl.C:560-780, impl.H:1956-2000) | operands, and what clients set later: bodies, the loop that a jump leaves | `make_...`, `add_stmt`, `add_handler`, `type` | jumps refer back to what they are part of | `type()` comes to an end |
| XPR printer (io.H, io.C) | padding, newline flag, indentation, disambiguation map, stream flags | `operator<<` of every node | state carried from one output to the next, exceptions | balanced indentation, text reads back as the expression |
| Interface classes (interface.H) | none | derivation and operands of every class of nodes | | |
| Visitors (traversal.H, traversal.C) | none | `visit` | a kind forwarded to the wrong base | every kind reaches its nearest handler |
| Driver (MetaClassGenerator.cc, main.cc) | unit, three streams, file name | `run` per match, `writeMetaInfo` | matches of redeclarations and of injected names, several files, files with errors | each class and enum of the main files is reported; what is printed from clang's declarations and from the nodes built of them agrees |
| Token interface (lexer.H) | none | declarations only | | |
| `get_text` (ClangSourceManagerHelper.hh) | none | pure | ends in two files | |
| constexpr-ast (a proposal's prototype) | constant data | constructors, offsets | | |

How they interact: the driver's callback makes a class or an enum in the one
unit of the process and declares its members in scopes; the unit looks every
name, type and literal up in a tree (`container`) whose nodes it makes on a
miss, and strings in the arena; scopes keep overload sets in a `container` and
declarations in two `chain`s threaded through the declarations; the lists hold
everything that is not looked up.  All of it is calls; there are no callbacks
but clang's into the driver, and visitors.

## Modules

| Module | What it models |
| --- | --- |
| `RbTree` | the trees, one action per loop iteration of `find`, `insert` and `fixup_insert` |
| `KeySet` | what a tree promises: a set of keys; `RbTree` implements it |
| `MCRbTree` | which keys nodes have in the checked instances |
| `RbTree_proofs` | the invariant of `RbTree`, proved |
| `RbTreeOrder_proofs` | that the tree is in order and balanced and implements `KeySet`, proved |
| `StringArena` | the arena, one action per branch of `allocate` and per pool deleted |
| `StringArena_proofs` | that strings of one pool never overlap, nor any while all are inside their pools, and that long ones fit, proved |
| `Unit` | the factories, one action per lookup, construction and step of finishing |
| `Interning` | what a unit promises: an interning table; `Unit` implements it |
| `Unit_proofs` | the properties of `Unit`, and that it implements `Interning`, proved |
| `MCUnit` | the clients of the checked instances |
| `Scope` | a heterogeneous scope, one action per container that a declaration changes |
| `Scope_proofs` | all that the run `declare` checks, proved |
| `MCScope` | symmetry of the types |
| `Members` | lists of parameters, enumerators and bases, and Rnames |
| `Members_proofs` | what indices and names give, and that members are numbered in order, proved |
| `Statements` | what statements are made of, and how they find their type |
| `Statistics` | the constructor of a node and its counts |
| `Interface` | the classes of nodes: what each is derived from, and its operands |
| `Printer` | the pretty-printer: what each handler writes and has visited, and the printer's state |
| `Printer_proofs` | all that the run `printed` checks but how text reads back, proved |
| `MCPrinter` | what is printed in the checked instances, and the grammar to read it back by |
| `Driver` | `main` and the callback for classes and enums, composed with the promises of scopes and lists |
| `Driver_proofs` | that the sections agree and classes are declared, proved |
| `MCDriver` | the source files of the checked instances |

Operators whose names end in `Mutant` are slips that the code could have had.
No specification uses them: with one of them in the place of the definition
before which it stands, TLC finds the property violated that is listed beside
it in `PROJECT.json`, so each property can tell right code from wrong.

### RbTree

`arm[n][d]`, `color[n]`, `root` and `count` are the fields of `link` and
`core`; `up` and `side` are the `slot` pointer of the source, `z` the node of
`fixup_insert`.  `pc` says which loop runs: `search` (one `Descend` per
iteration), `fixup` (`Recolor`, `RotateInner` or `RotateOuter` per iteration;
`outer` is the place between the two rotations of one iteration), `return`.
The two mirrored branches of `fixup_insert` are one, with `Outside` the side
that differs.  `Intrusive` chooses `chain` or `container`; the two differ in
who makes the node (`allocate` leaves its colour as memory was: `Unset`), in
what is counted, and in what is answered when the key is there.  `chain::insert`
counts a node that it did not insert; no document says what its count is of,
and nothing is stated of it.

### StringArena

Unit of place is the header, unit of length the byte, as in the source, whose
mixing of them is kept: `GiveOwnPool` compares bytes with headers and adds
bytes to a size in bytes.  A pool is its number of birth.  `Remaining` is
what `remaining_header_count` returns, the number of headers *used*.  Pools are
what `operator new` gives, memory apart, and a string that runs past the end of its
pool (the run `arena_bounds`) may overwrite anything.  `StringsDisjoint` and
`AllFreed` are therefore stated of arenas of which every string lies inside its
pool, and say nothing of others.

### Unit

A node is its `node_id`, its place in `nodes`, with kind, operands, constraint
and name.  `Table(k)` is the tree of a kind; its search is abstracted to the
comparator: a lookup ends at a node the comparator calls equal (`Find`) and
otherwise makes one (`Make`).  For most kinds the comparator looks at the
operands.  For seven (`ByIdentity`) overload resolution picks the comparison
of the *key* with the *node* in the tree, not with its operand; such a tree is
not ordered by what it is searched for, and the model lets a search both
find and miss a node that compares equal.  After its lookup a call goes on:
`Constrain` and `Name` are `finish_type`, `NeedsType` ... `Resume` the
`get_decltype` of a name, `Continue` the second lookup of a call with
characters or without exception types.  `BadAlloc` is an exception of any step
that allocates; what was made stays in the tables.  The 77 kinds of expression
that are only appended to a list are two, `Unary` and `Binary`; classes, enums,
unions and namespaces are one, `Udt`, which its client names (`NameUdt`).
`builtin_map` is written and never read, and left out.  `Interning` is
the abstract specification: equal requests have one answer and different
requests different ones.

### Scope

`Declare` is a call of any of the eight `make_...` of `Scope`, which are the
same code for eight kinds; `FindOverload`, `FindMaster`, `MakeDecl`,
`InsertEntry`, `PushMaster`, `AddMember` are its steps and `Throw` an exception
in one that allocates, or in `i.type()` of `make_alias` when the type is not
set (`NoType`).  `SameName` is `node_compare`, which compares identifiers.

### Members

A list is its nodes and its count, apart because `push_back` links a node,
constructs the value and counts, in that order: `PushThrows` leaves the node
raw and uncounted, and `Failed` counts such nodes.  Rnames are unified, so one is
the record of its operands.  `unit` is history: whether the unit took the Rname
of a parameter (`MakeParameter`) or its client (`Param`), who may have asked for
it long before; nothing is promised of the latter.
`Get` is the walk of `val_sequence::get`, which counts nodes and not members;
`Lookup` is the linear search of `homogeneous_scope`, which looks at as many
nodes as there are members.

### Statements

A statement is its kind, its operands and what a client sets in it later.  `Ask`
calls `type()`, `AskFurther` is a `type()` that calls that of a part (`Asked`),
`Answer` one that returns or throws; `at` is the innermost of these calls, which
is enough, since a caller returns what it is given.  Clients build trees (nothing
is part of itself), and give a jump, as impl.H:1932 and 1944 say, a statement
that it stands in.

### Statistics

`Category_code` is the enumeration of interface.H in its order, which `Code`
counts from 0; `node_usage_counts` has the elements that the code declares, and
`behind` the addresses after them that were incremented.

### Interface

The tables of interface.H, by groups of classes: `Parent`, from which `Ancestors`
and the class each hook of a visitor must forward to, and `DeclaredOperands`, the
sorts of the operands, which `Printer` uses to say what a well-formed node is.
`f ++ g` is TLC's `@@`, which provers have no definition of.

### Printer

A node is its kind, its operands in the order of the interface and what else it
says (`val`).  `Nodes`, a constant, are those of the trees that are printed; what
is assumed of them is what the C++ types in interface.H say: each has the operands
declared for its class (`WellFormed`), hence as many as the functions for that
class read (`OperandsRead`), `Block::handlers()` are `Handler`s, a `Named_map`'s
`mapping()` is a `Mapping`, and a type has a name (`TypeName`), all `Nodes`
again.  Nothing bounds their number or depth.

Every `visit` function of io.C is the sequence of what it does (`NameItems` ...
`DeclItems`): tokens, changes of the printer's state, and operands with the
visitor that each is given to.  `todo` is the C++ stack seen
from its innermost call: `Accept` puts the items of a handler in front of what
its callers have left, `Return` is its end, `Throw` drops all.  Which function
runs is computed as the code does: `Base` is the forwarding of traversal.C from
a class of nodes to the next, `Lineage` the derivation of a visitor from its
bases, `Overrider` the first function that the two lead to.  `indent`,
`newline`, `map` and `base` are the fields of `Printer` and of its stream, and
outlive a print; the padding is left out, since nothing sets it to anything
but `None`.  `text` is tokens and ends of lines, an end with the indentation
after it.  `Forwarded` compares `Base` with `Interface`, and the functions of the
visitors with the classes they are for.

### Driver

A source file is the classes and enums in it, those of its headers included,
and whether it is free of errors.  The callback is called for each in order
(`turn`), and for a class that is defined once more, for the implicit declaration
of its own name that clang puts in it (`injected`); `Node` is what it is given.  One callback is several actions (`PrintClassFields`, `CreatIprClass`,
`DeclareField` for each field, `PrintIpr`), since each section of the report is
written by a different one.  Scopes are taken by what `Scope` promises (`InOrder`) and
members by what `Members` does (`GetsMember`): `global_ns` and the members of a
class are sequences.  `SectionsAgree` finds the text of a node by counting the
nodes of its kind before it (`Count`).  That a name declared again gets a declaration of its own
is in `Scope` too.  An enumerator is its bits; `SExtValue` reads them as signed.

## Runs

| Run | Shows | Bounds, and why they do |
| --- | --- | --- |
| `container` | all rules of the tree, in and between the steps of every insertion order; the tree implements `KeySet` | 8 nodes: the least for which a recolouring moves the red pair up to where both rotations follow |
| `chain` | the invariant of the proofs, and termination, with keys that are there already | 7 nodes over 4 keys, 5 calls counted |
| `arena` | strings disjoint as long as they lie inside their pools, pools found and deleted, once, own pools large enough | pool of 4 headers of 2 bytes; lengths on both sides of every comparison; 5 strings give pools of each sort in each order |
| `unit` | the six properties of `Unit` for eight clients | 14 built-in nodes and 3 to 6 more: two nodes of a kind with their names, or three without; one failure where the client can repair what it left; kinds of node grouped by what they are made of and how they are compared |
| `declare` | the six properties of `Scope` | 2 names, 2 types and the unset one, 3 declarations, 2 abandoned calls: a redeclaration beside an overload, with something half made before each |
| `lists` | numbers follow the order of addition, also when insertions fail; what an index and a name give, exactly, with the raw nodes of those in the list and without | 2 mappings, 2 names, 4 nodes in all lists together, 2 throws: two members of a name with a failure before, between or behind them, or behind two |
| `printed` | what is printed for an expression can be read, by the levels of precedence of io.C, as that expression and as no other; every handler leaves the indentation as it was; statements begin a line; declarations keep their numbers; every print ends; every class of nodes is forwarded to its base | below |
| `driver` | the sections of the report agree with each other and, when `main` ends, with the files; each class is declared | 1 file of 2 declarations or 2 files of 1, over every class, redeclaration and enum: two matches are as many as one callback can find left by another, and values of 3 bits reach both ends of the range |
| `arena_bounds` | a string is placed over the end of its pool | as `arena` |
| `typed` | the type of a loop whose body is a jump, a break or a continue, that refers back to it is never found | 2 statements |
| `categories` | nodes are counted in no category | 4 nodes: the first made is a string |
| `nameless` | an rvalue reference or a decltype is printed as its name, which is printed as the type, without end | two types, 12 handlers |

The last four are disagreements between the code and its own documentation,
quoted in `PROJECT.json`; each run shows the shortest way there.  `StringArena`
and `Scope` may stop (an arena once destroyed, a client that declares no more),
and so may a client of `Printer`, `Statements` and `Statistics`, and the program
that `Driver` is, so their deadlock check is off; it is on in the others.

`printed` has four workloads.  *Expressions* are every kind of expression in the
grammar, each of 30 kinds in each operand of each of these, and eight kinds
three deep: precedence is decided between an operator and its operand, so two
levels show every pair and the third shows that parentheses stay where they
are.  *Names* are three prints in a row, of any of 13 nodes: two uses and a
declaration in between, or a failure, of one name or two.  *Statements* are
every statement within every statement, two deep, and in functions and mappings;
*types* are two prints, so that the second finds the newline flag as the first
left it.  `MaxDepth`, the calls active at once, is 60 and not reached.

`Unambiguous` reads the text back with a grammar (`Productions`), by all its
readings and not by a parser of our own choice.  Its levels of precedence, the
binary operators and `Others` are those of the comments in io.C.  It is not the
comments' grammar throughout: in `AsPrinted` are the productions taken from what
the code writes, since the comments say something else (`throw`, casts, the
typeid of a type) or nothing (sizeof, comma, datum; some prefix operators in
`Prefix` have no comment either).  Where the two disagree is said below.  Left out are
unary plus and a minus directly before a minus, which do not read back (see
below), and `New`, whose operands may be missing.

Fairness: `CallsReturn` assumes weak fairness of the steps of a tree operation
in progress, `AllFreed` of the destructor's loop and `EveryPrintEnds` of the
steps of a print; `QueryEnds` the same of a call of `type()`.  All are calls in
one thread that nothing interrupts.  Nothing obliges a client to call.
`Reported` assumes it of every step of `Driver`: the program runs from `main` to
its exit and waits for nothing but clang, which reads a file and comes back.

### Divergences that no run is spent on

* Overload sets are looked up by comparing the identifier of the name with
  those of `Overload` nodes (impl.H:614), so that a declared name is not found in
  its scope, against interface.H:960; and the back-pointer that `master()` and
  `Overload::get` follow is never set (impl.H:993), against interface.H:1925.
  `LookupFails` and `MasterNotFirst` prove both, for every scope.
* `make_decltype` compares the expression with `Decltype` nodes (impl.C:940), so
  that each request makes a new type, against interface.H:44.
* `rotate_left` rotates about a node whose *right* child exists; its comment
  says left (utility.H:99).
* A new pool is opened whenever a string has more headers than the pool has
  *used*, the very first string included, against utility.C:61 and 76.
* Asked for the decltype of a `Decltype` node, `make_decltype` may return that
  node itself (impl.C:1065); `Answers` leaves that kind out.
* A `Qualified` type is qualified again as it is, against interface.H:1155.
* Mappings of the unit have level 0 where interface.H:917 begins with 1.
* `singleton_declset` accepts index 1 only, and `begin()` is 0 (impl.H:435).
* `slist::end()` is the last node and not past it (utility.H:507).
* `slist::push_back` links the node before it constructs the value
  (utility.H:590): after an exception, a later value makes the raw node
  reachable by position, in a container that holds "the actual values"
  (impl.H:83), and the last members are not; the destructor destroys the raw
  node with the others (utility.H:636).  `PushThrows` of `Members` is how it gets
  there, and `GetsMember` and `FindsFirst` say what indices and names give then.
* `Parameter::position` returns the Rname's level (impl.C:524), where
  interface.H:2019 says that its position tells a parameter from others.
* Unary plus prints its operand as an expression and not as a
  cast-expression (io.C:664), so `+(a + b)` and `(+a) + b` have one text.
* The comment on throw says "throw expression" (io.C:1195), and what is written is
  `throw` and an assignment-expression.  The code is right: by the comment
  `throw a@, b`, which is written for the comma of a throw and `b`, could also be
  read as the throw of a comma.
* Casts are written `cast<|type|>(expression)` and `static_cast<|type|>(expression)`,
  against "( type ) cast-expression" and "< type > ( expression )" (io.C:567-585,
  715), and the typeid of a type `typeid<|type|>()`, against "typeid ( type )" (io.C:598).
* Minus before a minus or a decrement is written without a space or
  parentheses, so that the two read as one sign; so is `&` before `&`.
* An if-statement without an else prints the word `else` (io.C:1640-1651).
* `token('<|')` is a number, so template-ids show two numbers where angle
  brackets are meant (io.C:343).
* `std::oct` is never undone (io.C:484): after a control character in a literal
  numbers are octal, those of declarations included, so that the eighth
  declaration of a name is then called what the tenth was before.
  `Disambiguated` is stated of printers that wrote no control character.
* Padding is never `Before`, so that words stand together: `constint`,
  `operatornew` (io.C:231-239, 1368).
* A label is not moved out, since the newline it would be moved out on is
  already written when its handler runs (io.C:1595-1600).
* An `Overload` has no function in any visitor of io.C: as an expression it is
  put in parentheses (io.C:417-422) and printed as an expression again, without
  end.
* `Empty_stmt::type` asks for that of its operand, a phantom made without a type,
  so that it always throws (impl.C:747, impl.H:1836), against interface.H:783.
* `visit(Id_expr)` goes on to `Expr`, although `Id_expr` is derived from `Name`
  (traversal.C:335, interface.H:1314).  No visitor of io.C prints
  a `Name` as such (io.C:44), so that `Forwarded` holds.
* A field whose type was declared with `struct`, or is a pointer, an enum or an
  array, is built with type `void`: `isClassType` is true of `class` only.
  `SameField` allows void for the types that are built so, and for no other.
* The report's heading names the last file that had a class, declared or defined
  (MetaClassGenerator.cc:60), and no file when there are only enums.
* An enum is built but declared in no scope (MetaClassGenerator.cc:180), where a
  class is declared in the global namespace even when it is in another.
* Enumerators of an unsigned type with the first bit set are reported as negative
  (MetaClassGenerator.cc:189, 212).  `SameValue` states it as the code does; no
  property says that it should be so.
* A class that is defined in a file is reported once more, without fields, for each
  declaration of it in that file that is not the definition
  (MetaClassGenerator.cc:62).  `WholeReport` expects just these, and no others.
* README.md shows `VeryGood, 1` for an enumerator that test/Test.hh sets to 22.
* `structurally_same` for binary nodes compares the first operands twice
  (traversal.C:28-29); nothing instantiates it.

## Proofs

`RbTree_proofs`.  For every set of nodes and keys, and both forms of tree.
The rules that matter (`Linked`, `OneRedPair`, `NoNullDereference`) are not
inductive: that a red node's parent has a parent follows from the root being
black, which is false while the fixup looks at the root; that a rotation has a
child to turn up follows from where the loop stands.  `IInv` adds these:
`SearchInv` (where the search is, and that a chain's new node is outside the
tree), `FixupInv` (the node looked at is red and in the tree, and only it may be
a red root), `OuterInv` (between the two rotations of an iteration) and
`ColorIsSet`.  `AllReachable` is stated over sets of nodes that are closed under
arms, so that it needs no recursion: a rotation leaves the closed sets closed.
The proof has one lemma per rotation and per kind of attachment, and one step
per action.  Theorems: `Invariance`, `TypeCorrect`, `ColorsInitialized`,
`TreeShape`, `RedRule`, `MemorySafety`.

`RbTreeOrder_proofs`.  For the same trees: what the rules are for.
`SearchOrder` and `BlackBalanced` speak of the nodes above a node, which are
found by recursion; no proof can follow that from a node to the root, so the
invariants say the same without ways.  `Sorted` separates each arm of each node
by a set closed under children, with all below that arm in it and its keys
all on one side; `RotationSorts` finds the separating sets of the turned nodes
among those of before.  `Narrowed` says of a search that nodes of its key are
below the link it has come to, so that one that ends at a null link has
missed nothing.  `Balanced` says that there is a number for each node, the
blacks below it on every way, which a recolouring of a grandparent
raises by one and a rotation passes on.  From these the properties
follow once it is known that the function that walks up exists and that its nodes
are the least set closed under parents (`WayProperties`, `AncestryProperties`), for
which every set of numbers has a least.  `TreeIsASet` is the
refinement of `KeySet`: `Begin` asks, the step that finds a node or attaches one
decides, `Return` answers, and the loops of `fixup_insert` stutter.  Theorems:
`OrderInvariance`, `TreeIsASet`, `TreeIsSorted`, `TreeIsBalanced`.

`StringArena_proofs`.  For every header size, pool size and set of lengths.
The strings of a pool are one behind another in the order they were made, and
`next_header` is behind all of them while the arena lives; with the arithmetic
of `HeaderCount` (`Sufficient`) this gives `OnePoolApart`: two strings placed in one
pool never overlap, in spite of the wrong notion of room.  For the whole arena
`PermanentStrings` says so only as long as every string lies inside its pool: one that
does not may lie over strings of another pool, and the run `arena_bounds` shows that
there are such.
`OwnPoolsSuffice` needs one thing more (`OwnPools`): a pool made larger for a
long string holds that string from its first header and no other, since it never
becomes the current one.

`Scope_proofs`.  For every number of names, declarations and abandoned calls.
None of the six properties of `Scope` is inductive: that a step left half done
harms nothing needs to be known of the call in progress and of what earlier
ones left.  `Pointers` says which locals of a call are set when, `InHand` what
it made so far (its overload set has the name asked for and no other member,
its master the type asked for, its declaration is the latest and in no scope
yet), and `Settled` what a finished one leaves.  All rest on `FreshIds`: the
identifier of a set is that of no name, so that no set is ever found again
(`NothingFound`) and every call works on a set of its own.  `Kept` says what steps leave alone of
masters, sets and declarations; the invariant's parts then have one step lemma
each.  Theorems: `TypeCorrect`, `IdentifiersFresh`, `PositionsInOrder`,
`DeclarationsDescribed`, `OverloadsWhole`, `MembersKept`; and `LookupFails` and
`MasterNotFirst`, which say of the code that two sentences of its interface hold
of no scope in which something is declared: the first from `NothingFound`, the
second because no step of a call sets what `master()` follows.

`WholeOverloads` therefore holds for a reason the authors did not intend: were
`operator[]` repaired, a call left between the two insertions of
`Overload::push_back` (utility.H:389, impl.C:110) would leave a set with an
entry it cannot give by number, and the next declaration of that type would
make it a member's.

`Members_proofs`.  For every set of names and types, and every bound.  A failed
insertion leaves a raw node in a list that is not counted, so that the members
added later are one node further on than their number, and the last is beyond
reach.  `InStep` says how far they agree: the node at a place is raw or holds the
member that was added as many places earlier as nodes before it are raw, and there
are as many nodes as members and raw nodes.  That needs the number of raw nodes,
a cardinality, to grow by one or stay (`FailedCounts`) and to be kept of nodes
that a step leaves (`FailedAgree`).  From it `GetsMember` follows for an index, and
`FindsFirst` for a name: a first member with a name exists because numbers are
well-founded (`MinProperties`).  That a number does not shift when insertions fail is the
count's, which only members raise (`Numbered`, `RnamesNumbered`).  Theorems:
`Invariance`, `TypeCorrect`, `MembersInOrder`, `FirstFound`.

`Unit_proofs`.  For every set of clients, of contents of strings and of
qualifiers, and every bound.  `NodesInv` is of the tables: the built-in nodes are
where the constructor put them, an id or a decltype once set is that of its own
node, and no table that is compared by operands has two nodes of the same
(`UniqueInv`).  `CallInv` is of the call in progress: which of its
two lookups it is at, which node it is finishing, for whom, and how far that is.
`AnswersInv` and `FinishedInv` are what is left for clients: a node that was
given has the operands asked for, and one whose call came to its end is finished.  That tables can be searched needs the comparators to be strict total
orders; `LexicographicalOrders` shows it of the recursive comparison by the least
place where two sequences differ.  `Kept` is what every step leaves alone of the
nodes; with `UniqueInv` it makes equal requests have equal answers.  Theorems:
`UnitInvariance`, `UnitTypes`, `OperandsAreThoseAsked`, `GivenNodesAreWhole`,
`GivenNodesArePermanent`, `TablesAreSearchable`, and `UnitInterns`, that it
implements `Interning`.

`Driver_proofs`.  For every set of programs, names and types, and every width of
a value.  Between callbacks the sections agree and each class is declared; within one, a
section is ahead of the nodes by the text of what is being built (`Ahead`), that
text is of the declaration the callback is for (`TextInv`), and the node has
the first members of the same declaration (`BuiltInv`), so that with all
of them it can be appended to the third section.  Sequences are compared by the
number of entries of a kind (`CountAppended`, `CountReplaced`), which needs no
induction.  Theorems: `DriverInvariance`, `DriverTypes`, `SectionsInStep`,
`ClassesDeclared`.

`Printer_proofs`.  For every set of nodes and of workloads; the set may be
infinite, with trees of any depth.  Five results, on two invariants.

* `DisambiguationInv`: the map has each declaration of a name once, in the order of
  first use (`MapInv`), and as long as no control character was written the number
  after a use is the place of its declaration (`ResolvedInv`).  That a place, once
  given, is kept is why the numbers agree between prints, also after one that
  threw (`DeclarationsDisambiguated`).
* `PlaceInv`: `Balanced` and `OwnLine` are not inductive, since they say nothing of
  the calls further out.  `Placed` labels the stack: each thing left to do is given
  the indentation that it will find, and how much is then known of the place on the
  line (that a newline is asked for; that, or that it stands at the end of a line with
  the right indentation; nothing).  An item leads from its labels to those of the next, a
  `return` back to the indentation its call began with.  For each handler of io.C
  there is a lemma that its items can be labelled from where it is called to its
  end, so that they can be put in front of a labelled stack.  `IndentationBalanced`
  and `StatementsOnOwnLines` are what the labels say of the head.  With `TypeInv`,
  which is of the printer's fields, they give `PrinterTypes`, for which the
  operands that handlers read are followed back to `NodesAssumption`.
* `FunctionsForwarded` takes no step: it compares, for each of some hundred and fifty
  kinds of nodes and each visitor, the function that traversal.C's forwarding
  (`Bases`) and the derivation of the visitors lead to with the nearest class, in
  interface.H's derivation (`Lineages`), that the visitor has a function for.
  The two orders of classes are one but at `Id_expr`, which goes on to `Expr` past
  its base `Name`, and at `Decl`, which goes on to `Expr` past `Stmt`.  The answer
  is the same there because no visitor has a function for `Name` as such, and each
  that has one for `Expr` or `Stmt`, its bases included, has one for `Decl`.

The lists of what a handler does are `FlattenSeq`s, and `Bases` and `Lineages`
are recursive functions, that is, a CHOOSE.  What is needed of them is
proved by the induction over numbers that every set of numbers has a least
gives (`WFMin`): the concatenations of the first n sequences are a
function, and a class has a rank, the number of steps from it to a root, below
which its equation holds.  Theorems: `DisambiguationInvariance`,
`DeclarationsDisambiguated`, `PrinterInvariance`, `IndentationBalanced`,
`StatementsOnOwnLines`, `PrinterTypes`, `FunctionsForwarded`.

Assumptions: that the null pointer is no node, that keys are integers, that there
are finitely many nodes at a time, that sizes are natural numbers and not 0, that
aliases have a type before it is set (`NoType`), that the bounds on failures,
nodes and answers are natural numbers, that clients ask the unit for kinds it has a
function for (the built-in nodes and linkages are made by its constructor only),
that programs are lists of classes and enums with members, and that the nodes which
are printed are what their C++ types say (`NodesAssumption`, under *Printer*).

Only model-checked: of `Driver` what is written at the end (`Reported`), and of
`Printer` `Unambiguous`, whose grammar is read by RECURSIVE operators, of which
nothing can be proved here.  The runs of `Statements` and `Statistics` each show
that one sentence of the documentation is not so.
Liveness (`CallsReturn`, `AllFreed`, `EveryPrintEnds`, `Reported`) is out of the
prover's reach, and so are the expected violations, which need one behaviour and
no proof.

## Not modelled, and the plan

Done, in the order they were planned: `RbTree`, `StringArena`, `Unit`, `Scope`,
`Members`, `Printer`, then `Driver`, `Statements`, `Statistics` and `Interface`.

Left, in this order:

1. The iterators of sequences and `slist::end()`, `singleton_declset`: an
   iterator is an index and a sequence, and what it can get wrong is listed
   above.
2. What the prototype in constexpr-ast computes: strings cut at compile time and
   offsets of them; the rest of it is a hierarchy of classes with constant data.

Proofs: none is planned.  Every invariant of a passing run that a proof can reach
has its theorem; what is left to TLC is named at the end of *Proofs*.

Left out for good: lexer.H has no implementation; the driver discards what
`get_text` returns; `structurally_same` is a template that nothing instantiates;
build files, scripts and proposals are no program; accessors that return a field
have nothing to model.
