-------------------------------- MODULE Driver --------------------------------
(***************************************************************************)
(* The reflector (MetaClassGenerator.cc, main.cc): it runs over the source  *)
(* files, is called back for each class and each enum clang finds, prints   *)
(* what it is given and builds ipr nodes of it, and prints those too.  What *)
(* is printed is kept in three streams until all files have been run over.  *)
(*                                                                         *)
(* Scopes and member lists are taken by their contracts: a scope gives its  *)
(* declarations in the order they were made (InOrder of Scope), an enum its *)
(* members in the order they were added (GetsMember of Members).            *)
(***************************************************************************)
EXTENDS Integers, Sequences, SequencesExt

CONSTANTS
  Programs,     \* the files the reflector may be run over; a file has
                \*   decls:  the classes and enums written in it, in order,
                \*           with those of the headers it includes
                \*   parses: it is free of errors
  Names,        \* the names in them
  Types,        \* the types of fields in them
  KnownTypes,   \* the built-in types creatIprClass has a case for
  IntWidth      \* the bits of an enumerator's value

VARIABLES
  program,
  file,        \* the file run over
  turn,        \* the declaration the callback is called for, or will be next
  injected,    \* and it is for what is implicit in that one
  pc,          \* where it is
  res,         \* the result of tool.run
  fileName,    \* the name for the heading
  classStream, enumStream, iprStream,
  global_ns,   \* the declarations in the unit's global namespace
  udts,        \* the classes and enums the unit made
  output       \* what was written, once

\* A class is declared or defined; its declarations are linked, and bits stand
\* for the value of an enumerator.
Bits == 0..(2^IntWidth - 1)
ClassDecl ==
  [kind : {"class"}, name : Names, scope : Names, main : BOOLEAN,
   part : {"definition", "redeclaration"}, members : Seq([name : Names, type : Types])]
EnumDecl ==
  [kind : {"enum"}, name : Names, main : BOOLEAN, unsigned : BOOLEAN,
   members : Seq([name : Names, bits : Bits])]

ASSUME ProgramAssumption ==
  Programs \subseteq Seq([decls : Seq(ClassDecl \cup EnumDecl), parses : BOOLEAN])

streams == <<classStream, enumStream, iprStream>>
vars == <<program, file, turn, injected, pc, res, fileName, streams, global_ns, udts, output>>

NoOutput == [heading |-> 0]  \* nothing was written

Init ==
  /\ program \in Programs
  /\ file = 1 /\ turn = 1 /\ injected = FALSE
  /\ pc = "run"
  /\ res = 0
  /\ fileName = 0
  /\ classStream = <<>> /\ enumStream = <<>> /\ iprStream = <<>>
  /\ global_ns = <<>> /\ udts = <<>>
  /\ output = NoOutput

-----------------------------------------------------------------------------
\* What clang makes of a file, as far as it is used here.  A class that is
\* defined holds an implicit declaration of its own name, which is matched
\* after it, and declares no fields wherever it is not being defined.
Injected(d) == [d EXCEPT !.part = "injected", !.members = <<>>]

\* hasDefinition, asked when the whole file has been parsed.
HasDefinition(f, d) ==
  /\ d.part # "injected"
  /\ \E e \in ToSet(program[f].decls) :
       /\ e.kind = "class" /\ e.part = "definition"
       /\ e.name = d.name /\ e.scope = d.scope

\* The value of an enumerator is the bits it has, in a type that is signed or
\* not; getSExtValue takes it for signed.
SExtValue(bits) == IF bits < 2^(IntWidth - 1) THEN bits ELSE bits - 2^IntWidth

-----------------------------------------------------------------------------
InRun == pc = "run" /\ file <= Len(program)
Decls == program[file].decls
Node == IF injected THEN Injected(Decls[turn]) ELSE Decls[turn]
Called(kind) == InRun /\ turn <= Len(Decls) /\ Node.kind = kind

\* The next callback.
Return ==
  /\ pc' = "run"
  /\ injected' = (Node.kind = "class" /\ Node.part = "definition")
  /\ turn' = IF injected' THEN turn ELSE turn + 1
  /\ UNCHANGED <<program, file>>

\* The files with errors are counted.
EndOfFileMutant ==
  /\ InRun
  /\ turn > Len(Decls)
  /\ file' = file + 1 /\ turn' = 1
  /\ res' = IF program[file].parses THEN res ELSE res + 1
  /\ UNCHANGED <<program, injected, pc, fileName, streams, global_ns, udts, output>>

\* All the matches of a file have been reported to the callback; a file with
\* errors makes run return 1, and the next one is run over all the same.
EndOfFile ==
  /\ InRun
  /\ turn > Len(Decls)
  /\ file' = file + 1 /\ turn' = 1
  /\ res' = IF program[file].parses THEN res ELSE 1
  /\ UNCHANGED <<program, injected, pc, fileName, streams, global_ns, udts, output>>

\* A class of another file than the main one.
SkipClass ==
  /\ Called("class")
  /\ ~Node.main
  /\ Return
  /\ UNCHANGED <<res, fileName, streams, global_ns, udts, output>>

\* A class that is not defined, which still names the file.
SkipUndefined ==
  /\ Called("class")
  /\ Node.main
  /\ ~HasDefinition(file, Node)
  /\ fileName' = file
  /\ Return
  /\ UNCHANGED <<res, streams, global_ns, udts, output>>

\* printClassFields: the qualified name, and the fields as they are written.
ClassText(d) == [scope |-> d.scope, name |-> d.name, members |-> d.members]

PrintClassFields ==
  /\ Called("class")
  /\ Node.main
  /\ HasDefinition(file, Node)
  /\ fileName' = file
  /\ classStream' = Append(classStream, ClassText(Node))
  /\ pc' = "class"
  /\ UNCHANGED <<program, file, turn, injected, res, enumStream, iprStream, global_ns, udts,
                 output>>

\* The class under construction is the last node made.
Udt == Len(udts)
NewUdt(kind) ==
  udts' = Append(udts, [kind |-> kind, name |-> Node.name, members |-> <<>>])

\* declare_type in the scope of the global namespace: a name that was declared
\* is redeclared, in a declaration of its own whose master is the first.
DeclareType(n, init) ==
  global_ns' = Append(global_ns, [name |-> n, init |-> init])

\* The class is made the initializer of the first declaration of its name.
CreatIprClassMutant ==
  /\ pc = "class"
  /\ NewUdt("class")
  /\ LET earlier == {i \in DOMAIN global_ns : global_ns[i].name = Node.name}
     IN  IF earlier = {} THEN DeclareType(Node.name, Udt')
         ELSE global_ns' = Append([i \in DOMAIN global_ns |->
                                     IF i \in earlier THEN [global_ns[i] EXCEPT !.init = Udt']
                                     ELSE global_ns[i]],
                                  [name |-> Node.name, init |-> 0])
  /\ pc' = "fields"
  /\ UNCHANGED <<program, file, turn, injected, res, fileName, streams, output>>

\* creatIprClass, up to its loop over the fields.
CreatIprClass ==
  /\ pc = "class"
  /\ NewUdt("class")
  /\ DeclareType(Node.name, Udt')
  /\ pc' = "fields"
  /\ UNCHANGED <<program, file, turn, injected, res, fileName, streams, output>>

\* A built-in type the reflector knows, class for what isClassType says was
\* declared with that keyword, void for anything else.
IprType(t) == IF t \in KnownTypes THEN t ELSE IF t = "class" THEN "class" ELSE "void"

NextMember == Node.members[Len(udts[Udt].members) + 1]
AllMembers == Len(udts[Udt].members) = Len(Node.members)
AddMember(m) == udts' = [udts EXCEPT ![Udt].members = Append(@, m)]

\* A step of the loop over the fields.
DeclareField ==
  /\ pc = "fields"
  /\ ~AllMembers
  /\ AddMember([name |-> NextMember.name, type |-> IprType(NextMember.type)])
  /\ UNCHANGED <<program, file, turn, injected, pc, res, fileName, streams, global_ns, output>>

\* The loops over members() that print the fields of the class with their
\* types, or the names of the enumerators.
PrintIpr ==
  /\ pc = "fields" \/ pc = "enumerators"
  /\ AllMembers
  /\ iprStream' = Append(iprStream,
       IF pc = "fields" THEN udts[Udt]
       ELSE [udts[Udt] EXCEPT !.members = [i \in DOMAIN @ |-> [name |-> @[i].name]]])
  /\ Return
  /\ UNCHANGED <<res, fileName, classStream, enumStream, global_ns, udts, output>>

\* An enum of another file than the main one.
SkipEnum ==
  /\ Called("enum")
  /\ ~Node.main
  /\ Return
  /\ UNCHANGED <<res, fileName, streams, global_ns, udts, output>>

EnumText(d) ==
  [name |-> d.name,
   members |-> [i \in DOMAIN d.members |->
                  [name |-> d.members[i].name, value |-> SExtValue(d.members[i].bits)]]]

\* printEnumFields: any declaration of an enum, defined or not.
PrintEnumFields ==
  /\ Called("enum")
  /\ Node.main
  /\ enumStream' = Append(enumStream, EnumText(Node))
  /\ pc' = "enum"
  /\ UNCHANGED <<program, file, turn, injected, res, fileName, classStream, iprStream, global_ns,
                 udts, output>>

\* createIprEnum, up to its loop: an enum is in no scope.
CreateIprEnum ==
  /\ pc = "enum"
  /\ NewUdt("enum")
  /\ pc' = "enumerators"
  /\ UNCHANGED <<program, file, turn, injected, res, fileName, streams, global_ns, output>>

\* The value is taken as it is, without its sign.
AddEnumeratorMutant ==
  /\ pc = "enumerators"
  /\ ~AllMembers
  /\ AddMember([name |-> NextMember.name, value |-> NextMember.bits])
  /\ UNCHANGED <<program, file, turn, injected, pc, res, fileName, streams, global_ns, output>>

\* add_member, initialized with the literal of its value.
AddEnumerator ==
  /\ pc = "enumerators"
  /\ ~AllMembers
  /\ AddMember([name |-> NextMember.name, value |-> SExtValue(NextMember.bits)])
  /\ UNCHANGED <<program, file, turn, injected, pc, res, fileName, streams, global_ns, output>>

\* What was collected is written only if every file was free of errors.
WriteMetaInfoMutant ==
  /\ pc = "run" /\ file > Len(program)
  /\ output' = IF res = 0
               THEN [heading |-> fileName, classes |-> classStream, enums |-> enumStream,
                     iprs |-> iprStream]
               ELSE output
  /\ pc' = "exit"
  /\ UNCHANGED <<program, file, turn, injected, res, fileName, streams, global_ns, udts>>

\* main: what was collected is written whatever run returned.
WriteMetaInfo ==
  /\ pc = "run" /\ file > Len(program)
  /\ output' = [heading |-> fileName, classes |-> classStream, enums |-> enumStream,
                iprs |-> iprStream]
  /\ pc' = "exit"
  /\ UNCHANGED <<program, file, turn, injected, res, fileName, streams, global_ns, udts>>

Next ==
  \/ EndOfFile
  \/ SkipClass \/ SkipUndefined \/ PrintClassFields \/ CreatIprClass \/ DeclareField
  \/ SkipEnum \/ PrintEnumFields \/ CreateIprEnum \/ AddEnumerator
  \/ PrintIpr
  \/ WriteMetaInfo

\* One thread that never waits.
Spec == Init /\ [][Next]_vars /\ WF_vars(Next)
-----------------------------------------------------------------------------
IprTypes == KnownTypes \cup {"class", "void"}
Fields == [name : Names, type : IprTypes]
Enumerators == [name : Names, value : {SExtValue(b) : b \in Bits}]

TypeOK ==
  /\ file \in 1..(Len(program) + 1)
  /\ turn \in Nat \ {0}
  /\ injected \in BOOLEAN
  /\ pc \in {"run", "class", "fields", "enum", "enumerators", "exit"}
  /\ res \in {0, 1}
  /\ fileName \in 0..Len(program)
  /\ classStream \in
       Seq([scope : Names, name : Names, members : Seq([name : Names, type : Types])])
  /\ enumStream \in Seq([name : Names, members : Seq(Enumerators)])
  /\ iprStream \in
       Seq([kind : {"class", "enum"}, name : Names, members : Seq(Fields \cup [name : Names])])
  /\ udts \in
       Seq([kind : {"class", "enum"}, name : Names, members : Seq(Fields \cup Enumerators)])
  /\ global_ns \in Seq([name : Names, init : DOMAIN udts])

\* Of what kind k there is among the first n of s.
Count(k, s, n) == Cardinality({i \in 1..n : s[i].kind = k})

SameEntry(text, ipr, SameMember(_, _)) ==
  /\ text.name = ipr.name
  /\ Len(text.members) = Len(ipr.members)
  /\ \A i \in DOMAIN text.members : SameMember(text.members[i], ipr.members[i])

\* Entry by entry, in order, for what is of kind k.
SameEntries(texts, k, iprs, SameMember(_, _)) ==
  /\ Len(texts) = Count(k, iprs, Len(iprs))
  /\ \A i \in DOMAIN iprs :
       iprs[i].kind = k => SameEntry(texts[Count(k, iprs, i)], iprs[i], SameMember)

\* A field has the name it was written with and its type, or void if there is
\* no ipr type for that.
SameField(f, g) ==
  /\ f.name = g.name
  /\ \/ g.type = f.type
     \/ g.type = "void" /\ f.type \notin KnownTypes \cup {"class"}
SameName(e, g) == e.name = g.name
Same(e, g) == e = g

\* The Iprs section, which is printed from the nodes built, lists the classes
\* and the enums of the other two sections, which are printed from clang's
\* declarations: in their order and with the same members; and the enumerators
\* built are initialized with the values that are printed.
SectionsAgree ==
  pc = "run" =>
    /\ SameEntries(classStream, "class", iprStream, SameField)
    /\ SameEntries(enumStream, "enum", iprStream, SameName)
    /\ SameEntries(enumStream, "enum", udts, Same)

\* The global namespace has a declaration of each class built, in their order,
\* and each is initialized with its own class, also when classes share a name
\* or one is built for a redeclaration; it has no other.
Declared ==
  pc = "run" =>
    /\ Len(global_ns) = Count("class", udts, Len(udts))
    /\ \A i \in DOMAIN global_ns :
         LET d == global_ns[i]
         IN  d.init \in DOMAIN udts /\ udts[d.init].kind = "class" /\ udts[d.init].name = d.name
    /\ \A i, j \in DOMAIN global_ns : i < j => global_ns[i].init < global_ns[j].init

\* What is to be reported of each file, whether it parsed or not: the enums in
\* its main part, and the declarations there of classes that the file defines.
ToReport(k) ==
  FlattenSeq([f \in DOMAIN program |->
    SelectSeq(program[f].decls,
              LAMBDA d : d.main /\ d.kind = k /\ (k = "class" => HasDefinition(f, d)))])

\* The value of an enumerator of enum d, which is printed, unless the type is
\* unsigned and has the first bit set: that one is printed as negative.
Value(d, bits) ==
  CHOOSE v \in IF d.unsigned THEN 0..(2^IntWidth - 1) ELSE -(2^(IntWidth - 1))..(2^(IntWidth - 1) - 1) :
    v % 2^IntWidth = bits

SameValue(d, i, printed) ==
  LET v == Value(d, d.members[i].bits)
  IN  printed = IF d.unsigned /\ v >= 2^(IntWidth - 1) THEN v - 2^IntWidth ELSE v

\* What was written reports, in order, every class that a file defines, with all
\* of its fields, and once more without fields for each other declaration of it in
\* that file; no implicit declaration and no class that is only declared; and every
\* enum with its enumerators.
WholeReport ==
  LET classes == ToReport("class")
      enums == ToReport("enum")
  IN  /\ output # NoOutput
      /\ output.classes = [i \in DOMAIN classes |-> ClassText(classes[i])]
      /\ Len(output.enums) = Len(enums)
      /\ \A k \in DOMAIN enums :
           /\ output.enums[k].name = enums[k].name
           /\ Len(output.enums[k].members) = Len(enums[k].members)
           /\ \A i \in DOMAIN enums[k].members :
                /\ output.enums[k].members[i].name = enums[k].members[i].name
                /\ SameValue(enums[k], i, output.enums[k].members[i].value)

\* main ends, with the whole report written, also of the files that could be
\* parsed in part, and with the error run returned (main.cc:44).
Reported ==
  <>[](/\ pc = "exit" /\ WholeReport
       /\ res = (IF \A f \in ToSet(program) : f.parses THEN 0 ELSE 1))
=============================================================================
