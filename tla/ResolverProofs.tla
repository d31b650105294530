---------------------------- MODULE ResolverProofs ----------------------------
(***************************************************************************)
(* What holds of the dependency walk for every host tree, every list of    *)
(* default directories and every --include list, of the graph that is      *)
(* shown of it, of the image that is staged from what it found, and of     *)
(* what ld.so loads in that image.                                         *)
(***************************************************************************)
EXTENDS PackedImage, DepGraph, FiniteSetTheorems, WellFoundedInduction, TLAPS

--------------------------------------------------------------------------------
\* Helpers on sets of positions and on sequences.

\* A nonempty set of natural numbers has a minimum.
LEMMA MinExists ==
  ASSUME NEW S \in SUBSET Nat, S # {}
  PROVE  Min(S) \in S /\ \A k \in S : Min(S) <= k
<1> DEFINE Less == {pair \in Nat \X Nat : pair[1] < pair[2]}
<1>1. IsWellFoundedOn(Less, Nat)
  BY NatLessThanWellFounded DEF OpToRel
<1>2. PICK m \in S : \A k \in S : <<k, m>> \notin Less
  <2> HIDE DEF Less
  <2> QED
    BY <1>1, WFMin
<1>3. ASSUME NEW k \in S PROVE m <= k
  <2>1. ~ (k < m)
    BY <1>2
  <2> QED
    BY <2>1
<1> QED
  BY <1>3 DEF Min

\* Appending an element adds that element to the range and keeps every position.
LEMMA RangeOfAppend ==
  ASSUME NEW T, NEW s \in Seq(T), NEW e
  PROVE  /\ Range(Append(s, e)) = Range(s) \cup {e}
         /\ DOMAIN Append(s, e) = DOMAIN s \cup {Len(s) + 1}
         /\ \A k \in DOMAIN s : Append(s, e)[k] = s[k]
         /\ Append(s, e)[Len(s) + 1] = e
  BY DEF Range

\* A concatenation holds the elements of its two parts and no others.
LEMMA RangeOfConcat ==
  ASSUME NEW T, NEW s \in Seq(T), NEW t \in Seq(T)
  PROVE  s \o t \in Seq(T) /\ Range(s \o t) = Range(s) \cup Range(t)
<1>1. s \o t \in Seq(T)
  OBVIOUS
<1>2. ASSUME NEW k \in DOMAIN t PROVE t[k] \in Range(s \o t)
  <2>1. /\ k + Len(s) \in DOMAIN (s \o t)
        /\ (s \o t)[k + Len(s)] = t[k]
    OBVIOUS
  <2> QED
    BY <2>1 DEF Range
<1>3. ASSUME NEW k \in DOMAIN s PROVE s[k] \in Range(s \o t)
  <2>1. k \in DOMAIN (s \o t) /\ (s \o t)[k] = s[k]
    OBVIOUS
  <2> QED
    BY <2>1 DEF Range
<1>4. ASSUME NEW k \in DOMAIN (s \o t) PROVE (s \o t)[k] \in Range(s) \cup Range(t)
  BY DEF Range
<1> QED
  BY <1>1, <1>2, <1>3, <1>4 DEF Range

--------------------------------------------------------------------------------
\* Types of the search-path and lookup operators.

\* The link facts of a file of the host tree have the types a reader of an ELF gives them.
LEMMA ElfFacts ==
  ASSUME sys \in Sysroot, NEW f \in Files
  PROVE  /\ sys.elf[f] \in Elf
         /\ sys.elf[f].needed \in Seq(Names)
         /\ sys.elf[f].rpath \in Seq(Entries) /\ sys.elf[f].runpath \in Seq(Entries)
         /\ sys.elf[f].rpathWhole \in Seq(Dirs) /\ sys.elf[f].runpathWhole \in Seq(Dirs)
         /\ sys.home[f] \in Dirs
         /\ sys.includes \in Seq(Names)
         /\ \A d \in Dirs, n \in Names : sys.at[d][n] \in Files \cup {NoFile}
  BY DEF Sysroot, Elf

\* Expanding the entries of a search path gives directories.
LEMMA BuildDirsType ==
  ASSUME sys \in Sysroot, NEW f \in Files, NEW entries \in Seq(Entries)
  PROVE  BuildDirs(entries, f) \in Seq(Dirs)
<1>1. \A e \in Entries : EntryDir(e, sys.home[f]) \in Dirs
  BY ElfFacts, ResolverAssumption DEF EntryDir, Entries
<1> QED
  BY <1>1 DEF BuildDirs

\* An object asks for names only.
LEMMA NeededType ==
  ASSUME sys \in Sysroot, NEW f \in Files
  PROVE  Needed(f) \in Seq(Names) /\ Len(sys.elf[f].needed) \in Nat
  BY ElfFacts, ResolverAssumption DEF Needed

\* The lists an object searches, and those it hands to its children, hold directories.
LEMMA SearchTypes ==
  ASSUME sys \in Sysroot, NEW item \in Items
  PROVE  /\ SearchDirs(item) \in Seq(Dirs) /\ WholeDirs(item) \in Seq(Dirs)
         /\ ChildRpaths(item) \in Seq(Dirs) /\ ChildWholes(item) \in Seq(Dirs)
         /\ OwnRpaths(item.obj) \in Seq(Dirs)
<1>1. item.obj \in Files /\ item.rpaths \in Seq(Dirs) /\ item.wholes \in Seq(Dirs)
  BY DEF Items
<1>2. /\ OwnRpaths(item.obj) \in Seq(Dirs) /\ OwnWholes(item.obj) \in Seq(Dirs)
      /\ BuildDirs(sys.elf[item.obj].runpath, item.obj) \in Seq(Dirs)
  BY <1>1, ElfFacts, BuildDirsType DEF OwnRpaths, OwnWholes
<1>3. sys.elf[item.obj].runpathWhole \in Seq(Dirs)
  BY <1>1, ElfFacts
<1> QED
  BY <1>1, <1>2, <1>3 DEF SearchDirs, WholeDirs, ChildRpaths, ChildWholes

\* A search gives a file of the tree or none.
LEMMA FirstHitType ==
  ASSUME sys \in Sysroot, NEW name \in Names, NEW dirs \in Seq(Dirs),
         NEW S \in SUBSET DOMAIN dirs
  PROVE  FirstHit(dirs, name, S) \in Files \cup {NoFile}
<1>1. CASE S = {}
  BY <1>1 DEF FirstHit
<1>2. CASE S # {}
  <2>1. S \in SUBSET Nat
    OBVIOUS
  <2>2. Min(S) \in DOMAIN dirs
    BY <1>2, <2>1, MinExists
  <2>3. dirs[Min(S)] \in Dirs
    BY <2>2
  <2> QED
    BY <1>2, <2>3, ResolverAssumption, ElfFacts DEF FirstHit
<1> QED
  BY <1>1, <1>2

\* A search finds a file of the host, or nothing.
LEMMA FindLibType ==
  ASSUME sys \in Sysroot, NEW name \in Names, NEW dirs \in Seq(Dirs), NEW f \in Files
  PROVE  FindLib(name, dirs, f) \in Files \cup {NoFile}
<1> DEFINE S == {k \in DOMAIN dirs : sys.at[dirs[k]][name] # NoFile}
<1>1. FirstHit(dirs, name, S) \in Files \cup {NoFile}
  BY FirstHitType
<1> QED
  BY <1>1, ElfFacts DEF FindLib

\* So does a look in the cache.
LEMMA FindCachedType ==
  ASSUME sys \in Sysroot, NEW name \in Names, NEW dirs \in Seq(Dirs)
  PROVE  FindCached(name, dirs) \in Files \cup {NoFile}
<1> DEFINE S == {k \in DOMAIN dirs : /\ sys.at[dirs[k]][name] # NoFile
                                    /\ ListedAs(sys.at[dirs[k]][name], name)}
<1>1. FirstHit(dirs, name, S) \in Files \cup {NoFile}
  BY FirstHitType
<1> QED
  BY <1>1 DEF FindCached

\* So does the whole lookup of one name.
LEMMA LookupType ==
  ASSUME sys \in Sysroot, NEW item \in Items, NEW k \in DOMAIN Needed(item.obj)
  PROVE  /\ Needed(item.obj)[k] \in Names
         /\ Lookup(item, k) \in Files \cup {NoFile}
<1>1. item.obj \in Files /\ Needed(item.obj)[k] \in Names
  BY NeededType DEF Items
<1>2. /\ FindLib(Needed(item.obj)[k], SearchDirs(item), item.obj) \in Files \cup {NoFile}
      /\ FindLib(Needed(item.obj)[k], DefaultDirs, item.obj) \in Files \cup {NoFile}
  BY <1>1, SearchTypes, FindLibType, ResolverAssumption
<1>3. InWholes(item, k, WholeDirs(item)) \in Files \cup {NoFile}
  BY <1>1, SearchTypes, FindLibType, FindCachedType DEF InWholes
<1> QED
  BY <1>1, <1>2, <1>3 DEF Lookup

--------------------------------------------------------------------------------
\* Type correctness.

\* A hint names a cause, a name that was asked for, and a directory or an object.
LEMMA MissHintsType ==
  ASSUME sys \in Sysroot, NEW item \in Items, NEW k \in DOMAIN Needed(item.obj)
  PROVE  MissHints(item, k) \subseteq {"uncached", "hidden"} \X Names \X (Dirs \cup Files)
<1>1. Needed(item.obj)[k] \in Names /\ item.obj \in Files
  BY LookupType DEF Items
<1>2. Range(WholeDirs(item)) \subseteq Dirs
  BY SearchTypes DEF Range
<1> QED
  BY <1>1, <1>2 DEF MissHints

\* What a lookup step reads is well typed, and so is the edge it records.
LEMMA AtNameTypes ==
  ASSUME TypeOK, AtName
  PROVE  /\ Head(queue) \in Items
         /\ pos \in DOMAIN Needed(Head(queue).obj)
         /\ Head(queue).obj \in Files
         /\ NextName \in Names
         /\ Found \in Files \cup {NoFile}
         /\ RecordEdge => edges' \in Seq(Edge)
<1>1. Head(queue) \in Items
  BY DEF TypeOK, AtName
<1>2. Head(queue).obj \in Files
  BY <1>1 DEF Items
<1>3. pos \in DOMAIN Needed(Head(queue).obj)
  BY <1>2, NeededType DEF TypeOK, AtName
<1>4. NextName \in Names /\ Found \in Files \cup {NoFile}
  BY <1>1, <1>3, LookupType DEF TypeOK, NextName, Found
<1>5. [from |-> Head(queue).obj, soname |-> NextName, to |-> Found] \in Edge
  BY <1>2, <1>4 DEF Edge
<1>6. ASSUME RecordEdge PROVE edges' \in Seq(Edge)
  <2> DEFINE e == [from |-> Head(queue).obj, soname |-> NextName, to |-> Found]
  <2>1. e \in Edge /\ edges' = Append(edges, e)
    BY <1>5, <1>6 DEF RecordEdge
  <2> HIDE DEF e
  <2> QED
    BY <2>1 DEF TypeOK
<1> QED
  BY <1>1, <1>2, <1>3, <1>4, <1>6

\* The walk without its fairness: what a process that embeds it runs.
WalkSafe == Init /\ [][Next]_vars

\* Types, step by step.
LEMMA WalkTypes == WalkSafe => []TypeOK
<1>1. Init => TypeOK
  BY ResolverAssumption DEF Init, TypeOK
<1>2. TypeOK /\ [Next]_vars => TypeOK'
  <2> SUFFICES ASSUME TypeOK, [Next]_vars PROVE TypeOK'
    OBVIOUS
  <2>1. CASE RefuseBinary
    BY <2>1 DEF TypeOK, RefuseBinary, Bail
  <2>2. CASE StartWalk
    <3>1. [obj |-> Binary, rpaths |-> <<>>, wholes |-> <<>>,
           declared |-> Len(sys.elf[Binary].needed)] \in Items
      BY NeededType, ResolverAssumption DEF TypeOK, Items
    <3>2. queue' \in Seq(Items)
      BY <2>2, <3>1 DEF StartWalk
    <3>3. missing' \in Seq(Names \cup {Interp})
      <4>1. missing' = <<Interp>> \/ missing' = <<>>
        BY <2>2 DEF StartWalk
      <4>2. Interp \in Names \cup {Interp}
        OBVIOUS
      <4>3. \A T, e : e \in T => <<e>> \in Seq(T) /\ <<>> \in Seq(T)
        OBVIOUS
      <4> QED
        BY <4>1, <4>2, <4>3
    <3> QED
      BY <2>2, <3>2, <3>3 DEF TypeOK, StartWalk
  <2>3. CASE OpenItem
    BY <2>3 DEF TypeOK, OpenItem
  <2>4. CASE RefusePlatform
    BY <2>4 DEF TypeOK, RefusePlatform, Bail
  <2>5. CASE NameMissing
    <3>1. AtName
      BY <2>5 DEF NameMissing, ReportMissing
    <3>2. missing' \in Seq(Names \cup {Interp})
      BY <2>5, <3>1, AtNameTypes DEF TypeOK, NameMissing, ReportMissing, PushUnique
    <3>3. hints' \subseteq {"uncached", "hidden"} \X Names \X (Dirs \cup Files)
      BY <2>5, <3>1, AtNameTypes, MissHintsType DEF TypeOK, NameMissing, ReportMissing
    <3> QED
      BY <2>5, <3>1, <3>2, <3>3, AtNameTypes DEF TypeOK, NameMissing, ReportMissing
  <2>6. CASE NameSeen
    BY <2>6, AtNameTypes DEF TypeOK, NameSeen
  <2>7. ASSUME CollectFound
        PROVE  /\ edges' \in Seq(Edge) /\ visited' \subseteq Files /\ libs' \in Seq(Lib)
               /\ missing' = missing /\ hints' = hints
    <3>1. [soname |-> NextName, path |-> Found] \in Lib
      BY <2>7, AtNameTypes DEF CollectFound, IsNew, ReportNothing, Lib
    <3> QED
      BY <2>7, <3>1, AtNameTypes DEF CollectFound, IsNew, ReportNothing, TypeOK
  <2>8. CASE RefuseFound
    BY <2>7, <2>8 DEF TypeOK, RefuseFound, Bail
  <2>9. CASE AddLeaf
    BY <2>7, <2>9 DEF TypeOK, AddLeaf
  <2>10. CASE AddLibrary
    <3>1. Head(queue) \in Items /\ Found \in Files
      BY <2>10, AtNameTypes DEF AddLibrary, Enqueue, Child, CollectFound, IsNew, ReportNothing
    <3>2. [obj |-> Found, rpaths |-> ChildRpaths(Head(queue)),
           wholes |-> ChildWholes(Head(queue)),
           declared |-> Len(sys.elf[Found].needed)] \in Items
      BY <3>1, SearchTypes, NeededType DEF TypeOK, Items
    <3>3. queue' \in Seq(Items)
      BY <2>10, <3>2 DEF TypeOK, AddLibrary, Enqueue, Child
    <3> QED
      BY <2>7, <2>10, <3>3 DEF TypeOK, AddLibrary, Enqueue, Child
  <2>11. CASE CloseItem
    BY <2>11 DEF TypeOK, CloseItem, AllAsked
  <2>12. CASE Finish
    BY <2>12 DEF TypeOK, Finish, Walked
  <2>13. CASE UNCHANGED vars
    BY <2>13 DEF TypeOK, vars
  <2> QED
    BY <2>1, <2>2, <2>3, <2>4, <2>5, <2>6, <2>8, <2>9, <2>10, <2>11, <2>12, <2>13 DEF Next
<1> QED
  BY <1>1, <1>2, PTL DEF WalkSafe

\* Every reachable state of the walk is well typed, on every host tree.
THEOREM TypeCorrect == Spec => []TypeOK
BY WalkTypes, PTL DEF Spec, WalkSafe

--------------------------------------------------------------------------------
\* How a step changes the lists.

\* The steps that answer a name, and the only ones that touch the edges once the walk runs.
LEMMA StepKinds ==
  ASSUME TypeOK, [Next]_vars
  PROVE  /\ sys' = sys
         /\ \/ UNCHANGED <<visited, libs>>
            \/ CollectFound
         /\ \/ edges' = edges
            \/ AtName /\ RecordEdge
<1>1. CASE UNCHANGED vars
  BY <1>1 DEF vars
<1>2. CASE RefuseBinary \/ RefusePlatform
  BY <1>2 DEF RefuseBinary, RefusePlatform, Bail
<1>3. CASE StartWalk \/ OpenItem \/ CloseItem \/ Finish
  BY <1>3 DEF StartWalk, OpenItem, CloseItem, AllAsked, Finish, Walked
<1>4. CASE NameMissing \/ NameSeen
  BY <1>4 DEF NameMissing, ReportMissing, NameSeen
<1>5. CASE RefuseFound \/ AddLeaf \/ AddLibrary
  BY <1>5 DEF RefuseFound, AddLeaf, AddLibrary, Enqueue, Child, CollectFound, IsNew,
      ReportNothing, Bail
<1> QED
  BY <1>1, <1>2, <1>3, <1>4, <1>5 DEF Next

\* A recorded edge joins the earlier ones and drops none of them.
LEMMA EdgesGrow ==
  ASSUME TypeOK, AtName, RecordEdge
  PROVE  Range(edges') =
           Range(edges) \cup {[from |-> Head(queue).obj, soname |-> NextName, to |-> Found]}
<1> DEFINE e == [from |-> Head(queue).obj, soname |-> NextName, to |-> Found]
<1>1. edges' = Append(edges, e)
  BY DEF RecordEdge
<1>2. edges \in Seq(Edge)
  BY DEF TypeOK
<1> HIDE DEF e
<1>3. Range(Append(edges, e)) = Range(edges) \cup {e}
  BY <1>2, RangeOfAppend
<1>4. Range(edges') = Range(edges) \cup {e}
  BY <1>1, <1>3
<1> QED
  BY <1>4 DEF e

\* A collected file joins the visited files and takes the last place of the list.
LEMMA LibsGrow ==
  ASSUME TypeOK, CollectFound
  PROVE  /\ libs \in Seq(Lib)
         /\ visited' = visited \cup {Found} /\ Found \in Files \ visited
         /\ DOMAIN libs' = DOMAIN libs \cup {Len(libs) + 1}
         /\ \A k \in DOMAIN libs : libs'[k] = libs[k]
         /\ libs'[Len(libs) + 1] = [soname |-> NextName, path |-> Found]
         /\ Len(libs) \in Nat /\ DOMAIN libs = 1 .. Len(libs)
<1> DEFINE new == [soname |-> NextName, path |-> Found]
<1>1. libs' = Append(libs, new) /\ visited' = visited \cup {Found} /\ Found \in Files \ visited
  BY DEF CollectFound, IsNew, ReportNothing
<1>2. libs \in Seq(Lib)
  BY DEF TypeOK
<1> HIDE DEF new
<1>3. /\ DOMAIN libs' = DOMAIN libs \cup {Len(libs) + 1}
      /\ \A k \in DOMAIN libs : libs'[k] = libs[k]
      /\ libs'[Len(libs) + 1] = new
  BY <1>1, <1>2
<1> QED
  BY <1>1, <1>2, <1>3 DEF new

--------------------------------------------------------------------------------
\* A file is new when it is collected, so it is collected once.
LEMMA WalkOnce == WalkSafe => []EachFileOnce
<1>1. Init => EachFileOnce
  BY DEF Init, EachFileOnce
<1>2. TypeOK /\ EachFileOnce /\ [Next]_vars => EachFileOnce'
  <2> SUFFICES ASSUME TypeOK, EachFileOnce, [Next]_vars PROVE EachFileOnce'
    OBVIOUS
  <2>1. CASE UNCHANGED <<visited, libs>>
    BY <2>1 DEF EachFileOnce
  <2>2. CASE CollectFound
    <3> DEFINE n == Len(libs) + 1
    <3>1. /\ DOMAIN libs' = DOMAIN libs \cup {n} /\ n \notin DOMAIN libs
          /\ \A k \in DOMAIN libs : libs'[k].path = libs[k].path
          /\ libs'[n].path = Found
          /\ visited' = visited \cup {Found} /\ Found \notin visited
      BY <2>2, LibsGrow
    <3> HIDE DEF n
    <3>2. visited = {Binary} \cup {libs[k].path : k \in DOMAIN libs}
      BY DEF EachFileOnce
    <3>3. visited' = {Binary} \cup {libs'[k].path : k \in DOMAIN libs'}
      BY <3>1, <3>2
    <3>4. \A k \in DOMAIN libs : libs[k].path # Found /\ Binary # Found
      BY <3>1, <3>2
    <3> QED
      BY <3>1, <3>3, <3>4 DEF EachFileOnce
  <2> QED
    BY <2>1, <2>2, StepKinds
<1> QED
  BY <1>1, <1>2, WalkTypes, PTL DEF WalkSafe

\* What is collected.

\* Each real file is collected, and so staged, at most once.
THEOREM FilesCollectedOnce == Spec => []EachFileOnce
BY WalkOnce, PTL DEF Spec, WalkSafe

--------------------------------------------------------------------------------
\* Nothing is dropped.

\* An answered name stays answered.
LEMMA AnswersKept ==
  ASSUME TypeOK, [Next]_vars, NEW f, NEW k, AnswersName(f, k)
  PROVE  AnswersName(f, k)'
<1>1. Range(edges) \subseteq Range(edges)'
  <2>1. CASE edges' = edges
    BY <2>1
  <2>2. CASE AtName /\ RecordEdge
    <3>1. Range(edges') = Range(edges)'
      BY DEF Range
    <3> QED
      BY <2>2, <3>1, EdgesGrow
  <2> QED
    BY <2>1, <2>2, StepKinds
<1>2. visited \subseteq visited'
  BY StepKinds, LibsGrow
<1>3. Needed(f)' = Needed(f)
  BY StepKinds DEF Needed
<1> QED
  BY <1>1, <1>2, <1>3 DEF AnswersName

\* A lookup step answers the name it looked up.
LEMMA StepAnswers ==
  ASSUME TypeOK, [Next]_vars, AtName, RecordEdge, Found \in visited' \cup {NoFile},
         NEW o, o = Head(queue).obj, NEW k, k = pos
  PROVE  AnswersName(o, k)'
<1> DEFINE e == [from |-> o, soname |-> NextName, to |-> Found]
<1>1. e \in Range(edges)'
  <2>1. e \in Range(edges')
    BY EdgesGrow
  <2> QED
    BY <2>1 DEF Range
<1>2. Needed(o)' = Needed(o)
  BY StepKinds DEF Needed
<1>3. NextName = Needed(o)[k]
  BY DEF NextName
<1>4. e.from = o /\ e.soname = Needed(o)'[k] /\ e.to \in visited' \cup {NoFile}
  BY <1>2, <1>3
<1> HIDE DEF e
<1> QED
  BY <1>1, <1>4 DEF AnswersName

\* The bookkeeping, step by step.
LEMMA WalkBooks == WalkSafe => []WalkInv
<1>1. Init => WalkInv
  BY DEF Init, WalkInv
<1>2. TypeOK /\ TypeOK' /\ WalkInv /\ [Next]_vars => WalkInv'
  <2> SUFFICES ASSUME TypeOK, TypeOK', WalkInv, [Next]_vars PROVE WalkInv'
    OBVIOUS
  <2> DEFINE Walking == outcome \in {"walking", "resolved"}
             QueueOK == \A k \in DOMAIN queue :
                          /\ queue[k].obj \in visited /\ IsElf(queue[k].obj)
                          /\ queue[k].declared = Len(sys.elf[queue[k].obj].needed)
             Pending(f) == \E k \in DOMAIN queue : queue[k].obj = f
             Done(f) == \A k \in DOMAIN Needed(f) : AnswersName(f, k)
             HeadOK == queue # <<>> =>
                         \A k \in DOMAIN Needed(Head(queue).obj) :
                           k < pos => AnswersName(Head(queue).obj, k)
  <2>a. ASSUME NEW f PROVE Done(f) => Done(f)'
    <3>1. Needed(f)' = Needed(f)
      BY StepKinds DEF Needed
    <3> QED
      BY <3>1, AnswersKept
  <2>b. \A f : IsElf(f)' <=> IsElf(f)
    BY StepKinds DEF IsElf
  <2>c. ASSUME AtName, RecordEdge, Found \in visited' \cup {NoFile}, pos' = pos + 1,
               Head(queue') = Head(queue)
        PROVE  HeadOK'
    <3> DEFINE o == Head(queue).obj
    <3>1. Needed(o) \in Seq(Names) /\ pos \in Nat
      BY <2>c, AtNameTypes, NeededType DEF TypeOK
    <3>2. ASSUME NEW f, f = o, NEW k \in DOMAIN Needed(f), k < pos + 1 PROVE AnswersName(f, k)'
      <4>1. CASE k = pos
        BY <2>c, <3>2, <4>1, StepAnswers
      <4>2. CASE k < pos
        <5>1. AnswersName(f, k)
          BY <2>c, <3>2, <4>2 DEF WalkInv, AtName
        <5> QED
          BY <5>1, AnswersKept
      <4> QED
        BY <3>1, <3>2, <4>1, <4>2
    <3>3. \A f : Needed(f)' = Needed(f)
      BY StepKinds DEF Needed
    <3> QED
      BY <2>c, <3>2, <3>3
  <2>d. ASSUME pos' \in {0, 1} PROVE HeadOK'
    <3>1. \A f \in Files : \A k \in DOMAIN Needed(f) : ~ (k < 1) /\ ~ (k < 0)
      BY NeededType DEF TypeOK
    <3>2. \A f : Needed(f)' = Needed(f)
      BY StepKinds DEF Needed
    <3>3. queue' # <<>> => Head(queue') \in Items
      BY DEF TypeOK
    <3>4. queue' # <<>> => Head(queue').obj \in Files
      BY <3>3 DEF Items
    <3> QED
      BY <2>d, <3>1, <3>2, <3>4
  <2>1. CASE outcome' = "refused"
    BY <2>1 DEF WalkInv
  <2>2. CASE StartWalk
    <3>1. /\ queue' = <<[obj |-> Binary, rpaths |-> <<>>, wholes |-> <<>>,
                        declared |-> Len(sys.elf[Binary].needed)]>>
          /\ visited' = {Binary} /\ sys' = sys /\ outcome' = "walking" /\ pos' = 0
          /\ IsElf(Binary)
      BY <2>2 DEF StartWalk, WalkInv
    <3>2. QueueOK' /\ Pending(Binary)'
      BY <3>1 DEF IsElf
    <3>3. HeadOK'
      BY <2>d, <3>1
    <3> QED
      BY <3>1, <3>2, <3>3 DEF WalkInv
  <2>3. CASE OpenItem
    <3>1. /\ UNCHANGED <<sys, outcome, queue, visited, edges>> /\ outcome = "walking"
          /\ pos' = 1 /\ queue # <<>>
      BY <2>3 DEF OpenItem
    <3>2. HeadOK'
      BY <2>d, <3>1
    <3> QED
      BY <2>a, <2>b, <3>1, <3>2 DEF WalkInv
  <2>4. CASE NameMissing \/ NameSeen
    <3>1. /\ UNCHANGED <<sys, outcome, queue, visited>> /\ outcome = "walking"
          /\ AtName /\ RecordEdge /\ Found \in visited' \cup {NoFile} /\ pos' = pos + 1
      BY <2>4 DEF NameMissing, ReportMissing, NameSeen, AtName
    <3>2. HeadOK'
      BY <2>c, <3>1
    <3> QED
      BY <2>a, <2>b, <3>1, <3>2 DEF WalkInv
  <2>5. CASE AddLeaf
    <3>1. /\ UNCHANGED <<sys, outcome, queue>> /\ outcome = "walking"
          /\ AtName /\ RecordEdge /\ Found \in visited' \cup {NoFile} /\ pos' = pos + 1
          /\ visited' = visited \cup {Found} /\ ~IsElf(Found)
      BY <2>5 DEF AddLeaf, CollectFound, IsNew, ReportNothing, AtName
    <3>2. HeadOK'
      BY <2>c, <3>1
    <3> QED
      BY <2>a, <2>b, <3>1, <3>2 DEF WalkInv
  <2>6. CASE AddLibrary
    <3> DEFINE item == [obj |-> Found, rpaths |-> ChildRpaths(Head(queue)),
                        wholes |-> ChildWholes(Head(queue)),
                        declared |-> Len(sys.elf[Found].needed)]
    <3>1. /\ UNCHANGED <<sys, outcome>> /\ outcome = "walking" /\ queue # <<>>
          /\ AtName /\ RecordEdge /\ Found \in visited' \cup {NoFile} /\ pos' = pos + 1
          /\ visited' = visited \cup {Found} /\ IsElf(Found)
          /\ queue' = Append(queue, item)
      BY <2>6 DEF AddLibrary, Enqueue, Child, CollectFound, IsNew, ReportNothing, AtName
    <3>2. item.obj = Found /\ item.declared = Len(sys.elf[Found].needed)
      OBVIOUS
    <3> HIDE DEF item
    <3>3. /\ DOMAIN queue' = DOMAIN queue \cup {Len(queue) + 1}
          /\ \A k \in DOMAIN queue : queue'[k] = queue[k]
          /\ queue'[Len(queue) + 1] = item
          /\ Head(queue') = Head(queue)
      BY <3>1 DEF TypeOK
    <3>4. HeadOK'
      BY <2>c, <3>1, <3>3
    <3>5. QueueOK'
      BY <3>1, <3>2, <3>3, <2>b DEF WalkInv
    <3>6. ASSUME NEW f PROVE (f = Found \/ Pending(f)) => Pending(f)'
      BY <3>1, <3>2, <3>3
    <3> QED
      BY <2>a, <2>b, <3>1, <3>4, <3>5, <3>6 DEF WalkInv
  <2>7. CASE CloseItem
    <3> DEFINE o == Head(queue).obj
    <3>1. /\ UNCHANGED <<sys, outcome, visited, edges>> /\ outcome = "walking" /\ queue # <<>>
          /\ pos > Len(Needed(o)) /\ queue' = Tail(queue) /\ pos' = 0
      BY <2>7 DEF CloseItem, AllAsked
    <3>2. queue \in Seq(Items) /\ o \in Files /\ Needed(o) \in Seq(Names) /\ pos \in Nat
      <4>1. queue \in Seq(Items) /\ Head(queue) \in Items
        BY <3>1 DEF TypeOK
      <4>2. o \in Files
        BY <4>1 DEF Items
      <4> QED
        BY <4>1, <4>2, NeededType DEF TypeOK
    <3>3. Done(o)
      BY <3>1, <3>2 DEF WalkInv
    <3>4. /\ \A k \in DOMAIN queue' : k + 1 \in DOMAIN queue /\ queue'[k] = queue[k + 1]
          /\ \A k \in DOMAIN queue : k = 1 \/ (k - 1 \in DOMAIN queue' /\ queue'[k - 1] = queue[k])
          /\ queue[1] = Head(queue)
      BY <3>1, <3>2
    <3>5. \A f : Pending(f) => f = o \/ Pending(f)'
      BY <3>4
    <3>6. QueueOK'
      BY <2>b, <3>1, <3>4 DEF WalkInv
    <3>7. HeadOK'
      BY <2>d, <3>1
    <3> QED
      BY <2>a, <2>b, <3>1, <3>3, <3>5, <3>6, <3>7 DEF WalkInv
  <2>8. CASE Finish
    <3>1. UNCHANGED <<sys, queue, pos, visited, edges>> /\ outcome = "walking" /\ queue = <<>>
      BY <2>8 DEF Finish, Walked
    <3> QED
      BY <2>a, <2>b, <2>8, <3>1 DEF WalkInv, Finish, Walked
  <2>9. CASE UNCHANGED vars
    <3>1. UNCHANGED <<sys, outcome, queue, pos, visited, libs, edges, missing, hints>>
      BY <2>9 DEF vars
    <3>2. \A f : Needed(f)' = Needed(f)
      BY StepKinds DEF Needed
    <3>3. ASSUME HeadOK, queue # <<>>, NEW f, f = Head(queue).obj,
                 NEW k \in DOMAIN Needed(f), k < pos
          PROVE  AnswersName(f, k)'
      BY <3>3, AnswersKept
    <3>4. HeadOK => HeadOK'
      BY <3>1, <3>2, <3>3
    <3> QED
      BY <2>a, <2>b, <3>1, <3>4 DEF WalkInv
  <2> QED
    BY <2>1, <2>2, <2>3, <2>4, <2>5, <2>6, <2>7, <2>8, <2>9
    DEF Next, RefuseBinary, RefusePlatform, RefuseFound, Bail
<1> QED
  BY <1>1, <1>2, WalkTypes, PTL DEF WalkSafe

\* The bookkeeping of the walk holds in every reachable state.
THEOREM WalkBookkeeping == Spec => []WalkInv
BY WalkBooks, PTL DEF Spec, WalkSafe

\* A finished walk has an answer for every name of every ELF it collected.
THEOREM ResolutionIsClosed == Spec => []ResolvedIsClosed
<1>1. WalkInv => ResolvedIsClosed
  BY DEF WalkInv, ResolvedIsClosed
<1> QED
  BY <1>1, WalkBookkeeping, PTL

\* A name is reported exactly when its edge leads nowhere.
LEMMA WalkMissing == WalkSafe => []MissingIsExact
<1> DEFINE Dangling(n) == \E e \in Range(edges) : e.soname = n /\ e.to = NoFile
<1>1. Init => MissingIsExact
  BY DEF Init, MissingIsExact, Range
<1>2. TypeOK /\ WalkInv /\ MissingIsExact /\ [Next]_vars => MissingIsExact'
  <2> SUFFICES ASSUME TypeOK, WalkInv, MissingIsExact, [Next]_vars, outcome' # "refused",
                      NEW n \in Names \ {Interp}
               PROVE  (n \in Range(missing))' <=> Dangling(n)'
    BY DEF MissingIsExact
  <2>1. CASE UNCHANGED <<missing, edges>> /\ outcome # "refused"
    BY <2>1 DEF MissingIsExact, Range
  <2>2. CASE StartWalk
    <3>1. /\ edges = <<>> /\ edges' = edges
          /\ missing' = <<Interp>> \/ missing' = <<>>
      BY <2>2 DEF StartWalk, WalkInv
    <3> QED
      BY <3>1 DEF Range
  <2>3. CASE AtName /\ RecordEdge /\ missing' = missing /\ Found # NoFile /\ outcome # "refused"
    <3>1. Range(edges') = Range(edges) \cup
                         {[from |-> Head(queue).obj, soname |-> NextName, to |-> Found]}
      BY <2>3, EdgesGrow
    <3>2. Dangling(n)' <=> Dangling(n)
      BY <2>3, <3>1 DEF Range
    <3> QED
      BY <2>3, <3>2 DEF MissingIsExact, Range
  <2>4. CASE NameMissing
    <3>1. AtName /\ RecordEdge /\ Found = NoFile /\ missing' = PushUnique(missing, NextName)
          /\ outcome # "refused"
      BY <2>4 DEF NameMissing, ReportMissing, AtName
    <3> DEFINE e == [from |-> Head(queue).obj, soname |-> NextName, to |-> Found]
    <3>2. Range(edges)' = Range(edges) \cup {e} /\ e.soname = NextName /\ e.to = NoFile
      BY <3>1, EdgesGrow DEF Range
    <3> HIDE DEF e
    <3>3. Dangling(n)' <=> Dangling(n) \/ n = NextName
      BY <3>2
    <3>4. Range(missing') = Range(missing) \cup {NextName}
      <4>1. missing \in Seq(Names \cup {Interp})
        BY DEF TypeOK
      <4> QED
        BY <3>1, <4>1, RangeOfAppend DEF PushUnique
    <3>5. n \in Range(missing)' <=> n \in Range(missing) \/ n = NextName
      BY <3>4 DEF Range
    <3> QED
      BY <3>1, <3>3, <3>5 DEF MissingIsExact
  <2>5. CASE NameSeen \/ AddLeaf \/ AddLibrary
    <3>1. /\ AtName /\ RecordEdge /\ missing' = missing /\ outcome = "walking"
          /\ Found \in visited \cup Files
      BY <2>5 DEF NameSeen, AddLeaf, AddLibrary, Enqueue, Child, CollectFound, IsNew,
          ReportNothing, AtName
    <3>2. Found # NoFile
      BY <3>1, ResolverAssumption DEF TypeOK
    <3> QED
      BY <2>3, <3>1, <3>2
  <2>6. CASE OpenItem \/ CloseItem \/ Finish
    BY <2>1, <2>6 DEF OpenItem, CloseItem, AllAsked, Finish, Walked
  <2>7. CASE UNCHANGED vars
    BY <2>1, <2>7 DEF vars
  <2> QED
    BY <2>2, <2>4, <2>5, <2>6, <2>7
    DEF Next, RefuseBinary, RefusePlatform, RefuseFound, Bail
<1> QED
  BY <1>1, <1>2, WalkTypes, WalkBooks, PTL DEF WalkSafe

\* The list that makes `pack` refuse holds exactly the names no edge answers.
THEOREM MissingListIsExact == Spec => []MissingIsExact
BY WalkMissing, PTL DEF Spec, WalkSafe

--------------------------------------------------------------------------------
\* Nothing ships unasked.

\* Each library of the resolution was named by the binary or by an earlier library.
THEOREM LibsAreNamed == Spec => []EveryLibWasNamed
<1>1. Init => EveryLibWasNamed
  BY DEF Init, EveryLibWasNamed
<1>2. TypeOK /\ WalkInv /\ EachFileOnce /\ EveryLibWasNamed /\ [Next]_vars => EveryLibWasNamed'
  <2> SUFFICES ASSUME TypeOK, WalkInv, EachFileOnce, EveryLibWasNamed, [Next]_vars
               PROVE  EveryLibWasNamed'
    OBVIOUS
  <2>1. Range(edges) \subseteq Range(edges)'
    <3>1. CASE edges' = edges
      BY <3>1
    <3>2. CASE AtName /\ RecordEdge
      BY <3>2, EdgesGrow DEF Range
    <3> QED
      BY <3>1, <3>2, StepKinds
  <2>2. CASE UNCHANGED <<visited, libs>>
    BY <2>1, <2>2 DEF EveryLibWasNamed
  <2>3. CASE CollectFound
    <3> DEFINE n == Len(libs) + 1
               e == [from |-> Head(queue).obj, soname |-> NextName, to |-> Found]
    <3>1. /\ DOMAIN libs' = DOMAIN libs \cup {n} /\ DOMAIN libs = 1 .. n - 1 /\ n \in Nat
          /\ \A k \in DOMAIN libs : libs'[k] = libs[k]
          /\ libs'[n].path = Found /\ libs'[n].soname = NextName
      BY <2>3, LibsGrow
    <3>2. e \in Range(edges)' /\ e.from = Head(queue).obj /\ e.to = Found /\ e.soname = NextName
      BY <2>3, EdgesGrow DEF CollectFound, IsNew, ReportNothing, Range
    <3>3. Head(queue).obj \in visited
      BY <2>3 DEF CollectFound, IsNew, ReportNothing, AtName, WalkInv, TypeOK
    <3> HIDE DEF n, e
    <3>4. Head(queue).obj = Binary \/ \E j \in 1 .. n - 1 : Head(queue).obj = libs'[j].path
      BY <3>1, <3>3 DEF EachFileOnce
    <3>5. ASSUME NEW k \in DOMAIN libs
          PROVE  \E d \in Range(edges)' :
                   /\ d.to = libs'[k].path /\ d.soname = libs'[k].soname
                   /\ d.from = Binary \/ \E j \in 1 .. k - 1 : d.from = libs'[j].path
      <4>1. PICK d \in Range(edges) :
              /\ d.to = libs[k].path /\ d.soname = libs[k].soname
              /\ d.from = Binary \/ \E j \in 1 .. k - 1 : d.from = libs[j].path
        BY DEF EveryLibWasNamed
      <4>2. \A j \in 1 .. k - 1 : libs'[j] = libs[j]
        BY <3>1
      <4> QED
        BY <2>1, <3>1, <4>1, <4>2
    <3> QED
      BY <3>1, <3>2, <3>4, <3>5 DEF EveryLibWasNamed
  <2> QED
    BY <2>2, <2>3, StepKinds
<1> QED
  BY <1>1, <1>2, TypeCorrect, WalkBookkeeping, FilesCollectedOnce, PTL DEF Spec

\* A library that is not a shared object ships only under a name the operator included.
THEOREM ForeignFilesAreIncluded == Spec => []OnlyIncludesMayBeForeign
<1>1. Init => OnlyIncludesMayBeForeign
  BY DEF Init, OnlyIncludesMayBeForeign
<1>2. TypeOK /\ WalkInv /\ OnlyIncludesMayBeForeign /\ [Next]_vars => OnlyIncludesMayBeForeign'
  <2> SUFFICES ASSUME TypeOK, WalkInv, OnlyIncludesMayBeForeign, [Next]_vars, outcome' # "refused"
               PROVE  OnlyIncludesMayBeForeign'
    BY DEF OnlyIncludesMayBeForeign
  <2>1. CASE UNCHANGED libs /\ outcome # "refused"
    BY <2>1, StepKinds DEF OnlyIncludesMayBeForeign
  <2>2. CASE CollectFound /\ ~Unloadable(Head(queue), pos, Found)
    <3> DEFINE o == Head(queue).obj
               n == Len(libs) + 1
               own == sys.elf[o].needed
    <3>1. /\ outcome = "walking" /\ AtName /\ queue # <<>>
      BY <2>2 DEF CollectFound, IsNew, ReportNothing, AtName
    <3>2. Head(queue).declared = Len(own)
      BY <3>1 DEF WalkInv, TypeOK
    <3>3. sys.elf[Found].kind = "dyn" \/ pos > Len(own)
      <4>1. Len(own) \in Nat /\ pos \in Nat
        BY <3>1, AtNameTypes, NeededType DEF TypeOK
      <4> QED
        BY <2>2, <3>2, <4>1 DEF Unloadable
    <3>4. ASSUME pos > Len(own) PROVE NextName \in Range(sys.includes)
      <4> DEFINE inc == sys.includes
                 name == NextName
      <4>0. o \in Files /\ pos \in DOMAIN Needed(o)
        BY <3>1, AtNameTypes
      <4>1. own \in Seq(Names) /\ inc \in Seq(Names) /\ name = Needed(o)[pos]
        BY <4>0, ElfFacts DEF TypeOK, NextName
      <4>2. Needed(o) = own \o inc \/ Needed(o) = own
        BY DEF Needed
      <4> HIDE DEF own, inc, name
      <4>3. Needed(o) = own \o inc
        BY <3>4, <4>0, <4>1, <4>2
      <4>4. pos \in DOMAIN (own \o inc) /\ name = (own \o inc)[pos]
        BY <4>0, <4>1, <4>3
      <4>5. pos - Len(own) \in DOMAIN inc /\ name = inc[pos - Len(own)]
        BY <3>4, <4>1, <4>4
      <4>6. name \in Range(inc)
        BY <4>5 DEF Range
      <4> QED
        BY <4>6 DEF name, inc
    <3>5. /\ DOMAIN libs' = DOMAIN libs \cup {n} /\ sys' = sys
          /\ \A k \in DOMAIN libs : libs'[k] = libs[k]
          /\ libs'[n].path = Found /\ libs'[n].soname = NextName
      BY <2>2, LibsGrow, StepKinds
    <3> HIDE DEF n, own
    <3> QED
      BY <3>1, <3>3, <3>4, <3>5 DEF OnlyIncludesMayBeForeign
  <2>3. CASE StartWalk \/ OpenItem \/ NameMissing \/ NameSeen \/ CloseItem \/ Finish
    BY <2>1, <2>3 DEF StartWalk, OpenItem, NameMissing, ReportMissing, NameSeen, CloseItem,
        AllAsked, Finish, Walked, AtName
  <2>4. CASE UNCHANGED vars
    BY <2>1, <2>4 DEF vars
  <2> QED
    BY <2>2, <2>3, <2>4 DEF Next, AddLeaf, AddLibrary, Enqueue, Child, RefuseBinary,
        RefusePlatform, RefuseFound, Bail
<1> QED
  BY <1>1, <1>2, TypeCorrect, WalkBookkeeping, PTL DEF Spec

\* Every resolution is exact: what it lists belongs in the image, and what it lacks is reported.
THEOREM ResolutionHolds == Spec => []ResolutionIsExact
BY MissingListIsExact, LibsAreNamed, FilesCollectedOnce, ForeignFilesAreIncluded, PTL
DEF ResolutionIsExact

\* Only RPATH entries, and only those of objects without RUNPATH, are handed down the tree.
THEOREM RunpathIsNotInherited == Spec => []InheritedDirsAreRpaths
<1> DEFINE Contributed(d) == \E f \in visited : /\ ~HasRunpath(f)
                                               /\ d \in Range(BuildDirs(sys.elf[f].rpath, f))
<1>1. Init => InheritedDirsAreRpaths
  BY DEF Init, InheritedDirsAreRpaths
<1>2. TypeOK /\ WalkInv /\ InheritedDirsAreRpaths /\ [Next]_vars => InheritedDirsAreRpaths'
  <2> SUFFICES ASSUME TypeOK, WalkInv, InheritedDirsAreRpaths, [Next]_vars
               PROVE  InheritedDirsAreRpaths'
    OBVIOUS
  <2>1. ASSUME NEW d, Contributed(d) PROVE Contributed(d)'
    <3>1. visited \subseteq visited' /\ sys' = sys
      BY StepKinds, LibsGrow
    <3> QED
      BY <2>1, <3>1 DEF HasRunpath, BuildDirs, Range
  <2>2. CASE UNCHANGED queue
    BY <2>1, <2>2 DEF InheritedDirsAreRpaths, Range
  <2>3. CASE StartWalk
    <3>1. Len(queue') = 1 /\ queue'[1].rpaths = <<>> /\ DOMAIN queue' = {1}
      BY <2>3 DEF StartWalk
    <3> QED
      BY <3>1 DEF InheritedDirsAreRpaths, Range
  <2>4. CASE CloseItem
    <3>1. \A k \in DOMAIN queue' : k + 1 \in DOMAIN queue /\ queue'[k] = queue[k + 1]
      BY <2>4 DEF CloseItem, AllAsked, TypeOK
    <3>2. ASSUME NEW k \in DOMAIN queue', NEW d \in Range(queue'[k].rpaths) PROVE Contributed(d)
      BY <3>1 DEF InheritedDirsAreRpaths
    <3> QED
      BY <2>1, <3>2 DEF InheritedDirsAreRpaths, Range
  <2>5. CASE AddLibrary
    <3> DEFINE head == Head(queue)
               item == [obj |-> Found, rpaths |-> ChildRpaths(head),
                        wholes |-> ChildWholes(head),
                        declared |-> Len(sys.elf[Found].needed)]
    <3>1. /\ queue' = Append(queue, item) /\ AtName /\ queue # <<>> /\ outcome = "walking"
      BY <2>5 DEF AddLibrary, Enqueue, Child, CollectFound, IsNew, ReportNothing, AtName
    <3>2. /\ head \in Items /\ head.rpaths \in Seq(Dirs) /\ 1 \in DOMAIN queue
          /\ head = queue[1] /\ OwnRpaths(head.obj) \in Seq(Dirs)
      <4>1. head \in Items /\ 1 \in DOMAIN queue /\ head = queue[1]
        BY <3>1, AtNameTypes DEF TypeOK
      <4> HIDE DEF head
      <4> QED
        BY <4>1, SearchTypes DEF Items, TypeOK
    <3>3. ASSUME NEW d \in Range(ChildRpaths(head)) PROVE Contributed(d)
      <4>1. d \in Range(OwnRpaths(head.obj)) \/ d \in Range(head.rpaths)
        BY <3>2, RangeOfConcat DEF ChildRpaths
      <4>2. CASE d \in Range(OwnRpaths(head.obj))
        <5>1. head.obj \in visited
          BY <3>1, <3>2 DEF WalkInv
        <5> QED
          BY <4>2, <5>1 DEF OwnRpaths, Range
      <4>3. CASE d \in Range(head.rpaths)
        BY <3>2, <4>3 DEF InheritedDirsAreRpaths
      <4> QED
        BY <4>1, <4>2, <4>3
    <3>4. item.rpaths = ChildRpaths(head)
      OBVIOUS
    <3> HIDE DEF item, head
    <3>5. \A k \in DOMAIN queue' : \/ k \in DOMAIN queue /\ queue'[k] = queue[k]
                                  \/ queue'[k] = item
      BY <3>1 DEF TypeOK
    <3>6. ASSUME NEW k \in DOMAIN queue', NEW d \in Range(queue'[k].rpaths) PROVE Contributed(d)
      BY <3>3, <3>4, <3>5 DEF InheritedDirsAreRpaths
    <3> QED
      BY <2>1, <3>6 DEF InheritedDirsAreRpaths, Range
  <2> QED
    BY <2>2, <2>3, <2>4, <2>5
    DEF Next, vars, RefuseBinary, OpenItem, RefusePlatform, NameMissing, ReportMissing, NameSeen,
        RefuseFound,
        AddLeaf, Finish, Walked, Bail
<1> QED
  BY <1>1, <1>2, TypeCorrect, WalkBookkeeping, PTL DEF Spec

--------------------------------------------------------------------------------
\* The walk implements the abstract closure.

\* Every step of the walk answers a demand, accepts, refuses, or changes nothing abstract.
THEOREM WalkImplementsClosure == Spec => ImplementsClosure
<1> DEFINE answers == {<<e.from, e.soname, e.to>> : e \in Range(edges)}
           demand == [f \in Files |-> IF IsElf(f) THEN Range(Needed(f)) ELSE {}]
           verdict == IF outcome \in {"resolved", "refused"} THEN outcome ELSE "open"
<1>1. Init => Closure!Init
  <2> SUFFICES ASSUME Init PROVE Closure!Init
    OBVIOUS
  <2>1. sys \in Sysroot
    BY ResolverAssumption DEF Init
  <2>2. \A f \in Files : Range(Needed(f)) \subseteq Names
    BY <2>1, NeededType DEF Range
  <2>3. demand \in [Files -> SUBSET Names]
    BY <2>2
  <2>4. answers = {} /\ verdict = "open" /\ visited = {Binary}
    BY DEF Init, Range
  <2> QED
    BY <2>3, <2>4 DEF Closure!Init
<1>2. TypeOK /\ WalkInv /\ [Next]_vars => [Closure!Next]_Closure!vars
  <2> SUFFICES ASSUME TypeOK, WalkInv, [Next]_vars PROVE [Closure!Next]_Closure!vars
    OBVIOUS
  <2>1. demand' = demand
    BY StepKinds DEF IsElf, Needed, Range
  <2>2. CASE UNCHANGED <<visited, edges>> /\ verdict' = verdict
    BY <2>1, <2>2 DEF Closure!vars, Range
  <2>3. CASE UNCHANGED <<visited, edges>> /\ outcome' = "refused" /\ outcome \in {"reading", "walking"}
    <3>1. answers' = answers /\ verdict = "open" /\ verdict' = "refused"
      BY <2>3 DEF Range
    <3> QED
      BY <2>1, <2>3, <3>1 DEF Closure!Next, Closure!Refuse
  <2>4. ASSUME AtName, RecordEdge
        PROVE  /\ answers' = answers \cup {<<Head(queue).obj, NextName, Found>>}
               /\ Head(queue).obj \in visited /\ Head(queue).obj \in Files
               /\ NextName \in demand[Head(queue).obj] /\ NextName \in Names
               /\ Found \in Files \cup {NoFile}
               /\ outcome = "walking"
    <3> DEFINE e == [from |-> Head(queue).obj, soname |-> NextName, to |-> Found]
    <3>1. Range(edges)' = Range(edges) \cup {e}
      BY <2>4, EdgesGrow DEF Range
    <3>2. <<e.from, e.soname, e.to>> = <<Head(queue).obj, NextName, Found>>
      OBVIOUS
    <3> HIDE DEF e
    <3>3. answers' = answers \cup {<<Head(queue).obj, NextName, Found>>}
      BY <3>1, <3>2
    <3>4. /\ Head(queue).obj \in visited /\ IsElf(Head(queue).obj) /\ Head(queue).obj \in Files
          /\ outcome = "walking"
      BY <2>4, AtNameTypes DEF AtName, WalkInv, TypeOK
    <3>5. NextName \in Range(Needed(Head(queue).obj))
      BY <2>4, AtNameTypes DEF NextName, Range
    <3> QED
      BY <2>4, <3>3, <3>4, <3>5, AtNameTypes
  <2>5. CASE /\ AtName /\ RecordEdge /\ outcome' = outcome
             /\ visited' = visited \cup ({Found} \ {NoFile})
    <3>1. verdict = "open" /\ verdict' = "open"
      BY <2>4, <2>5
    <3>2. PICK o \in Files, n \in Names, f \in Files \cup {NoFile} :
            o = Head(queue).obj /\ n = NextName /\ f = Found
      BY <2>4, <2>5
    <3>3. Closure!Answer(o, n, f)
      BY <2>1, <2>4, <2>5, <3>1, <3>2 DEF Closure!Answer
    <3> QED
      BY <3>3 DEF Closure!Next
  <2>6. CASE RefuseFound
    <3>1. /\ AtName /\ RecordEdge /\ outcome' = "refused"
          /\ visited' = visited \cup {Found} /\ Found \in Files
      BY <2>6 DEF RefuseFound, CollectFound, IsNew, ReportNothing, Bail
    <3>2. verdict = "open" /\ verdict' = "refused"
      BY <2>4, <3>1
    <3> QED
      BY <2>1, <2>4, <3>1, <3>2 DEF Closure!Next, Closure!Refuse
  <2>7. CASE NameMissing \/ NameSeen
    <3>1. /\ AtName /\ RecordEdge /\ outcome' = outcome /\ visited' = visited
          /\ Found \in visited \cup {NoFile}
      BY <2>7 DEF NameMissing, ReportMissing, NameSeen
    <3> QED
      BY <2>5, <3>1
  <2>8. CASE AddLeaf \/ AddLibrary
    <3>1. /\ AtName /\ RecordEdge /\ outcome' = outcome /\ visited' = visited \cup {Found}
          /\ Found \in Files
      BY <2>8 DEF AddLeaf, AddLibrary, Enqueue, Child, CollectFound, IsNew, ReportNothing
    <3>2. {Found} = {Found} \ {NoFile}
      BY <3>1, ResolverAssumption
    <3> QED
      BY <2>5, <3>1, <3>2
  <2>9. CASE Finish
    <3>1. UNCHANGED <<visited, edges>> /\ outcome = "walking" /\ outcome' = "resolved" /\ queue = <<>>
      BY <2>9 DEF Finish, Walked
    <3>2. \A f \in visited : IsElf(f) => \A k \in DOMAIN Needed(f) : AnswersName(f, k)
      BY <3>1 DEF WalkInv
    <3>3. ASSUME NEW f \in visited, NEW n \in demand[f]
          PROVE  \E p \in Files \cup {NoFile} : <<f, n, p>> \in answers
      <4>1. f \in Files /\ IsElf(f) /\ n \in Range(Needed(f))
        BY DEF TypeOK
      <4>2. PICK k \in DOMAIN Needed(f) : n = Needed(f)[k]
        BY <4>1 DEF Range
      <4>3. PICK e \in Range(edges) :
              e.from = f /\ e.soname = n /\ e.to \in visited \cup {NoFile}
        BY <3>2, <4>1, <4>2 DEF AnswersName
      <4>4. e.to \in Files \cup {NoFile} /\ <<e.from, e.soname, e.to>> \in answers
        BY <4>3 DEF TypeOK
      <4> QED
        BY <4>3, <4>4
    <3>4. answers' = answers /\ verdict = "open" /\ verdict' = "resolved"
      BY <3>1 DEF Range
    <3> QED
      BY <2>1, <3>1, <3>3, <3>4
      DEF Closure!Next, Closure!Accept, Closure!Closed, Closure!Answered
  <2>10. CASE StartWalk \/ OpenItem \/ CloseItem
    BY <2>2, <2>10 DEF StartWalk, OpenItem, CloseItem, AllAsked, WalkInv
  <2>11. CASE RefuseBinary \/ RefusePlatform
    BY <2>3, <2>11 DEF RefuseBinary, RefusePlatform, Bail
  <2>12. CASE UNCHANGED vars
    BY <2>2, <2>12 DEF vars
  <2> QED
    BY <2>6, <2>7, <2>8, <2>9, <2>10, <2>11, <2>12 DEF Next
<1> QED
  BY <1>1, <1>2, TypeCorrect, WalkBookkeeping, PTL DEF Spec, ImplementsClosure, Closure!Spec


--------------------------------------------------------------------------------
\* Breadth first.

RankIn(ls, f) == IF f = Binary THEN 0 ELSE CHOOSE k \in DOMAIN ls : ls[k].path = f

\* Where no file is listed twice, a file's rank is its place.
LEMMA RankIsPlace ==
  ASSUME NEW ls, NEW k \in DOMAIN ls, ls[k].path # Binary,
         \A i, j \in DOMAIN ls : ls[i].path = ls[j].path => i = j
  PROVE  RankIn(ls, ls[k].path) = k
BY DEF RankIn

\* A collected file's rank is a place of the list, and 0 is the binary's.
LEMMA RankOfVisited ==
  ASSUME TypeOK, EachFileOnce, NEW f \in visited
  PROVE  RankIn(libs, f) \in 0 .. Len(libs)
<1>1. Len(libs) \in Nat /\ DOMAIN libs = 1 .. Len(libs)
  BY DEF TypeOK
<1>2. CASE f = Binary
  BY <1>1, <1>2 DEF RankIn
<1>3. CASE f # Binary
  <2>1. PICK k \in DOMAIN libs : libs[k].path = f
    BY <1>3 DEF EachFileOnce
  <2>2. RankIn(libs, f) = k
    BY <2>1, <1>3, RankIsPlace DEF EachFileOnce
  <2> QED
    BY <1>1, <2>2
<1> QED
  BY <1>2, <1>3

\* Collecting another file moves none, and the new one comes last.
LEMMA RanksAreKept ==
  ASSUME TypeOK, EachFileOnce, EachFileOnce', CollectFound
  PROVE  /\ \A f \in visited : RankIn(libs', f) = RankIn(libs, f)
         /\ RankIn(libs', Found) = Len(libs) + 1
<1>1. /\ DOMAIN libs' = DOMAIN libs \cup {Len(libs) + 1}
      /\ \A k \in DOMAIN libs : libs'[k] = libs[k]
      /\ libs'[Len(libs) + 1].path = Found
  BY LibsGrow
<1>2. /\ \A i, j \in DOMAIN libs' : libs'[i].path = libs'[j].path => i = j
      /\ \A k \in DOMAIN libs' : libs'[k].path # Binary
  BY DEF EachFileOnce
<1>3. ASSUME NEW f \in visited PROVE RankIn(libs', f) = RankIn(libs, f)
  <2>1. CASE f = Binary
    BY <2>1 DEF RankIn
  <2>2. CASE f # Binary
    <3>1. PICK k \in DOMAIN libs : libs[k].path = f
      BY <2>2 DEF EachFileOnce
    <3>2. RankIn(libs, f) = k
      BY <3>1, <2>2, RankIsPlace DEF EachFileOnce
    <3>3. k \in DOMAIN libs' /\ libs'[k].path = f
      BY <3>1, <1>1
    <3>4. RankIn(libs', f) = k
      BY <3>3, <1>2, RankIsPlace
    <3> QED
      BY <3>2, <3>4
  <2> QED
    BY <2>1, <2>2
<1>4. RankIn(libs', libs'[Len(libs) + 1].path) = Len(libs) + 1
  BY <1>1, <1>2, RankIsPlace
<1> QED
  BY <1>1, <1>3, <1>4

\* The queue holds objects in the order of their collection, and the edges recorded so far are
\* of objects collected no later than any of them.
Ordered(ls, q, es, vs) ==
  /\ \A f \in vs : RankIn(ls, f) \in Nat
  /\ \A k \in DOMAIN q : q[k].obj \in vs
  /\ \A i, j \in DOMAIN q : i < j => RankIn(ls, q[i].obj) <= RankIn(ls, q[j].obj)
  /\ \A k \in DOMAIN es : es[k].from \in vs
  /\ \A k \in DOMAIN es : \A i \in DOMAIN q : RankIn(ls, es[k].from) <= RankIn(ls, q[i].obj)
  /\ \A k \in DOMAIN es : k > 1 => RankIn(ls, es[k - 1].from) <= RankIn(ls, es[k].from)

OrderInv == Ordered(libs, queue, edges, visited)

\* The order does not depend on what is collected later.
LEMMA OrderedAsCollected ==
  ASSUME NEW ls, NEW lt, NEW q, NEW es \in Seq(Edge), NEW vs, NEW vt, Ordered(ls, q, es, vs),
         vs \subseteq vt, \A f \in vs : RankIn(lt, f) = RankIn(ls, f),
         \A f \in vt : RankIn(lt, f) \in Nat
  PROVE  Ordered(lt, q, es, vt)
<1>1. \A k \in DOMAIN es : k > 1 => k - 1 \in DOMAIN es
  OBVIOUS
<1> QED
  BY <1>1 DEF Ordered

\* An edge of the head comes after the earlier ones.
LEMMA OrderedByEdge ==
  ASSUME NEW ls, NEW q \in Seq(Items), NEW es \in Seq(Edge), NEW vs, Ordered(ls, q, es, vs),
         NEW e \in Edge, q # <<>>, e.from = Head(q).obj
  PROVE  Ordered(ls, q, Append(es, e), vs)
<1>1. 1 \in DOMAIN q /\ Head(q) = q[1]
  OBVIOUS
<1>2. /\ e.from \in vs
      /\ \A i \in DOMAIN q : RankIn(ls, e.from) <= RankIn(ls, q[i].obj)
      /\ \A k \in DOMAIN es : RankIn(ls, es[k].from) <= RankIn(ls, e.from)
  BY <1>1 DEF Ordered
<1>3. /\ DOMAIN Append(es, e) = DOMAIN es \cup {Len(es) + 1}
      /\ \A k \in DOMAIN es : Append(es, e)[k] = es[k] /\ k \in Nat /\ k <= Len(es)
      /\ Append(es, e)[Len(es) + 1] = e
      /\ Len(es) \in Nat
      /\ \A k \in DOMAIN es : k > 1 => k - 1 \in DOMAIN es
      /\ Len(es) + 1 > 1 => Len(es) \in DOMAIN es
  OBVIOUS
<1> DEFINE et == Append(es, e)
<1> HIDE DEF et
<1>4. \A k \in DOMAIN et : (k \in DOMAIN es /\ et[k] = es[k]) \/ (k = Len(es) + 1 /\ et[k] = e)
  BY <1>3 DEF et
<1>5. ASSUME NEW k \in DOMAIN et, k > 1
      PROVE  RankIn(ls, et[k - 1].from) <= RankIn(ls, et[k].from)
  <2>1. CASE k \in DOMAIN es
    <3>1. k - 1 \in DOMAIN es /\ et[k] = es[k] /\ et[k - 1] = es[k - 1]
      BY <2>1, <1>5, <1>3 DEF et
    <3> QED
      BY <2>1, <1>5, <3>1 DEF Ordered
  <2>2. CASE k = Len(es) + 1
    <3>1. k - 1 = Len(es) /\ Len(es) \in DOMAIN es /\ et[k] = e /\ et[k - 1] = es[Len(es)]
      BY <2>2, <1>5, <1>3 DEF et
    <3> QED
      BY <3>1, <1>2
  <2> QED
    BY <2>1, <2>2, <1>4
<1>6. Ordered(ls, q, et, vs)
  BY <1>2, <1>4, <1>5 DEF Ordered
<1> QED
  BY <1>6 DEF et

\* A collected object waits behind all that were collected before it.
LEMMA OrderedByChild ==
  ASSUME NEW ls, NEW q \in Seq(Items), NEW es \in Seq(Edge), NEW vs, Ordered(ls, q, es, vs),
         NEW c, c.obj \in vs, \A f \in vs : RankIn(ls, f) <= RankIn(ls, c.obj)
  PROVE  Ordered(ls, Append(q, c), es, vs)
<1> DEFINE qt == Append(q, c)
<1>1. /\ \A k \in DOMAIN q : k \in Nat /\ k <= Len(q)
      /\ Len(q) \in Nat
  OBVIOUS
<1>2. \A k \in DOMAIN qt : (k \in DOMAIN q /\ qt[k] = q[k]) \/ (k = Len(q) + 1 /\ qt[k] = c)
  OBVIOUS
<1> HIDE DEF qt
<1>3. \A k \in DOMAIN qt : qt[k].obj \in vs
  BY <1>2 DEF Ordered
<1>4. ASSUME NEW i \in DOMAIN qt, NEW j \in DOMAIN qt, i < j
      PROVE  RankIn(ls, qt[i].obj) <= RankIn(ls, qt[j].obj)
  <2>1. CASE j \in DOMAIN q /\ qt[j] = q[j]
    <3>1. i \in DOMAIN q /\ qt[i] = q[i]
      BY <2>1, <1>1, <1>2, <1>4
    <3> QED
      BY <2>1, <3>1, <1>4 DEF Ordered
  <2>2. CASE qt[j] = c
    BY <2>2, <1>3
  <2> QED
    BY <2>1, <2>2, <1>2
<1>5. \A k \in DOMAIN es : \A i \in DOMAIN qt : RankIn(ls, es[k].from) <= RankIn(ls, qt[i].obj)
  BY <1>2 DEF Ordered
<1>6. Ordered(ls, qt, es, vs)
  BY <1>3, <1>4, <1>5 DEF Ordered
<1> QED
  BY <1>6 DEF qt

\* An object that is done leaves the others in order.
LEMMA OrderedByTail ==
  ASSUME NEW ls, NEW q \in Seq(Items), NEW es, NEW vs, Ordered(ls, q, es, vs), q # <<>>
  PROVE  Ordered(ls, Tail(q), es, vs)
<1> DEFINE qt == Tail(q)
<1>1. \A k \in DOMAIN qt : k \in Nat /\ k + 1 \in DOMAIN q /\ qt[k] = q[k + 1]
  OBVIOUS
<1> HIDE DEF qt
<1>2. \A i, j \in DOMAIN qt : i < j => i + 1 < j + 1
  BY <1>1
<1>3. \A i, j \in DOMAIN qt : i < j => RankIn(ls, qt[i].obj) <= RankIn(ls, qt[j].obj)
  BY <1>1, <1>2 DEF Ordered
<1>4. Ordered(ls, qt, es, vs)
  BY <1>1, <1>3 DEF Ordered
<1> QED
  BY <1>4 DEF qt

\* Collected objects go to the end of the queue, and a name is looked up for its head.
LEMMA OrderStep ==
  TypeOK /\ WalkInv /\ EachFileOnce /\ EachFileOnce' /\ TypeOK' /\ OrderInv /\ [Next]_vars => OrderInv'
<1> SUFFICES ASSUME TypeOK, WalkInv, EachFileOnce, EachFileOnce', TypeOK', OrderInv, [Next]_vars
             PROVE  OrderInv'
  OBVIOUS
<1>q. queue \in Seq(Items) /\ edges \in Seq(Edge) /\ edges' \in Seq(Edge) /\ queue' \in Seq(Items)
  BY DEF TypeOK
<1>r. \A f \in visited : RankIn(libs, f) \in 0 .. Len(libs)
  BY RankOfVisited
<1>k. /\ visited \subseteq visited'
      /\ \A f \in visited : RankIn(libs', f) = RankIn(libs, f)
      /\ \A f \in visited' : RankIn(libs', f) \in Nat
  <2>1. CASE UNCHANGED <<visited, libs>>
    BY <2>1, <1>r
  <2>2. CASE CollectFound
    <3>1. Len(libs) \in Nat /\ visited' = visited \cup {Found}
      BY <2>2, LibsGrow
    <3> QED
      BY <2>2, <3>1, <1>r, RanksAreKept
  <2> QED
    BY <2>1, <2>2, StepKinds
<1>u. ASSUME NEW q, NEW es \in Seq(Edge), Ordered(libs, q, es, visited) PROVE Ordered(libs', q, es, visited')
  BY <1>u, <1>k, OrderedAsCollected
<1>e. ASSUME AtName, RecordEdge PROVE Ordered(libs, queue, edges', visited)
  <2> DEFINE e == [from |-> Head(queue).obj, soname |-> NextName, to |-> Found]
  <2>1. e \in Edge /\ e.from = Head(queue).obj /\ edges' = Append(edges, e) /\ queue # <<>>
    BY <1>e, AtNameTypes DEF Edge, RecordEdge, AtName
  <2> HIDE DEF e
  <2> QED
    BY <2>1, <1>q, OrderedByEdge DEF OrderInv
<1>1. CASE StartWalk
  <2>1. edges = <<>> /\ UNCHANGED <<edges, libs, visited>> /\ Len(queue') = 1 /\ queue'[1].obj = Binary /\ Binary \in visited
    BY <1>1 DEF StartWalk, WalkInv
  <2>2. DOMAIN queue' = {1} /\ DOMAIN edges = {}
    BY <2>1, <1>q
  <2> QED
    BY <2>1, <2>2, <1>r, <1>k DEF OrderInv, Ordered
<1>2. CASE UNCHANGED <<queue, edges>>
  BY <1>2, <1>q, <1>u DEF OrderInv
<1>3. CASE NameMissing \/ NameSeen \/ RefuseFound \/ AddLeaf
  <2>1. queue' = queue /\ AtName /\ RecordEdge
    BY <1>3 DEF NameMissing, NameSeen, RefuseFound, AddLeaf, CollectFound, Bail
  <2> QED
    BY <2>1, <1>e, <1>q, <1>u DEF OrderInv
<1>4. CASE AddLibrary
  <2>1. CollectFound /\ AtName /\ RecordEdge /\ queue' = Append(queue, Child) /\ Child.obj = Found
    BY <1>4 DEF AddLibrary, CollectFound, Enqueue, Child
  <2>2. Ordered(libs', queue, edges', visited')
    BY <2>1, <1>e, <1>q, <1>u
  <2>3. Child.obj \in visited' /\ \A f \in visited' : RankIn(libs', f) <= RankIn(libs', Child.obj)
    <3>1. visited' = visited \cup {Found} /\ RankIn(libs', Found) = Len(libs) + 1 /\ Len(libs) \in Nat
      BY <2>1, LibsGrow, RanksAreKept
    <3>2. \A f \in visited : RankIn(libs', f) <= Len(libs) + 1
      BY <3>1, <1>k, <1>r
    <3> QED
      BY <2>1, <3>1, <3>2
  <2> DEFINE c == Child
  <2>4. c.obj \in visited' /\ (\A f \in visited' : RankIn(libs', f) <= RankIn(libs', c.obj)) /\ queue' = Append(queue, c)
    BY <2>1, <2>3
  <2> HIDE DEF c
  <2>5. Ordered(libs', Append(queue, c), edges', visited')
    BY <2>2, <2>4, <1>q, OrderedByChild
  <2> QED
    BY <2>4, <2>5 DEF OrderInv
<1>5. CASE CloseItem
  <2>1. queue' = Tail(queue) /\ edges' = edges /\ queue # <<>>
    BY <1>5 DEF CloseItem
  <2>2. Ordered(libs, Tail(queue), edges, visited)
    BY <2>1, <1>q, OrderedByTail DEF OrderInv
  <2> QED
    BY <2>1, <2>2, <1>q, <1>u DEF OrderInv
<1>6. CASE RefuseBinary \/ RefusePlatform \/ OpenItem \/ Finish \/ UNCHANGED vars
  BY <1>6, <1>2 DEF RefuseBinary, RefusePlatform, Bail, OpenItem, Finish, vars
<1> QED
  BY <1>1, <1>3, <1>4, <1>5, <1>6 DEF Next

\* On every host tree, objects have their names looked up in the order of their collection.
THEOREM WalkIsBreadthFirst == Spec => []BreadthFirst
<1>1. Init => OrderInv
  BY DEF Init, OrderInv, Ordered, RankIn
<1>2. OrderInv => BreadthFirst
  BY DEF OrderInv, Ordered, BreadthFirst, Rank, RankIn
<1> QED
  BY <1>1, <1>2, OrderStep, TypeCorrect, FilesCollectedOnce, WalkBookkeeping, PTL DEF Spec

--------------------------------------------------------------------------------
\* The graph that is shown of a resolution.

\* The edges run between collected files.
EdgesAreInside ==
  outcome # "refused" =>
    \A e \in Range(edges) : e.from \in visited /\ e.to \in visited \cup {NoFile}

\* What is missing is the absent program interpreter and what no edge answers.
MissingIsSaid ==
  outcome \in {"walking", "resolved"} =>
    \A n \in Names \cup {Interp} :
      n \in Range(missing)
        <=> \/ n = Interp /\ sys.interp = NoFile
            \/ \E e \in Range(edges) : e.soname = n /\ e.to = NoFile

\* Each edge is of the object that is walked, and leads to a file that is collected.
LEMMA EdgesInside == Spec => []EdgesAreInside
<1>1. Init => EdgesAreInside
  BY DEF Init, EdgesAreInside, Range
<1>2. TypeOK /\ WalkInv /\ EdgesAreInside /\ [Next]_vars => EdgesAreInside'
  <2> SUFFICES ASSUME TypeOK, WalkInv, EdgesAreInside, [Next]_vars, outcome' # "refused",
                      NEW e \in Range(edges)'
               PROVE  e.from \in visited' /\ e.to \in visited' \cup {NoFile}
    BY DEF EdgesAreInside
  <2>1. visited \subseteq visited'
    BY StepKinds, LibsGrow
  <2>2. CASE e \in Range(edges) /\ outcome # "refused"
    BY <2>1, <2>2 DEF EdgesAreInside
  <2>3. CASE NameMissing \/ NameSeen \/ AddLeaf \/ AddLibrary
    <3>1. /\ AtName /\ RecordEdge /\ outcome = "walking"
          /\ Found \in visited' \cup {NoFile}
      BY <2>3, <2>1, LibsGrow DEF NameMissing, NameSeen, AddLeaf, AddLibrary, CollectFound, AtName
    <3>2. e \in Range(edges) \/ (e.from = Head(queue).obj /\ e.to = Found)
      BY <3>1, EdgesGrow DEF Range
    <3>3. Head(queue).obj \in visited
      <4>1. 1 \in DOMAIN queue /\ Head(queue) = queue[1]
        BY <3>1 DEF AtName, TypeOK
      <4> QED
        BY <3>1, <4>1 DEF WalkInv
    <3> QED
      BY <2>1, <2>2, <3>1, <3>2, <3>3
  <2>4. CASE StartWalk \/ OpenItem \/ CloseItem \/ Finish \/ UNCHANGED vars
    <3>1. edges' = edges /\ outcome # "refused"
      BY <2>4 DEF StartWalk, OpenItem, CloseItem, AllAsked, Finish, Walked, vars
    <3> QED
      BY <2>2, <3>1
  <2> QED
    BY <2>3, <2>4 DEF Next, RefuseBinary, RefusePlatform, RefuseFound, Bail
<1> QED
  BY <1>1, <1>2, TypeCorrect, WalkBookkeeping, PTL DEF Spec

\* The list of the missing is as long as what is missing.
LEMMA MissingSaid == Spec => []MissingIsSaid
<1> DEFINE Dangling(n) == \E e \in Range(edges) : e.soname = n /\ e.to = NoFile
<1>1. Init => MissingIsSaid
  BY DEF Init, MissingIsSaid
<1>2. TypeOK /\ WalkInv /\ MissingIsSaid /\ [Next]_vars => MissingIsSaid'
  <2> SUFFICES ASSUME TypeOK, WalkInv, MissingIsSaid, [Next]_vars,
                      outcome' \in {"walking", "resolved"}, NEW n \in Names \cup {Interp}
               PROVE  (n \in Range(missing))' <=> (n = Interp /\ sys.interp = NoFile)' \/ Dangling(n)'
    BY DEF MissingIsSaid
  <2>s. sys' = sys
    BY StepKinds
  <2>1. CASE UNCHANGED <<missing, edges>> /\ outcome \in {"walking", "resolved"}
    BY <2>1, <2>s DEF MissingIsSaid, Range
  <2>2. CASE StartWalk
    <3>1. /\ edges = <<>> /\ edges' = edges
          /\ missing' = IF sys.interp = NoFile THEN <<Interp>> ELSE <<>>
      BY <2>2 DEF StartWalk, WalkInv
    <3>2. ~Dangling(n)'
      BY <3>1 DEF Range
    <3>3. Range(<<Interp>>) = {Interp} /\ Range(<<>>) = {}
      BY DEF Range
    <3>4. (n \in Range(missing))' <=> n = Interp /\ sys.interp = NoFile
      BY <3>1, <3>3
    <3> QED
      BY <2>s, <3>2, <3>4
  <2>3. CASE AtName /\ RecordEdge /\ missing' = missing /\ Found # NoFile /\ outcome = "walking"
    <3>1. Range(edges') = Range(edges) \cup
                         {[from |-> Head(queue).obj, soname |-> NextName, to |-> Found]}
      BY <2>3, EdgesGrow
    <3>2. Dangling(n)' <=> Dangling(n)
      BY <2>3, <3>1 DEF Range
    <3> QED
      BY <2>3, <2>s, <3>2 DEF MissingIsSaid, Range
  <2>4. CASE NameMissing
    <3>1. AtName /\ RecordEdge /\ Found = NoFile /\ missing' = PushUnique(missing, NextName)
          /\ outcome = "walking"
      BY <2>4 DEF NameMissing, ReportMissing, AtName
    <3> DEFINE e == [from |-> Head(queue).obj, soname |-> NextName, to |-> Found]
    <3>2. Range(edges)' = Range(edges) \cup {e} /\ e.soname = NextName /\ e.to = NoFile
      BY <3>1, EdgesGrow DEF Range
    <3> HIDE DEF e
    <3>3. Dangling(n)' <=> Dangling(n) \/ n = NextName
      BY <3>2
    <3>4. Range(missing') = Range(missing) \cup {NextName}
      <4>1. missing \in Seq(Names \cup {Interp})
        BY DEF TypeOK
      <4> QED
        BY <3>1, <4>1, RangeOfAppend DEF PushUnique
    <3>5. (n \in Range(missing))' <=> n \in Range(missing) \/ n = NextName
      BY <3>4 DEF Range
    <3> QED
      BY <3>1, <2>s, <3>3, <3>5 DEF MissingIsSaid
  <2>5. CASE NameSeen \/ AddLeaf \/ AddLibrary
    <3>1. /\ AtName /\ RecordEdge /\ missing' = missing /\ outcome = "walking"
          /\ Found \in visited \cup Files
      BY <2>5 DEF NameSeen, AddLeaf, AddLibrary, Enqueue, Child, CollectFound, IsNew,
          ReportNothing, AtName
    <3>2. Found # NoFile
      BY <3>1, ResolverAssumption DEF TypeOK
    <3> QED
      BY <2>3, <3>1, <3>2
  <2>6. CASE OpenItem \/ CloseItem \/ Finish
    BY <2>1, <2>6 DEF OpenItem, CloseItem, AllAsked, Finish, Walked
  <2>7. CASE UNCHANGED vars
    BY <2>1, <2>7 DEF vars
  <2> QED
    BY <2>2, <2>4, <2>5, <2>6, <2>7
    DEF Next, RefuseBinary, RefusePlatform, RefuseFound, Bail
<1> QED
  BY <1>1, <1>2, TypeCorrect, WalkBookkeeping, PTL DEF Spec

\* What holds of 0, and of n if it holds of n - 1, holds of all numbers up to the last.
LEMMA UpTo ==
  ASSUME NEW N \in Nat, NEW S, 0 \in S, \A n \in 1 .. N : n - 1 \in S => n \in S
  PROVE  \A n \in 0 .. N : n \in S
<1> DEFINE Off == {n \in Nat : n <= N /\ n \notin S}
<1>1. ASSUME Off # {} PROVE FALSE
  <2>1. Min(Off) \in Off /\ \A i \in Off : Min(Off) <= i
    BY <1>1, MinExists
  <2>2. PICK m \in Off : \A i \in Off : m <= i
    BY <2>1
  <2>3. m # 0 /\ m \in Nat /\ m <= N /\ m \notin S
    BY <2>2
  <2>4. m \in 1 .. N /\ m - 1 \in Nat /\ m - 1 <= N /\ ~(m <= m - 1)
    BY <2>3
  <2>5. m - 1 \in S
    BY <2>2, <2>4
  <2> QED
    BY <2>3, <2>4, <2>5
<1> QED
  BY <1>1

\* The edges of one parent, grouped so far.
GroupStep(s, e, f, found) ==
  IF e.from = f /\ (e.to # NoFile <=> found) THEN PushUnique(s, Leads(e)) ELSE s
Groups(g, n, f, found) ==
  [i \in 0 .. n |-> IF i = 0 THEN <<>> ELSE GroupStep(g[i - 1], edges[i], f, found)]

\* The recursion that groups them has a solution.
LEMMA GroupsExist ==
  ASSUME NEW f, NEW found, NEW N \in Nat
  PROVE  \E g : g = Groups(g, N, f, found)
<1> DEFINE Solved == {n \in Nat : \E g : g = Groups(g, n, f, found)}
<1>1. 0 \in Solved
  <2> DEFINE h == [i \in 0 .. 0 |-> <<>>]
  <2>1. h = Groups(h, 0, f, found)
    BY DEF Groups
  <2> QED
    BY <2>1
<1>2. ASSUME NEW m \in 1 .. N, m - 1 \in Solved PROVE m \in Solved
  <2>1. PICK h : h = Groups(h, m - 1, f, found)
    BY <1>2
  <2> DEFINE g == [i \in 0 .. m |-> IF i = m THEN GroupStep(h[m - 1], edges[m], f, found) ELSE h[i]]
  <2>2. ASSUME NEW i \in 0 .. m
        PROVE  g[i] = IF i = 0 THEN <<>> ELSE GroupStep(g[i - 1], edges[i], f, found)
    <3>1. CASE i = m
      BY <3>1
    <3>2. CASE i # m
      <4>1. i \in 0 .. m - 1
        BY <3>2
      <4>2. h[i] = IF i = 0 THEN <<>> ELSE GroupStep(h[i - 1], edges[i], f, found)
        <5>1. Groups(h, m - 1, f, found)[i]
                = IF i = 0 THEN <<>> ELSE GroupStep(h[i - 1], edges[i], f, found)
          BY <4>1 DEF Groups
        <5> QED
          BY <2>1, <5>1
      <4>3. i # 0 => i - 1 \in 0 .. m /\ i - 1 # m
        BY <4>1
      <4> QED
        BY <3>2, <4>2, <4>3
    <3> QED
      BY <3>1, <3>2
  <2>3. g = Groups(g, m, f, found)
    <3>1. g = [i \in 0 .. m |-> g[i]]
      OBVIOUS
    <3> HIDE DEF g
    <3> QED
      BY <2>2, <3>1 DEF Groups
  <2> QED
    BY <2>3
<1>3. N \in 0 .. N
  OBVIOUS
<1> HIDE DEF Solved
<1>4. N \in Solved
  BY <1>1, <1>2, <1>3, UpTo
<1> QED
  BY <1>4 DEF Solved

\* The grouping, one edge after the other.
IsGrouping(g, n, f, found) ==
  /\ g[0] = <<>>
  /\ \A i \in 1 .. n : g[i] = GroupStep(g[i - 1], edges[i], f, found)
  /\ ByParent(f, found) = g[n]

\* `build` groups the edges one after the other.
LEMMA ByParentIs ==
  ASSUME NEW f, NEW found, NEW N \in Nat, N = Len(edges)
  PROVE  \E g : IsGrouping(g, N, f, found)
<1> DEFINE go == CHOOSE g : g = Groups(g, N, f, found)
<1>1. go = Groups(go, N, f, found)
  BY GroupsExist
<1>2. ByParent(f, found) = go[N]
  BY DEF ByParent, Groups, GroupStep
<1> HIDE DEF go
<1>3. \A i \in 0 .. N : go[i] = IF i = 0 THEN <<>> ELSE GroupStep(go[i - 1], edges[i], f, found)
  <2>1. \A i \in 0 .. N : Groups(go, N, f, found)[i]
                            = IF i = 0 THEN <<>> ELSE GroupStep(go[i - 1], edges[i], f, found)
    BY DEF Groups
  <2> QED
    BY <1>1, <2>1
<1>4. go[0] = <<>> /\ \A i \in 1 .. N : go[i] = GroupStep(go[i - 1], edges[i], f, found)
  BY <1>3
<1> QED
  BY <1>2, <1>4 DEF IsGrouping

\* What an object of a finished graph lists: each answer of an edge of its, once.
Answers == Files \cup Names
OfParent(e, f, found) == e.from = f /\ (e.to # NoFile <=> found)
ListsAnswers(s, es, f, found) ==
  /\ s \in Seq(Answers)
  /\ \A x : x \in Range(s) <=> \E e \in es : OfParent(e, f, found) /\ x = Leads(e)
  /\ \A j, k \in DOMAIN s : s[j] = s[k] => j = k

\* A list that grows by what it does not have yet.
LEMMA PushUniqueLists ==
  ASSUME NEW T, NEW s \in Seq(T), NEW x \in T, \A j, k \in DOMAIN s : s[j] = s[k] => j = k
  PROVE  /\ PushUnique(s, x) \in Seq(T)
         /\ Range(PushUnique(s, x)) = Range(s) \cup {x}
         /\ \A j, k \in DOMAIN PushUnique(s, x) : PushUnique(s, x)[j] = PushUnique(s, x)[k] => j = k
<1>1. CASE x \in Range(s)
  BY <1>1 DEF PushUnique
<1>2. CASE x \notin Range(s)
  <2> DEFINE t == Append(s, x)
  <2>1. t \in Seq(T) /\ Len(s) \in Nat /\ DOMAIN s = 1 .. Len(s)
    OBVIOUS
  <2>2. /\ Range(t) = Range(s) \cup {x}
        /\ DOMAIN t = DOMAIN s \cup {Len(s) + 1}
        /\ \A k \in DOMAIN s : t[k] = s[k]
        /\ t[Len(s) + 1] = x
    BY RangeOfAppend
  <2>3. \A k \in DOMAIN s : s[k] # x
    BY <1>2 DEF Range
  <2>4. PushUnique(s, x) = t
    BY <1>2 DEF PushUnique
  <2> HIDE DEF t
  <2>5. \A j, k \in DOMAIN t : t[j] = t[k] => j = k
    BY <2>1, <2>2, <2>3
  <2> QED
    BY <2>1, <2>2, <2>4, <2>5
<1> QED
  BY <1>1, <1>2

\* `build` lists each answer of an object's edges once, and nothing else.
LEMMA ByParentLists ==
  ASSUME TypeOK, NEW f, NEW found \in BOOLEAN
  PROVE  ListsAnswers(ByParent(f, found), Range(edges), f, found)
<1> DEFINE N == Len(edges)
           Before(n) == {edges[i] : i \in 1 .. n}
<1>1. N \in Nat /\ DOMAIN edges = 1 .. N /\ \A i \in 1 .. N : edges[i] \in Edge
  BY DEF TypeOK
<1>2. Range(edges) = Before(N)
  BY <1>1 DEF Range
<1>3. \A i \in 1 .. N : Leads(edges[i]) \in Answers
  BY <1>1, ResolverAssumption DEF Leads, Answers, Edge
<1>4. PICK g : IsGrouping(g, N, f, found)
  BY <1>1, ByParentIs
<1> DEFINE Right == {n \in 0 .. N : ListsAnswers(g[n], Before(n), f, found)}
<1>5. 0 \in Right
  <2>1. g[0] = <<>> /\ Before(0) = {}
    BY <1>4 DEF IsGrouping
  <2>2. <<>> \in Seq(Answers) /\ Range(<<>>) = {} /\ DOMAIN <<>> = {}
    BY DEF Range
  <2> HIDE DEF Before
  <2>3. ListsAnswers(g[0], Before(0), f, found)
    BY <2>1, <2>2 DEF ListsAnswers
  <2> QED
    BY <1>1, <2>3
<1>6. ASSUME NEW n \in 1 .. N, n - 1 \in Right PROVE n \in Right
  <2> SUFFICES ListsAnswers(g[n], Before(n), f, found)
    BY <1>1
  <2> DEFINE e == edges[n]
  <2>1. g[n] = GroupStep(g[n - 1], e, f, found)
    BY <1>4 DEF IsGrouping
  <2>2. Before(n) = Before(n - 1) \cup {e}
    <3>1. 1 .. n = (1 .. n - 1) \cup {n}
      BY <1>1
    <3> QED
      BY <3>1
  <2>3. ListsAnswers(g[n - 1], Before(n - 1), f, found) /\ Leads(e) \in Answers
    BY <1>3, <1>6
  <2> HIDE DEF Before, e
  <2>4. CASE OfParent(e, f, found)
    <3>1. g[n] = PushUnique(g[n - 1], Leads(e))
      BY <2>1, <2>4 DEF GroupStep, OfParent
    <3>2. /\ g[n - 1] \in Seq(Answers)
          /\ \A j, k \in DOMAIN g[n - 1] : g[n - 1][j] = g[n - 1][k] => j = k
      BY <2>3 DEF ListsAnswers
    <3>3. /\ g[n] \in Seq(Answers)
          /\ Range(g[n]) = Range(g[n - 1]) \cup {Leads(e)}
          /\ \A j, k \in DOMAIN g[n] : g[n][j] = g[n][k] => j = k
      BY <2>3, <3>1, <3>2, PushUniqueLists
    <3>4. ASSUME NEW x
          PROVE  x \in Range(g[n]) <=> \E d \in Before(n) : OfParent(d, f, found) /\ x = Leads(d)
      BY <2>2, <2>3, <2>4, <3>3 DEF ListsAnswers
    <3> QED
      BY <3>3, <3>4 DEF ListsAnswers
  <2>5. CASE ~OfParent(e, f, found)
    <3>1. g[n] = g[n - 1]
      BY <2>1, <2>5 DEF GroupStep, OfParent
    <3>2. ASSUME NEW x
          PROVE  x \in Range(g[n]) <=> \E d \in Before(n) : OfParent(d, f, found) /\ x = Leads(d)
      BY <2>2, <2>3, <2>5, <3>1 DEF ListsAnswers
    <3> QED
      BY <2>3, <3>1, <3>2 DEF ListsAnswers
  <2> QED
    BY <2>4, <2>5
<1>7. N \in Right
  <2>1. N \in 0 .. N
    BY <1>1
  <2> HIDE DEF Right, N
  <2>2. \A n \in 0 .. N : n \in Right
    BY <1>1, <1>5, <1>6, UpTo
  <2> QED
    BY <2>1, <2>2
<1> QED
  BY <1>2, <1>4, <1>7 DEF IsGrouping

\* A line of the tree, the edge it shows, and two lines that show one edge.
Line == [kind : {"object", "missing", "repeat"}, of : Answers, under : Files \cup {NoFile}]
ShowsEdge(l, e) == l.under = e.from /\ l.of = Leads(e) /\ (l.kind = "missing" <=> e.to = NoFile)
SameEdge(l, m) == l.under = m.under /\ l.of = m.of /\ (l.kind = "missing" <=> m.kind = "missing")
ShowsAnEdge(l) == \E e \in Range(edges) : ShowsEdge(l, e)
NoTwins(s) == \A j, k \in DOMAIN s : SameEdge(s[j], s[k]) => j = k
NoTwinOf(l, s) == \A k \in DOMAIN s : ~SameEdge(l, s[k])

\* Where the elements of a concatenation come from.
LEMMA ConcatParts ==
  ASSUME NEW T, NEW s \in Seq(T), NEW t \in Seq(T)
  PROVE  /\ s \o t \in Seq(T)
         /\ \A k \in DOMAIN (s \o t) :
              \/ k \in DOMAIN s /\ (s \o t)[k] = s[k]
              \/ /\ k > Len(s) /\ k - Len(s) \in DOMAIN t
                 /\ (s \o t)[k] = t[k - Len(s)]
         /\ \A k \in DOMAIN s : k \in DOMAIN (s \o t) /\ (s \o t)[k] = s[k]
         /\ \A k \in DOMAIN t : k + Len(s) \in DOMAIN (s \o t) /\ (s \o t)[k + Len(s)] = t[k]
OBVIOUS

\* Lines that show different edges, before others that show yet others.
LEMMA ConcatNoTwins ==
  ASSUME NEW s \in Seq(Line), NEW t \in Seq(Line), NoTwins(s), NoTwins(t),
         \A k \in DOMAIN s : NoTwinOf(s[k], t)
  PROVE  NoTwins(s \o t)
<1> DEFINE c == s \o t
<1>1. /\ Len(s) \in Nat /\ DOMAIN s = 1 .. Len(s) /\ DOMAIN t = 1 .. Len(t) /\ Len(t) \in Nat
      /\ \A k \in DOMAIN c : \/ k \in DOMAIN s /\ c[k] = s[k]
                             \/ k > Len(s) /\ k - Len(s) \in DOMAIN t /\ c[k] = t[k - Len(s)]
  BY ConcatParts
<1>2. \A k \in DOMAIN c : k \in Nat
  OBVIOUS
<1> HIDE DEF c
<1>3. ASSUME NEW j \in DOMAIN c, NEW k \in DOMAIN c, SameEdge(c[j], c[k]) PROVE j = k
  <2>1. CASE j \in DOMAIN s /\ c[j] = s[j] /\ k \in DOMAIN s /\ c[k] = s[k]
    BY <1>3, <2>1 DEF NoTwins
  <2>2. CASE j - Len(s) \in DOMAIN t /\ c[j] = t[j - Len(s)] /\ k - Len(s) \in DOMAIN t /\ c[k] = t[k - Len(s)]
    <3>1. j - Len(s) = k - Len(s)
      BY <1>3, <2>2 DEF NoTwins
    <3> QED
      BY <1>1, <1>2, <3>1
  <2>3. CASE j \in DOMAIN s /\ c[j] = s[j] /\ k - Len(s) \in DOMAIN t /\ c[k] = t[k - Len(s)]
    BY <1>3, <2>3 DEF NoTwinOf
  <2>4. CASE k \in DOMAIN s /\ c[k] = s[k] /\ j - Len(s) \in DOMAIN t /\ c[j] = t[j - Len(s)]
    BY <1>3, <2>4 DEF NoTwinOf, SameEdge
  <2> QED
    BY <1>1, <2>1, <2>2, <2>3, <2>4
<1> QED
  BY <1>3 DEF NoTwins, c

\* The lines of one object: each edge of its is shown by one of them, and nothing else is.
ChildrenOf(s, f) ==
  /\ s \in Seq(Line)
  /\ NoTwins(s)
  /\ \A k \in DOMAIN s : s[k].under = f /\ s[k].kind # "repeat" /\ ShowsAnEdge(s[k])
  /\ \A e \in Range(edges) : e.from = f => \E k \in DOMAIN s : ShowsEdge(s[k], e)

\* The nodes of the graph are the collected files.
LEMMA NodesAreVisited ==
  ASSUME TypeOK, EachFileOnce
  PROVE  /\ DOMAIN DepNodes = visited
         /\ \A f \in visited : /\ DepNodes[f].needs = ByParent(f, TRUE)
                               /\ DepNodes[f].missing = ByParent(f, FALSE)
<1>1. visited = {Binary} \cup {l.path : l \in Range(libs)}
  <2>1. Range(libs) = {libs[k] : k \in DOMAIN libs}
    BY DEF Range
  <2>2. {l.path : l \in Range(libs)} = {libs[k].path : k \in DOMAIN libs}
    BY <2>1
  <2> QED
    BY <2>2 DEF EachFileOnce
<1> QED
  BY <1>1 DEF DepNodes

\* The lines that show one object's resolved edges, or its unresolved ones.
LinesShow(c, f, kind, found) ==
  /\ c \in Seq(Line)
  /\ NoTwins(c)
  /\ \A k \in DOMAIN c : c[k].under = f /\ c[k].kind = kind /\ ShowsAnEdge(c[k])
  /\ \A e \in Range(edges) : OfParent(e, f, found) => \E k \in DOMAIN c : ShowsEdge(c[k], e)

\* A list of answers, as lines under their parent, shows the edges that have them.
LEMMA LinesOfAnswers ==
  ASSUME TypeOK, NEW f \in Files, NEW found \in BOOLEAN, NEW s, NEW kind,
         ListsAnswers(s, Range(edges), f, found),
         found => kind = "object", ~found => kind = "missing",
         NEW c, c = [k \in DOMAIN s |-> Shown(kind, s[k], f)]
  PROVE  LinesShow(c, f, kind, found)
<1>1. s \in Seq(Answers) /\ Len(s) \in Nat /\ DOMAIN s = 1 .. Len(s) /\ \A k \in DOMAIN s : s[k] \in Answers
  BY DEF ListsAnswers
<1>2. \A k \in DOMAIN s : Shown(kind, s[k], f) \in Line
  BY <1>1 DEF Shown, Line
<1>3. c \in Seq(Line) /\ DOMAIN c = DOMAIN s
  BY <1>1, <1>2
<1>4. ASSUME NEW k \in DOMAIN s
      PROVE  c[k].under = f /\ c[k].kind = kind /\ c[k].of = s[k]
  BY <1>4 DEF Shown
<1>5. NoTwins(c)
  BY <1>3, <1>4 DEF NoTwins, SameEdge, ListsAnswers
<1>6. ASSUME NEW k \in DOMAIN c PROVE ShowsAnEdge(c[k])
  <2>1. PICK e \in Range(edges) : OfParent(e, f, found) /\ s[k] = Leads(e)
    BY <1>3 DEF ListsAnswers, Range
  <2>2. ShowsEdge(c[k], e)
    BY <1>3, <1>4, <2>1 DEF OfParent, ShowsEdge
  <2> QED
    BY <2>2 DEF ShowsAnEdge
<1>7. ASSUME NEW e \in Range(edges), OfParent(e, f, found)
      PROVE  \E k \in DOMAIN c : ShowsEdge(c[k], e)
  <2>1. Leads(e) \in Range(s)
    BY <1>7 DEF ListsAnswers
  <2>2. PICK k \in DOMAIN s : s[k] = Leads(e)
    BY <2>1 DEF Range
  <2>3. ShowsEdge(c[k], e)
    BY <1>4, <1>7, <2>2 DEF OfParent, ShowsEdge
  <2> QED
    BY <1>3, <2>3
<1> QED
  BY <1>3, <1>4, <1>5, <1>6, <1>7 DEF LinesShow

\* An object's lines show its edges.
LEMMA ChildLinesShow ==
  ASSUME TypeOK, EachFileOnce, NEW f \in visited
  PROVE  ChildrenOf(ChildLines(f), f)
<1> DEFINE needs == ByParent(f, TRUE)
           lacks == ByParent(f, FALSE)
           a == [k \in DOMAIN needs |-> Shown("object", needs[k], f)]
           b == [k \in DOMAIN lacks |-> Shown("missing", lacks[k], f)]
<1>1. f \in Files
  BY DEF TypeOK
<1>2. ChildLines(f) = a \o b
  BY NodesAreVisited DEF ChildLines
<1>3. ListsAnswers(needs, Range(edges), f, TRUE) /\ ListsAnswers(lacks, Range(edges), f, FALSE)
  BY ByParentLists
<1>4. a = [k \in DOMAIN needs |-> Shown("object", needs[k], f)]
  OBVIOUS
<1>5. b = [k \in DOMAIN lacks |-> Shown("missing", lacks[k], f)]
  OBVIOUS
<1> HIDE DEF needs, lacks, a, b
<1>s. LinesShow(a, f, "object", TRUE) /\ LinesShow(b, f, "missing", FALSE)
  BY <1>1, <1>3, <1>4, <1>5, LinesOfAnswers
<1>a. /\ a \in Seq(Line) /\ NoTwins(a)
      /\ \A k \in DOMAIN a : a[k].under = f /\ a[k].kind = "object" /\ ShowsAnEdge(a[k])
      /\ \A e \in Range(edges) : OfParent(e, f, TRUE) => \E k \in DOMAIN a : ShowsEdge(a[k], e)
  BY <1>s DEF LinesShow
<1>b. /\ b \in Seq(Line) /\ NoTwins(b)
      /\ \A k \in DOMAIN b : b[k].under = f /\ b[k].kind = "missing" /\ ShowsAnEdge(b[k])
      /\ \A e \in Range(edges) : OfParent(e, f, FALSE) => \E k \in DOMAIN b : ShowsEdge(b[k], e)
  BY <1>s DEF LinesShow
<1> DEFINE c == a \o b
<1>6. /\ c \in Seq(Line)
      /\ \A k \in DOMAIN c : \/ k \in DOMAIN a /\ c[k] = a[k]
                             \/ k > Len(a) /\ k - Len(a) \in DOMAIN b /\ c[k] = b[k - Len(a)]
      /\ \A k \in DOMAIN a : k \in DOMAIN c /\ c[k] = a[k]
      /\ \A k \in DOMAIN b : k + Len(a) \in DOMAIN c /\ c[k + Len(a)] = b[k]
  BY <1>a, <1>b, ConcatParts
<1>7. NoTwins(c)
  <2>1. \A k \in DOMAIN a : NoTwinOf(a[k], b)
    BY <1>a, <1>b DEF NoTwinOf, SameEdge
  <2> QED
    BY <1>a, <1>b, <2>1, ConcatNoTwins
<1> HIDE DEF c
<1>8. \A k \in DOMAIN c : c[k].under = f /\ c[k].kind # "repeat" /\ ShowsAnEdge(c[k])
  BY <1>a, <1>b, <1>6
<1>9. ASSUME NEW e \in Range(edges), e.from = f PROVE \E k \in DOMAIN c : ShowsEdge(c[k], e)
  <2>1. OfParent(e, f, TRUE) \/ OfParent(e, f, FALSE)
    BY <1>9 DEF OfParent
  <2> QED
    BY <1>a, <1>b, <1>6, <2>1
<1>10. ChildrenOf(c, f)
  BY <1>6, <1>7, <1>8, <1>9 DEF ChildrenOf
<1> QED
  BY <1>2, <1>10 DEF c

\* The lines to come: edges of the objects that were expanded, each waiting once.
Waiting(todo, seen) ==
  /\ todo \in Seq(Line)
  /\ NoTwins(todo)
  /\ \A k \in DOMAIN todo :
       todo[k].under \in seen /\ todo[k].kind # "repeat" /\ ShowsAnEdge(todo[k])

\* The lines on the page: the root's, then edges of objects that were expanded above them, each
\* shown once, and a line that expands each object that was.
Below(text) == DOMAIN text \ {1}
Expands(text, k, f) == text[k].kind = "object" /\ text[k].of = f
Printed(text, seen) ==
  /\ text \in Seq(Line)
  /\ 1 \in DOMAIN text /\ text[1] = Shown("object", Binary, NoFile)
  /\ \A k \in Below(text) : ShowsAnEdge(text[k])
  /\ \A k \in Below(text) : \E j \in DOMAIN text : j < k /\ Expands(text, j, text[k].under)
  /\ \A k \in DOMAIN text : text[k].kind # "missing" => text[k].of \in seen
  /\ \A f \in seen : \E j \in DOMAIN text : Expands(text, j, f)
  /\ \A j, k \in DOMAIN text :
       text[j].kind = "object" /\ text[k].kind = "object" /\ text[j].of = text[k].of => j = k
  /\ \A j, k \in Below(text) : SameEdge(text[j], text[k]) => j = k

NotYetShown(l, text) == \A k \in Below(text) : ~SameEdge(l, text[k])
IsShown(e, s, places) == \E k \in places : ShowsEdge(s[k], e)

\* A line joins the page: an object's is new, a repeat's is not.
LEMMA LinePrinted ==
  ASSUME NEW text, NEW seen, NEW l \in Line, NEW now, Printed(text, seen),
         ShowsAnEdge(l), l.under \in seen, NotYetShown(l, text),
         \/ l.kind = "object" /\ l.of \notin seen /\ now = seen \cup {l.of}
         \/ l.kind = "repeat" /\ l.of \in seen /\ now = seen
         \/ l.kind = "missing" /\ now = seen
  PROVE  Printed(Append(text, l), now)
<1> DEFINE t == Append(text, l)
           n == Len(text) + 1
<1>1. /\ text \in Seq(Line) /\ Len(text) \in Nat /\ DOMAIN text = 1 .. Len(text)
      /\ 1 \in DOMAIN text
  BY DEF Printed
<1>2. /\ t \in Seq(Line)
      /\ DOMAIN t = DOMAIN text \cup {n} /\ n \notin DOMAIN text /\ n \in Nat /\ n # 1
      /\ \A k \in DOMAIN text : t[k] = text[k] /\ k < n
      /\ t[n] = l
  BY <1>1
<1>3. Below(t) = Below(text) \cup {n}
  BY <1>2 DEF Below
<1> HIDE DEF t, n
<1>4. 1 \in DOMAIN t /\ t[1] = Shown("object", Binary, NoFile)
  BY <1>1, <1>2 DEF Printed
<1>5. \A k \in Below(t) : ShowsAnEdge(t[k])
  BY <1>2, <1>3 DEF Printed, Below
<1>6. ASSUME NEW k \in Below(t) PROVE \E j \in DOMAIN t : j < k /\ Expands(t, j, t[k].under)
  <2>1. CASE k \in Below(text)
    <3>1. PICK j \in DOMAIN text : j < k /\ Expands(text, j, text[k].under)
      BY <2>1 DEF Printed
    <3> QED
      BY <2>1, <3>1, <1>2 DEF Expands, Below
  <2>2. CASE k = n
    <3>1. PICK j \in DOMAIN text : Expands(text, j, l.under)
      BY DEF Printed
    <3> QED
      BY <2>2, <3>1, <1>2 DEF Expands
  <2> QED
    BY <1>3, <2>1, <2>2
<1>7. \A k \in DOMAIN t : t[k].kind # "missing" => t[k].of \in now
  BY <1>2 DEF Printed
<1>8. ASSUME NEW f \in now PROVE \E j \in DOMAIN t : Expands(t, j, f)
  <2>1. CASE f \in seen
    <3>1. PICK j \in DOMAIN text : Expands(text, j, f)
      BY <2>1 DEF Printed
    <3> QED
      BY <3>1, <1>2 DEF Expands
  <2>2. CASE f \notin seen
    BY <2>2, <1>2 DEF Expands
  <2> QED
    BY <2>1, <2>2
<1>9. \A j, k \in DOMAIN t :
        t[j].kind = "object" /\ t[k].kind = "object" /\ t[j].of = t[k].of => j = k
  <2>1. \A k \in DOMAIN text : text[k].kind = "object" => text[k].of \in seen
    BY DEF Printed
  <2>2. l.kind = "object" => l.of \notin seen
    OBVIOUS
  <2> QED
    BY <2>1, <2>2, <1>2 DEF Printed
<1>10. \A j, k \in Below(t) : SameEdge(t[j], t[k]) => j = k
  <2>1. \A k \in Below(text) : ~SameEdge(l, text[k]) /\ ~SameEdge(text[k], l) /\ t[k] = text[k]
    BY <1>2 DEF NotYetShown, SameEdge, Below
  <2> QED
    BY <2>1, <1>2, <1>3 DEF Printed
<1> QED
  BY <1>2, <1>4, <1>5, <1>6, <1>7, <1>8, <1>9, <1>10 DEF Printed, t

\* The lines of a new object go before the rest.
LEMMA LinesWait ==
  ASSUME TypeOK, NEW rest, NEW seen, NEW f \in Files, f \notin seen, NEW s,
         Waiting(rest, seen), ChildrenOf(s, f)
  PROVE  Waiting(s \o rest, seen \cup {f})
<1> DEFINE c == s \o rest
<1>1. s \in Seq(Line) /\ rest \in Seq(Line) /\ NoTwins(s) /\ NoTwins(rest)
  BY DEF Waiting, ChildrenOf
<1>2. \A k \in DOMAIN s : NoTwinOf(s[k], rest)
  BY DEF NoTwinOf, SameEdge, Waiting, ChildrenOf
<1>3. NoTwins(c)
  BY <1>1, <1>2, ConcatNoTwins
<1>4. /\ c \in Seq(Line)
      /\ \A k \in DOMAIN c : \/ k \in DOMAIN s /\ c[k] = s[k]
                             \/ k - Len(s) \in DOMAIN rest /\ c[k] = rest[k - Len(s)]
  BY <1>1, ConcatParts
<1> HIDE DEF c
<1>5. ASSUME NEW k \in DOMAIN c
      PROVE  c[k].under \in seen \cup {f} /\ c[k].kind # "repeat" /\ ShowsAnEdge(c[k])
  BY <1>4 DEF Waiting, ChildrenOf
<1>6. Waiting(c, seen \cup {f})
  BY <1>3, <1>4, <1>5 DEF Waiting
<1> QED
  BY <1>6 DEF c

\* A page: nothing shown is still to come, each line so far took one step, and each edge of an
\* expanded object is shown or to come.
Pages == [todo : Seq(Line), seen : SUBSET visited, text : Seq(Line)]
Page(p, n) ==
  /\ p \in Pages /\ Binary \in p.seen
  /\ Waiting(p.todo, p.seen)
  /\ Printed(p.text, p.seen)
  /\ \A k \in DOMAIN p.todo : NotYetShown(p.todo[k], p.text)
  /\ \A e \in Range(edges) : e.from \in p.seen =>
       IsShown(e, p.todo, DOMAIN p.todo) \/ IsShown(e, p.text, Below(p.text))
  /\ p.todo = <<>> \/ Len(p.text) = n + 1

\* What the head of the lines to come leaves when it is printed as `l`.
Moved(todo, text, l, seen, now) ==
  /\ Tail(todo) \in Seq(Line) /\ Append(text, l) \in Seq(Line)
  /\ Waiting(Tail(todo), seen)
  /\ Printed(Append(text, l), now)
  /\ \A k \in DOMAIN Tail(todo) : NotYetShown(Tail(todo)[k], Append(text, l))
  /\ \A e \in Range(edges) : e.from \in seen =>
       \/ IsShown(e, Tail(todo), DOMAIN Tail(todo))
       \/ IsShown(e, Append(text, l), Below(Append(text, l)))
  /\ Len(Append(text, l)) = Len(text) + 1

\* The head of the lines to come is printed.
LEMMA HeadPrinted ==
  ASSUME NEW p, NEW n, Page(p, n), p.todo # <<>>,
         NEW l \in Line, NEW now, SameEdge(l, Head(p.todo)),
         \/ l.kind = "object" /\ l.of \notin p.seen /\ now = p.seen \cup {l.of}
         \/ l.kind = "repeat" /\ l.of \in p.seen /\ now = p.seen
         \/ l.kind = "missing" /\ now = p.seen
  PROVE  Moved(p.todo, p.text, l, p.seen, now)
<1> DEFINE todo == p.todo
           text == p.text
           seen == p.seen
           rest == Tail(todo)
           t == Append(text, l)
<1>1. /\ Waiting(todo, seen) /\ Printed(text, seen) /\ todo \in Seq(Line) /\ text \in Seq(Line)
      /\ \A k \in DOMAIN todo : NotYetShown(todo[k], text)
      /\ \A e \in Range(edges) : e.from \in seen =>
           IsShown(e, todo, DOMAIN todo) \/ IsShown(e, text, Below(text))
      /\ todo # <<>>
  BY DEF Page, Pages, Waiting
<1> HIDE DEF todo, text, seen
<1>2. /\ rest \in Seq(Line) /\ 1 \in DOMAIN todo /\ Head(todo) = todo[1]
      /\ \A k \in DOMAIN rest : k + 1 \in DOMAIN todo /\ rest[k] = todo[k + 1] /\ k + 1 # 1 /\ k \in Nat
      /\ \A k \in DOMAIN todo : k # 1 => k - 1 \in DOMAIN rest /\ rest[k - 1] = todo[k]
  BY <1>1
<1>3. /\ t \in Seq(Line) /\ Len(t) = Len(text) + 1 /\ DOMAIN t = DOMAIN text \cup {Len(text) + 1}
      /\ \A k \in DOMAIN text : t[k] = text[k]
      /\ t[Len(text) + 1] = l
      /\ Len(text) + 1 # 1
  <2>1. text \in Seq(Line) /\ 1 \in DOMAIN text
    BY <1>1 DEF Printed
  <2> QED
    BY <2>1
<1>4. /\ SameEdge(l, todo[1])
      /\ \A e : ShowsEdge(todo[1], e) <=> ShowsEdge(l, e)
  <2>1. SameEdge(l, todo[1])
    BY <1>2 DEF todo
  <2> QED
    BY <2>1 DEF SameEdge, ShowsEdge
<1>5. ShowsAnEdge(l) /\ l.under \in seen /\ NotYetShown(l, text)
  <2>1. ShowsAnEdge(todo[1]) /\ todo[1].under \in seen /\ NotYetShown(todo[1], text)
    BY <1>1, <1>2 DEF Waiting
  <2> QED
    BY <1>4, <2>1 DEF ShowsAnEdge, NotYetShown, SameEdge
<1>6. Printed(t, now)
  BY <1>1, <1>5, LinePrinted DEF seen
<1> HIDE DEF rest, t
<1>7. Waiting(rest, seen)
  <2>1. NoTwins(rest)
    <3>1. ASSUME NEW j \in DOMAIN rest, NEW k \in DOMAIN rest, SameEdge(rest[j], rest[k]) PROVE j = k
      <4>1. j + 1 = k + 1
        BY <1>1, <1>2, <3>1 DEF Waiting, NoTwins
      <4> QED
        BY <1>2, <4>1
    <3> QED
      BY <3>1 DEF NoTwins
  <2> QED
    BY <1>1, <1>2, <2>1 DEF Waiting
<1>8. Below(t) = Below(text) \cup {Len(text) + 1}
  BY <1>3 DEF Below
<1>9. ASSUME NEW k \in DOMAIN rest PROVE NotYetShown(rest[k], t)
  <2>1. NotYetShown(rest[k], text) /\ ~SameEdge(rest[k], todo[1])
    BY <1>1, <1>2 DEF Waiting, NoTwins
  <2>2. ~SameEdge(rest[k], l)
    BY <1>4, <2>1 DEF SameEdge
  <2>3. \A i \in Below(text) : t[i] = text[i]
    BY <1>3 DEF Below
  <2> QED
    BY <1>3, <1>8, <2>1, <2>2, <2>3 DEF NotYetShown
<1>10. ASSUME NEW e \in Range(edges), e.from \in seen
       PROVE  IsShown(e, rest, DOMAIN rest) \/ IsShown(e, t, Below(t))
  <2>1. CASE IsShown(e, text, Below(text))
    BY <2>1, <1>3, <1>8 DEF IsShown, Below
  <2>2. CASE IsShown(e, todo, DOMAIN todo)
    <3>1. PICK k \in DOMAIN todo : ShowsEdge(todo[k], e)
      BY <2>2 DEF IsShown
    <3>2. CASE k = 1
      <4>1. ShowsEdge(t[Len(text) + 1], e) /\ Len(text) + 1 \in Below(t)
        BY <3>1, <3>2, <1>3, <1>4, <1>8
      <4> QED
        BY <4>1 DEF IsShown
    <3>3. CASE k # 1
      <4>1. k - 1 \in DOMAIN rest /\ ShowsEdge(rest[k - 1], e)
        BY <3>1, <3>3, <1>2
      <4> QED
        BY <4>1 DEF IsShown
    <3> QED
      BY <3>2, <3>3
  <2> QED
    BY <2>1, <2>2, <1>1, <1>10
<1>11. Moved(todo, text, l, seen, now)
  BY <1>2, <1>3, <1>6, <1>7, <1>9, <1>10 DEF Moved, rest, t
<1> QED
  BY <1>11 DEF todo, text, seen

\* A line to come shows a name that is missing, or a collected file.
LEMMA HeadShows ==
  ASSUME TypeOK, EdgesAreInside, outcome # "refused", NEW p, NEW n, Page(p, n), p.todo # <<>>
  PROVE  /\ Head(p.todo) \in Line
         /\ \/ Head(p.todo).kind = "missing"
            \/ Head(p.todo).kind = "object" /\ Head(p.todo).of \in visited
<1> DEFINE line == Head(p.todo)
<1>1. 1 \in DOMAIN p.todo /\ line = p.todo[1] /\ p.todo \in Seq(Line)
  BY DEF Page, Pages
<1>2. line \in Line /\ line.kind # "repeat" /\ ShowsAnEdge(line)
  BY <1>1 DEF Page, Waiting
<1> HIDE DEF line
<1>3. PICK e \in Range(edges) : ShowsEdge(line, e)
  BY <1>2 DEF ShowsAnEdge
<1>4. line.kind = "missing" \/ line.kind = "object"
  BY <1>2 DEF Line
<1>5. line.kind = "object" => line.of = e.to /\ e.to # NoFile /\ e.to \in visited
  BY <1>3 DEF ShowsEdge, Leads, EdgesAreInside
<1> QED
  BY <1>2, <1>4, <1>5 DEF line

\* One line: the page stays a page.
LEMMA PageStep ==
  ASSUME TypeOK, EachFileOnce, EdgesAreInside, outcome # "refused",
         NEW n \in Nat, NEW p, Page(p, n), p.todo # <<>>
  PROVE  Page(RenderLine(p), n + 1)
<1> DEFINE line == Head(p.todo)
           rest == Tail(p.todo)
           q == RenderLine(p)
           again == Shown("repeat", line.of, line.under)
<1>0. /\ p \in Pages /\ Binary \in p.seen /\ Len(p.text) = n + 1
      /\ \A e \in Range(edges) : e.from \in p.seen =>
           IsShown(e, p.todo, DOMAIN p.todo) \/ IsShown(e, p.text, Below(p.text))
  BY DEF Page
<1>1. /\ line \in Line
      /\ \/ line.kind = "missing"
         \/ line.kind = "object" /\ line.of \in visited /\ line.of \in Files
  BY HeadShows DEF TypeOK
<1>2. SameEdge(line, line)
  BY DEF SameEdge
<1>3. CASE line.kind = "missing"
  <2>1. Moved(p.todo, p.text, line, p.seen, p.seen)
    BY <1>1, <1>2, <1>3, HeadPrinted
  <2>2. q = [p EXCEPT !.todo = rest, !.text = Append(p.text, line)]
    BY <1>3 DEF RenderLine
  <2>3. rest \in Seq(Line) /\ Append(p.text, line) \in Seq(Line)
    BY <2>1 DEF Moved
  <2> HIDE DEF line, rest, q
  <2>4. q \in Pages /\ q.todo = rest /\ q.seen = p.seen /\ q.text = Append(p.text, line)
    BY <2>2, <2>3, <1>0 DEF Pages
  <2> QED
    BY <2>1, <2>4, <1>0 DEF Page, Moved, q, rest
<1>4. CASE line.kind = "object" /\ line.of \in p.seen
  <2>1. again \in Line /\ again.kind = "repeat" /\ again.of \in p.seen /\ SameEdge(again, line)
    BY <1>1, <1>4 DEF Shown, Line, SameEdge
  <2>2. q = [p EXCEPT !.todo = rest, !.text = Append(p.text, again)]
    <3>1. line.of \in DOMAIN DepNodes /\ Seen(line.of, p.seen) /\ line.kind # "missing"
      BY <1>1, <1>4, NodesAreVisited DEF Seen
    <3> QED
      BY <3>1 DEF RenderLine
  <2> HIDE DEF again
  <2>3. Moved(p.todo, p.text, again, p.seen, p.seen)
    BY <2>1, HeadPrinted
  <2>4. rest \in Seq(Line) /\ Append(p.text, again) \in Seq(Line)
    BY <2>3 DEF Moved
  <2> HIDE DEF line, rest, q
  <2>5. q \in Pages /\ q.todo = rest /\ q.seen = p.seen /\ q.text = Append(p.text, again)
    BY <2>2, <2>4, <1>0 DEF Pages
  <2> QED
    BY <2>3, <2>5, <1>0 DEF Page, Moved, q, rest
<1>5. CASE line.kind = "object" /\ line.of \notin p.seen
  <2> DEFINE f == line.of
             now == p.seen \cup {f}
             s == ChildLines(f)
             t == Append(p.text, line)
  <2>1. Moved(p.todo, p.text, line, p.seen, now)
    BY <1>1, <1>2, <1>5, HeadPrinted
  <2>2. q = [todo |-> s \o rest, seen |-> now, text |-> t]
    <3>1. f \in DOMAIN DepNodes /\ ~Seen(f, p.seen) /\ line.kind # "missing"
      BY <1>1, <1>5, NodesAreVisited DEF Seen
    <3> QED
      BY <3>1 DEF RenderLine
  <2>3. f \in visited /\ f \in Files /\ f \notin p.seen /\ ChildrenOf(s, f)
    BY <1>1, <1>5, ChildLinesShow
  <2> HIDE DEF line, rest, q, s, f
  <2>4. /\ rest \in Seq(Line) /\ t \in Seq(Line) /\ Len(t) = Len(p.text) + 1
        /\ Waiting(rest, p.seen) /\ Printed(t, now)
        /\ \A k \in DOMAIN rest : NotYetShown(rest[k], t)
        /\ \A e \in Range(edges) : e.from \in p.seen =>
             IsShown(e, rest, DOMAIN rest) \/ IsShown(e, t, Below(t))
    BY <2>1 DEF Moved, rest
  <2> DEFINE c == s \o rest
  <2>5. Waiting(c, now)
    BY <2>3, <2>4, LinesWait
  <2>6. s \in Seq(Line)
    BY <2>3 DEF ChildrenOf
  <2>7. /\ c \in Seq(Line)
        /\ \A k \in DOMAIN c : \/ k \in DOMAIN s /\ c[k] = s[k]
                               \/ k - Len(s) \in DOMAIN rest /\ c[k] = rest[k - Len(s)]
        /\ \A k \in DOMAIN s : k \in DOMAIN c /\ c[k] = s[k]
        /\ \A k \in DOMAIN rest : k + Len(s) \in DOMAIN c /\ c[k + Len(s)] = rest[k]
    BY <2>4, <2>6, ConcatParts
  <2>8. q \in Pages /\ q.todo = c /\ q.seen = now /\ q.text = t
    BY <2>2, <2>3, <2>4, <2>7, <1>0 DEF Pages
  <2>t. \A k \in Below(t) : t[k].under # f
    <3>1. \A k \in Below(p.text) : p.text[k].under \in p.seen
      BY DEF Page, Printed, Expands
    <3>2. line.under \in p.seen
      BY DEF Page, Waiting, Pages, line
    <3>3. p.text \in Seq(Line)
      BY <1>0 DEF Pages
    <3>4. \A k \in DOMAIN t : (k \in DOMAIN p.text /\ t[k] = p.text[k]) \/ t[k] = line
      BY <3>3
    <3> QED
      BY <2>3, <3>1, <3>2, <3>4 DEF Below
  <2> HIDE DEF c, t
  <2>9. ASSUME NEW k \in DOMAIN c PROVE NotYetShown(c[k], t)
    <3>1. CASE k \in DOMAIN s /\ c[k] = s[k]
      <4>1. c[k].under = f
        BY <3>1, <2>3 DEF ChildrenOf
      <4> QED
        BY <4>1, <2>t DEF NotYetShown, SameEdge
    <3>2. CASE k - Len(s) \in DOMAIN rest /\ c[k] = rest[k - Len(s)]
      BY <3>2, <2>4
    <3> QED
      BY <3>1, <3>2, <2>7
  <2>10. ASSUME NEW e \in Range(edges), e.from \in now
         PROVE  IsShown(e, c, DOMAIN c) \/ IsShown(e, t, Below(t))
    <3>1. CASE e.from = f
      <4>1. PICK k \in DOMAIN s : ShowsEdge(s[k], e)
        BY <3>1, <2>3 DEF ChildrenOf
      <4> QED
        BY <4>1, <2>7 DEF IsShown
    <3>2. CASE e.from \in p.seen
      <4>1. CASE IsShown(e, rest, DOMAIN rest)
        <5>1. PICK k \in DOMAIN rest : ShowsEdge(rest[k], e)
          BY <4>1 DEF IsShown
        <5> QED
          BY <5>1, <2>7 DEF IsShown
      <4> QED
        BY <4>1, <3>2, <2>4
    <3> QED
      BY <3>1, <3>2, <2>10
  <2>11. Binary \in now /\ Len(t) = n + 1 + 1
    BY <1>0, <2>4
  <2>12. Page(q, n + 1)
    <3> HIDE DEF now
    <3> QED
      BY <2>4, <2>5, <2>8, <2>9, <2>10, <2>11 DEF Page
  <2> QED
    BY <2>12 DEF q
<1> QED
  BY <1>1, <1>3, <1>4, <1>5

\* The pages, one line after the other.
NextPage(p) == IF p.todo = <<>> THEN p ELSE RenderLine(p)
PagesUpTo(g, n) == [i \in 0 .. n |-> IF i = 0 THEN RootLine ELSE NextPage(g[i - 1])]

\* The recursion that renders them has a solution.
LEMMA RenderingExists ==
  ASSUME NEW N \in Nat
  PROVE  \E g : g = PagesUpTo(g, N)
<1> DEFINE Solved == {n \in Nat : \E g : g = PagesUpTo(g, n)}
<1>1. 0 \in Solved
  <2> DEFINE h == [i \in 0 .. 0 |-> RootLine]
  <2>1. h = PagesUpTo(h, 0)
    BY DEF PagesUpTo
  <2> QED
    BY <2>1
<1>2. ASSUME NEW m \in 1 .. N, m - 1 \in Solved PROVE m \in Solved
  <2>1. PICK h : h = PagesUpTo(h, m - 1)
    BY <1>2
  <2> DEFINE g == [i \in 0 .. m |-> IF i = m THEN NextPage(h[m - 1]) ELSE h[i]]
  <2>2. ASSUME NEW i \in 0 .. m
        PROVE  g[i] = IF i = 0 THEN RootLine ELSE NextPage(g[i - 1])
    <3>1. CASE i = m
      BY <3>1
    <3>2. CASE i # m
      <4>1. i \in 0 .. m - 1
        BY <3>2
      <4>2. h[i] = IF i = 0 THEN RootLine ELSE NextPage(h[i - 1])
        <5>1. PagesUpTo(h, m - 1)[i] = IF i = 0 THEN RootLine ELSE NextPage(h[i - 1])
          BY <4>1 DEF PagesUpTo
        <5> QED
          BY <2>1, <5>1
      <4>3. i # 0 => i - 1 \in 0 .. m /\ i - 1 # m
        BY <4>1
      <4> QED
        BY <3>2, <4>2, <4>3
    <3> QED
      BY <3>1, <3>2
  <2>3. g = PagesUpTo(g, m)
    <3>1. g = [i \in 0 .. m |-> g[i]]
      OBVIOUS
    <3> HIDE DEF g
    <3> QED
      BY <2>2, <3>1 DEF PagesUpTo
  <2> QED
    BY <2>3
<1>3. N \in 0 .. N
  OBVIOUS
<1> HIDE DEF Solved
<1>4. N \in Solved
  BY <1>1, <1>2, <1>3, UpTo
<1> QED
  BY <1>4 DEF Solved

\* A rendering of n lines.
IsRendering(g, n) ==
  /\ g[0] = RootLine
  /\ \A i \in 1 .. n : g[i] = NextPage(g[i - 1])
  /\ RenderChildren = g[n]

\* `to_text` renders one line after the other.
LEMMA RenderingIs ==
  ASSUME NEW N \in Nat, N = Len(edges)
  PROVE  \E g : IsRendering(g, N)
<1> DEFINE go == CHOOSE g : g = PagesUpTo(g, N)
<1>1. go = PagesUpTo(go, N)
  BY RenderingExists
<1>2. RenderChildren = go[N]
  BY DEF RenderChildren, PagesUpTo, NextPage
<1> HIDE DEF go
<1>3. \A i \in 0 .. N : go[i] = IF i = 0 THEN RootLine ELSE NextPage(go[i - 1])
  <2>1. \A i \in 0 .. N : PagesUpTo(go, N)[i] = IF i = 0 THEN RootLine ELSE NextPage(go[i - 1])
    BY DEF PagesUpTo
  <2> QED
    BY <1>1, <2>1
<1>4. go[0] = RootLine /\ \A i \in 1 .. N : go[i] = NextPage(go[i - 1])
  BY <1>3
<1> QED
  BY <1>2, <1>4 DEF IsRendering

\* The root's line is a page.
LEMMA RootPage ==
  ASSUME TypeOK, EachFileOnce
  PROVE  Page(RootLine, 0)
<1> DEFINE s == ChildLines(Binary)
           l == Shown("object", Binary, NoFile)
           t == <<l>>
<1>1. Binary \in visited /\ Binary \in Files /\ ChildrenOf(s, Binary)
  BY ChildLinesShow DEF EachFileOnce, TypeOK
<1> HIDE DEF s
<1>2. l \in Line /\ l.kind = "object" /\ l.of = Binary
  BY <1>1 DEF Shown, Line, Answers
<1>3. t \in Seq(Line) /\ DOMAIN t = {1} /\ t[1] = l /\ Len(t) = 1 /\ Below(t) = {}
  <2> HIDE DEF l
  <2> QED
    BY <1>2 DEF Below
<1> HIDE DEF t
<1>4. Printed(t, {Binary})
  BY <1>2, <1>3 DEF Printed, Expands
<1>5. Waiting(s, {Binary})
  BY <1>1 DEF Waiting, ChildrenOf
<1>6. \A k \in DOMAIN s : NotYetShown(s[k], t)
  BY <1>3 DEF NotYetShown
<1>7. \A e \in Range(edges) : e.from \in {Binary} => IsShown(e, s, DOMAIN s)
  BY <1>1 DEF ChildrenOf, IsShown
<1>8. s \in Seq(Line)
  BY <1>1 DEF ChildrenOf
<1> DEFINE p == [todo |-> s, seen |-> {Binary}, text |-> t]
<1>9. p \in Pages /\ p.todo = s /\ p.seen = {Binary} /\ p.text = t
  BY <1>1, <1>3, <1>8 DEF Pages
<1> HIDE DEF p
<1>10. Page(p, 0)
  BY <1>3, <1>4, <1>5, <1>6, <1>7, <1>9 DEF Page
<1> QED
  BY <1>10 DEF p, s, t, RootLine

\* As many lines below the root's as there are edges, and one more to come: two of them would
\* show one edge.
LEMMA NoLineTooMany ==
  ASSUME TypeOK, NEW p, NEW N \in Nat, N = Len(edges), Page(p, N)
  PROVE  p.todo = <<>>
<1> DEFINE text == p.text
           todo == p.todo
           l == [k \in 1 .. N + 1 |-> IF k = N + 1 THEN todo[1] ELSE text[k + 1]]
<1>0. edges \in Seq(Edge) /\ DOMAIN edges = 1 .. N
  BY DEF TypeOK
<1>1. ASSUME todo # <<>> PROVE FALSE
  <2>1. /\ Len(text) = N + 1 /\ text \in Seq(Line) /\ todo \in Seq(Line)
        /\ Waiting(todo, p.seen) /\ Printed(text, p.seen)
        /\ \A k \in DOMAIN todo : NotYetShown(todo[k], text)
    BY <1>1 DEF Page, Pages
  <2> HIDE DEF text, todo
  <2>2. 1 \in DOMAIN todo /\ \A k \in 1 .. N : k + 1 \in Below(text)
    BY <1>1, <2>1 DEF Below
  <2>3. ShowsAnEdge(todo[1]) /\ \A k \in 1 .. N : ShowsAnEdge(text[k + 1])
    BY <2>1, <2>2 DEF Waiting, Printed
  <2>4. \A k \in 1 .. N : /\ ~SameEdge(todo[1], text[k + 1])
                          /\ \A j \in 1 .. N : SameEdge(text[j + 1], text[k + 1]) => j + 1 = k + 1
    BY <2>1, <2>2 DEF NotYetShown, Printed
  <2>5. ASSUME NEW j \in 1 .. N + 1, NEW k \in 1 .. N + 1, SameEdge(l[j], l[k]) PROVE j = k
    <3>1. CASE j \in 1 .. N /\ k \in 1 .. N
      <4>1. l[j] = text[j + 1] /\ l[k] = text[k + 1]
        BY <3>1
      <4>2. j + 1 = k + 1
        BY <2>4, <2>5, <3>1, <4>1
      <4> QED
        BY <4>2
    <3>2. CASE j = N + 1 /\ k \in 1 .. N
      BY <2>4, <2>5, <3>2
    <3>3. CASE k = N + 1 /\ j \in 1 .. N
      BY <2>4, <2>5, <3>3 DEF SameEdge
    <3> QED
      BY <3>1, <3>2, <3>3
  <2>6. \A k \in 1 .. N + 1 : ShowsAnEdge(l[k])
    <3>1. \A k \in 1 .. N + 1 : k = N + 1 \/ k \in 1 .. N
      OBVIOUS
    <3> QED
      BY <2>3, <3>1
  <2> HIDE DEF l
  <2> DEFINE h == [k \in 1 .. N + 1 |-> CHOOSE i \in 1 .. N : ShowsEdge(l[k], edges[i])]
  <2>7. ASSUME NEW k \in 1 .. N + 1 PROVE h[k] \in 1 .. N /\ ShowsEdge(l[k], edges[h[k]])
    <3>1. \E i \in 1 .. N : ShowsEdge(l[k], edges[i])
      BY <1>0, <2>6 DEF ShowsAnEdge, Range
    <3> QED
      BY <3>1
  <2>8. h \in [1 .. N + 1 -> 1 .. N]
    BY <2>7
  <2> HIDE DEF h
  <2>9. /\ IsFiniteSet(1 .. N + 1) /\ Cardinality(1 .. N + 1) = N + 1
        /\ IsFiniteSet(1 .. N) /\ Cardinality(1 .. N) = N
    <3>1. 1 \in Int /\ N \in Int /\ N + 1 \in Int
      OBVIOUS
    <3>2. /\ IsFiniteSet(1 .. N + 1)
          /\ Cardinality(1 .. N + 1) = IF 1 > N + 1 THEN 0 ELSE N + 1 - 1 + 1
      BY <3>1, FS_Interval
    <3>3. /\ IsFiniteSet(1 .. N)
          /\ Cardinality(1 .. N) = IF 1 > N THEN 0 ELSE N - 1 + 1
      BY <3>1, FS_Interval
    <3> QED
      BY <3>2, <3>3
  <2>10. Cardinality(1 .. N) < Cardinality(1 .. N + 1)
    BY <2>9
  <2>11. PICK j, k \in 1 .. N + 1 : j # k /\ h[j] = h[k]
    BY <2>8, <2>9, <2>10, FS_PigeonHole
  <2>12. SameEdge(l[j], l[k])
    BY <2>7, <2>11 DEF ShowsEdge, SameEdge
  <2> QED
    BY <2>5, <2>11, <2>12
<1> QED
  BY <1>1

\* The tree of a finished walk is a page with no line to come.
LEMMA TreeIsPage ==
  ASSUME TypeOK, EachFileOnce, EdgesAreInside, outcome # "refused"
  PROVE  RenderChildren.todo = <<>> /\ \E n \in Nat : Page(RenderChildren, n)
<1> DEFINE N == Len(edges)
<1>1. N \in Nat
  BY DEF TypeOK
<1>2. PICK g : IsRendering(g, N)
  BY <1>1, RenderingIs
<1> DEFINE Right == {n \in 0 .. N : Page(g[n], n)}
<1>3. 0 \in Right
  BY <1>1, <1>2, RootPage DEF IsRendering
<1>4. ASSUME NEW n \in 1 .. N, n - 1 \in Right PROVE n \in Right
  <2>1. g[n] = NextPage(g[n - 1]) /\ Page(g[n - 1], n - 1) /\ n - 1 \in Nat /\ n - 1 + 1 = n /\ n \in 0 .. N
    BY <1>1, <1>2, <1>4 DEF IsRendering
  <2>2. CASE g[n - 1].todo = <<>>
    <3>1. g[n] = g[n - 1]
      BY <2>1, <2>2 DEF NextPage
    <3>2. Page(g[n], n)
      BY <2>1, <2>2, <3>1 DEF Page
    <3> QED
      BY <2>1, <3>2
  <2>3. CASE g[n - 1].todo # <<>>
    <3>1. g[n] = RenderLine(g[n - 1])
      BY <2>1, <2>3 DEF NextPage
    <3>2. Page(RenderLine(g[n - 1]), n - 1 + 1)
      BY <2>1, <2>3, PageStep
    <3>3. Page(g[n], n)
      BY <2>1, <3>1, <3>2
    <3> QED
      BY <2>1, <3>3
  <2> QED
    BY <2>2, <2>3
<1>5. Page(g[N], N)
  <2>1. N \in 0 .. N
    BY <1>1
  <2> HIDE DEF Right, N
  <2>2. \A n \in 0 .. N : n \in Right
    BY <1>1, <1>3, <1>4, UpTo
  <2>3. N \in Right
    BY <2>1, <2>2
  <2> QED
    BY <2>3 DEF Right
<1>6. g[N].todo = <<>>
  BY <1>1, <1>5, NoLineTooMany
<1> QED
  BY <1>1, <1>2, <1>5, <1>6 DEF IsRendering

\* Each collected file was named by one collected before it, so the tree reaches it.
LEMMA TreeReachesAll ==
  ASSUME TypeOK, EachFileOnce, EdgesAreInside, EveryLibWasNamed, outcome # "refused",
         NEW p, NEW n, Page(p, n), p.todo = <<>>
  PROVE  /\ p.seen = visited
         /\ \A e \in Range(edges) : IsShown(e, p.text, Below(p.text))
<1>1. ASSUME NEW e \in Range(edges), e.from \in p.seen PROVE IsShown(e, p.text, Below(p.text))
  <2>1. DOMAIN p.todo = {}
    OBVIOUS
  <2> QED
    BY <1>1, <2>1 DEF Page, IsShown
<1>2. ASSUME NEW e \in Range(edges), e.from \in p.seen, e.to # NoFile PROVE e.to \in p.seen
  <2>1. PICK k \in Below(p.text) : ShowsEdge(p.text[k], e)
    BY <1>1, <1>2 DEF IsShown
  <2> QED
    BY <1>2, <2>1 DEF ShowsEdge, Leads, Page, Printed, Below
<1> DEFINE Off == {k \in DOMAIN libs : libs[k].path \notin p.seen}
<1>3. ASSUME Off # {} PROVE FALSE
  <2>1. Off \in SUBSET Nat /\ \A k \in DOMAIN libs : libs[k].path \in Files /\ k \in Nat
    <3>1. libs \in Seq(Lib)
      BY DEF TypeOK
    <3>2. \A k \in DOMAIN libs : libs[k] \in Lib /\ k \in Nat
      BY <3>1
    <3> QED
      BY <3>2 DEF Lib
  <2>2. Min(Off) \in Off /\ \A k \in Off : Min(Off) <= k
    BY <1>3, <2>1, MinExists
  <2>3. PICK m \in Off : \A k \in Off : m <= k
    BY <2>2
  <2>4. PICK e \in Range(edges) :
          /\ e.to = libs[m].path
          /\ e.from = Binary \/ \E j \in 1 .. m - 1 : e.from = libs[j].path
    BY <2>3 DEF EveryLibWasNamed
  <2>5. e.from \in p.seen
    <3>1. CASE e.from = Binary
      BY <3>1 DEF Page
    <3>2. ASSUME NEW j \in 1 .. m - 1, e.from = libs[j].path PROVE e.from \in p.seen
      <4>1. j \in DOMAIN libs /\ ~(m <= j)
        BY <2>1, <2>3 DEF TypeOK
      <4> QED
        BY <2>3, <3>2, <4>1
    <3> QED
      BY <2>4, <3>1, <3>2
  <2>6. e.to # NoFile
    BY <2>1, <2>3, <2>4, ResolverAssumption
  <2> QED
    BY <1>2, <2>3, <2>4, <2>5, <2>6
<1>4. visited \subseteq p.seen
  BY <1>3 DEF EachFileOnce, Page
<1>5. p.seen = visited
  BY <1>4 DEF Page, Pages
<1> QED
  BY <1>1, <1>5 DEF EdgesAreInside

\* What `graph` shows of a finished walk is the whole of it: no edge leads out of the graph, each
\* collected file is expanded once, each edge is shown once, under an object that was expanded
\* above it, and what makes `graph` fail is shown as missing, the loader apart.
THEOREM GraphShowsAll == Spec => []GraphIsWhole
<1>1. TypeOK /\ EachFileOnce /\ EdgesAreInside /\ EveryLibWasNamed /\ MissingIsSaid => GraphIsWhole
  <2> SUFFICES ASSUME TypeOK, EachFileOnce, EdgesAreInside, EveryLibWasNamed, MissingIsSaid,
                      outcome = "resolved"
               PROVE  GraphIsWhole
    BY DEF GraphIsWhole
  <2> DEFINE text == ToText
             at(kind) == {k \in DOMAIN text : text[k].kind = kind}
             below == DOMAIN text \ {1}
             lost == {d \in Range(edges) : d.to = NoFile}
             found == {d \in Range(edges) : d.to # NoFile}
  <2>1. PICK n \in Nat : Page(RenderChildren, n)
    BY TreeIsPage
  <2>2. /\ RenderChildren.seen = visited
        /\ \A e \in Range(edges) : IsShown(e, text, Below(text))
    BY <2>1, TreeIsPage, TreeReachesAll DEF ToText
  <2>3. Printed(text, visited)
    BY <2>1, <2>2 DEF Page, ToText
  <2> HIDE DEF text
  <2>4. below = Below(text) /\ 1 \in DOMAIN text /\ text[1].kind = "object"
    BY <2>3 DEF Below, Printed, Shown
  <2>a. ASSUME NEW f \in DOMAIN DepNodes PROVE Range(DepNodes[f].needs) \subseteq DOMAIN DepNodes
    <3>1. DOMAIN DepNodes = visited /\ DepNodes[f].needs = ByParent(f, TRUE)
      BY <2>a, NodesAreVisited
    <3>2. ASSUME NEW x \in Range(ByParent(f, TRUE)) PROVE x \in visited
      <4>1. ListsAnswers(ByParent(f, TRUE), Range(edges), f, TRUE)
        BY ByParentLists
      <4>2. PICK e \in Range(edges) : OfParent(e, f, TRUE) /\ x = Leads(e)
        BY <4>1 DEF ListsAnswers
      <4> QED
        BY <4>2 DEF OfParent, Leads, EdgesAreInside
    <3> QED
      BY <3>1, <3>2
  <2>b. {text[k].of : k \in at("object")} = visited
    <3>1. ASSUME NEW k \in at("object") PROVE text[k].of \in visited
      BY <2>3 DEF Printed
    <3>2. ASSUME NEW f \in visited PROVE \E k \in at("object") : text[k].of = f
      BY <2>3 DEF Printed, Expands
    <3> QED
      BY <3>1, <3>2
  <2>c. \A j, k \in at("object") : text[j].of = text[k].of => j = k
    BY <2>3 DEF Printed
  <2>s. ASSUME NEW k \in below
        PROVE  \E e \in Range(edges) : /\ text[k].under = e.from /\ text[k].of = Leads(e)
                                       /\ text[k].kind = "missing" <=> e.to = NoFile
    BY <2>3, <2>4 DEF Printed, ShowsAnEdge, ShowsEdge
  <2>t. ASSUME NEW e \in Range(edges)
        PROVE  \E k \in below : /\ text[k].under = e.from /\ text[k].of = Leads(e)
                                /\ text[k].kind = "missing" <=> e.to = NoFile
    BY <2>2, <2>4 DEF IsShown, ShowsEdge
  <2>m. at("missing") \subseteq below
    BY <2>4
  <2>d. {<<text[k].under, text[k].of>> : k \in below \ at("missing")} = {<<e.from, e.to>> : e \in found}
    <3>1. ASSUME NEW k \in below \ at("missing")
          PROVE  \E e \in found : <<text[k].under, text[k].of>> = <<e.from, e.to>>
      BY <2>s DEF Leads
    <3>2. ASSUME NEW e \in Range(edges), e.to # NoFile
          PROVE  \E k \in below \ at("missing") : <<text[k].under, text[k].of>> = <<e.from, e.to>>
      <4>1. PICK k \in below : /\ text[k].under = e.from /\ text[k].of = Leads(e)
                               /\ text[k].kind = "missing" <=> e.to = NoFile
        BY <2>t
      <4>2. text[k].kind # "missing" /\ text[k].of = e.to
        BY <3>2, <4>1 DEF Leads
      <4>3. k \in below \ at("missing")
        BY <4>2
      <4> QED
        BY <4>1, <4>2, <4>3
    <3> QED
      BY <3>1, <3>2
  <2>e. {<<text[k].under, text[k].of>> : k \in at("missing")} = {<<e.from, e.soname>> : e \in lost}
    <3>1. ASSUME NEW k \in at("missing")
          PROVE  \E e \in lost : <<text[k].under, text[k].of>> = <<e.from, e.soname>>
      BY <2>s, <2>m DEF Leads
    <3>2. ASSUME NEW e \in lost
          PROVE  \E k \in at("missing") : <<text[k].under, text[k].of>> = <<e.from, e.soname>>
      BY <2>t DEF Leads
    <3> QED
      BY <3>1, <3>2
  <2>f. ASSUME NEW j \in below, NEW k \in below,
               text[j].under = text[k].under, text[j].of = text[k].of,
               j \in at("missing") <=> k \in at("missing")
        PROVE  j = k
    BY <2>3, <2>4, <2>f DEF Printed, SameEdge
  <2>g. \A k \in below : \E j \in at("object") : j < k /\ text[j].of = text[k].under
    BY <2>3, <2>4 DEF Printed, Expands
  <2>h. \A x : x \in {text[k].of : k \in at("missing")} <=> \E e \in lost : x = e.soname
    <3>1. ASSUME NEW k \in at("missing") PROVE \E e \in lost : text[k].of = e.soname
      BY <2>s, <2>m DEF Leads
    <3>2. ASSUME NEW e \in lost PROVE \E k \in at("missing") : text[k].of = e.soname
      BY <2>t DEF Leads
    <3> QED
      BY <3>1, <3>2
  <2>i. /\ missing \in Seq(Names \cup {Interp})
        /\ Range(missing) \subseteq Names \cup {Interp}
        /\ \A e \in lost : e.soname \in Names /\ e.to = NoFile
        /\ missing = <<>> <=> Range(missing) = {}
    <3>1. missing \in Seq(Names \cup {Interp}) /\ edges \in Seq(Edge)
      BY DEF TypeOK
    <3>2. Range(missing) \subseteq Names \cup {Interp} /\ Range(edges) \subseteq Edge
      BY <3>1 DEF Range
    <3>3. missing = <<>> <=> Range(missing) = {}
      <4>1. missing # <<>> => 1 \in DOMAIN missing
        BY <3>1
      <4>2. Range(<<>>) = {}
        BY DEF Range
      <4> QED
        BY <4>1, <4>2 DEF Range
    <3> QED
      BY <3>1, <3>2, <3>3 DEF Edge
  <2>j. \A x \in Names \cup {Interp} :
          x \in Range(missing) <=> (x = Interp /\ sys.interp = NoFile) \/ \E e \in lost : x = e.soname
    BY DEF MissingIsSaid
  <2>k. {text[k].of : k \in at("missing")} \ {Interp} = Range(missing) \ {Interp}
    BY <2>h, <2>i, <2>j
  <2>l. CheckComplete <=> at("missing") = {} /\ sys.interp # NoFile
    <3>1. at("missing") = {} <=> lost = {}
      BY <2>h
    <3>2. lost = {} /\ sys.interp # NoFile => Range(missing) = {}
      BY <2>i, <2>j
    <3>3. Range(missing) = {} => lost = {} /\ sys.interp # NoFile
      BY <2>i, <2>j
    <3> QED
      BY <2>i, <3>1, <3>2, <3>3 DEF CheckComplete
  <2> QED
    BY <2>a, <2>b, <2>c, <2>d, <2>e, <2>f, <2>g, <2>k, <2>l DEF GraphIsWhole, text
<1> QED
  BY <1>1, TypeCorrect, FilesCollectedOnce, LibsAreNamed, EdgesInside, MissingSaid, PTL

--------------------------------------------------------------------------------
\* The image that is staged from a resolution.

\* Once a pack resolves, the walk inside it is the walk of Resolver: no other step of the pack
\* touches its state.
THEOREM PackRunsTheWalk == PackSpec => WalkSafe
<1>1. PackInit => Init
  BY DEF PackInit
<1>2. [PackNext]_allVars => [Next]_vars
  BY DEF PackNext, HostStep, HostEnd, Resolve, RefusePack, StageProgram, StageLibrary, RefuseCopy,
         BuildCache, ImageStep, ImageEnd, allVars, vars
<1> QED
  BY <1>1, <1>2, PTL DEF PackSpec, WalkSafe

Trees == [Dirs -> [Names -> Files \cup {NoFile}]]

\* A path of the image that shows what the host shows under it.
Shows(tree, d, n, f) == f \in Files /\ tree[d][n] = f /\ sys.at[d][n] = f

AtHome(tree, f) == Shows(tree, sys.home[f], Base[f], f)

\* Staging a file puts it where the host has it, and changes no path that shows what the host
\* shows: two files of the host have no path in common, and a soname link takes a free name only.
LEMMA CopyKeeps ==
  ASSUME sys \in Sysroots, NEW tree \in Trees, NEW f \in Files, NEW d \in Dirs, NEW n \in Names,
         sys.at[d][n] = f
  PROVE  /\ Copied(tree, f, d, n) \in Trees
         /\ Shows(Copied(tree, f, d, n), d, n, f)
         /\ \A e \in Dirs, m \in Names, g \in Files :
              Shows(tree, e, m, g) => Shows(Copied(tree, f, d, n), e, m, g)
<1> DEFINE row == [tree[d] EXCEPT ![n] = f]
           new == [tree EXCEPT ![d] = row]
<1>1. Copied(tree, f, d, n) = new
  BY DEF Copied
<1>2. tree[d] \in [Names -> Files \cup {NoFile}]
  BY DEF Trees
<1>3. row \in [Names -> Files \cup {NoFile}] /\ row[n] = f
  BY <1>2
<1>4. new \in Trees /\ new[d] = row
  BY <1>3 DEF Trees
<1>5. ASSUME NEW e \in Dirs, NEW m \in Names, NEW g \in Files, Shows(tree, e, m, g)
      PROVE  Shows(new, e, m, g)
  <2>1. CASE e = d /\ m = n
    <3>1. g = f
      BY <1>5, <2>1 DEF Shows
    <3> QED
      BY <1>3, <1>4, <1>5, <2>1, <3>1 DEF Shows
  <2>2. CASE e = d /\ m # n
    <3>1. row[m] = tree[d][m]
      BY <1>2, <2>2
    <3> QED
      BY <1>4, <1>5, <2>2, <3>1 DEF Shows
  <2>3. CASE e # d
    <3>1. new[e] = tree[e]
      BY <2>3 DEF Trees
    <3> QED
      BY <1>5, <3>1 DEF Shows
  <2> QED
    BY <2>1, <2>2, <2>3
<1>6. Shows(new, d, n, f)
  BY <1>3, <1>4 DEF Shows
<1> HIDE DEF new
<1> QED
  BY <1>1, <1>4, <1>5, <1>6

\* A soname link takes a free name only, so it hides nothing.
LEMMA LinkKeeps ==
  ASSUME sys \in Sysroots, NEW tree \in Trees, NEW lib \in Lib
  PROVE  /\ LinkSoname(tree, lib) \in Trees
         /\ \A e \in Dirs, m \in Names, g \in Files :
              Shows(tree, e, m, g) => Shows(LinkSoname(tree, lib), e, m, g)
<1> DEFINE d == sys.home[lib.path]
           row == [tree[d] EXCEPT ![lib.soname] = lib.path]
           new == [tree EXCEPT ![d] = row]
<1>1. lib.path \in Files /\ lib.soname \in Names /\ d \in Dirs
  BY ResolverAssumption DEF Lib, Sysroot
<1>2. tree[d] \in [Names -> Files \cup {NoFile}]
  BY <1>1 DEF Trees
<1>3. row \in [Names -> Files \cup {NoFile}]
  BY <1>1, <1>2
<1>4. new \in Trees /\ new[d] = row
  BY <1>1, <1>3 DEF Trees
<1>5. ASSUME tree[d][lib.soname] = NoFile,
             NEW e \in Dirs, NEW m \in Names, NEW g \in Files, Shows(tree, e, m, g)
      PROVE  Shows(new, e, m, g)
  <2>0. g # NoFile
    BY <1>5, ResolverAssumption DEF Shows
  <2>1. CASE e = d
    <3>1. m # lib.soname
      BY <1>5, <2>0, <2>1 DEF Shows
    <3>2. row[m] = tree[d][m]
      BY <1>2, <3>1
    <3> QED
      BY <1>4, <1>5, <2>1, <3>2 DEF Shows
  <2>2. CASE e # d
    <3>1. new[e] = tree[e]
      BY <2>2 DEF Trees
    <3> QED
      BY <1>5, <3>1 DEF Shows
  <2> QED
    BY <2>1, <2>2
<1>6. \/ LinkSoname(tree, lib) = tree
      \/ tree[d][lib.soname] = NoFile /\ LinkSoname(tree, lib) = new
  BY DEF LinkSoname, Copied
<1> HIDE DEF new
<1> QED
  BY <1>4, <1>5, <1>6

\* What holds at every step of a pack: nothing is staged before the walk resolved without a
\* miss, and then the program, its loader and the libraries staged so far are each at their own
\* path, under no other file.
PackInv ==
  /\ sys \in Sysroots
  /\ interp # NoFile => interp \in Files /\ interp = sys.interp
  /\ phase \in {"host", "resolve"} => staged = 0 /\ image = NoTree
  /\ packed => phase \in {"run", "end"} /\ staged = Len(libs)
  /\ phase = "stage" => image \in Trees
  /\ phase = "stage" \/ packed =>
       /\ outcome = "resolved" /\ missing = <<>>
       /\ AtHome(image, Binary)
       /\ \A k \in DOMAIN libs : k <= staged => AtHome(image, libs[k].path)
       /\ interp # NoFile => Shows(image, InterpDir, InterpName, interp)
       /\ staged \in Nat

\* Where the host has a file, and where it has the loader.
LEMMA HostPaths ==
  ASSUME sys \in Sysroots
  PROVE  /\ \A f \in Files : /\ sys.home[f] \in Dirs /\ Base[f] \in Names
                             /\ sys.at[sys.home[f]][Base[f]] = f
         /\ sys.interp \in Files => sys.at[InterpDir][InterpName] = sys.interp
         /\ InterpDir \in Dirs /\ InterpName \in Names
         /\ NoTree \in Trees
<1>1. NoTree \in Trees
  BY DEF NoTree, Trees
<1> QED
  BY <1>1, PackedImageAssumption, ResolverAssumption DEF Sysroot

\* The pack's invariant holds in every state.
THEOREM PackStages == PackSpec => []PackInv
<1>1. PackInit => PackInv
  <2> SUFFICES ASSUME PackInit PROVE PackInv
    OBVIOUS
  <2>1. /\ sys \in Sysroots /\ interp = NoFile /\ phase = "host"
        /\ ~packed /\ staged = 0 /\ image = NoTree
    BY DEF PackInit, Init
  <2> QED
    BY <2>1 DEF PackInv
<1>2. TypeOK /\ PackInv /\ [PackNext]_allVars => PackInv'
  <2> SUFFICES ASSUME TypeOK, PackInv, [PackNext]_allVars PROVE PackInv'
    OBVIOUS
  <2>1. CASE HostStep \/ HostEnd \/ RefusePack
    BY <2>1 DEF HostStep, HostEnd, RefusePack, PackInv, packVars, vars
  <2>2. CASE Resolve
    <3>1. /\ phase = "resolve" /\ Next
          /\ UNCHANGED <<phase, packed, image, staged>>
      BY <2>2 DEF Resolve, packVars
    <3>2. sys' = sys
      BY <3>1, StepKinds
    <3>3. \/ interp' = interp
          \/ interp' = IF sys.interp \in Files THEN sys.interp ELSE NoFile
      BY <3>1 DEF Next, RefuseBinary, StartWalk, OpenItem, RefusePlatform, NameMissing, NameSeen,
                  RefuseFound, AddLeaf, AddLibrary, CloseItem, Finish, Bail
    <3> QED
      BY <3>1, <3>2, <3>3 DEF PackInv
  <2>3. CASE StageProgram
    <3> DEFINE placed == Copied(image, Binary, sys.home[Binary], Base[Binary])
    <3>1. /\ phase = "resolve" /\ outcome = "resolved" /\ missing = <<>>
          /\ image' = IF interp = NoFile THEN placed
                      ELSE Copied(placed, interp, InterpDir, InterpName)
          /\ phase' = "stage"
          /\ UNCHANGED <<vars, packed, staged>>
      BY <2>3 DEF StageProgram
    <3>2. Binary \in Files /\ image \in Trees /\ sys \in Sysroots /\ staged = 0
      BY <3>1, HostPaths, ResolverAssumption DEF PackInv
    <3>3. placed \in Trees /\ AtHome(placed, Binary)
      BY <3>2, HostPaths, CopyKeeps DEF AtHome
    <3> HIDE DEF placed
    <3>4. CASE interp = NoFile
      <4>1. image' \in Trees /\ AtHome(image', Binary)
        BY <3>1, <3>3, <3>4
      <4> QED
        BY <3>1, <3>2, <3>4, <4>1 DEF PackInv, AtHome, Shows, TypeOK, vars
    <3>5. CASE interp # NoFile
      <4>1. interp \in Files /\ sys.at[InterpDir][InterpName] = interp
        BY <3>5, HostPaths DEF PackInv
      <4>2. /\ image' \in Trees
            /\ Shows(image', InterpDir, InterpName, interp)
            /\ Shows(placed, sys.home[Binary], Base[Binary], Binary)
                 => Shows(image', sys.home[Binary], Base[Binary], Binary)
        BY <3>1, <3>2, <3>3, <3>5, <4>1, HostPaths, CopyKeeps
      <4>3. AtHome(image', Binary)
        BY <3>3, <4>2 DEF AtHome
      <4> QED
        BY <3>1, <3>2, <4>2, <4>3 DEF PackInv, AtHome, Shows, TypeOK, vars
    <3> QED
      BY <3>4, <3>5
  <2>4. CASE StageLibrary
    <3> DEFINE lib == libs[staged + 1]
               copied == Copied(image, lib.path, sys.home[lib.path], Base[lib.path])
    <3>1. /\ phase = "stage" /\ LibsLeft
          /\ image' = LinkSoname(copied, lib)
          /\ staged' = staged + 1
          /\ UNCHANGED <<vars, phase, packed>>
      BY <2>4 DEF StageLibrary
    <3>2. /\ libs \in Seq(Lib) /\ image \in Trees /\ sys \in Sysroots /\ staged \in Nat
          /\ outcome = "resolved" /\ missing = <<>>
      BY <3>1 DEF PackInv, TypeOK
    <3>3. lib \in Lib /\ staged + 1 \in DOMAIN libs
      BY <3>1, <3>2 DEF LibsLeft
    <3> HIDE DEF lib
    <3>4. lib.path \in Files
      BY <3>3 DEF Lib
    <3>5. /\ copied \in Trees /\ AtHome(copied, lib.path)
          /\ \A e \in Dirs, m \in Names, g \in Files : Shows(image, e, m, g) => Shows(copied, e, m, g)
      BY <3>2, <3>4, HostPaths, CopyKeeps DEF AtHome
    <3> HIDE DEF copied
    <3>6. /\ image' \in Trees
          /\ \A e \in Dirs, m \in Names, g \in Files : Shows(copied, e, m, g) => Shows(image', e, m, g)
      BY <3>1, <3>2, <3>3, <3>5, LinkKeeps
    <3>7. \A f \in Files : AtHome(copied, f) => AtHome(image', f)
      BY <3>2, <3>6, HostPaths DEF AtHome
    <3>8. \A f \in Files : AtHome(image, f) => AtHome(image', f)
      BY <3>2, <3>5, <3>7, HostPaths DEF AtHome
    <3>9. AtHome(image', Binary)
      BY <3>1, <3>8, ResolverAssumption DEF PackInv
    <3>10. interp # NoFile => Shows(image', InterpDir, InterpName, interp)
      BY <3>1, <3>2, <3>5, <3>6, HostPaths DEF PackInv
    <3>11. ASSUME NEW k \in DOMAIN libs, k <= staged + 1
           PROVE  AtHome(image', libs[k].path)
      <4>1. CASE k = staged + 1
        BY <3>4, <3>5, <3>7, <4>1 DEF lib
      <4>2. CASE k # staged + 1
        <5>1. k \in Nat /\ libs[k] \in Lib
          BY <3>2, <3>11
        <5>2. k <= staged /\ libs[k].path \in Files
          BY <3>2, <3>11, <4>2, <5>1 DEF Lib
        <5> QED
          BY <3>1, <3>8, <5>2 DEF PackInv
      <4> QED
        BY <4>1, <4>2
    <3> QED
      BY <3>1, <3>2, <3>6, <3>9, <3>10, <3>11 DEF PackInv, AtHome, Shows, vars
  <2>5. CASE RefuseCopy
    <3>1. phase = "stage" /\ phase' = "end" /\ UNCHANGED <<vars, packed, image, staged>>
      BY <2>5 DEF RefuseCopy
    <3> QED
      BY <3>1 DEF PackInv, vars
  <2>6. CASE BuildCache
    <3>1. /\ phase = "stage" /\ staged = Len(libs) /\ phase' = "run"
          /\ UNCHANGED <<vars, staged>>
          /\ \A d \in Dirs, n \in Names : image[d][n] # NoFile => image'[d][n] = image[d][n]
      BY <2>6 DEF BuildCache
    <3>2. \A d \in Dirs, n \in Names, f \in Files : Shows(image, d, n, f) => Shows(image', d, n, f)
      BY <3>1, ResolverAssumption DEF Shows
    <3>3. \A f \in Files : AtHome(image, f) => AtHome(image', f)
      BY <3>2, HostPaths DEF AtHome, PackInv
    <3>4. \A k \in DOMAIN libs : libs[k].path \in Files
      <4>1. libs \in Seq(Lib)
        BY DEF TypeOK
      <4>2. \A k \in DOMAIN libs : libs[k] \in Lib
        BY <4>1
      <4> QED
        BY <4>2 DEF Lib
    <3>5. /\ AtHome(image', Binary)
          /\ \A k \in DOMAIN libs : k <= staged => AtHome(image', libs[k].path)
          /\ interp # NoFile => Shows(image', InterpDir, InterpName, interp)
      BY <3>1, <3>2, <3>3, <3>4, HostPaths, ResolverAssumption DEF PackInv
    <3> QED
      BY <3>1, <3>5 DEF PackInv, AtHome, Shows, vars
  <2>7. CASE ImageStep \/ ImageEnd \/ UNCHANGED allVars
    BY <2>7 DEF ImageStep, ImageEnd, allVars, PackInv, AtHome, Shows, packVars, vars
  <2> QED
    BY <2>1, <2>2, <2>3, <2>4, <2>5, <2>6, <2>7 DEF PackNext
<1> QED
  BY <1>1, <1>2, PackRunsTheWalk, WalkTypes, PTL DEF PackSpec

\* Every image that is packed is whole, whatever the host tree and whatever was included: what
\* the walk collected is all there, and every name an object in the image needs has an answer
\* in it.
THEOREM PackedWhole == PackSpec => []PackedIsWhole
<1>1. TypeOK /\ WalkInv /\ EachFileOnce /\ MissingIsExact /\ PackInv => PackedIsWhole
  <2> SUFFICES ASSUME TypeOK, WalkInv, EachFileOnce, MissingIsExact, PackInv, packed
               PROVE  PackedIsWhole
    BY DEF PackedIsWhole
  <2>1. outcome = "resolved" /\ missing = <<>> /\ staged = Len(libs)
    BY DEF PackInv
  <2>2. ASSUME NEW f \in visited
        PROVE  AtHome(image, f)
    <3>1. CASE f = Binary
      BY <3>1 DEF PackInv
    <3>2. CASE \E k \in DOMAIN libs : libs[k].path = f
      <4>1. \A k \in DOMAIN libs : k <= staged
        BY <2>1 DEF TypeOK
      <4> QED
        BY <3>2, <4>1 DEF PackInv
    <3> QED
      BY <2>2, <3>1, <3>2 DEF EachFileOnce
  <2>3. interp # NoFile => image[InterpDir][InterpName] = interp
    BY DEF PackInv, Shows
  <2>4. ASSUME NEW f \in visited, IsElf(f), NEW k \in DOMAIN Needed(f)
        PROVE  \E e \in Range(edges) : e.from = f /\ e.soname = Needed(f)[k] /\ e.to \in visited
    <3>1. AnswersName(f, k)
      BY <2>1, <2>4 DEF WalkInv
    <3>2. PICK e \in Range(edges) :
            e.from = f /\ e.soname = Needed(f)[k] /\ e.to \in visited \cup {NoFile}
      BY <3>1 DEF AnswersName
    <3>3. Needed(f)[k] \in Names \ {Interp}
      BY <2>4, NeededType, PackedImageAssumption DEF TypeOK
    <3>4. e.to # NoFile
      <4>1. Range(missing) = {}
        BY <2>1 DEF Range
      <4> QED
        BY <2>1, <3>2, <3>3, <4>1 DEF MissingIsExact
    <3> QED
      BY <3>2, <3>4
  <2> QED
    BY <2>2, <2>3, <2>4 DEF PackedIsWhole, AtHome, Shows
<1> QED
  BY <1>1, PackStages, PackRunsTheWalk, WalkTypes, WalkBooks, WalkOnce, WalkMissing, PTL

--------------------------------------------------------------------------------
\* The loader, in any tree and with any cache.

\* What ld.so asks for when it reads an object: DT_NEEDED, without the --include entries.
Wants(f) == Range(sys.elf[f].needed)

\* A tree and a cache that may answer a name with a file, from some directory.
Gives(tree, listed, n, f) ==
  \/ \E d \in Dirs : tree[d][n] = f
  \/ \E d \in Dirs : <<d, f>> \in listed[n]

Listings == [Names -> SUBSET (Dirs \X Files)]
Objects  == [file : Files, dir : Dirs, names : SUBSET Names, parent : Nat]

\* A link map: the program first, and each other object after the one that asked for it.
IsLinkMap(l) ==
  /\ l \in Seq(Objects) /\ l # <<>>
  /\ l[1].file = Binary
  /\ \A k \in DOMAIN l : k > 1 => l[k].parent \in 1 .. k - 1

\* The directories that one object adds to the RPATH of those below it.
OwnDirs(l, j) ==
  IF HasRunpath(l[j].file) THEN <<>> ELSE Expand(sys.elf[l[j].file].rpath, l[j].dir)
Chains(c, l, m) ==
  [j \in 1 .. m |-> OwnDirs(l, j) \o (IF j = 1 THEN <<>> ELSE c[l[j].parent])]

\* Expanding the entries of a search path from any directory gives directories.
LEMMA ExpandType ==
  ASSUME NEW entries \in Seq(Entries), NEW d \in Dirs
  PROVE  Expand(entries, d) \in Seq(Dirs)
<1>1. \A e \in Entries : EntryDir(e, d) \in Dirs
  BY ResolverAssumption DEF EntryDir, Entries
<1> QED
  BY <1>1 DEF Expand

\* The recursion up the chain of loaders has a solution.
LEMMA ChainsExist ==
  ASSUME NEW l, IsLinkMap(l), NEW N \in Nat, N = Len(l)
  PROVE  \E c : c = Chains(c, l, N)
<1> DEFINE Solved == {m \in 0 .. N : \E c : c = Chains(c, l, m)}
<1>1. 0 \in Solved
  <2> DEFINE h == [j \in 1 .. 0 |-> <<>>]
  <2>1. h = Chains(h, l, 0)
    BY DEF Chains
  <2> QED
    BY <2>1
<1>2. ASSUME NEW m \in 1 .. N, m - 1 \in Solved PROVE m \in Solved
  <2>1. PICK h : h = Chains(h, l, m - 1)
    BY <1>2
  <2> DEFINE top == OwnDirs(l, m) \o (IF m = 1 THEN <<>> ELSE h[l[m].parent])
             g == [j \in 1 .. m |-> IF j = m THEN top ELSE h[j]]
  <2>0. \A j \in 1 .. m : j # 1 => l[j].parent \in 1 .. j - 1
    <3>1. DOMAIN l = 1 .. N
      BY DEF IsLinkMap
    <3> QED
      BY <3>1 DEF IsLinkMap
  <2>2. ASSUME NEW j \in 1 .. m
        PROVE  g[j] = OwnDirs(l, j) \o (IF j = 1 THEN <<>> ELSE g[l[j].parent])
    <3>0. j # 1 => l[j].parent \in 1 .. m /\ l[j].parent # m
      BY <2>0
    <3>1. CASE j = m
      BY <3>0, <3>1
    <3>2. CASE j # m
      <4>1. j \in 1 .. m - 1
        BY <3>2
      <4>2. h[j] = OwnDirs(l, j) \o (IF j = 1 THEN <<>> ELSE h[l[j].parent])
        <5>1. Chains(h, l, m - 1)[j] = OwnDirs(l, j) \o (IF j = 1 THEN <<>> ELSE h[l[j].parent])
          BY <4>1 DEF Chains
        <5> QED
          BY <2>1, <5>1
      <4> QED
        BY <3>0, <3>2, <4>2
    <3> QED
      BY <3>1, <3>2
  <2>3. g = Chains(g, l, m)
    <3>1. g = [j \in 1 .. m |-> g[j]]
      OBVIOUS
    <3> HIDE DEF g
    <3> QED
      BY <2>2, <3>1 DEF Chains
  <2> QED
    BY <2>3
<1>3. N \in 0 .. N
  OBVIOUS
<1> HIDE DEF Solved
<1>4. N \in Solved
  BY <1>1, <1>2, <1>3, UpTo
<1> QED
  BY <1>4 DEF Solved

\* ld.so searches directories of the tree only, for an object and through its chain of loaders.
LEMMA LoaderDirsType ==
  ASSUME sys \in Sysroot, IsLinkMap(loaded), NEW k \in DOMAIN loaded
  PROVE  LoaderDirs(k) \in Seq(Dirs)
<1> DEFINE N == Len(loaded)
           chain == CHOOSE c : c = Chains(c, loaded, N)
<1>1. N \in Nat /\ DOMAIN loaded = 1 .. N
  BY DEF IsLinkMap
<1>2. \A j \in 1 .. N : loaded[j] \in Objects
  BY <1>1 DEF IsLinkMap
<1>3. \A j \in 1 .. N : loaded[j].file \in Files /\ loaded[j].dir \in Dirs
  BY <1>2 DEF Objects
<1>4. \A j \in 1 .. N : OwnDirs(loaded, j) \in Seq(Dirs)
  BY <1>3, ExpandType, ElfFacts DEF OwnDirs
<1>5. \A j \in 1 .. N : j # 1 => loaded[j].parent \in 1 .. j - 1
  BY <1>1 DEF IsLinkMap
<1>6. RpathChain(k) = chain[k]
  BY <1>1 DEF RpathChain, Chains, OwnDirs
<1>7. chain = Chains(chain, loaded, N)
  BY <1>1, ChainsExist
<1> HIDE DEF chain, N
<1>8. \A j \in 1 .. N : chain[j] = OwnDirs(loaded, j) \o (IF j = 1 THEN <<>> ELSE chain[loaded[j].parent])
  <2>1. \A j \in 1 .. N : Chains(chain, loaded, N)[j]
                            = OwnDirs(loaded, j) \o (IF j = 1 THEN <<>> ELSE chain[loaded[j].parent])
    BY DEF Chains
  <2> QED
    BY <1>7, <2>1
<1> DEFINE Typed == {m \in 0 .. N : \A j \in 1 .. m : chain[j] \in Seq(Dirs)}
<1>9. 0 \in Typed
  BY <1>1
<1>10. ASSUME NEW m \in 1 .. N, m - 1 \in Typed PROVE m \in Typed
  <2>1. \A j \in 1 .. m - 1 : chain[j] \in Seq(Dirs)
    BY <1>10
  <2>2. m # 1 => loaded[m].parent \in 1 .. m - 1
    BY <1>5
  <2> DEFINE above == IF m = 1 THEN <<>> ELSE chain[loaded[m].parent]
  <2>3. above \in Seq(Dirs)
    BY <2>1, <2>2
  <2>4. chain[m] = OwnDirs(loaded, m) \o above
    BY <1>8
  <2> HIDE DEF above
  <2>5. chain[m] \in Seq(Dirs)
    BY <1>4, <2>3, <2>4
  <2>6. \A j \in 1 .. m : j = m \/ j \in 1 .. m - 1
    BY <1>1
  <2> QED
    BY <1>1, <2>1, <2>5, <2>6
<1> HIDE DEF Typed
<1>11. N \in 0 .. N
  BY <1>1
<1>12. N \in Typed
  BY <1>1, <1>9, <1>10, <1>11, UpTo
<1>13. RpathChain(k) \in Seq(Dirs)
  BY <1>1, <1>6, <1>12 DEF Typed
<1>14. Expand(sys.elf[loaded[k].file].runpath, loaded[k].dir) \in Seq(Dirs)
  BY <1>1, <1>3, ExpandType, ElfFacts
<1> QED
  BY <1>13, <1>14 DEF LoaderDirs

\* A hit of a search is what a directory shows.
LEMMA FirstShowingShows ==
  ASSUME NEW tree \in Trees, NEW dirs \in Seq(Dirs), NEW n \in Names,
         NEW hit \in FirstShowing(tree, dirs, n)
  PROVE  /\ hit[1] \in Dirs /\ hit[2] \in Files
         /\ tree[hit[1]][n] = hit[2]
<1> DEFINE S == {k \in DOMAIN dirs : tree[dirs[k]][n] # NoFile}
<1>1. S # {} /\ hit = <<dirs[Min(S)], tree[dirs[Min(S)]][n]>>
  BY DEF FirstShowing
<1>2. S \in SUBSET Nat
  OBVIOUS
<1>3. Min(S) \in S
  BY <1>1, <1>2, MinExists
<1>4. Min(S) \in DOMAIN dirs /\ tree[dirs[Min(S)]][n] # NoFile
  BY <1>3
<1> HIDE DEF S
<1>5. dirs[Min(S)] \in Dirs
  BY <1>4
<1>6. tree[dirs[Min(S)]][n] \in Files
  BY <1>4, <1>5 DEF Trees
<1> QED
  BY <1>1, <1>5, <1>6

\* Whatever ld.so takes for a name, the tree shows under it or the cache lists under it.
LEMMA HitsGive ==
  ASSUME sys \in Sysroot, IsLinkMap(loaded), NEW k \in DOMAIN loaded, NEW n \in Names,
         NEW tree \in Trees, NEW listed \in Listings, NEW hit \in Hits(tree, listed, k, n)
  PROVE  /\ hit[1] \in Dirs /\ hit[2] \in Files
         /\ Gives(tree, listed, n, hit[2])
<1>1. LoaderDirs(k) \in Seq(Dirs) /\ DefaultDirs \in Seq(Dirs)
  BY LoaderDirsType, ResolverAssumption
<1>2. \/ hit \in FirstShowing(tree, LoaderDirs(k), n)
      \/ hit \in listed[n]
      \/ hit \in FirstShowing(tree, DefaultDirs, n)
  BY DEF Hits
<1>3. CASE hit \in listed[n]
  <2>1. hit \in Dirs \X Files
    BY <1>3 DEF Listings
  <2>2. hit = <<hit[1], hit[2]>>
    BY <2>1
  <2> QED
    BY <1>3, <2>1, <2>2 DEF Gives
<1>4. CASE hit \notin listed[n]
  BY <1>1, <1>2, <1>4, FirstShowingShows DEF Gives
<1> QED
  BY <1>3, <1>4

\* An object answers to the names that it was found under, and to its DT_SONAME.
AnswersTo(tree, listed, n, f) == Gives(tree, listed, n, f) \/ sys.elf[f].soname = n
HasName(l, n) == \E k \in DOMAIN l : n \in l[k].names

\* An object of the link map: it maps, an object before it asked for a name that gives it, and
\* each of its names is one it answers to.
IsLoaded(tree, listed, l, k) ==
  /\ Mappable(l[k].file)
  /\ k > 1 => \E n \in Wants(l[l[k].parent].file) : Gives(tree, listed, n, l[k].file)
  /\ \A n \in l[k].names : AnswersTo(tree, listed, n, l[k].file)

\* What the object at j asks for before its i-th name has an object in the map.
IsAnswered(l, j, i) ==
  \A a \in DOMAIN sys.elf[l[j].file].needed : a < i => HasName(l, sys.elf[l[j].file].needed[a])

\* ld.so at work: all of the map is loaded, all that was asked for so far is in it.
LoaderInv(tree, listed, l, r, i) ==
  /\ IsLinkMap(l)
  /\ r \in Nat \ {0} /\ r <= Len(l) + 1 /\ i \in Nat \ {0}
  /\ \A k \in DOMAIN l : IsLoaded(tree, listed, l, k)
  /\ \A j \in DOMAIN l : j < r =>
       \A a \in DOMAIN sys.elf[l[j].file].needed : HasName(l, sys.elf[l[j].file].needed[a])
  /\ r \in DOMAIN l => IsAnswered(l, r, i)

\* At the start only the program is loaded.
LEMMA LoaderStarts ==
  ASSUME sys \in Sysroot, NEW tree, NEW listed
  PROVE  LoaderInv(tree, listed, <<MainProgram>>, 1, 1)
<1> DEFINE l == <<MainProgram>>
<1>1. MainProgram \in Objects
  BY ElfFacts, ResolverAssumption DEF MainProgram, Objects
<1>2. l \in Seq(Objects) /\ l # <<>> /\ Len(l) = 1 /\ DOMAIN l = {1} /\ l[1] = MainProgram
  BY <1>1
<1> HIDE DEF l
<1>3. IsLinkMap(l)
  BY <1>2 DEF IsLinkMap, MainProgram
<1>4. IsLoaded(tree, listed, l, 1)
  BY <1>2 DEF IsLoaded, Mappable, MainProgram
<1>5. IsAnswered(l, 1, 1)
  <2>1. sys.elf[l[1].file].needed \in Seq(Names)
    BY <1>2, ElfFacts, ResolverAssumption DEF MainProgram
  <2>2. \A a \in DOMAIN sys.elf[l[1].file].needed : ~(a < 1)
    BY <2>1
  <2> QED
    BY <2>2 DEF IsAnswered
<1>6. LoaderInv(tree, listed, l, 1, 1)
  BY <1>2, <1>3, <1>4, <1>5 DEF LoaderInv
<1> QED
  BY <1>6 DEF l

\* A map that grows at its end, or whose objects get further names, still has what it had.
Extends(m, l) ==
  /\ Len(l) <= Len(m)
  /\ \A k \in DOMAIN l : m[k].file = l[k].file /\ m[k].parent = l[k].parent
                         /\ l[k].names \subseteq m[k].names

\* So a name that was in it stays.
LEMMA ExtendsKeepsNames ==
  ASSUME NEW l \in Seq(Objects), NEW m \in Seq(Objects), Extends(m, l), NEW n, HasName(l, n)
  PROVE  HasName(m, n)
<1>1. DOMAIN l \subseteq DOMAIN m
  BY DEF Extends
<1> QED
  BY <1>1 DEF HasName, Extends

\* Taking a hit loads it, or gives the loaded object one more name.
LEMMA SearchLoads ==
  ASSUME sys \in Sysroot, NEW tree \in Trees, NEW listed \in Listings,
         LoaderInv(tree, listed, loaded, reader, need), LoadBySearch(tree, listed)
  PROVE  /\ IsLinkMap(loaded') /\ Extends(loaded', loaded)
         /\ HasName(loaded', NeededName)
         /\ \A k \in DOMAIN loaded' : IsLoaded(tree, listed, loaded', k)
<1> DEFINE n == NeededName
<1>1. /\ loaded \in Seq(Objects) /\ loaded # <<>> /\ Len(loaded) \in Nat
      /\ DOMAIN loaded = 1 .. Len(loaded)
      /\ reader \in DOMAIN loaded /\ reader \in Nat
  BY DEF LoaderInv, IsLinkMap, LoadBySearch, ReadsNeeded
<1>2. ASSUME NEW k \in DOMAIN loaded
      PROVE  /\ loaded[k].file \in Files /\ loaded[k].names \subseteq Names
             /\ loaded[k] \in Objects
  <2>1. loaded[k] \in Objects
    BY <1>1
  <2> QED
    BY <2>1 DEF Objects
<1>3. n \in Wants(loaded[reader].file) /\ n \in Names
  <2>1. sys.elf[loaded[reader].file].needed \in Seq(Names)
    BY <1>1, <1>2, ElfFacts
  <2>2. need \in DOMAIN sys.elf[loaded[reader].file].needed
    BY DEF LoadBySearch, ReadsNeeded
  <2> QED
    BY <2>1, <2>2 DEF Wants, NeededName, Range
<1>4. PICK hit \in Hits(tree, listed, reader, n) :
        /\ Mappable(hit[2])
        /\ loaded' =
             IF \E j \in DOMAIN loaded : loaded[j].file = hit[2]
             THEN [j \in DOMAIN loaded |->
                     IF loaded[j].file = hit[2]
                     THEN [loaded[j] EXCEPT !.names = @ \cup {n}] ELSE loaded[j]]
             ELSE Append(loaded, [file |-> hit[2], dir |-> hit[1], parent |-> reader,
                                  names |-> NamesOf(hit[2], n)])
  BY DEF LoadBySearch
<1> HIDE DEF n
<1>5. hit[1] \in Dirs /\ hit[2] \in Files /\ Gives(tree, listed, n, hit[2])
  BY <1>1, <1>3, <1>4, HitsGive DEF LoaderInv
<1>6. \A k \in DOMAIN loaded : IsLoaded(tree, listed, loaded, k)
  BY DEF LoaderInv
<1>7. \A k \in DOMAIN loaded : k > 1 => loaded[k].parent \in 1 .. k - 1
  BY DEF LoaderInv, IsLinkMap
<1>8. CASE \E j \in DOMAIN loaded : loaded[j].file = hit[2]
  <2> DEFINE renamed(j) == IF loaded[j].file = hit[2]
                           THEN [loaded[j] EXCEPT !.names = @ \cup {n}] ELSE loaded[j]
             m == [j \in DOMAIN loaded |-> renamed(j)]
  <2>1. loaded' = m
    BY <1>4, <1>8
  <2>2. ASSUME NEW k \in DOMAIN loaded
        PROVE  /\ renamed(k) \in Objects
               /\ renamed(k).file = loaded[k].file /\ renamed(k).parent = loaded[k].parent
               /\ renamed(k).names = IF loaded[k].file = hit[2] THEN loaded[k].names \cup {n}
                                     ELSE loaded[k].names
    BY <1>2, <1>3 DEF Objects
  <2> HIDE DEF renamed
  <2>3. m \in Seq(Objects) /\ Len(m) = Len(loaded) /\ DOMAIN m = DOMAIN loaded
    <3>1. m \in [1 .. Len(loaded) -> Objects]
      BY <1>1, <2>2
    <3> QED
      BY <1>1, <3>1
  <2>4. \A k \in DOMAIN loaded : m[k] = renamed(k)
    OBVIOUS
  <2> HIDE DEF m
  <2>5. IsLinkMap(m)
    <3>1. 1 \in DOMAIN loaded /\ m # <<>>
      BY <1>1, <2>3
    <3> QED
      BY <1>7, <2>2, <2>3, <2>4, <3>1 DEF LoaderInv, IsLinkMap
  <2>6. Extends(m, loaded)
    <3>1. ASSUME NEW k \in DOMAIN loaded
          PROVE  /\ m[k].file = loaded[k].file /\ m[k].parent = loaded[k].parent
                 /\ loaded[k].names \subseteq m[k].names
      BY <2>2, <2>4
    <3> QED
      BY <1>1, <2>3, <3>1 DEF Extends
  <2>7. HasName(m, n)
    <3>1. PICK j \in DOMAIN loaded : loaded[j].file = hit[2]
      BY <1>8
    <3>2. n \in m[j].names
      BY <2>2, <2>4, <3>1
    <3> QED
      BY <2>3, <3>2 DEF HasName
  <2>8. ASSUME NEW k \in DOMAIN m PROVE IsLoaded(tree, listed, m, k)
    <3>1. k \in DOMAIN loaded /\ m[k].file = loaded[k].file /\ m[k].parent = loaded[k].parent
      BY <2>2, <2>3, <2>4
    <3>2. k > 1 => m[m[k].parent].file = loaded[loaded[k].parent].file
      <4>1. k > 1 => loaded[k].parent \in DOMAIN loaded
        BY <1>1, <1>7, <3>1
      <4> QED
        BY <2>2, <2>4, <3>1, <4>1
    <3>3. ASSUME NEW x \in m[k].names PROVE AnswersTo(tree, listed, x, m[k].file)
      <4>1. x \in loaded[k].names \/ (x = n /\ loaded[k].file = hit[2])
        BY <2>2, <2>4, <3>1, <3>3
      <4> QED
        BY <1>5, <1>6, <3>1, <4>1 DEF AnswersTo, IsLoaded
    <3> QED
      BY <1>6, <3>1, <3>2, <3>3 DEF IsLoaded
  <2> QED
    BY <2>1, <2>5, <2>6, <2>7, <2>8 DEF n
<1>9. CASE ~ \E j \in DOMAIN loaded : loaded[j].file = hit[2]
  <2> DEFINE new == [file |-> hit[2], dir |-> hit[1], parent |-> reader, names |-> NamesOf(hit[2], n)]
             m == Append(loaded, new)
             last == Len(loaded) + 1
  <2>1. loaded' = m
    BY <1>4, <1>9
  <2>2. NamesOf(hit[2], n) \subseteq Names
    <3>1. sys.elf[hit[2]].soname \in Names \cup {NoName}
      BY <1>5, ElfFacts DEF Elf
    <3> QED
      BY <1>3, <3>1 DEF NamesOf
  <2>3. new \in Objects
    BY <1>1, <1>5, <2>2 DEF Objects
  <2>4. new.file = hit[2] /\ new.parent = reader /\ new.names = NamesOf(hit[2], n)
    OBVIOUS
  <2> HIDE DEF new
  <2>5. /\ m \in Seq(Objects) /\ Len(m) = last /\ DOMAIN m = DOMAIN loaded \cup {last}
        /\ \A k \in DOMAIN loaded : m[k] = loaded[k]
        /\ m[last] = new
    BY <1>1, <2>3
  <2>6. last \in Nat /\ last > 1 /\ reader \in 1 .. last - 1 /\ 1 \in DOMAIN loaded
    BY <1>1
  <2> HIDE DEF m, last
  <2>7. IsLinkMap(m)
    <3>1. ASSUME NEW k \in DOMAIN m, k > 1 PROVE m[k].parent \in 1 .. k - 1
      BY <1>7, <2>4, <2>5, <2>6, <3>1
    <3>2. m[1].file = Binary /\ m # <<>>
      BY <2>5, <2>6 DEF LoaderInv, IsLinkMap
    <3> QED
      BY <2>5, <3>1, <3>2 DEF IsLinkMap
  <2>8. Extends(m, loaded)
    BY <1>1, <2>5 DEF Extends, last
  <2>9. HasName(m, n)
    <3>1. n \in m[last].names
      BY <2>4, <2>5 DEF NamesOf
    <3> QED
      BY <2>5, <3>1 DEF HasName
  <2>10. ASSUME NEW k \in DOMAIN m PROVE IsLoaded(tree, listed, m, k)
    <3>1. CASE k \in DOMAIN loaded
      <4>1. k > 1 => m[m[k].parent].file = loaded[loaded[k].parent].file
        <5>1. k > 1 => loaded[k].parent \in DOMAIN loaded
          BY <1>1, <1>7, <3>1
        <5> QED
          BY <2>5, <3>1, <5>1
      <4> QED
        BY <1>6, <2>5, <3>1, <4>1 DEF IsLoaded
    <3>2. CASE k = last
      <4>1. m[k] = new /\ m[reader] = loaded[reader]
        BY <1>1, <2>5, <3>2
      <4>2. ASSUME NEW x \in new.names PROVE AnswersTo(tree, listed, x, new.file)
        BY <1>5, <2>4, <4>2 DEF AnswersTo, NamesOf
      <4> QED
        BY <1>3, <1>4, <1>5, <2>4, <4>1, <4>2 DEF IsLoaded
    <3> QED
      BY <2>5, <3>1, <3>2
  <2> QED
    BY <2>1, <2>7, <2>8, <2>9, <2>10 DEF n
<1> QED
  BY <1>8, <1>9

\* A step of ld.so keeps all that, and forgets no name that was asked for.
LEMMA LoadKeeps ==
  ASSUME sys \in Sysroot, NEW tree \in Trees, NEW listed \in Listings,
         LoaderInv(tree, listed, loaded, reader, need), LoadStep(tree, listed)
  PROVE  LoaderInv(tree, listed, loaded', reader', need')
<1>1. /\ loaded \in Seq(Objects) /\ Len(loaded) \in Nat /\ DOMAIN loaded = 1 .. Len(loaded)
      /\ reader \in Nat \ {0} /\ reader <= Len(loaded) + 1 /\ need \in Nat \ {0}
      /\ IsLinkMap(loaded)
  BY DEF LoaderInv, IsLinkMap
<1> DEFINE wanted(j) == sys.elf[loaded[j].file].needed
<1>2. ASSUME NEW j \in DOMAIN loaded PROVE wanted(j) \in Seq(Names)
  <2>1. loaded[j] \in Objects
    BY <1>1, <1>2
  <2>2. loaded[j].file \in Files
    BY <2>1 DEF Objects
  <2> QED
    BY <2>2, ElfFacts
<1>3. CASE LoadByName \/ LoadBySearch(tree, listed)
  <2>1. /\ reader \in DOMAIN loaded /\ need \in DOMAIN wanted(reader)
        /\ reader' = reader /\ need' = need + 1
    BY <1>3 DEF LoadByName, LoadBySearch, ReadsNeeded
  <2>2. /\ IsLinkMap(loaded') /\ Extends(loaded', loaded)
        /\ HasName(loaded', wanted(reader)[need])
        /\ \A k \in DOMAIN loaded' : IsLoaded(tree, listed, loaded', k)
    <3>1. CASE LoadByName
      <4>1. loaded' = loaded /\ HasName(loaded, wanted(reader)[need])
        BY <3>1 DEF LoadByName, HasName, NeededName
      <4>2. Extends(loaded, loaded)
        BY <1>1 DEF Extends
      <4> QED
        BY <4>1, <4>2 DEF LoaderInv
    <3>2. CASE LoadBySearch(tree, listed)
      BY <3>2, SearchLoads DEF NeededName
    <3> QED
      BY <1>3, <3>1, <3>2
  <2> DEFINE m == loaded'
  <2>3. m \in Seq(Objects) /\ Len(loaded) <= Len(m) /\ Len(m) \in Nat /\ DOMAIN m = 1 .. Len(m)
    BY <2>2 DEF IsLinkMap, Extends
  <2> HIDE DEF m
  <2>4. \A x : HasName(loaded, x) => HasName(m, x)
    BY <1>1, <2>2, <2>3, ExtendsKeepsNames DEF m
  <2>5. \A j \in DOMAIN loaded : m[j].file = loaded[j].file
    BY <2>2 DEF Extends, m
  <2>6. ASSUME NEW j \in DOMAIN m, j < reader, NEW a \in DOMAIN sys.elf[m[j].file].needed
        PROVE  HasName(m, sys.elf[m[j].file].needed[a])
    <3>1. j \in DOMAIN loaded
      BY <1>1, <2>1, <2>3, <2>6
    <3> QED
      BY <2>4, <2>5, <2>6, <3>1 DEF LoaderInv
  <2>7. IsAnswered(m, reader, need + 1)
    <3>1. ASSUME NEW a \in DOMAIN wanted(reader), a < need + 1 PROVE HasName(m, wanted(reader)[a])
      <4>1. a \in Nat
        BY <1>2, <2>1, <3>1
      <4>2. a < need \/ a = need
        BY <1>1, <3>1, <4>1
      <4> QED
        BY <2>1, <2>2, <2>4, <3>1, <4>2 DEF LoaderInv, IsAnswered, m
    <3> QED
      BY <2>1, <2>5, <3>1 DEF IsAnswered
  <2>8. reader <= Len(m) + 1 /\ need + 1 \in Nat \ {0}
    BY <1>1, <2>3
  <2> QED
    BY <1>1, <2>1, <2>2, <2>6, <2>7, <2>8 DEF LoaderInv, m
<1>4. CASE NextObject
  <2>1. /\ reader \in DOMAIN loaded /\ need \notin DOMAIN wanted(reader)
        /\ reader' = reader + 1 /\ need' = 1 /\ loaded' = loaded
    BY <1>4 DEF NextObject, ReadsNeeded
  <2>2. ASSUME NEW a \in DOMAIN wanted(reader) PROVE HasName(loaded, wanted(reader)[a])
    <3>1. a < need
      <4>1. wanted(reader) \in Seq(Names)
        BY <1>2, <2>1
      <4> QED
        BY <1>1, <2>1, <2>2, <4>1
    <3> QED
      BY <2>1, <2>2, <3>1 DEF LoaderInv, IsAnswered
  <2>3. \A j \in DOMAIN loaded : j < reader + 1 => j < reader \/ j = reader
    BY <1>1
  <2>4. reader + 1 \in DOMAIN loaded => IsAnswered(loaded, reader + 1, 1)
    <3>1. ASSUME reader + 1 \in DOMAIN loaded, NEW a \in DOMAIN wanted(reader + 1) PROVE ~(a < 1)
      <4>1. wanted(reader + 1) \in Seq(Names)
        BY <1>2, <3>1
      <4> QED
        BY <3>1, <4>1
    <3> QED
      BY <3>1 DEF IsAnswered
  <2>5. reader + 1 \in Nat \ {0} /\ reader + 1 <= Len(loaded) + 1
    BY <1>1, <2>1
  <2> QED
    BY <1>1, <2>1, <2>2, <2>3, <2>4, <2>5 DEF LoaderInv
<1> QED
  BY <1>3, <1>4 DEF LoadStep

\* A set with the program in it and whatever may answer a name that an object of it asks for.
IsClosed(C, tree, listed) ==
  /\ Binary \in C
  /\ \A f \in C : Mappable(f) =>
       \A n \in Wants(f), g \in Files : Mappable(g) /\ Gives(tree, listed, n, g) => g \in C

\* ld.so loads nothing that nothing asked for: what it loads is in every closed set.
LEMMA LoadedIsLeast ==
  ASSUME NEW tree, NEW listed, NEW l, NEW r, NEW i, LoaderInv(tree, listed, l, r, i),
         NEW C, IsClosed(C, tree, listed)
  PROVE  \A k \in DOMAIN l : l[k].file \in C
<1> DEFINE N == Len(l)
           In == {m \in 0 .. N : \A k \in 1 .. m : l[k].file \in C}
<1>1. N \in Nat /\ DOMAIN l = 1 .. N /\ \A k \in 1 .. N : l[k] \in Objects
  BY DEF LoaderInv, IsLinkMap
<1>2. 0 \in In
  BY <1>1
<1>3. ASSUME NEW m \in 1 .. N, m - 1 \in In PROVE m \in In
  <2>1. \A k \in 1 .. m - 1 : l[k].file \in C
    BY <1>3
  <2>2. l[m].file \in C
    <3>1. CASE m = 1
      BY <3>1 DEF LoaderInv, IsLinkMap, IsClosed
    <3>2. CASE m # 1
      <4>1. m \in DOMAIN l /\ m > 1
        BY <1>1, <3>2
      <4>2. l[m].parent \in 1 .. m - 1
        BY <4>1 DEF LoaderInv, IsLinkMap
      <4>3. l[m].parent \in DOMAIN l
        BY <1>1, <4>2
      <4>4. /\ Mappable(l[m].file) /\ Mappable(l[l[m].parent].file)
            /\ \E n \in Wants(l[l[m].parent].file) : Gives(tree, listed, n, l[m].file)
        BY <4>1, <4>3 DEF LoaderInv, IsLoaded
      <4>5. l[m].file \in Files
        BY <1>1 DEF Objects
      <4> QED
        BY <2>1, <4>2, <4>4, <4>5 DEF IsClosed
    <3> QED
      BY <3>1, <3>2
  <2>3. \A k \in 1 .. m : k = m \/ k \in 1 .. m - 1
    BY <1>1
  <2> QED
    BY <1>1, <2>1, <2>2, <2>3
<1> HIDE DEF In
<1>4. N \in 0 .. N
  BY <1>1
<1>5. N \in In
  BY <1>1, <1>2, <1>3, <1>4, UpTo
<1> QED
  BY <1>1, <1>5 DEF In

\* And when it is through, every name that a loaded object asks for is answered by one.
LEMMA LoadedAnswers ==
  ASSUME NEW tree, NEW listed, NEW l, NEW r, NEW i, LoaderInv(tree, listed, l, r, i),
         r \notin DOMAIN l, NEW j \in DOMAIN l, NEW n \in Wants(l[j].file)
  PROVE  \E k \in DOMAIN l : AnswersTo(tree, listed, n, l[k].file)
<1>1. j < r
  <2>1. Len(l) \in Nat /\ DOMAIN l = 1 .. Len(l) /\ r \in Nat \ {0}
    BY DEF LoaderInv, IsLinkMap
  <2> QED
    BY <2>1
<1>2. PICK a \in DOMAIN sys.elf[l[j].file].needed : n = sys.elf[l[j].file].needed[a]
  BY DEF Wants, Range
<1>3. HasName(l, n)
  BY <1>1, <1>2 DEF LoaderInv
<1> QED
  BY <1>3 DEF HasName, LoaderInv, IsLoaded

--------------------------------------------------------------------------------
\* What an image shows under a name.

\* Some directory of the host shows the file under this name.
ShownAs(f, n) == \E d \in Dirs : sys.at[d][n] = f

\* What a search finds, the host shows under the name.
LEMMA FirstHitShown ==
  ASSUME sys \in Sysroot, NEW name \in Names, NEW dirs \in Seq(Dirs),
         NEW S \in SUBSET DOMAIN dirs, FirstHit(dirs, name, S) # NoFile
  PROVE  ShownAs(FirstHit(dirs, name, S), name)
<1>1. S # {} /\ S \in SUBSET Nat
  BY DEF FirstHit
<1>2. Min(S) \in DOMAIN dirs
  BY <1>1, MinExists
<1>3. dirs[Min(S)] \in Dirs
  BY <1>2
<1> QED
  BY <1>1, <1>3 DEF FirstHit, ShownAs

\* So does a search for a library, by name or by path.
LEMMA FindLibShown ==
  ASSUME sys \in Sysroot, NEW name \in Names, NEW dirs \in Seq(Dirs), NEW f \in Files,
         FindLib(name, dirs, f) # NoFile
  PROVE  ShownAs(FindLib(name, dirs, f), name)
<1> DEFINE S == {k \in DOMAIN dirs : sys.at[dirs[k]][name] # NoFile}
<1>1. FirstHit(dirs, name, S) # NoFile => ShownAs(FirstHit(dirs, name, S), name)
  BY FirstHitShown
<1> QED
  BY <1>1, ElfFacts DEF FindLib, ShownAs

\* And so does the whole lookup of a name.
LEMMA LookupShown ==
  ASSUME sys \in Sysroot, NEW item \in Items, NEW k \in DOMAIN Needed(item.obj),
         Lookup(item, k) # NoFile
  PROVE  ShownAs(Lookup(item, k), Needed(item.obj)[k])
<1> DEFINE name == Needed(item.obj)[k]
           S == {j \in DOMAIN WholeDirs(item) :
                   /\ sys.at[WholeDirs(item)[j]][name] # NoFile
                   /\ ListedAs(sys.at[WholeDirs(item)[j]][name], name)}
<1>1. item.obj \in Files
  BY DEF Items
<1>2. name \in Names
  BY <1>1, NeededType
<1>3. /\ SearchDirs(item) \in Seq(Dirs) /\ WholeDirs(item) \in Seq(Dirs)
      /\ DefaultDirs \in Seq(Dirs)
  BY SearchTypes, ResolverAssumption
<1>4. FindCached(name, WholeDirs(item)) # NoFile => ShownAs(FindCached(name, WholeDirs(item)), name)
  <2>1. FirstHit(WholeDirs(item), name, S) # NoFile
          => ShownAs(FirstHit(WholeDirs(item), name, S), name)
    BY <1>2, <1>3, FirstHitShown
  <2> QED
    BY <2>1 DEF FindCached
<1> HIDE DEF S
<1>5. InWholes(item, k, WholeDirs(item)) # NoFile
        => ShownAs(InWholes(item, k, WholeDirs(item)), name)
  BY <1>1, <1>2, <1>3, <1>4, FindLibShown DEF InWholes
<1>6. FindLib(name, SearchDirs(item), item.obj) # NoFile
        => ShownAs(FindLib(name, SearchDirs(item), item.obj), name)
  BY <1>1, <1>2, <1>3, FindLibShown
<1>7. FindLib(name, DefaultDirs, item.obj) # NoFile
        => ShownAs(FindLib(name, DefaultDirs, item.obj), name)
  BY <1>1, <1>2, <1>3, FindLibShown
<1> QED
  BY <1>5, <1>6, <1>7 DEF Lookup

\* What the walk goes through started as an ELF, and each of its answers is a file that the host
\* shows under the name.
AnswersAreShown ==
  /\ outcome \in {"walking", "resolved"} => IsElf(Binary)
  /\ \A e \in Range(edges) : e.to # NoFile => ShownAs(e.to, e.soname)
  /\ \A k \in DOMAIN libs : ShownAs(libs[k].path, libs[k].soname)

\* Found files are shown, and the walk starts only from an ELF.
LEMMA WalkShows == WalkSafe => []AnswersAreShown
<1>1. Init => AnswersAreShown
  BY DEF Init, AnswersAreShown, Range
<1>2. TypeOK /\ AnswersAreShown /\ [Next]_vars => AnswersAreShown'
  <2> SUFFICES ASSUME TypeOK, AnswersAreShown, [Next]_vars PROVE AnswersAreShown'
    OBVIOUS
  <2>1. sys' = sys
    BY StepKinds
  <2>2. \A f, n : ShownAs(f, n) => ShownAs(f, n)'
    BY <2>1 DEF ShownAs
  <2>3. ASSUME AtName, Found # NoFile PROVE ShownAs(Found, NextName)
    BY <2>3, AtNameTypes, LookupShown DEF TypeOK, Found, NextName
  <2>4. ASSUME NEW e \in Range(edges)', e.to # NoFile PROVE ShownAs(e.to, e.soname)
    <3>1. CASE e \in Range(edges)
      BY <2>4, <3>1 DEF AnswersAreShown
    <3>2. CASE e \notin Range(edges)
      <4>1. AtName /\ RecordEdge
        BY <2>4, <3>2, StepKinds DEF Range
      <4>2. e.to = Found /\ e.soname = NextName
        BY <2>4, <3>2, <4>1, EdgesGrow DEF Range
      <4> QED
        BY <2>3, <2>4, <4>1, <4>2
    <3> QED
      BY <3>1, <3>2
  <2>5. ASSUME NEW k \in DOMAIN libs' PROVE ShownAs(libs'[k].path, libs'[k].soname)
    <3>1. CASE UNCHANGED <<visited, libs>>
      BY <2>5, <3>1 DEF AnswersAreShown
    <3>2. CASE CollectFound
      <4>1. CASE k \in DOMAIN libs
        BY <3>2, <4>1, LibsGrow DEF AnswersAreShown
      <4>2. CASE k = Len(libs) + 1
        <5>1. libs'[k].path = Found /\ libs'[k].soname = NextName /\ Found \in Files
          BY <3>2, <4>2, LibsGrow
        <5>2. AtName /\ Found # NoFile
          BY <3>2, <5>1, ResolverAssumption DEF CollectFound
        <5> QED
          BY <2>3, <5>1, <5>2
      <4> QED
        BY <2>5, <3>2, <4>1, <4>2, LibsGrow
    <3> QED
      BY <3>1, <3>2, StepKinds
  <2>6. outcome' \in {"walking", "resolved"} => IsElf(Binary)
    <3>1. outcome' \in {"walking", "resolved"} => outcome \in {"walking", "resolved"} \/ StartWalk
      BY DEF Next, vars, RefuseBinary, OpenItem, RefusePlatform, NameMissing, NameSeen, RefuseFound,
             AddLeaf, AddLibrary, AtName, CollectFound, CloseItem, Finish, Bail
    <3> QED
      BY <3>1 DEF AnswersAreShown, StartWalk
  <2>7. IsElf(Binary) => IsElf(Binary)'
    BY <2>1 DEF IsElf
  <2> QED
    BY <2>2, <2>4, <2>5, <2>6, <2>7 DEF AnswersAreShown
<1> QED
  BY <1>1, <1>2, WalkTypes, PTL DEF WalkSafe

\* A collected file or the loader, which the host shows under the name or which is a shared object
\* with that DT_SONAME.
IsKnown(f, n) ==
  /\ f \in visited \cup {interp} /\ f \in Files
  /\ ShownAs(f, n) \/ (sys.elf[f].soname = n /\ sys.elf[f].kind = "dyn")
AllKnown(tree) ==
  \A d \in Dirs, n \in Names : tree[d][n] # NoFile => IsKnown(tree[d][n], n)

\* A file that is known by a name may be put under it.
LEMMA CopyKnown ==
  ASSUME NEW tree \in Trees, AllKnown(tree), NEW f, NEW d \in Dirs, NEW n \in Names, IsKnown(f, n)
  PROVE  Copied(tree, f, d, n) \in Trees /\ AllKnown(Copied(tree, f, d, n))
<1> DEFINE row == [tree[d] EXCEPT ![n] = f]
           new == [tree EXCEPT ![d] = row]
<1>1. Copied(tree, f, d, n) = new
  BY DEF Copied
<1>2. tree[d] \in [Names -> Files \cup {NoFile}] /\ f \in Files
  BY DEF Trees, IsKnown
<1>3. /\ row \in [Names -> Files \cup {NoFile}]
      /\ \A m \in Names : row[m] = IF m = n THEN f ELSE tree[d][m]
  BY <1>2
<1> HIDE DEF row
<1>4. /\ new \in Trees
      /\ \A e \in Dirs : new[e] = IF e = d THEN row ELSE tree[e]
  BY <1>3 DEF Trees
<1> HIDE DEF new
<1>5. ASSUME NEW e \in Dirs, NEW m \in Names
      PROVE  new[e][m] = IF e = d /\ m = n THEN f ELSE tree[e][m]
  BY <1>3, <1>4
<1>6. AllKnown(new)
  BY <1>5 DEF AllKnown
<1> QED
  BY <1>1, <1>4, <1>6

\* A library is known by its own file name and by the name that collected it.
LEMMA LibraryKnown ==
  ASSUME sys \in Sysroots, TypeOK, EachFileOnce, AnswersAreShown, NEW k \in DOMAIN libs
  PROVE  /\ libs[k] \in Lib /\ sys.home[libs[k].path] \in Dirs
         /\ libs[k].soname \in Names /\ Base[libs[k].path] \in Names
         /\ IsKnown(libs[k].path, Base[libs[k].path])
         /\ IsKnown(libs[k].path, libs[k].soname)
<1>1. libs[k] \in Lib
  BY DEF TypeOK
<1>2. libs[k].path \in Files /\ libs[k].soname \in Names
  BY <1>1 DEF Lib
<1>3. libs[k].path \in visited
  BY DEF EachFileOnce
<1> QED
  BY <1>1, <1>2, <1>3, HostPaths DEF IsKnown, ShownAs, AnswersAreShown

\* The cache lists a library, in its directory and by its key.
IsListed(k) ==
  LET f == libs[k].path
  IN  sys.elf[f].kind = "dyn" /\ Base[f] \in CachedNames
        => <<sys.home[f], f>> \in cache[KeyOf(f, Base[f])]

\* What a pack has staged, and what the cache lists, is known by the name it is under, and the
\* libraries are listed.
ImageInv ==
  /\ phase = "stage" \/ packed => image \in Trees /\ AllKnown(image)
  /\ packed =>
       /\ cache \in Listings
       /\ \A n \in Names, d \in Dirs, f \in Files :
            <<d, f>> \in cache[n] => IsKnown(f, n) /\ sys.elf[f].kind = "dyn"
       /\ \A k \in DOMAIN libs : IsListed(k)

\* ldconfig lists and links what is there, by the name it is keyed by.
LEMMA CacheKnown ==
  ASSUME sys \in Sysroots, TypeOK, EachFileOnce, PackInv, ImageInv, BuildCache
  PROVE  ImageInv'
<1> DEFINE listed(d, n) == /\ n \in CachedNames /\ image[d][n] # NoFile
                           /\ sys.elf[image[d][n]].kind = "dyn"
           under(d, n) == {m \in Names : listed(d, m) /\ KeyOf(image[d][m], m) = n}
           linked(d, n) == image[d][CHOOSE m \in under(d, n) : TRUE]
<1>1. /\ phase = "stage" /\ staged = Len(libs) /\ packed' = TRUE /\ UNCHANGED vars
      /\ cache' = [n \in Names |-> {hit \in ConfDirs \X Files :
                      \E m \in under(hit[1], n) : image[hit[1]][m] = hit[2]}]
      /\ image' = [d \in Dirs |-> [n \in Names |->
                      IF d \in ConfDirs /\ image[d][n] = NoFile /\ under(d, n) # {}
                      THEN linked(d, n) ELSE image[d][n]]]
  BY DEF BuildCache
<1>2. /\ image \in Trees /\ AllKnown(image)
      /\ \A k \in DOMAIN libs : AtHome(image, libs[k].path)
  <2>1. \A k \in DOMAIN libs : k <= staged
    BY <1>1 DEF TypeOK
  <2> QED
    BY <1>1, <2>1 DEF ImageInv, PackInv
<1>3. ConfDirs \subseteq Dirs
  <2>1. \A k \in DOMAIN libs : libs[k].path \in Files
    BY DEF EachFileOnce, TypeOK
  <2> QED
    BY <2>1, HostPaths DEF ConfDirs
<1>4. ASSUME NEW d \in Dirs, NEW n \in Names, NEW m \in under(d, n)
      PROVE  /\ image[d][m] \in Files
             /\ IsKnown(image[d][m], n) /\ sys.elf[image[d][m]].kind = "dyn"
  <2>1. /\ m \in Names /\ image[d][m] # NoFile /\ sys.elf[image[d][m]].kind = "dyn"
        /\ KeyOf(image[d][m], m) = n
    BY <1>4
  <2>2. IsKnown(image[d][m], m)
    BY <1>2, <2>1 DEF AllKnown
  <2>3. sys.elf[image[d][m]].soname = n \/ m = n
    BY <2>1 DEF KeyOf
  <2> QED
    BY <2>1, <2>2, <2>3 DEF IsKnown
<1>5. ASSUME NEW d \in Dirs, NEW n \in Names
      PROVE  /\ image'[d][n] \in Files \cup {NoFile}
             /\ image'[d][n] # NoFile => IsKnown(image'[d][n], n)
  <2>1. image[d][n] \in Files \cup {NoFile} /\ (image[d][n] # NoFile => IsKnown(image[d][n], n))
    BY <1>2 DEF Trees, AllKnown
  <2>2. under(d, n) # {} => linked(d, n) \in Files /\ IsKnown(linked(d, n), n)
    <3>1. under(d, n) # {} => (CHOOSE m \in under(d, n) : TRUE) \in under(d, n)
      OBVIOUS
    <3> HIDE DEF under
    <3> QED
      BY <1>4, <3>1
  <2>3. image'[d][n] = IF d \in ConfDirs /\ image[d][n] = NoFile /\ under(d, n) # {}
                       THEN linked(d, n) ELSE image[d][n]
    BY <1>1
  <2> HIDE DEF linked, under
  <2> QED
    BY <2>1, <2>2, <2>3
<1>6. image' \in Trees
  <2>1. image' = [d \in Dirs |-> [n \in Names |-> image'[d][n]]]
    BY <1>1
  <2>2. \A d \in Dirs : [n \in Names |-> image'[d][n]] \in [Names -> Files \cup {NoFile}]
    BY <1>5
  <2> QED
    BY <2>1, <2>2 DEF Trees
<1>7. AllKnown(image')
  BY <1>5 DEF AllKnown
<1>8. \A n \in Names : cache'[n] = {hit \in ConfDirs \X Files :
                                     \E m \in under(hit[1], n) : image[hit[1]][m] = hit[2]}
  BY <1>1
<1>9. cache' \in Listings
  <2>1. \A n \in Names : {hit \in ConfDirs \X Files :
                             \E m \in under(hit[1], n) : image[hit[1]][m] = hit[2]}
                          \in SUBSET (Dirs \X Files)
    BY <1>3
  <2> QED
    BY <1>1, <2>1 DEF Listings
<1>10. ASSUME NEW n \in Names, NEW d \in Dirs, NEW f \in Files, <<d, f>> \in cache'[n]
       PROVE  IsKnown(f, n) /\ sys.elf[f].kind = "dyn"
  <2>1. \E m \in under(d, n) : image[d][m] = f
    BY <1>8, <1>10
  <2> HIDE DEF under
  <2> QED
    BY <1>4, <2>1
<1>11. ASSUME NEW k \in DOMAIN libs, sys.elf[libs[k].path].kind = "dyn",
              Base[libs[k].path] \in CachedNames
       PROVE  LET f == libs[k].path IN <<sys.home[f], f>> \in cache'[KeyOf(f, Base[f])]
  <2> DEFINE f == libs[k].path
             b == Base[f]
             d == sys.home[f]
             n == KeyOf(f, b)
  <2>1. f \in Files /\ b \in Names /\ d \in ConfDirs
    <3>1. libs[k] \in Lib
      BY DEF TypeOK
    <3> QED
      BY <3>1, HostPaths DEF Lib, ConfDirs
  <2>2. image[d][b] = f
    BY <1>2 DEF AtHome, Shows
  <2>3. n \in Names
    <3>1. sys.elf[f].soname \in Names \cup {NoName}
      BY <2>1, ElfFacts DEF Elf, TypeOK
    <3> QED
      BY <2>1, <3>1 DEF KeyOf
  <2>4. b \in under(d, n)
    BY <1>11, <2>1, <2>2, ResolverAssumption
  <2> HIDE DEF under
  <2>5. <<d, f>> \in ConfDirs \X Files /\ <<d, f>>[1] = d /\ <<d, f>>[2] = f
    BY <2>1
  <2>6. <<d, f>> \in {hit \in ConfDirs \X Files :
                        \E m \in under(hit[1], n) : image[hit[1]][m] = hit[2]}
    BY <2>2, <2>4, <2>5
  <2>7. <<d, f>> \in cache'[n]
    BY <1>8, <2>3, <2>6
  <2> QED
    BY <2>7
<1> HIDE DEF listed, under, linked
<1>12. sys' = sys /\ libs' = libs /\ visited' = visited /\ interp' = interp
  BY <1>1 DEF vars
<1>13. /\ \A f, n : IsKnown(f, n) => IsKnown(f, n)'
       /\ AllKnown(image)'
  BY <1>7, <1>12 DEF IsKnown, AllKnown, ShownAs
<1>14. \A n \in Names, d \in Dirs, f \in Files :
         <<d, f>> \in cache'[n] => IsKnown(f, n)' /\ sys'.elf[f].kind = "dyn"
  BY <1>10, <1>12, <1>13
<1>15. ASSUME NEW k \in DOMAIN libs' PROVE IsListed(k)'
  <2>1. k \in DOMAIN libs
    BY <1>12
  <2> DEFINE f == libs[k].path
  <2>2. sys.elf[f].kind = "dyn" /\ Base[f] \in CachedNames
          => <<sys.home[f], f>> \in cache'[KeyOf(f, Base[f])]
    BY <1>11, <2>1
  <2> QED
    BY <1>12, <2>2 DEF IsListed, KeyOf
<1> QED
  BY <1>6, <1>9, <1>13, <1>14, <1>15 DEF ImageInv

\* Each step of the stager puts a file under a name that it is known by.
LEMMA ImageIsKnown == PackSpec => []ImageInv
<1>1. PackInit => ImageInv
  BY DEF PackInit, ImageInv
<1>2. TypeOK /\ EachFileOnce /\ AnswersAreShown /\ PackInv /\ ImageInv /\ [PackNext]_allVars
        => ImageInv'
  <2> SUFFICES ASSUME TypeOK, EachFileOnce, AnswersAreShown, PackInv, ImageInv, [PackNext]_allVars
               PROVE  ImageInv'
    OBVIOUS
  <2>0. sys \in Sysroots
    BY DEF PackInv
  <2>1. CASE HostStep \/ HostEnd \/ Resolve \/ RefusePack
    <3>1. phase \in {"host", "resolve"} /\ phase' # "stage" /\ packed' = packed /\ ~packed
      BY <2>1 DEF HostStep, HostEnd, Resolve, RefusePack, packVars, PackInv
    <3> QED
      BY <3>1 DEF ImageInv
  <2>2. ASSUME UNCHANGED vars
        PROVE  /\ \A f, n : IsKnown(f, n) => IsKnown(f, n)'
               /\ \A t \in Trees : AllKnown(t) => AllKnown(t)'
    BY <2>2 DEF vars, IsKnown, AllKnown, ShownAs
  <2>3. CASE StageProgram
    <3> DEFINE placed == Copied(image, Binary, sys.home[Binary], Base[Binary])
    <3>1. /\ phase = "resolve" /\ phase' = "stage" /\ UNCHANGED <<vars, packed>>
          /\ image = NoTree /\ ~packed
          /\ image' = IF interp = NoFile THEN placed
                      ELSE Copied(placed, interp, InterpDir, InterpName)
      BY <2>3 DEF StageProgram, PackInv
    <3>2. image \in Trees /\ AllKnown(image)
      BY <2>0, <3>1, HostPaths DEF NoTree, AllKnown
    <3>3. IsKnown(Binary, Base[Binary]) /\ sys.home[Binary] \in Dirs /\ Base[Binary] \in Names
      BY <2>0, HostPaths, ResolverAssumption DEF IsKnown, ShownAs, EachFileOnce
    <3>4. placed \in Trees /\ AllKnown(placed)
      BY <3>2, <3>3, CopyKnown
    <3> HIDE DEF placed
    <3>5. image' \in Trees /\ AllKnown(image')
      <4>1. CASE interp = NoFile
        BY <3>1, <3>4, <4>1
      <4>2. CASE interp # NoFile
        <5>1. IsKnown(interp, InterpName) /\ InterpDir \in Dirs /\ InterpName \in Names
          BY <2>0, <4>2, HostPaths DEF PackInv, IsKnown, ShownAs
        <5> QED
          BY <3>1, <3>4, <4>2, <5>1, CopyKnown
      <4> QED
        BY <4>1, <4>2
    <3> QED
      BY <2>2, <3>1, <3>5 DEF ImageInv
  <2>4. CASE StageLibrary
    <3> DEFINE lib == libs[staged + 1]
               copied == Copied(image, lib.path, sys.home[lib.path], Base[lib.path])
    <3>1. /\ phase = "stage" /\ LibsLeft /\ UNCHANGED <<vars, phase, packed>>
          /\ image' = LinkSoname(copied, lib) /\ ~packed
          /\ image \in Trees /\ AllKnown(image)
      BY <2>4 DEF StageLibrary, PackInv, ImageInv
    <3>2. staged + 1 \in DOMAIN libs
      BY <3>1 DEF PackInv, LibsLeft, TypeOK
    <3>3. /\ sys.home[lib.path] \in Dirs /\ lib.soname \in Names /\ Base[lib.path] \in Names
          /\ IsKnown(lib.path, Base[lib.path]) /\ IsKnown(lib.path, lib.soname)
      BY <2>0, <3>2, LibraryKnown
    <3> HIDE DEF lib
    <3>4. copied \in Trees /\ AllKnown(copied)
      BY <3>1, <3>3, CopyKnown
    <3> HIDE DEF copied
    <3>5. image' \in Trees /\ AllKnown(image')
      <4>1. image' = copied \/ image' = Copied(copied, lib.path, sys.home[lib.path], lib.soname)
        BY <3>1 DEF LinkSoname
      <4> QED
        BY <3>3, <3>4, <4>1, CopyKnown
    <3> QED
      BY <2>2, <3>1, <3>5 DEF ImageInv
  <2>5. CASE RefuseCopy
    <3>1. phase' = "end" /\ packed' = packed /\ ~packed
      BY <2>5 DEF RefuseCopy, PackInv
    <3> QED
      BY <3>1 DEF ImageInv
  <2>6. CASE BuildCache
    BY <2>0, <2>6, CacheKnown
  <2>7. CASE ImageStep \/ ImageEnd \/ UNCHANGED allVars
    <3>1. /\ UNCHANGED <<vars, packed, image, cache>>
          /\ phase' = "stage" => phase = "stage"
      BY <2>7 DEF ImageStep, ImageEnd, allVars, packVars
    <3>2. phase' = "stage" \/ packed' => phase = "stage" \/ packed
      BY <3>1
    <3> QED
      BY <2>2, <3>1, <3>2 DEF ImageInv, IsListed, vars, KeyOf
  <2> QED
    BY <2>1, <2>3, <2>4, <2>5, <2>6, <2>7 DEF PackNext
<1> QED
  BY <1>1, <1>2, PackRunsTheWalk, PackStages, WalkTypes, WalkOnce, WalkShows, PTL DEF PackSpec

\* Both runs of ld.so: on the host tree, and in the image.
RunInv ==
  /\ phase = "host" => LoaderInv(sys.at, NoCache, loaded, reader, need)
  /\ phase \in {"resolve", "stage"} => loaded = <<MainProgram>> /\ reader = 1 /\ need = 1
  /\ packed => LoaderInv(image, cache, loaded, reader, need)

\* The host tree is a tree, and lists nothing in a cache.
LEMMA HostTree ==
  ASSUME sys \in Sysroot
  PROVE  /\ sys.at \in Trees /\ NoCache \in Listings
         /\ \A f, n : n \in Names => (Gives(sys.at, NoCache, n, f) <=> ShownAs(f, n))
<1>1. \A n \in Names : NoCache[n] = {}
  BY DEF NoCache
<1> QED
  BY <1>1 DEF Sysroot, Trees, Listings, NoCache, Gives, ShownAs

\* ld.so starts each run with the program, and every step of it keeps the link map in order.
LEMMA LoadersAreRight == PackSpec => []RunInv
<1>1. PackInit => RunInv
  <2> SUFFICES ASSUME PackInit PROVE RunInv
    OBVIOUS
  <2>1. sys \in Sysroot
    BY ResolverAssumption DEF PackInit, Init
  <2> QED
    BY <2>1, LoaderStarts DEF PackInit, RunInv
<1>2. TypeOK /\ PackInv /\ ImageInv /\ RunInv /\ [PackNext]_allVars => RunInv'
  <2> SUFFICES ASSUME TypeOK, PackInv, ImageInv, RunInv, [PackNext]_allVars PROVE RunInv'
    OBVIOUS
  <2>0. sys \in Sysroot /\ sys' = sys
    <3>1. [Next]_vars \/ UNCHANGED vars
      BY DEF PackNext, HostStep, HostEnd, Resolve, RefusePack, StageProgram, StageLibrary,
             RefuseCopy, BuildCache, ImageStep, ImageEnd, allVars, vars
    <3> QED
      BY <3>1, StepKinds DEF TypeOK, vars
  <2>1. \A t, c, l, r, i : LoaderInv(t, c, l, r, i) => LoaderInv(t, c, l, r, i)'
    BY <2>0 DEF LoaderInv, IsLoaded, IsAnswered, AnswersTo, Wants, Mappable
  <2>2. MainProgram' = MainProgram
    BY <2>0 DEF MainProgram
  <2>3. CASE HostStep
    <3>1. /\ phase = "host" /\ phase' = "host" /\ ~packed' /\ LoadStep(sys.at, NoCache)
      BY <2>3 DEF HostStep, packVars, PackInv
    <3>2. LoaderInv(sys.at, NoCache, loaded', reader', need')
      BY <2>0, <3>1, HostTree, LoadKeeps DEF RunInv
    <3>3. LoaderInv(sys.at, NoCache, loaded, reader, need)'
      BY <2>0, <3>2 DEF LoaderInv, IsLoaded, IsAnswered, AnswersTo, Wants, Mappable, NoCache
    <3> QED
      BY <3>1, <3>3 DEF RunInv
  <2>4. CASE HostEnd
    BY <2>2, <2>4 DEF HostEnd, ResetLoader, RunInv, PackInv
  <2>5. CASE Resolve \/ RefusePack \/ StageProgram \/ StageLibrary \/ RefuseCopy
    <3>1. /\ phase \in {"resolve", "stage"} /\ phase' \in {"resolve", "stage", "end"}
          /\ ~packed' /\ UNCHANGED loadVars
      BY <2>5 DEF Resolve, RefusePack, StageProgram, StageLibrary, RefuseCopy, packVars, PackInv
    <3> QED
      BY <2>2, <3>1 DEF RunInv, loadVars
  <2>6. CASE BuildCache
    <3>1. phase = "stage" /\ phase' = "run" /\ UNCHANGED loadVars
      BY <2>6 DEF BuildCache
    <3>2. LoaderInv(image', cache', loaded', reader', need')
      BY <2>0, <3>1, LoaderStarts DEF RunInv, loadVars
    <3>3. LoaderInv(image, cache, loaded, reader, need)'
      BY <2>0, <3>2 DEF LoaderInv, IsLoaded, IsAnswered, AnswersTo, Wants, Mappable
    <3> QED
      BY <3>1, <3>3 DEF RunInv
  <2>7. CASE ImageStep
    <3>1. /\ phase = "run" /\ phase' = "run" /\ packed' = packed
          /\ image' = image /\ cache' = cache /\ LoadStep(image, cache)
      BY <2>7 DEF ImageStep, packVars
    <3>2. ASSUME packed PROVE LoaderInv(image, cache, loaded, reader, need)'
      <4>1. LoaderInv(image, cache, loaded', reader', need')
        BY <2>0, <3>1, <3>2, LoadKeeps DEF RunInv, ImageInv
      <4> QED
        BY <2>0, <3>1, <4>1 DEF LoaderInv, IsLoaded, IsAnswered, AnswersTo, Wants, Mappable
    <3> QED
      BY <3>1, <3>2 DEF RunInv
  <2>8. CASE ImageEnd \/ UNCHANGED allVars
    <3>1. /\ UNCHANGED <<packed, image, cache, loadVars>>
          /\ phase' = phase \/ phase' = "end"
      BY <2>8 DEF ImageEnd, allVars, packVars
    <3>2. ASSUME LoaderInv(image, cache, loaded, reader, need)
          PROVE  LoaderInv(image, cache, loaded, reader, need)'
      BY <2>0, <3>1, <3>2 DEF loadVars, LoaderInv, IsLoaded, IsAnswered, AnswersTo, Wants, Mappable
    <3>3. ASSUME LoaderInv(sys.at, NoCache, loaded, reader, need)
          PROVE  LoaderInv(sys.at, NoCache, loaded, reader, need)'
      BY <2>0, <3>1, <3>3 DEF loadVars, LoaderInv, IsLoaded, IsAnswered, AnswersTo, Wants, Mappable,
                              NoCache
    <3> QED
      BY <2>2, <3>1, <3>2, <3>3 DEF RunInv, loadVars
  <2> QED
    BY <2>3, <2>4, <2>5, <2>6, <2>7, <2>8 DEF PackNext
<1> QED
  BY <1>1, <1>2, PackRunsTheWalk, PackStages, ImageIsKnown, WalkTypes, PTL DEF PackSpec

\* What ld.so loaded on the host, if it did: the least set with the program and an answer to every
\* name that an object of it asks for.
HostInv ==
  hostLoad # Failed =>
    /\ hostLoad \subseteq Files /\ Binary \in hostLoad
    /\ \A f \in hostLoad : Mappable(f)
    /\ \A f \in hostLoad : \A n \in Wants(f) :
         \E h \in hostLoad : ShownAs(h, n) \/ sys.elf[h].soname = n
    /\ \A C \in SUBSET Files : IsClosed(C, sys.at, NoCache) => hostLoad \subseteq C

\* What the host run ends with is that set.
LEMMA HostRunIsLeast == PackSpec => []HostInv
<1>1. PackInit => HostInv
  BY DEF PackInit, HostInv
<1>2. TypeOK /\ RunInv /\ HostInv /\ [PackNext]_allVars => HostInv'
  <2> SUFFICES ASSUME TypeOK, RunInv, HostInv, [PackNext]_allVars PROVE HostInv'
    OBVIOUS
  <2>0. sys \in Sysroot /\ sys' = sys
    <3>1. [Next]_vars \/ UNCHANGED vars
      BY DEF PackNext, HostStep, HostEnd, Resolve, RefusePack, StageProgram, StageLibrary,
             RefuseCopy, BuildCache, ImageStep, ImageEnd, allVars, vars
    <3> QED
      BY <3>1, StepKinds DEF TypeOK, vars
  <2>1. CASE hostLoad' = hostLoad
    BY <2>0, <2>1 DEF HostInv, Mappable, Wants, ShownAs, IsClosed, Gives, NoCache
  <2>2. CASE HostEnd /\ Loads /\ hostLoad' = LoadedFiles
    <3>1. /\ LoaderInv(sys.at, NoCache, loaded, reader, need) /\ reader \notin DOMAIN loaded
          /\ hostLoad' = {loaded[k].file : k \in DOMAIN loaded}
      BY <2>2 DEF HostEnd, Loads, LoadedFiles, RunInv
    <3>2. /\ \A k \in DOMAIN loaded : loaded[k].file \in Files /\ Mappable(loaded[k].file)
          /\ 1 \in DOMAIN loaded /\ loaded[1].file = Binary
      <4>1. \A k \in DOMAIN loaded : loaded[k] \in Objects
        BY <3>1 DEF LoaderInv, IsLinkMap
      <4>2. 1 \in DOMAIN loaded /\ loaded[1].file = Binary
        BY <3>1 DEF LoaderInv, IsLinkMap
      <4> QED
        BY <3>1, <4>1, <4>2 DEF LoaderInv, IsLoaded, Objects
    <3>3. ASSUME NEW f \in hostLoad', NEW n \in Wants(f)
          PROVE  \E h \in hostLoad' : ShownAs(h, n) \/ sys.elf[h].soname = n
      <4>1. PICK j \in DOMAIN loaded : f = loaded[j].file
        BY <3>1
      <4>2. n \in Names
        <5>1. sys.elf[f].needed \in Seq(Names)
          BY <2>0, <3>2, <4>1, ElfFacts
        <5> QED
          BY <3>3, <5>1 DEF Wants, Range
      <4>3. PICK k \in DOMAIN loaded : AnswersTo(sys.at, NoCache, n, loaded[k].file)
        BY <3>1, <3>3, <4>1, LoadedAnswers
      <4> QED
        BY <2>0, <3>1, <4>2, <4>3, HostTree DEF AnswersTo
    <3>4. ASSUME NEW C, IsClosed(C, sys.at, NoCache) PROVE hostLoad' \subseteq C
      BY <3>1, <3>4, LoadedIsLeast
    <3>5. \A C \in SUBSET Files : IsClosed(C, sys.at, NoCache)' => IsClosed(C, sys.at, NoCache)
      BY <2>0 DEF IsClosed, Mappable, Wants, Gives, NoCache
    <3>6. hostLoad' \subseteq Files /\ Binary \in hostLoad'
      BY <3>1, <3>2
    <3>7. \A f \in hostLoad' : Mappable(f)
      BY <3>1, <3>2
    <3> QED
      BY <2>0, <3>3, <3>4, <3>5, <3>6, <3>7 DEF HostInv, Mappable, Wants, ShownAs
  <2> QED
    BY <2>1, <2>2 DEF PackNext, HostStep, HostEnd, Resolve, RefusePack, StageProgram,
       StageLibrary, RefuseCopy, BuildCache, ImageStep, ImageEnd, allVars, HostInv
<1> QED
  BY <1>1, <1>2, PackRunsTheWalk, LoadersAreRight, WalkTypes, PTL DEF PackSpec

\* The names that ld.so may ask for in an image: those of its objects.
Asked == UNION {Wants(f) : f \in {g \in visited : IsElf(g)}}

\* Every library is known by one name: what the host shows under a name that is asked for is a
\* shared object that ldconfig keys by that name, by its own file name too.  The loader needs no
\* library.
WellNamed ==
  /\ \A n \in Asked, f \in Files :
       ShownAs(f, n) => /\ f # Binary /\ sys.elf[f].kind = "dyn"
                        /\ Base[f] \in CachedNames /\ KeyOf(f, Base[f]) = n
  /\ interp # NoFile => sys.elf[interp].needed = <<>>

\* No two files answer to one name that is asked for.
OneEach ==
  \A n \in Asked : \A f, g \in Files :
    LET answers(h) == ShownAs(h, n) \/ (h \in visited \cup {interp} /\ sys.elf[h].soname = n)
    IN  answers(f) /\ answers(g) => f = g

\* The walk answered what ld.so asks for, with a file that is shown under the name.
LEMMA AskedIsAnswered ==
  ASSUME TypeOK, AnswersAreShown, PackedIsWhole, packed, NEW f \in visited, IsElf(f),
         NEW n \in Wants(f)
  PROVE  n \in Asked /\ n \in Names /\ \E g \in visited : ShownAs(g, n)
<1>1. f \in Files /\ sys.elf[f].needed \in Seq(Names) /\ sys.includes \in Seq(Names)
  BY ElfFacts DEF TypeOK
<1>2. PICK k \in DOMAIN sys.elf[f].needed : n = sys.elf[f].needed[k]
  BY DEF Wants, Range
<1>3. k \in DOMAIN Needed(f) /\ Needed(f)[k] = n
  <2> DEFINE s == sys.elf[f].needed
             t == sys.includes
  <2>1. s \in Seq(Names) /\ t \in Seq(Names) /\ k \in DOMAIN s /\ s[k] = n
    BY <1>1, <1>2
  <2>2. Needed(f) = s \/ Needed(f) = s \o t
    BY DEF Needed
  <2> HIDE DEF s, t
  <2>3. k \in DOMAIN (s \o t) /\ (s \o t)[k] = n
    BY <2>1
  <2> QED
    BY <2>1, <2>2, <2>3
<1>4. PICK e \in Range(edges) : e.soname = n /\ e.to \in visited
  BY <1>3 DEF PackedIsWhole
<1>5. e.to # NoFile
  BY <1>4, ResolverAssumption DEF TypeOK
<1> QED
  BY <1>1, <1>2, <1>4, <1>5 DEF Asked, AnswersAreShown

\* What the image gives for a name is known by it.
LEMMA GivenIsKnown ==
  ASSUME ImageInv, packed, NEW n \in Names, NEW f \in Files, Gives(image, cache, n, f)
  PROVE  IsKnown(f, n)
<1>1. CASE \E d \in Dirs : image[d][n] = f
  <2>1. f # NoFile
    BY ResolverAssumption
  <2> QED
    BY <1>1, <2>1 DEF ImageInv, AllKnown
<1>2. CASE \E d \in Dirs : <<d, f>> \in cache[n]
  BY <1>2 DEF ImageInv
<1> QED
  BY <1>1, <1>2 DEF Gives

\* Only what was staged is loaded in the image.
LEMMA LoadedIsStaged ==
  ASSUME TypeOK, EachFileOnce, ImageInv, packed, LoaderInv(image, cache, loaded, reader, need)
  PROVE  \A k \in DOMAIN loaded : loaded[k].file \in visited \cup {interp}
<1> DEFINE C == (visited \cup {interp}) \cap Files
<1>1. Binary \in C
  BY ResolverAssumption DEF EachFileOnce
<1>2. ASSUME NEW h \in C, NEW m \in Wants(h), NEW g \in Files, Gives(image, cache, m, g)
      PROVE  g \in C
  <2>1. m \in Names
    <3>1. sys.elf[h].needed \in Seq(Names)
      BY ElfFacts DEF TypeOK
    <3> QED
      BY <1>2, <3>1 DEF Wants, Range
  <2>2. IsKnown(g, m)
    BY <1>2, <2>1, GivenIsKnown
  <2> QED
    BY <2>2 DEF IsKnown
<1>3. IsClosed(C, image, cache)
  BY <1>1, <1>2 DEF IsClosed
<1> QED
  BY <1>3, LoadedIsLeast

\* A name that is asked for is found in the image, and what is found maps.
LEMMA NamesAreFound ==
  ASSUME TypeOK, WalkInv, EachFileOnce, PackedIsWhole, AnswersAreShown, PackInv, ImageInv, RunInv,
         packed, WellNamed
  PROVE  ~LoadFails(image, cache)
<1> SUFFICES ASSUME LoadFails(image, cache) PROVE FALSE
  OBVIOUS
<1> DEFINE f == loaded[reader].file
           n == NeededName
<1>1. /\ sys \in Sysroot /\ sys \in Sysroots
      /\ IsLinkMap(loaded) /\ reader \in DOMAIN loaded /\ loaded \in Seq(Objects)
      /\ image \in Trees /\ AllKnown(image) /\ cache \in Listings
      /\ LoaderInv(image, cache, loaded, reader, need)
      /\ outcome = "resolved"
  BY DEF TypeOK, PackInv, ImageInv, RunInv, LoaderInv, IsLinkMap, LoadFails, ReadsNeeded
<1>2. f \in Files /\ Mappable(f)
  <2>1. loaded[reader] \in Objects
    BY <1>1
  <2> QED
    BY <1>1, <2>1 DEF Objects, LoaderInv, IsLoaded
<1>3. need \in DOMAIN sys.elf[f].needed /\ n \in Wants(f)
  BY DEF LoadFails, ReadsNeeded, NeededName, Wants, Range
<1>4. f \in visited
  <2>1. \A k \in DOMAIN loaded : loaded[k].file \in visited \cup {interp}
    BY <1>1, LoadedIsStaged
  <2>2. f \in visited \/ f = interp
    BY <1>1, <2>1
  <2>3. f # interp
    BY <1>2, <1>3, ResolverAssumption DEF WellNamed
  <2> QED
    BY <2>2, <2>3
<1>5. IsElf(f)
  BY <1>1, <1>2 DEF Mappable, IsElf, ElfKinds, AnswersAreShown
<1>6. n \in Asked /\ n \in Names /\ \E g \in visited : ShownAs(g, n)
  BY <1>3, <1>4, <1>5, AskedIsAnswered
<1>7. PICK g \in visited : ShownAs(g, n)
  BY <1>6
<1>8. /\ g \in Files /\ g # Binary /\ sys.elf[g].kind = "dyn" /\ Base[g] \in CachedNames
      /\ KeyOf(g, Base[g]) = n
  BY <1>6, <1>7 DEF WellNamed, TypeOK
<1>9. <<sys.home[g], g>> \in cache[n]
  <2>1. PICK k \in DOMAIN libs : libs[k].path = g
    BY <1>7, <1>8 DEF EachFileOnce
  <2> QED
    BY <1>8, <2>1 DEF ImageInv, IsListed
<1>10. /\ \A hit \in Hits(image, cache, reader, n) : ~Mappable(hit[2])
       /\ reader \in DOMAIN loaded
  BY <1>1 DEF LoadFails
<1> HIDE DEF f, n
<1>11. \A hit \in Hits(image, cache, reader, n) : FALSE
  <2> SUFFICES ASSUME NEW hit \in Hits(image, cache, reader, n) PROVE FALSE
    OBVIOUS
  <2>1. hit[2] \in Files /\ Gives(image, cache, n, hit[2])
    BY <1>1, <1>6, HitsGive
  <2>2. sys.elf[hit[2]].kind = "dyn"
    <3>1. IsKnown(hit[2], n)
      BY <1>1, <1>6, <2>1, GivenIsKnown
    <3> QED
      BY <1>6, <2>1, <3>1 DEF IsKnown, WellNamed
  <2> QED
    BY <1>10, <2>2 DEF Mappable
<1> QED
  BY <1>9, <1>11 DEF Hits

\* A packed image runs, if each library is known by one name: ld.so finds in the image, under the
\* name it asks for, every name that any object in it needs.
THEOREM WellNamedImageLoads == PackSpec => [](WellNamed => PackedImageLoads)
<1> DEFINE Inv == WellNamed => PackedImageLoads
<1>1. PackInit => Inv
  BY DEF PackInit, PackedImageLoads
<1>2. TypeOK /\ WalkInv /\ EachFileOnce /\ PackedIsWhole /\ AnswersAreShown
        /\ PackInv /\ ImageInv /\ RunInv /\ Inv /\ [PackNext]_allVars
        => Inv'
  <2> SUFFICES ASSUME TypeOK, WalkInv, EachFileOnce, PackedIsWhole, AnswersAreShown,
                      PackInv, ImageInv, RunInv, Inv, [PackNext]_allVars, WellNamed'
               PROVE  PackedImageLoads'
    OBVIOUS
  <2> SUFFICES ASSUME phase' = "end", packed' PROVE Loads'
    BY DEF PackedImageLoads
  <2>0. ASSUME UNCHANGED vars PROVE WellNamed
    <3>1. sys' = sys /\ visited' = visited /\ interp' = interp
      BY <2>0 DEF vars
    <3>2. Asked' = Asked
      BY <3>1 DEF Asked, Wants, IsElf
    <3> QED
      BY <3>1, <3>2 DEF WellNamed, ShownAs, KeyOf
  <2>1. CASE ImageEnd
    <3>1. UNCHANGED <<vars, packed, loadVars>> /\ (Loads \/ LoadFails(image, cache))
      BY <2>1 DEF ImageEnd
    <3>2. packed /\ WellNamed
      BY <2>0, <3>1
    <3>3. Loads
      BY <3>1, <3>2, NamesAreFound
    <3> QED
      BY <3>1, <3>3 DEF Loads, loadVars
  <2>2. CASE UNCHANGED allVars
    <3>1. WellNamed /\ phase = "end" /\ packed
      BY <2>0, <2>2 DEF allVars, packVars
    <3> QED
      BY <2>2, <3>1 DEF PackedImageLoads, Loads, allVars, loadVars
  <2> QED
    BY <2>1, <2>2 DEF PackNext, HostStep, HostEnd, Resolve, RefusePack, StageProgram, StageLibrary,
                      RefuseCopy, BuildCache, ImageStep, packVars, PackInv
<1> QED
  BY <1>1, <1>2, PackRunsTheWalk, PackStages, PackedWhole, ImageIsKnown, LoadersAreRight,
     WalkTypes, WalkBooks, WalkOnce, WalkShows, PTL DEF PackSpec

\* With one file for each name, what ran on the host is what runs in the image.
LEMMA SameSet ==
  ASSUME TypeOK, EachFileOnce, PackedIsWhole, AnswersAreShown, PackInv, ImageInv, RunInv, HostInv,
         packed, Loads, hostLoad # Failed, WellNamed, OneEach
  PROVE  LoadedFiles = hostLoad
<1>1. /\ sys \in Sysroot /\ visited \subseteq Files
      /\ LoaderInv(image, cache, loaded, reader, need)
      /\ reader \notin DOMAIN loaded /\ IsElf(Binary)
  BY DEF TypeOK, RunInv, Loads, PackInv, AnswersAreShown
<1>2. ASSUME NEW f \in Files, NEW n \in Wants(f) PROVE n \in Names
  <2>1. sys.elf[f].needed \in Seq(Names)
    BY <1>1, ElfFacts
  <2> QED
    BY <1>2, <2>1 DEF Wants, Range
<1>3. \A f \in Files : Mappable(f) => IsElf(f)
  BY <1>1 DEF Mappable, IsElf, ElfKinds
<1>4. \A n \in Names, f \in Files : Gives(sys.at, NoCache, n, f) <=> ShownAs(f, n)
  BY <1>1, HostTree
<1>5. hostLoad \subseteq visited
  <2>1. ASSUME NEW f \in visited, Mappable(f), NEW n \in Wants(f), NEW g \in Files,
               Gives(sys.at, NoCache, n, g)
        PROVE  g \in visited
    <3>1. n \in Asked /\ n \in Names
      BY <1>1, <1>3, <2>1, AskedIsAnswered
    <3>2. PICK h \in visited : ShownAs(h, n)
      BY <1>1, <1>3, <2>1, AskedIsAnswered
    <3>3. g = h
      BY <1>1, <1>4, <2>1, <3>1, <3>2 DEF OneEach
    <3> QED
      BY <3>3
  <2>2. IsClosed(visited, sys.at, NoCache)
    BY <2>1 DEF IsClosed, EachFileOnce
  <2> QED
    BY <1>1, <2>2 DEF HostInv
<1>6. ASSUME NEW f \in visited, Mappable(f), NEW n \in Wants(f)
      PROVE  n \in Asked /\ n \in Names
  BY <1>1, <1>3, <1>6, AskedIsAnswered
<1>7. LoadedFiles \subseteq hostLoad
  <2>1. ASSUME NEW f \in hostLoad, Mappable(f), NEW n \in Wants(f), NEW g \in Files,
               Gives(image, cache, n, g)
        PROVE  g \in hostLoad
    <3>1. n \in Asked /\ n \in Names
      BY <1>5, <1>6, <2>1
    <3>2. PICK h \in hostLoad : ShownAs(h, n) \/ sys.elf[h].soname = n
      BY <2>1 DEF HostInv
    <3>3. IsKnown(g, n)
      BY <2>1, <3>1, GivenIsKnown
    <3>4. g = h
      BY <1>1, <1>5, <3>1, <3>2, <3>3 DEF OneEach, IsKnown
    <3> QED
      BY <3>4
  <2>2. IsClosed(hostLoad, image, cache)
    BY <2>1 DEF IsClosed, HostInv
  <2> QED
    BY <1>1, <2>2, LoadedIsLeast DEF LoadedFiles
<1>8. hostLoad \subseteq LoadedFiles
  <2>1. \A k \in DOMAIN loaded : loaded[k].file \in Files /\ Mappable(loaded[k].file)
    <3>1. \A k \in DOMAIN loaded : loaded[k] \in Objects
      BY <1>1 DEF LoaderInv, IsLinkMap
    <3> QED
      BY <1>1, <3>1 DEF Objects, LoaderInv, IsLoaded
  <2>2. Binary \in LoadedFiles /\ LoadedFiles \subseteq Files
    <3>1. 1 \in DOMAIN loaded /\ loaded[1].file = Binary
      BY <1>1 DEF LoaderInv, IsLinkMap
    <3> QED
      BY <2>1, <3>1 DEF LoadedFiles
  <2>3. ASSUME NEW f \in LoadedFiles, Mappable(f), NEW n \in Wants(f), NEW g \in Files,
               Gives(sys.at, NoCache, n, g)
        PROVE  g \in LoadedFiles
    <3>1. PICK j \in DOMAIN loaded : f = loaded[j].file
      BY DEF LoadedFiles
    <3>2. f \in visited
      BY <1>5, <1>7
    <3>3. n \in Asked /\ n \in Names
      BY <1>6, <2>3, <3>2
    <3>4. PICK k \in DOMAIN loaded : AnswersTo(image, cache, n, loaded[k].file)
      BY <1>1, <2>3, <3>1, LoadedAnswers
    <3> DEFINE h == loaded[k].file
    <3>5. h \in Files /\ h \in visited \cup {interp}
      BY <1>1, <2>1, LoadedIsStaged
    <3>6. ShownAs(h, n) \/ sys.elf[h].soname = n
      BY <3>3, <3>4, <3>5, GivenIsKnown DEF AnswersTo, IsKnown
    <3>7. g = h
      BY <1>4, <2>3, <3>3, <3>5, <3>6 DEF OneEach
    <3> QED
      BY <3>7 DEF LoadedFiles
  <2>4. IsClosed(LoadedFiles, sys.at, NoCache)
    BY <2>2, <2>3 DEF IsClosed
  <2> QED
    BY <2>2, <2>4 DEF HostInv
<1> QED
  BY <1>7, <1>8

\* What runs in the image is what ran on the host, file by file, if each library is known by one
\* name and each name is of one file.
THEOREM WellNamedImageIsHost == PackSpec => [](WellNamed /\ OneEach => SameLibraries)
<1>1. TypeOK /\ EachFileOnce /\ PackedIsWhole /\ AnswersAreShown
        /\ PackInv /\ ImageInv /\ RunInv /\ HostInv /\ (WellNamed => PackedImageLoads)
        => (WellNamed /\ OneEach => SameLibraries)
  <2> SUFFICES ASSUME TypeOK, EachFileOnce, PackedIsWhole, AnswersAreShown,
                      PackInv, ImageInv, RunInv, HostInv, PackedImageLoads,
                      WellNamed, OneEach, phase = "end", packed, hostLoad # Failed
               PROVE  LoadedFiles = hostLoad
    BY DEF SameLibraries
  <2>1. Loads
    BY DEF PackedImageLoads
  <2> QED
    BY <2>1, SameSet
<1> QED
  BY <1>1, PackRunsTheWalk, PackStages, PackedWhole, ImageIsKnown, LoadersAreRight, HostRunIsLeast,
     WellNamedImageLoads, WalkTypes, WalkOnce, WalkShows, PTL

\* Where the search for an object's names leads, whoever asked for the object.
OwnSearch(f) ==
  Range(DefaultDirs) \cup Range(OwnRpaths(f)) \cup Range(BuildDirs(sys.elf[f].runpath, f))

\* A plain program: the kernel takes it and its loader, it expands no $PLATFORM that is not known,
\* and what an object of it asks for is where the object itself or nobody says, one regular shared
\* object to a name.
PlainHost ==
  /\ IsElf(Binary) /\ sys.interp # NoFile
  /\ sys.interp \in Files => LoadableInterp(sys.interp)
  /\ \A f \in hostLoad :
       /\ sys.platform \/ ~NeedsPlatform(f)
       /\ \A n \in Wants(f) :
            /\ \E d \in OwnSearch(f) : sys.at[d][n] # NoFile
            /\ \A g \in Files : ShownAs(g, n) => sys.elf[g].regular /\ sys.elf[g].kind = "dyn"
            /\ \A g, h \in Files :
                 LET answers(o) == ShownAs(o, n) \/ (o \in hostLoad /\ sys.elf[o].soname = n)
                 IN  answers(g) /\ answers(h) => g = h

\* While a plain program that runs is packed, the walk collects what ld.so loaded and nothing is
\* refused.
PlainInv ==
  /\ phase = "host" => /\ outcome = "reading" /\ missing = <<>> /\ visited = {Binary}
                       /\ libs = <<>> /\ ~packed
  /\ phase = "run" => packed
  /\ hostLoad # Failed /\ sys.includes = <<>> /\ PlainHost /\ phase # "host" =>
       /\ outcome # "refused" /\ missing = <<>>
       /\ visited \subseteq hostLoad
       /\ \A k \in DOMAIN libs : sys.elf[libs[k].path].regular
       /\ phase = "end" => packed

\* The walk finds what a plain program asks for, and ld.so has loaded it.
LEMMA PlainFound ==
  ASSUME TypeOK, WalkInv, HostInv, AtName, hostLoad # Failed, sys.includes = <<>>, PlainHost,
         visited \subseteq hostLoad
  PROVE  /\ Found \in Files /\ Found \in hostLoad
         /\ sys.elf[Found].regular /\ sys.elf[Found].kind = "dyn"
<1> DEFINE f == Head(queue).obj
           n == NextName
<1>1. /\ Head(queue) \in Items /\ pos \in DOMAIN Needed(f) /\ f \in Files
      /\ n \in Names /\ Found \in Files \cup {NoFile}
  BY AtNameTypes
<1>2. f \in hostLoad
  <2>1. 1 \in DOMAIN queue /\ Head(queue) = queue[1]
    BY DEF AtName, TypeOK
  <2> QED
    BY <2>1 DEF WalkInv, AtName
<1>3. n \in Wants(f)
  <2>1. sys.elf[f].needed \in Seq(Names)
    BY <1>1, ElfFacts DEF TypeOK
  <2>2. sys.elf[f].needed \o sys.includes = sys.elf[f].needed
    BY <2>1
  <2> QED
    BY <1>1, <2>2 DEF Needed, NextName, Wants, Range
<1>4. PICK d \in OwnSearch(f) : sys.at[d][n] # NoFile
  BY <1>2, <1>3 DEF PlainHost
<1>5. Found # NoFile
  <2>1. ASSUME NEW dirs \in Seq(Dirs), d \in Range(dirs) PROVE FindLib(n, dirs, f) # NoFile
    <3> DEFINE S == {k \in DOMAIN dirs : sys.at[dirs[k]][n] # NoFile}
    <3>1. PICK k \in DOMAIN dirs : d = dirs[k]
      BY <2>1 DEF Range
    <3>2. S # {} /\ S \in SUBSET Nat
      BY <1>4, <3>1
    <3>3. Min(S) \in S
      BY <3>2, MinExists
    <3>4. sys.at[dirs[Min(S)]][n] # NoFile
      BY <3>3
    <3> QED
      BY <3>2, <3>4, PackedImageAssumption DEF FindLib, FirstHit
  <2>2. CASE d \in Range(DefaultDirs)
    <3>1. FindLib(n, DefaultDirs, f) # NoFile
      BY <2>1, <2>2, ResolverAssumption
    <3> QED
      BY <3>1 DEF Found, Lookup, NextName
  <2>3. CASE d \notin Range(DefaultDirs)
    <3> DEFINE own == OwnRpaths(f)
               up == IF HasRunpath(f) THEN <<>> ELSE Head(queue).rpaths
               run == BuildDirs(sys.elf[f].runpath, f)
    <3>1. own \in Seq(Dirs) /\ up \in Seq(Dirs) /\ run \in Seq(Dirs)
      <4>1. own \in Seq(Dirs)
        BY <1>1, SearchTypes DEF TypeOK
      <4>2. up \in Seq(Dirs)
        BY <1>1 DEF Items
      <4>3. run \in Seq(Dirs)
        <5>1. sys.elf[f].runpath \in Seq(Entries) /\ sys \in Sysroot
          BY <1>1, ElfFacts DEF TypeOK
        <5> QED
          BY <1>1, <5>1, BuildDirsType
      <4> QED
        BY <4>1, <4>2, <4>3
    <3>2. SearchDirs(Head(queue)) = own \o up \o run
      BY DEF SearchDirs
    <3>3. d \in Range(own) \/ d \in Range(run)
      BY <2>3 DEF OwnSearch
    <3> HIDE DEF own, up, run
    <3> DEFINE above == own \o up
    <3>4. above \in Seq(Dirs) /\ Range(above) = Range(own) \cup Range(up)
      BY <3>1, RangeOfConcat
    <3>5. SearchDirs(Head(queue)) = above \o run
      BY <3>2
    <3> HIDE DEF above
    <3>6. above \o run \in Seq(Dirs) /\ Range(above \o run) = Range(above) \cup Range(run)
      BY <3>1, <3>4, RangeOfConcat
    <3>7. FindLib(n, SearchDirs(Head(queue)), f) # NoFile
      BY <2>1, <3>3, <3>4, <3>5, <3>6
    <3> QED
      BY <3>7 DEF Found, Lookup, NextName
  <2> QED
    BY <2>2, <2>3
<1>6. ShownAs(Found, n)
  BY <1>1, <1>5, LookupShown DEF TypeOK, Found, NextName
<1>7. PICK h \in hostLoad : ShownAs(h, n) \/ sys.elf[h].soname = n
  BY <1>2, <1>3 DEF HostInv
<1> HIDE DEF f, n
<1>8. Found \in Files /\ h \in Files
  BY <1>1, <1>5 DEF HostInv
<1>9. Found = h
  BY <1>2, <1>3, <1>6, <1>7, <1>8 DEF PlainHost
<1> QED
  BY <1>2, <1>3, <1>6, <1>7, <1>8, <1>9 DEF PlainHost

\* Each step of such a pack keeps it going.
LEMMA PlainIsKept == PackSpec => []PlainInv
<1>1. PackInit => PlainInv
  BY DEF PackInit, Init, PlainInv, Failed
<1>2. TypeOK /\ WalkInv /\ HostInv /\ PackInv /\ RunInv /\ PlainInv /\ [PackNext]_allVars => PlainInv'
  <2> SUFFICES ASSUME TypeOK, WalkInv, HostInv, PackInv, RunInv, PlainInv,
                      [PackNext]_allVars
               PROVE  PlainInv'
    OBVIOUS
  <2>0. sys' = sys
    <3>1. [Next]_vars \/ UNCHANGED vars
      BY DEF PackNext, HostStep, HostEnd, Resolve, RefusePack, StageProgram, StageLibrary,
             RefuseCopy, BuildCache, ImageStep, ImageEnd, allVars, vars
    <3> QED
      BY <3>1, StepKinds DEF vars
  <2>1. ASSUME hostLoad' = hostLoad, PlainHost' PROVE PlainHost
    <3>1. \A f : OwnSearch(f)' = OwnSearch(f)
      BY <2>0 DEF OwnSearch, OwnRpaths, BuildDirs, HasRunpath
    <3>2. \A f : (NeedsPlatform(f) => NeedsPlatform(f)') /\ Wants(f)' = Wants(f)
      BY <2>0 DEF NeedsPlatform, HasRunpath, Needed, Wants
    <3> QED
      BY <2>0, <2>1, <3>1, <3>2 DEF PlainHost, IsElf, LoadableInterp, ShownAs
  <2>2. CASE HostStep
    <3>1. UNCHANGED <<vars, phase, packed>> /\ phase = "host"
      BY <2>2 DEF HostStep, packVars
    <3> QED
      BY <3>1 DEF PlainInv, vars
  <2>3. CASE HostEnd
    <3>1. UNCHANGED <<vars, packed>> /\ phase = "host" /\ phase' = "resolve"
          /\ (hostLoad' = LoadedFiles \/ hostLoad' = Failed)
      BY <2>3 DEF HostEnd
    <3>2. Binary \in LoadedFiles
      <4>1. 1 \in DOMAIN loaded /\ loaded[1].file = Binary
        BY <3>1 DEF RunInv, LoaderInv, IsLinkMap
      <4> QED
        BY <4>1 DEF LoadedFiles
    <3> QED
      BY <3>1, <3>2 DEF PlainInv, vars
  <2>4. CASE Resolve
    <3>1. /\ phase = "resolve" /\ phase' = "resolve" /\ Next /\ packed' = packed
          /\ hostLoad' = hostLoad
      BY <2>4 DEF Resolve, packVars
    <3> SUFFICES ASSUME hostLoad # Failed, sys.includes = <<>>, PlainHost
                 PROVE  /\ outcome' # "refused" /\ missing' = <<>>
                        /\ visited' \subseteq hostLoad
                        /\ \A k \in DOMAIN libs' : sys.elf[libs'[k].path].regular
      BY <2>0, <2>1, <3>1 DEF PlainInv
    <3>2. /\ outcome # "refused" /\ missing = <<>> /\ visited \subseteq hostLoad
          /\ \A k \in DOMAIN libs : sys.elf[libs[k].path].regular
      BY <3>1 DEF PlainInv
    <3>3. AtName => /\ Found \in Files /\ Found \in hostLoad
                    /\ sys.elf[Found].regular /\ sys.elf[Found].kind = "dyn"
      BY <3>2, PlainFound
    <3>4. CASE StartWalk \/ OpenItem \/ NameSeen \/ CloseItem \/ Finish
      BY <3>2, <3>4 DEF StartWalk, OpenItem, NameSeen, CloseItem, Finish, PlainHost
    <3>5. CASE AddLeaf \/ AddLibrary
      <4>1. CollectFound /\ outcome' = outcome /\ AtName
        BY <3>5 DEF AddLeaf, AddLibrary, CollectFound
      <4>2. missing' = missing
        BY <4>1 DEF CollectFound, ReportNothing
      <4> QED
        BY <3>2, <3>3, <4>1, <4>2, LibsGrow
    <3>6. ~NameMissing
      BY <3>3, ResolverAssumption DEF NameMissing
    <3>7. ~RefuseFound
      BY <3>3 DEF RefuseFound, CollectFound, Unloadable
    <3>8. ~RefuseBinary
      BY DEF RefuseBinary, PlainHost
    <3>9. ~RefusePlatform
      <4>1. SUFFICES ASSUME RefusePlatform PROVE FALSE
        OBVIOUS
      <4>2. 1 \in DOMAIN queue /\ Head(queue) = queue[1]
        BY <4>1 DEF RefusePlatform, TypeOK
      <4>3. Head(queue).obj \in hostLoad
        BY <3>2, <4>1, <4>2 DEF RefusePlatform, WalkInv
      <4> QED
        BY <4>1, <4>3 DEF RefusePlatform, PlainHost
    <3> QED
      BY <3>1, <3>4, <3>5, <3>6, <3>7, <3>8, <3>9 DEF Next
  <2>5. CASE RefusePack \/ RefuseCopy
    <3>1. UNCHANGED <<vars, packed, hostLoad>> /\ phase \in {"resolve", "stage"} /\ phase' = "end"
      BY <2>5 DEF RefusePack, RefuseCopy
    <3>2. \/ outcome = "refused" \/ missing # <<>>
          \/ staged + 1 \in DOMAIN libs /\ ~sys.elf[libs[staged + 1].path].regular
      BY <2>5 DEF RefusePack, RefuseCopy, LibsLeft, PackInv, TypeOK
    <3> QED
      BY <2>1, <3>1, <3>2 DEF PlainInv, vars
  <2>6. CASE StageProgram \/ StageLibrary \/ BuildCache \/ ImageStep \/ ImageEnd
    <3>1. UNCHANGED <<vars, hostLoad>> /\ phase # "host" /\ phase' # "host"
      BY <2>6 DEF StageProgram, StageLibrary, BuildCache, ImageStep, ImageEnd, packVars
    <3>2. /\ phase' = "run" => packed'
          /\ phase' = "end" => packed'
      BY <2>6 DEF StageProgram, StageLibrary, BuildCache, ImageStep, ImageEnd, packVars, PlainInv
    <3> QED
      BY <2>1, <3>1, <3>2 DEF PlainInv, vars
  <2>7. CASE UNCHANGED allVars
    BY <2>1, <2>7 DEF allVars, packVars, vars, PlainInv
  <2> QED
    BY <2>2, <2>3, <2>4, <2>5, <2>6, <2>7 DEF PackNext
<1> QED
  BY <1>1, <1>2, PackRunsTheWalk, PackStages, LoadersAreRight, HostRunIsLeast, WalkTypes,
     WalkBooks, PTL DEF PackSpec

\* A plain program that runs on the host is packed.
THEOREM PlainHostPacks == PackSpec => [](PlainHost => HostRunsSoPacks)
<1>1. PlainInv => (PlainHost => HostRunsSoPacks)
  BY DEF PlainInv, HostRunsSoPacks
<1> QED
  BY <1>1, PlainIsKept, PTL
================================================================================
