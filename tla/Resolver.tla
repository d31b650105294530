-------------------------------- MODULE Resolver --------------------------------
(***************************************************************************)
(* The dependency walk of src/src/resolver.rs (`resolve_with`): from the   *)
(* packed binary, breadth first, over every DT_NEEDED name, with ld.so's   *)
(* search order emulated from the ELF tags alone.                          *)
(*                                                                         *)
(* A host tree (`sys`) is data: which real file each directory shows under *)
(* each name (symlinks already followed, as `canonical` does), and the     *)
(* link facts of each file.  It is a variable only so that a model checker *)
(* explores a whole family of trees; no action writes it.                  *)
(***************************************************************************)
EXTENDS Naturals, Sequences, FiniteSetsExt, Functions

CONSTANTS
  Files,        \* real files of the host tree
  Binary,       \* the packed binary
  Dirs,         \* directories of the host tree
  Names,        \* sonames and file names
  PathNames,    \* the names that hold a slash: paths, never searched for
  CachedNames,  \* the names ldconfig lists in the cache (`ldconfig_caches_name`)
  PlatformDir,  \* what an entry with $PLATFORM becomes once expanded
  DefaultDirs,  \* sysroot.default_dirs, in search order
  Sysroots,     \* the host trees considered, each with an --include list
  NoFile, NoName, NoInterp, Origin, Platform, Interp

Kinds == {"dyn", "exec", "core",   \* ELF files, by e_type
          "data",                  \* not an ELF
          "unreadable"}            \* no bytes, or a corrupt ELF
ElfKinds == {"dyn", "exec", "core"}

\* An entry of a split RPATH or RUNPATH string.
Entries == Dirs \cup {Origin, Platform}

\* `rpath` and `runpath` are the split entries, `rpathWhole` and `runpathWhole` the strings
\* that hold a ':' read whole as one directory.
Elf == [kind : Kinds, regular : BOOLEAN, soname : Names \cup {NoName},
        needed : Seq(Names), rpath : Seq(Entries), runpath : Seq(Entries),
        rpathWhole : Seq(Dirs), runpathWhole : Seq(Dirs)]

Sysroot == [at   : [Dirs -> [Names -> Files \cup {NoFile}]],
            home : [Files -> Dirs],
            elf  : [Files -> Elf],
            interp : Files \cup {NoFile, NoInterp},
            platform : BOOLEAN,
            includes : Seq(Names)]

ASSUME ResolverAssumption ==
  /\ Binary \in Files /\ PlatformDir \in Dirs
  /\ PathNames \subseteq Names /\ CachedNames \subseteq Names
  /\ DefaultDirs \in Seq(Dirs)
  /\ Sysroots \subseteq Sysroot
  /\ NoFile \notin Files /\ NoInterp \notin Files \cup {NoFile}
  /\ NoName \notin Names
  /\ Origin \notin Dirs /\ Platform \notin Dirs \cup {Origin}

VARIABLES
  sys,      \* the host tree and the --include list
  outcome,  \* "reading", "walking", "resolved" or "refused"
  interp,   \* the loader found for PT_INTERP, or NoFile
  queue,    \* the walk's queue; the head is the object being walked
  pos,      \* the next name of the head's list, 0 before its search path is built
  visited,  \* the real files seen
  libs,     \* resolution.libs
  edges,    \* resolution.edges
  missing,  \* resolution.missing
  hints     \* resolution.hints, as <<cause, name, the directory or object it is about>>

vars == <<sys, outcome, interp, queue, pos, visited, libs, edges, missing, hints>>

Items == [obj : Files, rpaths : Seq(Dirs), wholes : Seq(Dirs), declared : Nat]
Lib   == [soname : Names, path : Files]
Edge  == [from : Files, soname : Names, to : Files \cup {NoFile}]

PushUnique(s, x) == IF x \in Range(s) THEN s ELSE Append(s, x)

--------------------------------------------------------------------------------
\* Search paths.

IsElf(f) == sys.elf[f].kind \in ElfKinds

\* The binary carries the --include entries after its own names.
Needed(f) == IF f = Binary THEN sys.elf[f].needed \o sys.includes ELSE sys.elf[f].needed

HasRunpath(f) == sys.elf[f].runpath # <<>> \/ sys.elf[f].runpathWhole # <<>>

EntryDir(e, origin) ==
  CASE e = Origin   -> origin
    [] e = Platform -> PlatformDir
    [] OTHER        -> e

BuildDirs(entries, f) == [k \in DOMAIN entries |-> EntryDir(entries[k], sys.home[f])]

\* An object with RUNPATH searches no RPATH, neither its own nor an inherited one.
OwnRpaths(f) == IF HasRunpath(f) THEN <<>> ELSE BuildDirs(sys.elf[f].rpath, f)
OwnWholes(f) == IF HasRunpath(f) THEN <<>> ELSE sys.elf[f].rpathWhole

\* Mutants: no inherited RPATH; the ancestors' RPATH first.
SearchDirsOwn(item) == OwnRpaths(item.obj) \o BuildDirs(sys.elf[item.obj].runpath, item.obj)
SearchDirsAncestors(item) ==
  (IF HasRunpath(item.obj) THEN <<>> ELSE item.rpaths) \o SearchDirsOwn(item)
SearchDirs(item) ==
  OwnRpaths(item.obj) \o (IF HasRunpath(item.obj) THEN <<>> ELSE item.rpaths)
    \o BuildDirs(sys.elf[item.obj].runpath, item.obj)

WholeDirs(item) ==
  OwnWholes(item.obj) \o (IF HasRunpath(item.obj) THEN <<>> ELSE item.wholes)
    \o sys.elf[item.obj].runpathWhole

\* RPATH passes down the tree, RUNPATH does not; an object with RUNPATH still passes its
\* ancestors' RPATH on.
ChildRpaths(item) == OwnRpaths(item.obj) \o item.rpaths
ChildWholes(item) == OwnWholes(item.obj) \o item.wholes

\* An entry with $PLATFORM that a search of this object or a child could use.
NeedsPlatform(f) ==
  \/ /\ ~HasRunpath(f)
     /\ Platform \in Range(sys.elf[f].rpath)
     /\ Needed(f) # <<>>
  \/ /\ Platform \in Range(sys.elf[f].runpath)
     /\ \E n \in Range(Needed(f)) : n \notin PathNames

--------------------------------------------------------------------------------
\* Finding one name.

\* The file under `name` in the first of the `dirs` at one of these positions.
FirstHit(dirs, name, positions) ==
  IF positions = {} THEN NoFile ELSE sys.at[dirs[Min(positions)]][name]

\* A name with a slash is a path, taken from the object's directory and not searched for.
FindLib(name, dirs, f) ==
  IF name \in PathNames
  THEN sys.at[sys.home[f]][name]
  ELSE FirstHit(dirs, name, {k \in DOMAIN dirs : sys.at[dirs[k]][name] # NoFile})

\* Mutant: the cache is taken to list every well-named file.
ListedByName(f, name) == name \in CachedNames

\* Whether ld.so would find the file under this name through the image's cache: ldconfig keys
\* a regular, well-formed ELF by its SONAME.  Any other file is kept for the walk to refuse.
ListedAs(f, name) ==
  /\ name \in CachedNames
  /\ (sys.elf[f].regular /\ IsElf(f)) => sys.elf[f].soname \in {name, NoName}

FindCached(name, dirs) ==
  IF name \in PathNames
  THEN NoFile
  ELSE FirstHit(dirs, name, {k \in DOMAIN dirs : /\ sys.at[dirs[k]][name] # NoFile
                                                /\ ListedAs(sys.at[dirs[k]][name], name)})

\* A DT_NEEDED name loads from a whole-string directory only through the cache; an --include
\* is the operator's file and stages from there as it is.
InWholes(item, k, dirs) ==
  IF k <= item.declared
  THEN FindCached(Needed(item.obj)[k], dirs)
  ELSE FindLib(Needed(item.obj)[k], dirs, item.obj)

Lookup(item, k) ==
  LET name   == Needed(item.obj)[k]
      bySplit == FindLib(name, SearchDirs(item), item.obj)
      byWhole == InWholes(item, k, WholeDirs(item))
  IN  IF bySplit # NoFile THEN bySplit
      ELSE IF byWhole # NoFile THEN byWhole
      ELSE FindLib(name, DefaultDirs, item.obj)

\* Why a name was not found: copies ldconfig would list under another name, and a copy in an
\* inherited RPATH that RUNPATH hides.
MissHints(item, k) ==
  LET name == Needed(item.obj)[k]
      uncached == IF k > item.declared \/ name \in PathNames THEN {} ELSE
        {<<"uncached", name, d>> : d \in
           {e \in Range(WholeDirs(item)) :
              sys.at[e][name] # NoFile /\ ~ListedAs(sys.at[e][name], name)}}
      probe == IF FindLib(name, item.rpaths, item.obj) # NoFile
               THEN FindLib(name, item.rpaths, item.obj)
               ELSE InWholes(item, k, item.wholes)
      hidden == IF HasRunpath(item.obj) /\ probe # NoFile
                THEN {<<"hidden", name, item.obj>>} ELSE {}
  IN  uncached \cup hidden

--------------------------------------------------------------------------------
\* The walk.

Init ==
  /\ sys \in Sysroots
  /\ outcome = "reading"
  /\ interp = NoFile
  /\ queue = <<>> /\ pos = 0
  /\ visited = {Binary}
  /\ libs = <<>> /\ edges = <<>> /\ missing = <<>> /\ hints = {}

\* `bail!`: the partial resolution is dropped, so nothing below matters any more.
Bail ==
  /\ outcome' = "refused"
  /\ UNCHANGED <<sys, interp, queue, pos>>

\* The kernel loads an ET_DYN or ET_EXEC interpreter from a regular file.
LoadableInterp(f) == sys.elf[f].regular /\ sys.elf[f].kind \in {"dyn", "exec"}

RefuseBinary ==
  /\ outcome = "reading"
  /\ \/ ~IsElf(Binary)
     \/ sys.interp \in Files /\ ~LoadableInterp(sys.interp)
  /\ Bail
  /\ UNCHANGED <<visited, libs, edges, missing, hints>>

StartWalk ==
  /\ outcome = "reading"
  /\ IsElf(Binary)
  /\ sys.interp \in Files => LoadableInterp(sys.interp)
  /\ outcome' = "walking"
  /\ interp' = IF sys.interp \in Files THEN sys.interp ELSE NoFile
  /\ missing' = IF sys.interp = NoFile THEN <<Interp>> ELSE <<>>
  /\ queue' = <<[obj |-> Binary, rpaths |-> <<>>, wholes |-> <<>>,
                declared |-> Len(sys.elf[Binary].needed)]>>
  /\ UNCHANGED <<sys, pos, visited, libs, edges, hints>>

Expandable == sys.platform \/ ~NeedsPlatform(Head(queue).obj)

\* Build the search path of the object at the head of the queue.
OpenItem ==
  /\ outcome = "walking" /\ queue # <<>> /\ pos = 0
  /\ Expandable
  /\ pos' = 1
  /\ UNCHANGED <<sys, outcome, interp, queue, visited, libs, edges, missing, hints>>

RefusePlatform ==
  /\ outcome = "walking" /\ queue # <<>> /\ pos = 0
  /\ ~sys.platform /\ NeedsPlatform(Head(queue).obj)
  /\ Bail
  /\ UNCHANGED <<visited, libs, edges, missing, hints>>

\* The next name of the head's list, and its edge: what every lookup step does.
AtName ==
  /\ outcome = "walking" /\ queue # <<>>
  /\ pos > 0 /\ pos <= Len(Needed(Head(queue).obj))

NextName == Needed(Head(queue).obj)[pos]
Found    == Lookup(Head(queue), pos)

RecordEdge ==
  edges' = Append(edges, [from |-> Head(queue).obj, soname |-> NextName, to |-> Found])

\* Mutant: a miss that a hint explains is not reported.
ReportUnhinted ==
  missing' = IF MissHints(Head(queue), pos) = {} THEN PushUnique(missing, NextName) ELSE missing
ReportMissing == missing' = PushUnique(missing, NextName)

NameMissing ==
  /\ AtName
  /\ Found = NoFile
  /\ RecordEdge
  /\ ReportMissing
  /\ hints' = hints \cup MissHints(Head(queue), pos)
  /\ pos' = pos + 1
  /\ UNCHANGED <<sys, outcome, interp, queue, visited, libs>>

Child == [obj |-> Found, rpaths |-> ChildRpaths(Head(queue)), wholes |-> ChildWholes(Head(queue)),
          declared |-> Len(sys.elf[Found].needed)]

\* Mutant: a library seen before is walked again.  Its edge and inherited path, which would only
\* grow, are left out, and it waits in the queue once, so that the states stay finite.
NameSeenAgain ==
  /\ AtName
  /\ Found \in visited
  /\ queue' = IF IsElf(Found) /\ Found \notin {item.obj : item \in Range(Tail(queue))}
              THEN Append(queue, [Child EXCEPT !.rpaths = <<>>, !.wholes = <<>>])
              ELSE queue
  /\ pos' = pos + 1
  /\ UNCHANGED <<sys, outcome, interp, visited, libs, edges, missing, hints>>
\* A diamond, a cycle or a repeated name: the edge is kept, the file is staged once.
NameSeen ==
  /\ AtName
  /\ Found \in visited
  /\ RecordEdge
  /\ pos' = pos + 1
  /\ UNCHANGED <<sys, outcome, interp, queue, visited, libs, missing, hints>>

IsNew == Found \in Files \ visited
ReportNothing == UNCHANGED <<missing, hints>>

CollectFound ==
  /\ AtName
  /\ IsNew
  /\ RecordEdge
  /\ visited' = visited \cup {Found}
  /\ libs' = Append(libs, [soname |-> NextName, path |-> Found])
  /\ ReportNothing

\* Mutant: any ELF will do for a name an ELF declared.
UnloadableNonElf(item, k, f) ==
  \/ sys.elf[f].kind = "unreadable"
  \/ k <= item.declared /\ (~sys.elf[f].regular \/ sys.elf[f].kind = "data")

\* A file that cannot be read is never a leaf; a file an ELF names must be a shared object.
Unloadable(item, k, f) ==
  \/ sys.elf[f].kind = "unreadable"
  \/ k <= item.declared /\ (~sys.elf[f].regular \/ sys.elf[f].kind # "dyn")

RefuseFound ==
  /\ CollectFound
  /\ Unloadable(Head(queue), pos, Found)
  /\ Bail

\* An --include'd file that is not an ELF is a leaf: staged, and not walked.
AddLeaf ==
  /\ CollectFound
  /\ ~Unloadable(Head(queue), pos, Found)
  /\ ~IsElf(Found)
  /\ pos' = pos + 1
  /\ UNCHANGED <<sys, outcome, interp, queue>>

\* Mutant: the new library is walked next, depth first.
EnqueueNext == queue' = <<Head(queue), Child>> \o Tail(queue)
Enqueue     == queue' = Append(queue, Child)

AddLibrary ==
  /\ CollectFound
  /\ ~Unloadable(Head(queue), pos, Found)
  /\ IsElf(Found)
  /\ Enqueue
  /\ pos' = pos + 1
  /\ UNCHANGED <<sys, outcome, interp>>

AllAsked == pos > Len(Needed(Head(queue).obj))

CloseItem ==
  /\ outcome = "walking" /\ queue # <<>>
  /\ AllAsked
  /\ queue' = Tail(queue) /\ pos' = 0
  /\ UNCHANGED <<sys, outcome, interp, visited, libs, edges, missing, hints>>

\* Mutant: the walk stops at the first miss.
WalkedOrMissed == queue = <<>> \/ missing # <<>>
Walked         == queue = <<>>

Finish ==
  /\ outcome = "walking" /\ Walked
  /\ outcome' = "resolved"
  /\ UNCHANGED <<sys, interp, queue, pos, visited, libs, edges, missing, hints>>

Next ==
  \/ RefuseBinary \/ StartWalk
  \/ OpenItem \/ RefusePlatform
  \/ NameMissing \/ NameSeen
  \/ RefuseFound \/ AddLeaf \/ AddLibrary
  \/ CloseItem \/ Finish

\* One thread runs the walk to its end: whenever a step is possible, one is taken.
Spec == Init /\ [][Next]_vars /\ WF_vars(Next)

--------------------------------------------------------------------------------
\* Properties.

\* Every variable has its type; in particular the directories a child inherits are expanded.
TypeOK ==
  /\ sys \in Sysroot
  /\ outcome \in {"reading", "walking", "resolved", "refused"}
  /\ interp \in Files \cup {NoFile}
  /\ queue \in Seq(Items)
  /\ pos \in Nat
  /\ visited \subseteq Files
  /\ libs \in Seq(Lib)
  /\ edges \in Seq(Edge)
  /\ missing \in Seq(Names \cup {Interp})
  /\ hints \subseteq {"uncached", "hidden"} \X Names \X (Dirs \cup Files)

\* The edge that answers the k-th name of an object.
AnswersName(f, k) ==
  \E e \in Range(edges) :
    e.from = f /\ e.soname = Needed(f)[k] /\ e.to \in visited \cup {NoFile}

\* The bookkeeping that closes the walk: each queued object is a collected ELF, each collected
\* ELF is queued or has every name answered, and the head has every name before `pos` answered.
\* A lost queue entry, a skipped name or a dropped edge breaks it.
WalkInv ==
  /\ outcome = "reading" => /\ queue = <<>> /\ pos = 0 /\ visited = {Binary}
                            /\ libs = <<>> /\ edges = <<>> /\ missing = <<>> /\ hints = {}
  /\ outcome \in {"walking", "resolved"} =>
       /\ \A k \in DOMAIN queue :
            /\ queue[k].obj \in visited /\ IsElf(queue[k].obj)
            /\ queue[k].declared = Len(sys.elf[queue[k].obj].needed)
       /\ \A f \in visited : IsElf(f) =>
            \/ \E k \in DOMAIN queue : queue[k].obj = f
            \/ \A k \in DOMAIN Needed(f) : AnswersName(f, k)
       /\ queue # <<>> =>
            \A k \in DOMAIN Needed(Head(queue).obj) :
              k < pos => AnswersName(Head(queue).obj, k)
  /\ outcome = "resolved" => queue = <<>>

\* A finished walk has asked for every name of every ELF it collected, and each answer is a
\* collected file or a reported miss: no branch of the tree is dropped in silence.
ResolvedIsClosed ==
  outcome = "resolved" =>
    \A f \in visited : IsElf(f) => \A k \in DOMAIN Needed(f) : AnswersName(f, k)

\* `missing`, the list `pack` refuses on, names exactly the edges that lead nowhere, and the
\* absent program interpreter.
MissingIsExact ==
  outcome # "refused" =>
    \A n \in Names \ {Interp} :
      n \in Range(missing) <=> \E e \in Range(edges) : e.soname = n /\ e.to = NoFile

\* Nothing ships that nothing asked for: each library was named by the binary or by a
\* library collected before it, and the recorded edge says so.
EveryLibWasNamed ==
  \A k \in DOMAIN libs :
    \E e \in Range(edges) :
      /\ e.to = libs[k].path /\ e.soname = libs[k].soname
      /\ e.from = Binary \/ \E j \in 1 .. k - 1 : e.from = libs[j].path

\* A real file is staged once, however many names, parents or cycles lead to it, and the
\* binary is never listed as its own library.
EachFileOnce ==
  /\ visited = {Binary} \cup {libs[k].path : k \in DOMAIN libs}
  /\ \A k \in DOMAIN libs :
       /\ libs[k].path # Binary
       /\ \A j \in DOMAIN libs : libs[k].path = libs[j].path => k = j

\* RPATH is inherited and RUNPATH is not: every directory handed down the tree is an RPATH
\* entry of a collected object that has no RUNPATH.
InheritedDirsAreRpaths ==
  \A k \in DOMAIN queue : \A d \in Range(queue[k].rpaths) :
    \E f \in visited : ~HasRunpath(f) /\ d \in Range(BuildDirs(sys.elf[f].rpath, f))

\* Only a name the operator included can put a file that is not a shared object in the image.
OnlyIncludesMayBeForeign ==
  outcome # "refused" =>
    \A k \in DOMAIN libs :
      \/ sys.elf[libs[k].path].kind = "dyn"
      \/ libs[k].soname \in Range(sys.includes)

\* The resolution is exact: a name is reported if and only if it was not found; and what is
\* staged was named by what was collected before it, is there once, whatever its names, and only
\* an include made it anything but a shared object.
ResolutionIsExact ==
  MissingIsExact /\ EveryLibWasNamed /\ EachFileOnce /\ OnlyIncludesMayBeForeign

\* When an object was collected; the binary is there first.
Rank(f) == IF f = Binary THEN 0 ELSE CHOOSE k \in DOMAIN libs : libs[k].path = f

\* The walk is breadth first, as ld.so's is: objects have their names looked up in the order in
\* which they were collected, so a file that two objects name is collected through the one that
\* ld.so loads first, with that one's search path to inherit.
BreadthFirst ==
  \A k \in DOMAIN edges : k > 1 => Rank(edges[k - 1].from) <= Rank(edges[k].from)

\* The walk ends on every tree, cycles and self-references included.
Terminates == <>(outcome \in {"resolved", "refused"})

\* The walk implements the closure: edges are its answers, visited files its collection.
Closure == INSTANCE DependencyClosure WITH
  Object <- Files, Name <- Names, Start <- Binary, Nothing <- NoFile,
  demand <- [f \in Files |-> IF IsElf(f) THEN Range(Needed(f)) ELSE {}],
  collected <- visited,
  answers <- {<<e.from, e.soname, e.to>> : e \in Range(edges)},
  verdict <- IF outcome \in {"resolved", "refused"} THEN outcome ELSE "open"

ImplementsClosure == Closure!Spec

================================================================================
