------------------------------- MODULE PackedImage -------------------------------
(***************************************************************************)
(* From a host tree to a running image: the dependency walk of Resolver,   *)
(* the staging of src/src/stager.rs (`stage`: the binary, the loader, each *)
(* library and its soname link, then ld.so.cache), and the real loader,    *)
(* ld.so, started once on the host and once in the staged tree.            *)
(*                                                                         *)
(* tests/differential.rs takes ld.so as the oracle of every packed image.  *)
(* So does this module: ld.so and ldconfig are external programs, modelled *)
(* by what the resolver's comments and the tests rely on.                  *)
(***************************************************************************)
EXTENDS Resolver

CONSTANTS
  Base,        \* the file name of each real file
  InterpDir,   \* PT_INTERP, the path the kernel executes, split in two
  InterpName

ASSUME PackedImageAssumption ==
  /\ Base \in [Files -> Names]
  /\ InterpDir \in Dirs /\ InterpName \in Names
  /\ PathNames = {} /\ Interp \notin Names    \* sonames with a slash are left to Resolver
  /\ \A s \in Sysroots :
       /\ \A f \in Files : s.at[s.home[f]][Base[f]] = f
       /\ s.interp \in Files => s.at[InterpDir][InterpName] = s.interp

VARIABLES
  phase,    \* "host", "resolve", "stage", "cache", "run", "end"
  packed,   \* whether `stage` succeeded, so `pack` goes on to write an image
  image,    \* what each path of the staged tree shows, links followed
  staged,   \* how many libraries are staged
  cache,    \* the staged ld.so.cache: name -> the <<directory, file>> listed under it
  loaded,   \* ld.so's link map, in load order
  reader,   \* the object whose DT_NEEDED ld.so reads, and the next entry of it
  need,
  hostLoad  \* what ld.so loaded on the host, or Failed

packVars == <<phase, packed, image, staged, cache>>
loadVars == <<loaded, reader, need>>
allVars  == <<vars, packVars, loadVars, hostLoad>>

Failed == {}
NoTree == [d \in Dirs |-> [n \in Names |-> NoFile]]
NoCache == [n \in Names |-> {}]

--------------------------------------------------------------------------------
\* ld.so (external).

\* The main program is the first object of the link map; only libraries are matched by name.
MainProgram == [file |-> Binary, dir |-> sys.home[Binary], names |-> {}, parent |-> 1]

Expand(entries, origin) == [k \in DOMAIN entries |-> EntryDir(entries[k], origin)]

\* RPATH of the object and of the objects that loaded it, up to the program; an object with
\* RUNPATH contributes none.
RpathChain(k) ==
  LET own(j) == IF HasRunpath(loaded[j].file) THEN <<>>
                ELSE Expand(sys.elf[loaded[j].file].rpath, loaded[j].dir)
      chain[j \in DOMAIN loaded] ==
        own(j) \o (IF j = 1 THEN <<>> ELSE chain[loaded[j].parent])
  IN  chain[k]

LoaderDirs(k) ==
  IF HasRunpath(loaded[k].file)
  THEN Expand(sys.elf[loaded[k].file].runpath, loaded[k].dir)
  ELSE RpathChain(k)

\* The first directory that shows the name, as a set of at most one <<directory, file>>.
FirstShowing(tree, dirs, n) ==
  LET hits == {k \in DOMAIN dirs : tree[dirs[k]][n] # NoFile}
  IN  IF hits = {} THEN {} ELSE {<<dirs[Min(hits)], tree[dirs[Min(hits)]][n]>>}

\* The search path of the object, then the cache, then the default directories.
Hits(tree, listed, k, n) ==
  LET bySearch == FirstShowing(tree, LoaderDirs(k), n)
  IN  IF bySearch # {} THEN bySearch
      ELSE IF listed[n] # {} THEN listed[n]
      ELSE FirstShowing(tree, DefaultDirs, n)

\* An object answers to every name it was loaded by and to its DT_SONAME.
NamesOf(f, n) == {n} \cup ({sys.elf[f].soname} \ {NoName})

\* Only a shared object maps; the program itself is mapped already.
Mappable(f) == sys.elf[f].kind = "dyn" \/ f = Binary

ReadsNeeded == reader \in DOMAIN loaded /\ need \in DOMAIN sys.elf[loaded[reader].file].needed
NeededName  == sys.elf[loaded[reader].file].needed[need]

\* A name of an object that is already mapped is not searched for.
LoadByName ==
  /\ ReadsNeeded
  /\ \E j \in DOMAIN loaded : NeededName \in loaded[j].names
  /\ need' = need + 1
  /\ UNCHANGED <<loaded, reader>>

\* Otherwise the search path decides; the same file under another name is the same object.
LoadBySearch(tree, listed) ==
  /\ ReadsNeeded
  /\ \A j \in DOMAIN loaded : NeededName \notin loaded[j].names
  /\ \E hit \in Hits(tree, listed, reader, NeededName) :
       /\ Mappable(hit[2])
       /\ loaded' =
            IF \E j \in DOMAIN loaded : loaded[j].file = hit[2]
            THEN [j \in DOMAIN loaded |->
                    IF loaded[j].file = hit[2]
                    THEN [loaded[j] EXCEPT !.names = @ \cup {NeededName}] ELSE loaded[j]]
            ELSE Append(loaded, [file |-> hit[2], dir |-> hit[1], parent |-> reader,
                                 names |-> NamesOf(hit[2], NeededName)])
  /\ need' = need + 1
  /\ UNCHANGED reader

NextObject ==
  /\ reader \in DOMAIN loaded /\ ~ReadsNeeded
  /\ reader' = reader + 1 /\ need' = 1
  /\ UNCHANGED loaded

LoadStep(tree, listed) == LoadByName \/ LoadBySearch(tree, listed) \/ NextObject

LoadFails(tree, listed) ==
  /\ ReadsNeeded
  /\ \A j \in DOMAIN loaded : NeededName \notin loaded[j].names
  /\ \A hit \in Hits(tree, listed, reader, NeededName) : ~Mappable(hit[2])

Loads == reader \notin DOMAIN loaded
LoadedFiles == {loaded[k].file : k \in DOMAIN loaded}

ResetLoader == loaded' = <<MainProgram>> /\ reader' = 1 /\ need' = 1

--------------------------------------------------------------------------------
\* The host run: what the operator sees when the program works before packing.

HostStep ==
  /\ phase = "host"
  /\ LoadStep(sys.at, NoCache)
  /\ UNCHANGED <<vars, packVars, hostLoad>>

HostEnd ==
  /\ phase = "host"
  /\ \/ Loads /\ hostLoad' = LoadedFiles
     \/ LoadFails(sys.at, NoCache) /\ hostLoad' = Failed
  /\ phase' = "resolve"
  /\ ResetLoader
  /\ UNCHANGED <<vars, packed, image, staged, cache>>

--------------------------------------------------------------------------------
\* The pack.

Resolve ==
  /\ phase = "resolve"
  /\ Next
  /\ UNCHANGED <<packVars, loadVars, hostLoad>>

\* `resolve_with` failed, or `build_rootfs` refuses a resolution with missing names.
RefusePack ==
  /\ phase = "resolve"
  /\ \/ outcome = "refused"
     \/ outcome = "resolved" /\ missing # <<>>
  /\ phase' = "end"
  /\ UNCHANGED <<vars, packed, image, staged, cache, loadVars, hostLoad>>

\* A copy replaces whatever is at the name.
Copied(tree, f, dir, name) == [tree EXCEPT ![dir][name] = f]

\* The binary at its real path, then the loader at the path PT_INTERP spells.
StageProgram ==
  /\ phase = "resolve" /\ outcome = "resolved" /\ missing = <<>>
  /\ LET placed == Copied(image, Binary, sys.home[Binary], Base[Binary])
     IN  image' = IF interp = NoFile THEN placed
                  ELSE Copied(placed, interp, InterpDir, InterpName)
  /\ phase' = "stage"
  /\ UNCHANGED <<vars, packed, staged, cache, loadVars, hostLoad>>

\* The soname link goes beside the real file, and only where nothing is yet.
LinkSoname(tree, lib) ==
  IF Base[lib.path] # lib.soname /\ tree[sys.home[lib.path]][lib.soname] = NoFile
  THEN Copied(tree, lib.path, sys.home[lib.path], lib.soname)
  ELSE tree

LibsLeft == staged < Len(libs)

StageLibrary ==
  /\ phase = "stage" /\ LibsLeft
  /\ LET lib == libs[staged + 1]
     IN  /\ sys.elf[lib.path].regular
         /\ image' = LinkSoname(Copied(image, lib.path, sys.home[lib.path], Base[lib.path]), lib)
  /\ staged' = staged + 1
  /\ UNCHANGED <<vars, phase, packed, cache, loadVars, hostLoad>>

\* An --include'd FIFO or device is a leaf of the walk that cannot be copied.
RefuseCopy ==
  /\ phase = "stage" /\ LibsLeft
  /\ ~sys.elf[libs[staged + 1].path].regular
  /\ phase' = "end"
  /\ UNCHANGED <<vars, packed, image, staged, cache, loadVars, hostLoad>>

\* ld.so.conf lists the directories the libraries came from and the loader's.
ConfDirs ==
  {sys.home[libs[k].path] : k \in DOMAIN libs}
    \cup (IF interp = NoFile THEN {} ELSE {InterpDir})

KeyOf(f, name) == IF sys.elf[f].soname = NoName THEN name ELSE sys.elf[f].soname

\* ldconfig (external): a well-named shared object is listed by its DT_SONAME, or by its file
\* name without one, and gets a link of that name where there is none.
BuildCache ==
  /\ phase = "stage" /\ staged = Len(libs)
  /\ LET listed(d, n) == /\ n \in CachedNames /\ image[d][n] # NoFile
                         /\ sys.elf[image[d][n]].kind = "dyn"
         under(d, n) == {m \in Names : listed(d, m) /\ KeyOf(image[d][m], m) = n}
     IN  /\ cache' = [n \in Names |-> {hit \in ConfDirs \X Files :
                        \E m \in under(hit[1], n) : image[hit[1]][m] = hit[2]}]
         /\ image' = [d \in Dirs |-> [n \in Names |->
                        IF d \in ConfDirs /\ image[d][n] = NoFile /\ under(d, n) # {}
                        THEN image[d][CHOOSE m \in under(d, n) : TRUE] ELSE image[d][n]]]
  /\ packed' = TRUE
  /\ phase' = "run"
  /\ UNCHANGED <<vars, staged, loadVars, hostLoad>>

--------------------------------------------------------------------------------
\* The image run: the differential test's chroot.

ImageStep ==
  /\ phase = "run"
  /\ LoadStep(image, cache)
  /\ UNCHANGED <<vars, packVars, hostLoad>>

ImageEnd ==
  /\ phase = "run"
  /\ Loads \/ LoadFails(image, cache)
  /\ phase' = "end"
  /\ UNCHANGED <<vars, packed, image, staged, cache, loadVars, hostLoad>>

PackInit ==
  /\ Init
  /\ phase = "host" /\ packed = FALSE
  /\ image = NoTree /\ staged = 0 /\ cache = NoCache
  /\ loaded = <<MainProgram>> /\ reader = 1 /\ need = 1
  /\ hostLoad = Failed

PackNext ==
  \/ HostStep \/ HostEnd
  \/ Resolve \/ RefusePack
  \/ StageProgram \/ StageLibrary \/ RefuseCopy \/ BuildCache
  \/ ImageStep \/ ImageEnd

PackSpec == PackInit /\ [][PackNext]_allVars /\ WF_allVars(PackNext)

--------------------------------------------------------------------------------
\* Properties.

\* An image is whole: each file that the walk collected is at its own path, under no other
\* file's soname link, the loader is where PT_INTERP leads, and whatever name an object in the
\* image needs was answered by a file in the image.
PackedIsWhole ==
  packed =>
    /\ \A f \in visited : image[sys.home[f]][Base[f]] = f
    /\ interp # NoFile => image[InterpDir][InterpName] = interp
    /\ \A f \in visited : IsElf(f) => \A k \in DOMAIN Needed(f) :
         \E e \in Range(edges) : e.from = f /\ e.soname = Needed(f)[k] /\ e.to \in visited

\* tests/differential.rs: if `pack` exits 0, the packed tree runs the program; every name
\* ld.so needs at start is found in the image.
PackedImageLoads == phase = "end" /\ packed => Loads

\* tests/differential.rs: if the host loader runs the program, `pack` succeeds.  Its programs
\* include nothing: an --include that is not found refuses the pack, whatever the host runs.
HostRunsSoPacks ==
  phase = "end" /\ hostLoad # Failed /\ sys.includes = <<>> => packed

\* A program that runs on the host runs in the image with the same libraries.
SameLibraries == phase = "end" /\ packed /\ hostLoad # Failed => LoadedFiles = hostLoad
================================================================================
