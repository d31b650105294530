# Verification of scratchsmith

scratchsmith packs a prebuilt dynamic Linux ELF binary into a minimal `FROM scratch` OCI
image: it walks the binary's dependencies the way ld.so does, stages the files, and delivers
the tree as a directory, an archive, a docker image or a registry push. This directory holds
TLA+ modules of its parts, TLC configurations that check them on small instances, and proofs,
checked by TLAPS, of the properties that matter most for every value of the constants.
Source paths are relative to the repository (`src/…`, so its own `src/resolver.rs` is
`src/src/resolver.rs`).

## 1. The system

### Components

| component | source | state it keeps | operations |
|---|---|---|---|
| dependency walk | `resolver.rs` | a queue of objects with the search lists they inherit, the visited files, libraries, edges, misses and hints | open the next object, look up its next name, collect, refuse, finish |
| graph | `graph.rs`, `report.rs` | none | make nodes and edges of a walk, print the tree, fail on a miss |
| stager and loader cache | `stager.rs` | the staged tree | copy the program, loader and libraries, link sonames, write `ld.so.cache`, name services, extras, added files, locales |
| pack pipeline | `pack.rs`, `supplychain.rs` | the tree, what the scanners saw, warnings, what was delivered and signed | the phases of a pack, in order, each of which may fail |
| package records | `packages.rs`, `rpm.rs` | the answers of dpkg or rpm so far; records staged in the tree and the guard that removes them | look up owners, take records, stage them, keep or drop them |
| image assembly | `image.rs` | the list of paths, the tar in the making | walk and sort the staged tree, layer, config, layout, docker load and run |
| output destinations | `image.rs`, `pack.rs` | the output path, temporary siblings, file modes | write an archive through a sibling or straight, claim or check a directory |
| registry push and index | `registry.rs` | the registry's manifests, blobs and tags; the index in the making | log in, push an image, read children, publish an index, sign |
| unpack | `unpack.rs` | the budget, the tree, the record of cleared bits | read the archive, whiteouts, extraction |
| diff | `diff.rs` | none | scan two trees and compare them |
| watch | `watch.rs` | the stamp of the last pack and of the last look, a count of absences | pack, poll, debounce |
| configuration, command line | `config.rs`, `cli.rs`, `main.rs` | the options in effect | merge a profile, the base and the flags, refuse, choose the sink, dispatch, exit |
| size and security report, lint, doctor | `report.rs`, `lint.rs`, `doctor.rs` | none | read and print |

### How they interact

`pack` calls the walk once and passes its resolution to the stager; phases of the pipeline
share the staged tree, and package records are in it only while a scanner runs unless they are
to ship. `watch` calls `pack` again and again while a build rewrites the binary, and is itself
started by the command line, which decides the sink and who may fail. Packs know
nothing of each other and meet at an output path or in a registry; `index` meets other jobs'
pushes there. What `pack` writes, `unpack` and `diff` read. External programs decide much of
what is correct: ld.so and ldconfig, the
registry, `tar`, dpkg and rpm, docker, syft, grype and cosign. They are modelled by what the
code and its tests rely on, and marked external in `PROJECT.json`.

### What is hard

- the walk emulates ld.so's search order without ld.so: inheritance of RPATH and not of
  RUNPATH, one file under many names, cycles, names found for one asker and not for another;
- links that the pack itself stages, and that every later path of the pack runs through;
- the order of gates, scanners and records over one shared tree, and every early return;
- a build that changes the file while a pack reads it, with nothing but mtime and length to see;
- a package database that another process changes between two calls of one lookup;
- packs, readers and signals at one output path;
- tags that move while they are read, answers that are lost, registries that name another
  digest;
- layers whose whiteouts, links and files meet in any order, and archives that claim any size;
- one image of one tree, whatever order the file system lists it in and whoever staged it;
- options from three layers, each merged by rules of its own.

`PROJECT.json` lists each hazard at its line with the properties that cover it.

### What makes each component correct

- Walk: closed (every name of every collected ELF is answered), each file once, exactly the
  misses reported, nothing unasked for, only included names foreign, breadth first, ends.
- Graph: shows every file once and every edge, and names every name it fails for.
- Stager with ld.so: a packed image starts; a program that starts on the host is packed, with
  the same libraries.
- Stager, path by path: every write stays inside the staging root, nothing staged is displaced,
  what was added is there or a warning says so, kept links lead somewhere.
- Pipeline: what ships passed the gates; scanners saw what ships; records ship only if asked
  for; staged and user files survive; explicit requests are answered and the default never
  costs a pack.
- Package records: a package is named for a file only if it owned it, a file without a package
  had no owner, the records are those of the report.
- Image assembly, `diff`: one tree is one image, and what was packed is what is unpacked.
- Outputs: a reader sees a whole archive, a private one is never loosened, siblings are left
  only by a signal, nothing stale is merged into a tree.
- Registry: entries of an index agree with the images they name and resolve where the index
  is; signatures are of what the signing job pushed.
- Unpack: the tree is the overlay of the layers, the report is of the final image, memory is
  bounded by the archive, it ends.
- Watch: the image catches up with the last binary unless the pack of it failed, packs answer changes.
- Command line: what was asked is done or refused, a local pack stays local, a refusal names the
  layer at fault.

## 2. The plan

In the order they were written, each module after those it extends:

1. `DependencyClosure` (abstract), `Resolver`, `DepGraph`: the walk and its view. Proofs in
   `ResolverProofs`.
2. `PackedImage` over `Resolver` (stager and ld.so in one behaviour; its proofs are in
   `ResolverProofs`, after those of the walk) and `Staging` (the stager path by path) with
   `StagingProofs`.
3. `PackPipeline` with `PackPipelineProofs`; `Ownership` with `OwnershipProofs`, the lookup whose
   answer the pipeline takes.
4. `Outputs`, `Registry` and `Watch`, each with its proofs: what packs share with others.
5. `Unpack`, and `Delivery` over it: from a staged tree to an image, and back. Proofs in
   `DeliveryProofs`.
6. `CommandLine` over `Watch`: one invocation from the parse to the exit code. Proofs in
   `CommandLineProofs`.

An `MC<module>` holds the instances of a module for TLC; a `.cfg` names the properties of a run.

Worth doing next: an abstract specification of the staged tree that both `Staging` and
`PackPipeline` implement (today the pipeline takes each step of the stager as one set of
entries); lint's classification as an operator checked against a reference; `StagedStays`
(section 5) for sonames with a slash and programs named through `..`.

## 3. The modules and the code

**`Resolver`** is `resolve_with`. A host tree (`sys`) is data, chosen in `Init` and never
written: what each directory shows under each name with links followed, and the link facts of
each file (kind, DT_SONAME, DT_NEEDED, RPATH, RUNPATH, and the strings with a `:` read whole).
`StartWalk` and `RefuseBinary` are the checks before the loop; `OpenItem` builds the search
lists of the head of the queue; `NameMissing`, `NameSeen`, `CollectFound` with `AddLibrary`,
`AddLeaf` and `RefuseFound` are the ways one name ends; `CloseItem` and `Finish` the ends of
the loops. `SearchDirs`, `FindLib`, `FindCached` and `MissHints` are the functions of that
name. **`DependencyClosure`** is the promise without queue, search or order: each name of a
collected object gets an answer, an answer is collected, and the verdict is positive only if
none is open. `Resolver!Closure` is the refinement: `edges` are the answers, `visited` the
collection.

**`DepGraph`** is a view of a finished walk: `DepNodes` are the nodes that `graph.rs` builds,
grouped by parent, and `ToText` the lines that `report.rs` prints, an object expanded where it
is first met. The recursion of `render_children` is a list of lines to come, of which
`RenderLine` takes the first; each line has the object that it is indented under. It has no
action.

**`PackedImage`** runs, in one behaviour, ld.so on the host, the walk, the staging, ldconfig,
and ld.so in the staged tree. `StageProgram`, `StageLibrary`, `LinkSoname` and `BuildCache`
are `stage_files`, `symlink_soname` and `generate_ld_cache`; the loader's actions are external
and follow the oracle of `tests/differential.rs`.

**`Staging`** has one action per file of the stager, over a tree that maps image paths to
directories, files and links. `WalkStep` is one component of `image_dir`: links are read inside
the image, `..` steps back, and what is missing is made, passed by name, or an error, as the
caller asked (`how`). `Replaced` is a write by rename, `Linked` is symlink(2). `AddAnswer` is the
decision of `--symlinks` for one entry of `--add-file`. `HostFails` lets any step fail.

**`PackPipeline`** has one action per phase of `pack` and the tree as a set of entries, each
with who staged it. `guard` is `StagedRecords`, whose drop runs on every exit. `FailOver` is
what an error leaves: nothing of a temporary directory, a half-staged tree of `--no-build`.
A tool that is called may succeed or fail; grype answers with any set of findings in `Scans`,
`Counted` sorts them as `parse_grype` does and `AtOrAbove` is the threshold of `--scan-fail-on`
(a finding without a rank counts at the lowest threshold only).

**`Ownership`** has one action per call of dpkg or rpm, and a host that upgrades, removes or
diverts between any two of them. `Lists` is what the database says a package has: dpkg goes on
naming the configuration files of a package that was removed and not purged, and the lookup does
not ask for its status. `Search`, `SearchAgain` (merged directories), `AskConvention`
(the CA bundle), `Show` and `Stanzas` are dpkg's; `AskFile`, `AskBundle`, `Export`, `List` and
`BuildDatabase` are rpm's. `Fails` is the fallback: a default selection is asked again without
records, an explicit one fails. `owned` and `unowned` remember, for the properties alone, what
was true at some moment of the lookup.

**`Outputs`** has packs with `--oci-archive` or `--no-build` and readers on one path. A file
is the sequence of blocks that writers put in it; a sibling is a file that has a temporary
name. `LookArchive` to `Persist` are `write_oci_archive`, with the metadata read first and
used to the end; `CheckDir` and `ClaimDir` are `check_output_dir` and `claim_output_dir`.

**`Registry`** has jobs that push or index over shared tags. A digest stands for its bytes, so
an image is its own digest. `LogIn` chooses what the machine has for a credential and a trust
store; `FetchManifest` and `FetchConfig` are the two reads of one child, with the other jobs
in between; `Put` moves the tag and answers, or its answer is lost.

**`Unpack`** reads an archive, then takes each layer in two passes over one tar. A whiteout
walks the links of the image one at a time (`OpenWhiteout`, `FollowLink`), with the limit of
`open_dir_in_root`, and lands, or finds nothing. Extraction follows `tar`'s rules. The tree is
two levels deep, and the target is new.

**`Delivery`** is `build_image` and what becomes of its result. `Walk` lists the staged tree in
any order the file system may answer, `WalkEnds` sorts, `ReadStaged` writes one canonical entry,
and `Hand` or `WriteArchive` delivers. `PackAgain` packs the same files staged with other modes;
`OciArchive` is the layout as `unpack` takes it: what each blob comes to is one of `Sizes`, above
the caps too, and a name of `Hides`, which begins with `.wh.`, is a whiteout (`Taken`), whatever was
staged under it. `Open` gives our archive to `Unpack`, and `ScanStaged`, `ScanUnpacked` and `Diff`
are `diff.rs`.
A digest is what was digested, so two images are one if and only if their bytes are.

**`Watch`** is the poll loop against a build that unlinks, writes, completes, installs and
puts back the file between any two steps. A pack reads the file twice, for its dependencies and
for its bytes, and then delivers (`DeliverImage`). It may fail at each of the three, also on a whole
binary (`PackFails`: a gate, a full disk, a `docker load` that is refused; at the last with the
image out or not, as a smoke run runs after it). A failure after the first is printed, and the loop
waits for the next change.

**`CommandLine`** is one invocation. `Clap` refuses what flags exclude or lack (`Misused`; clap
waives a flag that is required where another flag of the line excludes it, so `--output` passes
beside `--oci-archive`, `--push`, `--watch` or `--smoke`); `Load`, `SelectProfile`
and `MergeFlags` build the layer in effect; `Check` and `Start` are the refusals of
`dispatch`, before and after the sink is known: a value that does not parse, then a pair that is
none, then what is said twice. A single pack is `Stage`, `Deliver`, `Smoke`,
`Sign`; a watch is the loop of `Watch`, whose packs refuse what a single one refuses
(`WatchRefused`) and may fail like it (`WatchBreaks`); what they deliver is in `done` as well. `Tell`
and `Index` are the other commands with their gates, `RefuseIndex` the references that `index`
refuses as misuse.

## 4. The runs

| run | question | bounds, and why they suffice |
|---|---|---|
| `walk` | is the walk closed, exact, breadth first and finite, does it implement the closure, and does `graph` show all of it? | four files, three directories, four names, lists of up to three names: enough for diamonds, cycles, a repeated and a missing name, RPATH two levels down, a file under two names, every kind of file found by a name and by an include |
| `image` | is a packed image whole, does it run, and is what runs packed? | the shapes that `tests/differential.rs` generates (all of them, with five files and five directories), two files of one name, and includes of every kind |
| `image_shared`, `image_alias` | do the same promises hold when two objects need one library, and for one file needed under two names? They do not (below). | one or two libraries |
| `staging` | do links that a pack stages mislead what it stages later? | five families, each leaving a plain pack in one way: the name of the program and its PT_INTERP string; sonames with `..` and `/` in them; name services and extras; two or three added files and links under each `--symlinks` mode; two locales. Chains of links reach `MaxLinks` = 3 (40 in the code); a walk takes at most as many steps as its path has names, and `MaxSteps` = 15 that links add. `Names` is any string (`MCStaging!AnyName`) |
| `staging_dotted` | is a program named by a path with `..` packed under its name? It is not (below). | one pack per mode |
| `pipeline` | do gates, scanners, records, signatures and user files keep their order in every pack? | one path of each kind; every selection with every reader; added files in each position that matters to the records; every sink with its gates; each phase may fail; five answers of grype against four settings of the scan |
| `ownership` | is the answer of a lookup true of a host that changes meanwhile? | two architectures of one package and the package of the CA bundle; a file under a merged directory, one under a directory that is not, one whose name is a pattern; two changes (`MaxChanges`): one on each side of a call; every remainder of an rpm database |
| `outputs` | what do packs, readers and signals at one path leave? | three packs, one reader, archives of two blocks: two writers and a third whose file is read, a write on each side of every step |
| `registry` | do pushes and indexes that share tags agree? | a push, an index of its tag and of another, and a third job with every bad source; two repositories, three tags; every credential with every trust store |
| `delivery` | is one tree one image, and does `unpack` give back what was packed, ours and that of others? | trees of two names and two levels with every kind of entry, at most one unreadable; two packs of each (`MaxBuilds`), a default and a custom config; files and a directory named as whiteouts, beside what they hide; archives of ours up to the caps, and over one of them; foreign archives of two layers of up to two entries or three of one: a set-id file is written, removed and brought back, alone and with its directory, and reached through links and loops; archives that lie, in size and content, or miss a part |
| `commands` | is what the command line was asked done or refused, and does a watched image catch up? | seven mixes of sink flags, each with twenty-four lines of flags, eighteen config files with five profiles, and files that are absent, unreadable or wrong; the profile named, not named, and unknown; nine watches; every other command with its gate; six changes of the build (`MaxChanges`): a pack that may fail at each of its steps, a change in each of its two reads, an absence, a put-back and a last write; `NoticePolls` 2 |

Bounds in the guards: `MaxChanges` (of the build in `Watch`, of the database in `Ownership`),
`MaxBuilds`, `MaxSteps`, and `MaxLinks`, which is the code's own limit made small. `Blocks` is
the number of writes of an archive; `EntryCap` and `LayerCap` are the code's caps in small
units. `CHECK_DEADLOCK FALSE` is said where the program ends: a walk, a pack, a lookup, a job,
an invocation. The packs of `outputs` are interchangeable, and declared symmetric.

### Fairness

Every specification with a liveness property is fair to the program alone: weak fairness of the
loop of the walk and of the packed image (`WF_vars(Next)`, `WF_allVars(PackNext)`), of the steps
of an invocation and of the watch (`WF_cvars(Dispatch)`, `WF_cvars(Watching)`), and of a pack
and an `unpack` once begun (`WF_dvars(Packing)`, `WF_dvars(Unpacking)`). Each is one thread that
has nothing to wait for but its next step. The build is never fair: `ImageCatchesUp` asks only
about builds that leave a whole file alone for ever, and a pack of that last file may fail: then the
loop has said so and waits, and the image stays as it was. What the property rules out is that a
change is passed over: that the last file is neither delivered nor was given to a pack that failed.
Nobody has to start the next pack.
`Staging`, `PackPipeline`, `Ownership`, `Outputs` and `Registry` check safety only.

### Findings

- `image_shared`: ld.so takes a library that is already mapped under a name; the walk searches
  for the name again from each object that needs it. A program that runs is refused.
- `image_alias`: two needed names lead to one file; only the first is linked in the image, and
  the image does not start. The same gap shows when the host keeps the link in another
  directory than its file: the link is staged beside the file (`symlink_soname`).
- `staging_dotted`: a program named by a path with `..` in it, packed in a mode that keeps
  links, fails with EEXIST, where `docs/usage.md` says that the packed binary is always there.

Further limits of the code that the models show and no run states:

- a link at a directory on the way to the records fails a default pack, where `docs/usage.md`
  says that the default leaves them out with a warning (`PackPipeline`: `Link(var)`);
- an entry spelled through a link of the image is recorded where it is spelled, not where it
  is written (`unpack.rs`; `MCUnpack!ThroughLink`);
- a link value that leaves by `..` a directory that the image does not have is judged by name
  alone (`stager.rs`; `MCStaging!Crooked`);
- so is such a link at the locale directory: the look of `is_staged` fails there, the walk that
  makes what is missing does not, and the locale is written over a file that an `--add-file` put
  behind the link, or through a link there, although `--locale` refuses to replace what is staged
  (`stage_locales`; `MCStaging!Hidden`). This is why section 5 assumes `PlainLocales` or `StraightAdds`;
- the directory that a pack created is still empty to the next pack (`Outputs`:
  `NothingStaleIsMerged` asks only about packs that were over when the next one looked);
- `deny` is checked before `--add-file` stages anything;
- a binary put back with its old mtime before the next look (`KeepsTime = TRUE`) is taken for
  the version packed;
- a DT_NEEDED name with a slash gets a soname link that dangles;
- two index jobs that race for one tag: the one that read first may publish last, as there is no
  compare-and-set; each index is right for what it read (`EntriesWereNamed`);
- a layer that cannot be applied leaves the layers below it on disk, and a target with content is
  merged into;
- a file or link staged under a name that begins with `.wh.` is packed, and `unpack` (like any OCI
  reader) takes it for a whiteout: `RoundTrip` says that these, and no other, are missing;
- `unpack` refuses an archive that `pack` wrote if a blob of it is past `MAX_ENTRY_BYTES`, or its
  layer inflates past `MAX_LAYER_BYTES` (`RoundTrip`: `Oversized`);
- a package that was removed and not purged is credited with a configuration file of its that is
  packed (`Ownership`: `Lists`);
- `pack --output D --oci-archive F` (or with `--push`, `--watch` or `--smoke`) is accepted, though
  `--output` is declared to require `--no-build` (`cli.rs`), and leaves no directory `D`, with exit
  code 0: `VerdictIsTrue` leaves out a directory beside one of these flags;
- a watched pack that fails is not tried again until the binary changes (`Watch`: `PackFails`);
- a smoke run that the engine itself failed (exit code 125) counts as a program that started.

## 5. The proofs

All constants are arbitrary but for the named assumptions of the modules
(`ResolverAssumption`, `PipelineAssumption`, `WatchAssumption`, `InvocationsAssumption`,
`RegistryAssumption`, `OutputsAssumption`, `OwnershipAssumption`, `UnpackAssumption`,
`DeliveryAssumption`, `StagingAssumption`, `PackedImageAssumption`). They say that the inputs are
of the types the program reads them as and that the special values are none of them, and in some
places a fact of the code or of a file system: the directories on the way to the records are none
of the paths that the stager fills (`PipelineAssumption`), the flags of one command are not
another's (`InvocationsAssumption`), a program has a name, and it and the libraries are packed from
canonical paths, without `..` (`StagingAssumption`; the fallback of `canonical` in `resolver.rs`, for
a library that was just read and cannot be canonicalized, is left out), a file is found
at its own path and the loader where PT_INTERP leads (`PackedImageAssumption`), a staged tree is
one whose entries are in directories, and sizes are numbers (`DeliveryAssumption`), and the caps are positive
(`UnpackAssumption`). TLC evaluates each assumption in the runs.

**Walk** (`ResolverProofs`). `TypeCorrect` first; it is not trivial, since the lists handed
down must be expanded directories. `FilesCollectedOnce` is inductive on its own. The closure is
not: `ResolvedIsClosed` speaks of the end, so the invariant `WalkInv` says at each moment which
names of which objects are answered: a collected ELF is in the queue or has all its names
answered, and the head of the queue those before `pos`. `edges` and `libs` only grow
(`EdgesGrow`, `LibsGrow`), so an answer once given stays (`AnswersKept`). From `WalkInv` follow
`ResolutionIsClosed` and, with a step-by-step simulation, `WalkImplementsClosure`.
`MissingListIsExact`, `LibsAreNamed`, `ForeignFilesAreIncluded` and `RunpathIsNotInherited`
are inductive with the type invariant and `WalkInv`; with `FilesCollectedOnce`, three of them make
`ResolutionHolds`.
`WalkIsBreadthFirst` needs `OrderInv`: the queue is in the order of collection, all of it was
collected after every object that has an edge, and ranks never change (`RanksAreKept`).

**Graph** (`ResolverProofs`). `GraphShowsAll` says that the printed tree is the whole of a finished
walk. `ByParentLists` is what the grouping lists, and `Page` what holds after each line of the tree:
no line on the page or to come shows the same edge as another, each edge of an expanded object is
shown or to come, and each line has its parent's above it (`LinePrinted`, `PageStep`). So a line
more than there are edges cannot be (`NoLineTooMany`), which is why the tree ends, and since each
library was named by one collected before it, the tree reaches them all (`TreeReachesAll`). That
what is shown as missing is what `graph` fails for needs one more invariant of the walk,
`MissingIsSaid`, for the loader that is absent may also be a name that an object needs.

**Packed image** (`ResolverProofs`). The walk's facts need no fairness (`WalkSafe`), and no step
of a pack but `Resolve` touches the walk (`PackRunsTheWalk`), so they hold inside a pack.
`PackInv` adds that nothing is staged before a walk without a miss, and that each path staged so
far shows what the host shows there: two files have no path in common, and a soname link takes a
free name only, so no later copy or link hides an earlier one (`CopyKeeps`, `LinkKeeps`). With
`WalkInv`, `EachFileOnce` and `MissingIsExact` this is `PackedWhole`: everything the walk
collected is in the image under its own path, and every needed name has an answer there.

That ld.so finds the answer under that name is false in general, as the findings show; three theorems
say when it is true. Their hypotheses are read off a state: the host tree, what the walk collected and
what ld.so loaded. `LoaderInv` is of ld.so in any tree with any cache: each object of the link map maps
and was given for a name that an earlier one asks for, each has only names that it answers to, and what
was asked for so far is in the map (`LoadKeeps`; the chain of RPATHs is a recursive function, shown to
exist and to hold directories by `LoaderDirsType`). So what is loaded is in every set that is closed
under answers (`LoadedIsLeast`) and, at the end, is itself closed (`LoadedAnswers`); `RunInv` and
`HostInv` say it of the run in the image and of the one on the host. `ImageInv` says what may be under a
name in the image: a file that the host shows under it, or a shared object with that DT_SONAME, where
ldconfig made the link.

- `WellNamedImageLoads` assumes `WellNamed`: the loader needs no library, and what the host shows under
  a name that is asked for is a shared object, not the program, which ldconfig keys by that name and
  whose own file name it lists. Then the cache has every name (`NamesAreFound`). A file with two needed
  names is outside it (`image_alias`), and so is a library whose file has a name such as `plugin.so`.
- `WellNamedImageIsHost` adds `OneEach`: no two files answer to one name that is asked for. With two,
  the cache of the image lists both, and ld.so may take the one that the host did not.
- `PlainHostPacks` assumes `PlainHost`: the kernel takes the program and its loader, `$PLATFORM` is known
  or not used, and what a loaded object asks for is one regular shared object, in a default directory or
  in one that the object itself names (`OwnSearch`). It leaves out names found through an inherited
  RPATH, for which the walk and ld.so would have to be compared parent by parent, and names that only an
  object loaded earlier makes known (`image_shared`). `PlainInv` is that the walk then collects only what
  ld.so loaded.

Among the layouts of the runs are some that satisfy each hypothesis, with libraries in it, and some
that do not.

**Staging** (`StagingProofs`). `Good` says that the tree holds only directories, files and links,
and that each path but the root is in a directory of the tree, never below a link or a file. The
walk of a path is a recursive function; that the function exists (`WalkExists`, `WalkedIs`) and
what it returns (`WalkInv`: where it stands is a path of the tree, what it left behind is a good
tree, and what it makes it makes in a real directory) is shown by the least step at which it
would fail, since no induction over data is at hand. From it every writer keeps the tree good
(`ReplacedGood`, `LinkedGood`, `InterpTargetGood`, `SonameGood`, `LibraryGood`; `AllGood` for a
list of files), and `StageInv` is that it is good between any two steps: `NothingOutside`. The
writes of a locale are joined to the locale directory by name and followed by nobody, so that
theorem asks that, from the moment locales are next, no path on the way to the locale directory
is a link or a file (`PlainLocales`), or that none is asked for.

Four more theorems compare the walks of one path in two trees. A walk that ended well ends at the
same place in every later tree in which its directories are still directories and the links it read
are the same (`Serves`, `FollowsTo`), and a look that fails, in a tree whose links climb only before
they go down (`StraightTree`), fails because something is there that is in the way, which making
directories does not change. So, if the links that the user adds have such values (`StraightAdds`:
no `..` or `/` after a name), what `is_staged` says of a path is true when the path is written, and
files that are added and locales only add to the tree (`AddedIsKept`, `LocaleAdds`). With the
invariant `AddInv` (the entries staged so far are still where they were staged, or a warning names
them) this is `StraightAnswered`, and `StraightStaysInside` without a hypothesis about locales.
Without `StraightAdds` both are false: `MCStaging!Hidden` (section 4).

Up to the added files a step may write over what is there, since `copy_into` renames over it.
`CoreInv` says, step by step, what still holds (`Home`): every link of the tree leads by names to a
file (`Flat`), so no write goes elsewhere than where it says and no directory is written over
(`Lays`); hence the program, the loader, the libraries and the links to them lead where they led
(`LaidHome`), and each file carries what was written last at its place. Two hypotheses say what a
pack must be like. `PlainNames`: the program is named without `..` and the sonames have no slash; the
link of a crooked soname may stand where nothing expects one. `Apart`: no two files that the pack
writes by itself are different files at one path, and upx is not asked to rewrite the loader or a
library. The stager checks neither, and a host can break it: a PT_INTERP that leads in the image to
the path of a library that is another file, or a library at a path that a later step writes
(`/etc/ld.so.cache`). From `CoreInv` follow `StagedStays` and, without `Apart`, the half of
`OmissionsSaid` that is about name services (`Backed`); the other half is `StraightAnswered`. The
requests of the run include packs of this kind, and others, for which TLC checks the properties
without the hypotheses.

**Pipeline** (`PackPipelineProofs`). `RecordInv` says that records in the tree are in the
guard unless the user asked for them in the image; from it, `RecordsStayOut` for every failure.
`KeepInv` says that what the user added, what a package was named for and what the policy saw
stay in the tree until the output: `UserFilesSurvive` and `NamesAreOfFiles`, together
`StagedFilesAreKept`, and `PolicyHoldsOut`. `GateInv` says that what a scanner or the size gate
saw differs from the tree by records alone and that a gated scan found nothing at its threshold
(`GatesAreOfOutput`, with `BelowMeans` for what the threshold keeps out); `SignInv` ties a signature to
the digest that was pushed, and that to the tree (`SignaturesAreOfPushed`).
`SelectionsAreAnswered` rests on three: `ChoiceInv` (an explicit selection is never given up),
`ShownInv` (a scanner that ran had the records it was promised) and `ClearInv` (a default
selection that was given up left a warning).

**Command line** (`CommandLineProofs`). `CommandInv` says what each stage has still not done:
before the delivery nothing is out, and a local sink is never a push (`LocalSinkIsLocal`, by the
cases of `Sink`), from which `LocalPacksStayLocal`. `VerdictsAreTrue` has two halves. `EffectInv`
says that the options in effect are the merge of the layers up to this stage, so a switch of any
layer is on (`SwitchesAddUp`) and the source named for a list is the highest layer that sets it
(`SourceIsHighest`); `ServedInv` says what the stages passed so far have served. A watched
invocation embeds the loop of `Watch`, which the process may also end (`Halts`);
`CommandWatches` shows that it takes no other step of it (`WatchSafe`), so what is proved of the
loop holds in the process. `PacksInv` counts: a pack that is due, or a stamp that differs from
the packed one, each stand for a change not yet answered (`PacksAreAnswers`); `NoticeInv` does
the same for the line about a missing file (`NoticesAreSparse`).

**Registry** (`RegistryProofs`). `JobInv` says what a job holds at each of its steps: the
children it gathered are distinct manifests of its own repository with the platforms of their
own images; what it sent is its own product. From it, and from `stored` and `blobs` growing
only, `EntriesOfOneImage`, `IndexesResolve` and `OnePerPlatform` (together `IndexesAreUsable`),
and `SignaturesAreOwn`. `EntriesAreCurrent` rests on `WasNamed`: what a job has read, its own
source named at some time since the job started, and what was named stays named.

**Outputs** (`OutputsProofs`). `PathInv` says that a path that is a link stays one and that
every pack that looked knows it; so nothing is written in place but through a link. With it,
`WholeInv` (a file takes the archive's place when its pack has written all of it) and
`ReadInv` (a reader's file is whole) give `WholeArchivesRead`. `PrivateInv`, `SiblingInv` and
`MergeInv` strengthen the other three: `PrivateStaysPrivate`, `SiblingsAreSwept`,
`NothingStaleStays`.

**Package records** (`OwnershipProofs`). `PlaceInv` says whose call each is and that history holds the present.
`CreditInv` says that every credit so far was true at some moment, and history only grows
(`KnownStays`): `CreditedFilesAreOwned`. `SeenInv` says of each file still without a credit
which of its spellings nobody owned when it was asked about; `EndInv` says the same of the
end: `UnownedFilesWereSeen`. `RecordInv` ties records to the report being made, and
`RecordFilesDiffer` shows that two packages never write one file: `RecordsAreOfReport`.

**Delivery and unpack** (`DeliveryProofs`). `TreeInv` is the types, and that every link of the
tree is one a layer holds. `OverlayIsExact` compares the final tree with the overlay, which is
defined over all entries of all layers at once; `OverlayInv` says it of the entries applied so
far (`FileDone`, `MarkDone`): a path shows the last of its entries that no later layer removed
(`IsLive`, `OfLive`), or a directory that something below it needed. A whiteout is followed
through links, so the overlay is claimed of archives without links, as the property says.
`ReportInv` is that the record of cleared bits is that of the tree after every entry, not only at
the end: `ReportIsExact`. It needs that no entry is spelled through a link (`InPlace`); with such
an entry the record has one path and the tree another, and the property is false
(`MCUnpack!ThroughLink`, section 4). `PackInv` says that what a pack has listed, sorted and
written so far is a prefix of the one sequence that the staged tree determines (`Whole`), so
whatever order the file system lists in, `ImagesInv`: one tree, one image (`OneTreeOneImage`).
`FrameInv` keeps the two halves apart, and `RoundInv` follows our own archive through `unpack`:
each path is absent, or a directory, or the entry that was written of it; there is room in the
budget for all that is still to come (`Yet`), so that only a size past a cap is refused; its
whiteouts come while the new directory is empty and delete nothing (`RoundWhiteouts`); and after the
last entry all of the rest is there, so `diff` shows the names that are whiteouts and nothing else
(`RoundTripHolds`, for trees of two levels, like all of this module). Where a
proof goes over the paths of a tree, it takes the least counterexample. `BudgetInv` says that what
is held and what is left of the budget add up to no more than the archive, for our archives and
for those of others: `MemoryIsBounded`.

The type invariants of `Resolver`, `PackPipeline`, `Registry`, `Outputs` and `Ownership`
(`TypeCorrect` of each) and of `Watch` (`WatchIsTyped`) are proved, so no run repeats them. The
types of the tree of `Staging` are in `Good`, those of `Unpack` and `Delivery` in `TreeInv` and
`PackInv`, where the proofs need them.

**Model-checked only.**

- Liveness (`Terminates`, `ImageCatchesUp`, `ReadingEnds`): the proof system does not prove
  liveness under fairness.
- `PackedImageLoads`, `HostRunsSoPacks`, `SameLibraries` for layouts outside the hypotheses of the
  theorems about them (above): they hold of those of the run `image` and not of all, as the findings
  show.
- `AddedLinksResolve`: it holds of the requests of the run and not of all. The code judges a value by
  the directory that the entry spells, where the kernel starts from the one it leads to; a value that
  leaves by `..` a directory that the image does not have is judged by name (`MCStaging!Crooked`); and
  a chain of more than `MaxLinks` links leads nowhere. That no added link is lost or displaced is in
  `StraightAnswered`.
- `WritesStayInside`, `StagedStay` and `OmissionsAreSaid` for packs outside the hypotheses of the
  theorems about them (above), of which the run has several families.

## 6. What is not modelled

- `doctor` reports which tools and settings the host has; it decides nothing.
- lint's reading of ELF headers is a table over one file; only its gate and exit code are in
  `CommandLine`. The layout and the sizes of reports are left out; the tree of `graph` and the
  verdict of `diff` are not.
- Options that are passed through untouched are one key or switch each in `CommandLine`.
- The parsers (ELF, dpkg, rpm, tar, JSON, TOML) are inputs: their results range over everything
  the rest of the program tells apart, unparsable input included. gzip, JSON and sha256 are kept
  as what they preserve: equal input gives equal output, and different input a different digest.
- `strip` and `upx` are a phase that may fail; that `upx` touches the program alone is in
  `Staging`.
- Owners, timestamps and permissions of files are modelled only where a property is about them
  (`Outputs`' modes, `Unpack`'s set-id bits, the canonical modes of `Delivery`).
- `unpack` into a directory that has content: what is there may be in the way of an entry or a link
  on its path. The name `.wh.` with nothing (or `.` or `..`) after it hides nothing, and is left out.
- The version that a dpkg record names is not compared with the file: `Ownership` says which package
  a file is credited to, and ties records to the report, not the version of either to the bytes.
- Which certificates a trust store holds, and what cosign verifies, are outside the program.
