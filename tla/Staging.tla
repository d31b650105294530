--------------------------------- MODULE Staging ---------------------------------
(***************************************************************************)
(* The staged tree, path by path: src/src/stager.rs in the order in which  *)
(* src/src/pack.rs calls it.                                               *)
(*                                                                         *)
(* The tree is a partial function from image paths to nodes.  Links in it  *)
(* are read inside the image, never by the host: `image_dir` walks every   *)
(* path that the stager writes to or looks at.                             *)
(***************************************************************************)
EXTENDS Integers, Sequences, SequencesExt

CONSTANTS
  Names,      \* the names of files and directories
  MaxLinks,   \* MAX_LINKS of image_dir
  MaxSteps,   \* bound: the steps that links add to a walk
  Requests    \* the packs: what the user asks for, and what the host has

\* A path is a sequence of names.  The value of a link may also hold these two.
Root == "/"
Up   == ".."
Path == Seq(Names)

\* The names that the stager itself writes.
OwnNames ==
  {"etc", "ld.so.conf", "ld.so.cache", "nsswitch.conf", "passwd", "group", "libnss_files.so.2",
   "libnss_dns.so.2", "libresolv.so.2", "ssl", "certs", "ca-certificates.crt", "localtime", "tini",
   "usr", "lib", "locale", "LC_CTYPE"}

Dir        == [is |-> "dir"]
File(of)   == [is |-> "file", of |-> of, upx |-> FALSE]
LinkTo(to) == [is |-> "link", to |-> to]

NamesOnly(path) == Root \notin Range(path) /\ Up \notin Range(path)

\* What `AddFile::parse` lets through: an absolute image path without `..`.
Parsed(f) == f.dst # <<>> /\ NamesOnly(f.dst)

SymlinkModes == {"CopyAll", "Preserve", "CopyUnsafe", "SkipUnsafe"}

ASSUME StagingAssumption ==
  /\ MaxLinks \in Nat \ {0} /\ MaxSteps \in Nat /\ OwnNames \cup {Root, Up} \subseteq Names
  /\ \A r \in Requests :
       /\ r.mode \in SymlinkModes
       /\ r.program \in [named : Path \ {<<>>}, real : Path \ {<<>>}] /\ r.interp \in Path
       /\ r.libs \in Seq([path : Path \ {<<>>}, soname : Path])
       /\ NamesOnly(r.program.real) /\ \A i \in DOMAIN r.libs : NamesOnly(r.libs[i].path)  \* canonicalize
       /\ Len(r.program.named) + Len(r.program.real) <= MaxSteps  \* the bound holds the named link
       /\ r.add \in Seq([src : Path, dst : Path, link : BOOLEAN, value : Path,
                         leads : {"file", "dir", "none"}])
       /\ r.locales \in Seq([name : Names, host : {"dir", "odd", "none"},
                             charmap : BOOLEAN, compiles : BOOLEAN])
       /\ \A i \in DOMAIN r.add : Parsed(r.add[i])
       /\ r.program.real # <<"tini">>    \* --init stages its tini there
       /\ \A i, j \in DOMAIN r.add : i # j => r.add[i].dst # r.add[j].dst  \* dispatch refuses

VARIABLES
  req,     \* the request
  pc,      \* the next step, or how the staging ended
  why,     \* the step that failed
  k,       \* the next library, added file or locale
  tree,    \* the staged tree
  warned,  \* the added files and modules a warning names
  placed   \* what is at the destination of each --add-file so far

vars == <<req, pc, why, k, tree, warned, placed>>

--------------------------------------------------------------------------------
\* Paths in the image.

\* The tree with a node at the path, whatever was there.
With(t, path, node) == [p \in {path} \cup DOMAIN t |-> IF p = path THEN node ELSE t[p]]

Parent(p) == IF p = <<>> THEN <<>> ELSE Front(p)
Joined(dir, value) == IF value # <<>> /\ Head(value) = Root THEN value ELSE dir \o value

\* One component of the walk.  `how`: "make" creates what is missing, "look" goes on by name,
\* "kernel" fails there and lets the last component be a file.
WalkStep(w, how) ==
  LET s    == Head(w.todo)
      rest == [w EXCEPT !.todo = Tail(@)]
      next == Append(w.at, s)
      fail == [w EXCEPT !.ok = FALSE, !.todo = <<>>]
  IN  IF s = Root THEN [rest EXCEPT !.at = <<>>, !.missing = FALSE]
      ELSE IF s = Up THEN IF w.missing THEN fail ELSE [rest EXCEPT !.at = Parent(@)]
      ELSE IF w.missing THEN [rest EXCEPT !.at = next]
      ELSE IF next \notin DOMAIN w.tree
           THEN IF how = "make" THEN [rest EXCEPT !.at = next, !.tree = With(@, next, Dir)]
                ELSE IF how = "look" THEN [rest EXCEPT !.at = next, !.missing = TRUE]
                ELSE fail
      ELSE LET node == w.tree[next]
           IN  IF node.is = "dir" THEN [rest EXCEPT !.at = next]
               ELSE IF node.is = "link"
                    THEN IF w.links = MaxLinks THEN fail
                         ELSE [rest EXCEPT !.todo = node.to \o @, !.links = @ + 1]
               ELSE IF how = "kernel" /\ rest.todo = <<>> THEN [rest EXCEPT !.at = next]
               ELSE fail

\* `image_dir`: where a directory path leads, and the tree with what it created on the way.
Walked(t, path, how) ==
  LET start == [at |-> <<>>, todo |-> path, links |-> 0, missing |-> FALSE, ok |-> TRUE, tree |-> t]
      last  == Len(path) + MaxSteps
      go[n \in 0 .. last] ==
        IF n = 0 THEN start
        ELSE LET w == go[n - 1] IN IF w.todo = <<>> THEN w ELSE WalkStep(w, how)
      end == go[last]
  IN  [end EXCEPT !.ok = @ /\ end.todo = <<>>]

\* `staged_path`: the final name is not resolved.
\* Mutant: the host walks the path, as a plain join would.
JoinedPath(t, path, how) == LET w == Walked(t, Parent(path), how) IN [w EXCEPT !.at = path]
StagedPath(t, path, how) ==
  LET w == Walked(t, Parent(path), how)
  IN  [w EXCEPT !.at = IF path = <<>> THEN @ ELSE Append(@, Last(path))]

IsStaged(t, path) == LET w == StagedPath(t, path, "look") IN w.ok /\ w.at \in DOMAIN t

\* `copy_into`, `write_into`: a rename over the name, so a link or a file there is replaced
\* and a directory is not.
Replaced(t, path, node) ==
  LET w == StagedPath(t, path, "make")
      blocked == w.at \in DOMAIN w.tree /\ w.tree[w.at].is = "dir"
  IN  [ok |-> w.ok /\ ~blocked, tree |-> IF w.ok /\ ~blocked THEN With(w.tree, w.at, node) ELSE w.tree]

\* `place_symlink`: symlink(2) replaces nothing.
Linked(t, path, value) ==
  LET w == StagedPath(t, path, "make")
      free == w.ok /\ w.at \notin DOMAIN w.tree
  IN  [ok |-> free, tree |-> IF free THEN With(w.tree, w.at, LinkTo(value)) ELSE w.tree]

\* `lexical_image_path`.
Lexical(dir, value) ==
  FoldLeft(LAMBDA at, s : IF s = Root THEN <<>> ELSE IF s = Up THEN Parent(at) ELSE Append(at, s),
           <<>>, Joined(dir, value))

\* `link_target_in_image`.
\* Mutant: a relative value is read from the directory of the source on the host.
InImageOfHost(t, f) == IsStaged(t, Lexical(Parent(f.src), f.value))
InImage(t, f)       == IsStaged(t, Lexical(Parent(f.dst), f.value))

\* `relative_link_value`.
RelativeValue(from, to) ==
  LET n == Len(LongestCommonPrefix({from, to}))
  IN  [i \in 1 .. Len(from) - n |-> Up] \o SubSeq(to, n + 1, Len(to))

\* What the kernel shows at a path once the tree is the root.
Shown(t, path) ==
  LET w == Walked(t, path, "kernel") IN IF w.ok THEN w.tree[w.at] ELSE [is |-> "nothing"]
Shows(t, path, of) == LET n == Shown(t, path) IN n.is = "file" /\ n.of = of
Resolves(t, path)  == Shown(t, path).is # "nothing"

--------------------------------------------------------------------------------
\* The steps.

Ended == pc \in {"done", "failed"}

\* On success the next step, else the end with what was made so far.
Then(res, step, next) ==
  /\ pc' = IF res.ok THEN next ELSE "failed"
  /\ why' = IF res.ok THEN why ELSE step
  /\ tree' = res.tree
  /\ UNCHANGED req

Made(t)   == [ok |-> TRUE, tree |-> t]
Failed(t) == [ok |-> FALSE, tree |-> t]
Quiet     == UNCHANGED <<warned, placed>>

\* Several files of one step, in order, up to the first that fails or is not on the host.
ReplacedAll(t, files) ==
  LET upTo[n \in 0 .. Len(files)] ==
        IF n = 0 THEN Made(t)
        ELSE LET res == upTo[n - 1]
                 f   == files[n]
             IN  IF ~res.ok THEN res
                 ELSE IF f.there THEN Replaced(res.tree, f.at, f.node) ELSE Failed(res.tree)
  IN  upTo[Len(files)]

Generated(path) == [at |-> path, node |-> File(<<"generated">> \o path), there |-> TRUE]
Mirrored(path)  == [at |-> path, node |-> File(path), there |-> TRUE]

\* The binary at its real path.
StageProgram ==
  /\ pc = "program"
  /\ LET p == req.program.real IN Then(Replaced(tree, p, File(p)), "program", "named")
  /\ Quiet /\ UNCHANGED k

\* The path the user named leads to it, unless links are flattened.
StageNamed ==
  /\ pc = "named"
  /\ LET p == req.program
         wanted == req.mode # "CopyAll" /\ p.named # p.real /\ ~IsStaged(tree, p.named)
     IN  Then(IF wanted THEN Linked(tree, p.named, RelativeValue(Parent(p.named), p.real))
              ELSE Made(tree), "named", "loader")
  /\ Quiet /\ UNCHANGED k

\* `interp_target`: PT_INTERP is resolved inside the image, and every directory it spells is made.
\* Mutant: only the directory it ends in is made.
InterpTargetShort(t, path) ==
  LET w == Walked(t, Parent(path), "make")
  IN  [w EXCEPT !.at = Append(@, Last(path)), !.tree = IF w.ok THEN t ELSE @]
InterpTarget(t, path) ==
  LET w == Walked(t, Parent(path), "make")
  IN  [w EXCEPT !.at = Append(@, Last(path)), !.ok = @ /\ Last(path) \notin {Root, Up}]

StageLoader ==
  /\ pc = "loader"
  /\ LET w == InterpTarget(tree, req.interp)
     IN  Then(IF req.interp = <<>> THEN Made(tree)
              ELSE IF w.ok THEN Replaced(w.tree, w.at, File(req.ld))
              ELSE Failed(w.tree), "loader", "libs")
  /\ Quiet /\ UNCHANGED k

\* `symlink_soname`: nothing is made on the way, and what has the name already keeps it.
SonameLinked(t, lib) ==
  LET raw == Joined(Parent(lib.path), lib.soname)
      w   == Walked(t, Parent(raw), "look")
      at  == Append(w.at, Last(raw))
  IN  IF ~w.ok \/ raw = <<>> \/ Last(raw) \in {Root, Up} THEN Failed(t)
      ELSE IF at \in DOMAIN t THEN Made(t)
      ELSE IF w.missing THEN Failed(t)
      ELSE Made(With(t, at, LinkTo(<<Last(lib.path)>>)))

\* Each library at its real path, then its soname link.
LibraryStaged(t, lib) ==
  LET copied == Replaced(t, lib.path, File(lib.path))
  IN  IF copied.ok /\ <<Last(lib.path)>> # lib.soname THEN SonameLinked(copied.tree, lib)
      ELSE copied

StageLibrary ==
  /\ pc = "libs" /\ k <= Len(req.libs)
  /\ Then(LibraryStaged(tree, req.libs[k]), "libs", "libs")
  /\ k' = k + 1 /\ Quiet

\* `generate_ld_cache`: ld.so.conf, then ldconfig (`run_ldconfig`), which may be missing or fail.
GenerateCache ==
  /\ pc = "libs" /\ k > Len(req.libs)
  /\ LET conf  == Replaced(tree, <<"etc", "ld.so.conf">>, Generated(<<"etc", "ld.so.conf">>).node)
         cache == Generated(<<"etc", "ld.so.cache">>)
     IN  Then(IF conf.ok /\ req.ldconfig THEN Replaced(conf.tree, cache.at, cache.node)
              ELSE Failed(conf.tree), "cache", "nss")
  /\ k' = 1 /\ Quiet

When(asked, x) == IF asked THEN <<x>> ELSE <<>>

\* `NssSelection::modules`.
NssModules(sel) ==
  (IF sel.files THEN {"libnss_files.so.2"} ELSE {})
    \cup (IF sel.dns THEN {"libnss_dns.so.2", "libresolv.so.2"} ELSE {})

\* `libc_dir`: the directory of the first libc of the walk, as a set of at most one.
LibcDir(libs) ==
  LET libcs == {i \in DOMAIN libs : libs[i].soname = <<"libc.so.6">>}
  IN  IF libcs = {} THEN {} ELSE {Parent(libs[Min(libcs)].path)}

NssWarned(sel, dirs) ==
  IF NssModules(sel) = {} THEN {}
  ELSE IF dirs = {} THEN {<<"libc">>}
  ELSE {<<m>> : m \in NssModules(sel) \ req.modules}

\* `stage_default_includes`: nsswitch.conf, the modules beside libc, and passwd and group for
\* the `files` source.
DefaultIncludes(sel, dirs) ==
  LET found == IF dirs = {} THEN {} ELSE NssModules(sel) \cap req.modules
      copy(m) == When(m \in found, Mirrored(Append(CHOOSE d \in dirs : TRUE, m)))
  IN  When(sel.files \/ sel.dns, Generated(<<"etc", "nsswitch.conf">>))
        \o copy("libnss_files.so.2") \o copy("libnss_dns.so.2") \o copy("libresolv.so.2")
        \o When(sel.files, Generated(<<"etc", "passwd">>)) \o When(sel.files, Generated(<<"etc", "group">>))

StageDefaultIncludes ==
  /\ pc = "nss"
  /\ LET dirs == LibcDir(req.libs)
     IN  /\ Then(ReplacedAll(tree, DefaultIncludes(req.nss, dirs)), "nss", "strip")
         /\ warned' = warned \cup NssWarned(req.nss, dirs)
  /\ UNCHANGED <<k, placed>>

\* `strip_and_measure`: every target must be there, and upx rewrites the program alone.
Compressed(t) ==
  LET p == StagedPath(t, req.program.real, "look").at
  IN  [t EXCEPT ![p] = IF @.is = "file" THEN [@ EXCEPT !.upx = TRUE] ELSE @]

StripAndMeasure ==
  /\ pc = "strip"
  /\ LET paths == {req.program.real} \cup {req.libs[i].path : i \in DOMAIN req.libs}
         targets == {StagedPath(tree, p, "look").at : p \in paths}
                      \cup (IF req.interp = <<>> THEN {} ELSE {InterpTarget(tree, req.interp).at})
     IN  Then([ok |-> targets \subseteq DOMAIN tree,
               tree |-> IF req.upx THEN Compressed(tree) ELSE tree], "strip", "extras")
  /\ Quiet /\ UNCHANGED k

\* `stage_runtime_extras`: the CA bundle, the zone file behind /etc/localtime, a tini.
Extra(what, at) ==
  When(what \in req.extras,
       [at |-> at, node |-> File(<<"host", what>>), there |-> what \in req.hostExtras])
Extras ==
  Extra("ca_certs", <<"etc", "ssl", "certs", "ca-certificates.crt">>)
    \o Extra("tz", <<"etc", "localtime">>) \o Extra("init", <<"tini">>)

StageRuntimeExtras ==
  /\ pc = "extras"
  /\ Then(ReplacedAll(tree, Extras), "extras", "add")
  /\ Quiet /\ UNCHANGED k

\* What becomes of one --add-file entry.  A link is judged before its source is followed.
\* Mutant: a copy does not look at what is there.
AddAnswerOver(f) ==
  IF f.link /\ req.mode # "CopyAll" THEN IF InImage(tree, f) THEN "link" ELSE "skip" ELSE "copy"
AddAnswer(f) ==
  LET safe == InImage(tree, f)
  IN  IF f.link /\ req.mode # "CopyAll"
      THEN IF IsStaged(tree, f.dst) THEN "refuse"
           ELSE IF req.mode = "Preserve" \/ safe THEN "link"
           ELSE IF req.mode = "SkipUnsafe" THEN "skip"
           ELSE IF f.leads = "file" THEN "copy" ELSE "refuse"
      ELSE IF f.leads = "file" /\ ~IsStaged(tree, f.dst) THEN "copy" ELSE "refuse"

\* A preserved link that dangles, or an entry that is skipped.
AddWarned(f, answer) ==
  IF answer = "skip" \/ (answer = "link" /\ ~InImage(tree, f)) THEN {f.dst} ELSE {}

Added(f, answer) ==
  IF answer = "copy" THEN Replaced(tree, f.dst, File(f.src))
  ELSE IF answer = "link" THEN Linked(tree, f.dst, f.value)
  ELSE IF answer = "skip" THEN Made(tree)
  ELSE Failed(tree)

StageAddedFile ==
  /\ pc = "add" /\ k <= Len(req.add)
  /\ LET f == req.add[k]
         answer == AddAnswer(f)
         res == Added(f, answer)
     IN  /\ Then(res, "add", "add")
         /\ placed' = IF res.ok THEN Append(placed, answer) ELSE placed
         /\ warned' = warned \cup AddWarned(f, answer)
  /\ k' = k + 1

AllAdded ==
  /\ pc = "add" /\ k > Len(req.add)
  /\ Then(Made(tree), "add", "locales")
  /\ k' = 1 /\ Quiet

\* A directory made, and a file written, by name: the host walks the last step.  A directory is
\* there already, or the write goes on through a link, to a path below it.
HostDir(t, path) ==
  IF path \in DOMAIN t THEN [ok |-> t[path].is # "file", tree |-> t] ELSE Made(With(t, path, Dir))
HostWritten(t, path, node) ==
  IF path \notin DOMAIN t \/ t[path].is = "file" THEN Made(With(t, path, node))
  ELSE IF t[path].is = "link" THEN Made(With(t, path \o t[path].to, node))
  ELSE Failed(t)

LocaleData(t, at, l) ==
  LET made == HostDir(t, at)
  IN  IF made.ok THEN HostWritten(made.tree, Append(at, "LC_CTYPE"), File(<<"locale", l.name>>)) ELSE made

\* `validate_locale_name`: a name, never a way out of the locale directory.
ValidName(l) == l.name \notin {"", ".", Up}

\* `compile_locale`, `localedef_input`: localedef wants the character map in the name.
Compiled(t, at, l) == IF l.charmap /\ l.compiles THEN LocaleData(t, at, l) ELSE Failed(t)

\* `copy_dir_into`: files and directories; anything else in it is refused.
CopiedDir(t, at, l) ==
  IF l.host = "dir" THEN LocaleData(t, at, l) ELSE Failed(HostDir(t, at).tree)

\* `stage_locales`: a directory of the host is copied, or localedef compiles one.
LocaleStaged(t, l) ==
  LET path == <<"usr", "lib", "locale", l.name>>
      w    == StagedPath(t, path, "make")
  IN  IF ~ValidName(l) \/ IsStaged(t, path) THEN Failed(t)
      ELSE IF ~w.ok THEN Failed(w.tree)
      ELSE IF l.host = "none" THEN Compiled(w.tree, w.at, l)
      ELSE CopiedDir(w.tree, w.at, l)

StageLocale ==
  /\ pc = "locales" /\ k <= Len(req.locales)
  /\ Then(LocaleStaged(tree, req.locales[k]), "locales", "locales")
  /\ k' = k + 1 /\ Quiet

AllStaged ==
  /\ pc = "locales" /\ k > Len(req.locales)
  /\ Then(Made(tree), "locales", "done")
  /\ Quiet /\ UNCHANGED k

\* A read, a write or a tool of the host may fail at any step.
HostFails ==
  /\ ~Ended
  /\ Then(Failed(tree), "host", pc)
  /\ Quiet /\ UNCHANGED k

Init ==
  /\ req \in Requests
  /\ pc = "program" /\ why = "none" /\ k = 1
  /\ tree = [p \in {<<>>} |-> Dir]
  /\ warned = {} /\ placed = <<>>

Next ==
  \/ StageProgram \/ StageNamed \/ StageLoader \/ StageLibrary \/ GenerateCache
  \/ StageDefaultIncludes \/ StripAndMeasure \/ StageRuntimeExtras
  \/ StageAddedFile \/ AllAdded \/ StageLocale \/ AllStaged \/ HostFails

Spec == Init /\ [][Next]_vars

--------------------------------------------------------------------------------
\* Properties.

\* No path of the tree runs through a link or a file: whatever links are staged, the host made
\* every directory and file inside the staging root, at the path the image gives it.
WritesStayInside ==
  \A p \in DOMAIN tree \ {<<>>} : Parent(p) \in DOMAIN tree /\ tree[Parent(p)].is = "dir"

\* What the walk found stays what the image shows, whatever is staged later: the kernel finds
\* the loader by the raw PT_INTERP string, the program by its entrypoint and, unless links are
\* flattened, by the name it was packed by; each library is at its path and answers to a
\* soname without a slash; and upx touched none of the objects that the loader maps.
StagedStay ==
  pc \in {"nss", "strip", "extras", "add", "locales", "done"} =>
    /\ Shows(tree, req.program.real, req.program.real)
    /\ req.mode # "CopyAll" => Resolves(tree, req.program.named)
    /\ req.interp # <<>> => Shows(tree, req.interp, req.ld) /\ ~Shown(tree, req.interp).upx
    /\ \A i \in DOMAIN req.libs : LET lib == req.libs[i] IN
         /\ Shows(tree, lib.path, lib.path) /\ ~Shown(tree, lib.path).upx
         /\ Len(lib.soname) = 1 => Resolves(tree, Parent(lib.path) \o lib.soname)

\* Each --add-file entry is in the image as it was staged, the copy or the link itself, or it
\* was skipped and a warning names it; no later entry took its place under another spelling.
AddedIsAnswered ==
  /\ \A i \in DOMAIN placed :
       LET f == req.add[i]
           at == StagedPath(tree, f.dst, "look").at
       IN  /\ placed[i] = "copy" => Shows(tree, f.dst, f.src)
           /\ placed[i] = "link" => at \in DOMAIN tree /\ tree[at] = LinkTo(f.value)
           /\ placed[i] = "skip" => f.dst \in warned
  /\ pc = "done" => Len(placed) = Len(req.add)

\* docs/usage.md: a kept link leads to something in the image, or the mode is `preserve` and
\* the pack warns that it dangles, unless it leads to another kept link that does.
AddedLinksResolve ==
  \A i \in DOMAIN placed : placed[i] = "link" =>
    LET f == req.add[i]
        to == StagedPath(tree, Lexical(Parent(f.dst), f.value), "look").at
    IN  \/ Resolves(tree, f.dst)
        \/ req.mode = "Preserve" /\ (f.dst \in warned \/ (to \in DOMAIN tree /\ tree[to].is = "link"))

\* A source that nsswitch.conf names has its modules beside libc, or a warning says which is
\* missing; `files` has the passwd and group it reads.
NssIsBacked ==
  pc = "done" =>
    /\ \A m \in NssModules(req.nss) :
         \/ <<m>> \in warned \/ <<"libc">> \in warned
         \/ \E dir \in LibcDir(req.libs) : Shows(tree, Append(dir, m), Append(dir, m))
    /\ req.nss.files => \A n \in {"passwd", "group"} : Resolves(tree, <<"etc", n>>)

\* Nothing that was asked for is left out of the image without a word.
OmissionsAreSaid == AddedIsAnswered /\ NssIsBacked

\* docs/usage.md: the packed binary is always staged, so a kept link to it always resolves: no
\* pack ends over the name it was asked by.
NamedIsKept == why # "named"
================================================================================
