---------------------------------- MODULE Unpack ----------------------------------
(***************************************************************************)
(* `unpack` (src/src/unpack.rs): read an OCI archive within its budget,    *)
(* then apply its layers in order, in each layer first the whiteouts, then *)
(* the files, and report the paths whose setuid or setgid bit was cleared. *)
(*                                                                         *)
(* The tree below the target is two levels deep, with symbolic links from  *)
(* one top-level name to another; `tar` (external) extracts the entries.   *)
(***************************************************************************)
EXTENDS Integers, Sequences, FiniteSets, Functions

CONSTANTS
  Names,      \* file names
  Archives,   \* the archives considered
  EntryCap,   \* MAX_ENTRY_BYTES
  LayerCap,   \* MAX_LAYER_BYTES
  MaxLinks,   \* MAX_LINKS
  NoName

\* The image paths, as sequences of names; <<>> is the root.
Paths == {<<>>} \cup {<<n>> : n \in Names} \cup {<<n, m>> : n \in Names, m \in Names}

Under(p, q) == Len(p) < Len(q) /\ SubSeq(q, 1, Len(p)) = p
Parent(p) == SubSeq(p, 1, Len(p) - 1)

\* A node, and the layer and entry it comes from.  The text of a "link" is relative, that of a
\* "rooted" link absolute; both name a path below the root.
Links == {"link", "rooted"}
Kinds == {"none", "dir", "file"} \cup Links
Node  == [kind : Kinds, bit : BOOLEAN, to : Names \cup {NoName}, from : Nat \X Nat]
Nothing == [kind |-> "none", bit |-> FALSE, to |-> NoName, from |-> <<0, 0>>]
Folder  == [Nothing EXCEPT !.kind = "dir"]

\* An entry of a layer's tar: a node, or the whiteout of the path, or of all that is under it.
Whiteouts == {"whiteout", "opaque"}
TarEntry == [path : Paths, kind : (Kinds \ {"none"}) \cup Whiteouts,
             bit : BOOLEAN, to : Names \cup {NoName}]
Fits(e) == /\ e.kind \in Links <=> e.to # NoName
           /\ e.kind \in Links => Len(e.path) = 1
           /\ e.kind = "opaque" => Len(e.path) < 2
           /\ e.kind # "opaque" => e.path # <<>>

\* `stored` are the entries of the archive: what each holds, how many bytes it yields, whether
\* they match its digest, and whether it is a GNU sparse entry.
Archive == [length : Nat,
            stored : Seq([holds : ({"index", "manifest", "config", "other"} \X {0}) \cup ({"layer"} \X Nat),
                          size : Nat, matches : BOOLEAN, sparse : BOOLEAN]),
            multi  : BOOLEAN,
            layers : Seq([media : {"gzip", "tar", "other"}, size : Nat, tar : Seq(TarEntry)])]

ASSUME UnpackAssumption ==
  /\ IsFiniteSet(Names) /\ NoName \notin Names
  /\ EntryCap \in Nat \ {0} /\ LayerCap \in Nat \ {0} /\ MaxLinks \in Nat
  /\ \A a \in Archives : /\ a \in Archive
                         /\ \A l \in Range(a.layers) : \A e \in Range(l.tar) : Fits(e)

VARIABLES
  archive,
  outcome,  \* "reading", "applying", "done" or "failed"
  budget,   \* the bytes the archive can still hold
  held,     \* the bytes of the blobs in memory
  layer,    \* the layer being applied
  pass,     \* 1: whiteouts, 2: files
  pos,      \* the next entry: of the archive, then of the layer in this pass
  walk,     \* the directory of a whiteout, as far as its links are followed
  tree,     \* path -> node
  setid     \* the record of cleared bits

vars == <<archive, outcome, budget, held, layer, pass, pos, walk, tree, setid>>

Idle == [on |-> FALSE, dir |-> <<>>, links |-> 0]

\* The target is a new directory.  (`run` takes one with content too, and merges into it.)
Init ==
  /\ archive \in Archives
  /\ outcome = "reading"
  /\ budget = archive.length /\ held = 0
  /\ layer = 1 /\ pass = 1 /\ pos = 1 /\ walk = Idle
  /\ tree = [p \in Paths |-> IF p = <<>> THEN Folder ELSE Nothing]
  /\ setid = {}

Fail == outcome' = "failed" /\ UNCHANGED <<archive, budget, held, layer, pass, pos, walk, tree>>

--------------------------------------------------------------------------------
\* `read_archive`, `read_bounded`.

\* Mutant: each entry is held against the whole archive.
ChargeNothing(size) == budget
Charge(size) == budget - size

Used(e) == e.holds # <<"other", 0>>
Readable(e) == ~e.sparse /\ e.size <= EntryCap /\ e.size <= budget /\ e.matches

ReadEntry ==
  /\ outcome = "reading" /\ pos <= Len(archive.stored)
  /\ LET e == archive.stored[pos]
     IN  \/ /\ ~Used(e)
            /\ pos' = pos + 1
            /\ UNCHANGED <<archive, outcome, budget, held, layer, pass, walk, tree, setid>>
         \/ /\ Used(e) /\ Readable(e)
            /\ budget' = Charge(e.size)
            /\ held' = held + e.size
            /\ pos' = pos + 1
            /\ UNCHANGED <<archive, outcome, layer, pass, walk, tree, setid>>
         \/ /\ Used(e) /\ ~Readable(e)
            /\ Fail /\ UNCHANGED setid

Stored(what) == \E e \in Range(archive.stored) : e.holds = what

\* The index names the manifest of a single image.
OpenImage ==
  /\ outcome = "reading" /\ pos > Len(archive.stored)
  /\ IF Stored(<<"index", 0>>) /\ Stored(<<"manifest", 0>>) /\ ~archive.multi
     THEN /\ outcome' = "applying" /\ pos' = 1
          /\ UNCHANGED <<archive, budget, held, layer, pass, walk, tree, setid>>
     ELSE Fail /\ UNCHANGED setid

--------------------------------------------------------------------------------
\* The layers, in order.

Layer == archive.layers[layer]
Entry == Layer.tar[pos]

\* `run`: the blob is there, of a known media type, and what it inflates to is under the cap.
Applicable(n) ==
  LET l == archive.layers[n]
  IN  Stored(<<"layer", n>>) /\ (l.media = "tar" \/ (l.media = "gzip" /\ l.size <= LayerCap))

Applying == outcome = "applying" /\ layer <= Len(archive.layers) /\ Applicable(layer)
AtEntry  == Applying /\ pos <= Len(Layer.tar) /\ ~walk.on

RefuseLayer ==
  /\ outcome = "applying" /\ layer <= Len(archive.layers) /\ ~Applicable(layer)
  /\ Fail /\ UNCHANGED setid

IsWhiteout(e) == e.kind \in Whiteouts

\* Mutant: one pass does both, in the order of the tar.
Together(e) == pass = 2
InPass(e) == IsWhiteout(e) = (pass = 1)

SkipEntry ==
  /\ AtEntry /\ ~InPass(Entry)
  /\ pos' = pos + 1
  /\ UNCHANGED <<archive, outcome, budget, held, layer, pass, walk, tree, setid>>

NextPass ==
  /\ Applying /\ pos > Len(Layer.tar)
  /\ pos' = 1
  /\ pass' = 3 - pass
  /\ layer' = IF pass = 1 THEN layer ELSE layer + 1
  /\ UNCHANGED <<archive, outcome, budget, held, walk, tree, setid>>

Finish ==
  /\ outcome = "applying" /\ layer > Len(archive.layers)
  /\ outcome' = "done"
  /\ UNCHANGED <<archive, budget, held, layer, pass, pos, walk, tree, setid>>

--------------------------------------------------------------------------------
\* Pass 1: `apply_whiteout`, and `open_dir_in_root`, which follows links inside the target.

OpenWhiteout ==
  /\ AtEntry /\ InPass(Entry) /\ IsWhiteout(Entry)
  /\ walk' = [on |-> TRUE, links |-> 0,
              dir |-> IF Entry.kind = "opaque" THEN Entry.path ELSE Parent(Entry.path)]
  /\ UNCHANGED <<archive, outcome, budget, held, layer, pass, pos, tree, setid>>

\* Mutant: the links of a walk are not counted.
CountNothing(n) == n
Count(n) == n + 1

PassMarker == /\ walk' = Idle /\ pos' = pos + 1
              /\ UNCHANGED <<archive, outcome, budget, held, layer, pass>>

\* A loop of links is no directory: nothing is deleted.
FollowLink ==
  /\ walk.on /\ outcome = "applying" /\ tree[walk.dir].kind \in Links
  /\ IF Count(walk.links) > MaxLinks
     THEN PassMarker
     ELSE /\ walk' = [walk EXCEPT !.dir = <<tree[walk.dir].to>>, !.links = Count(@)]
          /\ UNCHANGED <<archive, outcome, budget, held, layer, pass, pos>>
  /\ UNCHANGED <<tree, setid>>

\* Nothing there, or a marker beneath a file: a broken layer.
WhiteoutNowhere ==
  /\ walk.on /\ outcome = "applying"
  /\ \/ tree[walk.dir].kind = "none" /\ PassMarker /\ UNCHANGED tree
     \/ tree[walk.dir].kind = "file" /\ Fail
  /\ UNCHANGED setid

Landed(e) == IF e.kind = "opaque" THEN walk.dir ELSE Append(walk.dir, e.path[Len(e.path)])

\* `clear_dir` and `remove_at`.
Gone(e) == {p \in Paths : Under(Landed(e), p) \/ (p = Landed(e) /\ e.kind # "opaque")}

\* `forget_under`, where the walk landed.
\* Mutant: the record is cleared where the marker is spelled.
ForgetSpelled(e) == {p \in setid : Under(e.path, p) \/ (p = e.path /\ e.kind # "opaque")}
Forgotten(e) == {p \in setid : Under(Landed(e), p) \/ (p = Landed(e) /\ e.kind # "opaque")}

ApplyWhiteout ==
  /\ walk.on /\ outcome = "applying" /\ tree[walk.dir].kind = "dir"
  /\ tree' = [p \in Paths |-> IF p \in Gone(Entry) THEN Nothing ELSE tree[p]]
  /\ setid' = setid \ Forgotten(Entry)
  /\ PassMarker

--------------------------------------------------------------------------------
\* Pass 2: `unpack_in` (external) and the record of cleared bits.

\* Where the file system leads a relative path: through relative links, which stay inside.
Chase(p) ==
  LET hop[n \in 0 .. Cardinality(Names)] ==
        IF n = 0 THEN p
        ELSE LET q == hop[n - 1] IN IF tree[q].kind = "link" THEN <<tree[q].to>> ELSE q
  IN  hop[Cardinality(Names)]

Place(e) == IF Len(e.path) < 2 THEN e.path ELSE Append(Chase(Parent(e.path)), e.path[2])

\* The directory is there, or is made; a file, a rooted link, a dangling one or a loop is an
\* error.  A directory gives way to nothing, a file or link to all but a directory.
Extractable(e) ==
  LET dir == Parent(Place(e))
      old == tree[Place(e)].kind
  IN  /\ tree[dir].kind = "dir" \/ (tree[dir].kind = "none" /\ dir = Parent(e.path))
      /\ IF e.kind = "dir" THEN old \in {"none", "dir"} ELSE old # "dir"

\* Before the entry is extracted, under the path the archive spells.
Recorded(e) == IF e.bit THEN setid \cup {e.path} ELSE setid \ {e.path}

ExtractFile ==
  /\ AtEntry /\ InPass(Entry) /\ ~IsWhiteout(Entry)
  /\ setid' = Recorded(Entry)
  /\ \/ /\ Extractable(Entry)
        /\ tree' = [p \in Paths |->
             IF p = Place(Entry)
             THEN [kind |-> Entry.kind, bit |-> Entry.bit, to |-> Entry.to, from |-> <<layer, pos>>]
             ELSE IF p = Parent(Place(Entry)) /\ tree[p].kind = "none" THEN Folder ELSE tree[p]]
        /\ pos' = pos + 1
        /\ UNCHANGED <<archive, outcome, budget, held, layer, pass, walk>>
     \/ ~Extractable(Entry) /\ Fail

Stopped == outcome \in {"done", "failed"} /\ UNCHANGED vars

Next ==
  \/ ReadEntry \/ OpenImage
  \/ RefuseLayer \/ SkipEntry \/ NextPass \/ Finish
  \/ OpenWhiteout \/ FollowLink \/ WhiteoutNowhere \/ ApplyWhiteout
  \/ ExtractFile
  \/ Stopped

\* `unpack` is one process that runs to its end.
Spec == Init /\ [][Next]_vars /\ WF_vars(Next)

--------------------------------------------------------------------------------
\* Properties.

\* The blobs in memory never hold more than the archive itself, whatever its entries yield.
HeldFitsArchive == held <= archive.length

\* The overlay an OCI image stands for: an entry shows unless a later layer removes its path or
\* a directory above it, and a later entry of the same path hides it; where a tar puts its
\* whiteouts says nothing.
Removes(l, p) ==
  \E e \in Range(archive.layers[l].tar) :
    \/ e.kind = "whiteout" /\ (e.path = p \/ Under(e.path, p))
    \/ e.kind = "opaque" /\ Under(e.path, p)
Stays(l, p) == \A m \in l + 1 .. Len(archive.layers) : ~Removes(m, p)
Showing(p) ==
  UNION {{<<l, k>> : k \in {k \in DOMAIN archive.layers[l].tar :
                              /\ ~IsWhiteout(archive.layers[l].tar[k])
                              /\ archive.layers[l].tar[k].path = p
                              /\ Stays(l, p)}} : l \in DOMAIN archive.layers}
Winner(S) == CHOOSE x \in S : \A y \in S : y[1] < x[1] \/ (y[1] = x[1] /\ y[2] <= x[2])

\* What `unpack` leaves in a new directory is the overlay of the layers: each path is of the entry
\* that wins, and nothing a later layer removed is there.  A directory without an entry is one that
\* entries below it needed.  (Links left aside: they make two paths one.)
TreeIsOverlay ==
  outcome = "done" /\ (\A l \in Range(archive.layers) : \A e \in Range(l.tar) : e.kind \notin Links) =>
    \A p \in Paths \ {<<>>} :
      IF Showing(p) # {} THEN tree[p].from = Winner(Showing(p))
      ELSE /\ tree[p] \in {Nothing, Folder}
           /\ (\E q \in Paths : Under(p, q) /\ Showing(q) # {}) => tree[p] = Folder

\* unpack.rs, `apply_layer`: the record is of "the image paths whose setuid or setgid bit this
\* extraction cleared, as the final image has them"; docs/usage.md: one line for each.
ReportIsOfFinalImage == outcome = "done" => setid = {p \in Paths : tree[p].bit}
================================================================================
