--------------------------------- MODULE Delivery ---------------------------------
(***************************************************************************)
(* From the staged tree to the image and back: `build_image` and the sinks *)
(* of src/src/image.rs, the archive read again by Unpack, and `diff`       *)
(* (src/src/diff.rs) between the tree staged and the tree unpacked.        *)
(*                                                                         *)
(* A digest is what was digested: equal digests are equal bytes.           *)
(***************************************************************************)
EXTENDS Unpack, SequencesExt

CONSTANTS
  Trees,      \* the staged trees considered: path -> staged node
  Configs,    \* the image options considered
  Hides,      \* what a name that begins with `.wh.` hides: the name after it, or NoName for `.wh..wh..opq`
  Sizes,      \* the sizes that what is packed may come to
  MaxBuilds   \* bound: how often one tree is packed

Bodies == 1 .. 2
Modes  == {"private", "plain", "exec", "setuid"}
\* A staged file has a body and a mode; a tree as `stage` leaves it, or one that this process
\* cannot wholly read.
StagedNode == [kind : Kinds, to : Names \cup {NoName}, body : Bodies \cup {0}, mode : Modes, reads : BOOLEAN]

\* What holds something is a directory, and a link, and nothing else, has a target.
IsTree(t) ==
  /\ t \in [Paths -> StagedNode] /\ t[<<>>].kind = "dir"
  /\ \A p \in Paths : /\ p # <<>> /\ t[p].kind # "none" => t[Parent(p)].kind = "dir"
                      /\ t[p].kind \in Links <=> t[p].to # NoName
                      /\ t[p].kind \in Links => Len(p) = 1

\* The bytes of what the archive stores, and of the layer's tar before it is compressed.
ArchiveSizes == [index : Nat, config : Nat, layer : Nat, manifest : Nat, tar : Nat]

ASSUME DeliveryAssumption ==
  /\ MaxBuilds \in Nat \ {0}
  /\ \A t \in Trees : IsTree(t)
  /\ DOMAIN Hides \subseteq Names /\ \A n \in DOMAIN Hides : Hides[n] \in Names \cup {NoName}
  /\ Sizes \subseteq ArchiveSizes

VARIABLES
  staged,   \* the staged tree
  config,   \* the options of the image
  phase,    \* what `pack` does, "unpacking", or "foreign" for an archive of someone else
  listed,   \* `sorted_entries`: the paths, first in the order of the walk
  entries,  \* `deterministic_tar`: the entries written
  builds,   \* how often the tree was packed
  images,   \* the identities of the images delivered
  bodies    \* of the archive: the body of each entry of its layer

deliveryVars == <<staged, config, phase, listed, entries, builds, images, bodies>>
dvars == <<vars, deliveryVars>>

Present(t) == {p \in Paths \ {<<>>} : t[p].kind # "none"}

--------------------------------------------------------------------------------
\* The image: a layer, and a config that names it.

\* Canonical mode: 0755 for what some one may execute, else 0644.  Nothing else is kept.
Mode(node) == IF node.mode \in {"exec", "setuid"} THEN "exec" ELSE "plain"

\* A directory is written with a mode of its own, a link with its target.
EntryOf(p) ==
  LET node == staged[p] IN
  [path |-> p, kind |-> node.kind, to |-> node.to,
   body |-> IF node.kind = "file" THEN node.body ELSE 0,
   mode |-> IF node.kind = "file" THEN Mode(node) ELSE "dir or link"]

\* The config records the digest of the tar, the manifest that of its gzip.
BuildLayer(tar) == [gzip |-> <<"gzip", tar>>, diff_id |-> tar, digest |-> <<"gzip", tar>>]

\* Entries of the environment are <<key, value>>; the user's replace by key, the rest are added.
DefaultEnv == << <<"PATH", "default">> >>
MergedEnv(user) ==
  FoldLeft(LAMBDA env, entry :
             IF \E i \in DOMAIN env : env[i][1] = entry[1]
             THEN [i \in DOMAIN env |-> IF env[i][1] = entry[1] THEN entry ELSE env[i]]
             ELSE Append(env, entry),
           DefaultEnv, user)

Given(x, default) == IF x = "unset" THEN default ELSE x
ImageConfig(diff_id) ==
  [entrypoint |-> Given(config.entrypoint, "the packed binary"), user |-> Given(config.user, "nonroot"),
   env |-> MergedEnv(config.env), diff_ids |-> <<diff_id>>]

BuildImage(tar) ==
  LET layer_ == BuildLayer(tar) IN [layer |-> layer_, config |-> ImageConfig(layer_.diff_id)]

\* `docker load` takes the config's digest for the image ID, and any OCI reader does the same.
Identity(built) == <<built.config, built.layer.digest>>

\* An entry of the layer as `unpack` takes it: one whose name begins with `.wh.` is a whiteout,
\* whatever was staged under that name.  (`.wh.` alone, which hides nothing, is left aside.)
Marker(p) == p # <<>> /\ p[Len(p)] \in DOMAIN Hides
Taken(e) ==
  LET name == e.path[Len(e.path)] IN
  IF ~Marker(e.path) THEN [path |-> e.path, kind |-> e.kind, bit |-> FALSE, to |-> e.to]
  ELSE [path |-> IF Hides[name] = NoName THEN Parent(e.path) ELSE Append(Parent(e.path), Hides[name]),
        kind |-> IF Hides[name] = NoName THEN "opaque" ELSE "whiteout", bit |-> FALSE, to |-> NoName]

\* The layout `unpack` reads: a blob is looked up, and verified, by the digest it is stored under.
\* What each comes to depends on what is packed; every entry has a header too.
OciArchive(built, sizes) ==
  LET blob(what, size, digest, content) ==
        [holds |-> what, size |-> size, matches |-> digest = content, sparse |-> FALSE]
  IN [length |-> sizes.index + sizes.config + sizes.layer + sizes.manifest + 6, multi |-> FALSE,
      stored |-> <<blob(<<"other", 0>>, 1, "oci-layout", "oci-layout"),
                   blob(<<"index", 0>>, sizes.index, "index", "index"),
                   blob(<<"config", 0>>, sizes.config, built.config, built.config),
                   blob(<<"layer", 1>>, sizes.layer, built.layer.digest, built.layer.gzip),
                   blob(<<"manifest", 0>>, sizes.manifest, "manifest", "manifest")>>,
      layers |-> <<[media |-> "gzip", size |-> sizes.tar,
                    tar |-> [i \in DOMAIN entries |-> Taken(entries[i])]]>>]

NoArchive == [length |-> 0, stored |-> <<>>, multi |-> FALSE, layers |-> <<>>]

--------------------------------------------------------------------------------
\* `pack`, from the staged tree on.

DeliveryInit ==
  /\ listed = <<>> /\ entries = <<>> /\ builds = 0 /\ images = {} /\ bodies = <<>>
  /\ \/ /\ Init /\ phase = "foreign"
        /\ staged = [p \in Paths |-> Nothing] /\ config = <<>>
     \/ /\ phase = "walk" /\ staged \in Trees /\ config \in Configs
        /\ archive = NoArchive /\ outcome = "packing" /\ budget = 0 /\ held = 0
        /\ layer = 1 /\ pass = 1 /\ pos = 1 /\ walk = Idle
        /\ tree = [p \in Paths |-> IF p = <<>> THEN Folder ELSE Nothing]
        /\ setid = {}

\* Mutant: an entry the walk cannot read is left out.
ErrorDropped(p) == FALSE
WalkError(p) == staged[p].kind = "dir" /\ ~staged[p].reads

InList(p) == p \in Range(listed)
\* The walk goes on from what it has read, in the order the file system answers.
Reachable ==
  {p \in Present(staged) : ~InList(p) /\ (Len(p) = 1 \/ (InList(Parent(p)) /\ staged[Parent(p)].reads))}

Walk ==
  /\ phase = "walk"
  /\ \E p \in Reachable :
       IF WalkError(p) THEN phase' = "stopped" /\ UNCHANGED listed
       ELSE listed' = Append(listed, p) /\ UNCHANGED phase
  /\ UNCHANGED <<vars, staged, config, entries, builds, images, bodies>>

\* By component, as `Path` orders: a directory before what is in it.
Order == SetToSeq(Names)
Rank(n) == CHOOSE i \in DOMAIN Order : Order[i] = n
Before(p, q) ==
  \/ p = <<>> /\ q # <<>>
  \/ p # <<>> /\ q # <<>> /\ (Rank(p[1]) < Rank(q[1])
                              \/ (p[1] = q[1] /\ Len(p) < Len(q))
                              \/ (p[1] = q[1] /\ Len(p) = 2 /\ Len(q) = 2 /\ Rank(p[2]) < Rank(q[2])))
\* Mutant: the entries stay in the order of the walk.
AsWalked(paths) == paths
\* The place of a path is the number of those before it.
InOrder(S) ==
  [i \in 1 .. Cardinality(S) |-> CHOOSE p \in S : Cardinality({q \in S : Before(q, p)}) = i - 1]
Sorted(paths) == InOrder(Range(paths))

WalkEnds ==
  /\ phase = "walk" /\ Reachable = {}
  /\ listed' = Sorted(listed)
  /\ phase' = "read"
  /\ UNCHANGED <<vars, staged, config, entries, builds, images, bodies>>

\* Every entry is read again for the tar; a file that cannot be read fails the pack.
ReadStaged ==
  /\ phase = "read" /\ Len(entries) < Len(listed)
  /\ LET p == listed[Len(entries) + 1] IN
     IF staged[p].kind = "file" /\ ~staged[p].reads
     THEN phase' = "stopped" /\ UNCHANGED entries
     ELSE entries' = Append(entries, EntryOf(p)) /\ UNCHANGED phase
  /\ UNCHANGED <<vars, staged, config, listed, builds, images, bodies>>

\* `load_into_docker`, `push_to_registry` and `write_oci_archive` all take what `build_image` made.
Delivers(then) ==
  /\ phase = "read" /\ Len(entries) = Len(listed)
  /\ images' = images \cup {Identity(BuildImage(entries))}
  /\ builds' = builds + 1
  /\ phase' = then
  /\ UNCHANGED <<outcome, budget, held, layer, pass, pos, walk, tree, setid, staged, config, listed, entries>>

Hand == Delivers("delivered") /\ UNCHANGED <<archive, bodies>>
WriteArchive ==
  /\ Delivers("written")
  /\ \E sizes \in Sizes : archive' = OciArchive(BuildImage(entries), sizes)
  /\ bodies' = [i \in DOMAIN entries |-> entries[i].body]

\* The same files are staged again, by another user or under another umask.
Restaged ==
  LET other == [private |-> "plain", plain |-> "private", exec |-> "setuid", setuid |-> "exec"]
  IN  [p \in Paths |-> [staged[p] EXCEPT !.mode = other[@]]]
PackAgain ==
  /\ phase \in {"delivered", "written"} /\ builds < MaxBuilds
  /\ staged' = Restaged
  /\ listed' = <<>> /\ entries' = <<>>
  /\ phase' = "walk"
  /\ UNCHANGED <<vars, config, builds, images, bodies>>

--------------------------------------------------------------------------------
\* `unpack` of the archive, and of archives others made.

Open ==
  /\ phase = "written"
  /\ phase' = "unpacking"
  /\ outcome' = "reading" /\ budget' = archive.length
  /\ UNCHANGED <<archive, held, layer, pass, pos, walk, tree, setid>>
  /\ UNCHANGED <<staged, config, listed, entries, builds, images, bodies>>

Unpacking ==
  /\ phase \in {"unpacking", "foreign"}
  /\ Next
  /\ UNCHANGED deliveryVars

Packing == Walk \/ WalkEnds \/ ReadStaged \/ Hand \/ WriteArchive

DeliveryNext == Packing \/ PackAgain \/ Open \/ Unpacking

\* A process that was started goes on to its end; nobody has to start the next.
DeliverySpec == DeliveryInit /\ [][DeliveryNext]_dvars /\ WF_dvars(Packing) /\ WF_dvars(Unpacking)

--------------------------------------------------------------------------------
\* `diff`.

\* `scan`: files by what they hold, links by their target, directories not at all.
ScanStaged(t) ==
  [p \in {q \in Present(t) : t[q].kind # "dir"} |->
     IF t[p].kind = "file" THEN <<"file", t[p].body>> ELSE <<t[p].kind, t[p].to>>]
ScanUnpacked ==
  [p \in {q \in Paths : tree[q].kind \notin {"none", "dir"}} |->
     IF tree[p].kind = "file" THEN <<"file", bodies[tree[p].from[2]]>> ELSE <<tree[p].kind, tree[p].to>>]

Diff(old, new) ==
  [added   |-> DOMAIN new \ DOMAIN old,
   removed |-> DOMAIN old \ DOMAIN new,
   changed |-> {p \in DOMAIN old \cap DOMAIN new : old[p] # new[p]}]

--------------------------------------------------------------------------------
\* Properties.

\* What is stored, or inflates, past the caps of `unpack`.
Oversized ==
  \/ \E e \in Range(archive.stored) : e.size > EntryCap
  \/ \E l \in Range(archive.layers) : l.size > LayerCap

\* What `pack --oci-archive` wrote, `unpack` refuses only for a size past its caps; else it finds
\* no bit to clear, and `diff` between the staged tree and the unpacked one (a new directory)
\* shows the files whose name makes them whiteouts as removed, and nothing else.  No short layer
\* is ever written.
RoundTrip ==
  phase = "unpacking" =>
    /\ outcome = "failed" => Oversized
    /\ outcome = "done" =>
         /\ ~Oversized /\ setid = {}
         /\ Diff(ScanStaged(staged), ScanUnpacked)
              = [added |-> {}, removed |-> {p \in DOMAIN ScanStaged(staged) : Marker(p)}, changed |-> {}]

\* One tree is one image: however often it is packed, in whatever order its directories answer,
\* whoever staged it, and to whichever sink, the image has the same identity.
Reproducible == Cardinality(images) <= 1

\* An archive is applied or refused, ours and those of others; none keeps `unpack` busy for ever.
ReadingEnds == phase \in {"unpacking", "foreign"} ~> outcome \in {"done", "failed"}
==================================================================================
