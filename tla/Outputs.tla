---------------------------------- MODULE Outputs ----------------------------------
(***************************************************************************)
(* What packs leave at an output path they share: `--oci-archive`           *)
(* (src/src/image.rs) replaces an archive by a sibling it renames,          *)
(* `--no-build` (src/src/pack.rs) stages into a directory that is new or    *)
(* empty.  Packs run side by side, fail in any write, and can be killed;    *)
(* readers open the archive at any time.                                    *)
(***************************************************************************)
EXTENDS Naturals, Sequences

CONSTANTS
  Packs,
  Readers,
  Blocks,   \* the writes one archive takes
  Old,      \* what an earlier pack left
  Hole      \* bytes nobody wrote

ASSUME OutputsAssumption ==
  /\ Blocks \in Nat \ {0} /\ Old \notin Packs /\ Hole \notin Packs \cup {Old}

\* One file for each pack, and the one that was there.
Inodes == Packs \cup {Old}
Kinds  == {"absent", "file", "link", "dir"}

VARIABLES
  wants,    \* pack -> "archive" or "tree"
  pc,       \* pack -> where it is
  saw,      \* pack -> what it found at the path, and its mode
  written,  \* pack -> blocks it wrote
  dest,     \* what is at the path; a "link" leads to the file Old
  node,     \* the file there
  data,     \* file -> the pack each block is of
  mode,     \* file -> "open" or "private"
  siblings, \* temporary files with a name
  tree,     \* the packs that have files in the directory
  ended,    \* pack -> the packs that had ended when it checked the directory
  reading   \* reader -> the file it has open, and the blocks it got

destVars == <<dest, node, data, mode, siblings>>
vars == <<wants, pc, saw, written, destVars, tree, ended, reading>>

Running == {"start", "looked", "created", "direct", "writing", "persist", "absent", "staging"}
States  == Running \cup {"done", "failed", "killed"}

NotReading == [node |-> Old, got |-> <<>>, at |-> "idle"]

Init ==
  /\ wants \in [Packs -> {"archive", "tree"}]
  /\ pc = [p \in Packs |-> "start"]
  /\ saw = [p \in Packs |-> [kind |-> "absent", mode |-> "open"]]
  /\ written = [p \in Packs |-> 0]
  /\ dest \in Kinds /\ node = Old
  /\ data = [i \in Inodes |-> IF i = Old THEN [b \in 1 .. Blocks |-> Old] ELSE <<>>]
  /\ mode \in {m \in [Inodes -> {"open", "private"}] :
                \A i \in Inodes : i # Old \/ dest # "file" => m[i] = "open"}
  /\ siblings = {}
  /\ tree \in IF dest = "dir" THEN {{}, {Old}} ELSE {{}}
  /\ ended = [p \in Packs |-> {}]
  /\ reading = [r \in Readers |-> NotReading]

Go(p, next) == pc' = [pc EXCEPT ![p] = next]

Found == [kind |-> dest, mode |-> IF dest = "file" THEN mode[node] ELSE "open"]

--------------------------------------------------------------------------------
\* `write_oci_archive`.

LookArchive(p) ==
  /\ pc[p] = "start" /\ wants[p] = "archive"
  /\ saw' = [saw EXCEPT ![p] = Found]
  /\ Go(p, "looked")
  /\ UNCHANGED <<wants, written, destVars, tree, ended, reading>>

\* Mutant: a file that is there is written in place too.
AnyFile(kind) == kind \in {"file", "link"}
WrittenStraight(kind) == kind = "link"

\* `File::create` empties the file.
OpenStraight(p) ==
  /\ pc[p] = "looked" /\ WrittenStraight(saw[p].kind)
  /\ data' = [data EXCEPT ![node] = <<>>]
  /\ Go(p, "direct")
  /\ UNCHANGED <<wants, saw, written, dest, node, mode, siblings, tree, ended, reading>>

\* Each writer has its own position in the file.
WriteAt(d, k, p) ==
  [i \in 1 .. (IF k > Len(d) THEN k ELSE Len(d)) |->
     IF i = k THEN p ELSE IF i <= Len(d) THEN d[i] ELSE Hole]

WriteBlock(p) ==
  /\ pc[p] \in {"direct", "writing"}
  /\ written[p] < Blocks
  /\ LET f == IF pc[p] = "direct" THEN Old ELSE p
     IN  data' = [data EXCEPT ![f] = WriteAt(@, written[p] + 1, p)]
  /\ written' = [written EXCEPT ![p] = @ + 1]
  /\ UNCHANGED <<wants, pc, saw, dest, node, mode, siblings, tree, ended, reading>>

EndWrite(p) ==
  /\ pc[p] \in {"direct", "writing"} /\ written[p] = Blocks
  /\ Go(p, IF pc[p] = "direct" THEN "done" ELSE "persist")
  /\ UNCHANGED <<wants, saw, written, destVars, tree, ended, reading>>

CreateSibling(p) ==
  /\ pc[p] = "looked" /\ ~WrittenStraight(saw[p].kind)
  /\ siblings' = siblings \cup {p}
  /\ Go(p, "created")
  /\ UNCHANGED <<wants, saw, written, dest, node, data, mode, tree, ended, reading>>

\* Mutant: the new archive has the mode of a new file.
AsNew(p) == "open"
\* The mode of the archive the pack found.
Carried(p) == IF saw[p].kind = "file" THEN saw[p].mode ELSE mode[p]

CarryMode(p) ==
  /\ pc[p] = "created"
  /\ mode' = [mode EXCEPT ![p] = Carried(p)]
  /\ Go(p, "writing")
  /\ UNCHANGED <<wants, saw, written, dest, node, data, siblings, tree, ended, reading>>

\* The rename replaces a file, not a directory.
Persist(p) ==
  /\ pc[p] = "persist" /\ dest # "dir"
  /\ dest' = "file" /\ node' = p
  /\ siblings' = siblings \ {p}
  /\ Go(p, "done")
  /\ UNCHANGED <<wants, saw, written, data, mode, tree, ended, reading>>

\* Mutant: the sibling outlives a failed pack.
KeepSibling(p) == siblings
Dropped(p) == siblings \ {p}

\* Any write can fail, and a rename onto a directory does.
FailArchive(p) ==
  /\ pc[p] \in {"looked", "created", "direct", "writing"} \/ (pc[p] = "persist" /\ dest = "dir")
  /\ siblings' = Dropped(p)
  /\ Go(p, "failed")
  /\ UNCHANGED <<wants, saw, written, dest, node, data, mode, tree, ended, reading>>

--------------------------------------------------------------------------------
\* `check_output_dir`, `claim_output_dir` and the staging of `stage_only`.

\* Mutant: a directory is fit to stage into, whatever it holds.
AnyDirectory == dest = "dir"
EmptyDirectory == dest = "dir" /\ tree = {}

CheckDir(p) ==
  /\ pc[p] = "start" /\ wants[p] = "tree"
  /\ saw' = [saw EXCEPT ![p] = Found]
  /\ ended' = [ended EXCEPT ![p] = {Old} \cup {q \in Packs : pc[q] \notin Running}]
  /\ Go(p, IF dest = "absent" THEN "absent" ELSE IF EmptyDirectory THEN "staging" ELSE "failed")
  /\ UNCHANGED <<wants, written, destVars, tree, reading>>

\* `create_dir` fails on what has come to be there since.
ClaimDir(p) ==
  /\ pc[p] = "absent"
  /\ \/ /\ dest = "absent"
        /\ dest' = "dir"
        /\ Go(p, "staging")
     \/ /\ dest # "absent"
        /\ Go(p, "failed")
        /\ UNCHANGED dest
  /\ UNCHANGED <<wants, saw, written, node, data, mode, siblings, tree, ended, reading>>

StageFile(p) ==
  /\ pc[p] = "staging" /\ written[p] < Blocks
  /\ tree' = tree \cup {p}
  /\ written' = [written EXCEPT ![p] = @ + 1]
  /\ UNCHANGED <<wants, pc, saw, destVars, ended, reading>>

EndStage(p) ==
  /\ pc[p] = "staging"
  /\ Go(p, IF written[p] = Blocks THEN "done" ELSE "failed")
  /\ UNCHANGED <<wants, saw, written, destVars, tree, ended, reading>>

--------------------------------------------------------------------------------
\* A signal ends a pack where it is; a reader opens what is at the path, and reads to the end.

Kill(p) ==
  /\ pc[p] \in Running
  /\ Go(p, "killed")
  /\ UNCHANGED <<wants, saw, written, destVars, tree, ended, reading>>

OpenArchive(r) ==
  /\ reading[r].at = "idle" /\ dest = "file"
  /\ reading' = [reading EXCEPT ![r] = [node |-> node, got |-> <<>>, at |-> "open"]]
  /\ UNCHANGED <<wants, pc, saw, written, destVars, tree, ended>>

ReadBlock(r) ==
  /\ reading[r].at = "open"
  /\ LET file == data[reading[r].node]
         k    == Len(reading[r].got)
     IN  \/ /\ k < Len(file)
            /\ reading' = [reading EXCEPT ![r].got = Append(@, file[k + 1])]
         \/ /\ k >= Len(file)
            /\ reading' = [reading EXCEPT ![r].at = "read"]
  /\ UNCHANGED <<wants, pc, saw, written, destVars, tree, ended>>

Next ==
  \/ \E p \in Packs :
       \/ LookArchive(p) \/ OpenStraight(p) \/ CreateSibling(p) \/ CarryMode(p)
       \/ WriteBlock(p) \/ EndWrite(p) \/ Persist(p) \/ FailArchive(p)
       \/ CheckDir(p) \/ ClaimDir(p) \/ StageFile(p) \/ EndStage(p)
       \/ Kill(p)
  \/ \E r \in Readers : OpenArchive(r) \/ ReadBlock(r)

Spec == Init /\ [][Next]_vars

--------------------------------------------------------------------------------
\* Properties.

\* Every variable has its type.
TypeOK ==
  /\ wants \in [Packs -> {"archive", "tree"}]
  /\ pc \in [Packs -> States]
  /\ saw \in [Packs -> [kind : Kinds, mode : {"open", "private"}]]
  /\ written \in [Packs -> 0 .. Blocks]
  /\ dest \in Kinds /\ node \in Inodes
  /\ data \in [Inodes -> Seq(Inodes \cup {Hole})]
  /\ mode \in [Inodes -> {"open", "private"}]
  /\ siblings \subseteq Packs
  /\ tree \subseteq Inodes
  /\ ended \in [Packs -> SUBSET Inodes]
  /\ reading \in [Readers -> [node : Inodes, got : Seq(Inodes \cup {Hole}),
                             at : {"idle", "open", "read"}]]

\* image.rs: "a reader never sees a half-written archive": it gets every block of one archive,
\* however many packs replace, fail or die while it reads.
ReaderSeesWhole ==
  \A r \in Readers : reading[r].at = "read" =>
    \E i \in Inodes : reading[r].got = [b \in 1 .. Blocks |-> i]

\* image.rs: replacing a private archive never loosens it: no byte of an archive that replaces
\* it, or is still to, is in a file others can read.
NeverLooser ==
  mode[Old] = "private" => \A p \in Packs : data[p] # <<>> => mode[p] = "private"

\* image.rs: only a signal leaves a sibling beside the archive.
SiblingsSwept == \A p \in siblings : pc[p] \in Running \cup {"killed"}

\* pack.rs, `check_output_dir`: no file of a pack that was over when this one looked stays in
\* the tree it stages.
NothingStaleIsMerged == \A p \in Packs : p \in tree => tree \cap ended[p] = {}
================================================================================
