---------------------------------- MODULE Watch ----------------------------------
(***************************************************************************)
(* `pack --watch` (src/src/watch.rs): the poll loop, and the build that    *)
(* rewrites the binary at any moment, also while a pack reads it.          *)
(*                                                                         *)
(* The loop sees only the mtime and the length of the file, its stamp.  A  *)
(* pack opens the file twice: once to resolve its dependencies, once to    *)
(* copy its bytes into the rootfs it then delivers.  Any pack may fail.    *)
(***************************************************************************)
EXTENDS Integers

CONSTANTS
  MaxChanges,   \* bound: how often the build changes the file
  NoticePolls,  \* ABSENT_NOTICE_POLLS
  KeepsTime     \* whether a file put back keeps its old mtime, as `mv` does

ASSUME WatchAssumption ==
  MaxChanges \in Nat /\ NoticePolls \in Nat \ {0} /\ KeepsTime \in BOOLEAN

VARIABLES
  file,       \* the binary on disk, or Absent
  backup,     \* a version the build moved aside, or Absent
  changes,    \* how often the build touched the path; also its clock
  pc,         \* what the loop does next
  packed,     \* the stamp taken before the last pack
  last,       \* the stamp of the last look
  gone,       \* looks in a row that found nothing, up to NoticePolls + 1
  staged,     \* of the running pack: the version resolved and the version copied, or 0
  delivered,  \* the last image: the version resolved and the version copied
  failed,     \* the stamp taken before the last pack that failed, or None
  packs,      \* packs started
  notices     \* "is gone" lines printed

fileVars == <<file, backup, changes>>
loopVars == <<pc, packed, last, gone, staged, delivered, failed, packs, notices>>
vars ==
  <<file, backup, changes, pc, packed, last, gone, staged, delivered, failed, packs, notices>>

\* Stamps and versions are numbered by the clock, from 1.
None   == 0
Absent == [ver |-> 0, stamp |-> None, whole |-> FALSE]
Stamp  == file.stamp
Here   == file # Absent

NoVersion == [graph |-> 0, bytes |-> 0]

Init ==
  /\ file = [ver |-> 1, stamp |-> 1, whole |-> TRUE] /\ backup = Absent /\ changes = 1
  /\ pc = "stamp" /\ packed = None /\ last = None /\ gone = 0
  /\ staged = NoVersion /\ delivered = NoVersion /\ failed = None
  /\ packs = 0 /\ notices = 0

--------------------------------------------------------------------------------
\* The build (external): every write gives a fresh mtime.

Touch == changes < MaxChanges /\ changes' = changes + 1 /\ UNCHANGED loopVars

\* A linker unlinks the output, writes it in parts and completes it.
Unlink == Touch /\ Here /\ file' = Absent /\ UNCHANGED backup
Write  ==
  /\ Touch
  /\ file' = [ver |-> changes', stamp |-> changes', whole |-> FALSE]
  /\ UNCHANGED backup
Complete ==
  /\ Touch /\ Here /\ ~file.whole
  /\ file' = [ver |-> changes', stamp |-> changes', whole |-> TRUE]
  /\ UNCHANGED backup

\* Or a finished file is renamed over the name, and the old one put back later.
Install ==
  /\ Touch
  /\ file' = [ver |-> changes', stamp |-> changes', whole |-> TRUE]
  /\ backup' = file
PutBack ==
  /\ Touch
  /\ backup # Absent
  /\ file' = IF KeepsTime THEN backup ELSE [backup EXCEPT !.stamp = changes']
  /\ backup' = Absent

Build == Unlink \/ Write \/ Complete \/ Install \/ PutBack

--------------------------------------------------------------------------------
\* The loop.

\* `pack_current`: the stamp is taken before the pack.
TakeStamp ==
  /\ pc = "stamp"
  /\ packed' = Stamp
  /\ packs' = packs + 1
  /\ pc' = "graph"
  /\ UNCHANGED <<fileVars, last, gone, staged, delivered, failed, notices>>

\* A part of a binary fails to parse as an ELF, or resolves like any other.
ReadGraph ==
  /\ pc = "graph" /\ Here
  /\ staged' = [graph |-> file.ver, bytes |-> 0]
  /\ pc' = "bytes"
  /\ UNCHANGED <<fileVars, packed, last, gone, delivered, failed, packs, notices>>

CopyBytes ==
  /\ pc = "bytes" /\ Here
  /\ staged' = [staged EXCEPT !.bytes = file.ver]
  /\ pc' = "deliver"
  /\ UNCHANGED <<fileVars, packed, last, gone, delivered, failed, packs, notices>>

\* Mutant: the version that was packed is read off when the pack is done.
DeliverThenStamp ==
  /\ pc = "deliver"
  /\ delivered' = staged /\ staged' = NoVersion
  /\ packed' = Stamp
  /\ pc' = "look"
  /\ UNCHANGED <<fileVars, last, gone, failed, packs, notices>>
\* `docker load`, or the archive renamed into place.
DeliverImage ==
  /\ pc = "deliver"
  /\ delivered' = staged /\ staged' = NoVersion
  /\ pc' = "look"
  /\ UNCHANGED <<fileVars, packed, last, gone, failed, packs, notices>>

\* A pack fails at any point: on a binary that is absent or half written, and as well on a whole
\* one, by a gate, a full disk, or an engine that does not load it; a smoke run fails after the
\* image is out.  The first pack fails like a plain `pack`; a later failure is printed, the watch
\* goes on, and the next pack waits for the next change.
PackFails ==
  /\ pc \in {"graph", "bytes", "deliver"}
  /\ delivered' \in {delivered} \cup (IF pc = "deliver" THEN {staged} ELSE {})
  /\ staged' = NoVersion
  /\ failed' = packed
  /\ pc' = IF packs = 1 THEN "ended" ELSE "look"
  /\ UNCHANGED <<fileVars, packed, last, gone, packs, notices>>

\* `wait_for_change`.
Look ==
  /\ pc = "look"
  /\ last' = Stamp /\ gone' = 0
  /\ pc' = "poll"
  /\ UNCHANGED <<fileVars, packed, staged, delivered, failed, packs, notices>>

\* Mutant: the version is not compared with the one packed.
StableStill == Here /\ Stamp = last
Stable      == Here /\ Stamp # packed /\ Stamp = last

PollStable ==
  /\ pc = "poll" /\ Stable
  /\ pc' = "stamp"
  /\ UNCHANGED <<fileVars, packed, last, gone, staged, delivered, failed, packs, notices>>

Notice(n)     == n = NoticePolls

Absences(n) == IF Here THEN 0 ELSE IF n > NoticePolls THEN n ELSE n + 1

PollAgain ==
  /\ pc = "poll" /\ ~Stable
  /\ gone' = Absences(gone)
  /\ notices' = IF Notice(gone') THEN notices + 1 ELSE notices
  /\ last' = Stamp
  /\ UNCHANGED <<fileVars, pc, packed, staged, delivered, failed, packs>>

Loop ==
  \/ TakeStamp \/ ReadGraph \/ CopyBytes \/ DeliverImage \/ PackFails
  \/ Look \/ PollStable \/ PollAgain

Next == Build \/ Loop

\* The loop is one thread that sleeps and polls for ever; the build owes nothing.
Spec == Init /\ [][Next]_vars /\ WF_vars(Loop)

--------------------------------------------------------------------------------
\* Properties.

\* Every variable has its type.
TypeOK ==
  /\ file \in [ver : Nat, stamp : Nat, whole : BOOLEAN]
  /\ backup \in [ver : Nat, stamp : Nat, whole : BOOLEAN]
  /\ changes \in Nat
  /\ pc \in {"stamp", "graph", "bytes", "deliver", "look", "poll", "ended"}
  /\ packed \in Nat /\ last \in Nat /\ failed \in Nat
  /\ gone \in 0 .. NoticePolls + 1
  /\ staged \in [graph : Nat, bytes : Nat] /\ delivered \in [graph : Nat, bytes : Nat]
  /\ packs \in Nat /\ notices \in Nat

\* No pack without a change: the loop packs once, and at most once more for each change of the
\* file.  A failed pack is not tried again until the file changes.
PacksFollowChanges == packs <= changes

\* "is gone" is said one time for each time the file goes.
OneNoticePerAbsence == notices < changes

\* Once the build leaves a whole binary alone, the image becomes that binary, with the
\* dependencies of that binary, and stays so; or the pack of that very binary has failed, and said
\* so.  A pack that was begun before the last change, whether it failed or not, is no answer to
\* it: another pack follows.
ImageCatchesUp ==
  \A v \in 1 .. MaxChanges :
    <>[](pc # "ended" /\ file.ver = v /\ file.whole) =>
      <>[](delivered = [graph |-> v, bytes |-> v] \/ failed = Stamp)
==================================================================================
