------------------------------- MODULE PackPipeline -------------------------------
(***************************************************************************)
(* `pack`: one run from the options to the delivered image                 *)
(* (src/src/pack.rs, with the package records of src/src/packages.rs).     *)
(*                                                                         *)
(* The tree is the set of what is staged.  Every phase may fail, and a     *)
(* failure leaves what the code leaves: nothing of an image sink's         *)
(* temporary directory, and a half-staged tree where --no-build puts it.   *)
(***************************************************************************)
EXTENDS Naturals, FiniteSets

CONSTANTS
  Program, Libs, Modules,   \* image paths: the binary, loader and libraries, NSS modules
  Conf,                     \* the generated files: nsswitch.conf, passwd, ld.so.cache
  Extra,                    \* what --ca-certs, --tz, --init stage
  Locale,                   \* the directory of the --locale data
  Records,                  \* the package records, but for os-release
  OsRelease,                \* /etc/os-release
  Elsewhere,                \* paths that only an --add-file uses
  RecordDirs,               \* the directories on the way to the records
  Options,                  \* what a user can ask for
  Scans                     \* the answers of grype: the severities of its findings, in lower case

Paths == {Program, Locale, OsRelease} \cup Libs \cup Modules \cup Conf \cup Extra \cup Records \cup RecordDirs
           \cup Elsewhere

\* An --add-file entry: its destination, and what --symlinks makes of its source.
AddFiles == [at : Paths, as : {"file", "link", "skip"}]

\* --packages.  An unnamed selection is the default `report,sbom`, less `report` in text mode.
Selections ==
  {s \in [report : BOOLEAN, sbom : BOOLEAN, image : BOOLEAN, explicit : BOOLEAN] :
     ~s.explicit => s.sbom /\ ~s.image}

\* `Severity`, lowest first, above what grype did not rank.
Severities == {"negligible", "low", "medium", "high", "critical"}
Rank == [unknown |-> 0, negligible |-> 1, low |-> 2, medium |-> 3, high |-> 4, critical |-> 5]

\* PackOptions, with the sink: a scan is off, reports, or fails the pack from a severity on.
\* max is counted in staged files.
AllOptions ==
  [sink : {"rootfs", "docker", "archive", "push"}, smoke : BOOLEAN, sign : BOOLEAN,
   sbom : BOOLEAN, scan : {"off", "report"} \cup Severities, packages : Selections, max : Nat,
   deny : SUBSET Paths, require : SUBSET Paths, add : SUBSET AddFiles, extras : BOOLEAN,
   locale : BOOLEAN]

ASSUME PipelineAssumption ==
  /\ Options \subseteq AllOptions
  /\ \A s \in {Libs, Modules, Conf, Extra, Records, RecordDirs} : IsFiniteSet(s)
  /\ OsRelease \notin Records
  /\ Scans \subseteq SUBSET STRING
  /\ RecordDirs \cap ({Program, Locale, OsRelease} \cup Libs \cup Modules \cup Conf \cup Extra \cup Records) = {}

VARIABLES
  opts,       \* what the user asked for
  pc,         \* the next phase, or how the pack ended
  why,        \* which phase failed
  tree,       \* what is staged
  guard,      \* StagedRecords: the records that are removed again when it is dropped
  sel,        \* the selection still in force
  owners,     \* "unasked", "unknown" (the host could not answer) or "known"
  named,      \* the files some package owns
  warned,     \* the subjects of the warnings
  sbomSaw,    \* the tree syft read
  scanSaw,    \* the tree grype read, directly or in the SBOM
  summary,    \* ScanSummary: the severities it counted findings of
  delivered,  \* what an image sink put out
  digest,     \* what the registry said of the digest
  signed      \* what cosign did

treeVars == <<tree, guard>>
pkgVars  == <<sel, owners, named, warned>>
sawVars  == <<sbomSaw, scanSaw, summary>>
outVars  == <<delivered, digest, signed>>
vars == <<opts, pc, why, tree, guard, sel, owners, named, warned, sbomSaw, scanSaw, summary,
          delivered, digest, signed>>

Sources == {"elf", "nss", "conf", "extra", "user", "locale", "record"}
Entries == [at : Paths, by : Sources, link : BOOLEAN]

Put(ps, src) == {[at |-> p, by |-> src, link |-> FALSE] : p \in ps}
At(t, p)     == \E e \in t : e.at = p
OfUser(fs)   ==
  {[at |-> f.at, by |-> "user", link |-> f.as = "link"] : f \in {g \in fs : g.as # "skip"}}

Init ==
  /\ opts \in Options
  /\ pc = "start" /\ why = "none"
  /\ tree = {} /\ guard = {}
  /\ sel = opts.packages /\ owners = "unasked" /\ named = {} /\ warned = {}
  /\ sbomSaw = {} /\ scanSaw = {} /\ summary = {}
  /\ delivered = {} /\ digest = "none" /\ signed = {}

--------------------------------------------------------------------------------
\* How a phase ends.

\* Mutant: a failed pack does not run the guard.
LeftAfterAll(t) == IF opts.sink = "rootfs" THEN t ELSE {}
LeftOf(t)       == IF opts.sink = "rootfs" THEN t \ guard ELSE {}

FailOver(t, phase) ==
  /\ pc' = "failed" /\ why' = phase
  /\ tree' = LeftOf(t) /\ guard' = {}
  /\ UNCHANGED <<opts, pkgVars, sawVars, outVars>>

Fail(phase) == FailOver(tree, phase)

Goto(phase) == pc' = phase /\ UNCHANGED <<opts, why>>

Stage(more, phase) ==
  /\ tree' = tree \cup more
  /\ Goto(phase)
  /\ UNCHANGED <<guard, pkgVars, sawVars, outVars>>

--------------------------------------------------------------------------------
\* build_rootfs.

\* Each sink but docker refuses --smoke; --no-build wants a new or empty directory.
Dispatch ==
  /\ pc = "start"
  /\ \/ opts.smoke /\ opts.sink # "docker" /\ Fail("usage")
     \/ ~opts.smoke /\ opts.sink = "rootfs" /\ Fail("output")
     \/ (opts.smoke => opts.sink = "docker") /\ Stage({}, "build")

\* Whatever does not parse, is musl, misses a library or cannot be copied fails here.
BuildRootfs ==
  /\ pc = "build"
  /\ \/ \E part \in SUBSET Put({Program} \cup Libs, "elf") : FailOver(part, "build")
     \/ \E found \in SUBSET Modules :
          Stage(Put({Program} \cup Libs, "elf") \cup Put(found, "nss") \cup Put(Conf, "conf"),
                "policy")

\* Mutant: only what the dependency graph names is looked at.
PresentOfGraph == {e.at : e \in {f \in tree : f.by = "elf"}} \ {Program}
Present        == {e.at : e \in {f \in tree : f.by \in {"elf", "nss"}}} \ {Program}

PolicyHolds == opts.deny \cap Present = {} /\ opts.require \subseteq Present

\* check_lib_policy, then strip_and_measure.
CheckLibPolicy ==
  /\ pc = "policy"
  /\ \/ ~PolicyHolds /\ Fail("policy")
     \/ PolicyHolds /\ (Fail("strip") \/ Stage({}, "extras"))

--------------------------------------------------------------------------------
\* finish_staging.

StageRuntimeExtras ==
  /\ pc = "extras"
  /\ \/ opts.extras /\ Fail("extras")
     \/ Stage(IF opts.extras THEN Put(Extra, "extra") ELSE {}, "add")

\* Nothing lands on anything already there, and each destination is given once.
Collides == \/ \E f \in opts.add : At(tree, f.at)
            \/ \E f, g \in opts.add : f # g /\ f.at = g.at

StageAddedFiles ==
  /\ pc = "add"
  /\ \/ \E fs \in SUBSET {f \in opts.add : ~At(tree, f.at)} :
          opts.add # {} /\ FailOver(tree \cup OfUser(fs), "add")
     \/ ~Collides /\ Stage(OfUser(opts.add), "locales")

\* A locale does not replace what is staged, either.
StageLocales ==
  /\ pc = "locales"
  /\ \/ opts.locale /\ Fail("locales")
     \/ /\ ~(opts.locale /\ At(tree, Locale))
        /\ Stage(IF opts.locale THEN Put({Locale}, "locale") ELSE {}, "lookup")

\* The files whose owner is asked for: a link is not credited with its target's package,
\* and nothing is named that is not in the tree.
\* Mutant: an added file is credited without a look at what became of it.
BundledAsAsked ==
  {e.at : e \in {f \in tree : f.by \in {"elf", "nss", "extra"}}} \cup {f.at : f \in opts.add}
Bundled ==
  {e.at : e \in {f \in tree : f.by \in {"elf", "nss", "extra", "user"} /\ ~f.link}}

ReadsTree == opts.sbom \/ opts.scan # "off"

\* drop_unread_sbom.
Unread     == opts.packages.sbom /\ ~ReadsTree
Selection  == [opts.packages EXCEPT !.sbom = @ /\ ReadsTree]
WarnUnread == IF Unread /\ opts.packages.explicit THEN {"unread"} ELSE {}

Any(s)   == s.report \/ s.sbom \/ s.image
\* Mutant: only an image is worth a failure.
RequiresImage(s)   == s.explicit /\ s.image
RequiresRecords(s) == s.explicit /\ (s.sbom \/ s.image)

Looked(s, answer, ps, warnings) ==
  /\ sel' = s /\ owners' = answer /\ named' = ps
  /\ warned' = warned \cup WarnUnread \cup warnings
  /\ Goto("image")
  /\ UNCHANGED <<treeVars, sawVars, outVars>>

\* The host names the owners, has no database, or its tools fail; a default `sbom` that
\* fails is asked again without records.
LookupOwners ==
  LET s == Selection IN
  /\ pc = "lookup"
  /\ \/ ~Any(s) /\ Looked(s, "unasked", {}, {})
     \/ Any(s) /\ RequiresRecords(s) /\ Fail("packages")
     \/ Any(s) /\ \E ps \in SUBSET Bundled : Looked(s, "known", ps, {})
     \/ /\ Any(s) /\ ~RequiresRecords(s)
        /\ Looked(s, "unknown", {}, IF s.explicit THEN {"lookup"} ELSE {})
     \/ /\ s.sbom /\ ~s.explicit
        /\ \/ \E ps \in SUBSET Bundled : Looked([s EXCEPT !.sbom = FALSE], "known", ps, {})
           \/ Looked([s EXCEPT !.sbom = FALSE], "unknown", {}, {"lookup"})

\* stage_records: never over anything staged; an os-release in the tree is left alone.
NewRecords == Put({r \in Records \cup {OsRelease} : r = OsRelease => ~At(tree, OsRelease)}, "record")

Obstructed == \E r \in Records : At(tree, r)      \* RecordsSkipped
Barred     == \E d \in RecordDirs : At(tree, d)   \* any other error

WithRecords == {e \in tree : \A r \in NewRecords : e.at # r.at} \cup NewRecords

HasOwners == owners = "known" /\ named # {}

StageImageRecords ==
  /\ pc = "image"
  /\ \/ ~(sel.image /\ HasOwners) /\ Stage({}, "size")
     \/ sel.image /\ HasOwners /\ (Fail("records") \/ Fail("disk"))
     \/ /\ sel.image /\ HasOwners /\ ~Obstructed /\ ~Barred
        /\ tree' = WithRecords
        /\ Goto("size")
        /\ UNCHANGED <<guard, pkgVars, sawVars, outVars>>

Fits == Cardinality(tree) <= opts.max

EnforceMaxSize ==
  /\ pc = "size"
  /\ \/ ~Fits /\ Fail("size")
     \/ Fits /\ Stage({}, "records")

\* Mutant: the guard removes what is beside its records.
GuardedDirs    == NewRecords \cup {e \in tree : e.by = "user"}
Guarded        == NewRecords
ForScanners    == sel.sbom /\ ~sel.image /\ HasOwners

RecordsMatter == Barred \/ sel.explicit

\* The default goes on without records it cannot make; a write error fails it all the same.
StageSbomRecords ==
  /\ pc = "records"
  /\ \/ ~ForScanners /\ Stage({}, "sbom")
     \/ /\ ForScanners /\ ~Barred /\ ~Obstructed
        /\ tree' = WithRecords /\ guard' = Guarded
        /\ Goto("sbom")
        /\ UNCHANGED <<pkgVars, sawVars, outVars>>
     \/ /\ ForScanners /\ ~RecordsMatter
        /\ warned' = warned \cup {"records"}
        /\ Goto("sbom")
        /\ UNCHANGED <<treeVars, sel, owners, named, sawVars, outVars>>
     \/ ForScanners /\ RecordsMatter /\ Fail("records")
     \/ ForScanners /\ Fail("disk")

MaybeSbom ==
  /\ pc = "sbom"
  /\ \/ opts.sbom /\ Fail("sbom")
     \/ /\ sbomSaw' = IF opts.sbom THEN tree ELSE {}
        /\ Goto("scan")
        /\ UNCHANGED <<treeVars, pkgVars, scanSaw, summary, outVars>>

\* parse_grype: a severity that has no name here is not ranked.
Counted(answer) == {IF s \in Severities THEN s ELSE "unknown" : s \in answer}

\* at_or_above: the findings that a threshold fails on.  The lowest fails on those without a rank.
AtOrAbove(counted, threshold) ==
  {s \in counted : Rank[s] >= Rank[threshold] \/ (s = "unknown" /\ threshold = "negligible")}

\* A finding at or above the threshold fails a gated pack before anything is delivered.
MaybeScan ==
  /\ pc = "scan"
  /\ \/ /\ opts.scan = "off" /\ scanSaw' = {} /\ summary' = {}
        /\ Goto("return")
        /\ UNCHANGED <<treeVars, pkgVars, sbomSaw, outVars>>
     \/ opts.scan # "off" /\ Fail("scan")
     \/ /\ opts.scan # "off"
        /\ \E answer \in Scans :
             \/ /\ opts.scan \in Severities /\ AtOrAbove(Counted(answer), opts.scan) # {}
                /\ Fail("gate")
             \/ /\ opts.scan \in Severities => AtOrAbove(Counted(answer), opts.scan) = {}
                /\ scanSaw' = IF opts.sbom THEN sbomSaw ELSE tree
                /\ summary' = Counted(answer)
                /\ Goto("return")
                /\ UNCHANGED <<treeVars, pkgVars, sbomSaw, outVars>>

\* The guard is dropped on the way out of finish_staging.
DropRecords ==
  /\ pc = "return"
  /\ tree' = tree \ guard /\ guard' = {}
  /\ Goto(IF opts.sink = "rootfs" THEN "done" ELSE "deliver")
  /\ UNCHANGED <<pkgVars, sawVars, outVars>>

--------------------------------------------------------------------------------
\* The sinks.

Deliver ==
  /\ pc = "deliver"
  /\ \/ Fail("deliver")
     \/ /\ delivered' = tree
        /\ digest' \in IF opts.sink = "push" THEN {"confirmed", "unreported", "mismatch"}
                                             ELSE {"none"}
        /\ Goto("check")
        /\ UNCHANGED <<treeVars, pkgVars, sawVars, signed>>

\* The image stays loaded, or pushed, when a later step fails.
SmokeRun ==
  /\ pc = "check" /\ opts.sink = "docker"
  /\ (opts.smoke /\ Fail("smoke")) \/ Stage({}, "done")

\* Mutant: a digest the registry chose will do.
ForSigningAny == digest # "unreported"
ForSigning    == digest = "confirmed"

\* cosign signs, then attests the SBOM; either may fail.
SignPushed ==
  /\ pc = "check" /\ opts.sink = "push" /\ opts.sign
  /\ \/ Fail("sign")
     \/ /\ ForSigning
        /\ \/ /\ signed' = {"image"} \cup (IF opts.sbom THEN {"sbom"} ELSE {})
              /\ Goto("done")
              /\ UNCHANGED <<treeVars, pkgVars, sawVars, delivered, digest>>
           \/ /\ opts.sbom
              /\ signed' = {"image"}
              /\ pc' = "failed" /\ why' = "attest" /\ tree' = {} /\ guard' = {}
              /\ UNCHANGED <<opts, pkgVars, sawVars, delivered, digest>>

WarnDigest == IF digest = "mismatch" THEN {"digest"} ELSE {}

LeaveUnsigned ==
  /\ pc = "check" /\ opts.sink # "docker" /\ (opts.sink = "push" => ~opts.sign)
  /\ warned' = warned \cup WarnDigest
  /\ Goto("done")
  /\ UNCHANGED <<treeVars, sel, owners, named, sawVars, outVars>>

Next ==
  \/ Dispatch \/ BuildRootfs \/ CheckLibPolicy
  \/ StageRuntimeExtras \/ StageAddedFiles \/ StageLocales \/ LookupOwners \/ StageImageRecords
  \/ EnforceMaxSize \/ StageSbomRecords \/ MaybeSbom \/ MaybeScan \/ DropRecords
  \/ Deliver \/ SmokeRun \/ SignPushed \/ LeaveUnsigned

Spec == Init /\ [][Next]_vars

--------------------------------------------------------------------------------
\* Properties.

Ended   == pc \in {"done", "failed"}
Output  == IF opts.sink = "rootfs" THEN tree ELSE delivered
IsOut   == pc = "done" \/ delivered # {}
RecordsIn(t) == {e \in t : e.by = "record"}
BytesOf(t)   == {e.at : e \in {f \in t : ~f.link}}

\* Every variable has its type, and what is staged is staged for one source only.
TypeOK ==
  /\ opts \in Options
  /\ pc \in {"start", "build", "policy", "extras", "add", "locales", "lookup", "image", "size", "records",
             "sbom", "scan", "return", "deliver", "check", "done", "failed"}
  /\ why \in {"none", "usage", "output", "build", "policy", "strip", "extras", "add", "locales",
              "packages", "disk", "records", "size", "sbom", "scan", "gate", "deliver", "smoke", "sign", "attest"}
  /\ tree \subseteq Entries /\ guard \subseteq tree
  /\ sel \in [report : BOOLEAN, sbom : BOOLEAN, image : BOOLEAN, explicit : BOOLEAN]
  /\ owners \in {"unasked", "unknown", "known"} /\ named \subseteq Paths
  /\ warned \subseteq {"unread", "lookup", "records", "digest"}
  /\ sbomSaw \subseteq Entries /\ scanSaw \subseteq Entries /\ summary \subseteq Severities \cup {"unknown"}
  /\ delivered \subseteq Entries
  /\ digest \in {"none", "confirmed", "unreported", "mismatch"}
  /\ signed \subseteq {"image", "sbom"}

\* Whatever a pack ends with, the package records that were staged for syft and grype only
\* are in no output: not in the image, and not in the directory a failed pack leaves behind.
\* Records ship when the user asked for them in the image.
RecordsShipIfAsked ==
  Ended /\ RecordsIn(Output) # {} => opts.packages.image /\ opts.packages.explicit

\* A file the user added is never replaced or removed on behalf of the records: once it is
\* staged, it is in the output, with the user's bytes.
UserFilesShip ==
  pc = "done" => OfUser(opts.add) \subseteq Output

\* The size limit is kept by what is put out, records included.
OutputFits == IsOut => Cardinality(Output) <= opts.max

\* No library of the dependency graph, and no NSS module, is put out against --deny, and
\* every required one is there.
PolicyIsKept ==
  IsOut => /\ \A e \in Output : e.by \in {"elf", "nss"} /\ e.at # Program => e.at \notin opts.deny
           /\ \A p \in opts.require : \E e \in Output : e.at = p

\* What syft and grype read is what is put out, but for the package records, which they may
\* see without the image having them; nothing that ships was hidden from them.
ScannersSawOutput ==
  IsOut => \A saw \in (IF opts.sbom THEN {sbomSaw} ELSE {})
                      \cup (IF opts.scan # "off" THEN {scanSaw} ELSE {}) :
             Output \subseteq saw /\ RecordsIn(saw) \cup Output = saw

\* A package is named for a file only if the output holds the bytes of that file.
NamedFilesShip == IsOut => named \subseteq BytesOf(Output)

\* What was asked for by name is delivered, or the pack fails, or, where a report is all
\* that is missing or nothing reads the records, it says so.
ExplicitIsAnswered ==
  LET p == opts.packages
      Shown(t) == owners = "known" /\ (named # {} => Put(Records, "record") \subseteq t)
  IN pc = "done" /\ p.explicit =>
       /\ p.report => owners = "known" \/ "lookup" \in warned
       /\ p.image => Shown(Output)
       /\ p.sbom =>
            /\ ReadsTree \/ "unread" \in warned
            /\ opts.sbom => Shown(sbomSaw)
            /\ opts.scan # "off" => Shown(scanSaw)

\* The default selection costs nobody a pack: without --packages, no lookup fails a pack and
\* the records fail it only if an added file stands on the way to them.
DefaultPacksOn ==
  pc = "failed" /\ ~opts.packages.explicit =>
    /\ why # "packages"
    /\ why = "records" => \E f \in opts.add : f.at \in RecordDirs

\* Records come and go between the stages without a trace: what the user added and what a package
\* is named for is put out with its bytes.
StagedFilesShip == UserFilesShip /\ NamedFilesShip

\* A gated scan lets nothing out that has a finding at its threshold or above it, and at the lowest
\* threshold nothing that has a finding at all, whether grype ranked it or not.
FindingsAreBelow ==
  IsOut /\ opts.scan \in Severities =>
    /\ \A s \in summary : Rank[s] < Rank[opts.scan]
    /\ opts.scan = "negligible" => summary = {}

\* The size gate and the scanners looked at what is put out, records included, and a threshold was
\* kept by what they found.
GatesSawOutput == OutputFits /\ ScannersSawOutput /\ FindingsAreBelow

\* One choice of --packages and two promises: what is named is delivered or refused aloud, and
\* the default costs nobody a pack; the two share every lookup, retry and error path.
SelectionsAnswered == ExplicitIsAnswered /\ DefaultPacksOn

\* cosign signs nothing but the manifest that was pushed, and attests an SBOM of no other
\* tree; a registry that names another manifest does not pass in silence.
SignedIsPushed ==
  /\ signed # {} => digest = "confirmed" /\ delivered # {}
  /\ "sbom" \in signed => delivered \subseteq sbomSaw
  /\ pc = "done" /\ digest = "mismatch" => "digest" \in warned
==================================================================================
