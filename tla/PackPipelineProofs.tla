---------------------------- MODULE PackPipelineProofs ----------------------------
(***************************************************************************)
(* Proofs about PackPipeline, for every set of paths and of options: what  *)
(* ships of the package records, that user files survive them, that only   *)
(* what ships is named, that the policy, the gates and the scanners were   *)
(* about what ships, that only what was pushed is signed, and that         *)
(* --packages is answered.                                                 *)
(***************************************************************************)
EXTENDS PackPipeline, TLAPS

\* What a phase stages are entries of that phase, each a plain file at one of its paths.
LEMMA EntriesOfPut ==
  ASSUME NEW ps \in SUBSET Paths, NEW src \in Sources
  PROVE  Put(ps, src) \subseteq Entries /\ (\A e \in Put(ps, src) : e.by = src /\ ~e.link /\ e.at \in ps)
<1>1. ASSUME NEW e \in Put(ps, src)
      PROVE  e \in Entries /\ e.by = src /\ ~e.link /\ e.at \in ps
  <2>1. PICK p \in ps : e = [at |-> p, by |-> src, link |-> FALSE]
    BY DEF Put
  <2> QED
    BY <2>1 DEF Entries
<1> QED
  BY <1>1

\* What --add-file stages are entries of the user.
LEMMA EntriesOfUser ==
  ASSUME NEW fs \in SUBSET AddFiles
  PROVE  OfUser(fs) \subseteq Entries /\ (\A e \in OfUser(fs) : e.by = "user")
<1>1. ASSUME NEW e \in OfUser(fs)
      PROVE  e \in Entries /\ e.by = "user"
  <2>1. PICK f \in fs : e = [at |-> f.at, by |-> "user", link |-> f.as = "link"]
    BY DEF OfUser
  <2> QED
    BY <2>1 DEF Entries, AddFiles, Sources
<1> QED
  BY <1>1

\* The records are entries of their own kind, and none is a link.
LEMMA NewRecordsAreEntries ==
  NewRecords \subseteq Entries /\ (\A e \in NewRecords : e.by = "record" /\ ~e.link)
<1>1. {r \in Records \cup {OsRelease} : r = OsRelease => ~At(tree, OsRelease)} \subseteq Paths
  BY DEF Paths
<1> QED
  BY <1>1, EntriesOfPut DEF NewRecords, Sources

\* Without an obstacle, the records take nobody's place.
LEMMA RecordsOnlyAdd == ~Obstructed => WithRecords = tree \cup NewRecords
BY DEF Obstructed, WithRecords, NewRecords, Put, At

\* A scan fails, is stopped by its threshold, or passes below it.
LEMMA ScanKinds ==
  MaybeScan =>
    \/ Fail("scan") \/ Fail("gate")
    \/ /\ pc = "scan" /\ Goto("return")
       /\ UNCHANGED <<treeVars, pkgVars, sbomSaw, outVars>>
       /\ scanSaw' = IF opts.scan = "off" THEN {} ELSE IF opts.sbom THEN sbomSaw ELSE tree
       /\ summary' \subseteq Severities \cup {"unknown"}
       /\ opts.scan \in Severities => AtOrAbove(summary', opts.scan) = {}
<1>1. "off" \notin Severities
  BY DEF Severities
<1>2. \A answer : Counted(answer) \subseteq Severities \cup {"unknown"}
  BY DEF Counted
<1> QED
  BY <1>1, <1>2 DEF MaybeScan

--------------------------------------------------------------------------------
\* TypeOK, for every set of options and every layout of paths.
THEOREM TypeCorrect == Spec => []TypeOK
<1>1. Init => TypeOK
  BY PipelineAssumption DEF Init, TypeOK, AllOptions, Selections
<1>2. TypeOK /\ [Next]_vars => TypeOK'
  <2> SUFFICES ASSUME TypeOK, [Next]_vars PROVE TypeOK'
    OBVIOUS
  <2> USE DEF TypeOK
  <2>0. opts \in AllOptions
    BY PipelineAssumption
  <2>a. opts.add \in SUBSET AddFiles /\ opts.packages \in Selections
    BY <2>0 DEF AllOptions
  <2>b. ASSUME NEW t \in SUBSET Entries, NEW p \in {"usage", "output", "build", "policy", "strip", "extras", "add", "locales", "packages", "disk", "records", "size", "sbom", "scan", "gate", "deliver", "smoke", "sign"},
               FailOver(t, p)
        PROVE  TypeOK'
    BY <2>b DEF FailOver, LeftOf, pkgVars, sawVars, outVars
  <2>c. ASSUME NEW p \in {"usage", "output", "build", "policy", "strip", "extras", "add", "locales", "packages", "disk", "records", "size", "sbom", "scan", "gate", "deliver", "smoke", "sign"},
               Fail(p)
        PROVE  TypeOK'
    BY <2>c, <2>b DEF Fail
  <2>d. ASSUME NEW m \in SUBSET Entries, NEW p \in {"build", "policy", "extras", "add", "locales", "lookup", "size", "records", "sbom", "done"},
               Stage(m, p)
        PROVE  TypeOK'
    BY <2>d DEF Stage, Goto, pkgVars, sawVars, outVars
  <2>1. CASE Dispatch
    BY <2>1, <2>c, <2>d DEF Dispatch
  <2>2. CASE BuildRootfs
    <3>1. Put({Program} \cup Libs, "elf") \subseteq Entries
      BY EntriesOfPut DEF Paths, Sources
    <3>2. \A found \in SUBSET Modules : Put(found, "nss") \subseteq Entries
      BY EntriesOfPut DEF Paths, Sources
    <3>3. Put(Conf, "conf") \subseteq Entries
      BY EntriesOfPut DEF Paths, Sources
    <3>4. CASE \E part \in SUBSET Put({Program} \cup Libs, "elf") : FailOver(part, "build")
      BY <3>4, <3>1, <2>b
    <3>5. CASE \E found \in SUBSET Modules :
                 Stage(Put({Program} \cup Libs, "elf") \cup Put(found, "nss") \cup Put(Conf, "conf"), "policy")
      BY <3>5, <3>1, <3>2, <3>3, <2>d
    <3> QED
      BY <2>2, <3>4, <3>5 DEF BuildRootfs
  <2>3. CASE CheckLibPolicy
    BY <2>3, <2>c, <2>d DEF CheckLibPolicy
  <2>4. CASE StageRuntimeExtras
    <3>1. (IF opts.extras THEN Put(Extra, "extra") ELSE {}) \subseteq Entries
      BY EntriesOfPut DEF Paths, Sources
    <3> QED
      BY <2>4, <3>1, <2>c, <2>d DEF StageRuntimeExtras
  <2>5. CASE StageAddedFiles
    <3>1. \A fs \in SUBSET opts.add : OfUser(fs) \subseteq Entries
      BY <2>a, EntriesOfUser
    <3>2. CASE \E fs \in SUBSET {f \in opts.add : ~At(tree, f.at)} :
                 opts.add # {} /\ FailOver(tree \cup OfUser(fs), "add")
      <4>1. PICK fs \in SUBSET {f \in opts.add : ~At(tree, f.at)} : FailOver(tree \cup OfUser(fs), "add")
        BY <3>2
      <4>2. tree \cup OfUser(fs) \in SUBSET Entries
        BY <3>1
      <4> QED
        BY <4>1, <4>2, <2>b
    <3>3. CASE Stage(OfUser(opts.add), "locales")
      BY <3>1, <3>3, <2>d
    <3> QED
      BY <2>5, <3>2, <3>3 DEF StageAddedFiles
  <2>6. CASE StageLocales
    <3>1. (IF opts.locale THEN Put({Locale}, "locale") ELSE {}) \subseteq Entries
      BY EntriesOfPut DEF Paths, Sources
    <3> QED
      BY <2>6, <3>1, <2>c, <2>d DEF StageLocales
  <2>7. CASE LookupOwners
    <3> DEFINE S == Selection
    <3> DEFINE T == [S EXCEPT !.sbom = FALSE]
    <3>1. S \in [report : BOOLEAN, sbom : BOOLEAN, image : BOOLEAN, explicit : BOOLEAN]
      <4>1. (opts.packages.sbom /\ ReadsTree) \in BOOLEAN
        BY <2>a, <2>0 DEF Selections, ReadsTree, AllOptions
      <4> QED
        BY <2>a, <4>1 DEF Selection, Selections
    <3>2. Bundled \subseteq Paths
      BY DEF Bundled, Entries
    <3>3. ASSUME NEW s \in [report : BOOLEAN, sbom : BOOLEAN, image : BOOLEAN, explicit : BOOLEAN],
                 NEW ps \in SUBSET Paths, NEW a \in {"unasked", "unknown", "known"},
                 NEW w \in SUBSET {"lookup"}, Looked(s, a, ps, w)
          PROVE  TypeOK'
      BY <3>3 DEF Looked, Goto, treeVars, sawVars, outVars, WarnUnread
    <3>4. T \in [report : BOOLEAN, sbom : BOOLEAN, image : BOOLEAN, explicit : BOOLEAN]
      BY <3>1
    <3> HIDE DEF S, T
    <3>5. CASE Looked(S, "unasked", {}, {})
      BY <3>5, <3>1, <3>3
    <3>6. CASE Fail("packages")
      BY <3>6, <2>c
    <3>7. CASE \E ps \in SUBSET Bundled : Looked(S, "known", ps, {})
      BY <3>7, <3>1, <3>2, <3>3
    <3>8. CASE Looked(S, "unknown", {}, IF S.explicit THEN {"lookup"} ELSE {})
      <4>1. (IF S.explicit THEN {"lookup"} ELSE {}) \in SUBSET {"lookup"}
        OBVIOUS
      <4> QED
        BY <3>8, <3>1, <3>3, <4>1
    <3>9. CASE \E ps \in SUBSET Bundled : Looked(T, "known", ps, {})
      <4>1. PICK ps \in SUBSET Bundled : Looked(T, "known", ps, {})
        BY <3>9
      <4>2. ps \in SUBSET Paths
        BY <3>2
      <4> QED
        BY <4>1, <4>2, <3>4, <3>3
    <3>10. CASE Looked(T, "unknown", {}, {"lookup"})
      BY <3>10, <3>4, <3>3
    <3>11. \/ Looked(S, "unasked", {}, {})
           \/ Fail("packages")
           \/ \E ps \in SUBSET Bundled : Looked(S, "known", ps, {})
           \/ Looked(S, "unknown", {}, IF S.explicit THEN {"lookup"} ELSE {})
           \/ \E ps \in SUBSET Bundled : Looked(T, "known", ps, {})
           \/ Looked(T, "unknown", {}, {"lookup"})
      BY <2>7, Zenon DEF LookupOwners, S, T
    <3> QED
      BY <3>5, <3>6, <3>7, <3>8, <3>9, <3>10, <3>11
  <2>8. CASE StageImageRecords
    <3>1. CASE ~Obstructed /\ tree' = WithRecords /\ Goto("size") /\ UNCHANGED <<guard, pkgVars, sawVars, outVars>>
      BY <3>1, RecordsOnlyAdd, NewRecordsAreEntries DEF Goto, pkgVars, sawVars, outVars
    <3> QED
      BY <2>8, <3>1, <2>c, <2>d DEF StageImageRecords
  <2>9. CASE EnforceMaxSize
    BY <2>9, <2>c, <2>d DEF EnforceMaxSize
  <2>10. CASE StageSbomRecords
    <3>1. CASE /\ ~Obstructed /\ tree' = WithRecords /\ guard' = Guarded
               /\ Goto("sbom") /\ UNCHANGED <<pkgVars, sawVars, outVars>>
      BY <3>1, RecordsOnlyAdd, NewRecordsAreEntries DEF Guarded, Goto, pkgVars, sawVars, outVars
    <3>2. CASE /\ warned' = warned \cup {"records"} /\ Goto("sbom")
               /\ UNCHANGED <<treeVars, sel, owners, named, sawVars, outVars>>
      BY <3>2 DEF Goto, treeVars, sawVars, outVars
    <3> QED
      BY <2>10, <3>1, <3>2, <2>c, <2>d DEF StageSbomRecords
  <2>11. CASE MaybeSbom \/ MaybeScan
    BY <2>11, <2>c, ScanKinds DEF MaybeSbom, Goto, treeVars, pkgVars, outVars
  <2>12. CASE DropRecords
    BY <2>12 DEF DropRecords, Goto, pkgVars, sawVars, outVars
  <2>13. CASE Deliver
    BY <2>13, <2>c DEF Deliver, Goto, treeVars, pkgVars, sawVars
  <2>14. CASE SmokeRun
    BY <2>14, <2>c, <2>d DEF SmokeRun
  <2>15. CASE LeaveUnsigned
    BY <2>15 DEF LeaveUnsigned, Goto, WarnDigest, treeVars, sawVars, outVars
  <2>16. CASE UNCHANGED vars
    BY <2>16 DEF vars
  <2>17. CASE SignPushed
    <3>1. CASE Fail("sign")
      BY <3>1, <2>c
    <3>2. CASE /\ signed' = {"image"} \cup (IF opts.sbom THEN {"sbom"} ELSE {})
               /\ Goto("done") /\ UNCHANGED <<treeVars, pkgVars, sawVars, delivered, digest>>
      BY <3>2 DEF Goto, treeVars, pkgVars, sawVars
    <3>3. CASE /\ signed' = {"image"} /\ pc' = "failed" /\ why' = "attest" /\ tree' = {} /\ guard' = {}
               /\ UNCHANGED <<opts, pkgVars, sawVars, delivered, digest>>
      BY <3>3 DEF pkgVars, sawVars
    <3> QED
      BY <2>17, <3>1, <3>2, <3>3 DEF SignPushed
  <2> QED
    BY <2>1, <2>2, <2>3, <2>4, <2>5, <2>6, <2>7, <2>8, <2>9, <2>10, <2>11, <2>12, <2>13, <2>14,
       <2>15, <2>16, <2>17 DEF Next
<1> QED
  BY <1>1, <1>2, PTL DEF Spec

--------------------------------------------------------------------------------
\* The package records.

\* Before the records are dropped they are in the guard, unless the image is to have them.
RecordInv ==
  /\ sel.image = opts.packages.image
  /\ \A e \in guard : e.by = "record"
  /\ pc \notin {"sbom", "scan", "return"} => guard = {}
  /\ opts.packages.image \/ RecordsIn(tree) \subseteq guard
  /\ opts.packages.image \/ RecordsIn(delivered) = {}

\* No phase, and no failure, leaves an unasked record outside the guard.
LEMMA RecordStep == TypeOK /\ RecordInv /\ [Next]_vars => RecordInv'
<1> SUFFICES ASSUME TypeOK, RecordInv, [Next]_vars PROVE RecordInv'
  OBVIOUS
<1> USE DEF RecordInv, RecordsIn
<1>0. opts \in AllOptions /\ opts.packages \in Selections /\ opts.add \in SUBSET AddFiles
  BY PipelineAssumption DEF TypeOK, AllOptions
<1>a. ASSUME NEW t, NEW p, FailOver(t, p), RecordsIn(t) \subseteq RecordsIn(tree)
      PROVE  RecordInv'
  BY <1>a DEF FailOver, LeftOf, pkgVars, sawVars, outVars
<1>b. ASSUME NEW p, Fail(p) PROVE RecordInv'
  BY <1>b, <1>a DEF Fail
<1>c. ASSUME NEW m, NEW p, Stage(m, p), \A e \in m : e.by # "record",
             pc \notin {"sbom", "scan", "return"} \/ p \in {"sbom", "scan", "return"}
      PROVE  RecordInv'
  BY <1>c DEF Stage, Goto, pkgVars, sawVars, outVars
<1>1. CASE Dispatch
  BY <1>1, <1>b, <1>c DEF Dispatch
<1>2. CASE BuildRootfs
  <2>1. \A e \in Put({Program} \cup Libs, "elf") : e.by = "elf"
    BY EntriesOfPut DEF Paths, Sources
  <2>2. \A found \in SUBSET Modules : \A e \in Put(found, "nss") : e.by = "nss"
    BY EntriesOfPut DEF Paths, Sources
  <2>3. \A e \in Put(Conf, "conf") : e.by = "conf"
    BY EntriesOfPut DEF Paths, Sources
  <2>4. CASE \E part \in SUBSET Put({Program} \cup Libs, "elf") : FailOver(part, "build")
    <3>1. PICK part \in SUBSET Put({Program} \cup Libs, "elf") : FailOver(part, "build")
      BY <2>4
    <3>2. RecordsIn(part) = {}
      BY <2>1
    <3> QED
      BY <3>1, <3>2, <1>a
  <2>5. CASE \E found \in SUBSET Modules :
               Stage(Put({Program} \cup Libs, "elf") \cup Put(found, "nss") \cup Put(Conf, "conf"), "policy")
    <3>1. PICK found \in SUBSET Modules :
             Stage(Put({Program} \cup Libs, "elf") \cup Put(found, "nss") \cup Put(Conf, "conf"), "policy")
      BY <2>5
    <3>2. \A e \in Put({Program} \cup Libs, "elf") \cup Put(found, "nss") \cup Put(Conf, "conf") : e.by # "record"
      BY <2>1, <2>2, <2>3
    <3>3. pc \notin {"sbom", "scan", "return"}
      BY <1>2 DEF BuildRootfs
    <3> QED
      BY <3>1, <3>2, <3>3, <1>c
  <2> QED
    BY <1>2, <2>4, <2>5 DEF BuildRootfs
<1>3. CASE CheckLibPolicy \/ EnforceMaxSize \/ SmokeRun
  BY <1>3, <1>b, <1>c DEF CheckLibPolicy, EnforceMaxSize, SmokeRun
<1>4. CASE StageRuntimeExtras \/ StageLocales
  <2>1. \A e \in Put(Extra, "extra") \cup Put({Locale}, "locale") : e.by # "record"
    BY EntriesOfPut DEF Paths, Sources
  <2> QED
    BY <1>4, <2>1, <1>b, <1>c DEF StageRuntimeExtras, StageLocales
<1>5. CASE StageAddedFiles
  <2>1. \A fs \in SUBSET opts.add : \A e \in OfUser(fs) : e.by = "user"
    BY <1>0, EntriesOfUser
  <2>2. CASE \E fs \in SUBSET {f \in opts.add : ~At(tree, f.at)} :
               opts.add # {} /\ FailOver(tree \cup OfUser(fs), "add")
    <3>1. PICK fs \in SUBSET {f \in opts.add : ~At(tree, f.at)} : FailOver(tree \cup OfUser(fs), "add")
      BY <2>2
    <3>2. RecordsIn(tree \cup OfUser(fs)) \subseteq RecordsIn(tree)
      BY <2>1
    <3> QED
      BY <3>1, <3>2, <1>a
  <2>3. CASE pc = "add" /\ Stage(OfUser(opts.add), "locales")
    BY <2>1, <2>3, <1>c
  <2> QED
    BY <1>5, <2>2, <2>3 DEF StageAddedFiles
<1>6. CASE LookupOwners
  <2>1. Selection.image = opts.packages.image /\ [Selection EXCEPT !.sbom = FALSE].image = opts.packages.image
    BY <1>0 DEF Selection, Selections
  <2>2. ASSUME NEW s, NEW ps, NEW a, NEW w, Looked(s, a, ps, w), s.image = opts.packages.image, pc = "lookup"
        PROVE  RecordInv'
    BY <2>2 DEF Looked, Goto, treeVars, sawVars, outVars
  <2>3. CASE Fail("packages")
    BY <2>3, <1>b
  <2>4. CASE \E s, a, ps, w : Looked(s, a, ps, w) /\ s.image = opts.packages.image
    BY <2>4, <2>2, <1>6 DEF LookupOwners
  <2>5. Fail("packages") \/ \E s, a, ps, w : Looked(s, a, ps, w) /\ s.image = opts.packages.image
    BY <1>6, <2>1, Zenon DEF LookupOwners
  <2> QED
    BY <2>3, <2>4, <2>5
<1>7. CASE StageImageRecords
  <2>1. CASE sel.image /\ tree' = WithRecords /\ pc = "image" /\ Goto("size") /\ UNCHANGED <<guard, pkgVars, sawVars, outVars>>
    BY <2>1 DEF Goto, pkgVars, sawVars, outVars
  <2> QED
    BY <1>7, <2>1, <1>b, <1>c DEF StageImageRecords
<1>8. CASE StageSbomRecords
  <2>1. CASE /\ ~Obstructed /\ tree' = WithRecords /\ guard' = Guarded /\ pc = "records"
             /\ Goto("sbom") /\ UNCHANGED <<pkgVars, sawVars, outVars>>
    BY <2>1, RecordsOnlyAdd, NewRecordsAreEntries DEF Guarded, Goto, pkgVars, sawVars, outVars
  <2>2. CASE /\ warned' = warned \cup {"records"} /\ Goto("sbom")
             /\ UNCHANGED <<treeVars, sel, owners, named, sawVars, outVars>>
    BY <2>2 DEF Goto, treeVars, sawVars, outVars
  <2> QED
    BY <1>8, <2>1, <2>2, <1>b, <1>c DEF StageSbomRecords
<1>9. CASE MaybeSbom \/ MaybeScan
  BY <1>9, <1>b, ScanKinds DEF MaybeSbom, Goto, treeVars, pkgVars, outVars
<1>10. CASE DropRecords
  BY <1>10 DEF DropRecords, Goto, pkgVars, sawVars, outVars
<1>11. CASE Deliver
  BY <1>11, <1>b DEF Deliver, Goto, treeVars, pkgVars, sawVars
<1>12. CASE SignPushed
  <2>1. CASE Fail("sign")
    BY <2>1, <1>b
  <2>2. CASE pc = "check" /\ Goto("done") /\ UNCHANGED <<treeVars, pkgVars, sawVars, delivered, digest>>
    BY <2>2 DEF Goto, treeVars, pkgVars, sawVars
  <2>3. CASE pc' = "failed" /\ tree' = {} /\ guard' = {} /\ UNCHANGED <<opts, pkgVars, sawVars, delivered, digest>>
    BY <2>3 DEF pkgVars, sawVars
  <2> QED
    BY <1>12, <2>1, <2>2, <2>3 DEF SignPushed
<1>13. CASE LeaveUnsigned
  BY <1>13 DEF LeaveUnsigned, Goto, treeVars, sawVars, outVars
<1>14. CASE UNCHANGED vars
  BY <1>14 DEF vars
<1> QED
  BY <1>1, <1>2, <1>3, <1>4, <1>5, <1>6, <1>7, <1>8, <1>9, <1>10, <1>11, <1>12, <1>13, <1>14 DEF Next

\* Records staged for syft and grype are in no output, whichever phase fails.
THEOREM RecordsStayOut == Spec => []RecordsShipIfAsked
<1>1. Init => RecordInv
  BY DEF Init, RecordInv, RecordsIn
<1>2. TypeOK /\ RecordInv => RecordsShipIfAsked
  <2> SUFFICES ASSUME TypeOK, RecordInv, Ended, RecordsIn(Output) # {}
               PROVE  opts.packages.image /\ opts.packages.explicit
    BY DEF RecordsShipIfAsked
  <2>1. guard = {} /\ (opts.packages.image \/ RecordsIn(Output) = {})
    BY DEF RecordInv, Ended, Output
  <2>2. opts.packages \in Selections
    BY PipelineAssumption DEF TypeOK, AllOptions
  <2> QED
    BY <2>1, <2>2 DEF Selections
<1> QED
  BY <1>1, <1>2, RecordStep, TypeCorrect, PTL DEF Spec

--------------------------------------------------------------------------------
\* What was staged, checked and named stays so until it is put out.

PolicyOf(t) ==
  /\ \A e \in t : e.by \in {"elf", "nss"} /\ e.at # Program => e.at \notin opts.deny
  /\ \A p \in opts.require : \E e \in t : e.by \in {"elf", "nss"} /\ e.at = p
UsersOf(t) == OfUser(opts.add) \subseteq t
NamedOf(t) == \A p \in named : \E e \in t : e.at = p /\ ~e.link /\ e.by # "record"
Kept(t)    == PolicyOf(t) /\ UsersOf(t) /\ NamedOf(t)

KeepInv ==
  /\ opts.sink = "rootfs" => pc \notin {"deliver", "check"}
  /\ opts.sink = "rootfs" \/ pc \notin {"check", "done", "failed"} => delivered = {}
  /\ pc \in {"extras", "add", "locales", "lookup"} => PolicyOf(tree)
  /\ pc = "locales" \/ pc = "lookup" => UsersOf(tree)
  /\ pc \in {"image", "size", "records", "sbom", "scan", "return", "deliver", "check"} => Kept(tree)
  /\ pc = "done" /\ opts.sink = "rootfs" => Kept(tree)
  /\ pc \in {"check", "done"} /\ opts.sink # "rootfs" => Kept(delivered)
  /\ delivered # {} => Kept(delivered)
  /\ \A e \in guard : e.by = "record"

\* Records that come change nothing about what is kept.
LEMMA KeptByRecords ==
  ASSUME NEW t, NEW m, Kept(t), \A e \in m : e.by = "record"
  PROVE  Kept(t \cup m)
BY DEF Kept, PolicyOf, UsersOf, NamedOf

\* Neither do records that go.
LEMMA KeptWithout ==
  ASSUME NEW t, NEW m, opts \in AllOptions, Kept(t), \A e \in m : e.by = "record"
  PROVE  Kept(t \ m)
<1>1. \A e \in OfUser(opts.add) : e.by = "user"
  BY EntriesOfUser DEF AllOptions
<1> QED
  BY <1>1 DEF Kept, PolicyOf, UsersOf, NamedOf

\* No phase after the one that established it undoes what is kept.
LEMMA KeepStep == TypeOK /\ KeepInv /\ [Next]_vars => KeepInv'
<1> SUFFICES ASSUME TypeOK, KeepInv, [Next]_vars PROVE KeepInv'
  OBVIOUS
<1> USE DEF KeepInv
<1>0. opts \in AllOptions
  BY PipelineAssumption DEF TypeOK
<1>p. ASSUME NEW t, UNCHANGED opts, tree' = t, PolicyOf(t) PROVE PolicyOf(tree)'
  BY <1>p DEF PolicyOf
<1>k. ASSUME NEW t, UNCHANGED <<opts, named>>, tree' = t, Kept(t) PROVE Kept(tree)'
  BY <1>k DEF Kept, PolicyOf, UsersOf, NamedOf
<1>u. ASSUME NEW t, UNCHANGED <<opts, named>>, delivered' = t, Kept(t) PROVE Kept(delivered)'
  BY <1>u DEF Kept, PolicyOf, UsersOf, NamedOf
<1>f. ASSUME NEW t, NEW p, FailOver(t, p) PROVE KeepInv'
  BY <1>f, <1>u DEF FailOver, pkgVars, outVars
<1>g. ASSUME NEW p, Fail(p) PROVE KeepInv'
  BY <1>g, <1>f DEF Fail
<1>1. CASE Dispatch
  <2>1. CASE pc = "start" /\ Stage({}, "build")
    BY <2>1, <1>u DEF Stage, Goto, pkgVars, outVars
  <2> QED
    BY <1>1, <2>1, <1>g DEF Dispatch
<1>2. CASE BuildRootfs
  <2>1. CASE \E part \in SUBSET Put({Program} \cup Libs, "elf") : FailOver(part, "build")
    BY <2>1, <1>f
  <2>2. CASE pc = "build" /\ \E m : Stage(m, "policy")
    BY <2>2, <1>u DEF Stage, Goto, pkgVars, outVars
  <2> QED
    BY <1>2, <2>1, <2>2 DEF BuildRootfs
<1>3. CASE CheckLibPolicy
  <2>1. CASE pc = "policy" /\ PolicyHolds /\ Stage({}, "extras")
    <3>1. PolicyOf(tree)
      BY <2>1 DEF PolicyHolds, Present, PolicyOf
    <3>2. tree' = tree
      BY <2>1 DEF Stage
    <3> QED
      BY <2>1, <3>1, <3>2, <1>p DEF Stage, Goto, pkgVars, outVars
  <2> QED
    BY <1>3, <2>1, <1>g DEF CheckLibPolicy
<1>4. CASE StageRuntimeExtras
  <2>1. CASE \E m : pc = "extras" /\ Stage(m, "add") /\ \A e \in m : e.by = "extra"
    <3>1. PICK m : pc = "extras" /\ Stage(m, "add") /\ \A e \in m : e.by = "extra"
      BY <2>1
    <3>2. PolicyOf(tree \cup m)
      BY <3>1 DEF PolicyOf
    <3> QED
      BY <3>1, <3>2, <1>p DEF Stage, Goto, pkgVars, outVars
  <2>2. \A e \in Put(Extra, "extra") : e.by = "extra"
    BY EntriesOfPut DEF Paths, Sources
  <2> QED
    BY <1>4, <2>1, <2>2, <1>g DEF StageRuntimeExtras
<1>5. CASE StageAddedFiles
  <2>1. CASE \E fs \in SUBSET {f \in opts.add : ~At(tree, f.at)} :
               opts.add # {} /\ FailOver(tree \cup OfUser(fs), "add")
    BY <2>1, <1>f
  <2>2. CASE pc = "add" /\ Stage(OfUser(opts.add), "locales")
    <3>1. \A e \in OfUser(opts.add) : e.by = "user"
      BY <1>0, EntriesOfUser DEF AllOptions
    <3>2. PolicyOf(tree \cup OfUser(opts.add))
      BY <2>2, <3>1 DEF PolicyOf
    <3>3. UsersOf(tree)'
      BY <2>2 DEF UsersOf, Stage, Goto
    <3> QED
      BY <2>2, <3>2, <3>3, <1>p DEF Stage, Goto, pkgVars, outVars
  <2> QED
    BY <1>5, <2>1, <2>2 DEF StageAddedFiles
<1>6. CASE StageLocales
  <2>1. CASE \E m : pc = "locales" /\ Stage(m, "lookup") /\ \A e \in m : e.by = "locale"
    <3>1. PICK m : pc = "locales" /\ Stage(m, "lookup") /\ \A e \in m : e.by = "locale"
      BY <2>1
    <3>2. PolicyOf(tree \cup m)
      BY <3>1 DEF PolicyOf
    <3>3. UsersOf(tree)'
      BY <3>1 DEF UsersOf, Stage, Goto
    <3> QED
      BY <3>1, <3>2, <3>3, <1>p DEF Stage, Goto, pkgVars, outVars
  <2>2. \A e \in Put({Locale}, "locale") : e.by = "locale"
    BY EntriesOfPut DEF Paths, Sources
  <2> QED
    BY <1>6, <2>1, <2>2, <1>g DEF StageLocales
<1>7. CASE LookupOwners
  <2>1. ASSUME NEW s, NEW a, NEW ps \in SUBSET Bundled, NEW w, Looked(s, a, ps, w)
        PROVE  KeepInv'
    <3>1. pc = "lookup" /\ UNCHANGED <<opts, tree, guard, delivered>> /\ named' = ps /\ pc' = "image"
      BY <1>7, <2>1 DEF LookupOwners, Looked, Goto, treeVars, outVars
    <3>2. PolicyOf(tree)' /\ UsersOf(tree)'
      BY <3>1 DEF PolicyOf, UsersOf
    <3>3. NamedOf(tree)'
      BY <3>1 DEF NamedOf, Bundled
    <3> QED
      BY <3>1, <3>2, <3>3 DEF Kept
  <2>2. Fail("packages") \/ \E s, a, w : \E ps \in SUBSET Bundled : Looked(s, a, ps, w)
    <3>1. {} \in SUBSET Bundled
      OBVIOUS
    <3> QED
      BY <1>7, <3>1, Zenon DEF LookupOwners
  <2> QED
    BY <2>1, <2>2, <1>g
<1>8. CASE StageImageRecords
  <2>1. CASE pc = "image" /\ Stage({}, "size")
    BY <2>1, <1>k DEF Stage, Goto, pkgVars, outVars
  <2>2. CASE pc = "image" /\ ~Obstructed /\ tree' = WithRecords /\ Goto("size")
             /\ UNCHANGED <<guard, pkgVars, sawVars, outVars>>
    <3>1. tree' = tree \cup NewRecords /\ Kept(tree \cup NewRecords)
      BY <2>2, RecordsOnlyAdd, NewRecordsAreEntries, KeptByRecords
    <3> QED
      BY <2>2, <3>1, <1>k DEF Goto, pkgVars, outVars
  <2> QED
    BY <1>8, <2>1, <2>2, <1>g DEF StageImageRecords
<1>9. CASE EnforceMaxSize
  <2>1. CASE pc = "size" /\ Stage({}, "records")
    BY <2>1, <1>k DEF Stage, Goto, pkgVars, outVars
  <2> QED
    BY <1>9, <2>1, <1>g DEF EnforceMaxSize
<1>10. CASE StageSbomRecords
  <2>1. CASE pc = "records" /\ Stage({}, "sbom")
    BY <2>1, <1>k DEF Stage, Goto, pkgVars, outVars
  <2>2. CASE /\ pc = "records" /\ ~Obstructed /\ tree' = WithRecords /\ guard' = Guarded
             /\ Goto("sbom") /\ UNCHANGED <<pkgVars, sawVars, outVars>>
    <3>1. tree' = tree \cup NewRecords /\ Kept(tree \cup NewRecords) /\ \A e \in guard' : e.by = "record"
      BY <2>2, RecordsOnlyAdd, NewRecordsAreEntries, KeptByRecords DEF Guarded
    <3> QED
      BY <2>2, <3>1, <1>k DEF Goto, pkgVars, outVars
  <2>3. CASE /\ pc = "records" /\ Goto("sbom")
             /\ UNCHANGED <<treeVars, sel, owners, named, sawVars, outVars>>
    BY <2>3, <1>k DEF Goto, treeVars, outVars
  <2> QED
    BY <1>10, <2>1, <2>2, <2>3, <1>g DEF StageSbomRecords
<1>11. CASE MaybeSbom \/ MaybeScan
  <2>1. CASE pc \in {"sbom", "scan"} /\ pc' \in {"scan", "return"} /\ UNCHANGED <<opts, treeVars, pkgVars, outVars>>
    BY <2>1, <1>k DEF treeVars, pkgVars, outVars
  <2> QED
    BY <1>11, <2>1, <1>g, ScanKinds DEF MaybeSbom, Goto
<1>12. CASE DropRecords
  <2>1. Kept(tree \ guard) /\ tree' = tree \ guard /\ guard' = {}
    BY <1>12, <1>0, KeptWithout DEF DropRecords
  <2>2. pc = "return" /\ pc' = (IF opts.sink = "rootfs" THEN "done" ELSE "deliver") /\ UNCHANGED <<opts, named, delivered>>
    BY <1>12 DEF DropRecords, Goto, pkgVars, outVars
  <2>3. Kept(tree)'
    BY <2>1, <2>2, <1>k
  <2> QED
    BY <2>1, <2>2, <2>3
<1>13. CASE Deliver
  <2>1. CASE pc = "deliver" /\ delivered' = tree /\ Goto("check") /\ UNCHANGED <<treeVars, pkgVars>>
    <3>1. Kept(tree)' /\ Kept(delivered)'
      BY <2>1, <1>k, <1>u DEF Goto, treeVars, pkgVars
    <3> QED
      BY <2>1, <3>1 DEF Goto, treeVars, pkgVars
  <2> QED
    BY <1>13, <2>1, <1>g DEF Deliver
<1>14. CASE SmokeRun \/ SignPushed \/ LeaveUnsigned
  <2>1. CASE pc = "check" /\ pc' = "done" /\ UNCHANGED <<opts, named, delivered, guard>>
    <3>1. Kept(delivered)'
      BY <2>1, <1>u
    <3> QED
      BY <2>1, <3>1
  <2>2. CASE pc = "check" /\ pc' = "failed" /\ guard' = {} /\ UNCHANGED <<opts, named, delivered>>
    BY <2>2, <1>u
  <2> QED
    BY <1>14, <2>1, <2>2, <1>g
       DEF SmokeRun, SignPushed, LeaveUnsigned, Stage, Goto, treeVars, pkgVars, outVars
<1>15. CASE UNCHANGED vars
  <2>1. UNCHANGED <<opts, pc, tree, guard, named, delivered>>
    BY <1>15 DEF vars
  <2>2. (PolicyOf(tree) => PolicyOf(tree)') /\ (UsersOf(tree) => UsersOf(tree)')
    BY <2>1 DEF PolicyOf, UsersOf
  <2> QED
    BY <2>1, <2>2, <1>k, <1>u
<1> QED
  BY <1>1, <1>2, <1>3, <1>4, <1>5, <1>6, <1>7, <1>8, <1>9, <1>10, <1>11, <1>12, <1>13, <1>14, <1>15 DEF Next

\* KeepInv holds in every pack.
LEMMA KeepAlways == Spec => []KeepInv
<1>1. Init => KeepInv
  BY DEF Init, KeepInv
<1> QED
  BY <1>1, KeepStep, TypeCorrect, PTL DEF Spec

\* What is kept is kept in the output.
LEMMA KeptOut == KeepInv /\ IsOut => Kept(Output)
BY DEF KeepInv, IsOut, Output

\* The records displace no file of the user, neither when they come nor when they go.
THEOREM UserFilesSurvive == Spec => []UserFilesShip
<1>1. KeepInv => UserFilesShip
  BY KeptOut DEF UserFilesShip, IsOut, Kept, UsersOf
<1> QED
  BY <1>1, KeepAlways, PTL

\* A file named for a package is put out with its bytes.
THEOREM NamesAreOfFiles == Spec => []NamedFilesShip
<1>1. KeepInv => NamedFilesShip
  <2> SUFFICES ASSUME KeepInv, IsOut, NEW p \in named PROVE p \in BytesOf(Output)
    BY DEF NamedFilesShip
  <2>1. \E e \in Output : e.at = p /\ ~e.link
    BY KeptOut DEF Kept, NamedOf
  <2> QED
    BY <2>1 DEF BytesOf
<1> QED
  BY <1>1, KeepAlways, PTL

\* What was staged for the user and what was named is put out, whatever the records do.
THEOREM StagedFilesAreKept == Spec => []StagedFilesShip
BY UserFilesSurvive, NamesAreOfFiles, PTL DEF StagedFilesShip

\* Nothing staged after the policy check makes it wrong for the libraries it is about.
THEOREM PolicyHoldsOut == Spec => []PolicyIsKept
<1>1. KeepInv => PolicyIsKept
  <2> SUFFICES ASSUME KeepInv, IsOut PROVE PolicyOf(Output)
    BY DEF PolicyIsKept, PolicyOf
  <2> QED
    BY KeptOut DEF Kept
<1> QED
  BY <1>1, KeepAlways, PTL

--------------------------------------------------------------------------------
\* What the gates and the scanners looked at is what is put out.

Seen(saw, t) == t \subseteq saw /\ \A e \in saw : e \in t \/ e.by = "record"
Below == opts.scan \in Severities => AtOrAbove(summary, opts.scan) = {}
Gated(t) ==
  /\ Cardinality(t) <= opts.max
  /\ opts.sbom => Seen(sbomSaw, t)
  /\ opts.scan # "off" => Seen(scanSaw, t)
  /\ Below

\* The tree was measured without its guarded records, and read with them.
GateInv ==
  /\ pc \in {"records", "sbom", "scan", "return"} => Cardinality(tree \ guard) <= opts.max
  /\ pc \in {"scan", "return"} /\ opts.sbom => sbomSaw = tree
  /\ pc = "return" /\ opts.scan # "off" => scanSaw = tree
  /\ pc = "return" => Below
  /\ pc = "deliver" \/ (pc = "done" /\ opts.sink = "rootfs") => Gated(tree)
  /\ opts.sink # "rootfs" /\ (pc \in {"check", "done"} \/ delivered # {}) => Gated(delivered)

\* The guard holds no file that was there before the records came.
LEMMA RecordsAreNew == ~Obstructed => tree \cap NewRecords = {}
BY DEF Obstructed, NewRecords, Put, At

\* No phase lets the tree, what was read and what is put out drift apart.
LEMMA GateStep == TypeOK /\ RecordInv /\ KeepInv /\ GateInv /\ [Next]_vars => GateInv'
<1> SUFFICES ASSUME TypeOK, RecordInv, KeepInv, GateInv, [Next]_vars PROVE GateInv'
  OBVIOUS
<1> USE DEF GateInv
<1>0. opts \in AllOptions /\ opts.max \in Nat
  BY PipelineAssumption DEF TypeOK, AllOptions
<1>d. /\ opts.sink = "rootfs" => pc \notin {"deliver", "check"}
      /\ opts.sink = "rootfs" \/ pc \notin {"check", "done", "failed"} => delivered = {}
      /\ \A e \in guard : e.by = "record"
      /\ pc \notin {"sbom", "scan", "return"} => guard = {}
  BY DEF KeepInv, RecordInv
<1>t. ASSUME NEW t, UNCHANGED <<opts, sawVars>>, tree' = t, Gated(t) PROVE Gated(tree)'
  BY <1>t DEF Gated, Seen, Below, sawVars
<1>u. ASSUME NEW t, UNCHANGED <<opts, sawVars>>, delivered' = t, Gated(t) PROVE Gated(delivered)'
  BY <1>u DEF Gated, Seen, Below, sawVars
<1>f. ASSUME NEW t, NEW p, FailOver(t, p) PROVE GateInv'
  BY <1>f, <1>u, <1>d DEF FailOver, sawVars, outVars
<1>g. ASSUME NEW p, Fail(p) PROVE GateInv'
  BY <1>g, <1>f DEF Fail
<1>e. ASSUME pc \notin {"check", "done", "failed"},
             pc' \in {"build", "policy", "extras", "add", "locales", "lookup", "image", "size"},
             UNCHANGED <<opts, outVars>>
      PROVE  GateInv'
  BY <1>e, <1>d DEF outVars
<1>1. CASE \/ Dispatch \/ BuildRootfs \/ CheckLibPolicy \/ StageRuntimeExtras \/ StageAddedFiles
           \/ StageLocales \/ LookupOwners \/ StageImageRecords
  <2> DEFINE Onward == /\ pc \notin {"check", "done", "failed"}
                       /\ pc' \in {"build", "policy", "extras", "add", "locales", "lookup", "image", "size"}
                       /\ UNCHANGED <<opts, outVars>>
  <2>1. CASE Dispatch
    BY <2>1, <1>g, <1>e DEF Dispatch, Stage, Goto
  <2>2. CASE BuildRootfs
    BY <2>2, <1>f, <1>e DEF BuildRootfs, Stage, Goto
  <2>3. CASE CheckLibPolicy
    BY <2>3, <1>g, <1>e DEF CheckLibPolicy, Stage, Goto
  <2>4. CASE StageRuntimeExtras
    BY <2>4, <1>g, <1>e DEF StageRuntimeExtras, Stage, Goto
  <2>5. CASE StageAddedFiles
    BY <2>5, <1>f, <1>e DEF StageAddedFiles, Stage, Goto
  <2>6. CASE StageLocales
    BY <2>6, <1>g, <1>e DEF StageLocales, Stage, Goto
  <2>7. CASE LookupOwners
    <3>1. Fail("packages") \/ \E s, a, ps, w : Looked(s, a, ps, w)
      BY <2>7, Zenon DEF LookupOwners
    <3>2. ASSUME NEW s, NEW a, NEW ps, NEW w, Looked(s, a, ps, w) PROVE Onward
      BY <3>2, <2>7 DEF LookupOwners, Looked, Goto
    <3> QED
      BY <3>1, <3>2, <1>g, <1>e
  <2>8. CASE StageImageRecords
    BY <2>8, <1>g, <1>e DEF StageImageRecords, Stage, Goto
  <2> QED
    BY <1>1, <2>1, <2>2, <2>3, <2>4, <2>5, <2>6, <2>7, <2>8
<1>2. CASE EnforceMaxSize
  <2>1. CASE pc = "size" /\ Fits /\ Stage({}, "records")
    <3>1. tree' = tree /\ guard' = {} /\ UNCHANGED <<opts, delivered>> /\ pc' = "records" /\ delivered = {}
      BY <2>1, <1>d DEF Stage, Goto, outVars
    <3>2. tree' \ guard' = tree
      BY <3>1
    <3> QED
      BY <2>1, <3>1, <3>2 DEF Fits
  <2> QED
    BY <1>2, <2>1, <1>g DEF EnforceMaxSize
<1>3. CASE StageSbomRecords
  <2>1. CASE /\ pc = "records" /\ ~Obstructed /\ tree' = WithRecords /\ guard' = Guarded
             /\ Goto("sbom") /\ UNCHANGED <<pkgVars, sawVars, outVars>>
    <3>1. tree' \ guard' = tree \ guard
      BY <2>1, <1>d, RecordsOnlyAdd, RecordsAreNew DEF Guarded
    <3> QED
      BY <2>1, <3>1, <1>d DEF Goto, outVars
  <2>2. CASE /\ pc = "records" /\ Goto("sbom") /\ UNCHANGED <<treeVars, outVars>>
    BY <2>2, <1>d DEF Goto, treeVars, outVars
  <2> QED
    BY <1>3, <2>1, <2>2, <1>g DEF StageSbomRecords, Stage, treeVars
<1>4. CASE MaybeSbom
  BY <1>4, <1>d, <1>g DEF MaybeSbom, Goto, treeVars, outVars
<1>5. CASE MaybeScan
  BY <1>5, <1>d, <1>g, ScanKinds DEF Goto, treeVars, outVars, Below
<1>6. CASE DropRecords
  <2>1. tree' = tree \ guard /\ UNCHANGED <<opts, sawVars, delivered>> /\ delivered = {} /\ pc = "return"
    BY <1>6, <1>d DEF DropRecords, Goto, outVars
  <2>2. Seen(tree, tree \ guard)
    BY <1>d DEF Seen
  <2>3. Gated(tree \ guard)
    BY <2>1, <2>2 DEF Gated
  <2> QED
    BY <1>6, <2>1, <2>3, <1>t DEF DropRecords, Goto
<1>7. CASE Deliver
  <2>1. CASE pc = "deliver" /\ delivered' = tree /\ Goto("check") /\ UNCHANGED <<treeVars, sawVars>>
    BY <2>1, <1>u DEF Goto, sawVars
  <2> QED
    BY <1>7, <2>1, <1>g DEF Deliver
<1>8. CASE SmokeRun \/ SignPushed \/ LeaveUnsigned
  <2>1. CASE pc = "check" /\ pc' \in {"done", "failed"} /\ UNCHANGED <<opts, delivered, sawVars>>
    BY <2>1, <1>u, <1>d DEF sawVars
  <2> QED
    BY <1>8, <2>1, <1>g DEF SmokeRun, SignPushed, LeaveUnsigned, Stage, Goto, outVars
<1>9. CASE UNCHANGED vars
  <2>1. UNCHANGED <<opts, pc, tree, guard, delivered, sbomSaw, scanSaw, summary>>
    BY <1>9 DEF vars
  <2> QED
    BY <2>1, <1>t, <1>u DEF sawVars, Below
<1> QED
  BY <1>1, <1>2, <1>3, <1>4, <1>5, <1>6, <1>7, <1>8, <1>9 DEF Next

\* GateInv holds in every pack.
LEMMA GateAlways == Spec => []GateInv
<1>1. Init => GateInv /\ RecordInv
  BY DEF Init, GateInv, RecordInv, RecordsIn
<1> QED
  BY <1>1, GateStep, RecordStep, KeepAlways, TypeCorrect, PTL DEF Spec

\* The output has passed the gates.
LEMMA GatedOut == KeepInv /\ GateInv /\ IsOut => Gated(Output)
BY DEF KeepInv, GateInv, IsOut, Output

\* What is not at or above a threshold is below it.
LEMMA BelowMeans == TypeOK /\ Below /\ IsOut => FindingsAreBelow
<1> SUFFICES ASSUME TypeOK, Below, opts.scan \in Severities
             PROVE  /\ \A s \in summary : Rank[s] < Rank[opts.scan]
                    /\ opts.scan = "negligible" => summary = {}
  BY DEF FindingsAreBelow
<1>1. \A s \in Severities \cup {"unknown"} : Rank[s] \in Nat
  BY DEF Severities, Rank
<1>2. \A s \in Severities : Rank[s] >= Rank["negligible"]
  BY DEF Severities, Rank
<1>3. summary \subseteq Severities \cup {"unknown"}
  BY DEF TypeOK
<1>4. \A s \in summary : Rank[s] < Rank[opts.scan]
  BY <1>1, <1>3 DEF Below, AtOrAbove
<1>5. opts.scan = "negligible" => summary = {}
  BY <1>2, <1>3 DEF Below, AtOrAbove
<1> QED
  BY <1>4, <1>5

\* The limit and the scanners are about what ships: records that come after the measure are
\* gone before the output, and nothing joins or leaves the tree unseen.
THEOREM GatesAreOfOutput == Spec => []GatesSawOutput
<1>1. TypeOK /\ KeepInv /\ GateInv => GatesSawOutput
  <2> SUFFICES ASSUME TypeOK, KeepInv, GateInv, IsOut PROVE GatesSawOutput
    BY DEF GatesSawOutput, OutputFits, ScannersSawOutput, FindingsAreBelow
  <2>1. Gated(Output)
    BY GatedOut
  <2>2. ASSUME NEW saw, Seen(saw, Output)
        PROVE  Output \subseteq saw /\ RecordsIn(saw) \cup Output = saw
    BY <2>2 DEF Seen, RecordsIn
  <2>3. OutputFits
    BY <2>1 DEF Gated, OutputFits
  <2>4. ScannersSawOutput
    BY <2>1, <2>2 DEF Gated, ScannersSawOutput
  <2>5. FindingsAreBelow
    BY <2>1, BelowMeans DEF Gated
  <2> QED
    BY <2>3, <2>4, <2>5 DEF GatesSawOutput
<1> QED
  BY <1>1, GateAlways, KeepAlways, TypeCorrect, PTL

--------------------------------------------------------------------------------
\* What is signed is what was pushed.

\* An image is not empty: it has the program at the least.
Based(t) == \E e \in t : e.by = "elf"

\* Only a confirmed digest is signed, at the end; another one is told of.
SignInv ==
  /\ pc \in {"policy", "extras", "add", "locales", "lookup", "image", "size", "records", "sbom",
             "scan", "return", "deliver"} => Based(tree)
  /\ pc = "check" \/ signed # {} => delivered # {}
  /\ pc \notin {"done", "failed"} => signed = {}
  /\ pc \notin {"check", "done", "failed"} => digest = "none"
  /\ digest # "none" => opts.sink = "push"
  /\ signed # {} => digest = "confirmed"
  /\ "sbom" \in signed => opts.sbom
  /\ pc = "done" /\ digest = "mismatch" => "digest" \in warned

\* Signing follows delivery, and delivery the digest.
LEMMA SignStep == TypeOK /\ RecordInv /\ KeepInv /\ SignInv /\ [Next]_vars => SignInv'
<1> SUFFICES ASSUME TypeOK, RecordInv, KeepInv, SignInv, [Next]_vars PROVE SignInv'
  OBVIOUS
<1> USE DEF SignInv
<1>d. /\ opts.sink = "rootfs" \/ pc \notin {"check", "done", "failed"} => delivered = {}
      /\ \A e \in guard : e.by = "record"
      /\ pc \notin {"sbom", "scan", "return"} => guard = {}
  BY DEF KeepInv, RecordInv
<1>f. ASSUME NEW t, NEW p, FailOver(t, p) PROVE SignInv'
  BY <1>f, <1>d DEF FailOver, outVars
<1>g. ASSUME NEW p, Fail(p) PROVE SignInv'
  BY <1>g, <1>f DEF Fail
<1>e. ASSUME pc \notin {"check", "done", "failed"}, pc' \notin {"check", "done", "failed"},
             Based(tree)', UNCHANGED <<opts, outVars>>
      PROVE  SignInv'
  BY <1>e DEF outVars
<1>s. ASSUME NEW m, NEW p, Stage(m, p), Based(tree) PROVE Based(tree)'
  BY <1>s DEF Stage, Based
<1>1. CASE Dispatch
  BY <1>1, <1>g DEF Dispatch, Stage, Goto, outVars
<1>2. CASE BuildRootfs
  <2>1. CASE \E found \in SUBSET Modules :
               Stage(Put({Program} \cup Libs, "elf") \cup Put(found, "nss") \cup Put(Conf, "conf"), "policy")
    <3>1. [at |-> Program, by |-> "elf", link |-> FALSE] \in Put({Program} \cup Libs, "elf")
      BY DEF Put
    <3>2. Based(tree)'
      BY <2>1, <3>1 DEF Stage, Based
    <3> QED
      BY <1>2, <2>1, <3>2, <1>e DEF BuildRootfs, Stage, Goto
  <2> QED
    BY <1>2, <2>1, <1>f DEF BuildRootfs
<1>3. CASE CheckLibPolicy
  BY <1>3, <1>g, <1>e, <1>s DEF CheckLibPolicy, Stage, Goto
<1>4. CASE StageRuntimeExtras
  BY <1>4, <1>g, <1>e, <1>s DEF StageRuntimeExtras, Stage, Goto
<1>5. CASE StageAddedFiles
  BY <1>5, <1>f, <1>e, <1>s DEF StageAddedFiles, Stage, Goto
<1>6. CASE StageLocales
  BY <1>6, <1>g, <1>e, <1>s DEF StageLocales, Stage, Goto
<1>7. CASE LookupOwners
  <2>1. Fail("packages") \/ \E s, a, ps, w : Looked(s, a, ps, w)
    BY <1>7, Zenon DEF LookupOwners
  <2>2. ASSUME NEW s, NEW a, NEW ps, NEW w, Looked(s, a, ps, w) PROVE SignInv'
    BY <2>2, <1>7, <1>e DEF LookupOwners, Looked, Goto, treeVars, Based
  <2> QED
    BY <2>1, <2>2, <1>g
<1>8. CASE StageImageRecords
  <2>1. CASE /\ pc = "image" /\ ~Obstructed /\ tree' = WithRecords /\ Goto("size")
             /\ UNCHANGED <<guard, pkgVars, sawVars, outVars>>
    BY <2>1, <1>e, RecordsOnlyAdd DEF Goto, Based
  <2> QED
    BY <1>8, <2>1, <1>g, <1>e, <1>s DEF StageImageRecords, Stage, Goto
<1>9. CASE EnforceMaxSize
  BY <1>9, <1>g, <1>e, <1>s DEF EnforceMaxSize, Stage, Goto
<1>10. CASE StageSbomRecords
  <2>1. CASE /\ pc = "records" /\ ~Obstructed /\ tree' = WithRecords
             /\ Goto("sbom") /\ UNCHANGED <<pkgVars, sawVars, outVars>>
    BY <2>1, <1>e, RecordsOnlyAdd DEF Goto, Based
  <2>2. CASE pc = "records" /\ Goto("sbom") /\ UNCHANGED <<treeVars, outVars>>
    BY <2>2, <1>e DEF Goto, treeVars, Based
  <2> QED
    BY <1>10, <2>1, <2>2, <1>g DEF StageSbomRecords, Stage, treeVars
<1>11. CASE MaybeSbom \/ MaybeScan
  BY <1>11, <1>g, <1>e, ScanKinds DEF MaybeSbom, Goto, treeVars, Based
<1>12. CASE DropRecords
  <2>1. Based(tree \ guard)
    BY <1>12, <1>d DEF DropRecords, Based
  <2> QED
    BY <1>12, <2>1, <1>e DEF DropRecords, Goto, outVars, Based
<1>13. CASE Deliver
  <2>1. CASE /\ pc = "deliver" /\ delivered' = tree /\ Goto("check") /\ UNCHANGED <<treeVars, signed>>
             /\ digest' \in IF opts.sink = "push" THEN {"confirmed", "unreported", "mismatch"} ELSE {"none"}
    <3>1. tree # {}
      BY <2>1 DEF Based
    <3> QED
      BY <2>1, <3>1 DEF Goto
  <2> QED
    BY <1>13, <2>1, <1>g DEF Deliver
<1>14. CASE SmokeRun
  BY <1>14, <1>g DEF SmokeRun, Stage, Goto, outVars
<1>15. CASE SignPushed
  <2>1. CASE /\ pc = "check" /\ ForSigning /\ signed' \subseteq {"image"} \cup (IF opts.sbom THEN {"sbom"} ELSE {})
             /\ pc' \in {"done", "failed"} /\ UNCHANGED <<opts, delivered, digest>>
    BY <2>1 DEF ForSigning
  <2> QED
    BY <1>15, <2>1, <1>g DEF SignPushed, Goto
<1>16. CASE LeaveUnsigned
  BY <1>16 DEF LeaveUnsigned, WarnDigest, Goto, outVars
<1>17. CASE UNCHANGED vars
  BY <1>17 DEF vars, Based
<1> QED
  BY <1>1, <1>2, <1>3, <1>4, <1>5, <1>6, <1>7, <1>8, <1>9, <1>10, <1>11, <1>12, <1>13, <1>14,
     <1>15, <1>16, <1>17 DEF Next

\* The signature is of a pushed image under the digest that was computed for it, the
\* attestation of the tree that was read, and another digest is never passed over.
THEOREM SignaturesAreOfPushed == Spec => []SignedIsPushed
<1>1. Init => SignInv /\ RecordInv
  BY DEF Init, SignInv, RecordInv, RecordsIn
<1>2. KeepInv /\ GateInv /\ SignInv => SignedIsPushed
  <2> SUFFICES ASSUME KeepInv, GateInv, SignInv PROVE SignedIsPushed
    OBVIOUS
  <2>1. ASSUME "sbom" \in signed PROVE delivered \subseteq sbomSaw
    <3>1. opts.sbom /\ delivered # {} /\ opts.sink # "rootfs"
      BY <2>1 DEF SignInv, KeepInv
    <3> QED
      BY <3>1 DEF GateInv, Gated, Seen
  <2> QED
    BY <2>1 DEF SignInv, SignedIsPushed
<1>3. Spec => []SignInv
  BY <1>1, SignStep, RecordStep, KeepAlways, TypeCorrect, PTL DEF Spec
<1> QED
  BY <1>2, <1>3, GateAlways, KeepAlways, PTL

--------------------------------------------------------------------------------
\* What --packages asked for is answered, and what it did not ask for fails nothing.

AllRecords == Put(Records, "record")
ReadRecords == opts.packages.explicit /\ opts.packages.sbom /\ ReadsTree
AskedImage  == opts.packages.explicit /\ opts.packages.image

Looking == {"image", "size", "records", "sbom", "scan", "return", "deliver", "check", "done"}

\* The selection in force is the one asked for, and an explicit one has its answers.
ChoiceInv ==
  /\ pc \in Looking =>
       /\ sel.explicit = opts.packages.explicit
       /\ sel.image = opts.packages.image
       /\ opts.packages.explicit => sel.sbom = (opts.packages.sbom /\ ReadsTree)
       /\ opts.packages.explicit /\ opts.packages.sbom => ReadsTree \/ "unread" \in warned
       /\ opts.packages.explicit /\ opts.packages.report => owners = "known" \/ "lookup" \in warned
       /\ ReadRecords \/ AskedImage => owners = "known"

\* Records asked for are staged before what is to have them is made from the tree.
ShownInv ==
  /\ opts.packages.image => guard = {}
  /\ pc \in Looking \ {"image", "check", "done"} /\ AskedImage /\ named # {} => AllRecords \subseteq tree
  /\ pc \in {"check", "done"} /\ AskedImage /\ named # {} => AllRecords \subseteq Output
  /\ pc \in {"sbom", "scan", "return"} /\ ReadRecords /\ named # {} => AllRecords \subseteq tree
  /\ pc \in {"scan", "return", "deliver", "check", "done"} /\ ReadRecords /\ opts.sbom /\ named # {} =>
       AllRecords \subseteq sbomSaw
  /\ pc \in {"return", "deliver", "check", "done"} /\ ReadRecords /\ opts.scan # "off" /\ named # {} =>
       AllRecords \subseteq scanSaw

\* Only the user's files stand on the way to the records, and nothing else fails a default.
ClearInv ==
  /\ pc # "failed" => \A e \in tree : e.at \in RecordDirs => \E f \in opts.add : f.at = e.at
  /\ DefaultPacksOn

\* os-release apart, the records staged are all of them.
LEMMA AllAreStaged == AllRecords \subseteq NewRecords
BY PipelineAssumption DEF AllRecords, NewRecords, Put

\* The lookup keeps the selection, but for what nothing reads and a default that failed.
LEMMA ChoiceStep == TypeOK /\ RecordInv /\ ChoiceInv /\ [Next]_vars => ChoiceInv'
<1> SUFFICES ASSUME TypeOK, RecordInv, ChoiceInv, [Next]_vars PROVE ChoiceInv'
  OBVIOUS
<1> USE DEF ChoiceInv, Looking
<1>0. opts \in AllOptions /\ opts.packages \in Selections
  BY PipelineAssumption DEF TypeOK, AllOptions
<1>f. ASSUME NEW t, NEW p, FailOver(t, p) PROVE ChoiceInv'
  BY <1>f DEF FailOver
<1>g. ASSUME NEW p, Fail(p) PROVE ChoiceInv'
  BY <1>g, <1>f DEF Fail
<1>e. ASSUME pc' \notin Looking PROVE ChoiceInv'
  BY <1>e
<1>k. ASSUME pc \in Looking, pc' \in Looking \cup {"failed"}, UNCHANGED <<opts, sel, owners, named>>,
             warned \subseteq warned'
      PROVE  ChoiceInv'
  BY <1>k DEF ReadRecords, AskedImage, ReadsTree
<1>1. CASE Dispatch \/ CheckLibPolicy \/ StageRuntimeExtras \/ StageLocales
  BY <1>1, <1>g, <1>e DEF Dispatch, CheckLibPolicy, StageRuntimeExtras, StageLocales, Stage, Goto
<1>2. CASE BuildRootfs
  BY <1>2, <1>f, <1>e DEF BuildRootfs, Stage, Goto
<1>3. CASE StageAddedFiles
  BY <1>3, <1>f, <1>e DEF StageAddedFiles, Stage, Goto
<1>4. CASE LookupOwners
  <2> DEFINE S == Selection
             T == [Selection EXCEPT !.sbom = FALSE]
  <2>1. /\ S.explicit = opts.packages.explicit /\ S.image = opts.packages.image
        /\ S.report = opts.packages.report /\ S.sbom = (opts.packages.sbom /\ ReadsTree)
        /\ T.explicit = opts.packages.explicit /\ T.image = opts.packages.image
    BY <1>0 DEF Selection, Selections
  <2> HIDE DEF S, T
  <2>2. pc = "lookup"
    BY <1>4, Zenon DEF LookupOwners
  <2>3. ASSUME NEW a, NEW ps, NEW w, Looked(S, a, ps, w),
               opts.packages.explicit /\ opts.packages.report => a = "known" \/ "lookup" \in w,
               ReadRecords \/ AskedImage => a = "known"
        PROVE  ChoiceInv'
    BY <2>3, <2>1, <2>2 DEF Looked, Goto, WarnUnread, Unread, ReadRecords, AskedImage, ReadsTree, treeVars
  <2>4. ASSUME NEW a, NEW ps, NEW w, Looked(T, a, ps, w), ~opts.packages.explicit
        PROVE  ChoiceInv'
    BY <2>4, <2>1, <2>2 DEF Looked, Goto, ReadRecords, AskedImage, treeVars
  <2>5. CASE ~Any(S) /\ Looked(S, "unasked", {}, {})
    BY <2>5, <2>1, <2>3 DEF Any, ReadRecords, AskedImage
  <2>6. CASE Fail("packages")
    BY <2>6, <1>g
  <2>7. CASE \E ps \in SUBSET Bundled : Looked(S, "known", ps, {})
    BY <2>7, <2>3
  <2>8. CASE ~RequiresRecords(S) /\ Looked(S, "unknown", {}, IF S.explicit THEN {"lookup"} ELSE {})
    BY <2>8, <2>1, <2>3 DEF RequiresRecords, ReadRecords, AskedImage
  <2>9. CASE ~S.explicit /\ \E a, ps, w : Looked(T, a, ps, w)
    BY <2>9, <2>1, <2>4
  <2>10. \/ ~Any(S) /\ Looked(S, "unasked", {}, {})
         \/ Fail("packages")
         \/ \E ps \in SUBSET Bundled : Looked(S, "known", ps, {})
         \/ ~RequiresRecords(S) /\ Looked(S, "unknown", {}, IF S.explicit THEN {"lookup"} ELSE {})
         \/ ~S.explicit /\ \E a, ps, w : Looked(T, a, ps, w)
    BY <1>4, Zenon DEF LookupOwners, S, T
  <2> QED
    BY <2>5, <2>6, <2>7, <2>8, <2>9, <2>10
<1>5. CASE StageImageRecords \/ EnforceMaxSize
  BY <1>5, <1>g, <1>k DEF StageImageRecords, EnforceMaxSize, Stage, Goto, pkgVars
<1>6. CASE StageSbomRecords
  BY <1>6, <1>g, <1>k DEF StageSbomRecords, Stage, Goto, pkgVars
<1>7. CASE MaybeSbom \/ MaybeScan \/ DropRecords \/ Deliver
  BY <1>7, <1>g, <1>k, ScanKinds DEF MaybeSbom, DropRecords, Deliver, Goto, pkgVars
<1>8. CASE SmokeRun \/ SignPushed \/ LeaveUnsigned
  BY <1>8, <1>g, <1>k DEF SmokeRun, SignPushed, LeaveUnsigned, Stage, Goto, pkgVars
<1>9. CASE UNCHANGED vars
  BY <1>9 DEF vars, ReadRecords, AskedImage, ReadsTree
<1> QED
  BY <1>1, <1>2, <1>3, <1>4, <1>5, <1>6, <1>7, <1>8, <1>9 DEF Next

\* Once staged for a reader, the records are there until it has read.
LEMMA ShownStep == TypeOK /\ RecordInv /\ KeepInv /\ ChoiceInv /\ ShownInv /\ [Next]_vars => ShownInv'
<1> SUFFICES ASSUME TypeOK, RecordInv, KeepInv, ChoiceInv, ShownInv, [Next]_vars PROVE ShownInv'
  OBVIOUS
<1> USE DEF ShownInv, Looking, Output
<1>0. opts \in AllOptions /\ opts.packages \in Selections
  BY PipelineAssumption DEF TypeOK, AllOptions
<1>d. opts.sink = "rootfs" => pc \notin {"deliver", "check"}
  BY DEF KeepInv
<1>f. ASSUME NEW t, NEW p, FailOver(t, p) PROVE ShownInv'
  BY <1>f DEF FailOver
<1>g. ASSUME NEW p, Fail(p) PROVE ShownInv'
  BY <1>g, <1>f DEF Fail
<1>e. ASSUME pc' \notin Looking \ {"image"}, guard' = guard, opts' = opts PROVE ShownInv'
  BY <1>e
<1>1. CASE Dispatch \/ CheckLibPolicy \/ StageRuntimeExtras \/ StageLocales
  BY <1>1, <1>g, <1>e DEF Dispatch, CheckLibPolicy, StageRuntimeExtras, StageLocales, Stage, Goto
<1>2. CASE BuildRootfs
  BY <1>2, <1>f, <1>e DEF BuildRootfs, Stage, Goto
<1>3. CASE StageAddedFiles
  BY <1>3, <1>f, <1>e DEF StageAddedFiles, Stage, Goto
<1>4. CASE LookupOwners
  <2>1. Fail("packages") \/ \E s, a, ps, w : Looked(s, a, ps, w)
    BY <1>4, Zenon DEF LookupOwners
  <2>2. ASSUME NEW s, NEW a, NEW ps, NEW w, Looked(s, a, ps, w) PROVE ShownInv'
    BY <2>2, <1>e DEF Looked, Goto, treeVars
  <2> QED
    BY <2>1, <2>2, <1>g
<1>5. CASE StageImageRecords
  <2>1. CASE pc = "image" /\ ~(sel.image /\ HasOwners) /\ Stage({}, "size")
    <3>1. ~(AskedImage /\ named # {})
      BY <2>1 DEF ChoiceInv, AskedImage, HasOwners
    <3> QED
      BY <2>1, <3>1 DEF Stage, Goto, pkgVars, AskedImage
  <2>2. CASE /\ pc = "image" /\ ~Obstructed /\ tree' = WithRecords /\ Goto("size")
             /\ UNCHANGED <<guard, pkgVars, sawVars, outVars>>
    BY <2>2, RecordsOnlyAdd, AllAreStaged DEF Goto, pkgVars, AllRecords, Put
  <2> QED
    BY <1>5, <2>1, <2>2, <1>g DEF StageImageRecords
<1>6. CASE EnforceMaxSize
  BY <1>6, <1>g DEF EnforceMaxSize, Stage, Goto, pkgVars, AskedImage, AllRecords
<1>7. CASE StageSbomRecords
  <2>1. CASE pc = "records" /\ ~ForScanners /\ Stage({}, "sbom")
    <3>1. ReadRecords /\ named # {} => AllRecords \subseteq tree
      BY <2>1 DEF ForScanners, HasOwners, ChoiceInv, ReadRecords, AskedImage
    <3> QED
      BY <2>1, <3>1 DEF Stage, Goto, pkgVars, AskedImage, ReadRecords, ReadsTree, AllRecords
  <2>2. CASE /\ pc = "records" /\ ForScanners /\ ~Obstructed /\ tree' = WithRecords
             /\ guard' = Guarded /\ Goto("sbom") /\ UNCHANGED <<pkgVars, sawVars, outVars>>
    <3>1. AllRecords \subseteq tree' /\ ~opts.packages.image
      BY <2>2, RecordsOnlyAdd, AllAreStaged DEF ForScanners, RecordInv
    <3> QED
      BY <2>2, <3>1 DEF Goto, pkgVars, AllRecords, Put
  <2>3. CASE /\ pc = "records" /\ ForScanners /\ ~RecordsMatter /\ Goto("sbom")
             /\ UNCHANGED <<treeVars, named>>
    <3>1. ~opts.packages.explicit
      BY <2>3 DEF RecordsMatter, ChoiceInv
    <3> QED
      BY <2>3, <3>1 DEF Goto, treeVars, AskedImage, ReadRecords
  <2> QED
    BY <1>7, <2>1, <2>2, <2>3, <1>g DEF StageSbomRecords
<1>8. CASE MaybeSbom
  BY <1>8, <1>g DEF MaybeSbom, Goto, treeVars, pkgVars, AskedImage, ReadRecords, ReadsTree, AllRecords
<1>9. CASE MaybeScan
  BY <1>9, <1>g, ScanKinds DEF Goto, treeVars, pkgVars, AskedImage, ReadRecords, ReadsTree, AllRecords
<1>10. CASE DropRecords
  <2>1. opts.packages.image => tree' = tree
    BY <1>10 DEF DropRecords
  <2> QED
    BY <1>10, <2>1 DEF DropRecords, Goto, pkgVars, sawVars, AskedImage, ReadRecords, ReadsTree, AllRecords
<1>11. CASE Deliver
  <2>1. CASE pc = "deliver" /\ delivered' = tree /\ Goto("check") /\ UNCHANGED <<treeVars, pkgVars, sawVars>>
    BY <2>1, <1>d DEF Goto, treeVars, pkgVars, sawVars, AskedImage, ReadRecords, ReadsTree, AllRecords
  <2> QED
    BY <1>11, <2>1, <1>g DEF Deliver
<1>12. CASE SmokeRun \/ SignPushed \/ LeaveUnsigned
  <2>1. CASE pc = "check" /\ pc' = "done" /\ UNCHANGED <<opts, named, delivered, guard, sawVars>>
    BY <2>1, <1>d DEF sawVars, AskedImage, ReadRecords, ReadsTree, AllRecords
  <2>2. CASE pc' = "failed" /\ guard' = {}
    BY <2>2
  <2> QED
    BY <1>12, <2>1, <2>2, <1>g
       DEF SmokeRun, SignPushed, LeaveUnsigned, Stage, Goto, treeVars, pkgVars, outVars
<1>13. CASE UNCHANGED vars
  BY <1>13 DEF vars, AskedImage, ReadRecords, ReadsTree, AllRecords
<1> QED
  BY <1>1, <1>2, <1>3, <1>4, <1>5, <1>6, <1>7, <1>8, <1>9, <1>10, <1>11, <1>12, <1>13 DEF Next

\* No phase but the user's stages anything on the way to the records, and a pack whose
\* selection is the default fails over neither a lookup nor records that nothing bars.
LEMMA ClearStep == TypeOK /\ RecordInv /\ ChoiceInv /\ ClearInv /\ [Next]_vars => ClearInv'
<1> SUFFICES ASSUME TypeOK, RecordInv, ChoiceInv, ClearInv, [Next]_vars PROVE ClearInv'
  OBVIOUS
<1> USE DEF ClearInv
<1>0. opts \in AllOptions /\ opts.packages \in Selections /\ opts.add \in SUBSET AddFiles
  BY PipelineAssumption DEF TypeOK, AllOptions
<1>f. ASSUME NEW t, NEW p, FailOver(t, p), p # "packages", p # "records" PROVE ClearInv'
  BY <1>f DEF FailOver, DefaultPacksOn
<1>g. ASSUME NEW p, Fail(p), p # "packages", p # "records" PROVE ClearInv'
  BY <1>g, <1>f DEF Fail
<1>a. ASSUME pc # "failed", UNCHANGED opts, pc' # "failed",
             \A e \in tree' : e \in tree \/ (e.at \in RecordDirs => \E f \in opts.add : f.at = e.at)
      PROVE  ClearInv'
  BY <1>a DEF DefaultPacksOn
<1>s. ASSUME NEW m, NEW p, Stage(m, p), p # "failed", pc # "failed",
             \A e \in m : e.at \in RecordDirs => \E f \in opts.add : f.at = e.at
      PROVE  ClearInv'
  BY <1>s, <1>a DEF Stage, Goto
<1>1. CASE Dispatch \/ CheckLibPolicy \/ EnforceMaxSize \/ SmokeRun
  BY <1>1, <1>g, <1>s DEF Dispatch, CheckLibPolicy, EnforceMaxSize, SmokeRun
<1>2. CASE BuildRootfs
  <2>1. \A e \in Put({Program} \cup Libs, "elf") : e.at \notin RecordDirs
    BY EntriesOfPut, PipelineAssumption DEF Paths, Sources
  <2>2. \A found \in SUBSET Modules : \A e \in Put(found, "nss") : e.at \notin RecordDirs
    BY EntriesOfPut, PipelineAssumption DEF Paths, Sources
  <2>3. \A e \in Put(Conf, "conf") : e.at \notin RecordDirs
    BY EntriesOfPut, PipelineAssumption DEF Paths, Sources
  <2>4. ASSUME NEW found \in SUBSET Modules,
               Stage(Put({Program} \cup Libs, "elf") \cup Put(found, "nss") \cup Put(Conf, "conf"), "policy")
        PROVE  ClearInv'
    <3>1. \A e \in Put({Program} \cup Libs, "elf") \cup Put(found, "nss") \cup Put(Conf, "conf") :
            e.at \notin RecordDirs
      BY <2>1, <2>2, <2>3
    <3> QED
      BY <1>2, <2>4, <3>1, <1>s DEF BuildRootfs
  <2> QED
    BY <1>2, <2>4, <1>f DEF BuildRootfs
<1>3. CASE StageRuntimeExtras \/ StageLocales
  <2>1. (\A e \in Put(Extra, "extra") : e.at \notin RecordDirs)
        /\ (\A e \in Put({Locale}, "locale") : e.at \notin RecordDirs)
    BY EntriesOfPut, PipelineAssumption DEF Paths, Sources
  <2> QED
    BY <1>3, <2>1, <1>g, <1>s DEF StageRuntimeExtras, StageLocales
<1>4. CASE StageAddedFiles
  <2>1. \A e \in OfUser(opts.add) : \E f \in opts.add : f.at = e.at
    BY DEF OfUser
  <2> QED
    BY <1>4, <2>1, <1>f, <1>s DEF StageAddedFiles
<1>5. CASE LookupOwners
  <2>1. ASSUME NEW s, NEW a, NEW ps, NEW w, Looked(s, a, ps, w) PROVE ClearInv'
    BY <2>1, <1>5, <1>a, Zenon DEF LookupOwners, Looked, Goto, treeVars
  <2>2. CASE RequiresRecords(Selection) /\ Fail("packages")
    <3>1. opts.packages.explicit
      BY <2>2, <1>0 DEF RequiresRecords, Selection, Selections
    <3> QED
      BY <2>2, <3>1 DEF Fail, FailOver, DefaultPacksOn
  <2>3. (RequiresRecords(Selection) /\ Fail("packages")) \/ \E s, a, ps, w : Looked(s, a, ps, w)
    BY <1>5, Zenon DEF LookupOwners
  <2> QED
    BY <2>1, <2>2, <2>3
<1>r. NewRecords \subseteq Entries /\ \A e \in NewRecords : e.at \notin RecordDirs
  BY PipelineAssumption, NewRecordsAreEntries DEF NewRecords, Put
<1>6. CASE StageImageRecords
  <2>1. CASE sel.image /\ pc = "image" /\ Fail("records")
    <3>1. opts.packages.explicit
      BY <2>1, <1>0 DEF RecordInv, Selections
    <3> QED
      BY <2>1, <3>1 DEF Fail, FailOver, DefaultPacksOn
  <2>2. CASE pc = "image" /\ tree' = WithRecords /\ Goto("size")
    BY <2>2, <1>a, <1>r DEF WithRecords, Goto
  <2> QED
    BY <1>6, <2>1, <2>2, <1>g, <1>s DEF StageImageRecords
<1>7. CASE StageSbomRecords
  <2>1. CASE RecordsMatter /\ pc = "records" /\ Fail("records")
    <3>1. opts.packages.explicit \/ \E f \in opts.add : f.at \in RecordDirs
      BY <2>1 DEF RecordsMatter, Barred, At, ChoiceInv, Looking
    <3> QED
      BY <2>1, <3>1 DEF Fail, FailOver, DefaultPacksOn
  <2>2. CASE pc = "records" /\ tree' = WithRecords /\ Goto("sbom")
    BY <2>2, <1>a, <1>r DEF WithRecords, Goto
  <2>3. CASE pc = "records" /\ Goto("sbom") /\ UNCHANGED treeVars
    BY <2>3, <1>a DEF Goto, treeVars
  <2> QED
    BY <1>7, <2>1, <2>2, <2>3, <1>g, <1>s DEF StageSbomRecords
<1>8. CASE MaybeSbom \/ MaybeScan \/ DropRecords \/ Deliver
  BY <1>8, <1>g, <1>a, ScanKinds DEF MaybeSbom, DropRecords, Deliver, Goto, treeVars
<1>9. CASE SignPushed \/ LeaveUnsigned
  <2>1. CASE pc' = "failed" /\ why' = "attest"
    BY <2>1 DEF DefaultPacksOn
  <2> QED
    BY <1>9, <2>1, <1>g, <1>a DEF SignPushed, LeaveUnsigned, Goto, treeVars
<1>10. CASE UNCHANGED vars
  BY <1>10 DEF vars, DefaultPacksOn
<1> QED
  BY <1>1, <1>2, <1>3, <1>4, <1>5, <1>6, <1>7, <1>8, <1>9, <1>10 DEF Next

\* An explicit selection is delivered, refused or warned about, for every sink and reader;
\* the default fails a pack only over an added file on the way to its records.
THEOREM SelectionsAreAnswered == Spec => []SelectionsAnswered
<1>1. Init => RecordInv /\ ChoiceInv /\ ShownInv /\ ClearInv
  BY DEF Init, RecordInv, RecordsIn, ChoiceInv, ShownInv, ClearInv, Looking, DefaultPacksOn
<1>2. TypeOK /\ ChoiceInv /\ ShownInv /\ ClearInv => SelectionsAnswered
  <2> SUFFICES ASSUME TypeOK, ChoiceInv, ShownInv, pc = "done", opts.packages.explicit
               PROVE  ExplicitIsAnswered
    BY DEF ClearInv, SelectionsAnswered, ExplicitIsAnswered
  <2>1. opts.sbom => ReadsTree
    BY DEF ReadsTree
  <2>2. opts.scan # "off" => ReadsTree
    BY DEF ReadsTree
  <2> QED
    BY <2>1, <2>2 DEF ExplicitIsAnswered, ChoiceInv, ShownInv, Looking, ReadRecords, AskedImage, AllRecords
<1> QED
  BY <1>1, <1>2, ChoiceStep, ShownStep, ClearStep, RecordStep, KeepAlways, TypeCorrect, PTL DEF Spec
==================================================================================
