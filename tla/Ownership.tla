-------------------------------- MODULE Ownership --------------------------------
(***************************************************************************)
(* The package lookup: which distribution package owns each bundled file   *)
(* (src/src/packages.rs for dpkg, src/src/rpm.rs for rpm).                 *)
(*                                                                         *)
(* A lookup is several calls of a tool, and the host's package manager may *)
(* upgrade, remove or divert between any two of them.  The database is     *)
(* external; what each call prints of it is modelled as the code reads it. *)
(***************************************************************************)
EXTENDS Naturals, FiniteSets

CONSTANTS
  Packages,       \* installable packages: one name can have several architectures
  NameOf,         \* the name of each package
  Files,          \* the bundled files, by their real host path
  Patterns,       \* those whose path dpkg would read as a pattern
  Merged,         \* those under /usr that have a second spelling, /lib/x for /usr/lib/x
  Unmerged,       \* those under /usr whose other spelling is another file
  Conffiles,      \* those that a package keeps when it is removed and not purged
  Bundle,         \* the CA bundle, credited by convention
  BundleName,     \* the package it is credited to
  Local, Nobody,  \* who diverts a path, beside packages
  Databases,      \* what the host has installed when the lookup starts
  Backends,       \* the files rpmdb leaves of a database it built
  MaxChanges      \* bound: changes of the database during a lookup

Spellings == Files \X {"full", "short"}
Rows      == [status : {"installed", "config-files", "absent"}, version : Nat,
              ships : SUBSET Spellings]

ASSUME OwnershipAssumption ==
  /\ Databases \subseteq [Packages -> Rows]
  /\ Patterns \subseteq Files /\ Merged \subseteq Files /\ Unmerged \subseteq Files
  /\ Conffiles \subseteq Files /\ Merged \cap Unmerged = {}
  /\ Bundle \notin Files /\ Nobody \notin Packages
  /\ MaxChanges \in Nat

VARIABLES
  db,        \* the database of the host
  diverted,  \* who diverts each path, or Nobody
  changes,
  manager,   \* "dpkg" or "rpm", as far as the host has one
  ask,       \* what was asked for: explicitly or not, and whether with records
  pc,        \* the next call, or how the lookup ended
  left,      \* the files rpm is still to be asked about
  credit,    \* which package was named for which file, rpm with the version it had
  report,    \* the packages of the report
  records,   \* the package records: dpkg stanzas, or rpm headers
  shipped,   \* the database files that were built of rpm headers
  owned,     \* history: who owned which path, and in which version, at some moment of the lookup
  unowned    \* history: which spelling nobody owned at some moment

hostVars == <<db, diverted, changes, owned, unowned>>
vars == <<db, diverted, changes, manager, ask, pc, left, credit, report, records, shipped,
          owned, unowned>>

Installed(p) == db[p].status = "installed"

\* The paths a database lists for a package: dpkg keeps the conffiles of one that was removed.
Lists(p, s, d) ==
  /\ s \in d[p].ships
  /\ d[p].status = "installed" \/ (d[p].status = "config-files" /\ s[1] \in Conffiles)

\* What a database says of a path: a package has it, and nobody else diverts it.
Owns(p, s, d, v) == Lists(p, s, d) /\ v[s] \in {Nobody, NameOf[p]}

\* The bundle is generated on the host, and credited to an installed package of one name.
OwnedIn(d, v) ==
  UNION {{<<p, s, d[p].version>> : s \in {t \in Spellings : Owns(p, t, d, v)}
             \cup (IF NameOf[p] = BundleName /\ d[p].status = "installed"
                  THEN {<<Bundle, "full">>} ELSE {})} : p \in Packages}
UnownedIn(d, v) == {s \in Spellings : \A p \in Packages : ~Owns(p, s, d, v)}

--------------------------------------------------------------------------------
\* The host (external): another process changes the database at any time.

Ended == pc \in {"known", "unknown", "failed"}

Changed ==
  /\ ~Ended /\ changes < MaxChanges
  /\ changes' = changes + 1
  /\ owned' = owned \cup OwnedIn(db', diverted')
  /\ unowned' = unowned \cup UnownedIn(db', diverted')
  /\ UNCHANGED <<manager, ask, pc, left, credit, report, records, shipped>>

\* A newer version may move a file to its other spelling.
Moved(ships) == {<<s[1], IF s[2] = "full" THEN "short" ELSE "full">> : s \in ships}

Upgrade(p) ==
  /\ \E ships \in {db[p].ships, Moved(db[p].ships)} :
       db' = [db EXCEPT ![p] = [status |-> "installed", version |-> @.version + 1, ships |-> ships]]
  /\ UNCHANGED diverted
  /\ Changed

Remove(p) ==
  /\ Installed(p)
  /\ \E left_behind \in IF manager = "dpkg" THEN {"config-files", "absent"} ELSE {"absent"} :
       db' = [db EXCEPT ![p].status = left_behind]
  /\ UNCHANGED diverted
  /\ Changed

Divert(s) ==
  /\ manager = "dpkg"
  /\ \E by \in {NameOf[p] : p \in Packages} \cup {Local} : diverted' = [diverted EXCEPT ![s] = by]
  /\ UNCHANGED db
  /\ Changed

--------------------------------------------------------------------------------
\* How a lookup goes on.

Go(step) == pc' = step /\ UNCHANGED <<hostVars, manager, ask, shipped>>

\* `lookup_owners`: a default selection is asked again without records; a report alone is not
\* worth a failure.
Fails ==
  /\ UNCHANGED <<hostVars, manager, shipped>>
  /\ credit' = {} /\ report' = {} /\ records' = {}
  /\ IF ask.records /\ ~ask.explicit
     THEN /\ ask' = [ask EXCEPT !.records = FALSE]
          /\ pc' = "start" /\ left' = Files
     ELSE /\ pc' = IF ask.records THEN "failed" ELSE "unknown"
          /\ UNCHANGED <<ask, left>>

\* A tool may be missing, exit with an error, or not open its database; a package that is gone
\* since it was named is such an error.
QueryFails == pc \in {"search", "again", "convention", "show", "stanzas", "ask", "export"} /\ Fails

\* Which manager answers is settled before the first call.
Start ==
  /\ pc = "start"
  /\ Go(IF manager = "dpkg" THEN "search" ELSE "ask")
  /\ UNCHANGED <<left, credit, report, records>>

Credited == {c.package : c \in credit}

--------------------------------------------------------------------------------
\* dpkg.

Credit(ps, file, version) == {[package |-> p, file |-> file, version |-> version] : p \in ps}

\* `dpkg-query -S` prints every package that ships the path, and its diversion.
\* Mutant: a diversion is not read.
KeptAll(p, s) == TRUE
Kept(p, s)    == diverted[s] \in {Nobody, NameOf[p]}

\* `parse_search`: the status of a package is not asked.
Shipping(s) == {p \in Packages : Lists(p, s, db) /\ Kept(p, s)}

\* `search`: a path with a pattern character is not asked.
Search ==
  /\ pc = "search"
  /\ credit' = UNION {Credit(Shipping(<<f, "full">>), f, 0) : f \in Files \ Patterns}
  /\ Go("again")
  /\ UNCHANGED <<left, report, records>>

\* Mutant: nothing is asked again.
RetriedNone == {}
Retried     == {f \in Merged : f \notin Patterns /\ \A c \in credit : c.file # f}

\* A path that nobody owns is asked again without /usr, where that is the same file.
SearchAgain ==
  /\ pc = "again"
  /\ credit' = credit \cup UNION {Credit(Shipping(<<f, "short">>), f, 0) : f \in Retried}
  /\ Go("convention")
  /\ UNCHANGED <<left, report, records>>

\* Only an installed package is credited with the bundle.
OfBundle == {p \in Packages : NameOf[p] = BundleName /\ Installed(p)}

AskConvention ==
  /\ pc = "convention"
  /\ credit' = credit \cup Credit(OfBundle, Bundle, 0)
  /\ Go(IF credit' = {} THEN "known" ELSE "show")
  /\ UNCHANGED <<left, report, records>>

\* The files of each package, sorted and once each.
RowOf(p) == [package |-> p, version |-> db[p].version,
             files |-> {c.file : c \in {x \in credit : x.package = p}}]

\* `dpkg-query -W` and `parse_show`: a package that is gone by now is an error.
Show ==
  /\ pc = "show"
  /\ \A p \in Credited : db[p].status # "absent"
  /\ report' = {RowOf(p) : p \in Credited}
  /\ Go("stanzas")
  /\ UNCHANGED <<left, credit, records>>

\* Two architectures of one name: the second record keeps its architecture in the file name.
FirstOfName(p) == p = CHOOSE q \in Credited : NameOf[q] = NameOf[p]
RecordFile(p) ==
  IF FirstOfName(p) THEN [name |-> NameOf[p], arch |-> Nobody] ELSE [name |-> NameOf[p], arch |-> p]

\* `dpkg-query -s` and `parse_records`: one file per package that the report names.
Stanzas ==
  /\ pc = "stanzas"
  /\ \A p \in Credited : db[p].status # "absent"
  /\ records' = {[file |-> RecordFile(p), package |-> p, version |-> db[p].version] :
                   p \in {r.package : r \in report}}
  /\ Go("known")
  /\ UNCHANGED <<left, credit, report>>

--------------------------------------------------------------------------------
\* rpm.

\* `rpm -qf` for one file; rpm's own "no" is an answer, any other failure is not.
AskFile ==
  /\ pc = "ask"
  /\ \E f \in left :
       /\ credit' = credit \cup
            UNION {Credit({p}, f, db[p].version) :
                     p \in {q \in Packages : Installed(q) /\ <<f, "full">> \in db[q].ships}}
       /\ left' = left \ {f}
  /\ Go("ask")
  /\ UNCHANGED <<report, records>>

AskBundle ==
  /\ pc = "ask" /\ left = {}
  /\ credit' = credit \cup UNION {Credit({p}, Bundle, db[p].version) : p \in OfBundle}
  /\ Go(IF credit' = {} THEN "known" ELSE IF ask.records THEN "export" ELSE "list")
  /\ UNCHANGED <<left, report, records>>

\* A package and the version it had when it was named: the key of its header.
Nevras == {[package |-> c.package, version |-> c.version] : c \in credit}

\* `filter_headers`: every wanted header must be there, whole, with a key that can be read.
\* Mutant: the headers that are there will do.
AllFoundSome(headers) == TRUE
AllFound(headers)     == Nevras \subseteq headers

HeadersNow == {[package |-> p, version |-> db[p].version] : p \in {q \in Packages : Installed(q)}}

Export ==
  /\ pc = "export"
  /\ \E readable \in SUBSET HeadersNow :
       \/ /\ AllFound(readable)
          /\ records' = {[file |-> n, package |-> n.package, version |-> n.version] :
                           n \in Nevras \cap readable}
          /\ Go("list")
          /\ UNCHANGED <<left, credit, report>>
       \/ ~AllFound(readable) /\ Fails

List ==
  /\ pc = "list"
  /\ report' = {[package |-> n.package, version |-> n.version,
                 files |-> {c.file : c \in {x \in credit : x.package = n.package /\ x.version = n.version}}] :
                  n \in Nevras}
  /\ Go(IF ask.records THEN "build" ELSE "known")
  /\ UNCHANGED <<left, credit, records>>

\* `build_database`: rpmdb imports the headers in a private root.  Locks, regions, indexes and
\* an empty log stay behind.  Without any data file there is no database, and only a default
\* selection does without it.
DataFiles(files) == {f \in files : f.kind = "data" \/ (f.kind = "wal" /\ ~f.empty)}

BuildDatabase ==
  /\ pc = "build"
  /\ \E files \in Backends :
       IF DataFiles(files) = {}
       THEN /\ pc' = IF ask.explicit THEN "failed" ELSE "known"
            /\ ask' = [ask EXCEPT !.records = FALSE] /\ records' = {}
            /\ UNCHANGED shipped
       ELSE /\ pc' = "known" /\ shipped' = DataFiles(files)
            /\ UNCHANGED <<ask, records>>
  /\ UNCHANGED <<hostVars, manager, left, credit, report>>

Init ==
  /\ db \in Databases
  /\ diverted = [s \in Spellings |-> Nobody] /\ changes = 0
  /\ manager \in {"dpkg", "rpm"} /\ ask \in [explicit : BOOLEAN, records : BOOLEAN]
  /\ manager = "rpm" => \A p \in Packages : db[p].status # "config-files"
  /\ pc = "start" /\ left = Files
  /\ credit = {} /\ report = {} /\ records = {} /\ shipped = {}
  /\ owned = OwnedIn(db, diverted) /\ unowned = UnownedIn(db, diverted)

Host == (\E p \in Packages : Upgrade(p) \/ Remove(p)) \/ (\E s \in Spellings : Divert(s))
Lookup ==
  \/ QueryFails \/ Start
  \/ Search \/ SearchAgain \/ AskConvention \/ Show \/ Stanzas
  \/ AskFile \/ AskBundle \/ Export \/ List \/ BuildDatabase

Next == Host \/ Lookup
Spec == Init /\ [][Next]_vars

--------------------------------------------------------------------------------
TypeOK ==
  /\ db \in [Packages -> Rows] /\ diverted \in [Spellings -> {NameOf[p] : p \in Packages} \cup {Local, Nobody}]
  /\ changes \in 0 .. MaxChanges /\ manager \in {"dpkg", "rpm"}
  /\ ask \in [explicit : BOOLEAN, records : BOOLEAN]
  /\ left \subseteq Files
  /\ credit \subseteq [package : Packages, file : Files \cup {Bundle}, version : Nat]
  /\ report \subseteq [package : Packages, version : Nat, files : SUBSET (Files \cup {Bundle})]
  /\ owned \subseteq Packages \X ((Files \cup {Bundle}) \X {"full", "short"}) \X Nat
  /\ unowned \subseteq Spellings

\* The spellings under which one file may be known: the short one only where it is the same file.
SpellingsOf(f) == {<<f, "full">>} \cup (IF manager = "dpkg" /\ f \in Merged THEN {<<f, "short">>} ELSE {})

\* A package is named for a file only if it owned that very file at some moment of the lookup;
\* rpm's answers are of one call each, so there also in the version that the report gives.  No
\* pattern, diversion or other file under a similar path gets a package in, and a package that was
\* removed only for a conffile that it left (packages.rs `search`, `parse_search`,
\* `installed_packages`; rpm.rs `owners`).
CreditedOwned ==
  pc = "known" => \A r \in report : \A f \in r.files :
    \E o \in owned : /\ o[1] = r.package /\ o[2] \in SpellingsOf(f)
                     /\ manager = "rpm" => o[3] = r.version

\* A file that was asked about and that nobody is named for had no owner, under any spelling
\* that is this file, when that spelling was asked about.
UnownedWasSeen ==
  pc = "known" =>
    \A f \in Files \ (IF manager = "dpkg" THEN Patterns ELSE {}) :
      (\A r \in report : f \notin r.files) => SpellingsOf(f) \subseteq unowned

\* The records that an SBOM or an image is to carry name the packages of the report, one file
\* each, whatever the host does between the calls; rpm's name the same versions too.
RecordsMatchReport ==
  (pc = "known" /\ ask.records) =>
    /\ {r.package : r \in records} = {r.package : r \in report}
    /\ \A a, b \in records : a.file = b.file => a = b
    /\ manager = "rpm" => /\ {<<r.package, r.version>> : r \in records}
                              = {<<r.package, r.version>> : r \in report}
                         /\ (report # {} => shipped # {})
================================================================================
