----------------------------- MODULE OwnershipProofs -----------------------------
(***************************************************************************)
(* What holds of the package lookup for every database, every set of files *)
(* and any number of changes of the host between any two of its calls.     *)
(***************************************************************************)
EXTENDS Ownership, TLAPS

lookupVars == <<manager, ask, pc, left, credit, report, records, shipped>>

\* Each manager has its calls, rpm knows no diversion and no package half removed, and history is
\* up to date.
PlaceInv ==
  /\ pc \in {"search", "again", "convention", "show", "stanzas"} => manager = "dpkg"
  /\ pc \in {"ask", "export", "list", "build"} => manager = "rpm"
  /\ manager = "rpm" => /\ diverted = [s \in Spellings |-> Nobody]
                         /\ \A p \in Packages : db[p].status # "config-files"
  /\ OwnedIn(db, diverted) \subseteq owned
  /\ UnownedIn(db, diverted) \subseteq unowned

\* A package owned a file, for rpm in a version, at some moment.
Known(p, f, v) ==
  \E o \in owned : o[1] = p /\ o[2] \in SpellingsOf(f) /\ (manager = "rpm" => o[3] = v)

\* Whatever is named so far was owned, and the report names no more.
CreditInv ==
  /\ \A c \in credit : Known(c.package, c.file, c.version)
  /\ \A r \in report : \A f \in r.files : Known(r.package, f, r.version)

\* A file that was asked about without an answer had no owner.
Quiet(f) == \A c \in credit : c.file # f
SeenInv ==
  /\ pc \in {"again", "convention", "show", "stanzas"} =>
       \A f \in Files \ Patterns : Quiet(f) => <<f, "full">> \in unowned
  /\ pc \in {"convention", "show", "stanzas"} =>
       \A f \in Merged \ Patterns : Quiet(f) => <<f, "short">> \in unowned
  /\ pc \in {"ask", "export", "list", "build"} =>
       \A f \in Files \ left : Quiet(f) => <<f, "full">> \in unowned
  /\ pc \in {"export", "list", "build"} => left = {}
  /\ pc = "start" => left = Files
  /\ pc \in {"stanzas", "build"} =>
       \A c \in credit : \E r \in report : c.file \in r.files

\* Records and report are made of the same credits.
RecordInv ==
  /\ pc \in {"start", "search", "again", "convention", "show", "ask", "export"} =>
       report = {} /\ records = {}
  /\ pc = "stanzas" => {r.package : r \in report} = Credited
  /\ pc \in {"list", "build"} /\ ask.records =>
       records = {[file |-> n, package |-> n.package, version |-> n.version] : n \in Nevras}
  /\ pc = "build" => {<<r.package, r.version>> : r \in report}
                       = {<<n.package, n.version>> : n \in Nevras}
  /\ pc = "build" => {r.package : r \in report} = {n.package : n \in Nevras}

--------------------------------------------------------------------------------
\* The calls change nothing on the host, and fail in one way.
LEMMA LookupKeepsHost ==
  ASSUME Lookup
  PROVE  UNCHANGED <<hostVars, manager>>
BY DEF Lookup, QueryFails, Fails, Start, Search, SearchAgain, AskConvention, Show, Stanzas,
       AskFile, AskBundle, Export, List, BuildDatabase, Go, hostVars

\* The host changes nothing of the lookup, and never while none runs.
LEMMA HostKeepsLookup ==
  ASSUME Host
  PROVE  /\ UNCHANGED lookupVars /\ ~Ended
         /\ changes < MaxChanges /\ changes' = changes + 1
         /\ owned' = owned \cup OwnedIn(db', diverted')
         /\ unowned' = unowned \cup UnownedIn(db', diverted')
         /\ (diverted' = diverted \/ manager = "dpkg")
BY DEF Host, Upgrade, Remove, Divert, Changed, lookupVars

\* What the database says is of the types of the history.
LEMMA HistoryTyped ==
  ASSUME NEW d \in [Packages -> Rows], NEW v
  PROVE  /\ OwnedIn(d, v) \subseteq Packages \X ((Files \cup {Bundle}) \X {"full", "short"}) \X Nat
         /\ UnownedIn(d, v) \subseteq Spellings
<1>1. ASSUME NEW o \in OwnedIn(d, v)
      PROVE  o \in Packages \X ((Files \cup {Bundle}) \X {"full", "short"}) \X Nat
  <2>1. PICK p \in Packages :
          o \in {<<p, s, d[p].version>> : s \in {t \in Spellings : Owns(p, t, d, v)}
                    \cup (IF NameOf[p] = BundleName /\ d[p].status = "installed"
                          THEN {<<Bundle, "full">>} ELSE {})}
    BY <1>1 DEF OwnedIn
  <2>2. PICK s \in Spellings \cup {<<Bundle, "full">>} : o = <<p, s, d[p].version>>
    BY <2>1
  <2>3. d[p].version \in Nat
    BY DEF Rows
  <2>4. s \in (Files \cup {Bundle}) \X {"full", "short"}
    BY <2>2 DEF Spellings
  <2>5. QED
    BY <2>2, <2>3, <2>4
<1>2. QED
  BY <1>1 DEF UnownedIn

\* The type invariant, `TypeOK`.
THEOREM TypeCorrect == Spec => []TypeOK
<1>1. Init => TypeOK
  <2> SUFFICES ASSUME Init PROVE TypeOK
    OBVIOUS
  <2>1. db \in [Packages -> Rows]
    BY OwnershipAssumption DEF Init
  <2>2. QED
    BY <2>1, HistoryTyped, OwnershipAssumption DEF Init, TypeOK
<1>2. TypeOK /\ [Next]_vars => TypeOK'
  <2> SUFFICES ASSUME TypeOK, [Next]_vars PROVE TypeOK'
    OBVIOUS
  <2>1. CASE Host
    <3>1. db' \in [Packages -> Rows] /\ diverted' \in [Spellings -> {NameOf[p] : p \in Packages} \cup {Local, Nobody}]
      <4>1. ASSUME NEW p \in Packages, Upgrade(p)
            PROVE  db' \in [Packages -> Rows] /\ diverted' = diverted
        <5>1. Moved(db[p].ships) \subseteq Spellings
          BY DEF TypeOK, Rows, Moved, Spellings
        <5>2. PICK ships \in {db[p].ships, Moved(db[p].ships)} :
                db' = [db EXCEPT ![p] = [status |-> "installed", version |-> @.version + 1, ships |-> ships]]
          BY <4>1 DEF Upgrade
        <5>3. db[p] \in Rows
          BY DEF TypeOK
        <5>4. ships \subseteq Spellings /\ db[p].version + 1 \in Nat
          BY <5>1, <5>3 DEF Rows
        <5>5. [status |-> "installed", version |-> db[p].version + 1, ships |-> ships] \in Rows
          BY <5>4 DEF Rows
        <5>6. QED
          BY <4>1, <5>2, <5>5 DEF Upgrade, TypeOK
      <4>2. ASSUME NEW p \in Packages, Remove(p)
            PROVE  db' \in [Packages -> Rows] /\ diverted' = diverted
        BY <4>2 DEF Remove, TypeOK, Rows
      <4>3. ASSUME NEW s \in Spellings, Divert(s)
            PROVE  db' = db /\ diverted' \in [Spellings -> {NameOf[p] : p \in Packages} \cup {Local, Nobody}]
        BY <4>3 DEF Divert, TypeOK
      <4>4. QED
        BY <2>1, <4>1, <4>2, <4>3 DEF Host, TypeOK
    <3>2. changes' \in 0 .. MaxChanges
      BY <2>1, HostKeepsLookup, OwnershipAssumption DEF TypeOK
    <3>3. QED
      BY <2>1, <3>1, <3>2, HostKeepsLookup, HistoryTyped DEF TypeOK, lookupVars
  <2>2. CASE Lookup
    <3>1. UNCHANGED <<hostVars, manager>>
      BY <2>2, LookupKeepsHost
    <3>2. ASSUME NEW p \in Packages PROVE db[p].version \in Nat
      BY DEF TypeOK, Rows
    <3>c. ASSUME NEW ps \in SUBSET Packages, NEW f \in Files \cup {Bundle}, NEW v \in Nat
          PROVE  Credit(ps, f, v) \subseteq [package : Packages, file : Files \cup {Bundle}, version : Nat]
      BY <3>c DEF Credit
    <3>3. CASE QueryFails \/ Start
      BY <3>3, <3>1 DEF QueryFails, Fails, Start, Go, hostVars, TypeOK
    <3>4. CASE Search \/ SearchAgain \/ AskConvention
      <4>1. credit' \subseteq [package : Packages, file : Files \cup {Bundle}, version : Nat]
        <5>1. \A s : Shipping(s) \in SUBSET Packages
          BY DEF Shipping
        <5>2. OfBundle \in SUBSET Packages
          BY DEF OfBundle
        <5>3. CASE Search
          <6>1. ASSUME NEW f \in Files \ Patterns
                PROVE  Credit(Shipping(<<f, "full">>), f, 0)
                         \subseteq [package : Packages, file : Files \cup {Bundle}, version : Nat]
            BY <5>1, <3>c
          <6>2. QED
            BY <5>3, <6>1 DEF Search
        <5>4. CASE SearchAgain
          <6>1. ASSUME NEW f \in Retried
                PROVE  Credit(Shipping(<<f, "short">>), f, 0)
                         \subseteq [package : Packages, file : Files \cup {Bundle}, version : Nat]
            BY <5>1, <3>c, OwnershipAssumption DEF Retried
          <6>2. UNION {Credit(Shipping(<<f, "short">>), f, 0) : f \in Retried}
                  \subseteq [package : Packages, file : Files \cup {Bundle}, version : Nat]
            BY <6>1
          <6>3. credit \subseteq [package : Packages, file : Files \cup {Bundle}, version : Nat]
            BY DEF TypeOK
          <6>4. QED
            BY <5>4, <6>2, <6>3 DEF SearchAgain
        <5>5. CASE AskConvention
          BY <5>5, <5>2, <3>c DEF AskConvention, TypeOK
        <5>6. QED
          BY <3>4, <5>3, <5>4, <5>5
      <4>2. QED
        BY <3>4, <3>1, <4>1 DEF Search, SearchAgain, AskConvention, Go, hostVars, TypeOK
    <3>5. CASE Show
      <4>1. ASSUME NEW p \in Credited
            PROVE  RowOf(p) \in [package : Packages, version : Nat, files : SUBSET (Files \cup {Bundle})]
        <5>1. p \in Packages
          BY DEF Credited, TypeOK
        <5>2. {c.file : c \in {x \in credit : x.package = p}} \subseteq Files \cup {Bundle}
          BY DEF TypeOK
        <5>3. QED
          BY <5>1, <5>2, <3>2 DEF RowOf
      <4>2. QED
        BY <3>5, <3>1, <4>1 DEF Show, Go, hostVars, TypeOK
    <3>6. CASE Stanzas
      BY <3>6, <3>1 DEF Stanzas, Go, hostVars, TypeOK
    <3>7. CASE AskFile \/ AskBundle
      <4>1. credit' \subseteq [package : Packages, file : Files \cup {Bundle}, version : Nat]
        <5>1. CASE AskFile
          BY <5>1, <3>2 DEF AskFile, Credit, TypeOK
        <5>2. CASE AskBundle
          BY <5>2, <3>2 DEF AskBundle, Credit, OfBundle, TypeOK
        <5>3. QED
          BY <3>7, <5>1, <5>2
      <4>2. QED
        BY <3>7, <3>1, <4>1 DEF AskFile, AskBundle, Go, hostVars, TypeOK
    <3>8. CASE Export
      BY <3>8, <3>1 DEF Export, Fails, Go, hostVars, TypeOK
    <3>9. CASE List
      <4>1. ASSUME NEW n \in Nevras
            PROVE  /\ n.package \in Packages /\ n.version \in Nat
                   /\ {c.file : c \in {x \in credit : x.package = n.package /\ x.version = n.version}}
                        \subseteq Files \cup {Bundle}
        BY DEF Nevras, TypeOK
      <4>2. report' \subseteq [package : Packages, version : Nat, files : SUBSET (Files \cup {Bundle})]
        BY <3>9, <4>1 DEF List
      <4>3. QED
        BY <3>9, <3>1, <4>2 DEF List, Go, hostVars, TypeOK
    <3>10. CASE BuildDatabase
      BY <3>10, <3>1 DEF BuildDatabase, hostVars, TypeOK
    <3>11. QED
      BY <2>2, <3>3, <3>4, <3>5, <3>6, <3>7, <3>8, <3>9, <3>10 DEF Lookup
  <2>3. CASE UNCHANGED vars
    BY <2>3 DEF vars, TypeOK
  <2>4. QED
    BY <2>1, <2>2, <2>3 DEF Next
<1>3. QED
  BY <1>1, <1>2, PTL DEF Spec

--------------------------------------------------------------------------------
\* What the database answers now is in the history.
LEMMA AnswersAreHistory ==
  ASSUME PlaceInv
  PROVE  /\ \A p \in Packages, s \in Spellings :
              Owns(p, s, db, diverted) => <<p, s, db[p].version>> \in owned
         /\ \A p \in OfBundle : <<p, <<Bundle, "full">>, db[p].version>> \in owned
         /\ \A s \in Spellings :
              (\A p \in Packages : ~Owns(p, s, db, diverted)) => s \in unowned
<1>1. ASSUME NEW p \in Packages, NEW s \in Spellings, Owns(p, s, db, diverted)
      PROVE  <<p, s, db[p].version>> \in owned
  BY <1>1 DEF PlaceInv, OwnedIn
<1>2. ASSUME NEW p \in OfBundle
      PROVE  <<p, <<Bundle, "full">>, db[p].version>> \in owned
  BY DEF PlaceInv, OwnedIn, OfBundle, Installed
<1>3. ASSUME NEW s \in Spellings, \A p \in Packages : ~Owns(p, s, db, diverted)
      PROVE  s \in unowned
  BY <1>3 DEF PlaceInv, UnownedIn
<1>4. QED
  BY <1>1, <1>2, <1>3

\* dpkg names an owner, and each one; so does rpm, which has no diversions.
LEMMA ShippersOwn ==
  ASSUME NEW s \in Spellings
  PROVE  Shipping(s) = {p \in Packages : Owns(p, s, db, diverted)}
BY DEF Shipping, Kept, Owns

\* `PlaceInv` is an invariant.
LEMMA InvariantOfPlaces == Spec => []PlaceInv
<1>1. Init => PlaceInv
  BY DEF Init, PlaceInv
<1>2. TypeOK /\ PlaceInv /\ [Next]_vars => PlaceInv'
  <2> SUFFICES ASSUME TypeOK, PlaceInv, [Next]_vars PROVE PlaceInv'
    OBVIOUS
  <2>1. CASE Host
    <3>1. manager' = "rpm" => diverted' = [s \in Spellings |-> Nobody]
      BY <2>1, HostKeepsLookup DEF PlaceInv, lookupVars
    <3>4. manager' = "rpm" => \A p \in Packages : db'[p].status # "config-files"
      <4>1. manager' = manager
        BY <2>1, HostKeepsLookup DEF lookupVars
      <4>2. ASSUME NEW p \in Packages, Upgrade(p) \/ Remove(p), manager = "rpm", NEW q \in Packages
            PROVE  db'[q].status # "config-files"
        BY <4>2 DEF Upgrade, Remove, TypeOK, Rows, PlaceInv
      <4>3. QED
        BY <2>1, <4>1, <4>2 DEF Host, Divert, PlaceInv
    <3>2. OwnedIn(db, diverted)' \subseteq owned' /\ UnownedIn(db, diverted)' \subseteq unowned'
      BY <2>1, HostKeepsLookup DEF OwnedIn, UnownedIn
    <3>3. QED
      BY <2>1, <3>1, <3>2, <3>4, HostKeepsLookup DEF PlaceInv, lookupVars
  <2>2. CASE Lookup
    <3>1. UNCHANGED <<db, diverted, owned, unowned, manager>>
      BY <2>2, LookupKeepsHost DEF hostVars
    <3>2. /\ pc' \in {"search", "again", "convention", "show", "stanzas"} => manager' = "dpkg"
          /\ pc' \in {"ask", "export", "list", "build"} => manager' = "rpm"
      <4>1. CASE QueryFails
        BY <4>1 DEF QueryFails, Fails
      <4>2. CASE Start \/ Search \/ SearchAgain \/ AskConvention \/ Show \/ Stanzas
        BY <4>2 DEF TypeOK, PlaceInv, Start, Search, SearchAgain, AskConvention, Show, Stanzas, Go
      <4>3. CASE AskFile \/ AskBundle \/ List \/ BuildDatabase
        BY <4>3 DEF PlaceInv, AskFile, AskBundle, List, BuildDatabase, Go
      <4>4. CASE Export
        BY <4>4 DEF PlaceInv, Export, Fails, Go
      <4>5. QED
        BY <2>2, <4>1, <4>2, <4>3, <4>4 DEF Lookup
    <3>3. QED
      BY <3>1, <3>2 DEF PlaceInv, OwnedIn, UnownedIn, Owns, Lists
  <2>3. CASE UNCHANGED vars
    BY <2>3 DEF vars, PlaceInv, OwnedIn, UnownedIn, Owns, Lists
  <2>4. QED
    BY <2>1, <2>2, <2>3 DEF Next
<1>3. QED
  BY <1>1, <1>2, TypeCorrect, PTL DEF Spec

--------------------------------------------------------------------------------
\* What was known stays known: history only grows.
LEMMA KnownStays ==
  ASSUME [Next]_vars, NEW p, NEW f, NEW v, Known(p, f, v)
  PROVE  Known(p, f, v)'
<1>1. owned \subseteq owned' /\ manager' = manager
  <2>1. CASE Host
    BY <2>1, HostKeepsLookup DEF lookupVars
  <2>2. CASE Lookup
    BY <2>2, LookupKeepsHost DEF hostVars
  <2>3. QED
    BY <2>1, <2>2 DEF Next, vars
<1>2. SpellingsOf(f)' = SpellingsOf(f)
  BY <1>1 DEF SpellingsOf
<1>3. PICK o \in owned : o[1] = p /\ o[2] \in SpellingsOf(f) /\ (manager = "rpm" => o[3] = v)
  BY DEF Known
<1>4. QED
  BY <1>1, <1>2, <1>3 DEF Known

\* Every answer of a call is one that the history knows.
LEMMA AnswersAreKnown ==
  ASSUME PlaceInv, manager \in {"dpkg", "rpm"}
  PROVE  /\ \A f \in Files : \A p \in Shipping(<<f, "full">>) : Known(p, f, db[p].version)
         /\ manager = "dpkg" =>
              /\ \A f \in Files : \A p \in Shipping(<<f, "full">>) : Known(p, f, 0)
              /\ \A f \in Retried : \A p \in Shipping(<<f, "short">>) : Known(p, f, 0)
              /\ \A p \in OfBundle : Known(p, Bundle, 0)
         /\ \A p \in OfBundle : Known(p, Bundle, db[p].version)
<1>1. ASSUME NEW f \in Files, NEW p \in Shipping(<<f, "full">>), NEW v,
             manager = "rpm" => v = db[p].version
      PROVE  Known(p, f, v)
  <2>1. <<f, "full">> \in Spellings
    BY DEF Spellings
  <2>2. <<p, <<f, "full">>, db[p].version>> \in owned
    BY <2>1, AnswersAreHistory, ShippersOwn
  <2>3. QED
    BY <2>2, <1>1 DEF Known, SpellingsOf
<1>2. ASSUME NEW f \in Retried, NEW p \in Shipping(<<f, "short">>), manager = "dpkg"
      PROVE  Known(p, f, 0)
  <2>1. <<f, "short">> \in Spellings /\ f \in Merged
    BY OwnershipAssumption DEF Spellings, Retried
  <2>2. <<p, <<f, "short">>, db[p].version>> \in owned
    BY <2>1, AnswersAreHistory, ShippersOwn
  <2>3. QED
    BY <2>1, <2>2, <1>2 DEF Known, SpellingsOf
<1>3. ASSUME NEW p \in OfBundle, NEW v, manager = "rpm" => v = db[p].version
      PROVE  Known(p, Bundle, v)
  <2>1. <<p, <<Bundle, "full">>, db[p].version>> \in owned
    BY AnswersAreHistory
  <2>2. QED
    BY <2>1, <1>3 DEF Known, SpellingsOf
<1>4. QED
  BY <1>1, <1>2, <1>3

\* `CreditedOwned`: a package is named for a file only if it owned that very file at some
\* moment of the lookup, for rpm in the version that is reported.
THEOREM CreditedFilesAreOwned == Spec => []CreditedOwned
<1>1. Init => CreditInv
  BY DEF Init, CreditInv
<1>2. TypeOK /\ PlaceInv /\ CreditInv /\ [Next]_vars => CreditInv'
  <2> SUFFICES ASSUME TypeOK, PlaceInv, CreditInv, [Next]_vars PROVE CreditInv'
    OBVIOUS
  <2>0. manager \in {"dpkg", "rpm"}
    BY DEF TypeOK
  <2>1. \A c \in credit : Known(c.package, c.file, c.version)'
    BY KnownStays DEF CreditInv
  <2>2. \A r \in report : \A f \in r.files : Known(r.package, f, r.version)'
    BY KnownStays DEF CreditInv
  <2>3. CASE UNCHANGED <<credit, report>>
    BY <2>1, <2>2, <2>3 DEF CreditInv
  <2>4. CASE Lookup
    <3>0. UNCHANGED <<owned, db, diverted, manager>>
      BY <2>4, LookupKeepsHost DEF hostVars
    <3>k. \A p, f, v : Known(p, f, v)' <=> Known(p, f, v)
      BY <3>0 DEF Known, SpellingsOf
    <3>1. CASE credit' = {} /\ report' = {}
      BY <3>1 DEF CreditInv
    <3>2. CASE Search \/ SearchAgain \/ AskConvention
      <4>1. manager = "dpkg"
        BY <3>2 DEF PlaceInv, Search, SearchAgain, AskConvention
      <4>2. ASSUME NEW c \in credit' PROVE Known(c.package, c.file, c.version)
        <5>1. CASE Search
          <6>1. PICK f \in Files : c \in Credit(Shipping(<<f, "full">>), f, 0)
            BY <5>1 DEF Search
          <6>2. QED
            BY <6>1, <4>1, <2>0, AnswersAreKnown DEF Credit
        <5>2. CASE SearchAgain
          <6>1. CASE c \in credit
            BY <6>1 DEF CreditInv
          <6>2. CASE c \notin credit
            <7>1. PICK f \in Retried : c \in Credit(Shipping(<<f, "short">>), f, 0)
              BY <5>2, <6>2 DEF SearchAgain
            <7>2. QED
              BY <7>1, <4>1, <2>0, AnswersAreKnown DEF Credit
          <6>3. QED
            BY <6>1, <6>2
        <5>3. CASE AskConvention
          <6>1. c \in credit \/ c \in Credit(OfBundle, Bundle, 0)
            BY <5>3 DEF AskConvention
          <6>2. QED
            BY <6>1, <4>1, <2>0, AnswersAreKnown DEF Credit, CreditInv
        <5>4. QED
          BY <3>2, <5>1, <5>2, <5>3
      <4>3. report' = report
        BY <3>2 DEF Search, SearchAgain, AskConvention
      <4>4. QED
        BY <4>2, <4>3, <3>k DEF CreditInv
    <3>3. CASE AskFile \/ AskBundle
      <4>1. ASSUME NEW c \in credit' PROVE Known(c.package, c.file, c.version)
        <5>1. CASE c \in credit
          BY <5>1 DEF CreditInv
        <5>2. CASE c \notin credit /\ AskFile
          <6>1. PICK f \in left :
                  credit' = credit \cup
                    UNION {Credit({p}, f, db[p].version) :
                             p \in {q \in Packages : Installed(q) /\ <<f, "full">> \in db[q].ships}}
            BY <5>2 DEF AskFile
          <6>2. PICK p \in Packages : /\ Installed(p) /\ <<f, "full">> \in db[p].ships
                                      /\ c \in Credit({p}, f, db[p].version)
            BY <5>2, <6>1
          <6>3. f \in Files /\ <<f, "full">> \in Spellings
            BY DEF TypeOK, Spellings
          <6>4. diverted[<<f, "full">>] = Nobody
            BY <5>2, <6>3 DEF PlaceInv, AskFile
          <6>5. p \in Shipping(<<f, "full">>)
            BY <6>2, <6>4 DEF Shipping, Kept, Lists, Installed
          <6>6. QED
            BY <6>2, <6>3, <6>5, <2>0, AnswersAreKnown DEF Credit
        <5>3. CASE c \notin credit /\ AskBundle
          <6>1. PICK p \in OfBundle : c \in Credit({p}, Bundle, db[p].version)
            BY <5>3 DEF AskBundle
          <6>2. QED
            BY <6>1, <2>0, AnswersAreKnown DEF Credit
        <5>4. QED
          BY <3>3, <5>1, <5>2, <5>3
      <4>2. report' = report
        BY <3>3 DEF AskFile, AskBundle
      <4>3. QED
        BY <4>1, <4>2, <3>k DEF CreditInv
    <3>4. CASE Show
      <4>1. credit' = credit /\ report' = {RowOf(p) : p \in Credited} /\ manager = "dpkg"
        BY <3>4 DEF Show, PlaceInv
      <4>2. ASSUME NEW r \in report', NEW f \in r.files PROVE Known(r.package, f, r.version)
        <5>1. PICK p \in Credited : r = RowOf(p)
          BY <4>1
        <5>2. PICK c \in credit : c.package = p /\ c.file = f
          BY <5>1 DEF RowOf
        <5>3. r.package = p
          BY <5>1 DEF RowOf
        <5>4. QED
          BY <5>2, <5>3, <4>1 DEF CreditInv, Known
      <4>3. QED
        BY <4>1, <4>2, <3>k DEF CreditInv
    <3>5. CASE List
      <4>1. credit' = credit
        BY <3>5 DEF List
      <4>2. ASSUME NEW r \in report', NEW f \in r.files PROVE Known(r.package, f, r.version)
        <5>1. PICK n \in Nevras :
                r = [package |-> n.package, version |-> n.version,
                     files |-> {c.file : c \in {x \in credit : x.package = n.package
                                                              /\ x.version = n.version}}]
          BY <3>5 DEF List
        <5>2. PICK c \in credit : c.package = n.package /\ c.version = n.version /\ c.file = f
          BY <5>1
        <5>3. QED
          BY <5>1, <5>2 DEF CreditInv
      <4>3. QED
        BY <4>1, <4>2, <3>k DEF CreditInv
    <3>6. CASE QueryFails
      BY <3>6, <3>1 DEF QueryFails, Fails
    <3>7. CASE Export
      BY <3>7, <3>1, <2>3 DEF Export, Fails
    <3>8. CASE Start \/ Stanzas \/ BuildDatabase
      BY <3>8, <2>3 DEF Start, Stanzas, BuildDatabase
    <3>9. QED
      BY <2>4, <3>2, <3>3, <3>4, <3>5, <3>6, <3>7, <3>8 DEF Lookup
  <2>5. CASE Host \/ UNCHANGED vars
    BY <2>5, <2>3, HostKeepsLookup DEF lookupVars, vars
  <2>6. QED
    BY <2>4, <2>5 DEF Next
<1>3. CreditInv => CreditedOwned
  BY DEF CreditInv, CreditedOwned, Known
<1>4. QED
  BY <1>1, <1>2, <1>3, TypeCorrect, InvariantOfPlaces, PTL DEF Spec

--------------------------------------------------------------------------------
\* A call without an answer is one that nobody owned.
LEMMA SilenceIsSeen ==
  ASSUME PlaceInv, NEW s \in Spellings, Shipping(s) = {}
  PROVE  s \in unowned
BY AnswersAreHistory, ShippersOwn

\* A file is quiet only if nobody was credited with it.
LEMMA QuietMeansNone ==
  ASSUME NEW ps, NEW f, NEW v, NEW C, Credit(ps, f, v) \subseteq C, \A c \in C : c.file # f
  PROVE  ps = {}
<1>1. ASSUME NEW p \in ps PROVE FALSE
  <2>1. [package |-> p, file |-> f, version |-> v] \in Credit(ps, f, v)
    BY DEF Credit
  <2>2. QED
    BY <2>1
<1>2. QED
  BY <1>1

\* The report covers every credit at the end of a lookup.
Covered == \A c \in credit : \E r \in report : c.file \in r.files

\* At the end, what the silence of each manager means.
EndInv ==
  pc = "known" =>
    /\ Covered
    /\ \A f \in Files \ (IF manager = "dpkg" THEN Patterns ELSE {}) :
         Quiet(f) => SpellingsOf(f) \subseteq unowned

\* `UnownedWasSeen`: a file without a package had no owner, under any spelling that is this
\* file, when that spelling was asked about.
THEOREM UnownedFilesWereSeen == Spec => []UnownedWasSeen
<1> DEFINE Inv == SeenInv /\ EndInv
<1>1. Init => Inv
  BY DEF Init, SeenInv, EndInv
<1>2. TypeOK /\ PlaceInv /\ Inv /\ [Next]_vars => Inv'
  <2> SUFFICES ASSUME TypeOK, PlaceInv, Inv, [Next]_vars PROVE Inv'
    OBVIOUS
  <2>0. manager \in {"dpkg", "rpm"} /\ left \subseteq Files
    BY DEF TypeOK
  <2>1. CASE Host
    <3>1. unowned \subseteq unowned' /\ UNCHANGED lookupVars /\ pc # "known"
      BY <2>1, HostKeepsLookup DEF Ended
    <3>2. SeenInv'
      BY <3>1 DEF SeenInv, Quiet, lookupVars
    <3>3. QED
      BY <3>1, <3>2 DEF EndInv, lookupVars
  <2>2. CASE UNCHANGED vars
    BY <2>2 DEF vars, SeenInv, EndInv, Covered, Quiet, SpellingsOf
  <2>3. CASE Lookup
    <3>0. UNCHANGED <<unowned, manager>>
      BY <2>3, LookupKeepsHost DEF hostVars
    <3>1. CASE pc' \in {"start", "failed", "unknown", "search"} /\ (pc' = "start" => left' = Files)
      BY <3>1 DEF SeenInv, EndInv
    <3>f. Fails => Inv'
      BY <3>1 DEF Fails
    <3>2. CASE Start
      <4>1. credit' = credit /\ pc' \in {"search", "ask"} /\ left' = left /\ pc = "start"
        BY <3>2 DEF Start, Go
      <4>2. QED
        BY <3>1, <4>1, <3>0 DEF SeenInv, EndInv
    <3>3. CASE Search
      <4>1. ASSUME NEW f \in Files \ Patterns, Quiet(f)' PROVE <<f, "full">> \in unowned
        <5>1. Credit(Shipping(<<f, "full">>), f, 0) \subseteq credit'
          BY <3>3 DEF Search
        <5>2. Shipping(<<f, "full">>) = {}
          BY <5>1, <4>1, QuietMeansNone DEF Quiet
        <5>3. QED
          BY <5>2, SilenceIsSeen DEF Spellings
      <4>2. pc' = "again"
        BY <3>3 DEF Search, Go
      <4>3. QED
        BY <4>1, <4>2, <3>0 DEF SeenInv, EndInv
    <3>4. CASE SearchAgain
      <4>1. pc' = "convention" /\ pc = "again" /\ credit \subseteq credit'
        BY <3>4 DEF SearchAgain, Go
      <4>2. ASSUME NEW f, Quiet(f)' PROVE Quiet(f)
        BY <4>1, <4>2 DEF Quiet
      <4>3. ASSUME NEW f \in Merged \ Patterns, Quiet(f)' PROVE <<f, "short">> \in unowned
        <5>1. f \in Retried
          BY <4>2, <4>3 DEF Retried, Quiet
        <5>2. Credit(Shipping(<<f, "short">>), f, 0) \subseteq credit'
          BY <5>1, <3>4 DEF SearchAgain
        <5>3. Shipping(<<f, "short">>) = {}
          BY <5>2, <4>3, QuietMeansNone DEF Quiet
        <5>4. QED
          BY <5>3, SilenceIsSeen, OwnershipAssumption DEF Spellings
      <4>4. QED
        BY <4>1, <4>2, <4>3, <3>0 DEF SeenInv, EndInv
    <3>5. CASE AskConvention
      <4>1. pc' \in {"known", "show"} /\ pc = "convention" /\ credit \subseteq credit' /\ manager = "dpkg"
        BY <3>5 DEF AskConvention, Go, PlaceInv
      <4>2. ASSUME NEW f, Quiet(f)' PROVE Quiet(f)
        BY <4>1, <4>2 DEF Quiet
      <4>3. SeenInv'
        BY <4>1, <4>2, <3>0 DEF SeenInv
      <4>4. ASSUME pc' = "known" PROVE credit' = {}
        BY <3>5, <4>4 DEF AskConvention, Go
      <4>5. ASSUME NEW f \in Files \ Patterns, Quiet(f)' PROVE SpellingsOf(f) \subseteq unowned
        BY <4>1, <4>2, <4>5 DEF SeenInv, SpellingsOf
      <4>6. QED
        BY <4>1, <4>3, <4>4, <4>5, <3>0 DEF EndInv, Covered, SpellingsOf
    <3>6. CASE Show
      <4>1. pc' = "stanzas" /\ pc = "show" /\ credit' = credit /\ report' = {RowOf(p) : p \in Credited}
        BY <3>6 DEF Show, Go
      <4>2. ASSUME NEW c \in credit PROVE \E r \in report' : c.file \in r.files
        <5>1. c.package \in Credited
          BY DEF Credited
        <5>2. c.file \in RowOf(c.package).files
          BY DEF RowOf
        <5>3. QED
          BY <4>1, <5>1, <5>2
      <4>3. QED
        BY <4>1, <4>2, <3>0 DEF SeenInv, EndInv, Quiet
    <3>7. CASE Stanzas
      <4>1. pc' = "known" /\ pc = "stanzas" /\ UNCHANGED <<credit, report>> /\ manager = "dpkg"
        BY <3>7 DEF Stanzas, Go, PlaceInv
      <4>2. Covered'
        BY <4>1 DEF SeenInv, Covered
      <4>3. ASSUME NEW f \in Files \ Patterns, Quiet(f)' PROVE SpellingsOf(f)' \subseteq unowned'
        BY <4>1, <4>3, <3>0 DEF SeenInv, SpellingsOf, Quiet
      <4>4. QED
        BY <4>1, <4>2, <4>3, <3>0 DEF SeenInv, EndInv
    <3>8. CASE AskFile
      <4>1. pc' = "ask" /\ pc = "ask" /\ credit \subseteq credit' /\ manager = "rpm"
        BY <3>8 DEF AskFile, Go, PlaceInv
      <4>2. PICK f \in left :
              /\ credit' = credit \cup
                   UNION {Credit({p}, f, db[p].version) :
                            p \in {q \in Packages : Installed(q) /\ <<f, "full">> \in db[q].ships}}
              /\ left' = left \ {f}
        BY <3>8 DEF AskFile
      <4>3. ASSUME Quiet(f)' PROVE <<f, "full">> \in unowned
        <5>1. ASSUME NEW p \in Shipping(<<f, "full">>) PROVE FALSE
          <6>0. p \in Packages /\ db[p].status # "config-files"
            BY <4>1 DEF Shipping, PlaceInv
          <6>1. p \in {q \in Packages : Installed(q) /\ <<f, "full">> \in db[q].ships}
            BY <6>0 DEF Shipping, Lists, Installed
          <6>2. Credit({p}, f, db[p].version) \subseteq credit'
            BY <4>2, <6>1
          <6>3. \A c \in credit' : c.file # f
            BY <4>3 DEF Quiet
          <6>4. [package |-> p, file |-> f, version |-> db[p].version] \in Credit({p}, f, db[p].version)
            BY DEF Credit
          <6>5. QED
            BY <6>2, <6>3, <6>4
        <5>2. <<f, "full">> \in Spellings
          BY <2>0 DEF Spellings
        <5>3. QED
          BY <5>1, <5>2, SilenceIsSeen
      <4>4. ASSUME NEW g \in Files \ left', Quiet(g)' PROVE <<g, "full">> \in unowned
        <5>1. CASE g = f
          BY <5>1, <4>3, <4>4
        <5>2. CASE g # f
          BY <5>2, <4>1, <4>2, <4>4 DEF SeenInv, Quiet
        <5>3. QED
          BY <5>1, <5>2
      <4>5. QED
        BY <4>1, <4>4, <3>0 DEF SeenInv, EndInv
    <3>9. CASE AskBundle
      <4>1. /\ pc' \in {"known", "export", "list"} /\ pc = "ask" /\ credit \subseteq credit'
            /\ manager = "rpm" /\ left = {} /\ left' = left
        BY <3>9 DEF AskBundle, Go, PlaceInv
      <4>2. ASSUME NEW f \in Files, Quiet(f)' PROVE <<f, "full">> \in unowned
        BY <4>1, <4>2 DEF SeenInv, Quiet
      <4>3. ASSUME pc' = "known" PROVE credit' = {}
        BY <3>9, <4>3 DEF AskBundle, Go
      <4>4. QED
        BY <4>1, <4>2, <4>3, <3>0 DEF SeenInv, EndInv, Covered, SpellingsOf
    <3>10. CASE Export
      <4>1. CASE Fails
        BY <3>f, <4>1
      <4>2. CASE ~Fails
        <5>1. pc' = "list" /\ pc = "export" /\ UNCHANGED <<credit, left>>
          BY <3>10, <4>2 DEF Export, Go
        <5>2. QED
          BY <5>1, <3>0 DEF SeenInv, EndInv, Quiet
      <4>3. QED
        BY <4>1, <4>2
    <3>11. CASE List
      <4>1. pc' \in {"build", "known"} /\ pc = "list" /\ UNCHANGED <<credit, left>> /\ manager = "rpm"
        BY <3>11 DEF List, Go, PlaceInv
      <4>2. ASSUME NEW c \in credit PROVE \E r \in report' : c.file \in r.files
        <5>1. [package |-> c.package, version |-> c.version] \in Nevras
          BY DEF Nevras
        <5>2. PICK n \in Nevras : n.package = c.package /\ n.version = c.version
          BY <5>1
        <5>3. c.file \in {d.file : d \in {x \in credit : x.package = n.package /\ x.version = n.version}}
          BY <5>2
        <5>4. PICK r \in report' :
                r = [package |-> n.package, version |-> n.version,
                     files |-> {d.file : d \in {x \in credit : x.package = n.package
                                                              /\ x.version = n.version}}]
          BY <3>11 DEF List
        <5>5. r.files = {d.file : d \in {x \in credit : x.package = n.package
                                                          /\ x.version = n.version}}
          BY <5>4
        <5>6. QED
          BY <5>3, <5>5
      <4>3. ASSUME NEW f \in Files, Quiet(f)' PROVE SpellingsOf(f)' \subseteq unowned'
        BY <4>1, <4>3, <3>0 DEF SeenInv, SpellingsOf, Quiet
      <4>4. QED
        BY <4>1, <4>2, <4>3, <3>0 DEF SeenInv, EndInv, Covered, Quiet
    <3>12. CASE BuildDatabase
      <4>1. /\ pc' \in {"failed", "known"} /\ pc = "build" /\ UNCHANGED <<credit, report, left>>
            /\ manager = "rpm"
        BY <3>12 DEF BuildDatabase, PlaceInv
      <4>2. ASSUME NEW f \in Files, Quiet(f)' PROVE SpellingsOf(f)' \subseteq unowned'
        BY <4>1, <4>2, <3>0 DEF SeenInv, SpellingsOf, Quiet
      <4>3. QED
        BY <4>1, <4>2, <3>0 DEF SeenInv, EndInv, Covered
    <3>13. CASE QueryFails
      BY <3>13, <3>f DEF QueryFails
    <3>14. QED
      BY <2>3, <3>2, <3>3, <3>4, <3>5, <3>6, <3>7, <3>8, <3>9, <3>10, <3>11, <3>12, <3>13 DEF Lookup
  <2>4. QED
    BY <2>1, <2>2, <2>3 DEF Next
<1>3. EndInv => UnownedWasSeen
  BY DEF EndInv, UnownedWasSeen, Covered, Quiet
<1>4. QED
  BY <1>1, <1>2, <1>3, TypeCorrect, InvariantOfPlaces, PTL DEF Spec

--------------------------------------------------------------------------------
\* No two packages get one record file.
LEMMA RecordFilesDiffer ==
  ASSUME NEW p \in Credited, NEW q \in Credited, RecordFile(p) = RecordFile(q),
         p \in Packages, q \in Packages
  PROVE  p = q
<1>1. CASE FirstOfName(p) /\ FirstOfName(q)
  <2>1. NameOf[p] = NameOf[q]
    BY <1>1 DEF RecordFile
  <2>2. QED
    BY <1>1, <2>1 DEF FirstOfName
<1>2. CASE FirstOfName(p) /\ ~FirstOfName(q)
  BY <1>2, OwnershipAssumption DEF RecordFile
<1>3. CASE ~FirstOfName(p) /\ FirstOfName(q)
  BY <1>3, OwnershipAssumption DEF RecordFile
<1>4. CASE ~FirstOfName(p) /\ ~FirstOfName(q)
  BY <1>4 DEF RecordFile
<1>5. QED
  BY <1>1, <1>2, <1>3, <1>4

\* `RecordsMatchReport`: the records that an SBOM or an image is to carry name the packages of
\* the report, one file each; rpm's name the same versions.
THEOREM RecordsAreOfReport == Spec => []RecordsMatchReport
<1> DEFINE Inv == RecordInv /\ RecordsMatchReport
<1>1. Init => Inv
  BY DEF Init, RecordInv, RecordsMatchReport
<1>2. TypeOK /\ PlaceInv /\ Inv /\ [Next]_vars => Inv'
  <2> SUFFICES ASSUME TypeOK, PlaceInv, Inv, [Next]_vars PROVE Inv'
    OBVIOUS
  <2>1. CASE Host \/ UNCHANGED vars
    <3>1. UNCHANGED lookupVars
      BY <2>1, HostKeepsLookup DEF vars, lookupVars
    <3>2. QED
      BY <3>1 DEF lookupVars, RecordInv, RecordsMatchReport, Credited, Nevras
  <2>2. CASE Lookup
    <3>0. manager' = manager
      BY <2>2, LookupKeepsHost
    <3>1. Fails => Inv'
      BY DEF Fails, RecordInv, RecordsMatchReport
    <3>2. CASE Start \/ Search \/ SearchAgain \/ AskFile
      BY <3>2, <3>0 DEF Start, Search, SearchAgain, AskFile, Go, RecordInv, RecordsMatchReport
    <3>3. CASE AskConvention
      BY <3>3, <3>0 DEF AskConvention, Go, RecordInv, RecordsMatchReport, PlaceInv
    <3>4. CASE Show
      <4>1. {r.package : r \in report'} = Credited
        <5>1. report' = {RowOf(p) : p \in Credited}
          BY <3>4 DEF Show
        <5>2. \A p \in Credited : RowOf(p).package = p
          BY DEF RowOf
        <5>3. QED
          BY <5>1, <5>2
      <4>2. pc' = "stanzas" /\ credit' = credit
        BY <3>4 DEF Show, Go
      <4>3. QED
        BY <4>1, <4>2 DEF RecordInv, RecordsMatchReport, Credited
    <3>5. CASE Stanzas
      <4>1. pc' = "known" /\ report' = report /\ manager = "dpkg"
        BY <3>5 DEF Stanzas, Go, PlaceInv
      <4>2. records' = {[file |-> RecordFile(p), package |-> p, version |-> db[p].version] : p \in Credited}
        BY <3>5 DEF Stanzas, RecordInv
      <4>3. {r.package : r \in records'} = Credited
        <5> DEFINE Rec(p) == [file |-> RecordFile(p), package |-> p, version |-> db[p].version]
        <5>1. records' = {Rec(p) : p \in Credited}
          BY <4>2
        <5>2. \A p \in Credited : Rec(p).package = p
          OBVIOUS
        <5> HIDE DEF Rec
        <5>3. QED
          BY <5>1, <5>2
      <4>4. {r.package : r \in report} = Credited
        BY <3>5 DEF Stanzas, RecordInv
      <4>5. ASSUME NEW a \in records', NEW b \in records', a.file = b.file PROVE a = b
        <5>1. PICK p \in Credited : a = [file |-> RecordFile(p), package |-> p, version |-> db[p].version]
          BY <4>2
        <5>2. PICK q \in Credited : b = [file |-> RecordFile(q), package |-> q, version |-> db[q].version]
          BY <4>2
        <5>3. RecordFile(p) = RecordFile(q) /\ p \in Packages /\ q \in Packages
          BY <5>1, <5>2, <4>5 DEF Credited, TypeOK
        <5>4. p = q
          BY <5>3, RecordFilesDiffer
        <5>5. QED
          BY <5>1, <5>2, <5>4
      <4>6. QED
        BY <4>1, <4>3, <4>4, <4>5, <3>0 DEF RecordInv, RecordsMatchReport
    <3>6. CASE AskBundle
      <4>1. /\ pc' \in {"known", "export", "list"} /\ UNCHANGED <<report, records, ask>>
            /\ report = {} /\ records = {} /\ (pc' = "list" => ~ask.records)
        BY <3>6 DEF AskBundle, Go, RecordInv
      <4>2. QED
        BY <4>1 DEF RecordInv, RecordsMatchReport
    <3>7. CASE Export /\ ~Fails
      <4>1. PICK readable \in SUBSET HeadersNow :
              /\ AllFound(readable)
              /\ records' = {[file |-> n, package |-> n.package, version |-> n.version] :
                               n \in Nevras \cap readable}
        BY <3>7 DEF Export
      <4>2. Nevras \cap readable = Nevras
        BY <4>1 DEF AllFound
      <4>3. pc' = "list" /\ credit' = credit
        BY <3>7 DEF Export, Go
      <4>4. Nevras' = Nevras
        BY <4>3 DEF Nevras
      <4>5. QED
        BY <4>1, <4>2, <4>3, <4>4 DEF RecordInv, RecordsMatchReport
    <3>8. CASE List
      <4>1. pc = "list" /\ pc' = (IF ask.records THEN "build" ELSE "known")
            /\ UNCHANGED <<credit, records, ask>>
        BY <3>8 DEF List, Go
      <4>2. Nevras' = Nevras
        BY <4>1 DEF Nevras
      <4>3. /\ {<<r.package, r.version>> : r \in report'} = {<<n.package, n.version>> : n \in Nevras}
            /\ {r.package : r \in report'} = {n.package : n \in Nevras}
        <5> DEFINE Row(n) == [package |-> n.package, version |-> n.version,
                              files |-> {c.file : c \in {x \in credit : x.package = n.package
                                                                       /\ x.version = n.version}}]
        <5>1. report' = {Row(n) : n \in Nevras}
          BY <3>8 DEF List
        <5>2. \A n \in Nevras : Row(n).package = n.package /\ Row(n).version = n.version
          OBVIOUS
        <5> HIDE DEF Row
        <5>3. QED
          BY <5>1, <5>2
      <4>4. QED
        BY <4>1, <4>2, <4>3 DEF RecordInv, RecordsMatchReport
    <3>9. CASE BuildDatabase
      <4>1. pc = "build" /\ UNCHANGED <<credit, report>> /\ pc' \in {"failed", "known"}
        BY <3>9 DEF BuildDatabase
      <4>2. CASE pc' = "known" /\ ask'.records
        <5>1. ask' = ask /\ records' = records /\ shipped' # {}
          BY <3>9, <4>2 DEF BuildDatabase, TypeOK
        <5>2. records = {[file |-> n, package |-> n.package, version |-> n.version] : n \in Nevras}
          BY <4>1, <4>2, <5>1 DEF RecordInv
        <5>3. /\ {r.package : r \in records} = {n.package : n \in Nevras}
              /\ {<<r.package, r.version>> : r \in records} = {<<n.package, n.version>> : n \in Nevras}
              /\ \A a, b \in records : a.file = b.file => a = b
          <6> DEFINE Rec(n) == [file |-> n, package |-> n.package, version |-> n.version]
          <6>1. records = {Rec(n) : n \in Nevras}
            BY <5>2
          <6>2. \A n \in Nevras : /\ Rec(n).package = n.package /\ Rec(n).version = n.version
                                   /\ Rec(n).file = n
            OBVIOUS
          <6> HIDE DEF Rec
          <6>3. QED
            BY <6>1, <6>2
        <5>4. QED
          BY <4>1, <4>2, <5>1, <5>3 DEF RecordInv, RecordsMatchReport
      <4>3. CASE ~(pc' = "known" /\ ask'.records)
        BY <4>1, <4>3 DEF RecordInv, RecordsMatchReport
      <4>4. QED
        BY <4>2, <4>3
    <3>10. QED
      BY <2>2, <3>1, <3>2, <3>3, <3>4, <3>5, <3>6, <3>7, <3>8, <3>9 DEF Lookup, QueryFails
  <2>3. QED
    BY <2>1, <2>2 DEF Next
<1>3. QED
  BY <1>1, <1>2, TypeCorrect, InvariantOfPlaces, PTL DEF Spec

================================================================================
