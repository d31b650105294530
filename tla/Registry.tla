--------------------------------- MODULE Registry ---------------------------------
(***************************************************************************)
(* What scratchsmith does to a registry (src/src/registry.rs): the jobs of *)
(* a build matrix that each push the image of one platform                 *)
(* (`pack --push`), and the jobs that join pushed images into one          *)
(* multi-arch index (`index`), at the same time and over the same tags.    *)
(*                                                                         *)
(* A registry is external: manifests and blobs stored by digest, and tags  *)
(* that any push moves.  A digest stands for the bytes it is of, so an     *)
(* image is its own digest and an index is the list of its entries.        *)
(***************************************************************************)
EXTENDS Naturals, Sequences, Functions

CONSTANTS
  Jobs,        \* the processes
  Tasks,       \* what the jobs can be asked to do, and the machines they run on
  Repos, Tags,
  Images,      \* image manifests
  PlatformOf,  \* the platform the config of an image declares, or NoPlatform
  Bare,        \* an index without a mediaType, of another tool
  Initial,     \* what each reference names before the jobs start
  NoPlatform, None

\* What `docker_credential` can say of a registry, and what a trust store can be.
Credentials == {"password", "identity token",
                "none", "helper has none", "unreadable config",
                "broken"}
TrustStores == {"system",      \* usable
                "absent",      \* unusable, and the user chose none
                "bad choice"}  \* unusable, and SSL_CERT_FILE or SSL_CERT_DIR names it

Refs == Repos \X Tags
Platforms == {PlatformOf[i] : i \in Images} \ {NoPlatform}
Entry == [digest : Images, platform : Platforms]
Index == [entries : Seq(Entry)]
Manifest == Images \cup Index \cup {Bare}

TaskType == [kind : {"push", "index"}, to : Refs, image : Images, sources : Seq(Refs),
             sign : BOOLEAN, creds : SUBSET Credentials, stores : SUBSET TrustStores]

ASSUME RegistryAssumption ==
  /\ Tasks \subseteq [Jobs -> TaskType]
  /\ Initial \in [Refs -> Images \cup {Bare, None}]
  /\ Images \cap Index = {} /\ Bare \notin Images \cup Index
  /\ None \notin Manifest

VARIABLES
  task,      \* fixed by the input
  \* the registry
  tags,      \* reference -> the manifest it names, or None
  stored,    \* <<repository, manifest>>
  blobs,     \* <<repository, image>>: the config and the layer of the image are there
  \* the jobs
  pc,
  cred, store,       \* what a job found on its machine
  identity, roots,   \* how it acts on the registry: as whom, trusting whom
  reading,   \* the child manifest whose config is read next, or None
  children,  \* the entries gathered so far
  sent,      \* the manifest it pushed, or None
  reported,  \* the digest the registry answered with, or None
  signed,    \* <<repository, manifest, job>>
  named      \* history: what each reference named at some time since the job started

registryVars == <<tags, stored, blobs>>
loginVars == <<cred, store, identity, roots>>
jobVars == <<reading, children, sent, reported, signed>>
vars == <<task, tags, stored, blobs, pc, cred, store, identity, roots, reading, children, sent,
          reported, signed, named>>

Repo(j) == task[j].to[1]
Naming(t) == {<<r, t[r]>> : r \in {x \in Refs : t[x] # None}}

Init ==
  /\ task \in Tasks
  /\ tags = Initial
  /\ stored = {<<r[1], Initial[r]>> : r \in {x \in Refs : Initial[x] # None}}
  /\ blobs = {<<r[1], Initial[r]>> : r \in {x \in Refs : Initial[x] \in Images}}
  /\ pc = [j \in Jobs |-> "start"]
  /\ cred = [j \in Jobs |-> None] /\ store = [j \in Jobs |-> None]
  /\ identity = [j \in Jobs |-> None] /\ roots = [j \in Jobs |-> None]
  /\ reading = [j \in Jobs |-> None] /\ children = [j \in Jobs |-> <<>>]
  /\ sent = [j \in Jobs |-> None] /\ reported = [j \in Jobs |-> None]
  /\ signed = {}
  /\ named = [j \in Jobs |-> Naming(Initial)]

Goto(j, l) == pc' = [pc EXCEPT ![j] = l]

--------------------------------------------------------------------------------
\* Before the network.

\* Mutant: sources of any repository.
AnySources(j) == task[j].sources # <<>>

\* An index references its children by digest within one repository.
SourcesFit(j) == /\ task[j].sources # <<>>
                 /\ \A r \in Range(task[j].sources) : r[1] = Repo(j)

Start(j) ==
  /\ pc[j] = "start"
  /\ Goto(j, IF task[j].kind = "index" /\ ~SourcesFit(j) THEN "failed" ELSE "login")
  /\ UNCHANGED <<task, registryVars, loginVars, jobVars, named>>

\* `credential_or_anonymous`, `plan_credential`: whom the job acts as, or None if it must stop.
Plan(c) == CASE c = "password" -> "basic"
             [] c = "identity token" -> "bearer"
             [] c = "broken" -> None
             [] OTHER -> "anonymous"

\* `registry_clients`: whose roots the job trusts.
Roots(s) == CASE s = "system" -> "system"
              [] s = "absent" -> "bundled"
              [] OTHER -> None

\* The bundled roots need memfd and /proc, the identity token an exchange; a push also builds
\* its image before the exchange.  Each can fail.
LogIn(j) ==
  /\ pc[j] = "login"
  /\ \E c \in task[j].creds, s \in task[j].stores :
       /\ cred' = [cred EXCEPT ![j] = c] /\ store' = [store EXCEPT ![j] = s]
       /\ \/ /\ Plan(c) # None /\ Roots(s) # None
             /\ identity' = [identity EXCEPT ![j] = Plan(c)]
             /\ roots' = [roots EXCEPT ![j] = Roots(s)]
             /\ Goto(j, IF task[j].kind = "push" THEN "upload" ELSE "fetch")
          \/ /\ Goto(j, "failed")
             /\ UNCHANGED <<identity, roots>>
  /\ UNCHANGED <<task, registryVars, jobVars, named>>

--------------------------------------------------------------------------------
\* `push_to_registry` and the publishing half of `push_index`.

\* Blobs go up before the manifest (oci-client).
Upload(j) ==
  /\ pc[j] = "upload"
  /\ blobs' = blobs \cup {<<Repo(j), task[j].image>>}
  /\ Goto(j, "put")
  /\ UNCHANGED <<task, tags, stored, loginVars, jobVars, named>>

Product(j) == IF task[j].kind = "push" THEN task[j].image ELSE [entries |-> children[j]]

\* The registry stores the manifest and moves the tag, for every job to see.
Publish(j) ==
  /\ tags' = [tags EXCEPT ![task[j].to] = Product(j)]
  /\ stored' = stored \cup {<<Repo(j), Product(j)>>}
  /\ sent' = [sent EXCEPT ![j] = Product(j)]
  /\ named' = [i \in Jobs |-> IF pc[i] = "start" THEN Naming(tags')
                              ELSE named[i] \cup Naming(tags')]

\* Its answer names a digest, ours or another, or none.  An answer that is lost fails the job,
\* and the tag has moved all the same.
Put(j) ==
  /\ pc[j] = "put"
  /\ Publish(j)
  /\ \/ \E d \in {None, Product(j), Bare} :
          reported' = [reported EXCEPT ![j] = d] /\ Goto(j, "answered")
     \/ Goto(j, "failed") /\ UNCHANGED reported
  /\ UNCHANGED <<task, blobs, loginVars, reading, children, signed>>

\* Every network call can fail.
NetworkFails(j) ==
  /\ pc[j] \in {"upload", "put", "fetch", "config"}
  /\ Goto(j, "failed")
  /\ UNCHANGED <<task, registryVars, loginVars, jobVars, named>>

--------------------------------------------------------------------------------
\* `push_index`: read the children, one after another.

\* Mutant: the first source each time.
SourceFirst(j) == task[j].sources[1]
Source(j) == task[j].sources[Len(children[j]) + 1]

SourcesLeft(j) == Len(children[j]) < Len(task[j].sources)

\* `parse_child_manifest`: an index says so in its mediaType, or has no config.digest.
SingleImage(m) == m \in Images

FetchManifest(j) ==
  /\ pc[j] = "fetch" /\ SourcesLeft(j)
  /\ IF SingleImage(tags[Source(j)])
     THEN /\ reading' = [reading EXCEPT ![j] = tags[Source(j)]]
          /\ Goto(j, "config")
     ELSE Goto(j, "failed") /\ UNCHANGED reading
  /\ UNCHANGED <<task, registryVars, loginVars, children, sent, reported, signed, named>>

\* Mutant: the config of what the tag names now.
ConfigOfTag(j) == tags[Source(j)]
\* The config is pulled by the digest that the manifest names.
ConfigOf(j) == reading[j]

FetchConfig(j) ==
  /\ pc[j] = "config"
  /\ IF PlatformOf[ConfigOf(j)] # NoPlatform
     THEN /\ children' = [children EXCEPT ![j] =
               Append(@, [digest |-> reading[j], platform |-> PlatformOf[ConfigOf(j)]])]
          /\ Goto(j, "fetch")
     ELSE Goto(j, "failed") /\ UNCHANGED children
  /\ reading' = [reading EXCEPT ![j] = None]
  /\ UNCHANGED <<task, registryVars, loginVars, sent, reported, signed, named>>

\* `build_index` refuses two children of one platform.
Distinct(s) == \A k, l \in DOMAIN s : k # l => s[k].platform # s[l].platform

BuildIndex(j) ==
  /\ pc[j] = "fetch" /\ Len(children[j]) = Len(task[j].sources)
  /\ Goto(j, IF Distinct(children[j]) THEN "put" ELSE "failed")
  /\ UNCHANGED <<task, registryVars, loginVars, jobVars, named>>

--------------------------------------------------------------------------------
\* `digest_ref_from`, `PushedDigest::for_signing`, `index_report`.

\* Mutant: what the registry names.
SignReported(j) == reported[j] # None
\* A digest is signed when the registry named the very manifest that was pushed.
Confirmed(j) == reported[j] = sent[j]

\* cosign (external) signs by digest, whatever the tag names by now, or fails.
Sign(j) ==
  /\ pc[j] = "answered" /\ task[j].sign
  /\ \/ /\ Confirmed(j)
        /\ signed' = signed \cup {<<Repo(j), reported[j], j>>}
        /\ Goto(j, "done")
     \/ Goto(j, "failed") /\ UNCHANGED signed
  /\ UNCHANGED <<task, registryVars, loginVars, reading, children, sent, reported, named>>

\* The report; a digest that is not confirmed is left out of it, and one that differs is told.
Report(j) ==
  /\ pc[j] = "answered" /\ ~task[j].sign
  /\ Goto(j, "done")
  /\ UNCHANGED <<task, registryVars, loginVars, jobVars, named>>

Advance(j) ==
  \/ Start(j) \/ LogIn(j)
  \/ Upload(j) \/ Put(j)
  \/ FetchManifest(j) \/ FetchConfig(j) \/ BuildIndex(j)
  \/ Sign(j) \/ Report(j)

Next == \E j \in Jobs : Advance(j) \/ NetworkFails(j)

Spec == Init /\ [][Next]_vars

--------------------------------------------------------------------------------
\* Properties.

\* Every variable has its type.
TypeOK ==
  /\ task \in [Jobs -> TaskType]
  /\ tags \in [Refs -> Manifest \cup {None}]
  /\ stored \subseteq Repos \X Manifest
  /\ blobs \subseteq Repos \X Images
  /\ pc \in [Jobs -> {"start", "login", "upload", "put", "fetch", "config", "answered",
                      "done", "failed"}]
  /\ cred \in [Jobs -> Credentials \cup {None}]
  /\ store \in [Jobs -> TrustStores \cup {None}]
  /\ identity \in [Jobs -> {None, "basic", "bearer", "anonymous"}]
  /\ roots \in [Jobs -> {None, "system", "bundled"}]
  /\ reading \in [Jobs -> Images \cup {None}]
  /\ children \in [Jobs -> Seq(Entry)]
  /\ sent \in [Jobs -> Manifest \cup {None}]
  /\ reported \in [Jobs -> Manifest \cup {None}]
  /\ signed \subseteq Repos \X Manifest \X Jobs
  /\ named \in [Jobs -> SUBSET (Refs \X Manifest)]

\* The indexes a job has published.
Published == {j \in Jobs : task[j].kind = "index" /\ sent[j] # None}
EntriesOf(j) == Range(sent[j].entries)

\* The digest and the platform of an entry are of one and the same image, whoever moves the
\* source's tag while the child is read.
EntriesAgree ==
  \A j \in Published : \A e \in EntriesOf(j) : e.platform = PlatformOf[e.digest]

\* A client that pulls a published index finds every child, with its blobs, in the repository
\* it pulled the index from.
IndexResolves ==
  \A j \in Published : \A e \in EntriesOf(j) :
    <<Repo(j), e.digest>> \in stored \cap blobs

\* A client finds at most one image for its platform.
PlatformsUnique ==
  \A j \in Published : \A k, l \in DOMAIN sent[j].entries :
    sent[j].entries[k].platform = sent[j].entries[l].platform => k = l

\* Every entry is what its own source named at some time while the job ran: nothing stale from
\* before, and no two sources mixed up.
EntriesWereNamed ==
  \A j \in Published : \A k \in DOMAIN sent[j].entries :
    <<task[j].sources[k], sent[j].entries[k].digest>> \in named[j]

\* A signature is for a manifest that the signing job built and pushed itself, never for one
\* the registry or another push put in its place.
SignedIsOwn == \A s \in signed : s[2] = sent[s[3]] /\ <<s[1], s[2]>> \in stored

\* A client that pulls a published index finds one image for its platform at most, and finds it
\* whole in the repository it pulled the index from.
IndexIsUsable == IndexResolves /\ PlatformsUnique
================================================================================
