------------------------------ MODULE RegistryProofs ------------------------------
(***************************************************************************)
(* What a client finds behind a published index, and behind a signature,   *)
(* for every number of jobs, tags and images and every answer of the       *)
(* registry.                                                               *)
(***************************************************************************)
EXTENDS Registry, TLAPS

\* Whatever image a tag names is there, with its blobs.
StoreInv == \A r \in Refs : tags[r] \in Images => <<r[1], tags[r]>> \in stored \cap blobs

\* A manifest that can be a child of what the job builds.
Child(j, i) == <<Repo(j), i>> \in stored \cap blobs

\* What a job holds at each of its steps.
JobInv(j) ==
  /\ pc[j] = "upload" => task[j].kind = "push"
  /\ pc[j] \in {"fetch", "config"} => task[j].kind = "index"
  /\ pc[j] \in {"login", "fetch", "config"} /\ task[j].kind = "index" => SourcesFit(j)
  /\ pc[j] = "config" => reading[j] \in Images /\ Child(j, reading[j])
  /\ \A k \in DOMAIN children[j] :
       /\ children[j][k].platform = PlatformOf[children[j][k].digest]
       /\ Child(j, children[j][k].digest)
  /\ pc[j] = "put" /\ task[j].kind = "index" => Distinct(children[j])
  /\ pc[j] = "put" /\ task[j].kind = "push" => <<Repo(j), task[j].image>> \in blobs
  /\ pc[j] = "answered" => sent[j] # None
  /\ sent[j] # None => /\ pc[j] \in {"answered", "done", "failed"}
                       /\ sent[j] = Product(j)
                       /\ <<Repo(j), sent[j]>> \in stored
                       /\ task[j].kind = "index" => Distinct(children[j])

JobsInv == \A j \in Jobs : JobInv(j)

--------------------------------------------------------------------------------
\* A login is used as one of three identities, or stops the job.
LEMMA PlanType == \A c : Plan(c) \in {None, "basic", "bearer", "anonymous"}
  BY Zenon DEF Plan

\* A usable store trusts the system's roots or the bundled ones.
LEMMA RootsType == \A s : Roots(s) \in {None, "system", "bundled"}
  BY Zenon DEF Roots

\* What a job sends is a manifest: of one image if it pushes, an index otherwise.
LEMMA ProductType ==
  ASSUME TypeOK, NEW j \in Jobs
  PROVE  /\ Product(j) \in Manifest
         /\ task[j].kind = "push" => Product(j) \in Images
         /\ task[j].kind = "index" => Product(j) \in Index /\ Product(j) \notin Images
<1>1. task[j] \in TaskType /\ children[j] \in Seq(Entry)
  BY DEF TypeOK
<1>2. CASE task[j].kind = "push"
  BY <1>1, <1>2 DEF Product, TaskType, Manifest
<1>3. CASE task[j].kind = "index"
  <2>1. Product(j) = [entries |-> children[j]]
    BY <1>3 DEF Product
  <2>2. Product(j) \in Index
    BY <2>1, <1>1 DEF Index
  <2>3. QED
    BY <2>2, <1>3, RegistryAssumption DEF Manifest
<1>4. QED
  BY <1>1, <1>2, <1>3 DEF TaskType

\* A job that is to read a config knows of which manifest, and an answer is to a manifest.
Holds ==
  \A j \in Jobs : /\ pc[j] = "config" => reading[j] \in Images
                  /\ pc[j] = "answered" => sent[j] \in Manifest

\* The type invariant, `TypeOK`.
THEOREM TypeCorrect == Spec => []TypeOK
<1>1. Init => TypeOK /\ Holds
  <2> SUFFICES ASSUME Init PROVE TypeOK /\ Holds
    OBVIOUS
  <2>1. task \in [Jobs -> TaskType]
    BY RegistryAssumption DEF Init
  <2>2. /\ tags \in [Refs -> Manifest \cup {None}]
        /\ stored \subseteq Repos \X Manifest
        /\ blobs \subseteq Repos \X Images
    BY RegistryAssumption DEF Init, Refs, Manifest
  <2>3. Naming(Initial) \in SUBSET (Refs \X Manifest)
    BY RegistryAssumption DEF Naming, Refs, Manifest
  <2>4. QED
    BY <2>1, <2>2, <2>3 DEF Init, TypeOK, Holds
<1>2. TypeOK /\ Holds /\ [Next]_vars => TypeOK' /\ Holds'
  <2> SUFFICES ASSUME TypeOK, Holds, [Next]_vars PROVE TypeOK' /\ Holds'
    OBVIOUS
  <2>1. ASSUME NEW j \in Jobs, Start(j) PROVE TypeOK' /\ Holds'
    BY <2>1 DEF TypeOK, Holds, Start, Goto, registryVars, loginVars, jobVars
  <2>2. ASSUME NEW j \in Jobs, LogIn(j) PROVE TypeOK' /\ Holds'
    <3> PICK c \in task[j].creds, s \in task[j].stores :
          /\ cred' = [cred EXCEPT ![j] = c] /\ store' = [store EXCEPT ![j] = s]
          /\ \/ /\ Plan(c) # None /\ Roots(s) # None
                /\ identity' = [identity EXCEPT ![j] = Plan(c)]
                /\ roots' = [roots EXCEPT ![j] = Roots(s)]
                /\ Goto(j, IF task[j].kind = "push" THEN "upload" ELSE "fetch")
             \/ /\ Goto(j, "failed")
                /\ UNCHANGED <<identity, roots>>
      BY <2>2 DEF LogIn
    <3>1. c \in Credentials /\ s \in TrustStores
      BY DEF TypeOK, TaskType
    <3>2. /\ identity' \in [Jobs -> {None, "basic", "bearer", "anonymous"}]
          /\ roots' \in [Jobs -> {None, "system", "bundled"}]
      <4>1. Plan(c) \in {None, "basic", "bearer", "anonymous"}
        BY PlanType
      <4>2. Roots(s) \in {None, "system", "bundled"}
        BY RootsType
      <4>3. QED
        BY <4>1, <4>2 DEF TypeOK
    <3>3. pc' \in [Jobs -> {"start", "login", "upload", "put", "fetch", "config", "answered",
                            "done", "failed"}]
      BY DEF TypeOK, Goto
    <3>4. Holds'
      BY <2>2 DEF TypeOK, Holds, LogIn, Goto, jobVars
    <3>5. cred' \in [Jobs -> Credentials \cup {None}] /\ store' \in [Jobs -> TrustStores \cup {None}]
      BY <3>1 DEF TypeOK
    <3>6. QED
      BY <2>2, <3>2, <3>3, <3>4, <3>5 DEF TypeOK, LogIn, registryVars, jobVars
  <2>3. ASSUME NEW j \in Jobs, Upload(j) PROVE TypeOK' /\ Holds'
    <3>1. <<Repo(j), task[j].image>> \in Repos \X Images
      BY DEF TypeOK, TaskType, Repo, Refs
    <3>2. QED
      BY <2>3, <3>1 DEF TypeOK, Holds, Upload, Goto, loginVars, jobVars
  <2>4. ASSUME NEW j \in Jobs, Put(j) PROVE TypeOK' /\ Holds'
    <3>1. Product(j) \in Manifest /\ Bare \in Manifest
      BY ProductType DEF Manifest
    <3>2. Repo(j) \in Repos /\ task[j].to \in Refs
      BY DEF TypeOK, TaskType, Repo, Refs
    <3>3. /\ tags' \in [Refs -> Manifest \cup {None}]
          /\ stored' \subseteq Repos \X Manifest
          /\ sent' \in [Jobs -> Manifest \cup {None}]
      BY <2>4, <3>1, <3>2 DEF TypeOK, Put, Publish
    <3>4. Naming(tags') \in SUBSET (Refs \X Manifest)
      BY <3>3 DEF Naming
    <3>5. named' \in [Jobs -> SUBSET (Refs \X Manifest)]
      BY <2>4, <3>4 DEF TypeOK, Put, Publish
    <3>6. /\ reported' \in [Jobs -> Manifest \cup {None}]
          /\ pc' \in [Jobs -> {"start", "login", "upload", "put", "fetch", "config", "answered",
                               "done", "failed"}]
      <4>1. CASE Goto(j, "failed") /\ UNCHANGED reported
        BY <4>1 DEF TypeOK, Goto
      <4>2. ASSUME NEW d \in {None, Product(j), Bare},
                   reported' = [reported EXCEPT ![j] = d], Goto(j, "answered")
            PROVE  /\ reported' \in [Jobs -> Manifest \cup {None}]
                   /\ pc' \in [Jobs -> {"start", "login", "upload", "put", "fetch", "config",
                                        "answered", "done", "failed"}]
        BY <3>1, <4>2 DEF TypeOK, Goto
      <4>3. QED
        BY <2>4, <4>1, <4>2 DEF Put
    <3>7. QED
      BY <2>4, <3>1, <3>3, <3>5, <3>6 DEF TypeOK, Holds, Put, Publish, Goto, loginVars
  <2>5. ASSUME NEW j \in Jobs, FetchManifest(j) PROVE TypeOK' /\ Holds'
    BY <2>5 DEF TypeOK, Holds, FetchManifest, SingleImage, Goto, registryVars, loginVars
  <2>6. ASSUME NEW j \in Jobs, FetchConfig(j) PROVE TypeOK' /\ Holds'
    <3>1. CASE PlatformOf[ConfigOf(j)] # NoPlatform
      <4> DEFINE e == [digest |-> reading[j], platform |-> PlatformOf[ConfigOf(j)]]
      <4>1. e \in Entry
        BY <2>6, <3>1 DEF FetchConfig, Holds, Entry, Platforms, ConfigOf
      <4>2. children' = [children EXCEPT ![j] = Append(children[j], e)]
        BY <2>6, <3>1 DEF FetchConfig, TypeOK
      <4> HIDE DEF e
      <4>3. children' \in [Jobs -> Seq(Entry)]
        BY <4>1, <4>2 DEF TypeOK
      <4>4. QED
        BY <2>6, <3>1, <4>3 DEF TypeOK, Holds, FetchConfig, Goto, registryVars, loginVars
    <3>2. CASE PlatformOf[ConfigOf(j)] = NoPlatform
      BY <2>6, <3>2 DEF TypeOK, Holds, FetchConfig, Goto, registryVars, loginVars
    <3>3. QED
      BY <3>1, <3>2
  <2>7. ASSUME NEW j \in Jobs, BuildIndex(j) \/ NetworkFails(j) PROVE TypeOK' /\ Holds'
    BY <2>7 DEF TypeOK, Holds, BuildIndex, NetworkFails, Goto, registryVars, loginVars, jobVars
  <2>8. ASSUME NEW j \in Jobs, Sign(j) PROVE TypeOK' /\ Holds'
    <3>1. Repo(j) \in Repos
      BY DEF TypeOK, TaskType, Repo, Refs
    <3>2. signed' \subseteq Repos \X Manifest \X Jobs
      BY <2>8, <3>1 DEF TypeOK, Holds, Sign, Confirmed
    <3>3. QED
      BY <2>8, <3>2 DEF TypeOK, Holds, Sign, Goto, registryVars, loginVars
  <2>9. ASSUME NEW j \in Jobs, Report(j) PROVE TypeOK' /\ Holds'
    BY <2>9 DEF TypeOK, Holds, Report, Goto, registryVars, loginVars, jobVars
  <2>10. CASE UNCHANGED vars
    BY <2>10 DEF TypeOK, Holds, vars, registryVars
  <2>11. QED
    BY <2>1, <2>2, <2>3, <2>4, <2>5, <2>6, <2>7, <2>8, <2>9, <2>10 DEF Next, Advance
<1>3. QED
  BY <1>1, <1>2, PTL DEF Spec

--------------------------------------------------------------------------------
\* What the registry holds stays, so a job that does not move keeps what it had.
LEMMA OthersKeep ==
  ASSUME NEW i \in Jobs, JobInv(i), task' = task, pc'[i] = pc[i], reading'[i] = reading[i],
         children'[i] = children[i], sent'[i] = sent[i], stored \subseteq stored',
         blobs \subseteq blobs'
  PROVE  JobInv(i)'
  BY DEF JobInv, Child, Repo, Product, SourcesFit, Distinct

\* No step of a job takes anything from the registry, or moves another job.
LEMMA StepsGrow ==
  ASSUME TypeOK, NEW j \in Jobs, Advance(j) \/ NetworkFails(j)
  PROVE  /\ task' = task /\ stored \subseteq stored' /\ blobs \subseteq blobs'
         /\ \A i \in Jobs \ {j} : /\ pc'[i] = pc[i] /\ reading'[i] = reading[i]
                                  /\ children'[i] = children[i] /\ sent'[i] = sent[i]
<1>1. CASE Start(j) \/ LogIn(j) \/ Upload(j)
  BY <1>1 DEF TypeOK, Start, LogIn, Upload, Goto, registryVars, jobVars
<1>2. CASE Put(j)
  BY <1>2 DEF TypeOK, Put, Publish, Goto
<1>3. CASE FetchManifest(j) \/ FetchConfig(j)
  BY <1>3 DEF TypeOK, FetchManifest, FetchConfig, Goto, registryVars
<1>4. CASE BuildIndex(j) \/ NetworkFails(j) \/ Sign(j) \/ Report(j)
  BY <1>4 DEF TypeOK, BuildIndex, NetworkFails, Sign, Report, Goto, registryVars, jobVars
<1>5. QED
  BY <1>1, <1>2, <1>3, <1>4 DEF Advance

\* Each step of a job leaves it holding what it says.
LEMMA StepsHold ==
  ASSUME TypeOK, TypeOK', StoreInv, NEW j \in Jobs, JobInv(j), Advance(j) \/ NetworkFails(j)
  PROVE  JobInv(j)'
<1> USE DEF Child, Repo, Product
<1>k. task[j].kind \in {"push", "index"} /\ task'= task
  BY StepsGrow DEF TypeOK, TaskType
<1>1. CASE Start(j)
  BY <1>1, <1>k DEF TypeOK, Start, Goto, registryVars, jobVars, JobInv, SourcesFit, Distinct
<1>2. CASE LogIn(j)
  BY <1>2, <1>k DEF TypeOK, LogIn, Goto, registryVars, jobVars, JobInv, SourcesFit, Distinct
<1>3. CASE Upload(j)
  BY <1>3, <1>k DEF TypeOK, Upload, Goto, jobVars, JobInv, SourcesFit, Distinct
<1>4. CASE Put(j)
  <2>1. /\ pc'[j] \in {"answered", "failed"} /\ pc[j] = "put"
        /\ sent'[j] = Product(j) /\ sent'[j] # None /\ <<Repo(j), sent'[j]>> \in stored'
        /\ children' = children /\ blobs' = blobs /\ stored \subseteq stored'
    BY <1>4, ProductType, RegistryAssumption DEF TypeOK, Put, Publish, Goto
  <2>2. QED
    BY <1>k, <2>1 DEF JobInv, Distinct
<1>5. CASE FetchManifest(j)
  <2>1. /\ children' = children /\ sent' = sent /\ stored' = stored /\ blobs' = blobs
        /\ pc[j] = "fetch" /\ pc'[j] \in {"config", "failed"}
    BY <1>5 DEF TypeOK, FetchManifest, Goto, registryVars
  <2>2. pc'[j] = "config" => reading'[j] \in Images /\ Child(j, reading'[j])
    <3> SUFFICES ASSUME pc'[j] = "config" PROVE reading'[j] \in Images /\ Child(j, reading'[j])
      OBVIOUS
    <3>1. reading'[j] = tags[Source(j)] /\ tags[Source(j)] \in Images
      BY <1>5 DEF TypeOK, FetchManifest, SingleImage, Goto
    <3>2. Source(j) \in Refs /\ Source(j) \in Range(task[j].sources)
      <4>1. task[j].sources \in Seq(Refs) /\ children[j] \in Seq(Entry)
        BY DEF TypeOK, TaskType
      <4>2. Len(children[j]) + 1 \in 1 .. Len(task[j].sources)
        BY <1>5, <4>1 DEF FetchManifest, SourcesLeft
      <4>3. QED
        BY <4>1, <4>2 DEF Source, Range
    <3>3. Source(j)[1] = Repo(j)
      BY <1>k, <2>1, <3>2 DEF JobInv, SourcesFit
    <3>4. QED
      BY <3>1, <3>2, <3>3 DEF StoreInv
  <2>3. QED
    BY <1>k, <2>1, <2>2 DEF JobInv, SourcesFit, Distinct
<1>6. CASE FetchConfig(j)
  <2>1. /\ pc[j] = "config" /\ pc'[j] \in {"fetch", "failed"}
        /\ sent' = sent /\ stored' = stored /\ blobs' = blobs
    BY <1>6 DEF TypeOK, FetchConfig, Goto, registryVars
  <2>2. reading[j] \in Images /\ Child(j, reading[j]) /\ sent[j] = None
    BY <2>1 DEF JobInv
  <2>3. \A k \in DOMAIN children'[j] :
          /\ children'[j][k].platform = PlatformOf[children'[j][k].digest]
          /\ <<Repo(j), children'[j][k].digest>> \in stored \cap blobs
    <3>1. CASE children' = children
      BY <3>1 DEF JobInv
    <3>2. CASE PlatformOf[ConfigOf(j)] # NoPlatform
      <4> DEFINE e == [digest |-> reading[j], platform |-> PlatformOf[ConfigOf(j)]]
      <4>1. e.digest = reading[j] /\ e.platform = PlatformOf[reading[j]]
        BY DEF ConfigOf
      <4>2. children'[j] = Append(children[j], e)
        BY <1>6, <3>2 DEF FetchConfig, TypeOK
      <4> HIDE DEF e
      <4>3. children[j] \in Seq(Entry)
        BY DEF TypeOK
      <4>4. ASSUME NEW k \in DOMAIN children'[j]
            PROVE  children'[j][k] = e \/ (k \in DOMAIN children[j] /\ children'[j][k] = children[j][k])
        BY <4>2, <4>3
      <4>5. QED
        BY <2>2, <4>1, <4>4 DEF JobInv
    <3>3. QED
      BY <1>6, <3>1, <3>2 DEF FetchConfig
  <2>4. QED
    BY <1>k, <2>1, <2>2, <2>3 DEF JobInv, SourcesFit
<1>7. CASE BuildIndex(j)
  BY <1>7, <1>k DEF TypeOK, BuildIndex, Goto, registryVars, jobVars, JobInv, SourcesFit, Distinct
<1>8. CASE NetworkFails(j) \/ Sign(j) \/ Report(j)
  <2>1. /\ children' = children /\ sent' = sent /\ stored' = stored /\ blobs' = blobs
        /\ pc'[j] \in {"failed", "done"}
        /\ pc[j] \in {"upload", "put", "fetch", "config", "answered"}
    BY <1>8 DEF TypeOK, NetworkFails, Sign, Report, Goto, registryVars, jobVars
  <2>2. QED
    BY <1>k, <2>1 DEF JobInv, SourcesFit, Distinct
<1>9. QED
  BY <1>1, <1>2, <1>3, <1>4, <1>5, <1>6, <1>7, <1>8 DEF Advance

\* The registry and the jobs agree, at every step.
THEOREM JobsAgree == Spec => [](StoreInv /\ JobsInv /\ SignedIsOwn)
<1>1. Init => StoreInv /\ JobsInv /\ SignedIsOwn
  <2> SUFFICES ASSUME Init PROVE StoreInv /\ JobsInv /\ SignedIsOwn
    OBVIOUS
  <2>1. StoreInv /\ SignedIsOwn
    BY RegistryAssumption DEF Init, StoreInv, SignedIsOwn, Manifest
  <2>2. ASSUME NEW j \in Jobs PROVE JobInv(j)
    BY DEF Init, JobInv
  <2>3. QED
    BY <2>1, <2>2 DEF JobsInv
<1>2. /\ TypeOK /\ TypeOK' /\ StoreInv /\ JobsInv /\ SignedIsOwn
      /\ [Next]_vars
      => StoreInv' /\ JobsInv' /\ SignedIsOwn'
  <2> SUFFICES ASSUME TypeOK, TypeOK', StoreInv, JobsInv, SignedIsOwn, [Next]_vars
               PROVE  StoreInv' /\ JobsInv' /\ SignedIsOwn'
    OBVIOUS
  <2>1. CASE UNCHANGED vars
    <3>1. ASSUME NEW i \in Jobs PROVE JobInv(i)'
      BY <2>1, OthersKeep DEF JobsInv, vars
    <3>2. QED
      BY <2>1, <3>1 DEF vars, StoreInv, JobsInv, SignedIsOwn
  <2>2. ASSUME NEW j \in Jobs, Advance(j) \/ NetworkFails(j)
        PROVE  StoreInv' /\ JobsInv' /\ SignedIsOwn'
    <3>1. JobsInv'
      <4>1. JobInv(j)'
        BY <2>2, StepsHold DEF JobsInv
      <4>2. ASSUME NEW i \in Jobs \ {j} PROVE JobInv(i)'
        BY <2>2, StepsGrow, OthersKeep DEF JobsInv
      <4>3. QED
        BY <4>1, <4>2 DEF JobsInv
    <3>2. StoreInv'
      <4>1. CASE Put(j)
        <5>1. /\ tags' = [tags EXCEPT ![task[j].to] = Product(j)]
              /\ <<Repo(j), Product(j)>> \in stored' /\ blobs' = blobs /\ stored \subseteq stored'
          BY <4>1 DEF Put, Publish
        <5>2. Product(j) \in Images => <<Repo(j), Product(j)>> \in blobs
          BY <4>1, ProductType DEF JobsInv, JobInv, Put, Product, TypeOK, TaskType
        <5>3. ASSUME NEW r \in Refs, tags'[r] \in Images
              PROVE  <<r[1], tags'[r]>> \in stored' \cap blobs'
          BY <5>1, <5>2, <5>3 DEF StoreInv, TypeOK, Repo
        <5>4. QED
          BY <5>3 DEF StoreInv
      <4>2. CASE ~Put(j)
        <5>1. tags' = tags
          BY <2>2, <4>2 DEF Advance, Start, LogIn, Upload, FetchManifest, FetchConfig, BuildIndex,
                            NetworkFails, Sign, Report, registryVars
        <5>2. stored \subseteq stored' /\ blobs \subseteq blobs'
          BY <2>2, StepsGrow
        <5>3. QED
          BY <5>1, <5>2 DEF StoreInv
      <4>3. QED
        BY <4>1, <4>2
    <3>3. SignedIsOwn'
      <4>1. stored \subseteq stored'
        BY <2>2, StepsGrow
      <4>2. CASE Sign(j)
        <5>1. sent' = sent /\ signed' \subseteq signed \cup {<<Repo(j), reported[j], j>>}
          BY <4>2 DEF Sign
        <5>2. CASE signed' # signed
          <6>1. reported[j] = sent[j] /\ sent[j] # None
            BY <4>2, <5>2 DEF Sign, Confirmed, JobsInv, JobInv
          <6>2. <<Repo(j), sent[j]>> \in stored
            BY <6>1 DEF JobsInv, JobInv
          <6>3. ASSUME NEW x \in signed'
                PROVE  x[2] = sent'[x[3]] /\ <<x[1], x[2]>> \in stored'
            <7>1. CASE x \in signed
              BY <4>1, <5>1, <7>1 DEF SignedIsOwn
            <7>2. CASE x = <<Repo(j), reported[j], j>>
              BY <4>1, <5>1, <6>1, <6>2, <7>2
            <7>3. QED
              BY <5>1, <7>1, <7>2
          <6>4. QED
            BY <6>3 DEF SignedIsOwn
        <5>3. QED
          BY <4>1, <5>1, <5>2 DEF SignedIsOwn
      <4>3. CASE ~Sign(j)
        <5>1. signed' = signed
          BY <2>2, <4>3 DEF Advance, Start, LogIn, Upload, Put, FetchManifest, FetchConfig,
                            BuildIndex, NetworkFails, Report, jobVars
        <5>2. ASSUME NEW x \in signed PROVE sent'[x[3]] = sent[x[3]]
          <6>1. x[3] \in Jobs /\ sent[x[3]] # None
            <7>1. x[2] \in Manifest /\ x[3] \in Jobs
              BY DEF TypeOK
            <7>2. x[2] = sent[x[3]]
              BY DEF SignedIsOwn
            <7>3. QED
              BY <7>1, <7>2, RegistryAssumption
          <6>2. CASE x[3] = j
            <7>1. pc[j] # "put"
              BY <6>1, <6>2 DEF JobsInv, JobInv
            <7>2. QED
              BY <2>2, <6>2, <7>1 DEF Advance, Start, LogIn, Upload, Put, FetchManifest,
                 FetchConfig, BuildIndex, Sign, NetworkFails, Report, jobVars
          <6>3. CASE x[3] # j
            BY <2>2, <6>1, <6>3, StepsGrow
          <6>4. QED
            BY <6>2, <6>3
        <5>3. QED
          BY <4>1, <5>1, <5>2 DEF SignedIsOwn
      <4>4. QED
        BY <4>2, <4>3
    <3>4. QED
      BY <3>1, <3>2, <3>3
  <2>3. QED
    BY <2>1, <2>2 DEF Next
<1>3. QED
  BY <1>1, <1>2, TypeCorrect, PTL DEF Spec

\* A published index holds the children its job gathered.
LEMMA PublishedEntries ==
  ASSUME JobsInv, NEW j \in Published
  PROVE  j \in Jobs /\ sent[j].entries = children[j] /\ Distinct(children[j])
<1>1. j \in Jobs /\ task[j].kind = "index" /\ sent[j] # None
  BY DEF Published
<1>2. sent[j] = Product(j) /\ Distinct(children[j])
  BY <1>1 DEF JobsInv, JobInv
<1>3. Product(j) = [entries |-> children[j]]
  BY <1>1 DEF Product
<1>4. QED
  BY <1>1, <1>2, <1>3

\* Whoever moves a tag while its image is read, the digest and the platform of every entry of a
\* published index are of one image.
THEOREM EntriesOfOneImage == Spec => []EntriesAgree
<1>1. JobsInv => EntriesAgree
  <2> SUFFICES ASSUME JobsInv, NEW j \in Published, NEW e \in EntriesOf(j)
               PROVE  e.platform = PlatformOf[e.digest]
    BY DEF EntriesAgree
  <2>1. j \in Jobs /\ e \in Range(children[j])
    BY PublishedEntries DEF EntriesOf
  <2>2. PICK k \in DOMAIN children[j] : e = children[j][k]
    BY <2>1 DEF Range
  <2>3. QED
    BY <2>1, <2>2 DEF JobsInv, JobInv
<1>2. QED
  BY <1>1, JobsAgree, PTL

\* Every entry of a published index resolves, blobs included, in the repository of the index.
THEOREM IndexesResolve == Spec => []IndexResolves
<1>1. JobsInv => IndexResolves
  <2> SUFFICES ASSUME JobsInv, NEW j \in Published, NEW e \in EntriesOf(j)
               PROVE  Child(j, e.digest)
    BY DEF IndexResolves, Child
  <2>1. j \in Jobs /\ e \in Range(children[j])
    BY PublishedEntries DEF EntriesOf
  <2>2. PICK k \in DOMAIN children[j] : e = children[j][k]
    BY <2>1 DEF Range
  <2>3. QED
    BY <2>1, <2>2 DEF JobsInv, JobInv
<1>2. QED
  BY <1>1, JobsAgree, PTL

\* A published index has one entry per platform.
THEOREM OnePerPlatform == Spec => []PlatformsUnique
<1>1. JobsInv => PlatformsUnique
  BY PublishedEntries DEF PlatformsUnique, Distinct
<1>2. QED
  BY <1>1, JobsAgree, PTL

\* Whatever is pushed meanwhile, a client can use what an index names.
THEOREM IndexesAreUsable == Spec => []IndexIsUsable
BY IndexesResolve, OnePerPlatform, PTL DEF IndexIsUsable

\* A signature is for a manifest its job pushed itself, and that the repository holds.
THEOREM SignaturesAreOwn == Spec => []SignedIsOwn
  BY JobsAgree, PTL

--------------------------------------------------------------------------------
\* What a job read, its own source named at some time since the job started.
WasNamed(j) ==
  /\ Naming(tags) \subseteq named[j]
  /\ pc[j] = "start" => children[j] = <<>>
  /\ pc[j] = "config" => <<Source(j), reading[j]>> \in named[j]
  /\ \A k \in DOMAIN children[j] : <<task[j].sources[k], children[j][k].digest>> \in named[j]

AllNamed == \A j \in Jobs : WasNamed(j)

\* Until a job starts nothing is kept of what was named, and it has read nothing.
LEMMA NamesGrow ==
  ASSUME TypeOK, NEW j \in Jobs, Advance(j) \/ NetworkFails(j), NEW i \in Jobs, WasNamed(i)
  PROVE  /\ Naming(tags') \subseteq named'[i]
         /\ pc[i] # "start" => named[i] \subseteq named'[i]
<1>1. CASE Put(j)
  BY <1>1 DEF Put, Publish, TypeOK
<1>2. CASE ~Put(j)
  <2>1. tags' = tags /\ named' = named
    BY <1>2 DEF Advance, Start, LogIn, Upload, FetchManifest, FetchConfig, BuildIndex,
                NetworkFails, Sign, Report, registryVars
  <2>2. QED
    BY <2>1 DEF WasNamed, Naming
<1>3. QED
  BY <1>1, <1>2

\* Every entry of a published index is what its own source named while its job ran.
THEOREM EntriesAreCurrent == Spec => []EntriesWereNamed
<1>1. Init => AllNamed
  BY DEF Init, AllNamed, WasNamed, Naming
<1>2. TypeOK /\ AllNamed /\ [Next]_vars => AllNamed'
  <2> SUFFICES ASSUME TypeOK, AllNamed, [Next]_vars, NEW i \in Jobs
               PROVE  WasNamed(i)'
    BY DEF AllNamed
  <2> USE DEF AllNamed
  <2>1. CASE UNCHANGED vars
    BY <2>1 DEF vars, WasNamed, Naming, Source
  <2>2. ASSUME NEW j \in Jobs, Advance(j) \/ NetworkFails(j) PROVE WasNamed(i)'
    <3>1. /\ Naming(tags') \subseteq named'[i]
          /\ pc[i] # "start" => named[i] \subseteq named'[i]
      BY <2>2, NamesGrow
    <3>2. task' = task
      BY <2>2, StepsGrow
    <3>3. CASE pc'[i] = pc[i] /\ children'[i] = children[i] /\ reading'[i] = reading[i]
      BY <3>1, <3>2, <3>3 DEF WasNamed, Naming, Source
    <3>4. CASE i = j /\ FetchManifest(j)
      <4>1. children' = children /\ pc[j] = "fetch" /\ pc'[j] # "start"
        BY <3>4 DEF FetchManifest, Goto, TypeOK
      <4>2. pc'[j] = "config" => <<Source(j), reading'[j]>> \in Naming(tags)
        <5> SUFFICES ASSUME pc'[j] = "config" PROVE <<Source(j), reading'[j]>> \in Naming(tags)
          OBVIOUS
        <5>1. reading'[j] = tags[Source(j)] /\ tags[Source(j)] \in Images
          BY <3>4 DEF TypeOK, FetchManifest, SingleImage, Goto
        <5>2. task[j].sources \in Seq(Refs) /\ children[j] \in Seq(Entry)
          BY DEF TypeOK, TaskType
        <5>3. Len(children[j]) + 1 \in 1 .. Len(task[j].sources)
          BY <3>4, <5>2 DEF FetchManifest, SourcesLeft
        <5>4. Source(j) \in Refs
          BY <5>2, <5>3 DEF Source
        <5>5. QED
          BY <5>1, <5>4, RegistryAssumption DEF Naming, Manifest
      <4>3. pc'[j] = "config" => <<Source(j)', reading'[j]>> \in named'[j]
        BY <3>1, <3>2, <3>4, <4>1, <4>2 DEF WasNamed, Source
      <4>4. QED
        BY <3>1, <3>2, <3>4, <4>1, <4>3 DEF WasNamed, Naming
    <3>5. CASE i = j /\ FetchConfig(j)
      <4>1. pc[j] = "config" /\ pc'[j] \in {"fetch", "failed"}
        BY <3>5 DEF FetchConfig, Goto, TypeOK
      <4>2. named[j] \subseteq named'[j] /\ <<Source(j), reading[j]>> \in named[j]
        BY <3>1, <3>5, <4>1 DEF WasNamed
      <4>3. children[j] \in Seq(Entry)
        BY DEF TypeOK
      <4>4. ASSUME NEW k \in DOMAIN children'[j]
            PROVE  <<task[j].sources[k], children'[j][k].digest>> \in named'[j]
        <5>1. CASE children' = children
          BY <3>5, <4>2, <5>1 DEF WasNamed
        <5>2. CASE PlatformOf[ConfigOf(j)] # NoPlatform
          <6> DEFINE e == [digest |-> reading[j], platform |-> PlatformOf[ConfigOf(j)]]
          <6>1. e.digest = reading[j]
            OBVIOUS
          <6>2. children'[j] = Append(children[j], e)
            BY <3>5, <5>2 DEF FetchConfig, TypeOK
          <6> HIDE DEF e
          <6>3. \/ k = Len(children[j]) + 1 /\ children'[j][k] = e
                \/ k \in DOMAIN children[j] /\ children'[j][k] = children[j][k]
            BY <4>3, <6>2
          <6>4. QED
            BY <3>5, <4>2, <6>1, <6>3 DEF WasNamed, Source
        <5>3. QED
          BY <3>5, <5>1, <5>2 DEF FetchConfig
      <4>5. QED
        BY <3>1, <3>2, <3>5, <4>1, <4>4 DEF WasNamed, Naming
    <3>6. CASE i = j /\ ~FetchManifest(j) /\ ~FetchConfig(j)
      <4>1. /\ children' = children /\ reading' = reading /\ pc'[j] \notin {"start", "config"}
        BY <2>2, <3>6 DEF Advance, Start, LogIn, Upload, Put, BuildIndex, NetworkFails, Sign,
                          Report, Goto, jobVars, TypeOK
      <4>2. children[j] = <<>> \/ named[j] \subseteq named'[j]
        BY <3>1, <3>6 DEF WasNamed
      <4>3. \A k \in DOMAIN children[j] : <<task[j].sources[k], children[j][k].digest>> \in named'[j]
        <5>1. CASE children[j] = <<>>
          <6>1. DOMAIN children[j] = {}
            BY <5>1
          <6>2. QED
            BY <6>1
        <5>2. CASE named[j] \subseteq named'[j]
          BY <3>6, <5>2 DEF WasNamed
        <5>3. QED
          BY <4>2, <5>1, <5>2
      <4>4. QED
        BY <3>1, <3>2, <3>6, <4>1, <4>3 DEF WasNamed, Naming
    <3>7. QED
      BY <2>2, <3>3, <3>4, <3>5, <3>6, StepsGrow
  <2>3. QED
    BY <2>1, <2>2 DEF Next
<1>3. JobsInv /\ AllNamed => EntriesWereNamed
  BY PublishedEntries DEF AllNamed, WasNamed, EntriesWereNamed
<1>4. QED
  BY <1>1, <1>2, <1>3, TypeCorrect, JobsAgree, PTL DEF Spec

================================================================================
