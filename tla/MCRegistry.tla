-------------------------------- MODULE MCRegistry --------------------------------
(***************************************************************************)
(* A matrix of two pushes and two indexes over three tags of one           *)
(* repository, and three of another.  `pusher` moves the tag of a child    *)
(* that `joiner` reads; `other` joins sources that do not go together.     *)
(***************************************************************************)
EXTENDS Registry

CONSTANTS pusher, joiner, other,         \* jobs
          app, lib,                      \* repositories
          amd, arm, all,                 \* tags
          oldAmd, newV7, anArm, libAmd, unknown, \* images: newV7 is pushed to the tag of oldAmd
          bare

MCJobs   == {pusher, joiner, other}
MCImages == {oldAmd, newV7, anArm, libAmd, unknown}
MCPlatformOf == [i \in MCImages |->
  CASE i \in {oldAmd, libAmd} -> "amd64" [] i = anArm -> "arm64" [] i = newV7 -> "arm/v7"
    [] OTHER -> NoPlatform]

Asked(kind, to, image, sources, sign) ==
  [kind |-> kind, to |-> to, image |-> image, sources |-> sources, sign |-> sign,
   creds |-> {"none"}, stores |-> {"system"}]

\* `other` reads: a tag another index moves, a tag of another repository, one platform twice, an
\* index of another tool, an image whose config names no platform, and nothing.
Sources == {<<<<app, all>>>>, <<<<lib, amd>>>>, <<<<app, arm>>, <<app, amd>>, <<app, arm>>>>,
            <<<<lib, all>>>>, <<<<lib, arm>>>>, <<>>}

Doing(creds, stores, to, sources) == [j \in MCJobs |->
  CASE j = pusher -> [Asked("push", <<app, amd>>, newV7, <<>>, TRUE)
                        EXCEPT !.creds = creds, !.stores = stores]
    [] j = joiner -> Asked("index", <<app, all>>, anArm, <<<<app, amd>>, <<app, arm>>>>, TRUE)
    [] OTHER      -> Asked("index", to, anArm, sources, FALSE)]

\* Every login of the pusher, or every source of `other`.
MCTasks ==
  {Doing(Credentials, TrustStores, <<app, all>>, <<>>)} \cup
  {Doing({"none"}, {"system"}, <<repo, all>>, s) : repo \in {app, lib}, s \in Sources}

MCInitial == [r \in {app, lib} \X {amd, arm, all} |->
  CASE r = <<app, amd>> -> oldAmd
    [] r = <<app, arm>> -> anArm
    [] r = <<lib, amd>> -> libAmd
    [] r = <<lib, arm>> -> unknown
    [] r = <<lib, all>> -> bare
    [] OTHER -> None]
================================================================================
