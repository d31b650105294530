----------------------------- MODULE MCPackPipeline -----------------------------
(***************************************************************************)
(* PackPipeline with one path of each kind, and the options a user may     *)
(* combine.                                                                *)
(***************************************************************************)
EXTENDS PackPipeline

CONSTANTS bin, lib, nss, conf, tini, zone, status, osrel, var, user

MCLibs       == {lib}
MCModules    == {nss}
MCConf       == {conf}
MCExtra      == {tini}
MCRecords    == {status}
MCRecordDirs == {var}
MCElsewhere  == {user}

Defaults == {[report |-> r, sbom |-> TRUE, image |-> FALSE, explicit |-> FALSE] : r \in BOOLEAN}
Named    == [report : BOOLEAN, sbom : BOOLEAN, image : BOOLEAN, explicit : {TRUE}]

Base == [sink |-> "docker", smoke |-> FALSE, sign |-> FALSE, sbom |-> FALSE, scan |-> "off",
         packages |-> [report |-> TRUE, sbom |-> TRUE, image |-> FALSE, explicit |-> FALSE],
         max |-> 99, deny |-> {}, require |-> {}, add |-> {}, extras |-> FALSE, locale |-> FALSE]

File(p) == [at |-> p, as |-> "file"]
Link(p) == [at |-> p, as |-> "link"]
Skip(p) == [at |-> p, as |-> "skip"]

\* Every selection of --packages with its readers, and added files of every outcome: beside
\* the records, in their place, at os-release, on the way to them, and over a library.
PackageOptions ==
  {[Base EXCEPT !.sink = s, !.sbom = b, !.scan = c, !.packages = p, !.add = a] :
     s \in {"rootfs", "docker"}, b \in BOOLEAN, c \in {"off", "report", "negligible", "high"}, p \in Defaults \cup Named,
     a \in {{}, {File(user)}, {Skip(user)}, {Link(user), File(osrel)}, {File(status)},
            {File(osrel)}, {Link(var)}, {File(lib)}}}

\* The sinks, the gates and the signature.
SinkOptions ==
  {[Base EXCEPT !.sink = s, !.smoke = m, !.sign = g, !.sbom = b, !.packages = p, !.max = x,
                !.deny = d, !.require = q, !.extras = e, !.locale = e] :
     s \in {"rootfs", "docker", "archive", "push"}, m \in BOOLEAN, g \in BOOLEAN, b \in BOOLEAN,
     p \in {[report |-> TRUE, sbom |-> FALSE, image |-> i, explicit |-> TRUE] : i \in BOOLEAN},
     x \in {5, 99}, d \in {{}, {nss}, {user}}, q \in {{}, {lib}, {nss}}, e \in BOOLEAN}

\* Nothing, findings below a threshold, at it and above it, and some that have no rank.
MCScans == {{}, {""}, {"low"}, {"high", ""}, {"critical", "low"}}

MCOptions == PackageOptions \cup SinkOptions
==================================================================================
