------------------------------- MODULE CommandLine -------------------------------
(***************************************************************************)
(* The command line (src/src/cli.rs, config.rs, main.rs): one invocation   *)
(* from the parse to the exit code.  A `pack` layers a config file, one of *)
(* its profiles and the flags, refuses what cannot be served, chooses the  *)
(* sink and packs once, or hands the pack to the watch loop of Watch.      *)
(* The other commands print a report, and some then fail on what it says.  *)
(***************************************************************************)
EXTENDS Watch

CONSTANT Invocations  \* the invocations to run: a set of records, see `InvocationType`

VARIABLES
  inv,     \* the invocation
  stage,   \* what is done next
  opts,    \* the layer in effect: the config, then with its profile, then with the flags
  blame,   \* the layer a refusal of a list entry names
  done,    \* what the run has done so far, as its user can see it
  exit     \* the exit code, or Running

Running == -1
commandVars == <<inv, stage, opts, blame, done, exit>>
cvars == <<vars, commandVars>>

Switches == {"smoke", "sign", "sbom", "scan", "strip", "upx", "ca_certs", "tz", "init"}
Keys == {"binary", "push", "label", "env", "add_file", "locale", "nss", "packages",
         "max_size", "scan_fail_on", "include", "deny", "require", "symlinks", "entrypoint",
         "cmd", "user", "workdir", "healthcheck", "runtime", "sbom_file", "sbom_format"}

\* A value of a key: the layer that holds it, and whether it is sound, unsound as text, a list
\* that says a thing twice, or ("late") unsound only to the stager, as is a locale name of a
\* wrong form.
Value == [from : {"cli", "config", "profile"}, is : {"fine", "bad", "twice", "late"}]

\* A layer is the set of its switches and a function from the keys it sets: an absent option
\* and an empty list are both a key not set.
LayerType(l) == DOMAIN l = {"on", "set"} /\ l.on \subseteq Switches /\ DOMAIN l.set \subseteq Keys
Nothing == [on |-> {}, set |-> <<>>]

InvocationType(i) ==
  /\ i.cmd \in {"pack", "lint", "doctor", "index", "graph", "diff", "unpack", "completions", "none"}
  /\ i.flags \subseteq {"no_build", "output", "oci_archive", "watch", "json", "completions",
                        "exit_code", "fail_on"}
  /\ LayerType(i.cli)
  /\ i.config \in {"absent", "unreadable", "good"} /\ LayerType(i.base)
  /\ \A p \in DOMAIN i.profiles : LayerType(i.profiles[p])
  /\ i.nested \subseteq DOMAIN i.profiles
  /\ i.config = "absent" => i.base = Nothing /\ i.profiles = <<>>
  /\ "none" \notin DOMAIN i.profiles
  \* The flags of one command are not another's.
  /\ i.cmd # "pack" => i.config = "absent"
  /\ "fail_on" \in i.flags => i.cmd = "lint"
  /\ "exit_code" \in i.flags => i.cmd = "diff"

ASSUME InvocationsAssumption == \A i \in Invocations : InvocationType(i)

Flag(f) == f \in inv.flags
Asks(layer, key) == key \in DOMAIN layer.set

--------------------------------------------------------------------------------
\* The layers.

\* Switches add up; a key of the upper layer replaces the lower one's.
Over(upper, lower) ==
  [key \in DOMAIN upper \cup DOMAIN lower |-> IF key \in DOMAIN upper THEN upper[key] ELSE lower[key]]
Layer(base, over) == [on |-> base.on \cup over.on, set |-> Over(over.set, base.set)]

\* The flags over the file, but for `--push`: it decides the sink and is no option.
Flags == [inv.cli EXCEPT !.set = [key \in DOMAIN @ \ {"push"} |-> @[key]]]

Selected == inv.profiles[inv.profile]

\* Where the entries of the label and env lists are said to come from, found before the layers
\* are merged.
ListFrom(key) ==
  IF Asks(inv.cli, key) \/ inv.config = "absent" THEN "cli"
  ELSE IF inv.profile \in DOMAIN inv.profiles /\ Asks(Selected, key) THEN "profile"
  ELSE "config"

\* Flags that each name a sink or a mode of their own, and exclude `--no-build`.
Excludes == {"oci_archive", "watch"}
SinkOnTheLine == inv.flags \cap Excludes # {} \/ Asks(inv.cli, "push")

\* What clap refuses: flags that exclude others; flags that require another, unless the one
\* required is itself excluded by a flag that is present; a pair that is none.
Misused ==
  \/ Flag("no_build") /\ (SinkOnTheLine \/ "smoke" \in inv.cli.on)
  \/ Asks(inv.cli, "push") /\ inv.flags \cap Excludes # {}
  \/ Flag("no_build") /\ ~Flag("output")
  \/ Flag("output") /\ ~Flag("no_build") /\ ~SinkOnTheLine /\ "smoke" \notin inv.cli.on
  \/ "sign" \in inv.cli.on /\ inv.cmd = "pack" /\ ~SinkOnTheLine /\ ~Flag("no_build")
  \/ inv.profile # "none" /\ inv.config = "absent"
  \/ \E key \in {"label", "env"} : Asks(inv.cli, key) /\ inv.cli.set[key].is = "bad"

\* A value the effective options cannot hold: a pair without `=`, a size without a number,
\* `none` beside another name; and a locale or an image path given twice.
Unsound(key) == Asks(opts, key) /\ opts.set[key].is = "bad"
Repeats(key) == Asks(opts, key) /\ opts.set[key].is = "twice"
OptionsChecked == {"add_file", "nss", "max_size", "packages"}
PairsChecked   == {"label", "env"}
RepeatsChecked == {"locale", "add_file"}

\* Mutant: the file's `push` is looked at before the flags.
SinkOfFile ==
  IF Asks(opts, "push") \/ Asks(inv.cli, "push") THEN "push"
  ELSE IF Flag("oci_archive") THEN "archive" ELSE IF Flag("no_build") THEN "rootfs" ELSE "load"
\* `push` of the file counts only where no flag names a sink.
Sink ==
  IF Asks(inv.cli, "push") THEN "push"
  ELSE IF Flag("oci_archive") THEN "archive"
  ELSE IF Flag("no_build") THEN "rootfs"
  ELSE IF Asks(opts, "push") THEN "push" ELSE "load"
Target == IF Asks(inv.cli, "push") THEN inv.cli.set["push"] ELSE opts.set["push"]

\* Mutant: only a pack that builds no image refuses a smoke run.
NoImageToRun(sink) == sink = "rootfs"
\* Only an image that was loaded can be run.
NothingToRun(sink) == sink # "load"

Scans == "scan" \in opts.on \/ Asks(opts, "scan_fail_on")
LateLocale == Asks(opts, "locale") /\ opts.set.locale.is = "late"

--------------------------------------------------------------------------------
\* The steps.  The watch loop holds still until the command line is through.

Still == UNCHANGED <<file, backup, changes, packed, last, gone, staged, delivered, failed, packs, notices>>

Go(next) == stage' = next /\ UNCHANGED <<pc, exit>>
\* `main`: success, a usage error, or any other error.
Exit(code) == stage' = "ended" /\ pc' = "ended" /\ exit' = code
Did(thing) == done' = done \cup {thing}

CommandInit ==
  /\ Init
  /\ inv \in Invocations
  /\ stage = "clap" /\ opts = Nothing /\ blame = "nobody" /\ done = {} /\ exit = Running

\* The parse, and `dispatch` on a command line without a command.
Clap ==
  /\ stage = "clap"
  /\ IF Misused THEN Exit(2) /\ UNCHANGED done
     ELSE IF Flag("completions") THEN
       IF inv.cmd = "none" THEN Exit(0) /\ Did("completions") ELSE Exit(2) /\ UNCHANGED done
     ELSE IF inv.cmd = "none" THEN Exit(2) /\ UNCHANGED done
     ELSE Go(IF inv.cmd = "pack" THEN "load" ELSE "work") /\ UNCHANGED done
  /\ Still /\ UNCHANGED <<inv, opts, blame>>

\* `Config::load`: a file that is missing, is no TOML or nests a profile is an error.
Load ==
  /\ stage = "load"
  /\ IF inv.config = "unreadable" \/ inv.nested # {}
       THEN Exit(1) /\ UNCHANGED opts
       ELSE Go("profile") /\ opts' = inv.base
  /\ Still /\ UNCHANGED <<inv, blame, done>>

SelectProfile ==
  /\ stage = "profile"
  /\ IF inv.profile = "none" THEN Go("options") /\ UNCHANGED opts
     ELSE IF inv.profile \in DOMAIN inv.profiles
       THEN Go("options") /\ opts' = Layer(opts, Selected)
       ELSE Exit(2) /\ UNCHANGED opts
  /\ Still /\ UNCHANGED <<inv, blame, done>>

\* The options of the pack, each parsed as it is merged; the sink is chosen of the file.
MergeFlags ==
  /\ stage = "options"
  /\ opts' = Layer(opts, Flags)
  /\ IF "binary" \in DOMAIN opts'.set THEN Go("check") ELSE Exit(2)
  /\ Still /\ UNCHANGED <<inv, blame, done>>

\* `usage`: a value that does not parse, then `require_pairs`, and then the duplicates.
Check ==
  /\ stage = "check"
  /\ IF \E key \in OptionsChecked : Unsound(key) THEN Exit(2) /\ UNCHANGED blame
     ELSE IF \E key \in PairsChecked : Unsound(key)
       THEN Exit(2) /\ \E key \in PairsChecked : Unsound(key) /\ blame' = ListFrom(key)
     ELSE IF \E key \in RepeatsChecked : Repeats(key) THEN Exit(2) /\ UNCHANGED blame
     ELSE Go("sink") /\ UNCHANGED blame
  /\ Still /\ UNCHANGED <<inv, opts, done>>

\* The refusals that need the sink, and the fork between one pack and the watch.
Start ==
  /\ stage = "sink"
  /\ IF Sink = "push" /\ Target.is = "bad" THEN Exit(2)
     ELSE IF "sign" \in opts.on /\ Sink # "push" THEN Exit(2)
     ELSE IF ~Flag("watch") THEN Go("pack")
     ELSE IF Sink = "push" \/ Flag("json") THEN Exit(2)
     ELSE Go("watch")
  /\ Still /\ UNCHANGED <<inv, opts, blame, done>>

--------------------------------------------------------------------------------
\* One pack.  Whatever else goes wrong in it is an error of the pack: `PackBreaks`.

PackBreaks ==
  /\ stage \in {"pack", "deliver", "smoke", "sign"}
  /\ Exit(1)
  /\ Still /\ UNCHANGED <<inv, opts, blame, done>>

\* Staging, the SBOM and the scan.  Only `--no-build` leaves its directory behind.
Stage ==
  /\ stage = "pack"
  /\ IF "smoke" \in opts.on /\ NothingToRun(Sink) THEN Exit(2) /\ UNCHANGED done
     ELSE /\ done' = done \cup (IF Sink = "rootfs" THEN {"directory"} ELSE {})
                         \cup (IF Scans /\ ~LateLocale THEN {"scanned"} ELSE {})
          /\ IF LateLocale THEN Exit(2) ELSE Go("deliver")
  /\ Still /\ UNCHANGED <<inv, opts, blame>>

\* The report is printed when everything is done.
Report == Exit(0)

Delivered == [load |-> "loaded", archive |-> "archived", push |-> "pushed", rootfs |-> "directory"]
Deliver ==
  /\ stage = "deliver"
  /\ done' = done \cup {Delivered[Sink]}
  /\ IF Sink = "load" /\ "smoke" \in opts.on THEN Go("smoke")
     ELSE IF Sink = "push" /\ "sign" \in opts.on THEN Go("sign")
     ELSE Report
  /\ Still /\ UNCHANGED <<inv, opts, blame>>

\* One run of the image under a timeout (external): the exit code of the container, of the
\* engine, or 124 of `timeout`; and whether the loader's message is on stderr.
Outcomes == [code : {0, 1, 124, 125, 126, 127}, says : BOOLEAN]

\* A program that starts and then fails, or that is still running, did start.
LoaderFailed(outcome) == outcome.code \in {126, 127} \/ outcome.says

Smoke ==
  /\ stage = "smoke"
  /\ \E outcome \in Outcomes :
       IF LoaderFailed(outcome) THEN Exit(1) /\ UNCHANGED done ELSE Did("smoked") /\ Report
  /\ Still /\ UNCHANGED <<inv, opts, blame>>
Sign ==
  /\ stage = "sign"
  /\ Did("signed") /\ Report
  /\ Still /\ UNCHANGED <<inv, opts, blame>>

--------------------------------------------------------------------------------
\* The watch: the loop of Watch, whose packs refuse what a single pack refuses.

RefusedAtOnce == "smoke" \in opts.on /\ NothingToRun(Sink)

\* A refusal does not depend on the binary, so it ends the first pack and with it the watch.
WatchRefused ==
  /\ (pc = "graph" /\ RefusedAtOnce) \/ (pc = "bytes" /\ LateLocale)
  /\ Exit(2)
  /\ Still

\* A first pack that fails ends the watch.
WatchBreaks ==
  /\ ~RefusedAtOnce
  /\ PackFails
  /\ IF pc' = "ended" THEN stage' = "ended" /\ exit' = 1 ELSE UNCHANGED <<stage, exit>>

WatchOn ==
  /\ TakeStamp \/ DeliverImage \/ Look \/ PollStable \/ PollAgain
     \/ (~RefusedAtOnce /\ ReadGraph) \/ (~LateLocale /\ CopyBytes)
  /\ UNCHANGED <<stage, exit>>

Watching ==
  /\ stage = "watch"
  /\ WatchRefused \/ WatchBreaks \/ WatchOn
  /\ done' = done \cup (IF delivered' = delivered THEN {} ELSE {Delivered[Sink]})
  /\ UNCHANGED <<inv, opts, blame>>

\* The file is looked at by nothing else here, so the build may as well wait for the watch.
BuildGoesOn == stage = "watch" /\ Build /\ UNCHANGED commandVars

--------------------------------------------------------------------------------
\* The other commands: the work, which may fail; the report; and the gates on what it says.

\* A report says "clean" or "found": a mitigation that is missing (`lint`), a library that does
\* not resolve (`graph`), a file that differs (`diff`).  `doctor` finds only what to print.
Gated == inv.cmd = "graph" \/ (inv.cmd = "lint" /\ Flag("fail_on")) \/ (inv.cmd = "diff" /\ Flag("exit_code"))

WorkFails ==
  /\ stage = "work" /\ inv.cmd # "doctor"
  /\ Exit(1)
  /\ Still /\ UNCHANGED <<inv, opts, blame, done>>

\* A target or a source that is no reference, or a source of another repository, is refused
\* before anything is read of the registry.
RefuseIndex ==
  /\ stage = "work" /\ inv.cmd = "index"
  /\ Exit(2)
  /\ Still /\ UNCHANGED <<inv, opts, blame, done>>

\* `index_report`: the index is pushed, and the report comes after the signature.
Index ==
  /\ stage = "work" /\ inv.cmd = "index"
  /\ done' = done \cup {"pushed"}
  /\ Go(IF "sign" \in inv.cli.on THEN "sign" ELSE "print")
  /\ Still /\ UNCHANGED <<inv, opts, blame>>

Tell ==
  /\ stage \in {"work", "print"} /\ ~(stage = "work" /\ inv.cmd = "index")
  /\ \E said \in {"clean", "found"} :
       /\ done' = done \cup {"report", said}
       /\ IF said = "found" /\ Gated THEN Exit(1) ELSE Exit(0)
  /\ Still /\ UNCHANGED <<inv, opts, blame>>

Dispatch ==
  \/ Clap \/ Load \/ SelectProfile \/ MergeFlags \/ Check \/ Start
  \/ PackBreaks \/ Stage \/ Deliver \/ Smoke \/ Sign
  \/ WorkFails \/ RefuseIndex \/ Index \/ Tell

CommandNext == Dispatch \/ Watching \/ BuildGoesOn

\* One thread: it goes on as long as it can.
CommandSpec ==
  CommandInit /\ [][CommandNext]_cvars /\ WF_cvars(Dispatch) /\ WF_cvars(Watching)

--------------------------------------------------------------------------------
\* Properties.

\* The layers a pack is asked through, from the bottom.
LayersOf(i) ==
  <<i.base, IF i.profile \in DOMAIN i.profiles THEN i.profiles[i.profile] ELSE Nothing, i.cli>>
AskedOn(i, switch) == \E n \in 1 .. 3 : switch \in LayersOf(i)[n].on
LocalSink(i) == i.flags \cap {"oci_archive", "no_build", "watch"} # {}

\* Success means that what was asked for was done, in whichever layer it was asked: the smoke
\* run, the signature, the scan, the sink that was named; and that no gate was open.  A directory
\* asked for by `--output` is there, unless another flag of the line names the sink or a smoke
\* run: clap then waives what `--output` requires, and no step reads it.
AskedIsServed ==
  exit = 0 =>
    /\ inv.cmd = "pack" =>
         /\ AskedOn(inv, "smoke") => "smoked" \in done
         /\ AskedOn(inv, "sign") => "signed" \in done
         /\ AskedOn(inv, "scan") => "scanned" \in done
         /\ "oci_archive" \in inv.flags => "archived" \in done
         /\ "no_build" \in inv.flags => "directory" \in done
         /\ "output" \in inv.flags => "directory" \in done \/ SinkOnTheLine \/ "smoke" \in inv.cli.on
         /\ "push" \in DOMAIN inv.cli.set => "pushed" \in done
         /\ "watch" \notin inv.flags
    /\ inv.cmd = "index" /\ AskedOn(inv, "sign") => "signed" \in done
    /\ "found" \in done => inv.cmd # "graph" /\ inv.flags \cap {"fail_on", "exit_code"} = {}

\* A pack that names a local sink, or watches, never reaches a registry, whatever the config
\* and its profiles say; and exit code 2, "called wrong", is never given once an image is out,
\* in one pack, in a watch or by `index`.
LocalStaysLocal ==
  /\ inv.cmd = "pack" /\ LocalSink(inv) => "pushed" \notin done
  /\ exit = 2 => done \cap {"loaded", "archived", "pushed", "signed"} = {}

\* The layer a refused list is blamed on is the layer whose list was in effect, the highest that
\* sets it: the source is named before the layers are merged, by rules of its own.
BlameIsRight ==
  blame # "nobody" =>
    \E key \in {"label", "env"} : \E n \in 1 .. 3 :
      /\ key \in DOMAIN LayersOf(inv)[n].set
      /\ \A above \in n + 1 .. 3 : key \notin DOMAIN LayersOf(inv)[above].set
      /\ LayersOf(inv)[n].set[key].is = "bad"
      /\ blame = <<"config", "profile", "cli">>[n]

\* What the command line is told is true: success means done, and a refusal names who asked.
VerdictIsTrue == AskedIsServed /\ BlameIsRight
==================================================================================
