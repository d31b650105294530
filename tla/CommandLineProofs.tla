---------------------------- MODULE CommandLineProofs ----------------------------
(***************************************************************************)
(* For every set of invocations, and every behaviour of the build: a pack  *)
(* that names a local sink or watches reaches no registry, and exit code 2 *)
(* is given only while nothing has left the machine's staging directory;   *)
(* success means that what was asked for was done, and a refused list is   *)
(* blamed on the layer that holds it.  A watch packs and prints no more    *)
(* often than the binary changes.                                          *)
(***************************************************************************)
EXTENDS CommandLine, TLAPS

Out == {"loaded", "archived", "pushed", "signed"}
OnePack == {"pack", "deliver", "smoke", "sign"}
BeforeOut == {"clap", "load", "profile", "options", "check", "sink", "pack", "deliver", "work"}

\* What the parse has refused does not come back.
ParseHolds == stage \notin {"clap", "ended"} => ~Misused
\* A pack, its watch and the other commands keep to their own steps.
PacksPack ==
  /\ inv.cmd = "pack" => stage \notin {"work", "print"}
  /\ inv.cmd = "pack" /\ stage \in OnePack => ~Flag("watch")
\* Nothing is out before the delivery.
OutLate == stage \in BeforeOut => done \cap Out = {}
StagesOK ==
  stage \in BeforeOut \cup OnePack \cup {"watch", "print", "ended"}
Settled == (exit # Running => stage = "ended") /\ (exit = 2 => done \cap Out = {})
NoPush == inv.cmd = "pack" /\ LocalSink(inv) => "pushed" \notin done

\* The loop stands still before the watch; a watch has a local sink, and a pack of it that will
\* be refused has not come to its delivery, nor has one before it.
WatchShows ==
  /\ stage \notin {"watch", "ended"} => pc = "stamp"
  /\ stage = "watch" =>
       /\ Sink # "push"
       /\ pc = "bytes" => ~RefusedAtOnce
       /\ pc = "deliver" => ~RefusedAtOnce /\ ~LateLocale
       /\ RefusedAtOnce \/ LateLocale => done \cap Out = {}

CommandInv == ParseHolds /\ PacksPack /\ OutLate /\ StagesOK /\ Settled /\ NoPush /\ WatchShows

\* Where a local sink is named, the sink is local: the flags are asked before the file.
LEMMA LocalSinkIsLocal ==
  ASSUME ~Misused, LocalSink(inv), ~Flag("watch")
  PROVE  Sink \in {"archive", "rootfs"}
  BY DEF Misused, SinkOnTheLine, Excludes, LocalSink, Flag, Sink

\* What is asked of a sink does not change while the invocation and the options do not.
LEMMA SinkStands ==
  ASSUME UNCHANGED <<inv, opts>>
  PROVE  Sink' = Sink /\ (RefusedAtOnce' <=> RefusedAtOnce) /\ (LateLocale' <=> LateLocale)
  BY DEF Sink, Asks, Flag, RefusedAtOnce, NothingToRun, LateLocale

\* The sinks there are.
LEMMA SinkNames ==
  /\ Sink \in {"load", "archive", "push", "rootfs"}
  /\ Sink # "push" => Delivered[Sink] # "pushed"
  /\ Delivered[Sink] # "found"
  BY DEF Sink, Delivered

\* A step that neither begins a watch nor is one leaves the loop where it is, or ends it.
LEMMA LoopStands ==
  ASSUME CommandInv, stage \notin {"watch", "ended"}, stage' # "watch", pc' = pc \/ stage' = "ended"
  PROVE  WatchShows'
  BY DEF CommandInv, WatchShows

\* The invariant holds when the process starts.
LEMMA CommandInvInit == CommandInit => CommandInv
  BY DEF CommandInit, CommandInv, ParseHolds, PacksPack, OutLate, StagesOK, Settled, NoPush,
         WatchShows, BeforeOut, OnePack, Out, Running, Init

\* A step that does nothing visible, or ends the process with an error, keeps the invariant.
LEMMA QuietStep ==
  ASSUME CommandInv, UNCHANGED <<inv, done>>, stage # "ended",
         stage' \in BeforeOut \cup OnePack \cup {"watch", "print", "ended"}, WatchShows',
         stage = "clap" /\ stage' # "ended" => ~Misused,
         inv.cmd = "pack" => stage' \notin {"work", "print"},
         inv.cmd = "pack" /\ stage' \in OnePack => ~Flag("watch"),
         stage' \in BeforeOut => stage \in BeforeOut,
         exit' = exit \/ (stage' = "ended" /\ (exit' = 2 => stage \in BeforeOut \/ done \cap Out = {}))
  PROVE  CommandInv'
  <1>1. Misused' = Misused BY DEF Misused, SinkOnTheLine, Flag, Asks
  <1>2. Flag("watch")' = Flag("watch") BY DEF Flag
  <1>3. exit = Running BY DEF CommandInv, Settled
  <1>4. ParseHolds' BY <1>1 DEF CommandInv, ParseHolds, StagesOK
  <1>5. PacksPack' BY <1>2 DEF PacksPack
  <1>6. OutLate' BY DEF CommandInv, OutLate
  <1>7. StagesOK' BY DEF StagesOK
  <1>8. Settled' BY <1>3 DEF CommandInv, Settled, OutLate, Running
  <1>9. NoPush' BY DEF CommandInv, NoPush
  <1> QED BY <1>4, <1>5, <1>6, <1>7, <1>8, <1>9 DEF CommandInv

\* Every step of the dispatch that shows nothing to the outside.
LEMMA QuietDispatch ==
  ASSUME CommandInv,
         Load \/ SelectProfile \/ MergeFlags \/ Check \/ Start \/ PackBreaks \/ WorkFails
         \/ RefuseIndex
  PROVE  CommandInv'
  <1> USE DEF Go, Exit, BeforeOut, OnePack, CommandInv, StagesOK, PacksPack
  <1>1. CASE Load BY <1>1, LoopStands, QuietStep DEF Load
  <1>2. CASE SelectProfile BY <1>2, LoopStands, QuietStep DEF SelectProfile
  <1>3. CASE MergeFlags BY <1>3, LoopStands, QuietStep DEF MergeFlags
  <1>4. CASE Check BY <1>4, LoopStands, QuietStep DEF Check
  <1>5. CASE Start
    <2>1. stage = "sink" /\ UNCHANGED <<inv, opts, done>> BY <1>5 DEF Start
    <2>2. CASE stage' = "watch"
      <3>1. pc' = "stamp" /\ Sink # "push" BY <1>5, <2>1, <2>2 DEF Start, WatchShows
      <3>3. WatchShows' BY <2>1, <2>2, <3>1, SinkStands DEF WatchShows, OutLate
      <3> QED BY <1>5, <2>1, <2>2, <3>3, QuietStep DEF Start
    <2>3. CASE stage' # "watch"
      <3>1. WatchShows' BY <1>5, <2>1, <2>3, LoopStands DEF Start
      <3> QED BY <1>5, <3>1, <2>3, QuietStep DEF Start
    <2> QED BY <2>2, <2>3
  <1>6. CASE PackBreaks BY <1>6, LoopStands, QuietStep DEF PackBreaks
  <1>7. CASE WorkFails \/ RefuseIndex BY <1>7, LoopStands, QuietStep DEF WorkFails, RefuseIndex
  <1> QED BY <1>1, <1>2, <1>3, <1>4, <1>5, <1>6, <1>7

\* A step that does something: the invariant asks only what was done.
LEMMA VisibleStep ==
  ASSUME CommandInv, UNCHANGED inv, stage # "ended",
         NEW things, done' = done \cup things,
         stage' \in OnePack \cup {"load", "work", "print", "watch", "ended"}, WatchShows',
         stage = "clap" => stage' = "ended" \/ ~Misused,
         inv.cmd = "pack" => stage' \notin {"work", "print"},
         inv.cmd = "pack" /\ stage' \in OnePack => ~Flag("watch"),
         stage' \in BeforeOut => stage \in BeforeOut /\ things \cap Out = {},
         exit' = exit \/ (stage' = "ended" /\ exit' \in {0, 1})
                      \/ (stage' = "ended" /\ stage \in BeforeOut /\ things \cap Out = {}),
         "pushed" \in things => ~(inv.cmd = "pack" /\ LocalSink(inv))
  PROVE  CommandInv'
  <1>1. Misused' = Misused BY DEF Misused, SinkOnTheLine, Flag, Asks
  <1>2. Flag("watch")' = Flag("watch") BY DEF Flag
  <1>3. exit = Running BY DEF CommandInv, Settled
  <1>4. ParseHolds' BY <1>1 DEF CommandInv, ParseHolds
  <1>5. PacksPack' BY <1>2 DEF PacksPack
  <1>6. OutLate' BY DEF CommandInv, OutLate
  <1>7. StagesOK' BY DEF StagesOK, BeforeOut, OnePack
  <1>8. Settled' BY <1>3 DEF CommandInv, Settled, OutLate, Running
  <1>9. NoPush' BY DEF CommandInv, NoPush
  <1> QED BY <1>4, <1>5, <1>6, <1>7, <1>8, <1>9 DEF CommandInv

\* The parse.
LEMMA ClapStep == ASSUME CommandInv, Clap PROVE CommandInv'
  <1> USE DEF Go, Exit, BeforeOut, OnePack, Out, Did
  <1>0. stage = "clap" /\ UNCHANGED inv BY DEF Clap
  <1>w. WatchShows' BY <1>0, LoopStands DEF Clap
  <1>1. CASE UNCHANGED done
    BY <1>0, <1>w, <1>1, QuietStep DEF Clap
  <1>2. CASE done' = done \cup {"completions"}
    <2>1. CASE stage' = "ended" /\ exit' = 0
      BY <1>0, <1>w, <1>2, <2>1, VisibleStep
    <2>2. CASE ~(stage' = "ended" /\ exit' = 0)
      BY <1>0, <2>2, <1>1 DEF Clap
    <2> QED BY <2>1, <2>2
  <1> QED BY <1>1, <1>2 DEF Clap

\* Staging leaves only the directory and the scan behind.
LEMMA StageStep == ASSUME CommandInv, Stage PROVE CommandInv'
  <1> USE DEF Go, Exit, BeforeOut, OnePack, Out
  <1>0. stage = "pack" /\ UNCHANGED inv BY DEF Stage
  <1>w. WatchShows' BY <1>0, LoopStands DEF Stage
  <1>1. CASE UNCHANGED done
    BY <1>0, <1>w, <1>1, QuietStep DEF Stage, CommandInv, PacksPack
  <1>2. CASE \E things \in SUBSET {"directory", "scanned"} : done' = done \cup things
    <2> PICK things \in SUBSET {"directory", "scanned"} : done' = done \cup things BY <1>2
    <2>1. things \cap Out = {} /\ "pushed" \notin things OBVIOUS
    <2>2. (stage' = "deliver" /\ exit' = exit) \/ stage' = "ended" BY DEF Stage
    <2>3. inv.cmd = "pack" => ~Flag("watch") BY <1>0 DEF CommandInv, PacksPack
    <2> QED BY <1>0, <1>w, <2>1, <2>2, <2>3, VisibleStep
  <1>3. ~UNCHANGED done => \E things \in SUBSET {"directory", "scanned"} : done' = done \cup things
    <2> DEFINE things == (IF Sink = "rootfs" THEN {"directory"} ELSE {})
                           \cup (IF Scans /\ ~LateLocale THEN {"scanned"} ELSE {})
    <2>1. ~UNCHANGED done => done' = done \cup things BY DEF Stage
    <2>2. things \in SUBSET {"directory", "scanned"} OBVIOUS
    <2> QED BY <2>1, <2>2
  <1> QED BY <1>1, <1>2, <1>3

\* The delivery: a sink that is named is the sink.
LEMMA DeliverStep == ASSUME CommandInv, Deliver PROVE CommandInv'
  <1> USE DEF Go, Exit, Report, BeforeOut, OnePack
  <1>0. stage = "deliver" /\ UNCHANGED inv BY DEF Deliver
  <1>w. WatchShows' BY <1>0, LoopStands DEF Deliver
  <1>1. Sink \in {"load", "archive", "push", "rootfs"} BY SinkNames
  <1>2. inv.cmd = "pack" => ~Flag("watch") BY <1>0 DEF CommandInv, PacksPack
  <1>3. ~Misused BY <1>0 DEF CommandInv, ParseHolds
  <1>4. inv.cmd = "pack" /\ LocalSink(inv) => Delivered[Sink] # "pushed"
    BY <1>1, <1>2, <1>3, LocalSinkIsLocal DEF Delivered
  <1>5. done' = done \cup {Delivered[Sink]} BY DEF Deliver
  <1>6. (stage' \in {"smoke", "sign"} /\ exit' = exit) \/ (stage' = "ended" /\ exit' = 0)
    BY DEF Deliver
  <1> QED BY <1>0, <1>w, <1>2, <1>4, <1>5, <1>6, VisibleStep

\* What comes after the delivery, and the commands that are no pack.
LEMMA LaterSteps == ASSUME CommandInv, Smoke \/ Sign \/ Index \/ Tell PROVE CommandInv'
  <1> USE DEF Go, Exit, Report, BeforeOut, OnePack, Did
  <1>w. WatchShows' BY LoopStands DEF Smoke, Sign, Index, Tell
  <1>1. CASE Smoke
    <2>0. stage = "smoke" /\ UNCHANGED inv BY <1>1 DEF Smoke
    <2>1. CASE done' = done \cup {"smoked"} /\ stage' = "ended" /\ exit' = 0
      BY <1>w, <2>0, <2>1, VisibleStep
    <2>2. CASE UNCHANGED done /\ stage' = "ended" /\ exit' = 1
      BY <1>w, <2>0, <2>2, QuietStep
    <2> QED BY <1>1, <2>1, <2>2 DEF Smoke
  <1>2. CASE Sign BY <1>w, <1>2, VisibleStep DEF Sign
  <1>3. CASE Index
    BY <1>w, <1>3, VisibleStep DEF Index, CommandInv, PacksPack
  <1>4. CASE Tell
    <2>1. PICK said \in {"clean", "found"} :
            done' = done \cup {"report", said} /\ stage' = "ended" /\ exit' \in {0, 1}
      BY <1>4 DEF Tell
    <2>2. stage # "ended" /\ stage # "clap" /\ UNCHANGED inv BY <1>4 DEF Tell
    <2> QED BY <1>w, <2>1, <2>2, VisibleStep
  <1> QED BY <1>1, <1>2, <1>3, <1>4

\* A watch delivers what its sink is named for, and only a pack that nothing refuses does.
LEMMA WatchStep == ASSUME CommandInv, Watching PROVE CommandInv'
  <1> USE DEF BeforeOut, OnePack
  <1>1. stage = "watch" /\ UNCHANGED <<inv, opts>> BY DEF Watching
  <1>2. Sink' = Sink /\ (RefusedAtOnce' <=> RefusedAtOnce) /\ (LateLocale' <=> LateLocale)
    BY <1>1, SinkStands
  <1>3. CASE WatchRefused
    <2>1. stage' = "ended" /\ exit' = 2 /\ UNCHANGED done
      BY <1>3 DEF WatchRefused, Watching, Exit, Still
    <2>2. done \cap Out = {} BY <1>1, <1>3 DEF WatchRefused, CommandInv, WatchShows
    <2>3. WatchShows' BY <2>1 DEF WatchShows
    <2> QED BY <1>1, <2>1, <2>2, <2>3, QuietStep
  <1>4. CASE WatchBreaks \/ WatchOn
    <2>1. (stage' = "ended" /\ exit' = 1) \/ (stage' = "watch" /\ exit' = exit)
      BY <1>1, <1>4 DEF WatchBreaks, WatchOn
    <2>2. UNCHANGED delivered \/ pc = "deliver"
      BY <1>4 DEF WatchBreaks, WatchOn, PackFails, TakeStamp, DeliverImage, Look, PollStable,
         PollAgain, ReadGraph, CopyBytes
    <2>3. /\ pc' = "bytes" => ~RefusedAtOnce
          /\ pc' = "deliver" => ~RefusedAtOnce /\ ~LateLocale
      BY <1>1, <1>4 DEF WatchBreaks, WatchOn, PackFails, TakeStamp, DeliverImage, Look, PollStable,
         PollAgain, ReadGraph, CopyBytes, CommandInv, WatchShows
    <2>4. PICK things \in {{}, {Delivered[Sink]}} :
            done' = done \cup things /\ (things # {} => pc = "deliver")
      BY <2>2 DEF Watching
    <2>5. "pushed" \notin things BY <1>1, SinkNames DEF CommandInv, WatchShows
    <2>6. things # {} => ~RefusedAtOnce /\ ~LateLocale
      BY <1>1, <2>4 DEF CommandInv, WatchShows
    <2>7. WatchShows'
      BY <1>1, <1>2, <2>1, <2>3, <2>4, <2>6 DEF CommandInv, WatchShows
    <2> QED BY <1>1, <2>1, <2>4, <2>5, <2>7, VisibleStep
  <1> QED BY <1>3, <1>4 DEF Watching

\* The invariant is kept by every step.
LEMMA CommandInvStep == CommandInv /\ [CommandNext]_cvars => CommandInv'
  <1> SUFFICES ASSUME CommandInv, [CommandNext]_cvars PROVE CommandInv' OBVIOUS
  <1>1. CASE Dispatch
    BY <1>1, QuietDispatch, ClapStep, StageStep, DeliverStep, LaterSteps DEF Dispatch
  <1>2. CASE Watching BY <1>2, WatchStep
  <1>3. CASE UNCHANGED commandVars /\ UNCHANGED pc
    <2>1. WatchShows' BY <1>3, SinkStands DEF commandVars, CommandInv, WatchShows
    <2> QED
      BY <1>3, <2>1 DEF commandVars, CommandInv, ParseHolds, PacksPack, OutLate, StagesOK, Settled,
         NoPush, Misused, SinkOnTheLine, Flag, Asks
  <1>4. BuildGoesOn \/ UNCHANGED cvars => UNCHANGED commandVars /\ UNCHANGED pc
    BY DEF BuildGoesOn, cvars, vars, Build, Unlink, Write, Complete, Install, PutBack, Touch, loopVars
  <1> QED BY <1>1, <1>2, <1>3, <1>4 DEF CommandNext

\* A pack that names a local sink, or watches, never pushes, whatever its config says; and exit
\* code 2 is never given once an image is out.
THEOREM LocalPacksStayLocal == CommandSpec => []LocalStaysLocal
  <1>1. CommandInv => LocalStaysLocal
    BY DEF CommandInv, NoPush, Settled, LocalStaysLocal, Out
  <1> QED BY <1>1, CommandInvInit, CommandInvStep, PTL DEF CommandSpec

--------------------------------------------------------------------------------
\* The verdict.

ProfileKnown == inv.profile = "none" \/ inv.profile \in DOMAIN inv.profiles
\* The file with its profile, and all three layers.
OfFile == IF inv.profile = "none" THEN inv.base ELSE Layer(inv.base, Selected)
Full   == Layer(OfFile, Flags)

PackStages == {"load", "profile", "options", "check", "sink", "pack", "deliver", "smoke", "watch"}
InFull     == stage \in {"check", "sink", "pack", "deliver", "smoke", "watch"} \/ (stage = "sign" /\ inv.cmd = "pack")

\* The options in effect are the layers read so far.
EffectInv ==
  /\ stage = "profile" => opts = inv.base
  /\ stage = "options" => opts = OfFile /\ ProfileKnown
  /\ InFull => opts = Full /\ ProfileKnown

\* A switch of any layer is in effect, and nothing else is.
LEMMA SwitchesAddUp ==
  ASSUME InvocationType(inv), ProfileKnown
  PROVE  \A switch : AskedOn(inv, switch) <=> switch \in Full.on
<1>1. Flags.on = inv.cli.on
  BY DEF Flags, InvocationType, LayerType
<1>2. Full.on = OfFile.on \cup inv.cli.on
  BY <1>1 DEF Full, Layer
<1>3. \A switch : AskedOn(inv, switch) <=>
        \/ switch \in LayersOf(inv)[1].on \/ switch \in LayersOf(inv)[2].on \/ switch \in LayersOf(inv)[3].on
  BY DEF AskedOn
<1>4. LayersOf(inv)[1] = inv.base /\ LayersOf(inv)[3] = inv.cli
  BY DEF LayersOf
<1>5. CASE inv.profile = "none"
  <2>1. LayersOf(inv)[2].on = {}
    BY <1>5 DEF LayersOf, InvocationType, Nothing
  <2> QED
    BY <1>2, <1>3, <1>4, <1>5, <2>1 DEF OfFile
<1>6. CASE inv.profile \in DOMAIN inv.profiles
  <2>1. inv.profile # "none" /\ LayersOf(inv)[2] = Selected
    BY <1>6 DEF LayersOf, InvocationType, Selected
  <2>2. OfFile.on = inv.base.on \cup Selected.on
    BY <2>1 DEF OfFile, Layer
  <2> QED
    BY <1>2, <1>3, <1>4, <2>1, <2>2
<1> QED
  BY <1>5, <1>6 DEF ProfileKnown

\* The value of a pair is that of the highest layer that sets it, the one `ListFrom` names.
LEMMA SourceIsHighest ==
  ASSUME InvocationType(inv), ProfileKnown, opts = Full, NEW key \in PairsChecked, Unsound(key)
  PROVE  \E n \in 1 .. 3 :
           /\ key \in DOMAIN LayersOf(inv)[n].set
           /\ \A above \in n + 1 .. 3 : key \notin DOMAIN LayersOf(inv)[above].set
           /\ LayersOf(inv)[n].set[key].is = "bad"
           /\ ListFrom(key) = <<"config", "profile", "cli">>[n]
<1> DEFINE from == <<"config", "profile", "cli">>
<1>0. from[1] = "config" /\ from[2] = "profile" /\ from[3] = "cli"
  OBVIOUS
<1> HIDE DEF from
<1>1. key # "push" /\ key \in DOMAIN Full.set /\ Full.set[key].is = "bad"
  BY DEF PairsChecked, Unsound, Asks
<1>2. Flags.set = [k \in DOMAIN inv.cli.set \ {"push"} |-> inv.cli.set[k]]
  BY DEF Flags, InvocationType, LayerType
<1>3. Full.set = Over(Flags.set, OfFile.set)
  BY DEF Full, Layer
<1>4. LayersOf(inv)[1] = inv.base /\ LayersOf(inv)[3] = inv.cli
  BY DEF LayersOf
<1>5. CASE key \in DOMAIN inv.cli.set
  <2>1. Full.set[key] = inv.cli.set[key]
    BY <1>1, <1>2, <1>3, <1>5 DEF Over
  <2>2. ListFrom(key) = "cli"
    BY <1>5 DEF ListFrom, Asks
  <2>3. 3 + 1 .. 3 = {}
    OBVIOUS
  <2> QED
    BY <1>0, <1>1, <1>4, <1>5, <2>1, <2>2, <2>3 DEF from
<1>6. CASE key \notin DOMAIN inv.cli.set
  <2>1. key \in DOMAIN OfFile.set /\ Full.set[key] = OfFile.set[key]
    BY <1>1, <1>2, <1>3, <1>6 DEF Over
  <2>2. inv.config # "absent"
    <3>1. DOMAIN Nothing.set = {}
      BY DEF Nothing
    <3>2. inv.config = "absent" => inv.base = Nothing /\ inv.profiles = <<>>
      BY DEF InvocationType
    <3>3. DOMAIN <<>> = {}
      OBVIOUS
    <3> QED
      BY <2>1, <3>1, <3>2, <3>3 DEF OfFile, ProfileKnown
  <2>3. CASE inv.profile \in DOMAIN inv.profiles /\ key \in DOMAIN Selected.set
    <3>1. LayersOf(inv)[2] = Selected /\ inv.profile # "none"
      BY <2>3 DEF LayersOf, Selected, InvocationType
    <3>2. OfFile.set[key] = Selected.set[key]
      BY <2>3, <3>1 DEF OfFile, Layer, Over
    <3>3. ListFrom(key) = "profile"
      BY <1>6, <2>2, <2>3 DEF ListFrom, Asks
    <3>4. \A above \in 2 + 1 .. 3 : above = 3
      OBVIOUS
    <3> QED
      BY <1>0, <1>1, <1>4, <1>6, <2>1, <2>3, <3>1, <3>2, <3>3, <3>4 DEF from
  <2>4. CASE ~(inv.profile \in DOMAIN inv.profiles /\ key \in DOMAIN Selected.set)
    <3>1. key \notin DOMAIN LayersOf(inv)[2].set
      <4>1. DOMAIN Nothing.set = {}
        BY DEF Nothing
      <4> QED
        BY <2>4, <4>1 DEF LayersOf, Selected
    <3>2. key \in DOMAIN inv.base.set /\ OfFile.set[key] = inv.base.set[key]
      BY <2>1, <2>4 DEF OfFile, Layer, Over, ProfileKnown
    <3>3. ListFrom(key) = "config"
      BY <1>6, <2>2, <2>4 DEF ListFrom, Asks
    <3>4. \A above \in 1 + 1 .. 3 : above = 2 \/ above = 3
      OBVIOUS
    <3> QED
      BY <1>0, <1>1, <1>4, <1>6, <2>1, <3>1, <3>2, <3>3, <3>4 DEF from
  <2> QED
    BY <2>3, <2>4
<1> QED
  BY <1>5, <1>6

\* What was asked for and has had its turn was done; what can no longer be served has ended the
\* run, and no gate has been passed over.
ServedInv ==
  /\ inv.cmd = "pack" => stage \in PackStages \cup {"clap", "sign", "ended"}
  /\ inv.cmd # "pack" => stage \in {"clap", "work", "print", "sign", "ended"}
  /\ inv.cmd # "pack" /\ stage = "sign" => inv.cmd = "index"
  /\ stage = "print" => inv.cmd = "index" /\ "sign" \notin inv.cli.on
  /\ inv.cmd = "pack" /\ stage \in OnePack /\ "sign" \in opts.on => Sink = "push"
  /\ inv.cmd = "pack" /\ stage \in {"deliver", "smoke", "sign"} =>
       /\ "smoke" \in opts.on => Sink = "load"
       /\ "scan" \in opts.on => "scanned" \in done
  /\ stage = "smoke" => Sink = "load" /\ Delivered[Sink] \in done
  /\ inv.cmd = "pack" /\ stage = "sign" => Sink = "push" /\ Delivered[Sink] \in done
  /\ stage # "ended" => "found" \notin done
  /\ AskedIsServed

\* Each layer joins the options once, the file before its profile and the flags last.
LEMMA EffectStep ==
  ASSUME CommandInv, EffectInv, ServedInv, [CommandNext]_cvars
  PROVE  EffectInv'
<1> USE DEF EffectInv, InFull
<1>i. ASSUME UNCHANGED inv
      PROVE  Full' = Full /\ OfFile' = OfFile /\ (ProfileKnown' <=> ProfileKnown)
  BY <1>i DEF Full, OfFile, Flags, ProfileKnown, Selected
<1>u. ASSUME UNCHANGED <<inv, opts>>, stage' \notin {"profile", "options"}, InFull' => InFull
      PROVE  EffectInv'
  BY <1>i, <1>u
<1>1. CASE Clap
  BY <1>1, <1>u DEF Clap, Go, Exit
<1>2. CASE Load
  BY <1>2, <1>i DEF Load, Go, Exit
<1>3. CASE SelectProfile
  <2>1. stage = "profile" /\ opts = inv.base /\ UNCHANGED inv
    BY <1>3 DEF SelectProfile
  <2>2. CASE stage' = "options" /\ inv.profile = "none" /\ opts' = opts
    BY <2>1, <2>2, <1>i DEF OfFile, ProfileKnown
  <2>3. CASE stage' = "options" /\ inv.profile # "none" /\ inv.profile \in DOMAIN inv.profiles
             /\ opts' = Layer(opts, Selected)
    BY <2>1, <2>3, <1>i DEF OfFile, ProfileKnown
  <2>4. CASE stage' = "ended"
    BY <2>4
  <2> QED
    BY <1>3, <2>2, <2>3, <2>4 DEF SelectProfile, Go, Exit
<1>4. CASE MergeFlags
  BY <1>4, <1>i DEF MergeFlags, Go, Exit, Full
<1>5. CASE Check \/ Start \/ PackBreaks
  BY <1>5, <1>u DEF Check, Start, PackBreaks, Go, Exit
<1>6. CASE Stage \/ Smoke
  BY <1>6, <1>u DEF Stage, Smoke, Report, Go, Exit
<1>7. CASE Deliver
  BY <1>7, <1>u DEF Deliver, Report, Go, Exit
<1>8. CASE Sign \/ WorkFails \/ RefuseIndex \/ Tell
  BY <1>8, <1>u DEF Sign, WorkFails, RefuseIndex, Tell, Report, Exit
<1>9. CASE Index
  BY <1>9, <1>u DEF Index, Go
<1>10. CASE Watching
  BY <1>10, <1>u DEF Watching, WatchRefused, WatchBreaks, WatchOn, Exit
<1>11. CASE BuildGoesOn \/ UNCHANGED cvars
  BY <1>11, <1>i DEF BuildGoesOn, cvars, commandVars
<1> QED
  BY <1>1, <1>2, <1>3, <1>4, <1>5, <1>6, <1>7, <1>8, <1>9, <1>10, <1>11 DEF CommandNext, Dispatch

\* A pack that got through its last step has done what was asked of it.
LEMMA LastStepServes ==
  ASSUME InvocationType(inv), EffectInv, ~Misused, ~Flag("watch"), inv.cmd = "pack", InFull,
         UNCHANGED <<inv, opts>>, "found" \notin done', Delivered[Sink] \in done',
         "smoke" \in opts.on => "smoked" \in done',
         "sign" \in opts.on => "signed" \in done',
         "scan" \in opts.on => "scanned" \in done'
  PROVE  AskedIsServed'
<1>1. \A switch : AskedOn(inv, switch) <=> switch \in opts.on
  BY SwitchesAddUp DEF EffectInv
<1>2. \A switch : AskedOn(inv, switch)' <=> AskedOn(inv, switch)
  BY DEF AskedOn, LayersOf
<1>3. "oci_archive" \in inv.flags => Sink = "archive"
  BY DEF Misused, SinkOnTheLine, Excludes, Flag, Sink
<1>4. "no_build" \in inv.flags => Sink = "rootfs"
  BY DEF Misused, SinkOnTheLine, Excludes, Flag, Sink
<1>5. "push" \in DOMAIN inv.cli.set => Sink = "push"
  BY DEF Sink, Asks
<1>6. "output" \in inv.flags => "no_build" \in inv.flags \/ SinkOnTheLine \/ "smoke" \in inv.cli.on
  BY DEF Misused, Flag
<1>7. SinkOnTheLine' <=> SinkOnTheLine
  BY DEF SinkOnTheLine, Asks
<1> QED
  BY <1>1, <1>2, <1>3, <1>4, <1>5, <1>6, <1>7 DEF AskedIsServed, Delivered, Flag

\* No step to success leaves out what was asked for.
LEMMA ServedStep ==
  ASSUME InvocationType(inv), CommandInv, EffectInv, ServedInv, [CommandNext]_cvars
  PROVE  ServedInv'
<1> USE DEF ServedInv, PackStages, OnePack
<1>s. UNCHANGED <<inv, opts>> => Sink' = Sink
  BY DEF Sink, Asks, Flag
<1>x. ASSUME exit' # 0 PROVE AskedIsServed'
  BY <1>x DEF AskedIsServed
<1>r. stage # "ended" => exit = Running /\ exit # 0
  BY DEF CommandInv, Settled, Running
<1>m. stage \notin {"clap", "ended"} => ~Misused
  BY DEF CommandInv, ParseHolds
<1>w. inv.cmd = "pack" /\ stage \in OnePack => ~Flag("watch")
  BY DEF CommandInv, PacksPack
<1>1. CASE Clap
  <2>1. CASE exit' = 0
    <3>1. inv.cmd = "none" /\ done' = done \cup {"completions"} /\ stage = "clap" /\ stage' = "ended" /\ inv' = inv
      BY <1>1, <2>1, <1>r DEF Clap, Go, Exit, Did
    <3>2. AskedIsServed'
      BY <3>1 DEF AskedIsServed
    <3> QED
      BY <3>1, <3>2
  <2>2. CASE exit' # 0
    BY <1>1, <2>2, <1>x DEF Clap, Go, Exit, Did
  <2> QED
    BY <2>1, <2>2
<1>2. CASE Load \/ SelectProfile \/ MergeFlags \/ Check
  <2>1. /\ inv' = inv /\ done' = done /\ stage \in PackStages /\ exit' # 0
        /\ stage' \in {"profile", "options", "check", "sink", "ended"}
    BY <1>2, <1>r DEF Load, SelectProfile, MergeFlags, Check, Go, Exit
  <2> QED
    BY <2>1, <1>x
<1>3. CASE Start
  <2>1. /\ UNCHANGED <<inv, done, opts>> /\ stage = "sink" /\ exit' # 0
        /\ stage' \in {"pack", "watch", "ended"}
        /\ stage' = "pack" => "sign" \notin opts.on \/ Sink = "push"
    BY <1>3, <1>r DEF Start, Go, Exit
  <2> QED
    BY <2>1, <1>x, <1>s
<1>4. CASE PackBreaks \/ WorkFails \/ RefuseIndex
  BY <1>4, <1>x DEF PackBreaks, WorkFails, RefuseIndex, Exit
<1>5. CASE Stage
  <2>1. stage = "pack" /\ UNCHANGED <<inv, opts>> /\ exit' # 0 /\ stage' \in {"deliver", "ended"}
    BY <1>5, <1>r DEF Stage, Go, Exit
  <2>2. "found" \notin done'
    BY <1>5, <2>1 DEF Stage
  <2>3. stage' = "deliver" => /\ "smoke" \in opts.on => Sink = "load"
                              /\ "scan" \in opts.on => "scanned" \in done'
    BY <1>5 DEF Stage, NothingToRun, Scans, Go, Exit
  <2> QED
    BY <2>1, <2>2, <2>3, <1>x, <1>s
<1>6. CASE Deliver
  <2>1. stage = "deliver" /\ UNCHANGED <<inv, opts>> /\ done' = done \cup {Delivered[Sink]}
    BY <1>6 DEF Deliver
  <2>2. inv.cmd = "pack"
    BY <2>1
  <2>3. Delivered[Sink] # "found"
    BY DEF Delivered, Sink
  <2>4. CASE stage' = "smoke" /\ Sink = "load" /\ exit' = exit
    BY <2>1, <2>3, <2>4, <1>r, <1>x, <1>s DEF Delivered
  <2>5. CASE stage' = "sign" /\ Sink = "push" /\ exit' = exit
    BY <2>1, <2>3, <2>5, <1>r, <1>x, <1>s DEF Delivered
  <2>6. CASE stage' = "ended" /\ "smoke" \notin opts.on /\ "sign" \notin opts.on
    <3>1. AskedIsServed'
      BY <2>1, <2>2, <2>3, <2>6, <1>m, <1>w, LastStepServes DEF InFull
    <3> QED
      BY <2>1, <2>2, <2>6, <3>1
  <2>7. \/ stage' = "smoke" /\ Sink = "load" /\ exit' = exit
        \/ stage' = "sign" /\ Sink = "push" /\ exit' = exit
        \/ stage' = "ended" /\ "smoke" \notin opts.on /\ "sign" \notin opts.on
    BY <1>6, <2>2 DEF Deliver, Go, Report, Exit
  <2> QED
    BY <2>4, <2>5, <2>6, <2>7
<1>7. CASE Smoke
  <2>1. stage = "smoke" /\ UNCHANGED <<inv, opts>> /\ stage' = "ended" /\ inv.cmd = "pack" /\ Sink = "load"
    BY <1>7 DEF Smoke, Report, Exit
  <2>2. CASE exit' = 0 /\ done' = done \cup {"smoked"}
    <3>1. "sign" \notin opts.on
      BY <2>1
    <3>2. AskedIsServed'
      BY <2>1, <2>2, <3>1, <1>m, <1>w, LastStepServes DEF InFull
    <3> QED
      BY <2>1, <3>2
  <2>3. CASE exit' = 1
    BY <2>1, <2>3, <1>x
  <2> QED
    BY <1>7, <2>2, <2>3 DEF Smoke, Did, Report, Exit
<1>8. CASE Sign
  <2>1. stage = "sign" /\ UNCHANGED <<inv, opts>> /\ stage' = "ended" /\ done' = done \cup {"signed"}
    BY <1>8 DEF Sign, Did, Report, Exit
  <2>2. CASE inv.cmd = "pack"
    <3>1. "smoke" \notin opts.on
      BY <2>1, <2>2
    <3>2. AskedIsServed'
      BY <2>1, <2>2, <3>1, <1>m, <1>w, LastStepServes DEF InFull
    <3> QED
      BY <2>1, <2>2, <3>2
  <2>3. CASE inv.cmd # "pack"
    <3>1. AskedIsServed'
      BY <2>1, <2>3 DEF AskedIsServed
    <3> QED
      BY <2>1, <2>3, <3>1
  <2> QED
    BY <2>2, <2>3
<1>9. CASE Index
  <2>1. /\ UNCHANGED inv /\ stage = "work" /\ inv.cmd = "index" /\ done' = done \cup {"pushed"} /\ exit' = exit
        /\ stage' = (IF "sign" \in inv.cli.on THEN "sign" ELSE "print")
    BY <1>9 DEF Index, Go
  <2> QED
    BY <2>1, <1>r, <1>x
<1>10. CASE Tell
  <2>1. /\ UNCHANGED inv /\ inv.cmd # "pack" /\ stage' = "ended"
        /\ inv.cmd = "index" => "sign" \notin inv.cli.on
    BY <1>10 DEF Tell, Exit
  <2>2. inv.cmd = "index" => ~AskedOn(inv, "sign")
    <3>1. inv.cmd = "index" => LayersOf(inv)[1].on = {} /\ LayersOf(inv)[2].on = {} /\ LayersOf(inv)[3].on = inv.cli.on
      BY DEF InvocationType, LayersOf, Nothing
    <3> QED
      BY <2>1, <3>1 DEF AskedOn
  <2>3. PICK said \in {"clean", "found"} :
          done' = done \cup {"report", said} /\ exit' = (IF said = "found" /\ Gated THEN 1 ELSE 0)
    BY <1>10 DEF Tell, Exit
  <2>4. exit' = 0 /\ "found" \in done' => ~Gated
    BY <1>10, <2>3 DEF Tell
  <2>5. ~Gated => inv.cmd # "graph" /\ inv.flags \cap {"fail_on", "exit_code"} = {}
    BY DEF Gated, Flag, InvocationType
  <2>6. AskedOn(inv, "sign")' <=> AskedOn(inv, "sign")
    BY <2>1 DEF AskedOn, LayersOf
  <2>7. AskedIsServed'
    BY <2>1, <2>2, <2>4, <2>5, <2>6 DEF AskedIsServed
  <2> QED
    BY <2>1, <2>7
<1>11. CASE Watching
  <2>1. /\ stage = "watch" /\ UNCHANGED <<inv, opts>> /\ stage' \in {"watch", "ended"} /\ exit' # 0
    BY <1>11, <1>r DEF Watching, WatchRefused, WatchBreaks, WatchOn, Exit
  <2>2. "found" \notin done'
    BY <1>11, <2>1, SinkNames DEF Watching
  <2> QED
    BY <2>1, <2>2, <1>x
<1>12. CASE BuildGoesOn \/ UNCHANGED cvars
  <2>1. UNCHANGED commandVars
    BY <1>12 DEF BuildGoesOn, cvars
  <2>2. AskedIsServed' <=> AskedIsServed
    BY <2>1 DEF commandVars, AskedIsServed, AskedOn, LayersOf, SinkOnTheLine, Asks
  <2> QED
    BY <2>1, <2>2, <1>s DEF commandVars
<1> QED
  BY <1>1, <1>2, <1>3, <1>4, <1>5, <1>6, <1>7, <1>8, <1>9, <1>10, <1>11, <1>12 DEF CommandNext, Dispatch

\* A list is blamed once, on the layers as they are.
LEMMA BlameStep ==
  ASSUME InvocationType(inv), EffectInv, BlameIsRight, [CommandNext]_cvars
  PROVE  BlameIsRight'
<1>u. ASSUME UNCHANGED <<inv, blame>> PROVE BlameIsRight'
  BY <1>u DEF BlameIsRight, LayersOf
<1>1. CASE Check /\ blame' # blame
  <2>1. PICK key \in PairsChecked : Unsound(key) /\ blame' = ListFrom(key)
    BY <1>1 DEF Check
  <2>2. opts = Full /\ ProfileKnown /\ inv' = inv
    BY <1>1 DEF Check, EffectInv, InFull
  <2>3. \E n \in 1 .. 3 :
          /\ key \in DOMAIN LayersOf(inv)[n].set
          /\ \A above \in n + 1 .. 3 : key \notin DOMAIN LayersOf(inv)[above].set
          /\ LayersOf(inv)[n].set[key].is = "bad"
          /\ ListFrom(key) = <<"config", "profile", "cli">>[n]
    BY <2>1, <2>2, SourceIsHighest
  <2>4. LayersOf(inv)' = LayersOf(inv)
    BY <2>2 DEF LayersOf
  <2> QED
    BY <2>1, <2>3, <2>4 DEF BlameIsRight, PairsChecked
<1>2. CASE Check /\ blame' = blame
  BY <1>2, <1>u DEF Check
<1>3. CASE \/ Clap \/ Load \/ SelectProfile \/ MergeFlags \/ Start \/ PackBreaks \/ Stage \/ Deliver
           \/ Smoke \/ Sign \/ WorkFails \/ RefuseIndex \/ Index \/ Tell \/ Watching \/ BuildGoesOn \/ UNCHANGED cvars
  BY <1>3, <1>u DEF Clap, Load, SelectProfile, MergeFlags, Start, PackBreaks, Stage, Deliver, Smoke,
     Sign, WorkFails, RefuseIndex, Index, Tell, Watching, BuildGoesOn, cvars, commandVars
<1> QED
  BY <1>1, <1>2, <1>3 DEF CommandNext, Dispatch

\* Success means that what any layer asked for was done, for every command line and every
\* config; and a list that cannot be used is blamed on the layer it came from.
THEOREM VerdictsAreTrue == CommandSpec => []VerdictIsTrue
<1> DEFINE Verdict == inv \in Invocations /\ CommandInv /\ EffectInv /\ ServedInv /\ BlameIsRight
<1>1. CommandInit => Verdict
  <2> SUFFICES ASSUME CommandInit PROVE Verdict
    OBVIOUS
  <2>1. inv \in Invocations /\ stage = "clap" /\ done = {} /\ exit # 0 /\ blame = "nobody"
    BY DEF CommandInit, Running
  <2> QED
    BY <2>1, CommandInvInit
       DEF EffectInv, InFull, ServedInv, PackStages, OnePack, AskedIsServed, BlameIsRight
<1>2. Verdict /\ [CommandNext]_cvars => Verdict'
  <2> SUFFICES ASSUME Verdict, [CommandNext]_cvars PROVE Verdict'
    OBVIOUS
  <2>1. InvocationType(inv)
    BY InvocationsAssumption
  <2>2. inv' = inv
    <3>1. CASE Dispatch
      BY <3>1 DEF Dispatch, Clap, Load, SelectProfile, MergeFlags, Check, Start, PackBreaks, Stage,
         Deliver, Smoke, Sign, WorkFails, RefuseIndex, Index, Tell
    <3>2. CASE Watching \/ BuildGoesOn \/ UNCHANGED cvars
      BY <3>2 DEF Watching, BuildGoesOn, cvars, commandVars
    <3> QED
      BY <3>1, <3>2 DEF CommandNext
  <2> QED
    BY <2>1, <2>2, CommandInvStep, EffectStep, ServedStep, BlameStep
<1>3. Verdict => VerdictIsTrue
  BY DEF ServedInv, VerdictIsTrue
<1> QED
  BY <1>1, <1>2, <1>3, PTL DEF CommandSpec

--------------------------------------------------------------------------------
\* The watch: what holds of the loop alone holds of it in the process.

\* What else ends the process ends the loop.
Halts == pc' = "ended" /\ Still

WatchSafe == Init /\ [][Next \/ Halts]_vars

\* The loop is ahead of the build by nothing: a pack that is due, and a stamp that differs from
\* the one packed, each stand for a change that no pack has answered.
PacksInv ==
  /\ packs <= changes
  /\ pc = "stamp" => packs < changes
  /\ pc \in {"graph", "bytes", "deliver", "look", "poll"} /\ Stamp # packed => packs < changes

\* While the loop runs, an absence whose line is not yet printed has a change to itself.
NoticeInv ==
  /\ notices < changes
  /\ ~Here /\ pc # "ended" /\ ~(pc = "poll" /\ gone >= NoticePolls) => notices + 1 < changes

\* The loop keeps its types.
LEMMA WatchTypes == WatchSafe => []TypeOK
<1>1. Init => TypeOK
  BY WatchAssumption DEF Init, TypeOK, Absent, None, NoVersion
<1>2. TypeOK /\ [Next \/ Halts]_vars => TypeOK'
  <2> SUFFICES ASSUME TypeOK, [Next \/ Halts]_vars PROVE TypeOK'
    OBVIOUS
  <2>1. CASE Build
    <3>1. changes' \in Nat
      BY <2>1 DEF TypeOK, Build, Unlink, Write, Complete, Install, PutBack, Touch
    <3>2. Absent \in [ver : Nat, stamp : Nat, whole : BOOLEAN]
      BY DEF Absent, None
    <3>3. /\ file' \in [ver : Nat, stamp : Nat, whole : BOOLEAN]
          /\ backup' \in [ver : Nat, stamp : Nat, whole : BOOLEAN]
      <4>1. CASE Unlink
        BY <4>1, <3>2 DEF Unlink, TypeOK
      <4>w. ASSUME NEW w \in BOOLEAN
            PROVE  [ver |-> changes', stamp |-> changes', whole |-> w]
                     \in [ver : Nat, stamp : Nat, whole : BOOLEAN]
        BY <3>1
      <4>2. CASE Write \/ Complete
        BY <4>2, <4>w DEF Write, Complete, TypeOK
      <4>3. CASE Install
        BY <4>3, <4>w DEF Install, TypeOK
      <4>4. CASE PutBack
        BY <4>4, <3>1, <3>2 DEF PutBack, TypeOK
      <4>5. QED
        BY <2>1, <4>1, <4>2, <4>3, <4>4 DEF Build
    <3>4. UNCHANGED loopVars
      BY <2>1 DEF Build, Unlink, Write, Complete, Install, PutBack, Touch
    <3>5. QED
      BY <3>1, <3>3, <3>4 DEF TypeOK, loopVars
  <2>2. CASE Loop
    <3>0. NoVersion \in [graph : Nat, bytes : Nat]
      BY DEF NoVersion
    <3>1. CASE TakeStamp \/ DeliverImage \/ PackFails \/ PollStable
      BY <3>0, <3>1 DEF TypeOK, TakeStamp, DeliverImage, PackFails, PollStable, fileVars, Stamp
    <3>4. CASE ReadGraph \/ CopyBytes
      <4>1. staged' \in [graph : Nat, bytes : Nat]
        BY <3>4 DEF TypeOK, ReadGraph, CopyBytes
      <4> QED
        BY <3>4, <4>1 DEF TypeOK, ReadGraph, CopyBytes, fileVars
    <3>2. CASE Look
      BY <3>2, WatchAssumption DEF TypeOK, Look, fileVars, Stamp
    <3>3. CASE PollAgain
      BY <3>3, WatchAssumption DEF TypeOK, PollAgain, Absences, fileVars, Stamp
    <3>5. QED
      BY <2>2, <3>1, <3>2, <3>3, <3>4 DEF Loop
  <2>3. CASE UNCHANGED vars
    BY <2>3 DEF TypeOK, vars
  <2>4. CASE Halts
    BY <2>4 DEF Halts, Still, TypeOK
  <2>5. QED
    BY <2>1, <2>2, <2>3, <2>4 DEF Next
<1>3. QED
  BY <1>1, <1>2, PTL DEF WatchSafe

\* A write of the build is a change no pack and no line has answered yet.
LEMMA BuildCounts ==
  ASSUME TypeOK, Build
  PROVE  changes' = changes + 1 /\ UNCHANGED loopVars
BY DEF Build, Unlink, Write, Complete, Install, PutBack, Touch

\* The loop packs at most once for each change of the binary.
LEMMA WatchPacks == WatchSafe => []PacksFollowChanges
<1>1. Init => PacksInv
  BY DEF Init, PacksInv
<1>2. TypeOK /\ PacksInv /\ [Next \/ Halts]_vars => PacksInv'
  <2> SUFFICES ASSUME TypeOK, PacksInv, [Next \/ Halts]_vars PROVE PacksInv'
    OBVIOUS
  <2>1. CASE Build
    <3>1. changes' = changes + 1 /\ packs' = packs
      BY <2>1, BuildCounts DEF loopVars
    <3>2. packs' < changes'
      BY <3>1 DEF PacksInv, TypeOK
    <3>3. QED
      BY <3>1, <3>2 DEF PacksInv, TypeOK
  <2>2. CASE TakeStamp
    BY <2>2 DEF PacksInv, TypeOK, TakeStamp, fileVars, Stamp
  <2>3. CASE PollStable
    BY <2>3 DEF PacksInv, TypeOK, PollStable, Stable, fileVars, Stamp
  <2>4. CASE ReadGraph \/ CopyBytes \/ DeliverImage \/ PackFails \/ Look \/ PollAgain
    BY <2>4 DEF PacksInv, TypeOK, ReadGraph, CopyBytes, DeliverImage, PackFails, Look, PollAgain, Absences, fileVars, Stamp
  <2>5. CASE UNCHANGED vars
    BY <2>5 DEF PacksInv, vars, Stamp
  <2>6. CASE Halts
    BY <2>6 DEF Halts, Still, PacksInv, TypeOK
  <2>7. QED
    BY <2>1, <2>2, <2>3, <2>4, <2>5, <2>6 DEF Next, Loop
<1>3. PacksInv => PacksFollowChanges
  BY DEF PacksInv, PacksFollowChanges
<1>4. QED
  BY <1>1, <1>2, <1>3, WatchTypes, PTL DEF WatchSafe

\* The "is gone" line is printed at most once for each time the file goes.
LEMMA WatchNotices == WatchSafe => []OneNoticePerAbsence
<1>1. Init => NoticeInv
  BY DEF Init, NoticeInv, Here, Absent, None
<1>2. TypeOK /\ NoticeInv /\ [Next \/ Halts]_vars => NoticeInv'
  <2> SUFFICES ASSUME TypeOK, NoticeInv, [Next \/ Halts]_vars PROVE NoticeInv'
    OBVIOUS
  <2>1. CASE Build
    <3>1. changes' = changes + 1 /\ notices' = notices
      BY <2>1, BuildCounts DEF loopVars
    <3>2. notices' < changes' /\ notices' + 1 < changes'
      BY <3>1 DEF NoticeInv, TypeOK
    <3>3. QED
      BY <3>2 DEF NoticeInv
  <2>2. CASE TakeStamp \/ ReadGraph \/ CopyBytes \/ DeliverImage \/ PackFails \/ Look
    BY <2>2 DEF NoticeInv, TypeOK, TakeStamp, ReadGraph, CopyBytes, DeliverImage, PackFails, Look, fileVars, Here
  <2>3. CASE PollStable
    BY <2>3 DEF NoticeInv, TypeOK, PollStable, Stable, fileVars, Here
  <2>4. CASE PollAgain
    <3>1. UNCHANGED <<file, changes, pc>> /\ pc = "poll"
      BY <2>4 DEF PollAgain, Absences, fileVars
    <3>2. CASE Here
      <4>1. gone' = 0 /\ notices' = notices
        BY <2>4, <3>2, WatchAssumption DEF PollAgain, Absences, Notice
      <4>2. QED
        BY <3>1, <3>2, <4>1 DEF NoticeInv, Here
    <3>3. CASE ~Here /\ gone >= NoticePolls
      <4>1. gone' \in Nat /\ gone' > NoticePolls /\ notices' = notices
        BY <2>4, <3>3, WatchAssumption DEF PollAgain, Absences, Notice, TypeOK
      <4>2. QED
        BY <3>1, <3>3, <4>1, WatchAssumption DEF NoticeInv, TypeOK
    <3>4. CASE ~Here /\ gone < NoticePolls
      <4>1. gone' = gone + 1 /\ notices' = IF gone' = NoticePolls THEN notices + 1 ELSE notices
        BY <2>4, <3>4, WatchAssumption DEF PollAgain, Absences, Notice, TypeOK
      <4>2. notices + 1 < changes
        BY <3>1, <3>4, WatchAssumption DEF NoticeInv, TypeOK
      <4>3. QED
        BY <3>1, <4>1, <4>2, <3>4, WatchAssumption DEF NoticeInv, TypeOK
    <3>5. QED
      BY <3>2, <3>3, <3>4, WatchAssumption DEF TypeOK
  <2>5. CASE UNCHANGED vars
    BY <2>5 DEF NoticeInv, vars, Here
  <2>6. CASE Halts
    BY <2>6 DEF Halts, Still, NoticeInv, Here
  <2>7. QED
    BY <2>1, <2>2, <2>3, <2>4, <2>5, <2>6 DEF Next, Loop
<1>3. NoticeInv => OneNoticePerAbsence
  BY DEF NoticeInv, OneNoticePerAbsence
<1>4. QED
  BY <1>1, <1>2, <1>3, WatchTypes, PTL DEF WatchSafe

\* Every step of the process is one of the loop or the build, or leaves both alone, or ends the
\* loop: the command adds no other step to it.
THEOREM CommandWatches == CommandSpec => WatchSafe
<1>1. CommandInit => Init
  BY DEF CommandInit
<1>2. [CommandNext]_cvars => [Next \/ Halts]_vars
  <2> SUFFICES ASSUME [CommandNext]_cvars PROVE [Next \/ Halts]_vars
    OBVIOUS
  <2>1. CASE Dispatch
    BY <2>1 DEF Dispatch, Clap, Load, SelectProfile, MergeFlags, Check, Start, PackBreaks, Stage, Deliver, Smoke,
       Sign, WorkFails, RefuseIndex, Index, Tell, Go, Exit, Report, Did, Still, Halts, vars
  <2>2. CASE Watching
    BY <2>2 DEF Watching, WatchRefused, WatchBreaks, WatchOn, Exit, Still, Halts, Next, Loop, vars
  <2>3. CASE BuildGoesOn
    BY <2>3 DEF BuildGoesOn, Next
  <2>4. CASE UNCHANGED cvars
    BY <2>4 DEF cvars
  <2> QED
    BY <2>1, <2>2, <2>3, <2>4 DEF CommandNext
<1> QED
  BY <1>1, <1>2, PTL DEF CommandSpec, WatchSafe

\* `TypeOK`: the types of the loop, for every bound and threshold, and any invocation.
THEOREM WatchIsTyped == CommandSpec => []TypeOK
  BY CommandWatches, WatchTypes, PTL

\* `PacksFollowChanges`: a process that watches packs at most once for each change of the binary,
\* whatever it was asked and whatever its packs refuse.
THEOREM PacksAreAnswers == CommandSpec => []PacksFollowChanges
  BY CommandWatches, WatchPacks, PTL

\* `OneNoticePerAbsence`: the "is gone" line is printed at most once for each time the file goes.
THEOREM NoticesAreSparse == CommandSpec => []OneNoticePerAbsence
  BY CommandWatches, WatchNotices, PTL

==================================================================================
