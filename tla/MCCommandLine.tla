------------------------------ MODULE MCCommandLine ------------------------------
(***************************************************************************)
(* CommandLine over every mix of the flags that decide the control, a      *)
(* config that is absent, unreadable or good, and two profiles.  Few of    *)
(* the invocations that reach the watch loop: each carries all of Watch.   *)
(***************************************************************************)
EXTENDS CommandLine, TLC

At(layer, is) == [from |-> layer, is |-> is]
Fine(layer, keys) == [key \in keys |-> At(layer, "fine")]

Blank ==
  [cmd |-> "pack", flags |-> {}, cli |-> Nothing, config |-> "absent", base |-> Nothing,
   profile |-> "none", profiles |-> <<>>, nested |-> {}]
App == Fine("cli", {"binary"})

\* The layers of a file: what a careless team could leave in one.
Bases ==
  {[on |-> on, set |-> set] :
     on \in {{}, {"smoke"}, {"sign", "scan"}},
     set \in {<<>>, Fine("config", {"push", "binary"}), Fine("config", {"binary"}) @@ ("label" :> At("config", "bad")),
              "locale" :> At("config", "late"), "locale" :> At("config", "twice"), "nss" :> At("config", "bad")}}
Overs ==
  {[on |-> {}, set |-> "label" :> At("profile", "fine")],
   [on |-> {"smoke"}, set |-> "env" :> At("profile", "bad")],
   [on |-> {"sign"}, set |-> "push" :> At("profile", "fine")],
   [on |-> {}, set |-> ("push" :> At("profile", "bad")) @@ ("nss" :> At("profile", "fine"))],
   [on |-> {}, set |-> Fine("profile", {"scan_fail_on", "binary"})]}

Lines ==
  {[on |-> on, set |-> set] :
     on \in SUBSET {"smoke", "sign"},
     set \in {<<>>, App, App @@ Fine("cli", {"push"}), App @@ ("push" :> At("cli", "bad")),
              App @@ Fine("cli", {"label"}), App @@ ("label" :> At("cli", "bad"))}}

Files ==
  {<<"absent", Nothing, <<>>, {}>>, <<"unreadable", Nothing, <<>>, {}>>,
   <<"good", Nothing, [ci |-> Nothing], {"ci"}>>}
  \cup {<<"good", b, [ci |-> o], {}>> : b \in Bases, o \in Overs}

Made(fs, l, f, p) ==
  [Blank EXCEPT !.flags = fs, !.cli = l, !.config = f[1], !.base = f[2], !.profiles = f[3],
                !.nested = f[4], !.profile = p]

\* Every way to name a sink, alone and with another.
Sinks == {{}, {"oci_archive"}, {"no_build", "output"}, {"no_build"}, {"oci_archive", "no_build", "output"},
          {"output"}, {"oci_archive", "output"}}
Packs == {Made(fs, l, f, p) : fs \in Sinks, l \in Lines, f \in Files, p \in {"none", "ci", "lost"}}

\* A watch that begins, one whose first pack is refused at once or late, and those not begun.
Bare == [on |-> {}, set |-> App]
NoFile == <<"absent", Nothing, <<>>, {}>>
Holding(on, set) == <<"good", [on |-> on, set |-> set], [ci |-> Nothing], {}>>
Watches ==
  {Made({"watch"}, Bare, NoFile, "none"),
   Made({"watch", "oci_archive"}, Bare, Holding({"smoke"}, <<>>), "none"),
   Made({"watch"}, Bare, Holding({}, "locale" :> At("config", "late")), "none"),
   Made({"watch", "json"}, Bare, NoFile, "none"),
   Made({"watch", "no_build", "output"}, Bare, NoFile, "none"),
   Made({"watch", "output"}, [Bare EXCEPT !.on = {"sign"}], NoFile, "none"),
   Made({"watch"}, Bare, Holding({}, Fine("config", {"push"})), "ci"),
   Made({"watch", "oci_archive"}, Bare, Holding({}, Fine("config", {"push"})), "ci"),
   Made({"watch"}, [Bare EXCEPT !.on = {"sign"}], Holding({}, <<>>), "ci")}

Other(c, fs, on) == [Blank EXCEPT !.cmd = c, !.flags = fs, !.cli.on = on]
Others ==
  {Other(c, fs, {}) : c \in {"lint", "doctor", "index", "graph", "diff", "unpack", "none"},
                      fs \in {{}, {"completions"}}}
  \cup {Other("index", {}, {"sign"}), Other("lint", {"fail_on"}, {}), Other("diff", {"exit_code"}, {})}

MCInvocations == Packs \cup Watches \cup Others
==================================================================================
