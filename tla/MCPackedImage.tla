------------------------------ MODULE MCPackedImage ------------------------------
(***************************************************************************)
(* Layouts for TLC.  `TestLayouts` are those of tests/differential.rs: each *)
(* library has one needer and a name of its own, and a soname link sits    *)
(* beside its real file.  The other families leave that shape in one way   *)
(* each: a library two objects need, a file with two names, two files of   *)
(* one name, included names.                                               *)
(***************************************************************************)
EXTENDS PackedImage, TLC

CONSTANTS app, liba, libb, priv, ld,    \* files; `priv` has a name ldconfig does not list
          bin, usrlib, opt, colon, std,    \* directories; the name of `colon` holds a ':'
          app_, a, a1, b, p, o, ld_     \* names: a1 is the file name of liba, a its soname

MCFiles == {app, liba, libb, priv, ld}
MCDirs  == {bin, usrlib, opt, colon, std}
MCNames == {app_, a, a1, b, p, o, ld_}
MCBase  == (app :> app_) @@ (liba :> a1) @@ (libb :> b) @@ (priv :> p) @@ (ld :> ld_)
MCDefaultDirs == <<std>>

\* What `-Wl,-rpath,<dir>...` and the tag flag record: ld joins the directories with ':', so
\* one whose own name holds a ':' survives whole only when it is alone.
Tags(runpath, dirs) ==
  LET split == SelectSeq(dirs, LAMBDA d : d # colon)
      whole == IF dirs = <<colon>> THEN dirs ELSE <<>>
  IN  IF runpath
      THEN [rpath |-> <<>>, rpathWhole |-> <<>>, runpath |-> split, runpathWhole |-> whole]
      ELSE [rpath |-> split, rpathWhole |-> whole, runpath |-> <<>>, runpathWhole |-> <<>>]

NoTags == Tags(FALSE, <<>>)

Object(soname, needed, tags) ==
  [kind |-> "dyn", regular |-> TRUE, soname |-> soname, needed |-> needed] @@ tags

Tree(entries) ==
  [d \in MCDirs |-> [n \in MCNames |->
     IF \E e \in entries : e[1] = d /\ e[2] = n
     THEN (CHOOSE e \in entries : e[1] = d /\ e[2] = n)[3] ELSE NoFile]]

\* A layout: the homes of the libraries, further links, and the link facts of each object.
Layout(homes, links, elfs) ==
  LET home == homes @@ (app :> bin) @@ (ld :> std) @@ [f \in MCFiles |-> usrlib]
  IN  [at |-> Tree({<<home[f], MCBase[f], f>> : f \in MCFiles} \cup links),
       home |-> home,
       elf |-> elfs @@ [f \in MCFiles |-> Object(NoName, <<>>, NoTags)],
       interp |-> ld, platform |-> TRUE, includes |-> <<>>]

\* tests/differential.rs: the first library is liba, reached by its file name or its soname
\* link; the second is needed by the program or by liba, and its directory is named by its
\* needer, by the program, or by nobody.
TestLayouts ==
  LET second(x) == IF x = libb THEN b ELSE p
      app_dirs(d1, d2, par, h1, h2) ==
        (IF h1 THEN <<d1>> ELSE <<>>) \o
        (IF h2 = "program" \/ (h2 = "needer" /\ par = app) THEN <<d2>> ELSE <<>>)
  IN  { Layout((liba :> d1) @@ (x :> d2), {<<d1, a, liba>>},
          (app :> Object(NoName, IF par = app THEN <<n1, second(x)>> ELSE <<n1>>,
                         Tags(ra, app_dirs(d1, d2, par, h1, h2)))) @@
          (liba :> Object(IF n1 = a THEN a ELSE s1, IF par = app THEN <<>> ELSE <<second(x)>>,
                          Tags(rl, IF h2 = "needer" /\ par = liba THEN <<d2>> ELSE <<>>))) @@
          (x :> Object(s2, <<>>, NoTags))) :
        d1 \in {usrlib, colon, std}, d2 \in {opt, colon}, x \in {libb, priv}, n1 \in {a, a1},
        s1 \in {NoName, o}, s2 \in {NoName, o}, par \in {app, liba},
        ra \in BOOLEAN, rl \in BOOLEAN, h1 \in BOOLEAN, h2 \in {"needer", "program", "nobody"} }

\* The program needs liba and libb; libb needs liba too.
SharedLayouts ==
  { Layout((liba :> d) @@ (libb :> opt), {<<d, a, liba>>},
      (app :> Object(NoName, n, Tags(ra, <<d, opt>>))) @@
      (liba :> Object(a, <<>>, NoTags)) @@
      (libb :> Object(NoName, <<a>>, Tags(rb, db)))) :
    d \in {usrlib, std}, n \in {<<a, b>>, <<b, a>>}, ra \in BOOLEAN, rb \in BOOLEAN,
    db \in {<<>>, <<usrlib>>} }

\* The program needs libb under its own name and under a second one.
AliasLayouts ==
  { Layout((libb :> d), {<<d, n, libb>>},
      (app :> Object(NoName, need2, Tags(ra, <<d>>))) @@ (libb :> Object(s, <<>>, NoTags))) :
    d \in {usrlib, std}, n \in {a, o}, s \in {NoName, a, b},
    need2 \in {<<b, a>>, <<a, b>>, <<o, a>>, <<b, o>>}, ra \in BOOLEAN }

\* Two different files under one name, each in a private directory of one needer.
TwinLayouts ==
  { Layout((liba :> usrlib) @@ (libb :> opt), {<<opt, a1, priv>>, <<std, b, libb>>},
      (app :> Object(NoName, n, Tags(ra, <<usrlib, opt>>))) @@
      (libb :> Object(NoName, <<a1>>, Tags(rb, <<opt>>)))) :
    n \in {<<a1, b>>, <<b, a1>>, <<b>>}, ra \in BOOLEAN, rb \in BOOLEAN }

\* The operator includes a library by its soname and a file of any type by its name.
IncludeLayouts ==
  { [Layout((liba :> d1) @@ (priv :> d2) @@ (libb :> d3), {<<d1, a, liba>>},
      (app :> Object(NoName, n, Tags(ra, dirs))) @@
      (liba :> Object(s, <<>>, NoTags)) @@
      (priv :> [Object(NoName, IF k = "data" THEN <<>> ELSE <<b>>, Tags(TRUE, <<opt>>))
                  EXCEPT !.kind = k, !.regular = reg])) EXCEPT !.includes = <<p, a>>] :
    d1 \in {usrlib, std}, d2 \in {opt, std}, d3 \in {opt, std}, n \in {<<>>, <<b>>, <<a>>},
    ra \in BOOLEAN, dirs \in {<<usrlib>>, <<usrlib, opt>>}, s \in {a, o},
    k \in {"dyn", "exec", "data"}, reg \in BOOLEAN }

PassingLayouts == TestLayouts \cup TwinLayouts \cup IncludeLayouts
==================================================================================
