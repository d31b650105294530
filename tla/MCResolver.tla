------------------------------ MODULE MCResolver ------------------------------
(***************************************************************************)
(* Host trees for TLC: a binary `app`, three files and three directories,  *)
(* one of them the default directory.  Two families of trees, one that     *)
(* varies where names are found and which tags search for them, and one    *)
(* that varies what the found files are.                                   *)
(***************************************************************************)
EXTENDS DepGraph, TLC

CONSTANTS app, liba, libb, foreign, priv, other, std, x, y, z, p

MCFiles == {app, liba, libb, foreign}
MCDirs  == {priv, other, std}
MCNames == {x, y, z, p}
MCDefaultDirs == <<std>>

NoTags == [rpath |-> <<>>, runpath |-> <<>>, rpathWhole |-> <<>>, runpathWhole |-> <<>>]
Rpath(s)   == [NoTags EXCEPT !.rpath = s]
Runpath(s) == [NoTags EXCEPT !.runpath = s]
RpathWhole(d)   == [NoTags EXCEPT !.rpathWhole = <<d>>]
RunpathWhole(d) == [NoTags EXCEPT !.runpathWhole = <<d>>]

Object(kind, soname, needed, tags) ==
  [kind |-> kind, regular |-> TRUE, soname |-> soname, needed |-> needed] @@ tags

Empty == [d \in MCDirs |-> [n \in MCNames |-> NoFile]]
\* The tree that shows `file` under `name` in `dir`, for each <<dir, name, file>> given.
Showing(entries) ==
  [d \in MCDirs |-> [n \in MCNames |->
     IF \E e \in entries : e[1] = d /\ e[2] = n
     THEN (CHOOSE e \in entries : e[1] = d /\ e[2] = n)[3] ELSE NoFile]]

Homes == (app :> priv) @@ (liba :> priv) @@ (libb :> std) @@ (foreign :> other)
Leaf == Object("dyn", NoName, <<>>, NoTags)

\* Where names are found, and the tags that search for them.
SearchTrees ==
  { [at |-> Showing({<<priv, x, xp>>, <<std, x, xs>>, <<other, y, yo>>, <<priv, p, liba>>,
                   <<std, z, zs>>}),
     home |-> Homes,
     elf |-> (app :> Object("dyn", NoName, na, ta)) @@ (liba :> Object("dyn", sa, nl, tl))
             @@ (libb :> Object("dyn", NoName, nb, NoTags)) @@ (foreign :> Leaf),
     interp |-> NoInterp, platform |-> TRUE, includes |-> <<>>] :
    xp \in {liba, NoFile}, xs \in {libb, NoFile},
    yo \in {libb, foreign}, sa \in {NoName, y}, zs \in {app, NoFile},
    na \in {<<x>>, <<y, x, x>>, <<p, y>>},
    ta \in {NoTags, Rpath(<<other, Origin>>), Runpath(<<priv>>), Runpath(<<other, priv>>),
            RpathWhole(priv), RunpathWhole(other)},
    nl \in {<<y>>, <<x, y>>},
    tl \in {NoTags, Rpath(<<other>>), Runpath(<<std>>), Runpath(<<Origin>>)},
    nb \in {<<x>>, <<z, y>>} }

\* What the found files are, which file is the loader, and entries that hold $PLATFORM.
KindTrees ==
  { [at |-> Showing({<<priv, x, liba>>, <<std, y, libb>>, <<std, z, foreign>>}),
     home |-> Homes,
     elf |-> (app :> Object(ka, NoName, <<x>>, ta)) @@
             (liba :> [Object(kl, NoName, <<y>>, NoTags) EXCEPT !.regular = rl]) @@
             (libb :> Object(kb, NoName, <<z>>, tb)) @@
             (foreign :> Object(kf, NoName, <<>>, NoTags)),
     interp |-> int, platform |-> plat, includes |-> inc] :
    ka \in {"dyn", "data"}, kl \in {"dyn", "core", "data", "unreadable"}, rl \in BOOLEAN,
    kb \in {"dyn", "exec"}, kf \in {"dyn", "data", "core"},
    ta \in {Rpath(<<priv>>), Rpath(<<Platform>>)}, tb \in {NoTags, Runpath(<<Platform>>)},
    int \in {NoInterp, NoFile, foreign}, plat \in BOOLEAN, inc \in {<<>>, <<z, x>>} }

MCSysroots == SearchTrees \cup KindTrees
================================================================================
