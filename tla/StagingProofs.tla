------------------------------ MODULE StagingProofs ------------------------------
(***************************************************************************)
(* Whatever is asked for, the host makes every directory and file of the   *)
(* pack inside the staging root, at the path that the image gives it; what *)
(* is added is there or a warning says so; and what the walk found stays   *)
(* what the image shows.                                                   *)
(*                                                                         *)
(* A tree is good if it is typed and every path of it lies in a directory  *)
(* of it.  One lemma per write shows that it keeps a good tree good: each  *)
(* goes to a name in the directory where `image_dir` ended, and the walk   *)
(* ends in a directory of the tree, whatever links it read.                *)
(*                                                                         *)
(* The rest follows walks from one tree to another.  One that ended well   *)
(* ends there again (`FollowsTo`), as long as the directories stay and the *)
(* links it read are the same: so files that are only added to a tree      *)
(* leave every earlier one where it was (`AddInv`), and until the added    *)
(* files every link of the tree leads by names to a file (`Flat`), so that *)
(* nothing is displaced (`CoreInv`).                                       *)
(***************************************************************************)
EXTENDS Staging, SequenceTheorems, FiniteSetTheorems, WellFoundedInduction, TLAPS

\* What names are known.
LEMMA NamesKnown == MaxSteps \in Nat /\ MaxLinks \in Nat /\ OwnNames \subseteq Names /\ Root \in Names /\ Up \in Names
BY StagingAssumption

\* Sequences, whatever they hold.
LEMMA EndsOf ==
  ASSUME NEW S, NEW a \in Seq(S), NEW s \in S
  PROVE  /\ Append(a, s) \in Seq(S) /\ Append(a, s) # <<>> /\ Front(Append(a, s)) = a
         /\ Last(Append(a, s)) = s
         /\ a # <<>> => /\ Head(a) \in S /\ Tail(a) \in Seq(S) /\ Front(a) \in Seq(S) /\ Last(a) \in S
                        /\ Len(a) \in Nat \ {0}
         /\ \A b \in Seq(S) : a \o b \in Seq(S)
<1>1. Append(a, s) \in Seq(S) /\ Append(a, s) # <<>> /\ Front(Append(a, s)) = a
  BY DEF Front
<1>2. Last(Append(a, s)) = s
  BY DEF Last
<1>3. ASSUME a # <<>>
      PROVE  /\ Head(a) \in S /\ Tail(a) \in Seq(S) /\ Front(a) \in Seq(S) /\ Last(a) \in S
             /\ Len(a) \in Nat \ {0}
  <2>1. Len(a) \in Nat \ {0}
    BY <1>3
  <2>2. Head(a) \in S /\ Tail(a) \in Seq(S)
    BY <1>3
  <2>3. Last(a) \in S
    BY <2>1 DEF Last
  <2>4. Front(a) \in Seq(S)
    BY <2>1 DEF Front
  <2> QED
    BY <2>1, <2>2, <2>3, <2>4
<1>4. \A b \in Seq(S) : a \o b \in Seq(S)
  OBVIOUS
<1> QED
  BY <1>1, <1>2, <1>3, <1>4

\* The same for paths.
LEMMA PathEnds ==
  ASSUME NEW p \in Path
  PROVE  /\ \A s \in Names : Append(p, s) \in Path /\ Append(p, s) # <<>> /\ Parent(Append(p, s)) = p
         /\ p # <<>> => Head(p) \in Names /\ Tail(p) \in Path /\ Last(p) \in Names
         /\ Parent(p) \in Path
         /\ \A q \in Path : p \o q \in Path
<1>1. \A s \in Names : Append(p, s) \in Path /\ Append(p, s) # <<>> /\ Front(Append(p, s)) = p
  BY EndsOf, Zenon DEF Path
<1>2. Root \in Names
  BY NamesKnown
<1>3. p # <<>> => Head(p) \in Names /\ Tail(p) \in Path /\ Last(p) \in Names /\ Front(p) \in Path
  BY <1>2, EndsOf, Zenon DEF Path
<1>4. Parent(p) \in Path
  BY <1>3 DEF Parent
<1>5. \A q \in Path : p \o q \in Path
  BY <1>2, EndsOf, Zenon DEF Path
<1> QED
  BY <1>1, <1>3, <1>4, <1>5 DEF Parent

IsNode(n) == \/ n = Dir
             \/ \E of, u : n = [is |-> "file", of |-> of, upx |-> u]
             \/ \E to \in Path : n = LinkTo(to)
Typed(t)  == DOMAIN t \subseteq Path /\ \A p \in DOMAIN t : IsNode(t[p])
Closed(t) ==
  /\ <<>> \in DOMAIN t /\ t[<<>>].is = "dir"
  /\ \A p \in DOMAIN t \ {<<>>} : Parent(p) \in DOMAIN t /\ t[Parent(p)].is = "dir"
Good(t)   == Typed(t) /\ Closed(t)

\* A directory made, or a file replaced, in a directory of the tree.
LEMMA WithGood ==
  ASSUME NEW t, Good(t), NEW d \in DOMAIN t, t[d].is = "dir", NEW s \in Names,
         NEW n, IsNode(n), Append(d, s) \notin DOMAIN t \/ t[Append(d, s)].is # "dir"
  PROVE  Good(With(t, Append(d, s), n))
<1> DEFINE p == Append(d, s)
           u == With(t, p, n)
<1>1. d \in Path /\ p \in Path /\ p # <<>> /\ Parent(p) = d
  BY PathEnds DEF Good, Typed
<1>2. DOMAIN u = {p} \cup DOMAIN t /\ u[p] = n /\ \A q \in DOMAIN t : q # p => u[q] = t[q]
  BY DEF With
<1>3. Append(d, s) = p
  OBVIOUS
<1> HIDE DEF u, p
<1>4. Typed(u)
  BY <1>1, <1>2 DEF Good, Typed
<1>5. <<>> \in DOMAIN u /\ u[<<>>].is = "dir"
  BY <1>1, <1>2 DEF Good, Closed
<1>6. d # p
  BY <1>3 DEF Good, Closed
<1>7. ASSUME NEW q \in DOMAIN u \ {<<>>} PROVE Parent(q) \in DOMAIN u /\ u[Parent(q)].is = "dir"
  <2>1. CASE q = p
    BY <2>1, <1>1, <1>2, <1>6
  <2>2. CASE q # p
    <3>1. q \in DOMAIN t /\ Parent(q) \in DOMAIN t /\ t[Parent(q)].is = "dir"
      BY <2>2, <1>2 DEF Good, Closed
    <3>2. Parent(q) # p
      BY <3>1, <1>3
    <3> QED
      BY <3>1, <3>2, <1>2
  <2> QED
    BY <2>1, <2>2
<1> QED
  BY <1>4, <1>5, <1>7 DEF Good, Closed, u, p

--------------------------------------------------------------------------------
\* The walk of a path.

\* A nonempty set of numbers has a least one.
LEMMA LeastExists ==
  ASSUME NEW S \in SUBSET Nat, S # {}
  PROVE  \E m \in S : \A k_ \in S : m <= k_
<1> DEFINE Less == {pair \in Nat \X Nat : pair[1] < pair[2]}
<1>1. IsWellFoundedOn(Less, Nat)
  BY NatLessThanWellFounded DEF OpToRel
<1>2. PICK m \in S : \A i \in S : <<i, m>> \notin Less
  <2> HIDE DEF Less
  <2> QED
    BY <1>1, WFMin
<1>3. ASSUME NEW i \in S PROVE m <= i
  <2>1. ~ (i < m)
    BY <1>2
  <2> QED
    BY <2>1
<1> QED
  BY <1>3

\* What holds of 0, and of n if it holds of n - 1, holds of all numbers up to the last.
LEMMA UpTo ==
  ASSUME NEW N \in Nat, NEW S, 0 \in S, \A n \in 1 .. N : n - 1 \in S => n \in S
  PROVE  \A n \in 0 .. N : n \in S
<1> DEFINE Off == {n \in Nat : n <= N /\ n \notin S}
<1>1. ASSUME Off # {} PROVE FALSE
  <2>1. PICK m \in Off : \A i \in Off : m <= i
    BY <1>1, LeastExists
  <2>2. m # 0 /\ m \in Nat /\ m <= N /\ m \notin S
    BY <2>1
  <2>3. m \in 1 .. N /\ m - 1 \in Nat /\ m - 1 <= N /\ ~(m <= m - 1)
    BY <2>2
  <2>4. m - 1 \in S
    BY <2>1, <2>3
  <2> QED
    BY <2>2, <2>3, <2>4
<1> QED
  BY <1>1

\* The walk, step by step.
Start(t, path) ==
  [at |-> <<>>, todo |-> path, links |-> 0, missing |-> FALSE, ok |-> TRUE, tree |-> t]
NextWalk(w, how) == IF w.todo = <<>> THEN w ELSE WalkStep(w, how)
Walks(g, n, t, path, how) ==
  [i \in 0 .. n |-> IF i = 0 THEN Start(t, path) ELSE NextWalk(g[i - 1], how)]

\* The recursion of the walk has a solution.
LEMMA WalkExists ==
  ASSUME NEW t, NEW path, NEW how, NEW n \in Nat
  PROVE  \E g : g = Walks(g, n, t, path, how)
<1> DEFINE Off == {i \in Nat : ~ \E g : g = Walks(g, i, t, path, how)}
<1>1. ASSUME Off # {} PROVE FALSE
  <2>1. PICK m \in Off : \A i \in Off : m <= i
    BY <1>1, LeastExists
  <2>2. CASE m = 0
    <3> DEFINE h == [i \in 0 .. 0 |-> Start(t, path)]
    <3>1. h = Walks(h, 0, t, path, how)
      BY DEF Walks
    <3> QED
      BY <3>1, <2>1, <2>2
  <2>3. CASE m > 0
    <3>1. m - 1 \in Nat /\ ~(m <= m - 1)
      BY <2>3
    <3>2. PICK h : h = Walks(h, m - 1, t, path, how)
      BY <2>1, <3>1
    <3> DEFINE g == [i \in 0 .. m |-> IF i = m THEN NextWalk(h[m - 1], how) ELSE h[i]]
    <3>3. ASSUME NEW i \in 0 .. m
          PROVE  g[i] = IF i = 0 THEN Start(t, path) ELSE NextWalk(g[i - 1], how)
      <4>1. CASE i = m
        BY <4>1, <3>1
      <4>2. CASE i # m
        <5>1. i \in 0 .. m - 1
          BY <4>2
        <5>2. h[i] = IF i = 0 THEN Start(t, path) ELSE NextWalk(h[i - 1], how)
          <6>1. Walks(h, m - 1, t, path, how)[i]
                  = IF i = 0 THEN Start(t, path) ELSE NextWalk(h[i - 1], how)
            BY <5>1 DEF Walks
          <6> QED
            BY <3>2, <6>1
        <5>3. i # 0 => i - 1 \in 0 .. m /\ i - 1 # m
          BY <5>1
        <5> QED
          BY <4>2, <5>2, <5>3
      <4> QED
        BY <4>1, <4>2
    <3>4. g = Walks(g, m, t, path, how)
      <4>1. g = [i \in 0 .. m |-> g[i]]
        OBVIOUS
      <4> HIDE DEF g
      <4> QED
        BY <3>3, <4>1 DEF Walks
    <3> QED
      BY <3>4, <2>1
  <2> QED
    BY <2>1, <2>2, <2>3
<1> QED
  BY <1>1

\* The steps of its own path, and those that links may add.
StepsOf(path) == Len(path) + MaxSteps

\* They are a number.
LEMMA StepsAre ==
  ASSUME NEW path \in Path
  PROVE  StepsOf(path) \in Nat /\ StepsOf(path) >= Len(path) /\ Len(path) \in Nat
<1>1. MaxSteps \in Nat /\ Len(path) \in Nat
  BY NamesKnown DEF Path
<1> QED
  BY <1>1 DEF StepsOf

\* A walk of n steps that `image_dir` takes.
IsWalk(g, n, t, path, how) ==
  /\ g[0] = Start(t, path)
  /\ \A i \in 1 .. n : g[i] = NextWalk(g[i - 1], how)
  /\ Walked(t, path, how) = [g[n] EXCEPT !.ok = g[n].ok /\ g[n].todo = <<>>]

\* `image_dir` is a walk of at most so many steps.
LEMMA WalkedIs ==
  ASSUME NEW t, NEW path \in Path, NEW how, NEW N, N = StepsOf(path)
  PROVE  \E g : IsWalk(g, N, t, path, how)
<1> DEFINE go == CHOOSE g : g = Walks(g, N, t, path, how)
<1>1. N \in Nat
  BY StepsAre
<1>2. go = Walks(go, N, t, path, how)
  BY <1>1, WalkExists
<1>3. Walked(t, path, how) = [go[N] EXCEPT !.ok = go[N].ok /\ go[N].todo = <<>>]
  BY DEF Walked, Walks, Start, NextWalk, StepsOf
<1> HIDE DEF go
<1>4. \A i \in 0 .. N : go[i] = IF i = 0 THEN Start(t, path) ELSE NextWalk(go[i - 1], how)
  <2>1. \A i \in 0 .. N :
          Walks(go, N, t, path, how)[i] = IF i = 0 THEN Start(t, path) ELSE NextWalk(go[i - 1], how)
    BY DEF Walks
  <2> QED
    BY <1>2, <2>1
<1>5. go[0] = Start(t, path) /\ \A n \in 1 .. N : go[n] = NextWalk(go[n - 1], how)
  BY <1>1, <1>4
<1> QED
  BY <1>3, <1>5 DEF IsWalk

\* A walk inside a good tree: it stands in a directory, or where nothing is.
WalkInv(w, t, how) ==
  /\ w \in [at : Path, todo : Path, links : Nat, missing : BOOLEAN, ok : BOOLEAN, tree : {w.tree}]
  /\ Good(w.tree) /\ (how = "look" => w.tree = t)
  /\ w.missing => how = "look"
  /\ w.ok /\ ~w.missing => w.at \in DOMAIN w.tree /\ w.tree[w.at].is = "dir"
  /\ ~w.ok => w.todo = <<>>

\* What a node of a good tree is.
LEMMA NodeCases ==
  ASSUME NEW n, IsNode(n)
  PROVE  /\ n.is \in {"dir", "file", "link"}
         /\ n.is = "link" => n.to \in Path /\ n = LinkTo(n.to)
BY DEF IsNode, Dir, LinkTo

\* One step of the walk.
LEMMA WalkStepInv ==
  ASSUME NEW w, NEW t, NEW how \in {"make", "look"}, WalkInv(w, t, how), w.todo # <<>>
  PROVE  WalkInv(WalkStep(w, how), t, how)
<1> DEFINE s == Head(w.todo)
           next == Append(w.at, s)
           node == w.tree[next]
           v == WalkStep(w, how)
<1>1. s \in Names /\ Tail(w.todo) \in Path /\ w.at \in Path /\ next \in Path /\ Parent(w.at) \in Path
  BY PathEnds DEF WalkInv
<1>2. w.ok /\ Good(w.tree) /\ w.links \in Nat
  BY DEF WalkInv
<1>3. <<>> \in Path /\ <<>> \in DOMAIN w.tree /\ w.tree[<<>>].is = "dir"
  BY <1>2 DEF Good, Closed, Path
<1>4. CASE s = Root
  <2>1. v = [w EXCEPT !.todo = Tail(w.todo), !.at = <<>>, !.missing = FALSE]
    BY <1>4 DEF WalkStep
  <2> HIDE DEF v, s, next, node
  <2>2. WalkInv(v, t, how)
    BY <2>1, <1>1, <1>2, <1>3 DEF WalkInv
  <2> QED
    BY <2>2 DEF v
<1>5. CASE s # Root /\ s = Up
  <2>1. CASE w.missing
    <3>1. v = [w EXCEPT !.ok = FALSE, !.todo = <<>>]
      BY <1>5, <2>1 DEF WalkStep
    <3> HIDE DEF v, s, next, node
    <3>2. WalkInv(v, t, how)
      BY <3>1, <1>1, <1>2, <1>3 DEF WalkInv
    <3> QED
      BY <3>2 DEF v
  <2>2. CASE ~w.missing
    <3>1. v = [w EXCEPT !.todo = Tail(w.todo), !.at = Parent(w.at)]
      BY <1>5, <2>2 DEF WalkStep
    <3>2. Parent(w.at) \in DOMAIN w.tree /\ w.tree[Parent(w.at)].is = "dir"
      <4>1. CASE w.at = <<>>
        BY <4>1, <1>3 DEF Parent
      <4>2. CASE w.at # <<>>
        BY <4>2, <1>2, <2>2 DEF WalkInv, Good, Closed
      <4> QED
        BY <4>1, <4>2
    <3> HIDE DEF v, s, next, node
    <3>3. WalkInv(v, t, how)
      BY <3>1, <3>2, <2>2, <1>1, <1>2, <1>3 DEF WalkInv
    <3> QED
      BY <3>3 DEF v
  <2> QED
    BY <2>1, <2>2
<1>6. CASE s # Root /\ s # Up /\ w.missing
  <2>1. v = [w EXCEPT !.todo = Tail(w.todo), !.at = next]
    BY <1>6 DEF WalkStep
  <2> HIDE DEF v, s, next, node
  <2>2. WalkInv(v, t, how)
    BY <2>1, <1>1, <1>2, <1>6 DEF WalkInv
  <2> QED
    BY <2>2 DEF v
<1>7. CASE s # Root /\ s # Up /\ ~w.missing /\ next \notin DOMAIN w.tree
  <2>1. CASE how = "make"
    <3>1. v = [w EXCEPT !.todo = Tail(w.todo), !.at = next, !.tree = With(w.tree, next, Dir)]
      BY <1>7, <2>1 DEF WalkStep
    <3>2. Good(With(w.tree, next, Dir))
      <4>1. w.at \in DOMAIN w.tree /\ w.tree[w.at].is = "dir"
        BY <1>2, <1>7 DEF WalkInv
      <4>2. IsNode(Dir)
        BY DEF IsNode
      <4> QED
        BY <4>1, <4>2, <1>1, <1>2, <1>7, WithGood, Zenon
    <3>3. next \in DOMAIN With(w.tree, next, Dir) /\ With(w.tree, next, Dir)[next].is = "dir"
      BY DEF With, Dir
    <3> HIDE DEF v, s, next, node
    <3>4. WalkInv(v, t, how)
      BY <3>1, <3>2, <3>3, <2>1, <1>1, <1>2, <1>7 DEF WalkInv
    <3> QED
      BY <3>4 DEF v
  <2>2. CASE how = "look"
    <3>1. v = [w EXCEPT !.todo = Tail(w.todo), !.at = next, !.missing = TRUE]
      BY <1>7, <2>2 DEF WalkStep
    <3> HIDE DEF v, s, next, node
    <3>2. WalkInv(v, t, how)
      BY <3>1, <2>2, <1>1, <1>2, <1>7 DEF WalkInv
    <3> QED
      BY <3>2 DEF v
  <2> QED
    BY <2>1, <2>2
<1>8. CASE s # Root /\ s # Up /\ ~w.missing /\ next \in DOMAIN w.tree
  <2>0. IsNode(node)
    BY <1>2, <1>8 DEF Good, Typed
  <2>1. CASE node.is = "dir"
    <3>1. v = [w EXCEPT !.todo = Tail(w.todo), !.at = next]
      BY <1>8, <2>1 DEF WalkStep
    <3>2. next \in DOMAIN w.tree /\ w.tree[next].is = "dir"
      BY <1>8, <2>1
    <3> HIDE DEF v, s, next, node
    <3>3. WalkInv(v, t, how)
      BY <3>1, <3>2, <1>1, <1>2, <1>8 DEF WalkInv
    <3> QED
      BY <3>3 DEF v
  <2>2. CASE node.is = "link" /\ w.links # MaxLinks
    <3>1. v = [w EXCEPT !.todo = node.to \o Tail(w.todo), !.links = w.links + 1]
      BY <1>8, <2>2 DEF WalkStep
    <3>2. node.to \o Tail(w.todo) \in Path
      BY <2>0, <2>2, <1>1, NodeCases, PathEnds, Zenon
    <3>3. w.links + 1 \in Nat
      BY <1>2
    <3> DEFINE todo == node.to \o Tail(w.todo)
               links == w.links + 1
    <3>4. todo \in Path /\ links \in Nat /\ v = [w EXCEPT !.todo = todo, !.links = links]
      BY <3>1, <3>2, <3>3
    <3> HIDE DEF v, s, next, node, todo, links
    <3>5. WalkInv(v, t, how)
      BY <3>4, <1>2 DEF WalkInv
    <3> QED
      BY <3>5 DEF v
  <2>3. CASE node.is # "dir" /\ ~(node.is = "link" /\ w.links # MaxLinks)
    <3>1. v = [w EXCEPT !.ok = FALSE, !.todo = <<>>]
      BY <1>8, <2>3 DEF WalkStep
    <3> HIDE DEF v, s, next, node
    <3>2. WalkInv(v, t, how)
      BY <3>1, <1>1, <1>2, <1>3, <1>8 DEF WalkInv
    <3> QED
      BY <3>2 DEF v
  <2> QED
    BY <2>1, <2>2, <2>3
<1> QED
  BY <1>4, <1>5, <1>6, <1>7, <1>8

\* `image_dir` on a good tree: the tree stays good, and the walk ends in a directory of it.
LEMMA WalkedInv ==
  ASSUME NEW t, Good(t), NEW path \in Path, NEW how \in {"make", "look"}
  PROVE  LET w == Walked(t, path, how) IN
           /\ DOMAIN w = {"at", "todo", "links", "missing", "ok", "tree"}
           /\ w.at \in Path /\ w.ok \in BOOLEAN /\ w.missing \in BOOLEAN
           /\ Good(w.tree) /\ (how = "look" => w.tree = t)
           /\ w.missing => how = "look"
           /\ w.ok /\ ~w.missing => w.at \in DOMAIN w.tree /\ w.tree[w.at].is = "dir"
<1> DEFINE N == StepsOf(path)
<1>1. N \in Nat /\ N = StepsOf(path)
  BY StepsAre
<1> HIDE DEF N
<1>2. PICK g : IsWalk(g, N, t, path, how)
  BY <1>1, WalkedIs, Zenon
<1>3. WalkInv(g[0], t, how)
  <2>1. <<>> \in Path
    BY DEF Path
  <2> QED
    BY <1>2, <2>1 DEF WalkInv, Start, Good, Closed, IsWalk
<1>4. ASSUME NEW n \in 1 .. N, WalkInv(g[n - 1], t, how) PROVE WalkInv(g[n], t, how)
  <2>1. g[n] = IF g[n - 1].todo = <<>> THEN g[n - 1] ELSE WalkStep(g[n - 1], how)
    BY <1>2 DEF NextWalk, IsWalk
  <2> QED
    BY <2>1, <1>4, WalkStepInv
<1> DEFINE Off == {n \in Nat : n <= N /\ ~WalkInv(g[n], t, how)}
<1>5. Off = {}
  <2> SUFFICES ASSUME Off # {} PROVE FALSE
    OBVIOUS
  <2>1. PICK m \in Off : \A i \in Off : m <= i
    BY LeastExists
  <2>2. CASE m = 0
    BY <2>1, <2>2, <1>3
  <2>3. CASE m > 0
    <3>1. m \in 1 .. N /\ m - 1 \in Nat /\ m - 1 <= N /\ ~(m <= m - 1)
      BY <2>1, <2>3, <1>1
    <3> QED
      BY <2>1, <3>1, <1>4
  <2> QED
    BY <2>1, <2>2, <2>3
<1>6. WalkInv(g[N], t, how)
  BY <1>1, <1>5
<1> HIDE DEF Off
<1> DEFINE e == g[N]
           w == Walked(t, path, how)
<1>7. /\ e \in [at : Path, todo : Path, links : Nat, missing : BOOLEAN, ok : BOOLEAN, tree : {e.tree}]
      /\ w = [e EXCEPT !.ok = e.ok /\ e.todo = <<>>]
  BY <1>6, <1>2 DEF WalkInv, IsWalk
<1> HIDE DEF e, w
<1>8. /\ w.at = e.at /\ w.missing = e.missing /\ w.tree = e.tree
      /\ w.ok = (e.ok /\ e.todo = <<>>)
      /\ DOMAIN w = {"at", "todo", "links", "missing", "ok", "tree"}
  BY <1>7
<1>9. WalkInv(e, t, how)
  BY <1>6 DEF e
<1>10. /\ DOMAIN w = {"at", "todo", "links", "missing", "ok", "tree"}
       /\ w.at \in Path /\ w.ok \in BOOLEAN /\ w.missing \in BOOLEAN
       /\ Good(w.tree) /\ (how = "look" => w.tree = t)
       /\ w.missing => how = "look"
       /\ w.ok /\ ~w.missing => w.at \in DOMAIN w.tree /\ w.tree[w.at].is = "dir"
  BY <1>8, <1>9 DEF WalkInv
<1> QED
  BY <1>10 DEF w

\* `staged_path` on a good tree.
LEMMA StagedPathInv ==
  ASSUME NEW t, Good(t), NEW path \in Path \ {<<>>}, NEW how \in {"make", "look"}
  PROVE  LET w == StagedPath(t, path, how) IN
           \E d \in Path :
             /\ w.at = Append(d, Last(path)) /\ Last(path) \in Names
             /\ Good(w.tree) /\ w.ok \in BOOLEAN /\ w.missing \in BOOLEAN
             /\ how = "look" => w.tree = t
             /\ w.missing => how = "look"
             /\ w.ok /\ ~w.missing => d \in DOMAIN w.tree /\ w.tree[d].is = "dir"
<1> DEFINE v == Walked(t, Parent(path), how)
           w == StagedPath(t, path, how)
<1>1. Parent(path) \in Path /\ Last(path) \in Names
  BY PathEnds
<1>2. /\ DOMAIN v = {"at", "todo", "links", "missing", "ok", "tree"}
      /\ v.at \in Path /\ v.ok \in BOOLEAN /\ v.missing \in BOOLEAN
      /\ Good(v.tree) /\ (how = "look" => v.tree = t)
      /\ v.missing => how = "look"
      /\ v.ok /\ ~v.missing => v.at \in DOMAIN v.tree /\ v.tree[v.at].is = "dir"
  BY <1>1, WalkedInv, Zenon
<1>3. w = [v EXCEPT !.at = IF path = <<>> THEN v.at ELSE Append(v.at, Last(path))]
  BY DEF StagedPath
<1>4. w = [v EXCEPT !.at = Append(v.at, Last(path))]
  BY <1>3
<1> HIDE DEF v, w
<1>6. /\ w.at = Append(v.at, Last(path)) /\ w.ok = v.ok /\ w.missing = v.missing /\ w.tree = v.tree
  BY <1>2, <1>4
<1>7. \E d \in Path :
             /\ w.at = Append(d, Last(path)) /\ Last(path) \in Names
             /\ Good(w.tree) /\ w.ok \in BOOLEAN /\ w.missing \in BOOLEAN
             /\ how = "look" => w.tree = t
             /\ w.missing => how = "look"
             /\ w.ok /\ ~w.missing => d \in DOMAIN w.tree /\ w.tree[d].is = "dir"
  BY <1>1, <1>2, <1>6
<1> QED
  BY <1>7 DEF w

--------------------------------------------------------------------------------
\* What is written, and over what.

\* `copy_into`, `write_into`: a file, wherever its directory leads.
LEMMA ReplacedGood ==
  ASSUME NEW t, Good(t), NEW path \in Path \ {<<>>}, NEW n, IsNode(n)
  PROVE  Good(Replaced(t, path, n).tree)
<1> DEFINE w == StagedPath(t, path, "make")
           blocked == w.at \in DOMAIN w.tree /\ w.tree[w.at].is = "dir"
<1>1. PICK d \in Path :
        /\ w.at = Append(d, Last(path)) /\ Last(path) \in Names
        /\ Good(w.tree) /\ w.ok \in BOOLEAN /\ w.missing \in BOOLEAN
        /\ w.missing => "make" = "look"
        /\ w.ok /\ ~w.missing => d \in DOMAIN w.tree /\ w.tree[d].is = "dir"
  BY StagedPathInv
<1>2. Replaced(t, path, n).tree = IF w.ok /\ ~blocked THEN With(w.tree, w.at, n) ELSE w.tree
  BY DEF Replaced
<1> HIDE DEF w
<1>3. CASE w.ok /\ ~blocked
  <2>1. d \in DOMAIN w.tree /\ w.tree[d].is = "dir"
    BY <1>1, <1>3
  <2>2. Append(d, Last(path)) \notin DOMAIN w.tree \/ w.tree[Append(d, Last(path))].is # "dir"
    BY <1>1, <1>3
  <2>3. Good(With(w.tree, Append(d, Last(path)), n))
    BY <1>1, <2>1, <2>2, WithGood, Zenon
  <2> QED
    BY <1>1, <1>2, <1>3, <2>3
<1>4. CASE ~(w.ok /\ ~blocked)
  BY <1>1, <1>2, <1>4
<1> QED
  BY <1>3, <1>4

\* `place_symlink`.
LEMMA LinkedGood ==
  ASSUME NEW t, Good(t), NEW path \in Path \ {<<>>}, NEW value \in Path
  PROVE  Good(Linked(t, path, value).tree)
<1> DEFINE w == StagedPath(t, path, "make")
           free == w.ok /\ w.at \notin DOMAIN w.tree
<1>1. PICK d \in Path :
        /\ w.at = Append(d, Last(path)) /\ Last(path) \in Names
        /\ Good(w.tree) /\ w.ok \in BOOLEAN /\ w.missing \in BOOLEAN
        /\ w.missing => "make" = "look"
        /\ w.ok /\ ~w.missing => d \in DOMAIN w.tree /\ w.tree[d].is = "dir"
  BY StagedPathInv
<1>2. Linked(t, path, value).tree = IF free THEN With(w.tree, w.at, LinkTo(value)) ELSE w.tree
  BY DEF Linked
<1>3. IsNode(LinkTo(value))
  BY DEF IsNode
<1> HIDE DEF w
<1>4. CASE free
  <2>1. d \in DOMAIN w.tree /\ w.tree[d].is = "dir"
    BY <1>1, <1>4
  <2>2. Append(d, Last(path)) \notin DOMAIN w.tree
    BY <1>1, <1>4
  <2>3. Good(With(w.tree, Append(d, Last(path)), LinkTo(value)))
    BY <1>1, <1>3, <2>1, <2>2, WithGood, Zenon
  <2> QED
    BY <1>1, <1>2, <1>4, <2>3
<1>5. CASE ~free
  BY <1>1, <1>2, <1>5
<1> QED
  BY <1>4, <1>5

\* Every directory that PT_INTERP spells is one of the tree.
LEMMA InterpTargetGood ==
  ASSUME NEW t, Good(t), NEW path \in Path \ {<<>>}
  PROVE  LET w == InterpTarget(t, path) IN Good(w.tree) /\ w.at \in Path \ {<<>>}
<1> DEFINE v == Walked(t, Parent(path), "make")
           w == InterpTarget(t, path)
<1>1. Parent(path) \in Path /\ Last(path) \in Names
  BY PathEnds
<1>2. DOMAIN v = {"at", "todo", "links", "missing", "ok", "tree"} /\ v.at \in Path /\ Good(v.tree)
  BY <1>1, WalkedInv, Zenon
<1>3. w = [v EXCEPT !.at = Append(v.at, Last(path)), !.ok = v.ok /\ Last(path) \notin {Root, Up}]
  BY DEF InterpTarget
<1> HIDE DEF v, w
<1>4. w.at = Append(v.at, Last(path)) /\ w.tree = v.tree
  BY <1>2, <1>3
<1>5. Append(v.at, Last(path)) \in Path \ {<<>>}
  BY <1>1, <1>2, PathEnds
<1>6. Good(w.tree) /\ w.at \in Path \ {<<>>}
  BY <1>2, <1>4, <1>5
<1> QED
  BY <1>6 DEF w

\* A path joined to a directory is one.
LEMMA JoinedPathIs ==
  ASSUME NEW dir \in Path, NEW value \in Path
  PROVE  Joined(dir, value) \in Path
BY PathEnds DEF Joined

\* `symlink_soname`: its link lies in a directory that is there.
LEMMA SonameGood ==
  ASSUME NEW t, Good(t), NEW lib \in [path : Path \ {<<>>}, soname : Path]
  PROVE  Good(SonameLinked(t, lib).tree)
<1> DEFINE raw == Joined(Parent(lib.path), lib.soname)
           w   == Walked(t, Parent(raw), "look")
           at  == Append(w.at, Last(raw))
           value == <<Last(lib.path)>>
<1>1. raw \in Path /\ Parent(raw) \in Path /\ (raw # <<>> => Last(raw) \in Names)
  BY PathEnds, JoinedPathIs
<1>2. /\ w.tree = t /\ w.ok \in BOOLEAN /\ w.missing \in BOOLEAN
      /\ w.ok /\ ~w.missing => w.at \in DOMAIN t /\ t[w.at].is = "dir"
  <2>1. /\ w.ok \in BOOLEAN /\ w.missing \in BOOLEAN
        /\ "look" = "look" => w.tree = t
        /\ w.ok /\ ~w.missing => w.at \in DOMAIN w.tree /\ w.tree[w.at].is = "dir"
    BY <1>1, WalkedInv, Zenon
  <2> HIDE DEF w
  <2> QED
    BY <2>1
<1>3. IsNode(LinkTo(value))
  <2>1. value \in Path
    BY PathEnds DEF Path
  <2> QED
    BY <2>1 DEF IsNode
<1>4. SonameLinked(t, lib).tree
        = IF ~w.ok \/ raw = <<>> \/ Last(raw) \in {Root, Up} \/ at \in DOMAIN t \/ w.missing THEN t
          ELSE With(t, at, LinkTo(value))
  BY DEF SonameLinked, Failed, Made
<1> HIDE DEF raw, w, value
<1>5. CASE ~w.ok \/ raw = <<>> \/ at \in DOMAIN t \/ w.missing
  BY <1>4, <1>5
<1>6. CASE ~(~w.ok \/ raw = <<>> \/ at \in DOMAIN t \/ w.missing)
  <2>1. w.at \in DOMAIN t /\ t[w.at].is = "dir" /\ Last(raw) \in Names /\ at \notin DOMAIN t
    BY <1>1, <1>2, <1>6
  <2>2. Good(With(t, Append(w.at, Last(raw)), LinkTo(value)))
    BY <1>3, <2>1, WithGood, Zenon
  <2> QED
    BY <1>4, <2>2
<1> QED
  BY <1>5, <1>6

\* A library and its soname link.
LEMMA LibraryGood ==
  ASSUME NEW t, Good(t), NEW lib \in [path : Path \ {<<>>}, soname : Path]
  PROVE  Good(LibraryStaged(t, lib).tree)
<1> DEFINE copied == Replaced(t, lib.path, File(lib.path))
<1>1. Good(copied.tree)
  <2>1. IsNode(File(lib.path))
    BY DEF IsNode, File
  <2> QED
    BY <2>1, ReplacedGood
<1>2. Good(SonameLinked(copied.tree, lib).tree)
  BY <1>1, SonameGood
<1>3. LibraryStaged(t, lib) = IF copied.ok /\ <<Last(lib.path)>> # lib.soname
                              THEN SonameLinked(copied.tree, lib) ELSE copied
  BY DEF LibraryStaged
<1> QED
  BY <1>1, <1>2, <1>3

--------------------------------------------------------------------------------
\* Lists of files.

\* A list of files to stage.
IsEntry(f) == f.at \in Path \ {<<>>} /\ IsNode(f.node) /\ f.node.is = "file"
Listed(fs) == \E S : fs \in Seq(S) /\ \A f \in S : IsEntry(f)

\* Two lists, one after the other.
LEMMA ListedJoin ==
  ASSUME NEW a, Listed(a), NEW b, Listed(b)
  PROVE  Listed(a \o b)
<1>1. PICK S : a \in Seq(S) /\ \A f \in S : IsEntry(f)
  BY DEF Listed
<1>2. PICK T : b \in Seq(T) /\ \A f \in T : IsEntry(f)
  BY DEF Listed
<1> DEFINE U == S \cup T
<1>3. a \in Seq(U) /\ b \in Seq(U)
  BY <1>1, <1>2
<1>4. a \o b \in Seq(U) /\ \A f \in U : IsEntry(f)
  BY <1>1, <1>2, <1>3
<1> QED
  BY <1>4 DEF Listed

\* One file, if it is asked for.
LEMMA ListedWhen ==
  ASSUME NEW asked, NEW f, asked => IsEntry(f)
  PROVE  Listed(When(asked, f))
<1>1. CASE asked
  <2>1. When(asked, f) = <<f>> /\ <<f>> \in Seq({f})
    BY <1>1 DEF When
  <2>2. \A g \in {f} : IsEntry(g)
    BY <1>1
  <2>3. \E S : When(asked, f) \in Seq(S) /\ \A g \in S : IsEntry(g)
    <3> WITNESS {f}
    <3> QED
      BY <2>1, <2>2
  <2> QED
    BY <2>3, Zenon DEF Listed
<1>2. CASE ~asked
  <2>1. When(asked, f) = <<>> /\ <<>> \in Seq({})
    BY <1>2 DEF When
  <2>2. \E S : When(asked, f) \in Seq(S) /\ \A g \in S : IsEntry(g)
    <3> WITNESS {}
    <3> QED
      BY <2>1
  <2> QED
    BY <2>2, Zenon DEF Listed
<1> QED
  BY <1>1, <1>2

\* The files of one step, one after the other.
NextFile(res, f) ==
  IF ~res.ok THEN res ELSE IF f.there THEN Replaced(res.tree, f.at, f.node) ELSE Failed(res.tree)
Fills(g, n, t, files) == [i \in 0 .. n |-> IF i = 0 THEN Made(t) ELSE NextFile(g[i - 1], files[i])]

\* The recursion over the files has a solution.
LEMMA FillExists ==
  ASSUME NEW t, NEW files, NEW n \in Nat
  PROVE  \E g : g = Fills(g, n, t, files)
<1> DEFINE Off == {i \in Nat : ~ \E g : g = Fills(g, i, t, files)}
<1>1. ASSUME Off # {} PROVE FALSE
  <2>1. PICK m \in Off : \A i \in Off : m <= i
    BY <1>1, LeastExists
  <2>2. CASE m = 0
    <3> DEFINE h == [i \in 0 .. 0 |-> Made(t)]
    <3>1. h = Fills(h, 0, t, files)
      BY DEF Fills
    <3> QED
      BY <3>1, <2>1, <2>2
  <2>3. CASE m > 0
    <3>1. m - 1 \in Nat /\ ~(m <= m - 1)
      BY <2>3
    <3>2. PICK h : h = Fills(h, m - 1, t, files)
      BY <2>1, <3>1
    <3> DEFINE g == [i \in 0 .. m |-> IF i = m THEN NextFile(h[m - 1], files[m]) ELSE h[i]]
    <3>3. ASSUME NEW i \in 0 .. m
          PROVE  g[i] = IF i = 0 THEN Made(t) ELSE NextFile(g[i - 1], files[i])
      <4>1. CASE i = m
        BY <4>1, <3>1
      <4>2. CASE i # m
        <5>1. i \in 0 .. m - 1
          BY <4>2
        <5>2. h[i] = IF i = 0 THEN Made(t) ELSE NextFile(h[i - 1], files[i])
          <6>1. Fills(h, m - 1, t, files)[i]
                  = IF i = 0 THEN Made(t) ELSE NextFile(h[i - 1], files[i])
            BY <5>1 DEF Fills
          <6> QED
            BY <3>2, <6>1
        <5>3. i # 0 => i - 1 \in 0 .. m /\ i - 1 # m
          BY <5>1
        <5> QED
          BY <4>2, <5>2, <5>3
      <4> QED
        BY <4>1, <4>2
    <3>4. g = Fills(g, m, t, files)
      <4>1. g = [i \in 0 .. m |-> g[i]]
        OBVIOUS
      <4> HIDE DEF g
      <4> QED
        BY <3>3, <4>1 DEF Fills
    <3> QED
      BY <3>4, <2>1
  <2> QED
    BY <2>1, <2>2, <2>3
<1> QED
  BY <1>1

\* The files that `stage_default_includes` and `stage_runtime_extras` write, file by file.
IsFill(g, n, t, files) ==
  /\ g[0] = Made(t)
  /\ \A i \in 1 .. n : g[i] = NextFile(g[i - 1], files[i])
  /\ ReplacedAll(t, files) = g[n]

\* They are written one after the other.
LEMMA FilledIs ==
  ASSUME NEW t, NEW files, Listed(files), NEW N, N = Len(files)
  PROVE  N \in Nat /\ (\A i \in 1 .. N : IsEntry(files[i])) /\ \E g : IsFill(g, N, t, files)
<1> DEFINE go == CHOOSE g : g = Fills(g, N, t, files)
<1>1. N \in Nat /\ \A i \in 1 .. N : IsEntry(files[i])
  BY DEF Listed
<1>2. go = Fills(go, N, t, files)
  BY <1>1, FillExists
<1>3. ReplacedAll(t, files) = go[N]
  BY DEF ReplacedAll, Fills, NextFile
<1> HIDE DEF go
<1>4. \A i \in 0 .. N : go[i] = IF i = 0 THEN Made(t) ELSE NextFile(go[i - 1], files[i])
  <2>1. \A i \in 0 .. N :
          Fills(go, N, t, files)[i] = IF i = 0 THEN Made(t) ELSE NextFile(go[i - 1], files[i])
    BY DEF Fills
  <2> QED
    BY <1>2, <2>1
<1>5. go[0] = Made(t) /\ \A i \in 1 .. N : go[i] = NextFile(go[i - 1], files[i])
  BY <1>1, <1>4
<1>6. IsFill(go, N, t, files)
  BY <1>3, <1>5 DEF IsFill
<1> QED
  BY <1>1, <1>6

\* Several files of one step, up to the first that fails.
LEMMA AllGood ==
  ASSUME NEW t, Good(t), NEW files, Listed(files)
  PROVE  Good(ReplacedAll(t, files).tree)
<1> DEFINE N == Len(files)
<1>1. N \in Nat /\ (\A i \in 1 .. N : IsEntry(files[i])) /\ \E g : IsFill(g, N, t, files)
  BY FilledIs
<1> HIDE DEF N
<1>2. PICK g : IsFill(g, N, t, files)
  BY <1>1
<1> DEFINE S == {n \in 0 .. N : Good(g[n].tree)}
<1>3. 0 \in S
  BY <1>1, <1>2 DEF IsFill, Made
<1>4. ASSUME NEW n \in 1 .. N, n - 1 \in S PROVE n \in S
  <2>1. g[n] = NextFile(g[n - 1], files[n]) /\ Good(g[n - 1].tree) /\ n \in 0 .. N
    BY <1>2, <1>4 DEF IsFill
  <2>2. files[n].at \in Path \ {<<>>} /\ IsNode(files[n].node)
    BY <1>1 DEF IsEntry
  <2>3. Good(Replaced(g[n - 1].tree, files[n].at, files[n].node).tree)
    BY <2>1, <2>2, ReplacedGood
  <2> QED
    BY <2>1, <2>3 DEF NextFile, Failed
<1>5. \A n \in 0 .. N : n \in S
  <2> HIDE DEF S
  <2> QED
    BY <1>1, <1>3, <1>4, UpTo
<1> QED
  BY <1>1, <1>2, <1>5 DEF IsFill

--------------------------------------------------------------------------------
\* Links, and what libc is beside.

\* The longest common prefix is no longer than either path, and the two share it.
LEMMA CommonPrefixFits ==
  ASSUME NEW S, NEW a \in Seq(S), NEW b \in Seq(S)
  PROVE  LET n == Len(LongestCommonPrefix({a, b}))
         IN  n \in Nat /\ n <= Len(a) /\ n <= Len(b) /\ SubSeq(a, 1, n) = SubSeq(b, 1, n)
<1> DEFINE C == CommonPrefixes({a, b})
           Rest == {i \in Nat : \E c \in C : Len(c) = Len(a) - i}
<1>1. \A c \in C : /\ c \in Seq(S) /\ Len(c) \in Nat /\ Len(c) <= Len(a) /\ Len(c) <= Len(b)
                  /\ SubSeq(a, 1, Len(c)) = SubSeq(b, 1, Len(c))
  <2> TAKE c \in C
  <2>1. PICK s \in {a, b} : \E l \in 0 .. Len(s) : c = SubSeq(s, 1, l)
    BY DEF CommonPrefixes, Prefixes
  <2>2. c \in Seq(S)
    BY <2>1
  <2>3. IsPrefix(c, a) /\ IsPrefix(c, b)
    BY DEF CommonPrefixes
  <2> QED
    BY <2>2, <2>3 DEF IsPrefix
<1>2. <<>> \in C
  <2>1. <<>> = SubSeq(a, 1, 0) /\ 0 \in 0 .. Len(a)
    BY SubSeqEmpty
  <2>2. IsPrefix(<<>>, a) /\ IsPrefix(<<>>, b)
    <3>1. Len(<<>>) = 0 /\ SubSeq(<<>>, 1, 0) = <<>> /\ SubSeq(a, 1, 0) = <<>> /\ SubSeq(b, 1, 0) = <<>>
      BY SubSeqEmpty
    <3> QED
      BY <3>1 DEF IsPrefix
  <2> QED
    BY <2>1, <2>2 DEF CommonPrefixes, Prefixes
<1>3. Rest # {}
  <2>1. Len(a) \in Nat /\ Len(<<>>) = Len(a) - Len(a)
    OBVIOUS
  <2> HIDE DEF C
  <2> QED
    BY <1>2, <2>1
<1>4. PICK m \in Rest : \A i \in Rest : m <= i
  <2> HIDE DEF C
  <2> QED
    BY <1>3, LeastExists
<1>5. PICK c \in C : Len(c) = Len(a) - m
  <2> HIDE DEF C
  <2> QED
    BY <1>4
<1>6. \A o \in C : Len(o) <= Len(c)
  <2> TAKE o \in C
  <2> HIDE DEF C
  <2>1. Len(o) \in Nat /\ Len(o) <= Len(a) /\ Len(a) \in Nat
    BY <1>1
  <2>2. Len(a) - Len(o) \in Rest
    BY <2>1
  <2>3. m <= Len(a) - Len(o)
    BY <1>4, <2>2, Zenon
  <2> HIDE DEF Rest
  <2>4. m \in Nat
    BY <1>4 DEF Rest
  <2> QED
    BY <1>5, <2>1, <2>3, <2>4
<1>7. LongestCommonPrefix({a, b}) \in C
  <2>1. \E l \in C : \A o \in C : Len(o) <= Len(l)
    <3> HIDE DEF C
    <3> QED
      BY <1>6
  <2> QED
    BY <2>1 DEF LongestCommonPrefix
<1> HIDE DEF C
<1> QED
  BY <1>1, <1>7

\* `relative_link_value` gives a path.
LEMMA RelativeIs ==
  ASSUME NEW from \in Path, NEW to \in Path
  PROVE  RelativeValue(from, to) \in Path
<1> DEFINE n == Len(LongestCommonPrefix({from, to}))
           ups == [i \in 1 .. Len(from) - n |-> Up]
<1>1. n \in Nat /\ n <= Len(from) /\ n <= Len(to)
  BY CommonPrefixFits, Zenon DEF Path
<1> HIDE DEF n
<1>2. Len(from) \in Nat /\ Len(to) \in Nat
  BY DEF Path
<1>3. ups \in Seq(Names)
  <2>1. Len(from) - n \in Nat
    BY <1>1, <1>2
  <2>2. Up \in Names
    BY NamesKnown
  <2> QED
    BY <2>1, <2>2
<1>4. SubSeq(to, n + 1, Len(to)) \in Seq(Names)
  BY <1>1, <1>2 DEF Path
<1> HIDE DEF ups
<1>5. ups \o SubSeq(to, n + 1, Len(to)) \in Seq(Names)
  BY <1>3, <1>4
<1> QED
  BY <1>5 DEF RelativeValue, Path, n, ups

\* The elements of a list.
LEMMA ElementsOf ==
  ASSUME NEW S, NEW a \in Seq(S)
  PROVE  \A i \in DOMAIN a : i \in Nat /\ a[i] \in S
OBVIOUS

\* A directory of libc is a path.
LEMMA LibcDirs ==
  ASSUME NEW libs \in Seq([path : Path \ {<<>>}, soname : Path])
  PROVE  LibcDir(libs) \subseteq Path
<1> DEFINE L == [path : Path \ {<<>>}, soname : Path]
           libcs == {i \in DOMAIN libs : libs[i].soname = <<"libc.so.6">>}
<1>1. CASE libcs # {}
  <2>1. libcs \in SUBSET Nat
    OBVIOUS
  <2>2. PICK m \in libcs : \A i \in libcs : m <= i
    BY <1>1, <2>1, LeastExists
  <2>3. Min(libcs) \in libcs
    <3> HIDE DEF libcs
    <3> QED
      BY <2>2 DEF Min
  <2>4. libs[Min(libcs)] \in L
    <3>1. \A i \in DOMAIN libs : libs[i] \in L
      BY ElementsOf, Zenon
    <3> HIDE DEF L
    <3> QED
      BY <2>3, <3>1
  <2>5. Parent(libs[Min(libcs)].path) \in Path
    <3> HIDE DEF libcs
    <3> QED
      BY <2>4, PathEnds
  <2>6. LibcDir(libs) = {Parent(libs[Min(libcs)].path)}
    BY <1>1 DEF LibcDir
  <2> HIDE DEF libcs
  <2> QED
    BY <2>5, <2>6
<1>2. CASE libcs = {}
  BY <1>2 DEF LibcDir
<1> QED
  BY <1>1, <1>2

\* What `stage_default_includes` writes.
LEMMA IncludesListed ==
  ASSUME NEW sel, NEW dirs \in SUBSET Path
  PROVE  Listed(DefaultIncludes(sel, dirs))
<1> DEFINE found == IF dirs = {} THEN {} ELSE NssModules(sel) \cap req.modules
           d == CHOOSE x \in dirs : TRUE
           copy(m) == When(m \in found, Mirrored(Append(d, m)))
<1>0. /\ {"etc", "nsswitch.conf", "passwd", "group", "libnss_files.so.2", "libnss_dns.so.2",
          "libresolv.so.2"} \subseteq Names
  BY NamesKnown DEF OwnNames
<1>1. ASSUME NEW p \in Path \ {<<>>} PROVE IsEntry(Generated(p)) /\ IsEntry(Mirrored(p))
  BY <1>1 DEF IsEntry, Generated, Mirrored, File, IsNode
<1>2. ASSUME NEW m \in Names PROVE Listed(copy(m))
  <2>1. m \in found => d \in Path
    OBVIOUS
  <2>2. m \in found => Append(d, m) \in Path \ {<<>>}
    BY <2>1, PathEnds
  <2>3. m \in found => IsEntry(Mirrored(Append(d, m)))
    BY <2>2, <1>1
  <2> HIDE DEF found, d
  <2> QED
    BY <2>3, ListedWhen
<1>3. ASSUME NEW asked, NEW n \in {"nsswitch.conf", "passwd", "group"}
      PROVE  Listed(When(asked, Generated(<<"etc", n>>)))
  <2>1. <<"etc", n>> \in Path \ {<<>>}
    BY <1>0 DEF Path
  <2> QED
    BY <2>1, <1>1, ListedWhen
<1> DEFINE a1 == When(sel.files \/ sel.dns, Generated(<<"etc", "nsswitch.conf">>))
           a2 == copy("libnss_files.so.2")
           a3 == copy("libnss_dns.so.2")
           a4 == copy("libresolv.so.2")
           a5 == When(sel.files, Generated(<<"etc", "passwd">>))
           a6 == When(sel.files, Generated(<<"etc", "group">>))
<1>4. Listed(a1) /\ Listed(a5) /\ Listed(a6)
  BY <1>3
<1>5. Listed(a2) /\ Listed(a3) /\ Listed(a4)
  <2> HIDE DEF copy
  <2> QED
    BY <1>0, <1>2
<1>6. DefaultIncludes(sel, dirs) = a1 \o a2 \o a3 \o a4 \o a5 \o a6
  BY Zenon DEF DefaultIncludes
<1> HIDE DEF a1, a2, a3, a4, a5, a6
<1>7. Listed(a1 \o a2)
  BY <1>4, <1>5, ListedJoin
<1>8. Listed(a1 \o a2 \o a3)
  BY <1>5, <1>7, ListedJoin
<1>9. Listed(a1 \o a2 \o a3 \o a4)
  BY <1>5, <1>8, ListedJoin
<1>10. Listed(a1 \o a2 \o a3 \o a4 \o a5)
  BY <1>4, <1>9, ListedJoin
<1>11. Listed(a1 \o a2 \o a3 \o a4 \o a5 \o a6)
  BY <1>4, <1>10, ListedJoin
<1> QED
  BY <1>6, <1>11

\* What `stage_runtime_extras` writes.
LEMMA ExtrasListed == Listed(Extras)
<1>0. {"etc", "ssl", "certs", "ca-certificates.crt", "localtime", "tini"} \subseteq Names
  BY NamesKnown DEF OwnNames
<1>1. ASSUME NEW what, NEW at \in Path \ {<<>>} PROVE Listed(Extra(what, at))
  <2> DEFINE f == [at |-> at, node |-> File(<<"host", what>>), there |-> what \in req.hostExtras]
  <2>1. IsEntry(f)
    BY DEF IsEntry, File, IsNode
  <2> HIDE DEF f
  <2>2. Listed(When(what \in req.extras, f))
    BY <2>1, ListedWhen
  <2> QED
    BY <2>2 DEF Extra, f
<1>2. /\ <<"etc", "ssl", "certs", "ca-certificates.crt">> \in Path \ {<<>>}
      /\ <<"etc", "localtime">> \in Path \ {<<>>} /\ <<"tini">> \in Path \ {<<>>}
  BY <1>0 DEF Path
<1>3. Listed(Extra("ca_certs", <<"etc", "ssl", "certs", "ca-certificates.crt">>) \o Extra("tz", <<"etc", "localtime">>))
  BY <1>1, <1>2, ListedJoin
<1> QED
  BY <1>1, <1>2, <1>3, ListedJoin DEF Extras

--------------------------------------------------------------------------------
\* The locales, which the host writes by name.

\* Where the locales go, and the directories on the way there.
LocaleDir   == <<"usr", "lib", "locale">>
OnLocaleDir == {<<"usr">>, <<"usr", "lib">>, LocaleDir}
Unlinked(t) == \A p \in OnLocaleDir : p \in DOMAIN t => t[p].is = "dir"

\* A fourth name.
LEMMA FourthAppended ==
  ASSUME NEW S, NEW a \in S, NEW b \in S, NEW c \in S, NEW d \in S
  PROVE  Append(<<a, b, c>>, d) = <<a, b, c, d>>
<1>1. <<a, b, c>> \in Seq(S) /\ <<a, b, c, d>> \in Seq(S)
  OBVIOUS
<1>2. Append(<<a, b, c>>, d) \in Seq(S) /\ Len(Append(<<a, b, c>>, d)) = 4 /\ Len(<<a, b, c, d>>) = 4
  OBVIOUS
<1>3. /\ Append(<<a, b, c>>, d)[1] = a /\ Append(<<a, b, c>>, d)[2] = b
      /\ Append(<<a, b, c>>, d)[3] = c /\ Append(<<a, b, c>>, d)[4] = d
  BY <1>1, AppendProperties
<1>4. \A i \in 1 .. 4 : Append(<<a, b, c>>, d)[i] = <<a, b, c, d>>[i]
  BY <1>3
<1> QED
  BY <1>1, <1>2, <1>4, SeqEqual

\* Where a locale goes.
LEMMA LocalePath ==
  ASSUME NEW n \in Names
  PROVE  LET path == <<"usr", "lib", "locale", n>> IN
           /\ path \in Path \ {<<>>} /\ Parent(path) = LocaleDir /\ Last(path) = n
           /\ path = Append(LocaleDir, n) /\ LocaleDir \in Path
<1> DEFINE path == <<"usr", "lib", "locale", n>>
<1>1. {"usr", "lib", "locale"} \subseteq Names
  BY NamesKnown DEF OwnNames
<1>2. path \in Path /\ LocaleDir \in Path /\ path # <<>>
  BY <1>1 DEF Path, LocaleDir
<1>3. path = Append(LocaleDir, n)
  <2>1. "usr" \in Names /\ "lib" \in Names /\ "locale" \in Names
    BY <1>1
  <2>2. Append(<<"usr", "lib", "locale">>, n) = path
    BY <2>1, FourthAppended, Zenon
  <2> QED
    BY <2>2 DEF LocaleDir
<1> HIDE DEF path
<1>4. Parent(Append(LocaleDir, n)) = LocaleDir /\ Last(Append(LocaleDir, n)) = n
  <2>1. Parent(Append(LocaleDir, n)) = LocaleDir
    BY <1>2, PathEnds, Zenon
  <2>2. LocaleDir \in Seq(Names)
    BY <1>2 DEF Path
  <2>3. Last(Append(LocaleDir, n)) = n
    BY <2>2, EndsOf, Zenon
  <2> QED
    BY <2>1, <2>3
<1> QED
  BY <1>2, <1>3, <1>4 DEF path

\* What was there is still there, and what is a directory now was one.
Grows(t, u) == \A p \in DOMAIN t : p \in DOMAIN u /\ (u[p].is = "dir" => t[p].is = "dir")

\* A way to the locales without links was one before.
LEMMA GrowsUnlinked ==
  ASSUME NEW t, NEW u, Grows(t, u), Unlinked(u)
  PROVE  Unlinked(t)
BY DEF Unlinked, Grows

\* A new node, or one that is no directory.
LEMMA WithGrows ==
  ASSUME NEW t, NEW u, Grows(t, u), NEW path, NEW n, path \notin DOMAIN u \/ n.is # "dir"
  PROVE  Grows(t, With(u, path, n))
BY DEF Grows, With

GrowInv(w, t) == DOMAIN w = {"at", "todo", "links", "missing", "ok", "tree"} /\ Grows(t, w.tree)

\* A step of the walk takes nothing away.
LEMMA WalkStepGrows ==
  ASSUME NEW w, NEW t, NEW how, GrowInv(w, t)
  PROVE  GrowInv(WalkStep(w, how), t)
<1> DEFINE next == Append(w.at, Head(w.todo))
           v == WalkStep(w, how)
<1>1. DOMAIN v = DOMAIN w /\ v.tree \in {w.tree, With(w.tree, next, Dir)}
      /\ (v.tree # w.tree => next \notin DOMAIN w.tree)
  BY DEF WalkStep, GrowInv
<1>2. next \notin DOMAIN w.tree => Grows(t, With(w.tree, next, Dir))
  BY WithGrows DEF GrowInv
<1> HIDE DEF next, v
<1>3. GrowInv(v, t)
  BY <1>1, <1>2 DEF GrowInv
<1> QED
  BY <1>3 DEF v

\* `image_dir` takes nothing away, good tree or not.
LEMMA WalkedGrows ==
  ASSUME NEW t, NEW path \in Path, NEW how
  PROVE  Grows(t, Walked(t, path, how).tree)
<1> DEFINE N == StepsOf(path)
<1>1. N \in Nat /\ N = StepsOf(path)
  BY StepsAre
<1> HIDE DEF N
<1>2. PICK g : IsWalk(g, N, t, path, how)
  BY <1>1, WalkedIs, Zenon
<1>3. GrowInv(g[0], t)
  BY <1>2 DEF GrowInv, Start, Grows, IsWalk
<1>4. ASSUME NEW n \in 1 .. N, GrowInv(g[n - 1], t) PROVE GrowInv(g[n], t)
  <2>1. g[n] = IF g[n - 1].todo = <<>> THEN g[n - 1] ELSE WalkStep(g[n - 1], how)
    BY <1>2 DEF NextWalk, IsWalk
  <2> QED
    BY <2>1, <1>4, WalkStepGrows
<1> DEFINE Off == {n \in Nat : n <= N /\ ~GrowInv(g[n], t)}
<1>5. Off = {}
  <2> SUFFICES ASSUME Off # {} PROVE FALSE
    OBVIOUS
  <2>1. PICK m \in Off : \A i \in Off : m <= i
    BY LeastExists
  <2>2. CASE m = 0
    BY <2>1, <2>2, <1>3
  <2>3. CASE m > 0
    <3>1. m \in 1 .. N /\ m - 1 \in Nat /\ m - 1 <= N /\ ~(m <= m - 1)
      BY <2>1, <2>3, <1>1
    <3> QED
      BY <2>1, <3>1, <1>4
  <2> QED
    BY <2>1, <2>2, <2>3
<1>6. GrowInv(g[N], t)
  BY <1>1, <1>5
<1> DEFINE e == g[N]
<1>7. Walked(t, path, how) = [e EXCEPT !.ok = e.ok /\ e.todo = <<>>] /\ GrowInv(e, t)
  BY <1>2, <1>6 DEF IsWalk
<1> HIDE DEF e
<1> QED
  BY <1>7 DEF GrowInv

\* Whatever the tree: a locale takes nothing away.
LEMMA LocaleGrows ==
  ASSUME NEW t, NEW l, l.name \in Names
  PROVE  Grows(t, LocaleStaged(t, l).tree)
<1> DEFINE path == <<"usr", "lib", "locale", l.name>>
           v == Walked(t, Parent(path), "make")
           w == StagedPath(t, path, "make")
           r == LocaleStaged(t, l).tree
<1>0. Grows(t, v.tree)
  <2>1. Parent(path) \in Path
    BY LocalePath, PathEnds, Zenon
  <2> QED
    BY <2>1, WalkedGrows
<1>1. w.tree = v.tree
  BY DEF StagedPath
<1> HIDE DEF path
<1>2. Grows(t, w.tree) /\ Grows(t, t)
  BY <1>0, <1>1 DEF Grows
<1> DEFINE d == HostDir(w.tree, w.at).tree
           f == File(<<"locale", l.name>>)
           x == HostWritten(d, Append(w.at, "LC_CTYPE"), f).tree
<1>3. Grows(t, d)
  <2>1. d \in {w.tree, With(w.tree, w.at, Dir)} /\ (d # w.tree => w.at \notin DOMAIN w.tree)
    BY DEF HostDir, Made
  <2> HIDE DEF w, d
  <2> QED
    BY <1>2, <2>1, WithGrows
<1>4. Grows(t, x)
  <2>1. \A p : Grows(t, With(d, p, f))
    BY <1>3, WithGrows DEF File
  <2>2. x = d \/ \E p : x = With(d, p, f)
    BY DEF HostWritten, Made, Failed
  <2> HIDE DEF d, x, f
  <2> QED
    BY <1>3, <2>1, <2>2
<1>5. r \in {t, w.tree, d, x}
  <2>1. LocaleStaged(t, l).tree
          = IF ~ValidName(l) \/ IsStaged(t, path) THEN t
            ELSE IF ~w.ok THEN w.tree
            ELSE IF l.host = "none" THEN Compiled(w.tree, w.at, l).tree ELSE CopiedDir(w.tree, w.at, l).tree
    BY DEF LocaleStaged, Failed, path
  <2>2. LocaleData(w.tree, w.at, l).tree \in {d, x}
    <3> HIDE DEF w
    <3> QED
      BY DEF LocaleData, HostDir, Made
  <2>3. Compiled(w.tree, w.at, l).tree \in {w.tree, d, x} /\ CopiedDir(w.tree, w.at, l).tree \in {d, x}
    <3> HIDE DEF w, d, x
    <3> QED
      BY <2>2 DEF Compiled, CopiedDir, Failed, d
  <2> HIDE DEF w, d, x
  <2> QED
    BY <2>1, <2>3
<1> HIDE DEF r, w, d, x
<1>6. Grows(t, r)
  BY <1>2, <1>3, <1>4, <1>5
<1> QED
  BY <1>6 DEF r

\* One step of a walk along real directories: it stays spelled.
Along(w, t, at, todo) ==
  /\ DOMAIN w = {"at", "todo", "links", "missing", "ok", "tree"}
  /\ w.ok /\ w.at = at /\ w.todo = todo
  /\ Unlinked(w.tree) /\ DOMAIN w.tree \subseteq DOMAIN t \cup OnLocaleDir

\* Each step takes one name of the path.
LEMMA AlongStep ==
  ASSUME NEW w, NEW t, NEW how \in {"make", "look"}, NEW at, NEW todo,
         NEW s, s \notin {Root, Up}, NEW rest, NEW next \in OnLocaleDir,
         todo # <<>>, Head(todo) = s, Tail(todo) = rest, Append(at, s) = next,
         Along(w, t, at, todo)
  PROVE  Along(NextWalk(w, how), t, next, rest)
<1> DEFINE v == WalkStep(w, how)
<1>1. NextWalk(w, how) = v
  BY DEF NextWalk, Along
<1>2. next \in DOMAIN w.tree => w.tree[next].is = "dir"
  BY DEF Along, Unlinked
<1>3. v = IF w.missing THEN [w EXCEPT !.todo = rest, !.at = next]
          ELSE IF next \in DOMAIN w.tree THEN [w EXCEPT !.todo = rest, !.at = next]
          ELSE IF how = "make"
               THEN [w EXCEPT !.todo = rest, !.at = next, !.tree = With(w.tree, next, Dir)]
          ELSE [w EXCEPT !.todo = rest, !.at = next, !.missing = TRUE]
  BY <1>2 DEF WalkStep, Along
<1>4. Unlinked(With(w.tree, next, Dir)) /\ DOMAIN With(w.tree, next, Dir) \subseteq DOMAIN t \cup OnLocaleDir
  <2>1. DOMAIN With(w.tree, next, Dir) = {next} \cup DOMAIN w.tree
    BY DEF With
  <2>2. ASSUME NEW p \in OnLocaleDir, p \in DOMAIN With(w.tree, next, Dir)
        PROVE  With(w.tree, next, Dir)[p].is = "dir"
    BY <2>2 DEF With, Dir, Along, Unlinked
  <2> QED
    BY <2>1, <2>2 DEF Along, Unlinked
<1> HIDE DEF v
<1>5. Along(v, t, next, rest)
  <2>1. DOMAIN v = DOMAIN w /\ v.ok /\ v.at = next /\ v.todo = rest
    BY <1>3 DEF Along
  <2>2. v.tree \in {w.tree, With(w.tree, next, Dir)}
    BY <1>3 DEF Along
  <2> QED
    BY <2>1, <2>2, <1>4 DEF Along
<1> QED
  BY <1>1, <1>5

\* Short sequences, taken apart and put together.
Short(a, b, c) ==
  /\ Head(<<a, b, c>>) = a /\ Tail(<<a, b, c>>) = <<b, c>>
  /\ Head(<<b, c>>) = b /\ Tail(<<b, c>>) = <<c>>
  /\ Head(<<c>>) = c /\ Tail(<<c>>) = <<>>
  /\ Append(<<>>, a) = <<a>> /\ Append(<<a>>, b) = <<a, b>> /\ Append(<<a, b>>, c) = <<a, b, c>>

\* Of any three names.
LEMMA ShortOnes ==
  ASSUME NEW S, NEW a \in S, NEW b \in S, NEW c \in S
  PROVE  Short(a, b, c)
<1>1. <<a>> \in Seq(S) /\ <<a, b>> \in Seq(S) /\ <<a, b, c>> \in Seq(S)
  OBVIOUS
<1>2. Head(<<c>>) = c /\ Head(<<b, c>>) = b /\ Head(<<a, b, c>>) = a /\ Append(<<>>, a) = <<a>>
  OBVIOUS
<1>3. Tail(<<c>>) = <<>>
  OBVIOUS
<1>4. Tail(<<b, c>>) = <<c>>
  <2>1. Tail(<<b, c>>) \in Seq(S) /\ <<c>> \in Seq(S) /\ Len(Tail(<<b, c>>)) = Len(<<c>>)
    OBVIOUS
  <2> QED
    BY <2>1, SeqEqual
<1>5. Tail(<<a, b, c>>) = <<b, c>>
  <2>1. Tail(<<a, b, c>>) \in Seq(S) /\ <<b, c>> \in Seq(S) /\ Len(Tail(<<a, b, c>>)) = Len(<<b, c>>)
    OBVIOUS
  <2> QED
    BY <2>1, SeqEqual
<1>6. Append(<<a>>, b) = <<a, b>>
  <2>1. Append(<<a>>, b) \in Seq(S) /\ Len(Append(<<a>>, b)) = 2 /\ Len(<<a, b>>) = 2
    OBVIOUS
  <2>2. Append(<<a>>, b)[1] = a /\ Append(<<a>>, b)[2] = b
    BY <1>1, AppendProperties
  <2>3. \A i \in 1 .. 2 : Append(<<a>>, b)[i] = <<a, b>>[i]
    BY <2>2
  <2> QED
    BY <2>1, <2>3, <1>1, SeqEqual
<1>7. Append(<<a, b>>, c) = <<a, b, c>>
  <2>1. Append(<<a, b>>, c) \in Seq(S) /\ Len(Append(<<a, b>>, c)) = 3 /\ Len(<<a, b, c>>) = 3
    OBVIOUS
  <2>2. Append(<<a, b>>, c)[1] = a /\ Append(<<a, b>>, c)[2] = b /\ Append(<<a, b>>, c)[3] = c
    BY <1>1, AppendProperties
  <2>3. \A i \in 1 .. 3 : Append(<<a, b>>, c)[i] = <<a, b, c>>[i]
    BY <2>2
  <2> QED
    BY <2>1, <2>3, <1>1, SeqEqual
<1> QED
  BY <1>2, <1>3, <1>4, <1>5, <1>6, <1>7 DEF Short

\* The walk of the locale directory, if every directory of it is real.
LEMMA AlongWalk ==
  ASSUME NEW t, Unlinked(t), NEW how \in {"make", "look"}
  PROVE  LET w == Walked(t, LocaleDir, how) IN
           w.ok /\ w.at = LocaleDir /\ DOMAIN w.tree \subseteq DOMAIN t \cup OnLocaleDir
<1>0. "usr" \in OwnNames /\ "lib" \in OwnNames /\ "locale" \in OwnNames
  BY DEF OwnNames
<1>10. Short("usr", "lib", "locale")
  BY <1>0, ShortOnes, Zenon
<1> DEFINE N == StepsOf(LocaleDir)
<1>1. N \in Nat /\ N >= 3 /\ N = StepsOf(LocaleDir)
  <2>1. LocaleDir \in Path /\ Len(LocaleDir) = 3
    BY <1>0, NamesKnown DEF LocaleDir, Path
  <2> QED
    BY <2>1, StepsAre
<1>11. LocaleDir \in Path
  BY <1>0, NamesKnown DEF LocaleDir, Path
<1> HIDE DEF N
<1>2. PICK g : IsWalk(g, N, t, LocaleDir, how)
  BY <1>1, <1>11, WalkedIs, Zenon
<1>3. Along(g[0], t, <<>>, LocaleDir)
  BY <1>2 DEF Along, Start, IsWalk
<1>4. Along(g[1], t, <<"usr">>, <<"lib", "locale">>)
  <2>1. Along(NextWalk(g[0], how), t, <<"usr">>, <<"lib", "locale">>)
    <3>1. /\ "usr" \notin {Root, Up} /\ LocaleDir # <<>> /\ Head(LocaleDir) = "usr"
          /\ Tail(LocaleDir) = <<"lib", "locale">> /\ Append(<<>>, "usr") = <<"usr">>
          /\ <<"usr">> \in OnLocaleDir
      BY <1>10 DEF LocaleDir, OnLocaleDir, Root, Up, Short
    <3> QED
      BY <1>3, <3>1, AlongStep, Zenon
  <2> QED
    BY <1>1, <1>2, <2>1 DEF IsWalk
<1>5. Along(g[2], t, <<"usr", "lib">>, <<"locale">>)
  <2>1. Along(NextWalk(g[1], how), t, <<"usr", "lib">>, <<"locale">>)
    <3>1. /\ "lib" \notin {Root, Up} /\ <<"lib", "locale">> # <<>> /\ <<"usr", "lib">> \in OnLocaleDir
          /\ Head(<<"lib", "locale">>) = "lib" /\ Tail(<<"lib", "locale">>) = <<"locale">>
          /\ Append(<<"usr">>, "lib") = <<"usr", "lib">>
      <4>1. "lib" \notin {Root, Up} /\ <<"lib", "locale">> # <<>> /\ <<"usr", "lib">> \in OnLocaleDir
        BY DEF OnLocaleDir, Root, Up
      <4>2. /\ Head(<<"lib", "locale">>) = "lib" /\ Tail(<<"lib", "locale">>) = <<"locale">>
            /\ Append(<<"usr">>, "lib") = <<"usr", "lib">>
        BY <1>10 DEF Short
      <4> QED
        BY <4>1, <4>2, Zenon
    <3> QED
      BY <1>4, <3>1, AlongStep, Zenon
  <2>2. 2 \in 1 .. N /\ 2 - 1 = 1
    BY <1>1
  <2>3. g[2] = NextWalk(g[1], how)
    BY <1>2, <2>2 DEF IsWalk
  <2> QED
    BY <2>1, <2>3
<1>6. Along(g[3], t, LocaleDir, <<>>)
  <2>1. Along(NextWalk(g[2], how), t, LocaleDir, <<>>)
    <3>1. /\ "locale" \notin {Root, Up} /\ <<"locale">> # <<>> /\ LocaleDir \in OnLocaleDir
          /\ Head(<<"locale">>) = "locale" /\ Tail(<<"locale">>) = <<>>
          /\ Append(<<"usr", "lib">>, "locale") = LocaleDir
      <4>1. "locale" \notin {Root, Up} /\ <<"locale">> # <<>> /\ LocaleDir \in OnLocaleDir
        BY DEF OnLocaleDir, Root, Up
      <4>2. /\ Head(<<"locale">>) = "locale" /\ Tail(<<"locale">>) = <<>>
            /\ Append(<<"usr", "lib">>, "locale") = LocaleDir
        BY <1>10 DEF LocaleDir, Short
      <4> QED
        BY <4>1, <4>2, Zenon
    <3> QED
      BY <1>5, <3>1, AlongStep, Zenon
  <2> QED
    BY <1>1, <1>2, <2>1 DEF IsWalk
<1>7. Along(g[N], t, LocaleDir, <<>>)
  <2> DEFINE Off == {n \in Nat : n >= 3 /\ n <= N /\ ~Along(g[n], t, LocaleDir, <<>>)}
  <2>1. ASSUME Off # {} PROVE FALSE
    <3>1. PICK m \in Off : \A i \in Off : m <= i
      BY <2>1, LeastExists
    <3>2. CASE m = 3
      BY <3>1, <3>2, <1>6
    <3>3. CASE m # 3
      <4>1. /\ m \in 1 .. N /\ m - 1 \in Nat /\ m - 1 >= 3 /\ m - 1 <= N /\ ~(m <= m - 1)
        BY <3>1, <3>3, <1>1
      <4>2. Along(g[m - 1], t, LocaleDir, <<>>)
        BY <3>1, <4>1
      <4>3. g[m] = g[m - 1]
        BY <4>1, <4>2, <1>2 DEF NextWalk, Along, IsWalk
      <4> QED
        BY <3>1, <4>2, <4>3
    <3> QED
      BY <3>2, <3>3
  <2> QED
    BY <1>1, <2>1
<1> DEFINE e == g[N]
           w == Walked(t, LocaleDir, how)
<1>8. Along(e, t, LocaleDir, <<>>) /\ w = [e EXCEPT !.ok = e.ok /\ e.todo = <<>>]
  BY <1>2, <1>7 DEF IsWalk
<1> HIDE DEF e, w
<1>9. w.ok = TRUE /\ w.at = LocaleDir /\ w.tree = e.tree
  BY <1>8 DEF Along
<1>12. w.ok /\ w.at = LocaleDir /\ DOMAIN w.tree \subseteq DOMAIN t \cup OnLocaleDir
  BY <1>8, <1>9 DEF Along
<1> QED
  BY <1>12 DEF w

\* A directory of a locale, and the file in it, are all that is new.
LocaleIn(t, at, l) ==
  /\ HostDir(t, at).tree = With(t, at, Dir) /\ Good(HostDir(t, at).tree)
  /\ Good(LocaleData(t, at, l).tree)
  /\ \E below, f : /\ below \notin DOMAIN With(t, at, Dir) /\ f.is = "file"
                  /\ LocaleData(t, at, l).tree = With(With(t, at, Dir), below, f)

\* A locale in a directory of the tree, where nothing is.
LEMMA DataGood ==
  ASSUME NEW t, Good(t), NEW d \in DOMAIN t, t[d].is = "dir", NEW s \in Names, NEW l,
         Append(d, s) \notin DOMAIN t
  PROVE  LocaleIn(t, Append(d, s), l)
<1> DEFINE at == Append(d, s)
           u == With(t, at, Dir)
           below == Append(at, "LC_CTYPE")
           f == File(<<"locale", l.name>>)
<1>1. HostDir(t, at) = [ok |-> TRUE, tree |-> u]
  BY DEF HostDir, Made
<1>2. IsNode(Dir) /\ IsNode(f)
  BY DEF IsNode, File
<1>3. Good(u)
  BY <1>2, WithGood, Zenon
<1>4. at \in DOMAIN u /\ u[at].is = "dir" /\ DOMAIN u = {at} \cup DOMAIN t
  BY DEF With, Dir
<1>5. d \in Path /\ at \in Path /\ below # <<>> /\ Parent(below) = at /\ Parent(at) = d /\ "LC_CTYPE" \in Names
  <2>1. d \in Path
    BY DEF Good, Typed
  <2>2. "LC_CTYPE" \in Names
    BY NamesKnown DEF OwnNames
  <2>3. at \in Path /\ Parent(at) = d
    BY <2>1, PathEnds
  <2> HIDE DEF at
  <2>4. below # <<>> /\ Parent(below) = at
    BY <2>2, <2>3, PathEnds
  <2> QED
    BY <2>1, <2>2, <2>3, <2>4
<1>6. below \notin DOMAIN u
  <2>1. d # at
    OBVIOUS
  <2> HIDE DEF at, below
  <2>2. below # at
    BY <1>5, <2>1
  <2>3. below \notin DOMAIN t
    BY <1>5, Zenon DEF Good, Closed, at
  <2> QED
    BY <1>4, <2>2, <2>3
<1>7. Good(With(u, below, f))
  <2> HIDE DEF u, f, at
  <2> QED
    BY <1>2, <1>3, <1>4, <1>5, <1>6, WithGood, Zenon
<1>8. LocaleData(t, at, l).tree = With(u, below, f)
  <2>1. HostWritten(u, below, f) = Made(With(u, below, f))
    <3> HIDE DEF u, f, below
    <3> QED
      BY <1>6 DEF HostWritten
  <2> HIDE DEF u, at
  <2> QED
    BY <1>1, <2>1 DEF LocaleData, Made
<1>9. HostDir(t, at).tree = u /\ f.is = "file"
  BY <1>1 DEF File
<1> HIDE DEF f, below
<1>10. Good(HostDir(t, at).tree) /\ Good(LocaleData(t, at, l).tree)
  BY <1>3, <1>7, <1>8, <1>9
<1> HIDE DEF at
<1> QED
  BY <1>6, <1>8, <1>9, <1>10 DEF LocaleIn, at

\* A locale, if the directories on its way are real.
LEMMA LocaleGood ==
  ASSUME NEW t, Good(t), Unlinked(t), NEW l, l.name \in Names
  PROVE  Good(LocaleStaged(t, l).tree)
<1> DEFINE path == <<"usr", "lib", "locale", l.name>>
           w == StagedPath(t, path, "make")
           x == StagedPath(t, path, "look")
           v == Walked(t, LocaleDir, "make")
           y == Walked(t, LocaleDir, "look")
<1>1. /\ path \in Path \ {<<>>} /\ Parent(path) = LocaleDir /\ Last(path) = l.name
      /\ path = Append(LocaleDir, l.name) /\ LocaleDir \in Path
  BY LocalePath, Zenon
<1>2. /\ DOMAIN v = {"at", "todo", "links", "missing", "ok", "tree"} /\ Good(v.tree) /\ ~v.missing
      /\ v.ok /\ ~v.missing => v.at \in DOMAIN v.tree /\ v.tree[v.at].is = "dir"
  <2>1. /\ DOMAIN v = {"at", "todo", "links", "missing", "ok", "tree"}
        /\ Good(v.tree) /\ (v.missing => "make" = "look")
        /\ v.ok /\ ~v.missing => v.at \in DOMAIN v.tree /\ v.tree[v.at].is = "dir"
    BY <1>1, WalkedInv, Zenon
  <2> HIDE DEF v
  <2> QED
    BY <2>1
<1>3. DOMAIN y = {"at", "todo", "links", "missing", "ok", "tree"}
  BY <1>1, WalkedInv, Zenon
<1>4. /\ v.ok
      /\ v.at = LocaleDir /\ DOMAIN v.tree \subseteq DOMAIN t \cup OnLocaleDir
  BY AlongWalk, Zenon
<1>5. y.ok /\ y.at = LocaleDir
  BY AlongWalk, Zenon
<1>6. /\ w = [v EXCEPT !.at = Append(v.at, l.name)]
      /\ x = [y EXCEPT !.at = Append(y.at, l.name)]
  BY <1>1 DEF StagedPath
<1> HIDE DEF v, y, w, x
<1>7. /\ w.ok = v.ok /\ w.tree = v.tree /\ w.at = Append(v.at, l.name)
      /\ x.ok = y.ok /\ x.at = Append(y.at, l.name)
  BY <1>2, <1>3, <1>6
<1>8. path \notin OnLocaleDir
  BY DEF OnLocaleDir, LocaleDir
<1>9. IsStaged(t, path) <=> x.ok /\ x.at \in DOMAIN t
  BY DEF IsStaged, x
<1>10. LocaleStaged(t, l).tree
         = IF ~ValidName(l) \/ IsStaged(t, path) THEN t
           ELSE IF ~w.ok THEN w.tree
           ELSE IF l.host = "none" THEN Compiled(w.tree, w.at, l).tree ELSE CopiedDir(w.tree, w.at, l).tree
  BY DEF LocaleStaged, Failed, w
<1> HIDE DEF path
<1>11. CASE ~IsStaged(t, path) /\ w.ok
  <2>1. w.at = path /\ path \notin DOMAIN w.tree /\ path = Append(LocaleDir, l.name)
    BY <1>1, <1>4, <1>5, <1>7, <1>8, <1>9, <1>11
  <2>2. Good(w.tree) /\ LocaleDir \in DOMAIN w.tree /\ w.tree[LocaleDir].is = "dir"
    BY <1>2, <1>4, <1>7, <1>11
  <2>3. Good(HostDir(w.tree, Append(LocaleDir, l.name)).tree) /\ Good(LocaleData(w.tree, Append(LocaleDir, l.name), l).tree)
    <3>1. LocaleIn(w.tree, Append(LocaleDir, l.name), l)
      BY <2>1, <2>2, DataGood, Zenon
    <3> QED
      BY <3>1 DEF LocaleIn
  <2>4. Good(Compiled(w.tree, w.at, l).tree) /\ Good(CopiedDir(w.tree, w.at, l).tree)
    BY <2>1, <2>2, <2>3 DEF Compiled, CopiedDir, Failed
  <2> QED
    BY <1>10, <2>2, <2>4
<1>12. CASE ~(~IsStaged(t, path) /\ w.ok)
  BY <1>2, <1>7, <1>10, <1>12
<1> QED
  BY <1>11, <1>12

--------------------------------------------------------------------------------
\* The invariant.

\* Until the locales the tree is good; after that it is if the locale directory is real.
LocalesReal == Unlinked(tree)
PlainLocales == pc \notin {"locales", "done", "failed"} \/ LocalesReal \/ req.locales = <<>>
StageInv == req \in Requests /\ k \in Nat \ {0} /\ (PlainLocales => Good(tree))

\* What the user may ask for, and the host have.
LEMMA RequestFacts ==
  ASSUME req \in Requests
  PROVE  /\ req.program.named \in Path \ {<<>>} /\ req.program.real \in Path \ {<<>>} /\ req.interp \in Path
         /\ req.libs \in Seq([path : Path \ {<<>>}, soname : Path])
         /\ \A i \in 1 .. Len(req.libs) : req.libs[i] \in [path : Path \ {<<>>}, soname : Path]
         /\ \A i \in 1 .. Len(req.add) : req.add[i].dst \in Path \ {<<>>} /\ req.add[i].value \in Path
         /\ \A i \in 1 .. Len(req.locales) : req.locales[i].name \in Names
         /\ Len(req.locales) \in Nat /\ Len(req.libs) \in Nat /\ Len(req.add) \in Nat
<1> DEFINE A == [src : Path, dst : Path, link : BOOLEAN, value : Path, leads : {"file", "dir", "none"}]
           L == [name : Names, host : {"dir", "odd", "none"}, charmap : BOOLEAN, compiles : BOOLEAN]
           B == [path : Path \ {<<>>}, soname : Path]
<1>1. /\ req.program \in [named : Path \ {<<>>}, real : Path \ {<<>>}] /\ req.interp \in Path
      /\ req.libs \in Seq(B) /\ req.add \in Seq(A) /\ req.locales \in Seq(L)
      /\ \A i \in DOMAIN req.add : Parsed(req.add[i])
  BY StagingAssumption
<1>2. \A i \in DOMAIN req.libs : req.libs[i] \in B
  <2> HIDE DEF B
  <2> QED
    BY <1>1, ElementsOf, Zenon
<1>3. \A i \in DOMAIN req.add : req.add[i] \in A
  <2> HIDE DEF A
  <2> QED
    BY <1>1, ElementsOf, Zenon
<1>4. \A i \in DOMAIN req.locales : req.locales[i] \in L
  <2> HIDE DEF L
  <2> QED
    BY <1>1, ElementsOf, Zenon
<1>5. /\ DOMAIN req.libs = 1 .. Len(req.libs) /\ Len(req.libs) \in Nat
      /\ DOMAIN req.add = 1 .. Len(req.add) /\ Len(req.add) \in Nat
      /\ DOMAIN req.locales = 1 .. Len(req.locales) /\ Len(req.locales) \in Nat
  <2> HIDE DEF A, B, L
  <2> QED
    BY <1>1, LenProperties
<1>6. \A i \in DOMAIN req.add : req.add[i].dst \in Path \ {<<>>} /\ req.add[i].value \in Path
  BY <1>1, <1>3 DEF Parsed
<1>7. \A i \in DOMAIN req.locales : req.locales[i].name \in Names
  BY <1>4
<1>8. req.program.named \in Path \ {<<>>} /\ req.program.real \in Path \ {<<>>}
  BY <1>1
<1> HIDE DEF A, L
<1> QED
  BY <1>1, <1>2, <1>5, <1>6, <1>7, <1>8

\* upx rewrites a file, which stays one.
LEMMA CompressedGood ==
  ASSUME NEW t, Good(t)
  PROVE  Good(Compressed(t))
<1> DEFINE p == StagedPath(t, req.program.real, "look").at
           u == Compressed(t)
           n == IF t[p].is = "file" THEN [t[p] EXCEPT !.upx = TRUE] ELSE t[p]
<1>1. u = [t EXCEPT ![p] = n]
  BY DEF Compressed
<1> HIDE DEF p
<1>2. DOMAIN u = DOMAIN t /\ \A q \in DOMAIN t : u[q] = IF q = p THEN n ELSE t[q]
  BY <1>1 DEF Good, Typed
<1>3. p \in DOMAIN t => IsNode(n) /\ (n.is = t[p].is)
  <2> SUFFICES ASSUME p \in DOMAIN t PROVE IsNode(n) /\ (n.is = t[p].is)
    OBVIOUS
  <2>1. IsNode(t[p])
    BY DEF Good, Typed
  <2> DEFINE f == t[p]
  <2>2. CASE f.is = "file"
    <3>1. PICK of, x : f = [is |-> "file", of |-> of, upx |-> x]
      BY <2>1, <2>2 DEF IsNode, Dir, LinkTo
    <3> HIDE DEF f
    <3>2. [f EXCEPT !.upx = TRUE] = [is |-> "file", of |-> of, upx |-> TRUE]
      <4>1. f \in [is : {"file"}, of : {of}, upx : {x}]
        BY <3>1
      <4>2. [f EXCEPT !.upx = TRUE] \in [is : {"file"}, of : {of}, upx : {TRUE}]
        BY <4>1
      <4> DEFINE m == [f EXCEPT !.upx = TRUE]
      <4> HIDE DEF m
      <4>3. m \in [is : {"file"}, of : {of}, upx : {TRUE}] => m = [is |-> "file", of |-> of, upx |-> TRUE]
        OBVIOUS
      <4> QED
        BY <4>2, <4>3 DEF m
    <3>3. n = [is |-> "file", of |-> of, upx |-> TRUE]
      BY <2>2, <3>2 DEF f
    <3> HIDE DEF n
    <3> QED
      BY <2>2, <3>3 DEF IsNode, f
  <2>3. CASE f.is # "file"
    BY <2>1, <2>3
  <2> QED
    BY <2>2, <2>3
<1> HIDE DEF u, n
<1>4. Typed(u)
  BY <1>2, <1>3 DEF Good, Typed
<1>5. \A q \in DOMAIN t : u[q].is = t[q].is
  BY <1>2, <1>3
<1>6. Closed(u)
  BY <1>2, <1>5 DEF Good, Closed
<1> QED
  BY <1>4, <1>6 DEF Good, u

\* The empty staging root is good.
LEMMA StageStarts == Init => StageInv
<1> SUFFICES ASSUME Init PROVE StageInv
  OBVIOUS
<1>1. tree = [p \in {<<>>} |-> Dir] /\ req \in Requests /\ k = 1
  BY DEF Init
<1>2. <<>> \in Path
  BY DEF Path
<1>3. Good(tree)
  BY <1>1, <1>2 DEF Good, Typed, Closed, IsNode, Dir
<1> QED
  BY <1>1, <1>3 DEF StageInv

\* Every step keeps the invariant.
LEMMA StageStep == StageInv /\ [Next]_vars => StageInv'
<1> SUFFICES ASSUME StageInv, [Next]_vars PROVE StageInv'
  OBVIOUS
<1> USE DEF Then, Quiet
<1>0. req \in Requests
  BY DEF StageInv
<1>13. ASSUME UNCHANGED req, k' \in Nat \ {0}, Good(tree') PROVE StageInv'
  BY <1>13, <1>0 DEF StageInv
<1>14. pc \notin {"locales", "done", "failed"} => Good(tree)
  BY DEF StageInv, PlainLocales
<1>15. \A n \in {k, k + 1, 1} : n \in Nat \ {0}
  BY DEF StageInv
<1>16. ASSUME NEW p PROVE IsNode(File(p)) /\ IsNode(Generated(p).node)
  BY DEF IsNode, File, Generated
<1>1. CASE StageProgram
  <2>1. Good(tree) /\ req.program.real \in Path \ {<<>>}
    BY <1>0, <1>1, <1>14, RequestFacts DEF StageProgram
  <2>2. Good(Replaced(tree, req.program.real, File(req.program.real)).tree)
    BY <1>16, <2>1, ReplacedGood
  <2> QED
    BY <1>1, <1>13, <1>15, <2>2 DEF StageProgram
<1>2. CASE StageNamed
  <2>1. /\ Good(tree) /\ req.program.named \in Path \ {<<>>} /\ req.program.real \in Path
        /\ Parent(req.program.named) \in Path
    BY <1>0, <1>2, <1>14, RequestFacts, PathEnds DEF StageNamed
  <2>2. Good(Linked(tree, req.program.named, RelativeValue(Parent(req.program.named), req.program.real)).tree)
    BY <2>1, RelativeIs, LinkedGood
  <2>3. tree' \in {tree, Linked(tree, req.program.named, RelativeValue(Parent(req.program.named), req.program.real)).tree}
    BY <1>2 DEF StageNamed, Made
  <2> QED
    BY <1>2, <1>13, <1>15, <2>1, <2>2, <2>3 DEF StageNamed
<1>3. CASE StageLoader
  <2>1. Good(tree) /\ req.interp \in Path
    BY <1>0, <1>3, <1>14, RequestFacts DEF StageLoader
  <2> DEFINE w == InterpTarget(tree, req.interp)
  <2>2. CASE req.interp = <<>>
    BY <1>3, <1>13, <1>15, <2>1, <2>2 DEF StageLoader, Made
  <2>3. CASE req.interp # <<>>
    <3>1. Good(w.tree) /\ w.at \in Path \ {<<>>}
      BY <2>1, <2>3, InterpTargetGood, Zenon
    <3>2. Good(Replaced(w.tree, w.at, File(req.ld)).tree)
      <4> HIDE DEF w
      <4> QED
        BY <1>16, <3>1, ReplacedGood
    <3>3. tree' \in {w.tree, Replaced(w.tree, w.at, File(req.ld)).tree}
      BY <1>3, <2>3 DEF StageLoader, Failed
    <3> HIDE DEF w
    <3> QED
      BY <1>3, <1>13, <1>15, <3>1, <3>2, <3>3 DEF StageLoader
  <2> QED
    BY <2>2, <2>3
<1>4. CASE StageLibrary
  <2>1. Good(tree) /\ k \in 1 .. Len(req.libs)
    BY <1>0, <1>4, <1>15, <1>14, RequestFacts DEF StageLibrary
  <2>2. req.libs[k] \in [path : Path \ {<<>>}, soname : Path]
    BY <1>0, <2>1, RequestFacts
  <2>3. Good(LibraryStaged(tree, req.libs[k]).tree)
    BY <2>1, <2>2, LibraryGood
  <2> QED
    BY <1>4, <1>13, <1>15, <2>3 DEF StageLibrary
<1>5. CASE GenerateCache
  <2> DEFINE conf  == Replaced(tree, <<"etc", "ld.so.conf">>, Generated(<<"etc", "ld.so.conf">>).node)
             cache == Generated(<<"etc", "ld.so.cache">>)
             last  == Replaced(conf.tree, cache.at, cache.node)
  <2>1. Good(tree) /\ <<"etc", "ld.so.conf">> \in Path \ {<<>>} /\ cache.at \in Path \ {<<>>}
    <3>1. {"etc", "ld.so.conf", "ld.so.cache"} \subseteq Names
      BY NamesKnown DEF OwnNames
    <3> QED
      BY <1>5, <1>14, <3>1 DEF GenerateCache, Generated, Path
  <2>2. Good(conf.tree)
    BY <1>16, <2>1, ReplacedGood
  <2>3. Good(last.tree)
    <3> HIDE DEF conf
    <3> QED
      BY <1>16, <2>1, <2>2, ReplacedGood
  <2>4. tree' \in {conf.tree, last.tree} /\ k' = 1 /\ req' = req
    BY <1>5 DEF GenerateCache, Failed
  <2> HIDE DEF conf, last
  <2> QED
    BY <1>13, <1>15, <2>2, <2>3, <2>4
<1>6. CASE StageDefaultIncludes
  <2>1. Good(tree) /\ LibcDir(req.libs) \in SUBSET Path
    BY <1>0, <1>6, <1>14, RequestFacts, LibcDirs DEF StageDefaultIncludes
  <2>2. Good(ReplacedAll(tree, DefaultIncludes(req.nss, LibcDir(req.libs))).tree)
    BY <2>1, IncludesListed, AllGood
  <2> QED
    BY <1>6, <1>13, <1>15, <2>2 DEF StageDefaultIncludes
<1>7. CASE StripAndMeasure
  <2>1. Good(tree)
    BY <1>7, <1>14 DEF StripAndMeasure
  <2>2. tree' = IF req.upx THEN Compressed(tree) ELSE tree
    BY <1>7 DEF StripAndMeasure
  <2>3. Good(tree')
    BY <2>1, <2>2, CompressedGood
  <2> QED
    BY <1>7, <1>13, <1>15, <2>3 DEF StripAndMeasure
<1>8. CASE StageRuntimeExtras
  <2>1. Good(tree)
    BY <1>8, <1>14 DEF StageRuntimeExtras
  <2>2. Good(ReplacedAll(tree, Extras).tree)
    BY <2>1, ExtrasListed, AllGood
  <2> QED
    BY <1>8, <1>13, <1>15, <2>2 DEF StageRuntimeExtras
<1>9. CASE StageAddedFile
  <2>1. Good(tree) /\ k \in 1 .. Len(req.add)
    BY <1>0, <1>9, <1>15, <1>14, RequestFacts DEF StageAddedFile
  <2> DEFINE f == req.add[k]
  <2>2. f.dst \in Path \ {<<>>} /\ f.value \in Path
    BY <1>0, <2>1, RequestFacts
  <2> HIDE DEF f
  <2>3. Good(Replaced(tree, f.dst, File(f.src)).tree) /\ Good(Linked(tree, f.dst, f.value).tree)
    BY <1>16, <2>1, <2>2, ReplacedGood, LinkedGood
  <2>4. \A answer : Good(Added(f, answer).tree)
    BY <2>1, <2>3 DEF Added, Made, Failed
  <2>5. tree' = Added(f, AddAnswer(f)).tree /\ k' = k + 1 /\ req' = req
    BY <1>9 DEF StageAddedFile, f
  <2> QED
    BY <1>13, <1>15, <2>4, <2>5
<1>10. CASE AllAdded
  BY <1>10, <1>13, <1>15, <1>14 DEF AllAdded, Made
<1>11. CASE StageLocale
  <2>1. /\ k \in 1 .. Len(req.locales) /\ pc' \in {"locales", "failed"} /\ req' = req /\ k' = k + 1
        /\ tree' = LocaleStaged(tree, req.locales[k]).tree
    BY <1>0, <1>11, <1>15, RequestFacts DEF StageLocale
  <2>2. req.locales # <<>> /\ req.locales[k].name \in Names
    BY <1>0, <2>1, RequestFacts
  <2>3. ASSUME PlainLocales' PROVE Good(tree')
    <3>1. Unlinked(tree')
      BY <2>1, <2>2, <2>3 DEF PlainLocales, LocalesReal
    <3>2. Unlinked(tree)
      BY <2>1, <2>2, <3>1, LocaleGrows, GrowsUnlinked
    <3>3. Good(tree)
      BY <3>2 DEF StageInv, PlainLocales, LocalesReal
    <3> QED
      BY <2>1, <2>2, <3>2, <3>3, LocaleGood
  <2> QED
    BY <1>0, <1>15, <2>1, <2>3 DEF StageInv
<1>12. CASE AllStaged \/ HostFails \/ UNCHANGED vars
  <2>1. req' = req /\ k' = k /\ tree' = tree
    BY <1>12 DEF AllStaged, HostFails, Made, Failed, vars
  <2>2. PlainLocales' => PlainLocales
    BY <1>12, <2>1 DEF AllStaged, HostFails, PlainLocales, LocalesReal, vars, Ended
  <2>3. Good(tree) => Good(tree')
    BY <2>1
  <2> QED
    BY <1>0, <1>15, <2>1, <2>2, <2>3 DEF StageInv
<1> QED
  BY <1>1, <1>2, <1>3, <1>4, <1>5, <1>6, <1>7, <1>8, <1>9, <1>10, <1>11, <1>12 DEF Next

\* Nothing is made or written outside the staging root, or under another path than the image
\* gives it, whatever is asked for and whatever links are staged.  The locales are written by
\* name: once they are next, no directory on their way may be a link.
THEOREM NothingOutside == Spec => [](PlainLocales => WritesStayInside)
<1>1. StageInv => (PlainLocales => WritesStayInside)
  BY DEF StageInv, Good, Closed, WritesStayInside
<1> QED
  BY <1>1, StageStarts, StageStep, PTL DEF Spec

--------------------------------------------------------------------------------
\* Names, and the values of links.

\* Two sequences, one after the other.
JoinsOf(S, a, b) ==
  /\ b # <<>> => /\ Append(a, Head(b)) \in Seq(S) /\ Tail(b) \in Seq(S)
                 /\ Append(a, Head(b)) \o Tail(b) = a \o b
                 /\ Head(b \o a) = Head(b) /\ Tail(b \o a) = Tail(b) \o a
                 /\ Front(a \o b) = a \o Front(b) /\ Front(b) \in Seq(S)
                 /\ Len(Tail(b)) = Len(b) - 1 /\ Len(Front(b)) = Len(b) - 1
                 /\ a \o b # <<>> /\ b \o a # <<>>
                 /\ b = Append(Front(b), Last(b)) /\ Last(b) \in S
  /\ a \o <<>> = a /\ <<>> \o a = a
  /\ Len(a \o b) = Len(a) + Len(b) /\ Len(a) \in Nat /\ Len(b) \in Nat

\* Whatever they hold.
LEMMA Joins ==
  ASSUME NEW S, NEW a \in Seq(S), NEW b \in Seq(S)
  PROVE  JoinsOf(S, a, b)
<1>1. ASSUME b # <<>>
      PROVE  /\ Append(a, Head(b)) \in Seq(S) /\ Tail(b) \in Seq(S)
             /\ Append(a, Head(b)) \o Tail(b) = a \o b
             /\ Head(b \o a) = Head(b) /\ Tail(b \o a) = Tail(b) \o a
             /\ Front(a \o b) = a \o Front(b) /\ Front(b) \in Seq(S)
             /\ Len(Tail(b)) = Len(b) - 1 /\ Len(Front(b)) = Len(b) - 1
             /\ a \o b # <<>> /\ b \o a # <<>>
             /\ b = Append(Front(b), Last(b)) /\ Last(b) \in S
  <2>1. Head(b) \in S /\ Tail(b) \in Seq(S) /\ Len(b) \in Nat \ {0} /\ Len(Tail(b)) = Len(b) - 1
    BY <1>1
  <2>2. Append(a, Head(b)) \in Seq(S) /\ Append(a, Head(b)) \o Tail(b) \in Seq(S)
    BY <2>1
  <2>3. Append(a, Head(b)) \o Tail(b) = a \o b
    <3>1. Len(Append(a, Head(b)) \o Tail(b)) = Len(a \o b)
      BY <2>1
    <3>2. \A i \in 1 .. Len(a \o b) : (Append(a, Head(b)) \o Tail(b))[i] = (a \o b)[i]
      BY <2>1, <1>1
    <3> QED
      BY <2>2, <3>1, <3>2, SeqEqual
  <2>4. Head(b \o a) = Head(b) /\ a \o b # <<>> /\ b \o a # <<>>
    BY <1>1, <2>1
  <2>5. Tail(b \o a) = Tail(b) \o a
    <3>1. Tail(b \o a) \in Seq(S) /\ Tail(b) \o a \in Seq(S) /\ Len(Tail(b \o a)) = Len(Tail(b) \o a)
      BY <2>1, <2>4
    <3>2. \A i \in 1 .. Len(Tail(b \o a)) : Tail(b \o a)[i] = (Tail(b) \o a)[i]
      BY <2>1, <2>4
    <3> QED
      BY <3>1, <3>2, SeqEqual
  <2>6. Front(b) \in Seq(S) /\ Len(Front(b)) = Len(b) - 1
    BY <2>1 DEF Front
  <2>7. Front(a \o b) = a \o Front(b)
    <3>1. Front(a \o b) \in Seq(S) /\ a \o Front(b) \in Seq(S) /\ Len(Front(a \o b)) = Len(a \o Front(b))
      BY <2>1, <2>6 DEF Front
    <3>2. \A i \in 1 .. Len(Front(a \o b)) : Front(a \o b)[i] = (a \o Front(b))[i]
      BY <2>1, <2>6 DEF Front
    <3> QED
      BY <3>1, <3>2, SeqEqual
  <2>8. Last(b) \in S
    BY <2>1 DEF Last
  <2>9. b = Append(Front(b), Last(b))
    <3>1. PICK f \in Seq(S), l \in S : b = Append(f, l)
      BY <1>1, SequenceEmptyOrAppend
    <3>2. Front(Append(f, l)) = f /\ Last(Append(f, l)) = l
      BY EndsOf, Zenon
    <3> QED
      BY <3>1, <3>2, Zenon
  <2> QED
    BY <2>1, <2>2, <2>3, <2>4, <2>5, <2>6, <2>7, <2>8, <2>9
<1>2. /\ a \o <<>> = a /\ <<>> \o a = a
      /\ Len(a \o b) = Len(a) + Len(b) /\ Len(a) \in Nat /\ Len(b) \in Nat
  BY ConcatEmptySeq
<1> QED
  BY <1>1, <1>2 DEF JoinsOf

\* The same for paths.
LEMMA PathJoins ==
  ASSUME NEW a \in Path, NEW b \in Path
  PROVE  /\ b # <<>> => /\ Append(a, Head(b)) \in Path /\ Tail(b) \in Path
                        /\ Append(a, Head(b)) \o Tail(b) = a \o b
                        /\ Head(b \o a) = Head(b) /\ Tail(b \o a) = Tail(b) \o a
                        /\ Parent(a \o b) = a \o Parent(b)
                        /\ Len(Tail(b)) = Len(b) - 1 /\ Len(Parent(b)) = Len(b) - 1
                        /\ a \o b # <<>> /\ b \o a # <<>>
                        /\ b = Append(Parent(b), Last(b))
         /\ a \o <<>> = a /\ <<>> \o a = a /\ a \o b \in Path
         /\ Len(a \o b) = Len(a) + Len(b) /\ Len(a) \in Nat /\ Len(b) \in Nat
         /\ \A c \in Path : (a \o b) \o c = a \o (b \o c)
<1>1. a \in Seq(Names) /\ b \in Seq(Names)
  BY DEF Path
<1>2. ASSUME NEW c \in Path PROVE (a \o b) \o c = a \o (b \o c)
  <2>1. c \in Seq(Names)
    BY DEF Path
  <2> QED
    BY <1>1, <2>1, ConcatAssociative
<1>3. JoinsOf(Names, a, b)
  BY <1>1, Joins, Zenon
<1>4. a \o b \in Path
  BY PathEnds
<1> QED
  BY <1>2, <1>3, <1>4 DEF JoinsOf, Path, Parent

\* Three paths, one after the other.
LEMMA PathAssoc ==
  ASSUME NEW a \in Path, NEW b \in Path, NEW c \in Path
  PROVE  (a \o b) \o c = a \o (b \o c) /\ a \o b \in Path /\ b \o c \in Path
<1>1. a \in Seq(Names) /\ b \in Seq(Names) /\ c \in Seq(Names)
  BY DEF Path
<1>2. (a \o b) \o c = a \o (b \o c)
  BY <1>1, ConcatAssociative
<1> QED
  BY <1>2, PathEnds

\* A link's value leaves directories, if it does, before it names any.
StraightValue(s) == \A i, j \in DOMAIN s : i < j /\ s[j] \in {Root, Up} => s[i] \in {Root, Up}

\* Names only, name by name.
LEMMA NamesAre ==
  ASSUME NEW p \in Path
  PROVE  /\ NamesOnly(p) <=> \A i \in 1 .. Len(p) : p[i] \notin {Root, Up}
         /\ DOMAIN p = 1 .. Len(p) /\ Len(p) \in Nat
<1>1. DOMAIN p = 1 .. Len(p) /\ Len(p) \in Nat
  BY DEF Path
<1> QED
  BY <1>1 DEF NamesOnly, Range

\* The parts of a path of names, and paths of names put together.
LEMMA NamesParts ==
  ASSUME NEW p \in Path
  PROVE  /\ NamesOnly(<<>>)
         /\ p # <<>> /\ NamesOnly(p) =>
              /\ Head(p) \in Names \ {Root, Up} /\ Last(p) \in Names \ {Root, Up}
              /\ NamesOnly(Tail(p)) /\ NamesOnly(Parent(p))
         /\ \A s \in Names \ {Root, Up} : NamesOnly(p) => NamesOnly(Append(p, s))
         /\ \A q \in Path : NamesOnly(p) /\ NamesOnly(q) <=> NamesOnly(p \o q)
<1>1. p \in Seq(Names) /\ Len(p) \in Nat
  BY DEF Path
<1>2. NamesOnly(<<>>)
  <2>1. <<>> \in Path /\ Len(<<>>) = 0
    BY DEF Path
  <2> QED
    BY <2>1, NamesAre
<1>3. ASSUME p # <<>>, NamesOnly(p)
      PROVE  /\ Head(p) \in Names \ {Root, Up} /\ Last(p) \in Names \ {Root, Up}
             /\ NamesOnly(Tail(p)) /\ NamesOnly(Parent(p))
  <2>1. Len(p) \in Nat \ {0} /\ \A i \in 1 .. Len(p) : p[i] \notin {Root, Up}
    BY <1>1, <1>3, NamesAre
  <2>2. Head(p) = p[1] /\ Last(p) = p[Len(p)]
    BY DEF Last
  <2>3. Head(p) \in Names \ {Root, Up} /\ Last(p) \in Names \ {Root, Up}
    BY <1>1, <2>1, <2>2
  <2>4. NamesOnly(Tail(p))
    <3>1. Tail(p) \in Path /\ \A i \in 1 .. Len(Tail(p)) : Tail(p)[i] = p[i + 1] /\ i + 1 \in 1 .. Len(p)
      BY <1>1, <1>3, <2>1, HeadTailProperties DEF Path
    <3> QED
      BY <2>1, <3>1, NamesAre
  <2>5. NamesOnly(Parent(p))
    <3>1. Parent(p) \in Path /\ \A i \in 1 .. Len(Parent(p)) : Parent(p)[i] = p[i] /\ i \in 1 .. Len(p)
      BY <1>1, <1>3, <2>1, PathEnds DEF Parent, Front
    <3> QED
      BY <2>1, <3>1, NamesAre
  <2> QED
    BY <2>3, <2>4, <2>5
<1>4. ASSUME NEW q \in Path PROVE NamesOnly(p) /\ NamesOnly(q) <=> NamesOnly(p \o q)
  <2>1. q \in Seq(Names) /\ Len(q) \in Nat /\ p \o q \in Path
    BY PathEnds DEF Path
  <2>2. Len(p \o q) = Len(p) + Len(q)
    BY <1>1, <2>1
  <2>3. \A i \in 1 .. Len(p) + Len(q) : (p \o q)[i] = IF i <= Len(p) THEN p[i] ELSE q[i - Len(p)]
    BY <1>1, <2>1, ConcatProperties
  <2>4. ASSUME NamesOnly(p), NamesOnly(q) PROVE NamesOnly(p \o q)
    <3>1. /\ \A i \in 1 .. Len(p) : p[i] \notin {Root, Up}
          /\ \A i \in 1 .. Len(q) : q[i] \notin {Root, Up}
      BY <2>4, NamesAre
    <3>2. ASSUME NEW i \in 1 .. Len(p \o q) PROVE (p \o q)[i] \notin {Root, Up}
      <4>1. CASE i <= Len(p)
        BY <1>1, <2>1, <2>2, <2>3, <3>1, <4>1
      <4>2. CASE ~(i <= Len(p))
        <5>1. i - Len(p) \in 1 .. Len(q)
          BY <1>1, <2>1, <2>2, <4>2
        <5> QED
          BY <1>1, <2>1, <2>2, <2>3, <3>1, <4>2, <5>1
      <4> QED
        BY <4>1, <4>2
    <3> QED
      BY <2>1, <3>2, NamesAre
  <2>5. ASSUME NamesOnly(p \o q) PROVE NamesOnly(p) /\ NamesOnly(q)
    <3>1. \A i \in 1 .. Len(p) + Len(q) : (p \o q)[i] \notin {Root, Up}
      BY <2>1, <2>2, <2>5, NamesAre
    <3>2. \A i \in 1 .. Len(p) : p[i] \notin {Root, Up}
      BY <1>1, <2>1, <2>3, <3>1
    <3>3. ASSUME NEW i \in 1 .. Len(q) PROVE q[i] \notin {Root, Up}
      <4>1. i + Len(p) \in 1 .. Len(p) + Len(q) /\ ~(i + Len(p) <= Len(p)) /\ (i + Len(p)) - Len(p) = i
        BY <1>1, <2>1
      <4> QED
        BY <2>3, <3>1, <4>1
    <3> QED
      BY <3>2, <3>3, NamesAre
  <2> QED
    BY <2>4, <2>5
<1>5. ASSUME NEW s \in Names \ {Root, Up}, NamesOnly(p) PROVE NamesOnly(Append(p, s))
  <2>1. Append(p, s) \in Path /\ Len(Append(p, s)) = Len(p) + 1
    BY <1>1 DEF Path
  <2>2. \A i \in 1 .. Len(p) + 1 : Append(p, s)[i] = IF i <= Len(p) THEN p[i] ELSE s
    BY <1>1
  <2>3. \A i \in 1 .. Len(p) : p[i] \notin {Root, Up}
    BY <1>5, NamesAre
  <2>4. \A i \in 1 .. Len(Append(p, s)) : Append(p, s)[i] \notin {Root, Up}
    BY <1>1, <2>1, <2>2, <2>3
  <2> QED
    BY <2>1, <2>4, NamesAre
<1> QED
  BY <1>2, <1>3, <1>4, <1>5

\* The parts of a link's value, and what is still to walk behind one.
LEMMA StraightParts ==
  ASSUME NEW p \in Path
  PROVE  /\ NamesOnly(p) => StraightValue(p)
         /\ p # <<>> /\ StraightValue(p) =>
              StraightValue(Tail(p)) /\ (Head(p) \notin {Root, Up} => NamesOnly(p))
         /\ \A q \in Path : StraightValue(p) /\ NamesOnly(q) => StraightValue(p \o q)
<1>1. p \in Seq(Names) /\ Len(p) \in Nat /\ DOMAIN p = 1 .. Len(p)
  BY DEF Path
<1>2. NamesOnly(p) => StraightValue(p)
  BY <1>1, NamesAre DEF StraightValue
<1>3. ASSUME p # <<>>, StraightValue(p)
      PROVE  StraightValue(Tail(p)) /\ (Head(p) \notin {Root, Up} => NamesOnly(p))
  <2>1. Len(p) \in Nat \ {0} /\ Head(p) = p[1]
    BY <1>1, <1>3
  <2>2. /\ Tail(p) \in Seq(Names) /\ DOMAIN Tail(p) = 1 .. Len(p) - 1
        /\ \A i \in 1 .. Len(p) - 1 : Tail(p)[i] = p[i + 1]
    BY <1>1, <1>3, <2>1, HeadTailProperties
  <2>3. StraightValue(Tail(p))
    <3> SUFFICES ASSUME NEW i \in 1 .. Len(p) - 1, NEW j \in 1 .. Len(p) - 1, i < j, Tail(p)[j] \in {Root, Up}
                 PROVE  Tail(p)[i] \in {Root, Up}
      BY <2>2 DEF StraightValue
    <3>1. i + 1 \in 1 .. Len(p) /\ j + 1 \in 1 .. Len(p) /\ i + 1 < j + 1
      BY <1>1
    <3>2. p[j + 1] \in {Root, Up}
      BY <2>2
    <3>3. p[i + 1] \in {Root, Up}
      BY <1>1, <1>3, <3>1, <3>2, Zenon DEF StraightValue
    <3> QED
      BY <2>2, <3>3
  <2>4. ASSUME Head(p) \notin {Root, Up} PROVE NamesOnly(p)
    <3>1. ASSUME NEW j \in 1 .. Len(p) PROVE p[j] \notin {Root, Up}
      <4>1. 1 \in 1 .. Len(p) /\ (j = 1 \/ 1 < j)
        BY <2>1
      <4>2. 1 < j /\ p[j] \in {Root, Up} => p[1] \in {Root, Up}
        BY <1>1, <1>3, <4>1, Zenon DEF StraightValue
      <4> QED
        BY <2>1, <2>4, <4>1, <4>2
    <3> QED
      BY <3>1, NamesAre
  <2> QED
    BY <2>3, <2>4
<1>4. ASSUME NEW q \in Path, StraightValue(p), NamesOnly(q) PROVE StraightValue(p \o q)
  <2>1. q \in Seq(Names) /\ Len(q) \in Nat /\ \A i \in 1 .. Len(q) : q[i] \notin {Root, Up}
    BY <1>4, NamesAre DEF Path
  <2>2. DOMAIN (p \o q) = 1 .. Len(p) + Len(q)
    BY <1>1, <2>1
  <2>3. \A i \in 1 .. Len(p) + Len(q) : (p \o q)[i] = IF i <= Len(p) THEN p[i] ELSE q[i - Len(p)]
    BY <1>1, <2>1, ConcatProperties
  <2> SUFFICES ASSUME NEW i \in 1 .. Len(p) + Len(q), NEW j \in 1 .. Len(p) + Len(q), i < j,
                      (p \o q)[j] \in {Root, Up}
               PROVE  (p \o q)[i] \in {Root, Up}
    BY <2>2 DEF StraightValue
  <2>4. j <= Len(p)
    <3> SUFFICES ASSUME ~(j <= Len(p)) PROVE FALSE
      OBVIOUS
    <3>1. j - Len(p) \in 1 .. Len(q)
      BY <1>1, <2>1
    <3> QED
      BY <2>1, <2>3, <3>1
  <2>5. i \in 1 .. Len(p) /\ j \in 1 .. Len(p)
    BY <1>1, <2>1, <2>4
  <2>6. p[j] \in {Root, Up}
    BY <2>3, <2>4
  <2>7. p[i] \in {Root, Up}
    BY <1>1, <1>4, <2>5, <2>6, Zenon DEF StraightValue
  <2> QED
    BY <2>3, <2>5, <2>7
<1> QED
  BY <1>2, <1>3, <1>4

--------------------------------------------------------------------------------
\* The steps of a walk.

\* What stands at a path of a good tree.
LEMMA NodeAt ==
  ASSUME NEW t, Good(t), NEW p \in DOMAIN t
  PROVE  /\ IsNode(t[p]) /\ p \in Path /\ t[p].is \in {"dir", "file", "link"}
         /\ t[p].is = "link" => t[p].to \in Path /\ t[p] = LinkTo(t[p].to)
<1>1. IsNode(t[p]) /\ p \in Path
  BY DEF Good, Typed
<1> QED
  BY <1>1, NodeCases

\* Every step of a walk stays inside the tree.
LEMMA WalkInvs ==
  ASSUME NEW t, Good(t), NEW path \in Path, NEW how \in {"make", "look"},
         NEW N \in Nat, NEW g, IsWalk(g, N, t, path, how)
  PROVE  \A n \in 0 .. N : WalkInv(g[n], t, how)
<1>1. WalkInv(g[0], t, how)
  <2>1. <<>> \in Path
    BY DEF Path
  <2> QED
    BY <2>1 DEF IsWalk, WalkInv, Start, Good, Closed
<1>2. ASSUME NEW n \in 1 .. N, WalkInv(g[n - 1], t, how) PROVE WalkInv(g[n], t, how)
  <2>1. g[n] = IF g[n - 1].todo = <<>> THEN g[n - 1] ELSE WalkStep(g[n - 1], how)
    BY DEF NextWalk, IsWalk
  <2> QED
    BY <2>1, <1>2, WalkStepInv
<1> DEFINE S == {n \in 0 .. N : WalkInv(g[n], t, how)}
<1>3. 0 \in S /\ \A n \in 1 .. N : n - 1 \in S => n \in S
  BY <1>1, <1>2
<1>4. \A n \in 0 .. N : n \in S
  <2> HIDE DEF S
  <2> QED
    BY <1>3, UpTo
<1> QED
  BY <1>4

\* A tree with the same nodes and new directories.
MadeDirs(t, u) ==
  /\ \A p \in DOMAIN t : p \in DOMAIN u /\ u[p] = t[p]
  /\ \A p \in DOMAIN u : p \notin DOMAIN t => u[p] = Dir

\* No directory, one directory, and some more of them.
LEMMA MadeDirsOnly ==
  ASSUME NEW t
  PROVE  /\ MadeDirs(t, t)
         /\ \A path : path \notin DOMAIN t => MadeDirs(t, With(t, path, Dir))
         /\ \A u, v : MadeDirs(t, u) /\ MadeDirs(u, v) => MadeDirs(t, v)
<1>1. \A path : path \notin DOMAIN t => MadeDirs(t, With(t, path, Dir))
  BY DEF MadeDirs, With
<1>2. \A u, v : MadeDirs(t, u) /\ MadeDirs(u, v) => MadeDirs(t, v)
  <2> TAKE u, v
  <2> HAVE MadeDirs(t, u) /\ MadeDirs(u, v)
  <2>1. \A p \in DOMAIN t : p \in DOMAIN v /\ v[p] = t[p]
    BY DEF MadeDirs
  <2>2. \A p \in DOMAIN v : p \notin DOMAIN t => v[p] = Dir
    <3> TAKE p \in DOMAIN v
    <3> HAVE p \notin DOMAIN t
    <3>1. CASE p \in DOMAIN u
      BY <3>1 DEF MadeDirs
    <3>2. CASE p \notin DOMAIN u
      BY <3>2 DEF MadeDirs
    <3> QED
      BY <3>1, <3>2
  <2> QED
    BY <2>1, <2>2 DEF MadeDirs
<1> QED
  BY <1>1, <1>2 DEF MadeDirs

\* A walk that goes on: nothing is missing, and nothing failed.
Here(at, todo, links, t) ==
  [at |-> at, todo |-> todo, links |-> links, missing |-> FALSE, ok |-> TRUE, tree |-> t]
\* One that goes on by name.
ByName(at, todo, links, t) ==
  [at |-> at, todo |-> todo, links |-> links, missing |-> TRUE, ok |-> TRUE, tree |-> t]

\* How it goes on: the name at hand, the rest, and what the step makes of it.
GoesOn(a, s, rest, links, t, how, v) ==
  LET next == Append(a, s)
  IN  /\ s = Root => v = Here(<<>>, rest, links, t)
      /\ s = Up => v = Here(Parent(a), rest, links, t)
      /\ s \notin {Root, Up} /\ next \notin DOMAIN t =>
           /\ how = "make" => v = Here(next, rest, links, With(t, next, Dir))
           /\ how = "look" => v = ByName(next, rest, links, t)
           /\ how = "kernel" => ~v.ok
      /\ s \notin {Root, Up} /\ next \in DOMAIN t =>
           /\ t[next].is = "dir" => v = Here(next, rest, links, t)
           /\ t[next].is = "link" /\ links # MaxLinks =>
                v = Here(a, t[next].to \o rest, links + 1, t)
           /\ t[next].is = "link" /\ links = MaxLinks => ~v.ok /\ v.todo = <<>>
           /\ t[next].is = "file" =>
                IF how = "kernel" /\ rest = <<>> THEN v = Here(next, rest, links, t)
                ELSE ~v.ok /\ v.todo = <<>>

\* Every step goes on so.
LEMMA StepHere ==
  ASSUME NEW a, NEW todo, todo # <<>>, NEW links, NEW t, NEW how
  PROVE  GoesOn(a, Head(todo), Tail(todo), links, t, how, NextWalk(Here(a, todo, links, t), how))
<1> DEFINE s    == Head(todo)
           rest == Tail(todo)
           next == Append(a, s)
           w    == Here(a, todo, links, t)
           v    == NextWalk(w, how)
<1>1. /\ w.at = a /\ w.todo = todo /\ w.links = links /\ ~w.missing /\ w.ok /\ w.tree = t
      /\ DOMAIN w = {"at", "todo", "links", "missing", "ok", "tree"}
  BY DEF Here
<1>2. v = WalkStep(w, how)
  BY <1>1 DEF NextWalk
<1>3. ASSUME s = Root PROVE v = Here(<<>>, rest, links, t)
  BY <1>2, <1>3 DEF WalkStep, Here
<1>4. ASSUME s = Up PROVE v = Here(Parent(a), rest, links, t)
  BY <1>2, <1>4 DEF WalkStep, Here, Root, Up
<1>5. ASSUME s \notin {Root, Up}, next \notin DOMAIN t
      PROVE  /\ how = "make" => v = Here(next, rest, links, With(t, next, Dir))
             /\ how = "look" => v = ByName(next, rest, links, t)
             /\ how = "kernel" => ~v.ok
  <2>1. v = LET r == [w EXCEPT !.todo = Tail(w.todo)]
            IN  IF how = "make" THEN [r EXCEPT !.at = next, !.tree = With(t, next, Dir)]
                ELSE IF how = "look" THEN [r EXCEPT !.at = next, !.missing = TRUE]
                ELSE [w EXCEPT !.ok = FALSE, !.todo = <<>>]
    BY <1>1, <1>2, <1>5 DEF WalkStep
  <2> HIDE DEF v, next, s
  <2>2. how = "make" => v = Here(next, rest, links, With(t, next, Dir))
    <3> DEFINE u == With(t, next, Dir)
    <3>1. how = "make" => v = [[w EXCEPT !.todo = Tail(w.todo)] EXCEPT !.at = next, !.tree = u]
      BY <2>1
    <3> HIDE DEF u
    <3>2. how = "make" => v = Here(next, rest, links, u)
      BY <3>1 DEF Here
    <3> QED
      BY <3>2 DEF u
  <2>3. how = "look" => v = ByName(next, rest, links, t)
    <3>1. how = "look" => v = [[w EXCEPT !.todo = Tail(w.todo)] EXCEPT !.at = next, !.missing = TRUE]
      BY <2>1
    <3> QED
      BY <3>1 DEF Here, ByName
  <2>4. how = "kernel" => ~v.ok
    BY <2>1 DEF Here
  <2> QED
    BY <2>2, <2>3, <2>4
<1>6. ASSUME s \notin {Root, Up}, next \in DOMAIN t
      PROVE  /\ t[next].is = "dir" => v = Here(next, rest, links, t)
             /\ t[next].is = "link" /\ links # MaxLinks =>
                  v = Here(a, t[next].to \o rest, links + 1, t)
             /\ t[next].is = "link" /\ links = MaxLinks => ~v.ok /\ v.todo = <<>>
             /\ t[next].is = "file" =>
                  IF how = "kernel" /\ rest = <<>> THEN v = Here(next, rest, links, t)
                  ELSE ~v.ok /\ v.todo = <<>>
  <2>1. v = LET r == [w EXCEPT !.todo = Tail(w.todo)]
                f == [w EXCEPT !.ok = FALSE, !.todo = <<>>]
            IN  IF t[next].is = "dir" THEN [r EXCEPT !.at = next]
                ELSE IF t[next].is = "link"
                     THEN IF links = MaxLinks THEN f
                          ELSE [r EXCEPT !.todo = t[next].to \o r.todo, !.links = r.links + 1]
                ELSE IF how = "kernel" /\ r.todo = <<>> THEN [r EXCEPT !.at = next]
                ELSE f
    BY <1>1, <1>2, <1>6 DEF WalkStep
  <2> HIDE DEF v, next, s
  <2> QED
    BY <2>1 DEF Here
<1> HIDE DEF v, next, rest, s
<1>7. GoesOn(a, s, rest, links, t, how, v)
  BY <1>3, <1>4, <1>5, <1>6 DEF GoesOn, next
<1> QED
  BY <1>7 DEF v, w, s, rest

\* A walk that has not failed and misses nothing goes on.
LEMMA HereIs ==
  ASSUME NEW w, NEW t, NEW how, WalkInv(w, t, how), w.ok, ~w.missing
  PROVE  w = Here(w.at, w.todo, w.links, w.tree)
<1>1. w \in [at : Path, todo : Path, links : Nat, missing : BOOLEAN, ok : BOOLEAN, tree : {w.tree}]
  BY DEF WalkInv
<1> QED
  BY <1>1 DEF Here

\* A walk that goes on by name goes on by the next.
LEMMA StepByName ==
  ASSUME NEW a, NEW todo, todo # <<>>, Head(todo) \notin {Root, Up}, NEW links, NEW t
  PROVE  NextWalk(ByName(a, todo, links, t), "look") = ByName(Append(a, Head(todo)), Tail(todo), links, t)
<1> DEFINE w == ByName(a, todo, links, t)
           next == Append(a, Head(todo))
<1>1. w.at = a /\ w.todo = todo /\ w.missing
  BY DEF ByName
<1>2. NextWalk(w, "look") = [[w EXCEPT !.todo = Tail(todo)] EXCEPT !.at = next]
  BY <1>1 DEF NextWalk, WalkStep
<1> HIDE DEF next
<1>3. NextWalk(w, "look") = ByName(next, Tail(todo), links, t)
  BY <1>2 DEF ByName
<1> QED
  BY <1>3 DEF next

\* What a step keeps and makes.
LEMMA StepMakes ==
  ASSUME NEW w, NEW t, NEW how \in {"make", "look"}, WalkInv(w, t, how),
         NEW v, v = NextWalk(w, how)
  PROVE  /\ w.links \in Nat /\ v.links \in Nat /\ w.links <= v.links
         /\ MadeDirs(w.tree, v.tree)
<1>1. CASE w.todo = <<>>
  <2>1. v = w
    BY <1>1 DEF NextWalk
  <2> QED
    BY <2>1, MadeDirsOnly DEF WalkInv
<1>2. CASE w.todo # <<>>
  <2>1. v = WalkStep(w, how) /\ w.links \in Nat
    BY <1>2 DEF NextWalk, WalkInv
  <2>2. DOMAIN w = {"at", "todo", "links", "missing", "ok", "tree"}
    BY DEF WalkInv
  <2>3. v.links \in {w.links, w.links + 1}
    BY <2>1, <2>2 DEF WalkStep
  <2>4. v.tree \in {w.tree, With(w.tree, Append(w.at, Head(w.todo)), Dir)}
        /\ (v.tree # w.tree => Append(w.at, Head(w.todo)) \notin DOMAIN w.tree)
    BY <2>1, <2>2 DEF WalkStep
  <2>5. MadeDirs(w.tree, v.tree)
    BY <2>4, MadeDirsOnly
  <2> QED
    BY <2>1, <2>3, <2>5
<1> QED
  BY <1>1, <1>2

\* A walk that has not failed had not.
LEMMA StepBack ==
  ASSUME NEW w, NEW t, NEW how, WalkInv(w, t, how), NEW v, v = NextWalk(w, how), v.ok
  PROVE  w.ok
BY DEF NextWalk, WalkInv

\* A walk that did not fail never had, read no more links before its end, and only made
\* directories since.
LEMMA WalkBack ==
  ASSUME NEW t, Good(t), NEW path \in Path, NEW how \in {"make", "look"},
         NEW N \in Nat, NEW g, IsWalk(g, N, t, path, how), g[N].ok
  PROVE  \A n \in 0 .. N : /\ WalkInv(g[n], t, how) /\ g[n].ok
                           /\ g[n].links \in Nat /\ g[n].links <= g[N].links
                           /\ MadeDirs(g[n].tree, g[N].tree)
<1> DEFINE P(n) == /\ g[n].ok /\ g[n].links \in Nat /\ g[n].links <= g[N].links
                   /\ MadeDirs(g[n].tree, g[N].tree)
           S == {i \in 0 .. N : P(N - i)}
<1>1. \A n \in 0 .. N : WalkInv(g[n], t, how)
  BY WalkInvs
<1>2. 0 \in S
  <2>1. g[N].links \in Nat
    BY <1>1 DEF WalkInv
  <2> QED
    BY <2>1, MadeDirsOnly
<1>3. ASSUME NEW i \in 1 .. N, i - 1 \in S PROVE i \in S
  <2>1. i \in 0 .. N /\ N - i \in 0 .. N /\ N - i + 1 \in 1 .. N /\ N - (i - 1) = N - i + 1 /\ (N - i + 1) - 1 = N - i
    BY <1>3
  <2> DEFINE m == N - i
  <2>2. P(m + 1) /\ m \in 0 .. N /\ m + 1 \in 1 .. N /\ (m + 1) - 1 = m
    BY <1>3, <2>1
  <2> HIDE DEF m
  <2>3. g[m + 1] = NextWalk(g[m], how) /\ g[m + 1].ok
    BY <2>2 DEF IsWalk
  <2>4. /\ g[m].ok /\ g[m].links \in Nat /\ g[m + 1].links \in Nat /\ g[m].links <= g[m + 1].links
        /\ MadeDirs(g[m].tree, g[m + 1].tree)
    BY <1>1, <2>2, <2>3, StepBack, StepMakes
  <2>5. MadeDirs(g[m].tree, g[N].tree)
    BY <2>2, <2>4, MadeDirsOnly
  <2>6. g[N].links \in Nat
    BY <1>1 DEF WalkInv
  <2>7. P(m)
    BY <2>2, <2>4, <2>5, <2>6
  <2> QED
    BY <2>1, <2>7 DEF m
<1>4. \A i \in 0 .. N : i \in S
  <2> HIDE DEF S
  <2> QED
    BY <1>2, <1>3, UpTo
<1>5. ASSUME NEW n \in 0 .. N PROVE P(n)
  <2>1. N - n \in 0 .. N /\ N - (N - n) = n
    OBVIOUS
  <2>2. P(N - (N - n))
    BY <1>4, <2>1
  <2> QED
    BY <2>1, <2>2
<1> QED
  BY <1>1, <1>5

\* Where a walk stands at one step it stands at another.
Stays(g, m, n) == g[n] = g[m]

\* When a walk comes to its end, and that it stays there.
LEMMA WalkEnds ==
  ASSUME NEW t, NEW path, NEW how, NEW N \in Nat, NEW g, IsWalk(g, N, t, path, how),
         NEW m \in 0 .. N, g[m].todo = <<>>, NEW last \in 0 .. N, m <= last
  PROVE  Stays(g, m, last)
<1> DEFINE S == {n \in 0 .. N : m <= n => g[n] = g[m]}
<1>1. 0 \in S
  OBVIOUS
<1>2. ASSUME NEW n \in 1 .. N, n - 1 \in S PROVE n \in S
  <2>1. CASE m <= n - 1
    <3>1. g[n - 1] = g[m] /\ g[n] = NextWalk(g[n - 1], how)
      BY <1>2, <2>1 DEF IsWalk
    <3> QED
      BY <3>1 DEF NextWalk
  <2>2. CASE ~(m <= n - 1)
    <3>1. m <= n => m = n
      BY <2>2
    <3> QED
      BY <3>1
  <2> QED
    BY <2>1, <2>2
<1>3. \A n \in 0 .. N : n \in S
  <2> HIDE DEF S
  <2> QED
    BY <1>1, <1>2, UpTo
<1> QED
  BY <1>3 DEF Stays

\* A tree in which a walk goes the same way: it keeps the directories, and the links if the
\* walk read any.
Serves(t, links, u) ==
  \A p \in DOMAIN t :
    /\ t[p].is = "dir" => p \in DOMAIN u /\ u[p].is = "dir"
    /\ links # 0 /\ t[p].is = "link" => p \in DOMAIN u /\ u[p] = t[p]

\* A step from one state to another is one there too, with more to walk behind it.
SameWay(w, v, u, how, tail) ==
  NextWalk(Here(w.at, w.todo \o tail, w.links, u), how) = Here(v.at, v.todo \o tail, v.links, u)

\* The same step, in such a tree and with more to walk behind it.
LEMMA SameStep ==
  ASSUME NEW w, NEW t, WalkInv(w, t, "make"), w.ok, w.todo # <<>>,
         NEW v, v = NextWalk(w, "make"), v.ok,
         NEW u, Serves(v.tree, v.links, u), NEW how, NEW tail \in Path
  PROVE  SameWay(w, v, u, how, tail)
<1> DEFINE a == w.at
           s == Head(w.todo)
           rest == Tail(w.todo)
           links == w.links
           next == Append(a, s)
           more == rest \o tail
           y == NextWalk(Here(w.at, w.todo \o tail, w.links, u), how)
           node == w.tree[next]
<1>1. /\ w.at \in Path /\ w.todo \in Path /\ w.links \in Nat /\ ~w.missing /\ Good(w.tree)
      /\ rest \in Path /\ next \in Path
  BY PathEnds DEF WalkInv
<1>2. w = Here(w.at, w.todo, w.links, w.tree)
  BY <1>1, HereIs
<1>3. w.todo \o tail # <<>> /\ Head(w.todo \o tail) = s /\ Tail(w.todo \o tail) = more
  BY <1>1, PathJoins
<1>4. GoesOn(a, s, rest, links, w.tree, "make", v)
  <2>1. GoesOn(a, s, rest, links, w.tree, "make", NextWalk(Here(w.at, w.todo, w.links, w.tree), "make"))
    BY StepHere, Zenon
  <2> QED
    BY <1>2, <2>1
<1>5. GoesOn(a, s, more, links, u, how, y)
  <2>1. GoesOn(a, Head(w.todo \o tail), Tail(w.todo \o tail), links, u, how, y)
    BY <1>3, StepHere, Zenon
  <2> QED
    BY <1>3, <2>1
<1>6. links \in Nat
  BY <1>1
<1>7. \A at, todo, n : v = Here(at, todo, n, w.tree) =>
        v.at = at /\ v.todo = todo /\ v.links = n /\ v.tree = w.tree
  BY DEF Here
<1>8. next \in DOMAIN w.tree =>
        IsNode(node) /\ node.is \in {"dir", "file", "link"} /\ (node.is = "link" => node.to \in Path)
  BY <1>1, NodeAt
<1>9. node.is = "link" /\ next \in DOMAIN w.tree => node.to \o more = (node.to \o rest) \o tail
  <2>1. \A x \in Path : x \o more = (x \o rest) \o tail
    <3> HIDE DEF node, rest, next
    <3> TAKE x \in Path
    <3>1. rest \in Path
      BY <1>1
    <3> QED
      BY <3>1, PathAssoc, Zenon DEF more
  <2> HIDE DEF node, more, rest, next
  <2> QED
    BY <1>8, <2>1
<1> HIDE DEF a, s, rest, links, next, more, y, node
<1> SUFFICES y = Here(v.at, v.todo \o tail, v.links, u)
  BY DEF y, SameWay
<1>10. CASE s = Root
  <2>1. v = Here(<<>>, rest, links, w.tree) /\ y = Here(<<>>, more, links, u)
    BY <1>4, <1>5, <1>10 DEF GoesOn
  <2> QED
    BY <1>7, <2>1 DEF more
<1>11. CASE s = Up
  <2>1. v = Here(Parent(a), rest, links, w.tree) /\ y = Here(Parent(a), more, links, u)
    BY <1>4, <1>5, <1>11 DEF GoesOn
  <2> QED
    BY <1>7, <2>1 DEF more
<1>12. CASE s \notin {Root, Up} /\ next \notin DOMAIN w.tree
  <2>1. v = Here(next, rest, links, With(w.tree, next, Dir))
    BY <1>4, <1>12 DEF GoesOn, next
  <2>2. v.at = next /\ v.todo = rest /\ v.links = links /\ v.tree = With(w.tree, next, Dir)
    BY <2>1 DEF Here
  <2>3. next \in DOMAIN v.tree /\ v.tree[next].is = "dir"
    BY <2>2 DEF With, Dir
  <2>4. next \in DOMAIN u /\ u[next].is = "dir"
    BY <2>3 DEF Serves
  <2>5. y = Here(next, more, links, u)
    BY <1>5, <1>12, <2>4 DEF GoesOn, next
  <2> QED
    BY <2>2, <2>5 DEF more
<1>13. CASE s \notin {Root, Up} /\ next \in DOMAIN w.tree
  <2>1. CASE node.is = "dir"
    <3>1. v = Here(next, rest, links, w.tree)
      BY <1>4, <1>13, <2>1 DEF GoesOn, next, node
    <3>2. v.at = next /\ v.todo = rest /\ v.links = links /\ v.tree = w.tree
      BY <1>7, <3>1
    <3>3. next \in DOMAIN u /\ u[next].is = "dir"
      BY <1>13, <2>1, <3>2 DEF Serves, node
    <3>4. y = Here(next, more, links, u)
      BY <1>5, <1>13, <3>3 DEF GoesOn, next
    <3> QED
      BY <3>2, <3>4 DEF more
  <2>2. CASE node.is = "link" /\ links # MaxLinks
    <3>1. v = Here(a, node.to \o rest, links + 1, w.tree)
      BY <1>4, <1>13, <2>2 DEF GoesOn, next, node
    <3>2. v.at = a /\ v.todo = node.to \o rest /\ v.links = links + 1 /\ v.tree = w.tree
      BY <1>7, <3>1
    <3>3. v.links # 0
      BY <1>6, <3>2
    <3>4. next \in DOMAIN u /\ u[next] = node
      BY <1>13, <2>2, <3>2, <3>3 DEF Serves, node
    <3>5. y = Here(a, node.to \o more, links + 1, u)
      BY <1>5, <1>13, <2>2, <3>4 DEF GoesOn, next
    <3> QED
      BY <1>9, <1>13, <2>2, <3>2, <3>5
  <2>3. CASE node.is # "dir" /\ ~(node.is = "link" /\ links # MaxLinks)
    <3>1. ~v.ok
      BY <1>4, <1>8, <1>13, <2>3 DEF GoesOn, next, node
    <3> QED
      BY <3>1
  <2> QED
    BY <2>1, <2>2, <2>3
<1> QED
  BY <1>10, <1>11, <1>12, <1>13

\* A walk that came to its end is the last state of its steps.
LEMMA WalkedOk ==
  ASSUME NEW t, Good(t), NEW path \in Path, NEW how \in {"make", "look"},
         NEW l, l = Walked(t, path, how), l.ok, NEW N, N = StepsOf(path)
  PROVE  \E g : IsWalk(g, N, t, path, how) /\ g[N].ok /\ g[N].todo = <<>> /\ l = g[N]
<1>1. N \in Nat
  BY StepsAre
<1>2. PICK g : IsWalk(g, N, t, path, how)
  BY <1>1, WalkedIs, Zenon
<1>3. WalkInv(g[N], t, how)
  BY <1>1, <1>2, WalkInvs
<1>4. l = [g[N] EXCEPT !.ok = g[N].ok /\ g[N].todo = <<>>]
  BY <1>2 DEF IsWalk
<1> DEFINE e == g[N]
<1>5. e \in [at : Path, todo : Path, links : Nat, missing : BOOLEAN, ok : BOOLEAN, tree : {e.tree}]
  BY <1>3 DEF WalkInv
<1>6. l = [e EXCEPT !.ok = e.ok /\ e.todo = <<>>]
  BY <1>4
<1> HIDE DEF e
<1>7. e.ok /\ e.todo = <<>> /\ l = e
  BY <1>5, <1>6
<1> QED
  BY <1>2, <1>7 DEF e

\* A walk comes to a place with more to walk, in no more steps than the path before it takes.
Reaches(h, M, path, at, tail, links, u) ==
  \E m \in 0 .. M : m <= StepsOf(path) /\ h[m] = Here(at, tail, links, u)

\* A walk that came to its end goes the same way in every tree that serves it, with more to
\* walk behind it.
LEMMA Follows ==
  ASSUME NEW t, Good(t), NEW path \in Path, NEW l, l = Walked(t, path, "make"), l.ok,
         NEW u, Serves(l.tree, l.links, u), NEW how, NEW tail \in Path,
         NEW M, M = StepsOf(path \o tail), NEW h, IsWalk(h, M, u, path \o tail, how)
  PROVE  Reaches(h, M, path, l.at, tail, l.links, u)
<1> DEFINE N == StepsOf(path)
<1>1. N \in Nat /\ M \in Nat /\ N <= M /\ N = StepsOf(path)
  <2>1. path \o tail \in Path /\ Len(path \o tail) = Len(path) + Len(tail) /\ Len(path) \in Nat /\ Len(tail) \in Nat
    BY PathJoins
  <2> QED
    BY <2>1, NamesKnown DEF StepsOf
<1> HIDE DEF N
<1>2. PICK g : IsWalk(g, N, t, path, "make") /\ g[N].ok /\ g[N].todo = <<>> /\ l = g[N]
  BY <1>1, WalkedOk
<1>3. \A n \in 0 .. N : /\ WalkInv(g[n], t, "make") /\ g[n].ok
                        /\ g[n].links \in Nat /\ g[n].links <= l.links
                        /\ MadeDirs(g[n].tree, l.tree)
  BY <1>1, <1>2, WalkBack
<1>4. ASSUME NEW n \in 0 .. N PROVE Serves(g[n].tree, g[n].links, u)
  <2>1. \A p \in DOMAIN g[n].tree : p \in DOMAIN l.tree /\ l.tree[p] = g[n].tree[p]
    BY <1>3 DEF MadeDirs
  <2>2. g[n].links \in Nat /\ l.links \in Nat /\ g[n].links <= l.links
    BY <1>1, <1>2, <1>3
  <2>3. g[n].links # 0 => l.links # 0
    BY <2>2
  <2> QED
    BY <2>1, <2>3 DEF Serves
<1>5. PICK m \in 0 .. N : g[m].todo = <<>> /\ \A n \in 0 .. N : g[n].todo = <<>> => m <= n
  <2> DEFINE E == {n \in 0 .. N : g[n].todo = <<>>}
  <2>1. N \in E /\ E \in SUBSET Nat
    BY <1>1, <1>2
  <2>2. PICK m \in E : \A n \in E : m <= n
    <3> HIDE DEF E
    <3> QED
      BY <2>1, LeastExists
  <2> QED
    BY <2>2
<1>6. g[m] = l
  <2>1. N \in 0 .. N /\ m <= N
    BY <1>1, <1>5
  <2>2. Stays(g, m, N)
    BY <1>1, <1>2, <1>5, <2>1, WalkEnds, Zenon
  <2> QED
    BY <1>2, <2>2 DEF Stays
<1> DEFINE S == {n \in 0 .. N : n <= m => h[n] = Here(g[n].at, g[n].todo \o tail, g[n].links, u)}
<1>7. 0 \in S
  <2>1. g[0] = Start(t, path) /\ h[0] = Start(u, path \o tail)
    BY <1>2 DEF IsWalk
  <2>2. h[0] = Here(g[0].at, g[0].todo \o tail, g[0].links, u)
    BY <2>1 DEF Start, Here
  <2> QED
    BY <1>1, <2>2
<1>8. ASSUME NEW n \in 1 .. N, n - 1 \in S PROVE n \in S
  <2> SUFFICES ASSUME n <= m PROVE h[n] = Here(g[n].at, g[n].todo \o tail, g[n].links, u)
    BY <1>8
  <2> DEFINE w == g[n - 1]
             v == g[n]
  <2>1. n - 1 \in 0 .. N /\ n \in 0 .. N /\ n - 1 <= m /\ ~(m <= n - 1) /\ n \in 1 .. M
    BY <1>1, <1>5
  <2>2. w.todo # <<>>
    BY <1>5, <2>1
  <2>3. v = NextWalk(w, "make") /\ h[n] = NextWalk(h[n - 1], how)
    BY <1>2, <2>1 DEF IsWalk
  <2>4. h[n - 1] = Here(w.at, w.todo \o tail, w.links, u)
    BY <1>8, <2>1
  <2>5. WalkInv(w, t, "make") /\ w.ok /\ v.ok /\ Serves(v.tree, v.links, u)
    BY <1>3, <1>4, <2>1
  <2> HIDE DEF w, v
  <2>6. SameWay(w, v, u, how, tail)
    BY <2>2, <2>3, <2>5, SameStep, Zenon
  <2>7. h[n] = Here(v.at, v.todo \o tail, v.links, u)
    BY <2>3, <2>4, <2>6 DEF SameWay
  <2> QED
    BY <2>7 DEF v
<1>9. \A n \in 0 .. N : n \in S
  <2> HIDE DEF S
  <2> QED
    BY <1>1, <1>7, <1>8, UpTo
<1>10. h[m] = Here(l.at, l.todo \o tail, l.links, u)
  BY <1>6, <1>9
<1>11. l.todo \o tail = tail
  <2>1. <<>> \o tail = tail
    BY PathJoins
  <2> QED
    BY <1>2, <2>1
<1> QED
  <2>1. m \in 0 .. M /\ m <= StepsOf(path)
    BY <1>1, <1>5
  <2> QED
    BY <1>10, <1>11, <2>1 DEF Reaches

\* A walk that is at its end stays what it is.
LEMMA EndOk ==
  ASSUME NEW at, NEW links, NEW u, NEW w, w = Here(at, <<>>, links, u) \/ w = ByName(at, <<>>, links, u),
         NEW v, v = [w EXCEPT !.ok = w.ok /\ w.todo = <<>>]
  PROVE  v = w
<1> DEFINE R == [at : {at}, todo : {<<>>}, links : {links}, missing : BOOLEAN, ok : BOOLEAN, tree : {u}]
<1>1. Here(at, <<>>, links, u) \in R /\ ByName(at, <<>>, links, u) \in R
  BY DEF Here, ByName
<1>2. w \in R
  <2> HIDE DEF R
  <2> QED
    BY <1>1
<1>3. w.ok /\ w.todo = <<>>
  <2>1. /\ Here(at, <<>>, links, u).ok /\ Here(at, <<>>, links, u).todo = <<>>
        /\ ByName(at, <<>>, links, u).ok /\ ByName(at, <<>>, links, u).todo = <<>>
    BY DEF Here, ByName
  <2> QED
    BY <2>1
<1> QED
  BY <1>2, <1>3

\* A path leads where a walk led.
Leads(u, path, how, l) == Walked(u, path, how) = Here(l.at, <<>>, l.links, u)

\* So the same path leads to the same place there, and nothing is made on the way.
LEMMA FollowsTo ==
  ASSUME NEW t, Good(t), NEW path \in Path, NEW l, l = Walked(t, path, "make"), l.ok,
         NEW u, Serves(l.tree, l.links, u), NEW how
  PROVE  Leads(u, path, how, l)
<1> DEFINE N == StepsOf(path)
<1>1. N \in Nat /\ N = StepsOf(path) /\ <<>> \in Path
  BY StepsAre DEF Path
<1> HIDE DEF N
<1>2. PICK h : IsWalk(h, N, u, path, how)
  BY <1>1, WalkedIs, Zenon
<1>3. path \o <<>> = path
  BY <1>1, PathJoins
<1>4. PICK m \in 0 .. N : m <= StepsOf(path) /\ h[m] = Here(l.at, <<>>, l.links, u)
  <2>1. N = StepsOf(path \o <<>>) /\ IsWalk(h, N, u, path \o <<>>, how)
    BY <1>1, <1>2, <1>3
  <2>2. Reaches(h, N, path, l.at, <<>>, l.links, u)
    BY <1>1, <2>1, Follows, Zenon
  <2> QED
    BY <2>2 DEF Reaches
<1>5. h[N] = Here(l.at, <<>>, l.links, u)
  <2>1. h[m].todo = <<>>
    BY <1>4 DEF Here
  <2>2. N \in 0 .. N /\ m <= N
    BY <1>1, <1>4
  <2>3. Stays(h, m, N)
    BY <1>1, <1>2, <1>4, <2>1, <2>2, WalkEnds, Zenon
  <2> QED
    BY <1>4, <2>3 DEF Stays
<1>6. Walked(u, path, how) = [h[N] EXCEPT !.ok = h[N].ok /\ h[N].todo = <<>>]
  BY <1>2 DEF IsWalk
<1>7. Walked(u, path, how) = h[N]
  BY <1>5, <1>6, EndOk
<1> QED
  BY <1>5, <1>7 DEF Leads

\* The kernel finds there, by one name more, what the tree has at it.
LEMMA FollowsShown ==
  ASSUME NEW t, Good(t), NEW path \in Path, NEW l, l = Walked(t, path, "make"), l.ok,
         NEW u, Serves(l.tree, l.links, u), NEW s \in Names \ {Root, Up},
         Append(l.at, s) \in DOMAIN u, u[Append(l.at, s)].is \in {"dir", "file"}
  PROVE  Shown(u, Append(path, s)) = u[Append(l.at, s)]
<1> DEFINE long == path \o <<s>>
           M == StepsOf(long)
<1>1. <<s>> \in Path /\ long \in Path /\ long = Append(path, s) /\ M \in Nat /\ StepsOf(path) + 1 = M
      /\ M = StepsOf(path \o <<s>>) /\ StepsOf(path) \in Nat
  <2>1. <<s>> \in Path /\ Len(<<s>>) = 1
    BY DEF Path
  <2>2. long \in Path /\ Len(long) = Len(path) + 1 /\ Len(path) \in Nat
    <3>1. long \in Path /\ Len(long) = Len(path) + Len(<<s>>) /\ Len(path) \in Nat
      BY <2>1, PathJoins, Zenon
    <3> QED
      BY <2>1, <3>1
  <2>3. long = Append(path, s)
    BY DEF Path
  <2> QED
    BY <2>1, <2>2, <2>3, NamesKnown DEF StepsOf
<1> HIDE DEF M
<1>2. PICK h : IsWalk(h, M, u, long, "kernel")
  BY <1>1, WalkedIs, Zenon
<1>3. PICK m \in 0 .. M : m <= StepsOf(path) /\ h[m] = Here(l.at, <<s>>, l.links, u)
  <2>1. Reaches(h, M, path, l.at, <<s>>, l.links, u)
    BY <1>1, <1>2, Follows, Zenon
  <2> QED
    BY <2>1 DEF Reaches
<1> DEFINE next == Append(l.at, s)
           y == NextWalk(Here(l.at, <<s>>, l.links, u), "kernel")
<1>4. Head(<<s>>) = s /\ Tail(<<s>>) = <<>> /\ <<s>> # <<>>
  OBVIOUS
<1>5. GoesOn(l.at, s, <<>>, l.links, u, "kernel", y)
  <2>1. GoesOn(l.at, Head(<<s>>), Tail(<<s>>), l.links, u, "kernel", y)
    BY <1>4, StepHere, Zenon
  <2> QED
    BY <1>4, <2>1
<1>6. y = Here(next, <<>>, l.links, u)
  <2> HIDE DEF y
  <2> QED
    BY <1>5 DEF GoesOn
<1>7. m + 1 \in 1 .. M /\ (m + 1) - 1 = m /\ m + 1 \in 0 .. M /\ m + 1 <= M /\ M \in 0 .. M
  BY <1>1, <1>3
<1>8. h[m + 1] = Here(next, <<>>, l.links, u)
  BY <1>2, <1>3, <1>6, <1>7 DEF IsWalk
<1>9. h[M] = Here(next, <<>>, l.links, u)
  <2>1. h[m + 1].todo = <<>>
    BY <1>8 DEF Here
  <2>2. Stays(h, m + 1, M)
    BY <1>1, <1>2, <1>7, <2>1, WalkEnds, Zenon
  <2> QED
    BY <1>8, <2>2 DEF Stays
<1>10. Walked(u, long, "kernel") = [h[M] EXCEPT !.ok = h[M].ok /\ h[M].todo = <<>>]
  BY <1>2 DEF IsWalk
<1>13. Walked(u, long, "kernel") = Here(next, <<>>, l.links, u)
  BY <1>9, <1>10, EndOk
<1>14. Shown(u, long) = u[next]
  <2> HIDE DEF next
  <2>1. Walked(u, long, "kernel").ok /\ Walked(u, long, "kernel").tree = u /\ Walked(u, long, "kernel").at = next
    BY <1>13 DEF Here
  <2> QED
    BY <2>1 DEF Shown
<1> QED
  BY <1>1, <1>14

\* A walk, whether it comes to its end or not, makes only directories.
LEMMA WalkedMakes ==
  ASSUME NEW t, Good(t), NEW path \in Path, NEW how \in {"make", "look"}
  PROVE  MadeDirs(t, Walked(t, path, how).tree)
<1> DEFINE N == StepsOf(path)
<1>1. N \in Nat /\ N = StepsOf(path)
  BY StepsAre
<1> HIDE DEF N
<1>2. PICK g : IsWalk(g, N, t, path, how)
  BY <1>1, WalkedIs, Zenon
<1>3. \A n \in 0 .. N : WalkInv(g[n], t, how)
  BY <1>1, <1>2, WalkInvs
<1> DEFINE S == {n \in 0 .. N : MadeDirs(t, g[n].tree)}
<1>4. 0 \in S
  <2>1. g[0].tree = t
    BY <1>2 DEF IsWalk, Start
  <2> QED
    BY <1>1, <2>1, MadeDirsOnly
<1>5. ASSUME NEW n \in 1 .. N, n - 1 \in S PROVE n \in S
  <2>1. n - 1 \in 0 .. N /\ g[n] = NextWalk(g[n - 1], how) /\ MadeDirs(t, g[n - 1].tree)
    BY <1>2, <1>5 DEF IsWalk
  <2>2. MadeDirs(g[n - 1].tree, g[n].tree)
    BY <1>3, <2>1, StepMakes
  <2> QED
    BY <2>1, <2>2, MadeDirsOnly
<1>6. MadeDirs(t, g[N].tree)
  <2>1. \A n \in 0 .. N : n \in S
    <3> HIDE DEF S
    <3> QED
      BY <1>1, <1>4, <1>5, UpTo
  <2> QED
    BY <1>1, <2>1
<1>7. Walked(t, path, how).tree = g[N].tree
  <2>1. Walked(t, path, how) = [g[N] EXCEPT !.ok = g[N].ok /\ g[N].todo = <<>>]
    BY <1>2 DEF IsWalk
  <2>2. WalkInv(g[N], t, how)
    BY <1>1, <1>3
  <2> QED
    BY <2>1, <2>2 DEF WalkInv
<1> QED
  BY <1>6, <1>7

\* Every link of the tree leaves directories, if it does, before it names any.
StraightTree(t) == \A p \in DOMAIN t : t[p].is = "link" => StraightValue(t[p].to)

\* `make` and `look`, step by step: the one makes what the other goes on by name for, and then
\* there is nothing below.
InStep(w, v, t) ==
  /\ StraightValue(w.todo)
  /\ \/ w.tree = t /\ v = Here(w.at, w.todo, w.links, t)
     \/ /\ v = ByName(w.at, w.todo, w.links, t) /\ NamesOnly(w.todo)
        /\ \A s \in Names : Append(w.at, s) \notin DOMAIN w.tree

\* While nothing is missing.
LEMMA InStepHere ==
  ASSUME NEW t, Good(t), StraightTree(t), NEW w, WalkInv(w, t, "make"), w.ok, w.todo # <<>>,
         w.tree = t, StraightValue(w.todo), NEW x, x = NextWalk(w, "make"), x.ok
  PROVE  InStep(x, NextWalk(Here(w.at, w.todo, w.links, t), "look"), t)
<1> DEFINE a == w.at
           s == Head(w.todo)
           rest == Tail(w.todo)
           links == w.links
           next == Append(a, s)
           y == NextWalk(Here(w.at, w.todo, w.links, t), "look")
           node == t[next]
<1>1. /\ w.at \in Path /\ w.todo \in Path /\ w.links \in Nat /\ ~w.missing /\ rest \in Path /\ next \in Path
  BY PathEnds DEF WalkInv
<1>2. w = Here(w.at, w.todo, w.links, t)
  BY <1>1, HereIs
<1>3. GoesOn(a, s, rest, links, t, "make", x)
  <2>1. GoesOn(a, s, rest, links, t, "make", NextWalk(Here(w.at, w.todo, w.links, t), "make"))
    BY StepHere, Zenon
  <2> QED
    BY <1>2, <2>1
<1>4. GoesOn(a, s, rest, links, t, "look", y)
  BY StepHere, Zenon
<1>5. next \in DOMAIN t =>
        node.is \in {"dir", "file", "link"} /\ (node.is = "link" => node.to \in Path /\ StraightValue(node.to))
  BY NodeAt DEF StraightTree
<1>6. StraightValue(rest) /\ (s \notin {Root, Up} => NamesOnly(w.todo))
  BY <1>1, StraightParts
<1>7. s \notin {Root, Up} => NamesOnly(rest)
  BY <1>1, <1>6, NamesParts
<1>8. \A at, todo, n, u : x = Here(at, todo, n, u) =>
        x.at = at /\ x.todo = todo /\ x.links = n /\ x.tree = u
  BY DEF Here
<1>9. node.is = "link" /\ next \in DOMAIN t /\ NamesOnly(rest) => StraightValue(node.to \o rest)
  BY <1>1, <1>5, StraightParts
<1>10. next \notin DOMAIN t => \A q \in Names : Append(next, q) \notin DOMAIN With(t, next, Dir)
  <2> SUFFICES ASSUME next \notin DOMAIN t, NEW q \in Names PROVE Append(next, q) \notin DOMAIN With(t, next, Dir)
    OBVIOUS
  <2> HIDE DEF next
  <2>1. Append(next, q) # <<>> /\ Parent(Append(next, q)) = next
    BY <1>1, PathEnds
  <2>2. Append(next, q) \notin DOMAIN t
    BY <2>1 DEF Good, Closed
  <2>3. Append(next, q) # next
    <3>1. next \in Seq(Names)
      BY <1>1 DEF Path
    <3>2. Len(next) \in Nat /\ Len(Append(next, q)) = Len(next) + 1
      BY <3>1
    <3> QED
      BY <3>2
  <2> QED
    BY <2>2, <2>3 DEF With
<1> HIDE DEF a, s, rest, links, next, y, node
<1> SUFFICES InStep(x, y, t)
  BY DEF y
<1>12. CASE s = Root
  <2>1. x = Here(<<>>, rest, links, t) /\ y = x
    BY <1>3, <1>4, <1>12 DEF GoesOn
  <2> QED
    BY <1>6, <1>8, <2>1 DEF InStep
<1>13. CASE s = Up
  <2>1. x = Here(Parent(a), rest, links, t) /\ y = x
    BY <1>3, <1>4, <1>13 DEF GoesOn
  <2> QED
    BY <1>6, <1>8, <2>1 DEF InStep
<1>14. CASE s \notin {Root, Up} /\ next \notin DOMAIN t
  <2>1. x = Here(next, rest, links, With(t, next, Dir)) /\ y = ByName(next, rest, links, t)
    BY <1>3, <1>4, <1>14 DEF GoesOn, next
  <2>2. x.at = next /\ x.todo = rest /\ x.links = links /\ x.tree = With(t, next, Dir)
    BY <1>8, <2>1
  <2>3. \A q \in Names : Append(next, q) \notin DOMAIN x.tree
    BY <1>10, <1>14, <2>2
  <2> QED
    BY <1>6, <1>7, <1>14, <2>1, <2>2, <2>3 DEF InStep
<1>15. CASE s \notin {Root, Up} /\ next \in DOMAIN t
  <2>1. CASE node.is = "dir"
    <3>1. x = Here(next, rest, links, t) /\ y = x
      BY <1>3, <1>4, <1>15, <2>1 DEF GoesOn, next, node
    <3> QED
      BY <1>6, <1>8, <3>1 DEF InStep
  <2>2. CASE node.is = "link" /\ links # MaxLinks
    <3>1. x = Here(a, node.to \o rest, links + 1, t) /\ y = x
      BY <1>3, <1>4, <1>15, <2>2 DEF GoesOn, next, node
    <3>2. x.at = a /\ x.todo = node.to \o rest /\ x.links = links + 1 /\ x.tree = t
      BY <1>8, <3>1
    <3>3. StraightValue(node.to \o rest)
      BY <1>7, <1>9, <1>15, <2>2
    <3> QED
      BY <3>1, <3>2, <3>3 DEF InStep
  <2>3. CASE node.is # "dir" /\ ~(node.is = "link" /\ links # MaxLinks)
    <3>1. ~x.ok
      BY <1>3, <1>5, <1>15, <2>3 DEF GoesOn, next, node
    <3> QED
      BY <3>1
  <2> QED
    BY <2>1, <2>2, <2>3
<1> QED
  BY <1>12, <1>13, <1>14, <1>15

\* Once something is missing.
LEMMA InStepByName ==
  ASSUME NEW t, NEW w, WalkInv(w, t, "make"), w.ok, w.todo # <<>>,
         StraightValue(w.todo), NamesOnly(w.todo), \A q \in Names : Append(w.at, q) \notin DOMAIN w.tree,
         NEW x, x = NextWalk(w, "make")
  PROVE  InStep(x, NextWalk(ByName(w.at, w.todo, w.links, t), "look"), t)
<1> DEFINE a == w.at
           s == Head(w.todo)
           rest == Tail(w.todo)
           links == w.links
           next == Append(a, s)
           u == With(w.tree, next, Dir)
           y == NextWalk(ByName(w.at, w.todo, w.links, t), "look")
<1>1. /\ w.at \in Path /\ w.todo \in Path /\ w.links \in Nat /\ ~w.missing /\ rest \in Path /\ next \in Path
      /\ Good(w.tree)
  BY PathEnds DEF WalkInv
<1>2. w = Here(w.at, w.todo, w.links, w.tree)
  BY <1>1, HereIs
<1>3. s \in Names \ {Root, Up} /\ NamesOnly(rest) /\ StraightValue(rest)
  BY <1>1, NamesParts, StraightParts
<1>4. next \notin DOMAIN w.tree
  BY <1>3
<1>5. x = Here(next, rest, links, u)
  <2>1. GoesOn(a, s, rest, links, w.tree, "make", NextWalk(Here(w.at, w.todo, w.links, w.tree), "make"))
    BY StepHere, Zenon
  <2>2. GoesOn(a, s, rest, links, w.tree, "make", x)
    BY <1>2, <2>1
  <2> HIDE DEF a, s, rest, links, next
  <2> QED
    BY <1>3, <1>4, <2>2 DEF GoesOn, next
<1>6. y = ByName(next, rest, links, t)
  BY <1>1, <1>3, StepByName
<1>7. \A q \in Names : Append(next, q) \notin DOMAIN u
  <2> SUFFICES ASSUME NEW q \in Names PROVE Append(next, q) \notin DOMAIN u
    OBVIOUS
  <2> HIDE DEF next
  <2>1. Append(next, q) # <<>> /\ Parent(Append(next, q)) = next
    BY <1>1, PathEnds
  <2>2. Append(next, q) \notin DOMAIN w.tree
    BY <1>1, <1>4, <2>1 DEF Good, Closed
  <2>3. Append(next, q) # next
    <3>1. next \in Seq(Names)
      BY <1>1 DEF Path
    <3>2. Len(next) \in Nat /\ Len(Append(next, q)) = Len(next) + 1
      BY <3>1
    <3> QED
      BY <3>2
  <2> QED
    BY <2>2, <2>3 DEF With
<1> HIDE DEF a, s, rest, links, next, y, u
<1>8. x.at = next /\ x.todo = rest /\ x.links = links /\ x.tree = u
  BY <1>5 DEF Here
<1>9. InStep(x, y, t)
  BY <1>3, <1>6, <1>7, <1>8 DEF InStep
<1> QED
  BY <1>9 DEF y

\* The two walks of a path, to their end.
LEMMA Lockstep ==
  ASSUME NEW t, Good(t), StraightTree(t), NEW path \in Path, StraightValue(path),
         NEW l, l = Walked(t, path, "make"), l.ok
  PROVE  InStep(l, Walked(t, path, "look"), t)
<1> DEFINE N == StepsOf(path)
<1>1. N \in Nat /\ N = StepsOf(path) /\ N \in 0 .. N
  BY StepsAre
<1> HIDE DEF N
<1>2. PICK g : IsWalk(g, N, t, path, "make") /\ g[N].ok /\ g[N].todo = <<>> /\ l = g[N]
  BY <1>1, WalkedOk
<1>3. PICK h : IsWalk(h, N, t, path, "look")
  BY <1>1, WalkedIs, Zenon
<1>4. \A n \in 0 .. N : WalkInv(g[n], t, "make") /\ g[n].ok
  BY <1>1, <1>2, WalkBack
<1> DEFINE S == {n \in 0 .. N : InStep(g[n], h[n], t)}
<1>5. 0 \in S
  <2>1. g[0] = Start(t, path) /\ h[0] = Start(t, path)
    BY <1>2, <1>3 DEF IsWalk
  <2>2. InStep(g[0], h[0], t)
    BY <2>1 DEF InStep, Start, Here
  <2> QED
    BY <1>1, <2>2
<1>6. ASSUME NEW n \in 1 .. N, n - 1 \in S PROVE n \in S
  <2> DEFINE w == g[n - 1]
             x == g[n]
             v == h[n - 1]
             y == h[n]
  <2>1. n - 1 \in 0 .. N /\ n \in 0 .. N
    BY <1>1
  <2>2. /\ WalkInv(w, t, "make") /\ w.ok /\ x.ok /\ InStep(w, v, t)
        /\ x = NextWalk(w, "make") /\ y = NextWalk(v, "look")
    BY <1>2, <1>3, <1>4, <1>6, <2>1 DEF IsWalk
  <2> HIDE DEF w, x, v, y
  <2>3. CASE w.todo = <<>>
    <3>1. x = w
      BY <2>2, <2>3 DEF NextWalk
    <3>2. v.todo = <<>>
      BY <2>2, <2>3 DEF InStep, Here, ByName
    <3>3. y = v
      BY <2>2, <3>2 DEF NextWalk
    <3> QED
      BY <2>1, <2>2, <3>1, <3>3 DEF x, y
  <2>4. CASE w.todo # <<>>
    <3>1. CASE w.tree = t /\ v = Here(w.at, w.todo, w.links, t)
      <4>1. InStep(x, NextWalk(Here(w.at, w.todo, w.links, t), "look"), t)
        <5>1. StraightValue(w.todo)
          BY <2>2 DEF InStep
        <5> QED
          BY <2>2, <2>4, <3>1, <5>1, InStepHere, Zenon
      <4> QED
        BY <2>1, <2>2, <3>1, <4>1 DEF x, y
    <3>2. CASE /\ v = ByName(w.at, w.todo, w.links, t) /\ NamesOnly(w.todo)
               /\ \A s \in Names : Append(w.at, s) \notin DOMAIN w.tree
      <4>1. InStep(x, NextWalk(ByName(w.at, w.todo, w.links, t), "look"), t)
        <5>1. StraightValue(w.todo)
          BY <2>2 DEF InStep
        <5> QED
          BY <2>2, <2>4, <3>2, <5>1, InStepByName, Zenon
      <4> QED
        BY <2>1, <2>2, <3>2, <4>1 DEF x, y
    <3> QED
      BY <2>2, <3>1, <3>2 DEF InStep
  <2> QED
    BY <2>3, <2>4
<1>7. InStep(l, h[N], t)
  <2>1. \A n \in 0 .. N : n \in S
    <3> HIDE DEF S
    <3> QED
      BY <1>1, <1>5, <1>6, UpTo
  <2> QED
    BY <1>1, <1>2, <2>1
<1> DEFINE e == h[N]
           v == Walked(t, path, "look")
<1>8. v = [e EXCEPT !.ok = e.ok /\ e.todo = <<>>]
  BY <1>3 DEF IsWalk
<1> HIDE DEF e, v
<1>9. v = e
  <2>1. e = Here(l.at, <<>>, l.links, t) \/ e = ByName(l.at, <<>>, l.links, t)
    BY <1>2, <1>7 DEF e, InStep
  <2> QED
    BY <1>8, <2>1, EndOk
<1> QED
  BY <1>7, <1>9 DEF e, v

\* What is not there yet, the walk that would write it does not find either.
LEMMA NotStaged ==
  ASSUME NEW t, Good(t), StraightTree(t), NEW path \in Path \ {<<>>}, StraightValue(Parent(path)),
         ~IsStaged(t, path),
         NEW l, l = Walked(t, Parent(path), "make"), l.ok
  PROVE  Append(l.at, Last(path)) \notin DOMAIN l.tree
<1> DEFINE v == Walked(t, Parent(path), "look")
           w == StagedPath(t, path, "look")
<1>1. Parent(path) \in Path /\ Last(path) \in Names
  BY PathEnds
<1>2. InStep(l, v, t)
  BY <1>1, Lockstep
<1>3. w = [v EXCEPT !.at = IF path = <<>> THEN v.at ELSE Append(v.at, Last(path))]
  BY DEF StagedPath
<1> HIDE DEF v, w
<1>4. v.ok /\ v.at = l.at /\ DOMAIN v = {"at", "todo", "links", "missing", "ok", "tree"}
  BY <1>2 DEF InStep, Here, ByName
<1>5. w.ok /\ w.at = Append(l.at, Last(path))
  BY <1>3, <1>4
<1>6. Append(l.at, Last(path)) \notin DOMAIN t
  BY <1>5 DEF IsStaged, w
<1> QED
  BY <1>1, <1>2, <1>6 DEF InStep

--------------------------------------------------------------------------------
\* What a step leaves of the tree.

\* Where a file or a link of a path is written.
Target(l, path) == Append(l.at, Last(path))

\* The place of a path, where the walk of its directory led.
PlaceOf(w, l, path, how) ==
  /\ w.at = Target(l, path) /\ w.ok = l.ok /\ w.tree = l.tree /\ w.missing = l.missing
  /\ l.ok \in BOOLEAN /\ Good(l.tree) /\ l.at \in Path /\ Last(path) \in Names
  /\ how = "make" /\ l.ok => l.at \in DOMAIN l.tree /\ l.tree[l.at].is = "dir"

\* `staged_path` is the walk of the directory, and the name.
LEMMA StagedPathIs ==
  ASSUME NEW t, Good(t), NEW path \in Path \ {<<>>}, NEW how \in {"make", "look"},
         NEW l, l = Walked(t, Parent(path), how)
  PROVE  PlaceOf(StagedPath(t, path, how), l, path, how)
<1> DEFINE w == StagedPath(t, path, how)
<1>1. Parent(path) \in Path /\ Last(path) \in Names
  BY PathEnds
<1>2. /\ DOMAIN l = {"at", "todo", "links", "missing", "ok", "tree"}
      /\ l.at \in Path /\ l.ok \in BOOLEAN /\ l.missing \in BOOLEAN /\ Good(l.tree)
      /\ l.missing => how = "look"
      /\ l.ok /\ ~l.missing => l.at \in DOMAIN l.tree /\ l.tree[l.at].is = "dir"
  <2> DEFINE v == Walked(t, Parent(path), how)
  <2>1. /\ DOMAIN v = {"at", "todo", "links", "missing", "ok", "tree"}
        /\ v.at \in Path /\ v.ok \in BOOLEAN /\ v.missing \in BOOLEAN
        /\ Good(v.tree) /\ (how = "look" => v.tree = t)
        /\ v.missing => how = "look"
        /\ v.ok /\ ~v.missing => v.at \in DOMAIN v.tree /\ v.tree[v.at].is = "dir"
    BY <1>1, WalkedInv, Zenon
  <2> HIDE DEF v
  <2>2. l = v
    BY DEF v
  <2> QED
    BY <2>1, <2>2
<1>3. w = [l EXCEPT !.at = Append(l.at, Last(path))]
  <2>1. w = [l EXCEPT !.at = IF path = <<>> THEN l.at ELSE Append(l.at, Last(path))]
    BY DEF StagedPath
  <2> HIDE DEF w
  <2> QED
    BY <2>1
<1> HIDE DEF w
<1>4. w.at = Append(l.at, Last(path)) /\ w.ok = l.ok /\ w.tree = l.tree /\ w.missing = l.missing
  BY <1>2, <1>3
<1>5. PlaceOf(w, l, path, how)
  BY <1>1, <1>2, <1>4 DEF PlaceOf, Target
<1> QED
  BY <1>5 DEF w

\* A write of a node at a place where a walk led, or what the walk made.
Writes(res, t, l, at, n) ==
  /\ res.ok \in BOOLEAN /\ Good(l.tree) /\ MadeDirs(t, l.tree)
  /\ res.ok => /\ l.ok /\ res.tree = With(l.tree, at, n)
               /\ ~(at \in DOMAIN l.tree /\ l.tree[at].is = "dir")
  /\ ~res.ok => res.tree = l.tree
  /\ l.ok /\ at \notin DOMAIN l.tree => res.ok

\* `copy_into`, `write_into`.
LEMMA ReplacedIs ==
  ASSUME NEW t, Good(t), NEW path \in Path \ {<<>>}, NEW n, NEW l, l = Walked(t, Parent(path), "make")
  PROVE  Writes(Replaced(t, path, n), t, l, Target(l, path), n)
<1> DEFINE w == StagedPath(t, path, "make")
           at == Target(l, path)
           blocked == at \in DOMAIN l.tree /\ l.tree[at].is = "dir"
           res == Replaced(t, path, n)
<1>1. w.at = at /\ w.ok = l.ok /\ w.tree = l.tree /\ l.ok \in BOOLEAN /\ Good(l.tree)
  <2>1. PlaceOf(StagedPath(t, path, "make"), l, path, "make")
    BY StagedPathIs, Zenon
  <2> HIDE DEF at
  <2> QED
    BY <2>1 DEF PlaceOf, at
<1>2. res = [ok |-> w.ok /\ ~(w.at \in DOMAIN w.tree /\ w.tree[w.at].is = "dir"),
             tree |-> IF w.ok /\ ~(w.at \in DOMAIN w.tree /\ w.tree[w.at].is = "dir")
                      THEN With(w.tree, w.at, n) ELSE w.tree]
  BY DEF Replaced
<1>3. MadeDirs(t, l.tree)
  <2>1. Parent(path) \in Path
    BY PathEnds
  <2> QED
    BY <2>1, WalkedMakes
<1> HIDE DEF w, at, res
<1>4. res = [ok |-> l.ok /\ ~blocked, tree |-> IF l.ok /\ ~blocked THEN With(l.tree, at, n) ELSE l.tree]
  BY <1>1, <1>2
<1>5. (res.ok <=> l.ok /\ ~blocked) /\ res.ok \in BOOLEAN
      /\ res.tree = (IF l.ok /\ ~blocked THEN With(l.tree, at, n) ELSE l.tree)
  BY <1>4
<1>6. Writes(res, t, l, at, n)
  BY <1>1, <1>3, <1>5 DEF Writes
<1> QED
  BY <1>6 DEF res, at

\* `place_symlink`, over nothing.
LEMMA LinkedIs ==
  ASSUME NEW t, Good(t), NEW path \in Path \ {<<>>}, NEW value, NEW l, l = Walked(t, Parent(path), "make")
  PROVE  /\ Writes(Linked(t, path, value), t, l, Target(l, path), LinkTo(value))
         /\ Linked(t, path, value).ok => Target(l, path) \notin DOMAIN l.tree
<1> DEFINE w == StagedPath(t, path, "make")
           at == Target(l, path)
           n == LinkTo(value)
           res == Linked(t, path, value)
<1>1. w.at = at /\ w.ok = l.ok /\ w.tree = l.tree /\ l.ok \in BOOLEAN /\ Good(l.tree)
  <2>1. PlaceOf(StagedPath(t, path, "make"), l, path, "make")
    BY StagedPathIs, Zenon
  <2> HIDE DEF at
  <2> QED
    BY <2>1 DEF PlaceOf, at
<1>2. res = [ok |-> w.ok /\ w.at \notin DOMAIN w.tree,
             tree |-> IF w.ok /\ w.at \notin DOMAIN w.tree THEN With(w.tree, w.at, n) ELSE w.tree]
  BY DEF Linked
<1>3. MadeDirs(t, l.tree)
  <2>1. Parent(path) \in Path
    BY PathEnds
  <2> QED
    BY <2>1, WalkedMakes
<1> HIDE DEF w, at, res, n
<1>4. res = [ok |-> l.ok /\ at \notin DOMAIN l.tree,
             tree |-> IF l.ok /\ at \notin DOMAIN l.tree THEN With(l.tree, at, n) ELSE l.tree]
  BY <1>1, <1>2
<1>5. (res.ok <=> l.ok /\ at \notin DOMAIN l.tree) /\ res.ok \in BOOLEAN
      /\ res.tree = (IF l.ok /\ at \notin DOMAIN l.tree THEN With(l.tree, at, n) ELSE l.tree)
  BY <1>4
<1>6. Writes(res, t, l, at, n) /\ (res.ok => at \notin DOMAIN l.tree)
  BY <1>1, <1>3, <1>5 DEF Writes
<1> QED
  BY <1>6 DEF res, at, n

\* Everything there is kept as it is.
Extends(t, u) == \A p \in DOMAIN t : p \in DOMAIN u /\ u[p] = t[p]

\* By nothing, by new directories, by a new node, and by some after others.
LEMMA ExtendsOnly ==
  ASSUME NEW t
  PROVE  /\ Extends(t, t)
         /\ \A u : MadeDirs(t, u) => Extends(t, u)
         /\ \A path, n : path \notin DOMAIN t => Extends(t, With(t, path, n))
         /\ \A u, v : Extends(t, u) /\ Extends(u, v) => Extends(t, v)
BY DEF Extends, MadeDirs, With

\* A link that is straight, or anything else, at a path.
LEMMA StraightWith ==
  ASSUME NEW t, StraightTree(t), NEW path, NEW n, n.is = "link" => StraightValue(n.to)
  PROVE  StraightTree(With(t, path, n))
BY DEF StraightTree, With

\* New directories.
LEMMA StraightMade ==
  ASSUME NEW t, StraightTree(t), NEW u, MadeDirs(t, u)
  PROVE  StraightTree(u)
<1>1. Dir.is # "link"
  BY DEF Dir
<1> QED
  BY <1>1 DEF StraightTree, MadeDirs

\* A write.
LEMMA WritesStraight ==
  ASSUME NEW res, NEW t, StraightTree(t), NEW l, NEW at, NEW n, Writes(res, t, l, at, n),
         n.is = "link" => StraightValue(n.to)
  PROVE  StraightTree(res.tree)
<1>1. StraightTree(l.tree)
  BY StraightMade DEF Writes
<1>2. StraightTree(With(l.tree, at, n))
  BY <1>1, StraightWith
<1> QED
  BY <1>1, <1>2 DEF Writes

--------------------------------------------------------------------------------
\* The added files.

\* Only straight links are added.
StraightAdds == \A i \in DOMAIN req.add : req.add[i].link => StraightValue(req.add[i].value)

\* An added file or link is where the walk of its directory leads, and nothing is made on the way.
Kept(f, answer, t) ==
  answer \in {"copy", "link"} =>
    LET l == Walked(t, Parent(f.dst), "make")
    IN  /\ l.ok /\ l.tree = t /\ Target(l, f.dst) \in DOMAIN t
        /\ answer = "copy" => t[Target(l, f.dst)] = File(f.src)
        /\ answer = "link" => t[Target(l, f.dst)] = LinkTo(f.value)

\* A tree that keeps everything serves every walk.
LEMMA ExtendsServes ==
  ASSUME NEW t, NEW u, Extends(t, u), NEW links
  PROVE  Serves(t, links, u)
BY DEF Extends, Serves

\* It stays there while nothing is taken away.
LEMMA KeptStays ==
  ASSUME NEW t, Good(t), NEW u, Extends(t, u), NEW f, f.dst \in Path \ {<<>>}, NEW answer,
         Kept(f, answer, t)
  PROVE  Kept(f, answer, u)
<1> SUFFICES ASSUME answer \in {"copy", "link"} PROVE Kept(f, answer, u)
  BY DEF Kept
<1> DEFINE l == Walked(t, Parent(f.dst), "make")
           v == Walked(u, Parent(f.dst), "make")
<1>1. /\ l.ok /\ l.tree = t /\ Target(l, f.dst) \in DOMAIN t
      /\ answer = "copy" => t[Target(l, f.dst)] = File(f.src)
      /\ answer = "link" => t[Target(l, f.dst)] = LinkTo(f.value)
  BY DEF Kept
<1>2. v = Here(l.at, <<>>, l.links, u)
  <2>1. Parent(f.dst) \in Path
    BY PathEnds
  <2>2. Serves(l.tree, l.links, u)
    BY <1>1, ExtendsServes
  <2>3. Leads(u, Parent(f.dst), "make", l)
    BY <1>1, <2>1, <2>2, FollowsTo, Zenon
  <2> QED
    BY <2>3 DEF Leads
<1> HIDE DEF l, v
<1>3. v.ok /\ v.tree = u /\ v.at = l.at
  BY <1>2 DEF Here
<1>4. Target(v, f.dst) = Target(l, f.dst)
  BY <1>3 DEF Target
<1>5. /\ v.ok /\ v.tree = u /\ Target(v, f.dst) \in DOMAIN u
      /\ answer = "copy" => u[Target(v, f.dst)] = File(f.src)
      /\ answer = "link" => u[Target(v, f.dst)] = LinkTo(f.value)
  BY <1>1, <1>3, <1>4 DEF Extends
<1> QED
  BY <1>5 DEF Kept, v

\* A node that a walk finds without making anything, in a tree that kept another.
FoundAt(v, path, n, t, u) ==
  v.ok /\ v.tree = u /\ Target(v, path) \in DOMAIN u /\ u[Target(v, path)] = n /\ Extends(t, u)

\* What was written in a directory that a walk led to is there from then on.
LEMMA WrittenIsKept ==
  ASSUME NEW t, Good(t), NEW path \in Path \ {<<>>}, NEW l, l = Walked(t, Parent(path), "make"), l.ok,
         NEW n, Target(l, path) \notin DOMAIN l.tree,
         NEW u, u = With(l.tree, Target(l, path), n)
  PROVE  FoundAt(Walked(u, Parent(path), "make"), path, n, t, u)
<1> DEFINE v == Walked(u, Parent(path), "make")
<1>1. Extends(l.tree, u)
  BY ExtendsOnly
<1>2. v = Here(l.at, <<>>, l.links, u)
  <2>1. Parent(path) \in Path
    BY PathEnds
  <2>2. Serves(l.tree, l.links, u)
    BY <1>1, ExtendsServes
  <2>3. Leads(u, Parent(path), "make", l)
    BY <2>1, <2>2, FollowsTo, Zenon
  <2> QED
    BY <2>3 DEF Leads
<1> HIDE DEF v
<1>3. v.ok /\ v.tree = u /\ v.at = l.at
  BY <1>2 DEF Here
<1>4. Target(v, path) = Target(l, path)
  BY <1>3 DEF Target
<1>5. Target(v, path) \in DOMAIN u /\ u[Target(v, path)] = n
  BY <1>4 DEF With
<1>6. Extends(t, u)
  <2>1. Parent(path) \in Path
    BY PathEnds
  <2>2. MadeDirs(t, l.tree)
    BY <2>1, WalkedMakes
  <2> QED
    BY <1>1, <2>2, ExtendsOnly
<1> QED
  BY <1>3, <1>5, <1>6 DEF FoundAt, v

\* What becomes of one entry: nothing is taken away, and it is kept.
LEMMA AddedIsKept ==
  ASSUME Good(tree), StraightTree(tree),
         NEW f, f.dst \in Path \ {<<>>}, f.value \in Path, Parsed(f),
         f.link \in BOOLEAN, f.link => StraightValue(f.value),
         NEW answer, answer = AddAnswer(f), NEW res, res = Added(f, answer)
  PROVE  /\ Extends(tree, res.tree) /\ Good(res.tree) /\ StraightTree(res.tree)
         /\ res.ok => Kept(f, answer, res.tree) /\ answer \in {"copy", "link", "skip"}
<1> DEFINE l == Walked(tree, Parent(f.dst), "make")
           at == Target(l, f.dst)
           v(u) == Walked(u, Parent(f.dst), "make")
<1>1. answer \in {"copy", "link", "skip", "refuse"}
      /\ (answer \in {"copy", "link"} => ~IsStaged(tree, f.dst)) /\ (answer = "link" => f.link)
  BY DEF AddAnswer
<1>2. Parent(f.dst) \in Path /\ StraightValue(Parent(f.dst))
  BY PathEnds, NamesParts, StraightParts DEF Parsed
<1>3. l.ok /\ answer \in {"copy", "link"} => at \notin DOMAIN l.tree
  BY <1>1, <1>2, NotStaged DEF Target
<1>4. MadeDirs(tree, l.tree)
  BY <1>2, WalkedMakes
<1>5. Extends(tree, tree) /\ Extends(tree, l.tree)
  BY <1>4, ExtendsOnly
<1>6. CASE answer = "copy"
  <2> DEFINE n == File(f.src)
  <2>1. res = Replaced(tree, f.dst, n)
    BY <1>6 DEF Added
  <2>2. Writes(Replaced(tree, f.dst, n), tree, l, at, n)
    BY ReplacedIs
  <2>3. Good(res.tree)
    <3>1. IsNode(n)
      BY DEF IsNode, File
    <3> QED
      BY <2>1, <3>1, ReplacedGood
  <2>4. StraightTree(res.tree)
    <3>1. n.is # "link"
      BY DEF File
    <3> HIDE DEF l, at, n
    <3> QED
      BY <2>1, <2>2, <3>1, WritesStraight, Zenon
  <2> HIDE DEF n, at
  <2>5. ASSUME res.ok PROVE Extends(tree, res.tree) /\ Kept(f, answer, res.tree)
    <3>1. l.ok /\ res.tree = With(l.tree, at, n) /\ at \notin DOMAIN l.tree
      BY <1>3, <1>6, <2>1, <2>2, <2>5 DEF Writes
    <3>2. FoundAt(v(res.tree), f.dst, n, tree, res.tree)
      BY <3>1, WrittenIsKept, Zenon DEF at
    <3> QED
      BY <1>6, <3>2 DEF Kept, FoundAt, n
  <2>6. ASSUME ~res.ok PROVE Extends(tree, res.tree)
    BY <1>5, <2>1, <2>2, <2>6 DEF Writes
  <2> QED
    BY <1>6, <2>3, <2>4, <2>5, <2>6
<1>7. CASE answer = "link"
  <2> DEFINE n == LinkTo(f.value)
  <2>1. res = Linked(tree, f.dst, f.value)
    BY <1>7 DEF Added
  <2>2. Writes(Linked(tree, f.dst, f.value), tree, l, at, n)
    BY LinkedIs
  <2>3. Good(res.tree)
    BY <2>1, LinkedGood
  <2>4. StraightTree(res.tree)
    <3>1. n.is = "link" => StraightValue(n.to)
      BY <1>1, <1>7 DEF LinkTo
    <3> HIDE DEF l, at, n
    <3> QED
      BY <2>1, <2>2, <3>1, WritesStraight, Zenon
  <2> HIDE DEF n, at
  <2>5. ASSUME res.ok PROVE Extends(tree, res.tree) /\ Kept(f, answer, res.tree)
    <3>1. l.ok /\ res.tree = With(l.tree, at, n) /\ at \notin DOMAIN l.tree
      BY <1>3, <1>7, <2>1, <2>2, <2>5 DEF Writes
    <3>2. FoundAt(v(res.tree), f.dst, n, tree, res.tree)
      BY <3>1, WrittenIsKept, Zenon DEF at
    <3> QED
      BY <1>7, <3>2 DEF Kept, FoundAt, n
  <2>6. ASSUME ~res.ok PROVE Extends(tree, res.tree)
    BY <1>5, <2>1, <2>2, <2>6 DEF Writes
  <2> QED
    BY <1>7, <2>3, <2>4, <2>5, <2>6
<1>8. CASE answer \in {"skip", "refuse"}
  <2>1. res.tree = tree /\ (answer = "refuse" => ~res.ok)
    BY <1>8 DEF Added, Made, Failed
  <2> QED
    BY <1>5, <1>8, <2>1 DEF Kept
<1> QED
  BY <1>1, <1>6, <1>7, <1>8

\* A locale goes into a directory of its own, and nothing is taken away.
LEMMA LocaleAdds ==
  ASSUME NEW t, Good(t), StraightTree(t), NEW l, l.name \in Names
  PROVE  LET u == LocaleStaged(t, l).tree IN Extends(t, u) /\ Good(u) /\ StraightTree(u)
<1> DEFINE path == <<"usr", "lib", "locale", l.name>>
           w == StagedPath(t, path, "make")
           v == Walked(t, LocaleDir, "make")
           u == LocaleStaged(t, l).tree
           Kept2(x) == Extends(t, x) /\ Good(x) /\ StraightTree(x)
<1>1. /\ path \in Path \ {<<>>} /\ Parent(path) = LocaleDir /\ Last(path) = l.name
      /\ path = Append(LocaleDir, l.name) /\ LocaleDir \in Path
  BY LocalePath, Zenon
<1>2. /\ w.at = Append(v.at, l.name) /\ w.ok = v.ok /\ w.tree = v.tree /\ Good(v.tree)
      /\ v.ok => v.at \in DOMAIN v.tree /\ v.tree[v.at].is = "dir"
  <2>1. PlaceOf(w, v, path, "make")
    <3>1. v = Walked(t, Parent(path), "make")
      BY <1>1
    <3> HIDE DEF v, path
    <3> QED
      BY <1>1, <3>1, StagedPathIs, Zenon
  <2> HIDE DEF v, w, path
  <2> QED
    BY <1>1, <2>1 DEF PlaceOf, Target
<1>3. MadeDirs(t, v.tree)
  BY <1>1, WalkedMakes
<1>4. StraightTree(v.tree) /\ Extends(t, v.tree)
  BY <1>3, StraightMade, ExtendsOnly
<1>5. StraightValue(LocaleDir)
  <2>1. NamesOnly(LocaleDir)
    BY DEF NamesOnly, Range, LocaleDir, Root, Up
  <2> QED
    BY <1>1, <2>1, StraightParts
<1>6. ~IsStaged(t, path) /\ v.ok => Append(v.at, l.name) \notin DOMAIN v.tree
  <2>1. v = Walked(t, Parent(path), "make") /\ StraightValue(Parent(path))
    BY <1>1, <1>5
  <2> HIDE DEF v, path
  <2> QED
    BY <1>1, <2>1, NotStaged
<1>7. u = IF ~ValidName(l) \/ IsStaged(t, path) THEN t
          ELSE IF ~w.ok THEN w.tree
          ELSE IF l.host = "none" THEN Compiled(w.tree, w.at, l).tree ELSE CopiedDir(w.tree, w.at, l).tree
  BY DEF LocaleStaged, Failed
<1> HIDE DEF v, w, path, u
<1>8. Kept2(t) /\ Kept2(v.tree)
  BY <1>2, <1>4, ExtendsOnly
<1>9. CASE ~IsStaged(t, path) /\ v.ok
  <2> DEFINE at == Append(v.at, l.name)
             d == With(v.tree, at, Dir)
             x == LocaleData(v.tree, at, l).tree
  <2>1. v.at \in DOMAIN v.tree /\ v.tree[v.at].is = "dir" /\ at \notin DOMAIN v.tree
    BY <1>2, <1>6, <1>9
  <2>2. /\ Good(HostDir(v.tree, at).tree) /\ Good(x) /\ HostDir(v.tree, at).tree = d
        /\ \E below, f : below \notin DOMAIN d /\ f.is = "file" /\ x = With(d, below, f)
    <3>1. LocaleIn(v.tree, at, l)
      BY <1>2, <2>1, DataGood, Zenon
    <3> HIDE DEF at
    <3> QED
      BY <3>1 DEF LocaleIn
  <2> HIDE DEF at, d, x
  <2>3. Kept2(d)
    <3>1. Extends(v.tree, d)
      BY <2>1, ExtendsOnly DEF d
    <3>2. StraightTree(d)
      BY <1>4, StraightWith DEF d, Dir
    <3> QED
      BY <1>4, <2>2, <3>1, <3>2, ExtendsOnly
  <2>4. Kept2(x)
    <3>1. PICK below, f : below \notin DOMAIN d /\ f.is = "file" /\ x = With(d, below, f)
      BY <2>2
    <3>2. Extends(d, x)
      BY <3>1, ExtendsOnly
    <3>3. StraightTree(x)
      BY <2>3, <3>1, StraightWith
    <3> QED
      BY <2>2, <2>3, <3>2, <3>3, ExtendsOnly
  <2>5. Compiled(v.tree, at, l).tree \in {v.tree, x} /\ CopiedDir(v.tree, at, l).tree \in {d, x}
    BY <2>2 DEF Compiled, CopiedDir, Failed, x
  <2>6. u \in {t, v.tree, d, x}
    BY <1>2, <1>7, <2>5 DEF at
  <2> HIDE DEF Kept2
  <2>7. Kept2(u)
    BY <1>8, <2>3, <2>4, <2>6
  <2> QED
    BY <2>7 DEF Kept2, u
<1>10. CASE ~(~IsStaged(t, path) /\ v.ok)
  <2>1. u \in {t, v.tree}
    BY <1>2, <1>7, <1>10
  <2> HIDE DEF Kept2
  <2>2. Kept2(u)
    BY <1>8, <2>1
  <2> QED
    BY <2>2 DEF Kept2, u
<1> QED
  BY <1>9, <1>10

--------------------------------------------------------------------------------
\* No step before stages a link that is not straight.

\* A value of one name.
LEMMA OneIsStraight ==
  ASSUME NEW s
  PROVE  StraightValue(<<s>>)
BY DEF StraightValue

\* `relative_link_value` goes up before it goes down.
LEMMA RelativeStraight ==
  ASSUME NEW from \in Path, NEW to \in Path, NamesOnly(to)
  PROVE  StraightValue(RelativeValue(from, to))
<1> DEFINE n == Len(LongestCommonPrefix({from, to}))
           ups == [i \in 1 .. Len(from) - n |-> Up]
           down == SubSeq(to, n + 1, Len(to))
<1>1. n \in Nat /\ n <= Len(from) /\ n <= Len(to)
  BY CommonPrefixFits, Zenon DEF Path
<1> HIDE DEF n
<1>2. Len(from) \in Nat /\ Len(to) \in Nat
  BY DEF Path
<1>3. ups \in Path /\ StraightValue(ups)
  <2>1. Len(from) - n \in Nat
    BY <1>1, <1>2
  <2>2. Up \in Names
    BY NamesKnown
  <2>3. ups \in Seq(Names)
    BY <2>1, <2>2
  <2> QED
    BY <2>3 DEF Path, StraightValue
<1>4. down \in Path /\ NamesOnly(down)
  <2>1. down \in Path /\ \A i \in 1 .. Len(down) : n + i \in 1 .. Len(to) /\ down[i] = to[n + i]
    <3>1. to \in Seq(Names) /\ n + 1 \in 1 .. Len(to) + 1
      BY <1>1, <1>2 DEF Path
    <3>2. down \in Seq(Names) /\ Len(down) = Len(to) - n
      BY <1>1, <1>2, <3>1
    <3>3. \A i \in 1 .. Len(to) - n : down[i] = to[n + i]
      BY <1>1, <1>2, <3>1
    <3> QED
      BY <1>1, <1>2, <3>2, <3>3 DEF Path
  <2>2. \A i \in 1 .. Len(to) : to[i] \notin {Root, Up}
    BY NamesAre
  <2> HIDE DEF down
  <2>3. \A i \in 1 .. Len(down) : down[i] \notin {Root, Up}
    BY <2>1, <2>2
  <2> QED
    BY <2>1, <2>3, NamesAre
<1> HIDE DEF ups, down
<1>5. StraightValue(ups \o down)
  BY <1>3, <1>4, StraightParts
<1> QED
  BY <1>5 DEF RelativeValue, n, ups, down

\* `symlink_soname`, and the library.
LEMMA LibraryStraight ==
  ASSUME NEW t, Good(t), StraightTree(t), NEW lib \in [path : Path \ {<<>>}, soname : Path]
  PROVE  StraightTree(LibraryStaged(t, lib).tree)
<1> DEFINE copied == Replaced(t, lib.path, File(lib.path))
           l == Walked(t, Parent(lib.path), "make")
           raw == Joined(Parent(lib.path), lib.soname)
           w   == Walked(copied.tree, Parent(raw), "look")
           n == LinkTo(<<Last(lib.path)>>)
<1>1. StraightTree(copied.tree)
  <2>1. Writes(Replaced(t, lib.path, File(lib.path)), t, l, Target(l, lib.path), File(lib.path))
    BY ReplacedIs
  <2>2. File(lib.path).is # "link"
    BY DEF File
  <2> QED
    BY <2>1, <2>2, WritesStraight
<1>2. SonameLinked(copied.tree, lib).tree \in {copied.tree, With(copied.tree, Append(w.at, Last(raw)), n)}
  BY DEF SonameLinked, Failed, Made
<1>3. StraightTree(With(copied.tree, Append(w.at, Last(raw)), n))
  <2>1. n.is = "link" => StraightValue(n.to)
    BY OneIsStraight DEF LinkTo
  <2> QED
    BY <1>1, <2>1, StraightWith
<1>4. LibraryStaged(t, lib) = IF copied.ok /\ <<Last(lib.path)>> # lib.soname
                              THEN SonameLinked(copied.tree, lib) ELSE copied
  BY DEF LibraryStaged
<1> HIDE DEF copied, w, n, raw
<1> QED
  BY <1>1, <1>2, <1>3, <1>4

\* Several files of one step.
LEMMA AllStraight ==
  ASSUME NEW t, Good(t), StraightTree(t), NEW files, Listed(files)
  PROVE  StraightTree(ReplacedAll(t, files).tree)
<1> DEFINE N == Len(files)
<1>1. N \in Nat /\ (\A i \in 1 .. N : IsEntry(files[i])) /\ \E g : IsFill(g, N, t, files)
  BY FilledIs
<1> HIDE DEF N
<1>2. PICK g : IsFill(g, N, t, files)
  BY <1>1
<1> DEFINE S == {n \in 0 .. N : Good(g[n].tree) /\ StraightTree(g[n].tree)}
<1>3. 0 \in S
  BY <1>1, <1>2 DEF IsFill, Made
<1>4. ASSUME NEW n \in 1 .. N, n - 1 \in S PROVE n \in S
  <2> DEFINE u == g[n - 1].tree
             f == files[n]
             res == Replaced(u, f.at, f.node)
             l == Walked(u, Parent(f.at), "make")
  <2>1. g[n] = NextFile(g[n - 1], f) /\ Good(u) /\ StraightTree(u) /\ n \in 0 .. N
    BY <1>2, <1>4 DEF IsFill
  <2>2. f.at \in Path \ {<<>>} /\ IsNode(f.node) /\ f.node.is = "file"
    BY <1>1 DEF IsEntry
  <2> HIDE DEF u, f
  <2>3. Good(res.tree)
    BY <2>1, <2>2, ReplacedGood
  <2>4. StraightTree(res.tree)
    <3>1. Writes(Replaced(u, f.at, f.node), u, l, Target(l, f.at), f.node)
      BY <2>1, <2>2, ReplacedIs
    <3> HIDE DEF l
    <3> QED
      BY <2>1, <2>2, <3>1, WritesStraight
  <2>5. g[n].tree \in {u, res.tree}
    BY <2>1 DEF NextFile, Failed, u
  <2> HIDE DEF res
  <2> QED
    BY <2>1, <2>3, <2>4, <2>5
<1>5. \A n \in 0 .. N : n \in S
  <2> HIDE DEF S
  <2> QED
    BY <1>1, <1>3, <1>4, UpTo
<1> QED
  BY <1>1, <1>2, <1>5 DEF IsFill

\* upx, on a file.
LEMMA CompressedStraight ==
  ASSUME NEW t, Good(t), StraightTree(t)
  PROVE  StraightTree(Compressed(t))
<1> DEFINE p == StagedPath(t, req.program.real, "look").at
           u == Compressed(t)
           n == IF t[p].is = "file" THEN [t[p] EXCEPT !.upx = TRUE] ELSE t[p]
<1>1. u = [t EXCEPT ![p] = n]
  BY DEF Compressed
<1> HIDE DEF p
<1>2. DOMAIN u = DOMAIN t /\ \A q \in DOMAIN t : u[q] = IF q = p THEN n ELSE t[q]
  BY <1>1 DEF Good, Typed
<1>3. p \in DOMAIN t => n = t[p] \/ n.is = "file"
  <2> SUFFICES ASSUME p \in DOMAIN t, t[p].is = "file" PROVE n.is = "file"
    OBVIOUS
  <2>1. PICK of, x : t[p] = [is |-> "file", of |-> of, upx |-> x]
    BY DEF Good, Typed, IsNode, Dir, LinkTo
  <2> DEFINE f == t[p]
  <2>2. f \in [is : {"file"}, of : {of}, upx : {x}]
    BY <2>1
  <2> HIDE DEF f
  <2>3. [f EXCEPT !.upx = TRUE].is = "file"
    BY <2>2
  <2> QED
    BY <2>3 DEF f
<1> HIDE DEF n
<1>4. \A q \in DOMAIN u : u[q].is = "link" => u[q] = t[q]
  BY <1>2, <1>3
<1> HIDE DEF u
<1>5. StraightTree(u)
  BY <1>2, <1>4 DEF StraightTree
<1> QED
  BY <1>5 DEF u

\* PT_INTERP, and the loader there.
LEMMA InterpStraight ==
  ASSUME NEW t, Good(t), StraightTree(t), NEW path \in Path \ {<<>>}, NEW w, w = InterpTarget(t, path)
  PROVE  /\ StraightTree(w.tree) /\ StraightTree(Replaced(w.tree, w.at, File(req.ld)).tree)
         /\ Good(w.tree) /\ Good(Replaced(w.tree, w.at, File(req.ld)).tree)
<1> DEFINE v == Walked(t, Parent(path), "make")
           f == File(req.ld)
           l == Walked(w.tree, Parent(w.at), "make")
<1>1. Good(w.tree) /\ w.at \in Path \ {<<>>}
  BY InterpTargetGood, Zenon
<1>2. MadeDirs(t, v.tree) /\ DOMAIN v = {"at", "todo", "links", "missing", "ok", "tree"}
  <2>1. Parent(path) \in Path
    BY PathEnds
  <2> QED
    BY <2>1, WalkedMakes, WalkedInv, Zenon
<1>3. w.tree = v.tree
  <2>1. w = [v EXCEPT !.at = Append(v.at, Last(path)), !.ok = v.ok /\ Last(path) \notin {Root, Up}]
    BY DEF InterpTarget
  <2> HIDE DEF v
  <2> QED
    BY <1>2, <2>1
<1>4. StraightTree(w.tree)
  BY <1>2, <1>3, StraightMade
<1>5. IsNode(f) /\ f.is = "file"
  BY DEF File, IsNode
<1>6. Writes(Replaced(w.tree, w.at, f), w.tree, l, Target(l, w.at), f)
  BY <1>1, ReplacedIs
<1> HIDE DEF l, f
<1>7. StraightTree(Replaced(w.tree, w.at, f).tree)
  BY <1>4, <1>5, <1>6, WritesStraight
<1>8. Good(Replaced(w.tree, w.at, f).tree)
  BY <1>1, <1>5, ReplacedGood
<1> QED
  BY <1>1, <1>4, <1>7, <1>8 DEF f

--------------------------------------------------------------------------------
\* The invariant of the added files.

\* The added files that were staged are those before the next.
Counted ==
  /\ placed \in Seq({"copy", "link", "skip"}) /\ Len(placed) <= Len(req.add)
  /\ pc \notin {"add", "locales", "done", "failed"} => placed = <<>>
  /\ pc \in {"nss", "strip", "extras"} => k = 1
  /\ pc = "add" => Len(placed) = k - 1
  /\ pc \in {"locales", "done"} => Len(placed) = Len(req.add)

\* Each of them is still where it was staged, or a warning names it.
AllKept ==
  \A i \in 1 .. Len(placed) :
    Kept(req.add[i], placed[i], tree) /\ (placed[i] = "skip" => req.add[i].dst \in warned)

AddInv == StageInv /\ Counted /\ (StraightAdds => Good(tree) /\ StraightTree(tree) /\ AllKept)

\* Nothing is staged at first.
LEMMA AddStarts == Init => AddInv
<1> SUFFICES ASSUME Init PROVE AddInv
  OBVIOUS
<1>1. tree = [p \in {<<>>} |-> Dir] /\ req \in Requests /\ k = 1 /\ placed = <<>> /\ pc = "program"
  BY DEF Init
<1>2. StageInv /\ Good(tree)
  BY <1>1, StageStarts DEF StageInv, PlainLocales
<1>3. StraightTree(tree)
  BY <1>1 DEF StraightTree, Dir
<1>4. Len(req.add) \in Nat
  BY <1>1, RequestFacts
<1>5. Len(placed) = 0 /\ placed \in Seq({"copy", "link", "skip"})
  BY <1>1
<1>6. Counted
  BY <1>1, <1>4, <1>5 DEF Counted
<1> QED
  BY <1>2, <1>3, <1>5, <1>6 DEF AddInv, AllKept

Early == pc \in {"program", "named", "loader", "libs", "nss", "strip", "extras"}

\* The steps before the added files leave a good tree and straight links.
LEMMA EarlyStep ==
  ASSUME req \in Requests, k \in Nat \ {0}, Good(tree), StraightTree(tree), Next, Early,
         NamesOnly(req.program.real)
  PROVE  Good(tree') /\ StraightTree(tree')
<1> USE DEF Then, Quiet
<1>16. ASSUME NEW p PROVE IsNode(File(p)) /\ IsNode(Generated(p).node) /\ File(p).is = "file" /\ Generated(p).node.is = "file"
  BY DEF IsNode, File, Generated
<1>17. ASSUME NEW t, Good(t), StraightTree(t), NEW path \in Path \ {<<>>}, NEW n, IsNode(n), n.is = "file"
       PROVE  Good(Replaced(t, path, n).tree) /\ StraightTree(Replaced(t, path, n).tree)
  <2> DEFINE l == Walked(t, Parent(path), "make")
  <2>1. Writes(Replaced(t, path, n), t, l, Target(l, path), n)
    BY <1>17, ReplacedIs
  <2> HIDE DEF l
  <2> QED
    BY <1>17, <2>1, ReplacedGood, WritesStraight
<1>1. CASE StageProgram
  <2>1. req.program.real \in Path \ {<<>>}
    BY RequestFacts
  <2> QED
    BY <1>1, <1>16, <1>17, <2>1 DEF StageProgram
<1>2. CASE StageNamed
  <2> DEFINE value == RelativeValue(Parent(req.program.named), req.program.real)
             path == req.program.named
             l == Walked(tree, Parent(path), "make")
             r == Linked(tree, path, value)
  <2>1. path \in Path \ {<<>>} /\ req.program.real \in Path /\ Parent(path) \in Path
    BY RequestFacts, PathEnds
  <2>2. value \in Path /\ StraightValue(value)
    BY <2>1, RelativeIs, RelativeStraight
  <2>3. Good(r.tree) /\ StraightTree(r.tree)
    <3>1. Writes(Linked(tree, path, value), tree, l, Target(l, path), LinkTo(value))
      BY <2>1, LinkedIs
    <3>2. LinkTo(value).is = "link" => StraightValue(LinkTo(value).to)
      BY <2>2 DEF LinkTo
    <3> HIDE DEF l, value, path
    <3> QED
      BY <2>1, <2>2, <3>1, <3>2, LinkedGood, WritesStraight
  <2>4. tree' \in {tree, r.tree}
    BY <1>2 DEF StageNamed, Made
  <2> HIDE DEF r
  <2> QED
    BY <2>3, <2>4
<1>3. CASE StageLoader
  <2> DEFINE w == InterpTarget(tree, req.interp)
             r == Replaced(w.tree, w.at, File(req.ld))
  <2>1. tree' \in {tree, w.tree, r.tree} /\ (req.interp = <<>> => tree' = tree)
    BY <1>3 DEF StageLoader, Made, Failed
  <2>2. CASE req.interp # <<>>
    <3>1. req.interp \in Path \ {<<>>}
      BY <2>2, RequestFacts
    <3>2. /\ StraightTree(w.tree) /\ StraightTree(Replaced(w.tree, w.at, File(req.ld)).tree)
          /\ Good(w.tree) /\ Good(Replaced(w.tree, w.at, File(req.ld)).tree)
      BY <3>1, InterpStraight
    <3> HIDE DEF w
    <3> QED
      BY <2>1, <3>2
  <2> QED
    BY <2>1, <2>2
<1>4. CASE StageLibrary
  <2>1. k \in 1 .. Len(req.libs)
    BY <1>4, RequestFacts DEF StageLibrary
  <2>2. req.libs[k] \in [path : Path \ {<<>>}, soname : Path]
    BY <2>1, RequestFacts
  <2>3. Good(LibraryStaged(tree, req.libs[k]).tree) /\ StraightTree(LibraryStaged(tree, req.libs[k]).tree)
    BY <2>2, LibraryGood, LibraryStraight
  <2> QED
    BY <1>4, <2>3 DEF StageLibrary
<1>5. CASE GenerateCache
  <2> DEFINE conf  == Replaced(tree, <<"etc", "ld.so.conf">>, Generated(<<"etc", "ld.so.conf">>).node)
             cache == Generated(<<"etc", "ld.so.cache">>)
             last  == Replaced(conf.tree, cache.at, cache.node)
  <2>1. <<"etc", "ld.so.conf">> \in Path \ {<<>>} /\ cache.at \in Path \ {<<>>}
    <3>1. {"etc", "ld.so.conf", "ld.so.cache"} \subseteq Names
      BY NamesKnown DEF OwnNames
    <3> QED
      BY <3>1 DEF Generated, Path
  <2>2. Good(conf.tree) /\ StraightTree(conf.tree)
    BY <1>16, <1>17, <2>1
  <2>3. Good(last.tree) /\ StraightTree(last.tree)
    <3> HIDE DEF conf
    <3> QED
      BY <1>16, <1>17, <2>1, <2>2
  <2>4. tree' \in {conf.tree, last.tree}
    BY <1>5 DEF GenerateCache, Failed
  <2> HIDE DEF conf, last
  <2> QED
    BY <2>2, <2>3, <2>4
<1>6. CASE StageDefaultIncludes
  <2>1. LibcDir(req.libs) \in SUBSET Path
    BY RequestFacts, LibcDirs
  <2>2. Listed(DefaultIncludes(req.nss, LibcDir(req.libs)))
    BY <2>1, IncludesListed
  <2>3. tree' = ReplacedAll(tree, DefaultIncludes(req.nss, LibcDir(req.libs))).tree
    BY <1>6 DEF StageDefaultIncludes
  <2> QED
    BY <2>2, <2>3, AllGood, AllStraight
<1>7. CASE StripAndMeasure
  <2>1. tree' = IF req.upx THEN Compressed(tree) ELSE tree
    BY <1>7 DEF StripAndMeasure
  <2> QED
    BY <2>1, CompressedGood, CompressedStraight
<1>8. CASE StageRuntimeExtras
  <2>1. tree' = ReplacedAll(tree, Extras).tree
    BY <1>8 DEF StageRuntimeExtras
  <2> QED
    BY <2>1, ExtrasListed, AllGood, AllStraight
<1>9. CASE HostFails
  BY <1>9 DEF HostFails, Failed
<1>10. CASE StageAddedFile \/ AllAdded \/ StageLocale \/ AllStaged
  BY <1>10 DEF StageAddedFile, AllAdded, StageLocale, AllStaged, Early
<1> QED
  BY <1>1, <1>2, <1>3, <1>4, <1>5, <1>6, <1>7, <1>8, <1>9, <1>10 DEF Next

\* Where the steps before the added files go, and what they leave alone.
LEMMA EarlyCounts ==
  ASSUME Next, Early, Counted
  PROVE  /\ req' = req /\ placed' = <<>> /\ placed = <<>>
         /\ pc' \in {"named", "loader", "libs", "nss", "strip", "extras", "add", "failed"}
         /\ pc' \in {"nss", "strip", "extras", "add"} => k' = 1
<1> USE DEF Then, Quiet
<1>1. CASE StageProgram \/ StageNamed \/ StageLoader \/ StageLibrary
  BY <1>1 DEF StageProgram, StageNamed, StageLoader, StageLibrary, Counted, Early
<1>2. CASE GenerateCache
  BY <1>2 DEF GenerateCache, Counted, Early
<1>3. CASE StageDefaultIncludes
  BY <1>3 DEF StageDefaultIncludes, Counted, Early
<1>4. CASE StripAndMeasure \/ StageRuntimeExtras
  BY <1>4 DEF StripAndMeasure, StageRuntimeExtras, Counted, Early
<1>5. CASE HostFails
  BY <1>5 DEF HostFails, Failed, Counted, Early
<1>6. CASE StageAddedFile \/ AllAdded \/ StageLocale \/ AllStaged
  BY <1>6 DEF StageAddedFile, AllAdded, StageLocale, AllStaged, Early
<1> QED
  BY <1>1, <1>2, <1>3, <1>4, <1>5, <1>6 DEF Next

\* What an added entry of a request is.
LEMMA AddFacts ==
  ASSUME req \in Requests
  PROVE  /\ NamesOnly(req.program.real)
         /\ \A i \in 1 .. Len(req.add) : Parsed(req.add[i]) /\ req.add[i].link \in BOOLEAN
<1> DEFINE A == [src : Path, dst : Path, link : BOOLEAN, value : Path, leads : {"file", "dir", "none"}]
<1>1. /\ NamesOnly(req.program.real) /\ req.add \in Seq(A)
      /\ \A i \in DOMAIN req.add : Parsed(req.add[i])
  BY StagingAssumption
<1>2. \A i \in DOMAIN req.add : req.add[i] \in A
  <2> HIDE DEF A
  <2> QED
    BY <1>1, ElementsOf, Zenon
<1>3. DOMAIN req.add = 1 .. Len(req.add)
  <2> HIDE DEF A
  <2> QED
    BY <1>1, LenProperties
<1> QED
  BY <1>1, <1>2, <1>3

\* What was kept stays kept where nothing is taken away.
LEMMA AllStay ==
  ASSUME req \in Requests, Counted, Good(tree), AllKept, NEW u, Extends(tree, u),
         NEW i \in 1 .. Len(placed)
  PROVE  Kept(req.add[i], placed[i], u)
<1>1. Len(placed) \in Nat /\ Len(req.add) \in Nat /\ Len(placed) <= Len(req.add)
  <2>1. placed \in Seq({"copy", "link", "skip"})
    BY DEF Counted
  <2> QED
    BY <2>1, RequestFacts DEF Counted
<1>2. i \in 1 .. Len(req.add)
  BY <1>1
<1> QED
  BY <1>2, KeptStays, RequestFacts DEF AllKept

\* Adding a file keeps what was added, and counts it.
LEMMA AddedStep ==
  ASSUME AddInv, StageAddedFile
  PROVE  /\ Counted'
         /\ StraightAdds => Good(tree') /\ StraightTree(tree') /\ AllKept'
<1> DEFINE f == req.add[k]
           answer == AddAnswer(f)
           res == Added(f, answer)
           A == {"copy", "link", "skip"}
<1>1. /\ req \in Requests /\ k \in Nat \ {0} /\ Counted /\ pc = "add" /\ k <= Len(req.add)
      /\ placed \in Seq(A) /\ Len(placed) = k - 1 /\ Len(placed) \in Nat
  BY DEF AddInv, StageInv, StageAddedFile, Counted
<1>2. Len(req.add) \in Nat /\ k \in 1 .. Len(req.add)
  BY <1>1, RequestFacts
<1>3. f.dst \in Path \ {<<>>} /\ f.value \in Path /\ Parsed(f) /\ f.link \in BOOLEAN
  BY <1>1, <1>2, RequestFacts, AddFacts
<1>4. /\ tree' = res.tree /\ req' = req /\ k' = k + 1
      /\ placed' = IF res.ok THEN Append(placed, answer) ELSE placed
      /\ pc' = IF res.ok THEN "add" ELSE "failed"
      /\ warned' = warned \cup AddWarned(f, answer)
  BY DEF StageAddedFile, Then
<1>5. answer \in {"copy", "link", "skip", "refuse"}
  <2> HIDE DEF f
  <2> QED
    BY DEF AddAnswer
<1>6. res.ok => answer \in A
  <2> HIDE DEF f, answer
  <2> QED
    BY <1>5 DEF Added, Failed
<1>7. placed' \in Seq(A) /\ Len(placed') = IF res.ok THEN k ELSE k - 1
  <2> HIDE DEF f, answer, res
  <2> QED
    BY <1>1, <1>4, <1>6
<1>8. Counted'
  <2> HIDE DEF f, answer, res
  <2> QED
    BY <1>1, <1>2, <1>4, <1>7 DEF Counted
<1>9. ASSUME StraightAdds PROVE Good(tree') /\ StraightTree(tree') /\ AllKept'
  <2>1. Good(tree) /\ StraightTree(tree) /\ AllKept
    BY <1>9 DEF AddInv
  <2>2. DOMAIN req.add = 1 .. Len(req.add)
    <3> DEFINE B == [src : Path, dst : Path, link : BOOLEAN, value : Path, leads : {"file", "dir", "none"}]
    <3>1. req.add \in Seq(B)
      BY <1>1, StagingAssumption
    <3> HIDE DEF B
    <3> QED
      BY <3>1
  <2>3. f.link => StraightValue(f.value)
    BY <1>2, <1>9, <2>2 DEF StraightAdds
  <2>4. /\ Extends(tree, res.tree) /\ Good(res.tree) /\ StraightTree(res.tree)
        /\ res.ok => Kept(f, answer, res.tree)
    <3> HIDE DEF f
    <3> QED
      BY <1>3, <2>1, <2>3, AddedIsKept
  <2>5. answer = "skip" => f.dst \in warned'
    <3> HIDE DEF f, answer
    <3> QED
      BY <1>4 DEF AddWarned
  <2>6. \A i \in 1 .. Len(placed) : Kept(req.add[i], placed[i], res.tree)
    BY <1>1, <2>1, <2>4, AllStay
  <2> HIDE DEF f, answer, res
  <2>7. ASSUME NEW i \in 1 .. Len(placed')
        PROVE  Kept(req.add[i], placed'[i], tree') /\ (placed'[i] = "skip" => req.add[i].dst \in warned')
    <3>1. CASE i <= k - 1
      <4>1. i \in 1 .. Len(placed) /\ placed'[i] = placed[i]
        BY <1>1, <1>4, <1>6, <3>1
      <4> QED
        BY <1>4, <2>1, <2>6, <4>1 DEF AllKept
    <3>2. CASE ~(i <= k - 1)
      <4>1. res.ok /\ i = k /\ placed'[i] = answer
        BY <1>1, <1>4, <1>6, <1>7, <3>2
      <4> QED
        BY <1>4, <2>4, <2>5, <4>1 DEF f
    <3> QED
      BY <3>1, <3>2
  <2> QED
    BY <1>4, <2>4, <2>7 DEF AllKept
<1> QED
  BY <1>8, <1>9

\* Every step keeps the invariant of the added files.
LEMMA AddStep == AddInv /\ [Next]_vars => AddInv'
<1> SUFFICES ASSUME AddInv, [Next]_vars PROVE AddInv'
  OBVIOUS
<1>1. StageInv /\ StageInv' /\ Counted /\ req \in Requests /\ k \in Nat \ {0}
  BY StageStep DEF AddInv, StageInv
<1>2. req' = req
  BY DEF Next, StageProgram, StageNamed, StageLoader, StageLibrary, GenerateCache, StageDefaultIncludes,
         StripAndMeasure, StageRuntimeExtras, StageAddedFile, AllAdded, StageLocale, AllStaged, HostFails,
         Then, vars
<1>3. ASSUME Counted', StraightAdds => Good(tree') /\ StraightTree(tree') /\ AllKept' PROVE AddInv'
  BY <1>1, <1>2, <1>3 DEF AddInv, StraightAdds
<1>4. placed \in Seq({"copy", "link", "skip"}) /\ Len(placed) \in Nat /\ Len(req.add) \in Nat
  BY <1>1, RequestFacts DEF Counted
<1>5. CASE Next /\ Early
  <2>1. /\ placed' = <<>> /\ placed = <<>>
        /\ pc' \in {"named", "loader", "libs", "nss", "strip", "extras", "add", "failed"}
        /\ pc' \in {"nss", "strip", "extras", "add"} => k' = 1
    BY <1>1, <1>5, EarlyCounts
  <2>2. Len(placed') = 0 /\ placed' \in Seq({"copy", "link", "skip"})
    BY <2>1
  <2>3. Counted'
    BY <1>2, <1>4, <2>1, <2>2 DEF Counted
  <2>4. ASSUME StraightAdds PROVE Good(tree') /\ StraightTree(tree') /\ AllKept'
    <3>1. Good(tree') /\ StraightTree(tree')
      BY <1>1, <1>5, <2>4, EarlyStep, AddFacts DEF AddInv
    <3> QED
      BY <2>2, <3>1 DEF AllKept
  <2> QED
    BY <1>3, <2>3, <2>4
<1>6. CASE StageAddedFile
  BY <1>3, <1>6, AddedStep
<1>7. CASE AllAdded
  <2>1. /\ pc = "add" /\ pc' = "locales" /\ k > Len(req.add) /\ tree' = tree
        /\ placed' = placed /\ warned' = warned
    BY <1>7 DEF AllAdded, Then, Made, Quiet
  <2>2. Counted'
    BY <1>1, <1>2, <1>4, <2>1 DEF Counted
  <2>3. StraightAdds => Good(tree') /\ StraightTree(tree') /\ AllKept'
    BY <1>2, <2>1 DEF AddInv, AllKept
  <2> QED
    BY <1>3, <2>2, <2>3
<1>8. CASE StageLocale
  <2> DEFINE u == LocaleStaged(tree, req.locales[k]).tree
  <2>1. /\ pc = "locales" /\ pc' \in {"locales", "failed"} /\ tree' = u /\ k <= Len(req.locales)
        /\ placed' = placed /\ warned' = warned
    BY <1>8 DEF StageLocale, Then, Quiet
  <2>2. Counted'
    BY <1>1, <1>2, <1>4, <2>1 DEF Counted
  <2>3. ASSUME StraightAdds PROVE Good(tree') /\ StraightTree(tree') /\ AllKept'
    <3>1. Good(tree) /\ StraightTree(tree) /\ AllKept
      BY <2>3 DEF AddInv
    <3>2. req.locales[k].name \in Names
      BY <1>1, <2>1, RequestFacts
    <3>3. Extends(tree, u) /\ Good(u) /\ StraightTree(u)
      BY <3>1, <3>2, LocaleAdds
    <3> HIDE DEF u
    <3>4. \A i \in 1 .. Len(placed) : Kept(req.add[i], placed[i], u)
      BY <1>1, <3>1, <3>3, AllStay
    <3> QED
      BY <1>2, <2>1, <3>1, <3>3, <3>4 DEF AllKept
  <2> QED
    BY <1>3, <2>2, <2>3
<1>9. CASE AllStaged \/ HostFails \/ UNCHANGED vars
  <2>1. /\ pc' \in {pc, "done", "failed"} /\ (pc' = "done" => pc \in {"locales", "done"})
        /\ k' = k /\ tree' = tree /\ placed' = placed /\ warned' = warned
    BY <1>9 DEF AllStaged, HostFails, Then, Made, Failed, Quiet, vars
  <2>2. Counted'
    BY <1>1, <1>2, <1>4, <2>1 DEF Counted
  <2>3. StraightAdds => Good(tree') /\ StraightTree(tree') /\ AllKept'
    BY <1>2, <2>1 DEF AddInv, AllKept
  <2> QED
    BY <1>3, <2>2, <2>3
<1>10. Next => Early \/ StageAddedFile \/ AllAdded \/ StageLocale \/ AllStaged \/ HostFails
  BY DEF Next, Early, StageProgram, StageNamed, StageLoader, StageLibrary, GenerateCache,
         StageDefaultIncludes, StripAndMeasure, StageRuntimeExtras
<1> QED
  BY <1>5, <1>6, <1>7, <1>8, <1>9, <1>10

\* When only straight links are added, nothing is made or written outside the staging root,
\* or under another path than the image gives it, locales and all.
THEOREM StraightStaysInside == Spec => [](StraightAdds => WritesStayInside)
<1>1. AddInv => (StraightAdds => WritesStayInside)
  BY DEF AddInv, Good, Closed, WritesStayInside
<1> QED
  BY <1>1, AddStarts, AddStep, PTL DEF Spec

\* One added file or link is in the image as it was staged.
LEMMA KeptIsFound ==
  ASSUME Good(tree), NEW f, f.dst \in Path \ {<<>>}, Parsed(f), NEW answer, answer \in {"copy", "link"},
         Kept(f, answer, tree)
  PROVE  LET at == StagedPath(tree, f.dst, "look").at
         IN  /\ answer = "copy" => Shows(tree, f.dst, f.src)
             /\ answer = "link" => at \in DOMAIN tree /\ tree[at] = LinkTo(f.value)
<1> DEFINE l == Walked(tree, Parent(f.dst), "make")
           w == Walked(tree, Parent(f.dst), "look")
           p == StagedPath(tree, f.dst, "look")
<1>1. /\ l.ok /\ l.tree = tree /\ Target(l, f.dst) \in DOMAIN tree
      /\ answer = "copy" => tree[Target(l, f.dst)] = File(f.src)
      /\ answer = "link" => tree[Target(l, f.dst)] = LinkTo(f.value)
  BY DEF Kept
<1>2. Parent(f.dst) \in Path /\ Last(f.dst) \in Names /\ f.dst = Append(Parent(f.dst), Last(f.dst))
  <2>1. Parent(f.dst) \in Path /\ Last(f.dst) \in Names
    BY PathEnds
  <2>2. <<>> \in Path
    BY DEF Path
  <2>3. f.dst = Append(Parent(f.dst), Last(f.dst))
    BY <2>2, PathJoins
  <2> QED
    BY <2>1, <2>3
<1>3. Last(f.dst) \in Names \ {Root, Up}
  BY NamesParts DEF Parsed
<1>4. Extends(tree, tree)
  BY ExtendsOnly
<1>5. Serves(l.tree, l.links, tree)
  BY <1>1, <1>4, ExtendsServes
<1>6. Leads(tree, Parent(f.dst), "look", l)
  BY <1>1, <1>2, <1>5, FollowsTo, Zenon
<1>7. PlaceOf(p, w, f.dst, "look")
  BY StagedPathIs, Zenon
<1>8. p.at = Target(l, f.dst)
  BY <1>6, <1>7 DEF Leads, PlaceOf, Target, Here
<1>9. ASSUME answer = "copy" PROVE Shows(tree, f.dst, f.src)
  <2>1. tree[Append(l.at, Last(f.dst))].is = "file"
    BY <1>1, <1>9 DEF Target, File
  <2>2. Shown(tree, Append(Parent(f.dst), Last(f.dst))) = tree[Append(l.at, Last(f.dst))]
    BY <1>1, <1>2, <1>3, <1>5, <2>1, FollowsShown DEF Target
  <2>3. Shown(tree, f.dst) = File(f.src)
    BY <1>1, <1>2, <1>9, <2>2 DEF Target
  <2>4. File(f.src).is = "file" /\ File(f.src).of = f.src
    BY DEF File
  <2> HIDE DEF l, w, p
  <2> QED
    BY <2>3, <2>4 DEF Shows
<1> QED
  BY <1>1, <1>8, <1>9

\* When only straight links are added, each --add-file entry is in the image as it was staged,
\* or was skipped with a warning, and nothing that is staged later takes its place.
THEOREM StraightAnswered == Spec => [](StraightAdds => AddedIsAnswered)
<1>1. AddInv => (StraightAdds => AddedIsAnswered)
  <2> SUFFICES ASSUME AddInv, StraightAdds PROVE AddedIsAnswered
    OBVIOUS
  <2>1. /\ req \in Requests /\ Counted /\ Good(tree) /\ AllKept
        /\ placed \in Seq({"copy", "link", "skip"}) /\ Len(placed) \in Nat /\ Len(req.add) \in Nat
        /\ Len(placed) <= Len(req.add)
    BY RequestFacts DEF AddInv, StageInv, Counted
  <2>2. ASSUME NEW i \in DOMAIN placed
        PROVE  LET f == req.add[i]
                   at == StagedPath(tree, f.dst, "look").at
               IN  /\ placed[i] = "copy" => Shows(tree, f.dst, f.src)
                   /\ placed[i] = "link" => at \in DOMAIN tree /\ tree[at] = LinkTo(f.value)
                   /\ placed[i] = "skip" => f.dst \in warned
    <3>1. i \in 1 .. Len(placed) /\ i \in 1 .. Len(req.add)
      BY <2>1
    <3>2. /\ req.add[i].dst \in Path \ {<<>>} /\ Parsed(req.add[i])
          /\ Kept(req.add[i], placed[i], tree) /\ (placed[i] = "skip" => req.add[i].dst \in warned)
      BY <2>1, <3>1, RequestFacts, AddFacts DEF AllKept
    <3>3. CASE placed[i] \in {"copy", "link"}
      BY <2>1, <3>2, <3>3, KeptIsFound
    <3>4. CASE placed[i] \notin {"copy", "link"}
      BY <3>2, <3>4
    <3> QED
      BY <3>3, <3>4
  <2>3. pc = "done" => Len(placed) = Len(req.add)
    BY <2>1 DEF Counted
  <2> QED
    BY <2>2, <2>3 DEF AddedIsAnswered
<1> QED
  BY <1>1, AddStarts, AddStep, PTL DEF Spec

--------------------------------------------------------------------------------
\* Flat trees: every link leads straight to a file.

\* Two paths, one after the other.
JoinFacts(a, b) ==
  /\ b # <<>> => /\ Append(a, Head(b)) \in Path /\ Head(b) \in Names /\ Tail(b) \in Path
                 /\ Append(a, Head(b)) \o Tail(b) = a \o b
                 /\ Head(b \o a) = Head(b) /\ Tail(b \o a) = Tail(b) \o a
                 /\ Parent(a \o b) = a \o Parent(b) /\ Parent(b) \in Path
                 /\ Len(Tail(b)) = Len(b) - 1 /\ Len(Parent(b)) = Len(b) - 1
                 /\ a \o b # <<>> /\ b \o a # <<>> /\ Len(b) \in Nat \ {0}
                 /\ b = Append(Parent(b), Last(b)) /\ Last(b) \in Names
  /\ a \o <<>> = a /\ <<>> \o a = a /\ a \o b \in Path
  /\ Len(a \o b) = Len(a) + Len(b) /\ Len(a) \in Nat /\ Len(b) \in Nat
  /\ Len(b) = 0 <=> b = <<>>

\* Their names, and what is left of them.
LEMMA JoinIs ==
  ASSUME NEW a \in Path, NEW b \in Path
  PROVE  JoinFacts(a, b)
<1>1. /\ b # <<>> => /\ Append(a, Head(b)) \in Path /\ Tail(b) \in Path
                     /\ Append(a, Head(b)) \o Tail(b) = a \o b
                     /\ Head(b \o a) = Head(b) /\ Tail(b \o a) = Tail(b) \o a
                     /\ Parent(a \o b) = a \o Parent(b)
                     /\ Len(Tail(b)) = Len(b) - 1 /\ Len(Parent(b)) = Len(b) - 1
                     /\ a \o b # <<>> /\ b \o a # <<>>
                     /\ b = Append(Parent(b), Last(b))
      /\ a \o <<>> = a /\ <<>> \o a = a /\ a \o b \in Path
      /\ Len(a \o b) = Len(a) + Len(b) /\ Len(a) \in Nat /\ Len(b) \in Nat
  BY PathJoins
<1>2. b # <<>> => Head(b) \in Names /\ Last(b) \in Names
  BY PathEnds
<1>3. Parent(b) \in Path
  BY PathEnds
<1>4. Len(b) = 0 <=> b = <<>>
  BY DEF Path
<1>5. b # <<>> => Len(b) \in Nat \ {0}
  BY <1>1, <1>4
<1> QED
  BY <1>1, <1>2, <1>3, <1>4, <1>5 DEF JoinFacts

\* No path.
LEMMA EmptyPath == <<>> \in Path /\ Len(<<>>) = 0
BY DEF Path

\* `..`, so many times.
Ups(n) == [i \in 1 .. n |-> Up]

UpsFacts(n) ==
  /\ Ups(n) \in Path /\ Len(Ups(n)) = n
  /\ n = 0 => Ups(n) = <<>>
  /\ n # 0 => Ups(n) # <<>> /\ Head(Ups(n)) = Up /\ Tail(Ups(n)) = Ups(n - 1)

\* One of them, and those that are left.
LEMMA UpsAre ==
  ASSUME NEW n \in Nat
  PROVE  UpsFacts(n)
<1>1. Up \in Names
  BY NamesKnown
<1>2. Ups(n) \in Seq(Names) /\ Len(Ups(n)) = n
  BY <1>1 DEF Ups
<1>3. ASSUME n > 0 PROVE Ups(n) # <<>> /\ Head(Ups(n)) = Up /\ Tail(Ups(n)) = Ups(n - 1)
  <2>1. n - 1 \in Nat /\ Ups(n - 1) \in Seq(Names) /\ Len(Ups(n - 1)) = n - 1
    BY <1>1, <1>3 DEF Ups
  <2>2. Ups(n) # <<>>
    BY <1>2, <1>3
  <2>3. Head(Ups(n)) = Up
    BY <1>2, <1>3 DEF Ups
  <2>4. Tail(Ups(n)) \in Seq(Names) /\ Len(Tail(Ups(n))) = n - 1
    BY <1>2, <1>3
  <2>5. \A i \in 1 .. n - 1 : Tail(Ups(n))[i] = Ups(n - 1)[i]
    BY <1>2, <1>3 DEF Ups
  <2>6. Tail(Ups(n)) = Ups(n - 1)
    <3> DEFINE x == Tail(Ups(n))
               y == Ups(n - 1)
    <3>1. x \in Seq(Names) /\ y \in Seq(Names) /\ Len(x) = Len(y) /\ \A i \in 1 .. Len(x) : x[i] = y[i]
      BY <1>3, <2>1, <2>4, <2>5
    <3> HIDE DEF x, y
    <3>2. x = y
      BY <3>1
    <3> QED
      BY <3>2 DEF x, y
  <2> QED
    BY <2>2, <2>3, <2>6
<1>4. n = 0 => Ups(n) = <<>>
  BY <1>2
<1>5. n # 0 => n > 0
  OBVIOUS
<1> QED
  BY <1>2, <1>3, <1>4, <1>5 DEF Path, UpsFacts

\* What a path of a good tree runs through is a directory.
LEMMA PrefixIsDir ==
  ASSUME NEW t, Good(t), NEW a \in Path, NEW b \in Path, b # <<>>, a \o b \in DOMAIN t
  PROVE  a \in DOMAIN t /\ t[a].is = "dir"
<1> DEFINE N == Len(b)
           P(c) == a \o c \in DOMAIN t => a \in DOMAIN t /\ t[a].is = "dir"
           S == {n \in 0 .. N : \A c \in Path : c # <<>> /\ Len(c) = n => P(c)}
<1>1. N \in Nat
  BY DEF Path
<1>2. 0 \in S
  BY <1>1 DEF Path
<1>3. ASSUME NEW n \in 1 .. N, n - 1 \in S PROVE n \in S
  <2> SUFFICES ASSUME NEW c \in Path, c # <<>>, Len(c) = n, a \o c \in DOMAIN t
               PROVE  a \in DOMAIN t /\ t[a].is = "dir"
    OBVIOUS
  <2>0. JoinFacts(a, c)
    BY JoinIs, Zenon
  <2>1. Parent(a \o c) = a \o Parent(c) /\ Parent(c) \in Path /\ Len(Parent(c)) = n - 1 /\ a \o c # <<>>
        /\ a \o <<>> = a
    BY <2>0 DEF JoinFacts
  <2>2. a \o Parent(c) \in DOMAIN t /\ t[a \o Parent(c)].is = "dir"
    BY <2>1 DEF Good, Closed
  <2>3. CASE Parent(c) = <<>>
    BY <2>1, <2>2, <2>3
  <2>4. CASE Parent(c) # <<>>
    BY <1>3, <2>1, <2>2, <2>4
  <2> QED
    BY <2>3, <2>4
<1>4. N \in S
  <2>1. \A n \in 0 .. N : n \in S
    <3> HIDE DEF S, N
    <3> QED
      BY <1>1, <1>2, <1>3, UpTo
  <2> QED
    BY <1>1, <2>1
<1> QED
  BY <1>4

\* On the way from a link to the file it leads to: up from a directory, and down by name.
Toward(w, t, f, rest, links, d) ==
  \E a, u, b \in Path :
    /\ b # <<>> /\ NamesOnly(b) /\ a \o b = f /\ d = Len(u) + Len(b)
    /\ w = Here(a \o u, Ups(Len(u)) \o (b \o rest), links, t)

\* Only the kernel goes as far as the file, and only if nothing is to follow.
Arrives(v, t, f, rest, links, how) ==
  IF how = "kernel" /\ rest = <<>> THEN v = Here(f, <<>>, links, t) ELSE ~v.ok /\ v.todo = <<>>

\* One step on that way.
Nears(w, v, t, f, rest, links, how, d) ==
  /\ d \in Nat \ {0} /\ w.ok /\ w.todo # <<>>
  /\ d = 1 => Arrives(v, t, f, rest, links, how)
  /\ d > 1 => Toward(v, t, f, rest, links, d - 1)

\* Every step nears the file, and arrives in the end.
LEMMA StepToward ==
  ASSUME NEW t, Good(t), NEW f \in DOMAIN t, t[f].is = "file", NEW rest \in Path, NEW links,
         NEW how, NEW d, NEW w, Toward(w, t, f, rest, links, d), NEW v, v = NextWalk(w, how)
  PROVE  Nears(w, v, t, f, rest, links, how, d)
<1>1. PICK a \in Path, u \in Path, b \in Path :
         /\ b # <<>> /\ NamesOnly(b) /\ a \o b = f /\ d = Len(u) + Len(b)
         /\ w = Here(a \o u, Ups(Len(u)) \o (b \o rest), links, t)
  BY DEF Toward
<1> DEFINE ups == Ups(Len(u))
           down == b \o rest
           todo == ups \o down
<1>2. JoinFacts(rest, b) /\ JoinFacts(b, rest) /\ JoinFacts(a, b) /\ JoinFacts(a, u)
  BY <1>1, JoinIs, Zenon
<1>3. Len(u) \in Nat /\ Len(b) \in Nat \ {0} /\ down \in Path /\ down # <<>>
  BY <1>1, <1>2 DEF JoinFacts
<1>4. UpsFacts(Len(u))
  BY <1>3, UpsAre, Zenon
<1>5. ups \in Path
  BY <1>4 DEF UpsFacts
<1> HIDE DEF ups, down
<1>6. JoinFacts(down, ups) /\ JoinFacts(ups, down)
  BY <1>3, <1>5, JoinIs, Zenon
<1>7. todo # <<>> /\ w.ok /\ w.todo = todo
  <2>1. todo # <<>>
    BY <1>3, <1>6 DEF JoinFacts
  <2>2. w.ok /\ w.todo = todo
    BY <1>1 DEF Here, ups, down
  <2> QED
    BY <2>1, <2>2
<1>8. GoesOn(a \o u, Head(todo), Tail(todo), links, t, how, v)
  <2>1. GoesOn(a \o u, Head(todo), Tail(todo), links, t, how, NextWalk(Here(a \o u, todo, links, t), how))
    BY <1>7, StepHere, Zenon
  <2> QED
    BY <1>1, <2>1 DEF ups, down
<1> HIDE DEF todo
<1>9. CASE u # <<>>
  <2>1. /\ Len(u) # 0 /\ Len(u) > 0 /\ Len(Parent(u)) = Len(u) - 1
        /\ Parent(a \o u) = a \o Parent(u) /\ Parent(u) \in Path
    <3>1. Len(u) # 0
      BY <1>2, <1>9 DEF JoinFacts
    <3> QED
      BY <1>2, <1>3, <1>9, <3>1 DEF JoinFacts
  <2>2. ups # <<>> /\ Head(ups) = Up /\ Tail(ups) = Ups(Len(u) - 1)
    BY <1>4, <2>1 DEF UpsFacts, ups
  <2>3. Head(todo) = Up /\ Tail(todo) = Ups(Len(u) - 1) \o down
    BY <1>6, <2>2 DEF JoinFacts, todo
  <2>4. v = Here(a \o Parent(u), Ups(Len(Parent(u))) \o (b \o rest), links, t)
    BY <1>8, <2>1, <2>3 DEF GoesOn, down
  <2>5. d > 1 /\ d \in Nat \ {0} /\ d - 1 = Len(Parent(u)) + Len(b)
    BY <1>1, <1>3, <2>1
  <2>6. Toward(v, t, f, rest, links, d - 1)
    BY <1>1, <2>1, <2>4, <2>5 DEF Toward
  <2>7. d # 1
    BY <2>5
  <2> QED
    BY <1>7, <2>5, <2>6, <2>7 DEF Nears
<1>10. CASE u = <<>>
  <2>1. Len(u) = 0 /\ ups = <<>> /\ a \o u = a /\ todo = down
    <3>1. Len(u) = 0 /\ a \o u = a
      BY <1>2, <1>10 DEF JoinFacts
    <3>2. ups = <<>>
      BY <1>4, <3>1 DEF UpsFacts, ups
    <3> QED
      BY <1>6, <3>1, <3>2 DEF JoinFacts, todo
  <2>2. Head(todo) = Head(b) /\ Tail(todo) = Tail(b) \o rest
    BY <1>1, <1>2, <2>1 DEF JoinFacts, down
  <2> DEFINE s == Head(b)
             next == Append(a, s)
             more == Tail(b)
  <2>3. s \notin {Root, Up} /\ NamesOnly(more)
    BY <1>1, NamesParts
  <2>4. next \in Path /\ more \in Path /\ next \o more = f /\ Len(more) = Len(b) - 1
    BY <1>1, <1>2 DEF JoinFacts
  <2>5. GoesOn(a, s, more \o rest, links, t, how, v)
    BY <1>8, <2>1, <2>2
  <2> HIDE DEF s, next, more
  <2>6. JoinFacts(next, more) /\ JoinFacts(rest, more)
    BY <2>4, JoinIs, Zenon
  <2>7. CASE more = <<>>
    <3>1. next = f /\ more \o rest = rest /\ Len(more) = 0
      BY <2>4, <2>6, <2>7 DEF JoinFacts
    <3>2. next = Append(a, s)
      BY DEF next
    <3>3. Arrives(v, t, f, rest, links, how)
      BY <2>3, <2>5, <3>1, <3>2 DEF GoesOn, Arrives
    <3>4. d = 1
      <4> DEFINE n == Len(b)
      <4>1. n \in Nat \ {0} /\ 0 = n - 1 /\ d = 0 + n
        BY <1>1, <1>3, <2>1, <2>4, <3>1
      <4> HIDE DEF n
      <4> QED
        BY <4>1
    <3> QED
      BY <1>7, <3>3, <3>4 DEF Nears
  <2>8. CASE more # <<>>
    <3>1. next \in DOMAIN t /\ t[next].is = "dir"
      BY <2>4, <2>8, PrefixIsDir
    <3>2. v = Here(next, more \o rest, links, t)
      BY <2>3, <2>5, <3>1 DEF GoesOn, next
    <3>3. next \o <<>> = next /\ more \o rest \in Path
      BY <2>6, <2>4, PathEnds DEF JoinFacts
    <3>4. Ups(Len(<<>>)) \o (more \o rest) = more \o rest
      <4>1. UpsFacts(0)
        BY UpsAre, Zenon
      <4>2. Ups(Len(<<>>)) = <<>>
        BY <4>1, EmptyPath DEF UpsFacts
      <4>3. JoinFacts(more \o rest, <<>>)
        BY <3>3, EmptyPath, JoinIs, Zenon
      <4> QED
        BY <4>2, <4>3 DEF JoinFacts
    <3>5. v = Here(next \o <<>>, Ups(Len(<<>>)) \o (more \o rest), links, t)
      BY <3>2, <3>3, <3>4
    <3>6. d > 1 /\ d \in Nat \ {0} /\ d - 1 = Len(<<>>) + Len(more)
      <4>1. Len(more) \in Nat \ {0}
        BY <2>6, <2>8 DEF JoinFacts
      <4> QED
        BY <1>1, <1>3, <2>1, <2>4, <4>1, EmptyPath
    <3>7. Toward(v, t, f, rest, links, d - 1)
      BY <2>3, <2>4, <2>8, <3>5, <3>6, EmptyPath DEF Toward
    <3>8. d # 1
      BY <3>6
    <3> QED
      BY <1>7, <3>6, <3>7, <3>8 DEF Nears
  <2> QED
    BY <2>7, <2>8
<1> QED
  BY <1>9, <1>10

\* A link that goes up from its directory, and down by name, to a file, in the steps at hand.
LeadsToFile(t, p) ==
  \E a, u, b \in Path :
    /\ Parent(p) = a \o u /\ b # <<>> /\ NamesOnly(b) /\ t[p].to = Ups(Len(u)) \o b
    /\ a \o b \in DOMAIN t /\ t[a \o b].is = "file" /\ Len(u) + Len(b) <= MaxSteps

Flat(t) == \A p \in DOMAIN t : t[p].is = "link" => LeadsToFile(t, p)

\* A link stays flat where files stay files.
LEMMA LeadsStay ==
  ASSUME NEW t, NEW p, LeadsToFile(t, p), NEW v, v[p] = t[p],
         \A f \in DOMAIN t : t[f].is = "file" => f \in DOMAIN v /\ v[f].is = "file"
  PROVE  LeadsToFile(v, p)
<1>1. PICK a \in Path, u \in Path, b \in Path :
         /\ Parent(p) = a \o u /\ b # <<>> /\ NamesOnly(b) /\ t[p].to = Ups(Len(u)) \o b
         /\ a \o b \in DOMAIN t /\ t[a \o b].is = "file" /\ Len(u) + Len(b) <= MaxSteps
  BY DEF LeadsToFile
<1>2. a \o b \in DOMAIN v /\ v[a \o b].is = "file" /\ v[p].to = Ups(Len(u)) \o b
  BY <1>1
<1> QED
  BY <1>1, <1>2 DEF LeadsToFile

\* New directories leave a flat tree flat.
LEMMA FlatMade ==
  ASSUME NEW t, Flat(t), NEW v, MadeDirs(t, v)
  PROVE  Flat(v)
<1> SUFFICES ASSUME NEW p \in DOMAIN v, v[p].is = "link" PROVE LeadsToFile(v, p)
  BY DEF Flat
<1>1. p \in DOMAIN t /\ v[p] = t[p]
  BY DEF MadeDirs, Dir
<1>2. LeadsToFile(t, p)
  BY <1>1 DEF Flat
<1> QED
  BY <1>1, <1>2, LeadsStay DEF MadeDirs

\* What is on the way to a file is a walk that goes on.
LEMMA TowardIs ==
  ASSUME NEW w, NEW t, NEW f, NEW rest, NEW links, NEW d, Toward(w, t, f, rest, links, d)
  PROVE  w.tree = t /\ w.links = links /\ w.ok
BY DEF Toward, Here

\* A walk of a flat tree that has read no link, or is on the way from one to its file.
Aimed(w) ==
  \E f \in DOMAIN w.tree, rest \in Path : \E d :
    w.tree[f].is = "file" /\ Toward(w, w.tree, f, rest, w.links, d)
OnWay(w, path) == w.links = 0 /\ NamesOnly(w.at) /\ (NamesOnly(path) => w.at \o w.todo = path)
Level(w, path) == w.ok => OnWay(w, path) \/ Aimed(w)

\* Whoever reads a link is on the way to its file.
LEMMA LinkAims ==
  ASSUME NEW t, Good(t), NEW a \in Path, NEW s \in Names, Append(a, s) \in DOMAIN t,
         LeadsToFile(t, Append(a, s)), NEW rest \in Path, NEW links
  PROVE  \E f \in DOMAIN t : \E d \in 0 .. MaxSteps :
           /\ t[f].is = "file"
           /\ Toward(Here(a, t[Append(a, s)].to \o rest, links, t), t, f, rest, links, d)
<1> DEFINE p == Append(a, s)
           to == t[p].to
<1>1. Parent(p) = a
  BY PathEnds
<1>2. PICK x \in Path, u \in Path, b \in Path :
         /\ Parent(p) = x \o u /\ b # <<>> /\ NamesOnly(b) /\ to = Ups(Len(u)) \o b
         /\ x \o b \in DOMAIN t /\ t[x \o b].is = "file" /\ Len(u) + Len(b) <= MaxSteps
  BY DEF LeadsToFile
<1>3. Len(u) \in Nat /\ Len(b) \in Nat
  BY DEF Path
<1>4. Ups(Len(u)) \in Path
  <2>1. UpsFacts(Len(u))
    BY <1>3, UpsAre, Zenon
  <2> QED
    BY <2>1 DEF UpsFacts
<1> DEFINE ups == Ups(Len(u))
<1> HIDE DEF p, to, ups
<1>5. to \o rest = ups \o (b \o rest)
  <2>1. ups \in Path
    BY <1>4 DEF ups
  <2>2. (ups \o b) \o rest = ups \o (b \o rest) /\ ups \o b \in Path /\ b \o rest \in Path
    BY <2>1, PathAssoc, Zenon
  <2> QED
    BY <1>2, <2>2 DEF ups
<1>6. Len(u) + Len(b) \in 0 .. MaxSteps
  BY <1>2, <1>3, NamesKnown
<1>7. Toward(Here(a, to \o rest, links, t), t, x \o b, rest, links, Len(u) + Len(b))
  BY <1>1, <1>2, <1>5 DEF Toward, ups
<1> QED
  BY <1>2, <1>6, <1>7 DEF to, p

\* One step of a walk of a flat tree.
LEMMA LevelStep ==
  ASSUME NEW path \in Path, NEW t, NEW w, WalkInv(w, t, "make"), Flat(w.tree), Level(w, path),
         w.todo # <<>>, NEW v, v = NextWalk(w, "make")
  PROVE  Level(v, path)
<1> DEFINE a == w.at
           s == Head(w.todo)
           rest == Tail(w.todo)
           next == Append(a, s)
           u == w.tree
           links == w.links
<1>1. /\ w.ok /\ ~w.missing /\ a \in Path /\ w.todo \in Path /\ Good(u) /\ links \in Nat
      /\ s \in Names /\ rest \in Path /\ next \in Path
  BY PathEnds DEF WalkInv
<1> SUFFICES ASSUME v.ok PROVE OnWay(v, path) \/ Aimed(v)
  BY DEF Level
<1>2. CASE Aimed(w)
  <2>1. PICK f \in DOMAIN u, x \in Path : \E d : u[f].is = "file" /\ Toward(w, u, f, x, links, d)
    BY <1>2 DEF Aimed
  <2>2. PICK d : u[f].is = "file" /\ Toward(w, u, f, x, links, d)
    BY <2>1
  <2> HIDE DEF u, links
  <2>3. Nears(w, v, u, f, x, links, "make", d)
    BY <1>1, <2>1, <2>2, StepToward, Zenon
  <2>4. d \in Nat \ {0} /\ d # 1
    BY <2>3 DEF Nears, Arrives
  <2>5. Toward(v, u, f, x, links, d - 1)
    BY <2>3, <2>4 DEF Nears
  <2>6. v.tree = u /\ v.links = links
    BY <2>5, TowardIs
  <2> QED
    BY <2>1, <2>2, <2>5, <2>6 DEF Aimed
<1>3. CASE OnWay(w, path)
  <2>1. GoesOn(a, s, rest, links, u, "make", v)
    <3>1. GoesOn(a, s, rest, links, u, "make", NextWalk(Here(a, w.todo, links, u), "make"))
      BY StepHere, Zenon
    <3>2. w = Here(a, w.todo, links, u)
      BY <1>1, HereIs
    <3> QED
      BY <3>1, <3>2
  <2>2. NamesOnly(path) => s \notin {Root, Up} /\ next \o rest = path
    <3>1. JoinFacts(a, w.todo)
      BY <1>1, JoinIs, Zenon
    <3>2. next \o rest = a \o w.todo
      BY <3>1 DEF JoinFacts
    <3>3. NamesOnly(path) => NamesOnly(w.todo)
      <4>1. NamesOnly(a) /\ NamesOnly(w.todo) <=> NamesOnly(a \o w.todo)
        BY <1>1, NamesParts
      <4> QED
        BY <1>3, <4>1 DEF OnWay
    <3>4. NamesOnly(path) => s \notin {Root, Up}
      BY <1>1, <3>3, NamesParts
    <3> QED
      BY <1>3, <3>2, <3>4 DEF OnWay
  <2>3. links = 0
    BY <1>3 DEF OnWay
  <2>4. \A at, todo, n, x : v = Here(at, todo, n, x) => v.at = at /\ v.todo = todo /\ v.links = n /\ v.tree = x
    BY DEF Here
  <2>5. next \in DOMAIN u => u[next].is \in {"dir", "file", "link"}
    BY <1>1, NodeAt
  <2>10. NamesOnly(<<>>) /\ NamesOnly(Parent(a)) /\ (s \notin {Root, Up} => NamesOnly(next))
    <3>1. NamesOnly(a) /\ s \in Names
      BY <1>1, <1>3 DEF OnWay
    <3>2. CASE a = <<>>
      BY <1>1, <3>1, <3>2, NamesParts DEF Parent
    <3>3. CASE a # <<>>
      BY <1>1, <3>1, <3>3, NamesParts
    <3> QED
      BY <3>2, <3>3
  <2> HIDE DEF a, s, rest, next, u, links
  <2>6. CASE s \in {Root, Up}
    <3>1. v = Here(<<>>, rest, links, u) \/ v = Here(Parent(a), rest, links, u)
      BY <2>1, <2>6 DEF GoesOn
    <3>2. v.links = links /\ v.at \in {<<>>, Parent(a)}
      BY <2>4, <3>1
    <3> QED
      BY <2>2, <2>3, <2>6, <2>10, <3>2 DEF OnWay
  <2>7. CASE s \notin {Root, Up} /\ (next \notin DOMAIN u \/ u[next].is = "dir")
    <3>1. v = Here(next, rest, links, With(u, next, Dir)) \/ v = Here(next, rest, links, u)
      BY <2>1, <2>7 DEF GoesOn, next
    <3>2. v.at = next /\ v.todo = rest /\ v.links = links
      BY <2>4, <3>1
    <3> QED
      BY <2>2, <2>3, <2>7, <2>10, <3>2 DEF OnWay
  <2>8. CASE s \notin {Root, Up} /\ next \in DOMAIN u /\ u[next].is = "link"
    <3>1. links # MaxLinks
      BY <2>3, StagingAssumption
    <3>2. v = Here(a, u[next].to \o rest, links + 1, u)
      BY <2>1, <2>8, <3>1 DEF GoesOn, next
    <3>3. LeadsToFile(u, next)
      BY <2>8 DEF Flat, u
    <3>4. PICK f \in DOMAIN u : \E d \in 0 .. MaxSteps :
            u[f].is = "file" /\ Toward(Here(a, u[next].to \o rest, links + 1, u), u, f, rest, links + 1, d)
      BY <1>1, <2>8, <3>3, LinkAims DEF next, a, s, rest, u
    <3>5. PICK d \in 0 .. MaxSteps : u[f].is = "file" /\ Toward(v, u, f, rest, links + 1, d)
      BY <3>2, <3>4
    <3>6. v.tree = u /\ v.links = links + 1
      BY <2>4, <3>2
    <3> QED
      BY <1>1, <3>5, <3>6 DEF Aimed, rest
  <2>9. CASE s \notin {Root, Up} /\ next \in DOMAIN u /\ u[next].is = "file"
    BY <2>1, <2>9 DEF GoesOn, next
  <2> QED
    BY <2>5, <2>6, <2>7, <2>8, <2>9
<1> QED
  BY <1>1, <1>2, <1>3 DEF Level

\* A path of a flat tree leads, if anywhere, where it says: no link is read on the way.
LandsFlat(l, path) == l.links = 0 /\ NamesOnly(l.at) /\ (NamesOnly(path) => l.at = path) /\ Flat(l.tree)

\* So it is, for every path that leads anywhere.
LEMMA FlatWalk ==
  ASSUME NEW t, Good(t), Flat(t), NEW path \in Path, NEW l, l = Walked(t, path, "make"), l.ok
  PROVE  LandsFlat(l, path)
<1> DEFINE N == StepsOf(path)
<1>1. N \in Nat /\ N = StepsOf(path)
  BY StepsAre
<1> HIDE DEF N
<1>2. PICK g : IsWalk(g, N, t, path, "make") /\ g[N].ok /\ g[N].todo = <<>> /\ l = g[N]
  BY <1>1, WalkedOk
<1>3. \A n \in 0 .. N : WalkInv(g[n], t, "make")
  BY <1>1, <1>2, WalkInvs
<1> DEFINE S == {n \in 0 .. N : Flat(g[n].tree) /\ Level(g[n], path)}
<1>4. 0 \in S
  <2>1. g[0].tree = t /\ g[0].at = <<>> /\ g[0].todo = path /\ g[0].links = 0
    BY <1>2 DEF IsWalk, Start
  <2>2. JoinFacts(path, <<>>) /\ JoinFacts(<<>>, path)
    BY EmptyPath, JoinIs, Zenon
  <2>3. <<>> \o path = path
    BY <2>2 DEF JoinFacts
  <2>4. Level(g[0], path)
    BY <2>1, <2>3, EmptyPath, NamesParts DEF Level, OnWay
  <2> QED
    BY <1>1, <2>1, <2>4
<1>5. ASSUME NEW n \in 1 .. N, n - 1 \in S PROVE n \in S
  <2>1. n - 1 \in 0 .. N /\ g[n] = NextWalk(g[n - 1], "make") /\ Flat(g[n - 1].tree) /\ Level(g[n - 1], path)
    BY <1>2, <1>5 DEF IsWalk
  <2>2. MadeDirs(g[n - 1].tree, g[n].tree)
    BY <1>3, <2>1, StepMakes
  <2>3. Flat(g[n].tree)
    BY <2>1, <2>2, FlatMade
  <2>4. CASE g[n - 1].todo = <<>>
    <3>1. g[n] = g[n - 1]
      BY <2>1, <2>4 DEF NextWalk
    <3> QED
      BY <2>1, <3>1
  <2>5. CASE g[n - 1].todo # <<>>
    <3>1. WalkInv(g[n - 1], t, "make")
      BY <1>3, <2>1
    <3>2. Level(g[n], path)
      BY <2>1, <2>5, <3>1, LevelStep
    <3> QED
      BY <2>3, <3>2
  <2> QED
    BY <2>4, <2>5
<1>6. Flat(l.tree) /\ Level(l, path)
  <2>1. \A n \in 0 .. N : n \in S
    <3> HIDE DEF S
    <3> QED
      BY <1>1, <1>4, <1>5, UpTo
  <2> QED
    BY <1>1, <1>2, <2>1
<1>7. ~Aimed(l)
  <2> SUFFICES ASSUME NEW f \in DOMAIN l.tree, NEW rest \in Path, NEW d, l.tree[f].is = "file",
                      Toward(l, l.tree, f, rest, l.links, d)
               PROVE  FALSE
    BY DEF Aimed
  <2>1. Good(l.tree)
    BY <1>1, <1>2, <1>3 DEF WalkInv
  <2> DEFINE v == NextWalk(l, "make")
  <2>2. Nears(l, v, l.tree, f, rest, l.links, "make", d)
    BY <2>1, StepToward, Zenon
  <2>3. l.todo # <<>>
    BY <2>2 DEF Nears
  <2> QED
    BY <1>2, <2>3
<1>8. l.links = 0 /\ NamesOnly(l.at) /\ (NamesOnly(path) => l.at \o <<>> = path) /\ l.at \in Path
  <2>1. OnWay(l, path) /\ l.todo = <<>>
    BY <1>2, <1>6, <1>7 DEF Level
  <2>2. l.at \in Path
    BY <1>1, <1>2, <1>3 DEF WalkInv
  <2> QED
    BY <2>1, <2>2 DEF OnWay
<1>9. l.at \o <<>> = l.at
  <2>1. JoinFacts(l.at, <<>>)
    BY <1>8, EmptyPath, JoinIs, Zenon
  <2> QED
    BY <2>1 DEF JoinFacts
<1> QED
  BY <1>6, <1>8, <1>9 DEF LandsFlat

\* A walk comes to a directory by its names, one step for each.
Passes(h, q, tail, u) == h[Len(q)] = Here(q, tail, 0, u)
Passing(h, q, tail, u, n) ==
  \E a, b \in Path : a \o b = q /\ Len(a) = n /\ h[n] = Here(a, b \o tail, 0, u)

\* A directory of the tree is where its path leads, whoever walks it.
LEMMA PlainSteps ==
  ASSUME NEW u, Good(u), NEW q \in DOMAIN u, q \in Path, u[q].is = "dir", NamesOnly(q), NEW tail \in Path,
         NEW how, NEW M \in Nat, Len(q) <= M, NEW h, IsWalk(h, M, u, q \o tail, how)
  PROVE  Passes(h, q, tail, u)
<1> DEFINE N == Len(q)
           S == {n \in 0 .. N : Passing(h, q, tail, u, n)}
<1>1. N \in Nat
  BY DEF Path
<1>2. 0 \in S
  <2>1. JoinFacts(q, <<>>)
    BY EmptyPath, JoinIs, Zenon
  <2>2. <<>> \o q = q
    BY <2>1 DEF JoinFacts
  <2>3. h[0] = Here(<<>>, q \o tail, 0, u)
    BY DEF IsWalk, Start, Here
  <2>4. \E a, b \in Path : a \o b = q /\ Len(a) = 0 /\ h[0] = Here(a, b \o tail, 0, u)
    BY <2>2, <2>3, EmptyPath, Zenon
  <2>5. Passing(h, q, tail, u, 0)
    BY <2>4 DEF Passing
  <2> QED
    BY <1>1, <2>5
<1>3. ASSUME NEW n \in 1 .. N, n - 1 \in S PROVE n \in S
  <2>1. PICK a \in Path, b \in Path : a \o b = q /\ Len(a) = n - 1 /\ h[n - 1] = Here(a, b \o tail, 0, u)
    BY <1>3 DEF Passing
  <2>2. JoinFacts(a, b) /\ JoinFacts(tail, b)
    BY JoinIs, Zenon
  <2>3. b # <<>>
    <3> SUFFICES ASSUME b = <<>> PROVE FALSE
      OBVIOUS
    <3>1. a = q
      BY <2>1, <2>2 DEF JoinFacts
    <3> QED
      BY <1>1, <2>1, <3>1
  <2> DEFINE s == Head(b)
             next == Append(a, s)
             more == Tail(b)
             y == NextWalk(Here(a, b \o tail, 0, u), how)
  <2>4. /\ next \in Path /\ more \in Path /\ next \o more = q
        /\ b \o tail # <<>> /\ Head(b \o tail) = s /\ Tail(b \o tail) = more \o tail
    BY <2>1, <2>2, <2>3 DEF JoinFacts
  <2>5. s \notin {Root, Up}
    <3>1. NamesOnly(a) /\ NamesOnly(b) <=> NamesOnly(a \o b)
      BY NamesParts
    <3>2. NamesOnly(b)
      BY <2>1, <3>1
    <3> QED
      BY <2>3, <3>2, NamesParts
  <2>6. GoesOn(a, s, more \o tail, 0, u, how, y)
    <3>1. GoesOn(a, Head(b \o tail), Tail(b \o tail), 0, u, how, y)
      BY <2>4, StepHere, Zenon
    <3> QED
      BY <2>4, <3>1
  <2>7. next \in DOMAIN u /\ u[next].is = "dir"
    <3>1. CASE more = <<>>
      <4>1. JoinFacts(next, more)
        BY <2>4, JoinIs, Zenon
      <4>2. next = q
        BY <2>4, <3>1, <4>1 DEF JoinFacts
      <4> QED
        BY <4>2
    <3>2. CASE more # <<>>
      <4> HIDE DEF next, more
      <4> QED
        BY <2>4, <3>2, PrefixIsDir
    <3> QED
      BY <3>1, <3>2
  <2>8. n \in 1 .. M /\ h[n] = y
    <3>1. n \in 1 .. M
      BY <1>1
    <3> QED
      BY <2>1, <3>1 DEF IsWalk
  <2>9. Len(next) = n
    <3>1. a \in Seq(Names) /\ s \in Names
      BY <2>2, <2>3 DEF Path, JoinFacts
    <3> QED
      BY <2>1, <3>1
  <2>10. y = Here(next, more \o tail, 0, u)
    <3> HIDE DEF y, s
    <3> QED
      BY <2>5, <2>6, <2>7 DEF GoesOn
  <2> HIDE DEF y, next, more
  <2>11. h[n] = Here(next, more \o tail, 0, u)
    BY <2>8, <2>10
  <2>12. \E x, z \in Path : x \o z = q /\ Len(x) = n /\ h[n] = Here(x, z \o tail, 0, u)
    BY <2>4, <2>9, <2>11, Zenon
  <2>13. Passing(h, q, tail, u, n)
    BY <2>12 DEF Passing
  <2> QED
    BY <1>3, <2>13
<1>4. Passing(h, q, tail, u, N)
  <2>1. \A n \in 0 .. N : n \in S
    <3> HIDE DEF S, N
    <3> QED
      BY <1>1, <1>2, <1>3, UpTo
  <2>2. N \in 0 .. N
    BY <1>1
  <2> QED
    BY <2>1, <2>2
<1>5. PICK a \in Path, b \in Path : a \o b = q /\ Len(a) = N /\ h[N] = Here(a, b \o tail, 0, u)
  BY <1>4 DEF Passing
<1>6. JoinFacts(a, b) /\ JoinFacts(tail, b)
  BY JoinIs, Zenon
<1>7. Len(q) = Len(a) + Len(b) /\ Len(a) \in Nat /\ Len(b) \in Nat
  BY <1>5, <1>6 DEF JoinFacts
<1>8. Len(b) = 0
  BY <1>5, <1>7
<1>9. b = <<>>
  BY <1>6, <1>8 DEF JoinFacts
<1>10. a = q /\ b \o tail = tail
  BY <1>5, <1>6, <1>9 DEF JoinFacts
<1> QED
  BY <1>5, <1>10 DEF Passes

\* It leads there, and no link is read on the way.
LeadsHome(u, q, how) == Walked(u, q, how) = Here(q, <<>>, 0, u)

\* So every directory of names is found under its own path.
LEMMA PlainLeads ==
  ASSUME NEW u, Good(u), NEW q \in DOMAIN u, q \in Path, u[q].is = "dir", NamesOnly(q), NEW how
  PROVE  LeadsHome(u, q, how)
<1> DEFINE N == StepsOf(q)
<1>1. N \in Nat /\ N = StepsOf(q) /\ Len(q) <= N /\ Len(q) \in Nat
  BY StepsAre
<1> HIDE DEF N
<1>2. PICK h : IsWalk(h, N, u, q, how)
  BY <1>1, WalkedIs, Zenon
<1>3. q \o <<>> = q
  <2>1. JoinFacts(q, <<>>)
    BY EmptyPath, JoinIs, Zenon
  <2> QED
    BY <2>1 DEF JoinFacts
<1>4. h[Len(q)] = Here(q, <<>>, 0, u)
  <2>1. IsWalk(h, N, u, q \o <<>>, how)
    BY <1>2, <1>3
  <2>2. Passes(h, q, <<>>, u)
    BY <1>1, <2>1, EmptyPath, PlainSteps, Zenon
  <2> QED
    BY <2>2 DEF Passes
<1>5. h[N] = Here(q, <<>>, 0, u)
  <2>1. h[Len(q)].todo = <<>>
    BY <1>4 DEF Here
  <2>2. N \in 0 .. N /\ Len(q) \in 0 .. N
    BY <1>1
  <2>3. Stays(h, Len(q), N)
    BY <1>1, <1>2, <2>1, <2>2, WalkEnds, Zenon
  <2> QED
    BY <1>4, <2>3 DEF Stays
<1>6. Walked(u, q, how) = [h[N] EXCEPT !.ok = h[N].ok /\ h[N].todo = <<>>]
  BY <1>2 DEF IsWalk
<1>7. Walked(u, q, how) = h[N]
  BY <1>5, <1>6, EndOk
<1> QED
  BY <1>5, <1>7 DEF LeadsHome

\* The parent of a path of the tree.
LEMMA ParentIsDir ==
  ASSUME NEW u, Good(u), NEW p \in DOMAIN u, p # <<>>, NamesOnly(p)
  PROVE  /\ p \in Path /\ Parent(p) \in DOMAIN u /\ u[Parent(p)].is = "dir" /\ NamesOnly(Parent(p))
         /\ Parent(p) \in Path /\ Last(p) \in Names \ {Root, Up} /\ p = Append(Parent(p), Last(p))
<1>1. p \in Path /\ Parent(p) \in DOMAIN u /\ u[Parent(p)].is = "dir"
  BY DEF Good, Typed, Closed
<1>2. JoinFacts(<<>>, p)
  BY <1>1, EmptyPath, JoinIs, Zenon
<1>3. Last(p) \in Names \ {Root, Up} /\ NamesOnly(Parent(p))
  BY <1>1, NamesParts
<1> QED
  BY <1>1, <1>2, <1>3 DEF JoinFacts

\* The kernel shows a directory or a file of the tree under its own path.
LEMMA PlainShown ==
  ASSUME NEW u, Good(u), NEW p \in DOMAIN u, p # <<>>, NamesOnly(p), u[p].is \in {"dir", "file"}
  PROVE  Shown(u, p) = u[p]
<1> DEFINE q == Parent(p)
           s == Last(p)
           l == Walked(u, q, "make")
<1>1. /\ q \in DOMAIN u /\ u[q].is = "dir" /\ NamesOnly(q) /\ q \in Path
      /\ s \in Names \ {Root, Up} /\ p = Append(q, s)
  BY ParentIsDir
<1> HIDE DEF q, s
<1>2. l = Here(q, <<>>, 0, u)
  <2>1. LeadsHome(u, q, "make")
    BY <1>1, PlainLeads, Zenon
  <2> QED
    BY <2>1 DEF LeadsHome
<1>3. l.ok /\ l.tree = u /\ l.links = 0 /\ l.at = q
  BY <1>2 DEF Here
<1>4. Serves(l.tree, l.links, u)
  BY <1>3 DEF Serves
<1>5. Append(l.at, s) \in DOMAIN u /\ u[Append(l.at, s)].is \in {"dir", "file"}
  BY <1>1, <1>3
<1>6. Shown(u, Append(q, s)) = u[Append(l.at, s)]
  BY <1>1, <1>3, <1>4, <1>5, FollowsShown
<1> QED
  BY <1>1, <1>3, <1>6

\* The kernel comes to the file that a link leads to.
Comes(h, n, f, links, u) == h[n] = Here(f, <<>>, links, u)

\* It does so, in the steps that it still was away.
LEMMA KernelArrives ==
  ASSUME NEW u, Good(u), NEW f \in DOMAIN u, u[f].is = "file", NEW path, NEW M \in Nat, NEW h,
         IsWalk(h, M, u, path, "kernel"), NEW m \in Nat, NEW d \in Nat, m + d <= M, NEW links,
         Toward(h[m], u, f, <<>>, links, d)
  PROVE  Comes(h, m + d, f, links, u)
<1> DEFINE P(j) == j < d => Toward(h[m + j], u, f, <<>>, links, d - j)
           S == {j \in 0 .. d : P(j)}
<1>1. ASSUME NEW j \in 0 .. d, j < d, P(j)
      PROVE  /\ d - j = 1 => h[m + j + 1] = Here(f, <<>>, links, u)
             /\ d - j # 1 => Toward(h[m + j + 1], u, f, <<>>, links, d - j - 1)
  <2>1. m + j + 1 \in 1 .. M /\ (m + j + 1) - 1 = m + j
    BY <1>1
  <2> DEFINE w == h[m + j]
             v == h[m + j + 1]
             e == d - j
  <2>2. v = NextWalk(w, "kernel")
    BY <2>1 DEF IsWalk
  <2>3. Toward(w, u, f, <<>>, links, e)
    BY <1>1
  <2> HIDE DEF w, v, e
  <2>4. Nears(w, v, u, f, <<>>, links, "kernel", e)
    BY <2>2, <2>3, EmptyPath, StepToward, Zenon
  <2>5. (e = 1 => v = Here(f, <<>>, links, u)) /\ (e # 1 => Toward(v, u, f, <<>>, links, e - 1))
    <3>1. e \in Nat \ {0}
      BY <2>4 DEF Nears
    <3> QED
      BY <2>4, <3>1 DEF Nears, Arrives
  <2> QED
    BY <2>5 DEF v, e
<1>2. d # 0
  <2>1. Nears(h[m], NextWalk(h[m], "kernel"), u, f, <<>>, links, "kernel", d)
    BY EmptyPath, StepToward, Zenon
  <2> QED
    BY <2>1 DEF Nears
<1>3. 0 \in S
  <2>1. m + 0 = m /\ d - 0 = d
    OBVIOUS
  <2> QED
    BY <2>1
<1>4. ASSUME NEW j \in 1 .. d, j - 1 \in S PROVE j \in S
  <2> DEFINE i == j - 1
  <2>1. i \in 0 .. d /\ i < d /\ P(i) /\ m + i + 1 = m + j /\ d - i - 1 = d - j
    BY <1>4
  <2>2. j < d => d - i # 1
    OBVIOUS
  <2> HIDE DEF i
  <2>3. j < d => Toward(h[m + j], u, f, <<>>, links, d - j)
    BY <1>1, <2>1, <2>2
  <2> QED
    BY <2>3
<1>5. \A j \in 0 .. d : j \in S
  <2> HIDE DEF S
  <2> QED
    BY <1>3, <1>4, UpTo
<1> DEFINE e == d - 1
<1>6. e \in 0 .. d /\ e < d /\ d - e = 1 /\ m + e + 1 = m + d
  BY <1>2
<1>7. P(e)
  BY <1>5, <1>6
<1> HIDE DEF e
<1>8. h[m + e + 1] = Here(f, <<>>, links, u)
  BY <1>1, <1>6, <1>7
<1> QED
  BY <1>6, <1>8 DEF Comes

\* Something of the tree that leads somewhere: a directory, a file, or a link to a file.
Leading(t, p) == p \in DOMAIN t /\ (t[p].is = "link" => LeadsToFile(t, p))

\* The kernel finds something under its path.
LEMMA LinkResolves ==
  ASSUME NEW u, Good(u), NEW p, Leading(u, p), p # <<>>, NamesOnly(p)
  PROVE  Resolves(u, p)
<1>1. p \in DOMAIN u /\ u[p].is \in {"dir", "file", "link"}
  BY NodeAt DEF Leading
<1>2. CASE u[p].is \in {"dir", "file"}
  BY <1>1, <1>2, PlainShown DEF Resolves
<1>3. CASE u[p].is = "link"
  <2> DEFINE q == Parent(p)
             s == Last(p)
             one == <<s>>
             M == StepsOf(p)
             m == Len(q)
  <2>1. /\ q \in DOMAIN u /\ u[q].is = "dir" /\ NamesOnly(q) /\ q \in Path /\ p \in Path
        /\ s \in Names \ {Root, Up} /\ p = Append(q, s)
    BY <1>1, ParentIsDir
  <2> HIDE DEF q, s
  <2>2. one \in Path /\ q \o one = p /\ Len(p) = m + 1 /\ m \in Nat /\ one # <<>> /\ Head(one) = s /\ Tail(one) = <<>>
    BY <2>1 DEF Path
  <2>3. M \in Nat /\ M = m + 1 + MaxSteps /\ m <= M /\ m + 1 \in 1 .. M /\ (m + 1) - 1 = m
    BY <2>2, NamesKnown DEF StepsOf
  <2>4. PICK h : IsWalk(h, M, u, p, "kernel")
    BY <2>1, WalkedIs, Zenon
  <2> HIDE DEF M, one
  <2>5. h[m] = Here(q, one, 0, u)
    <3>1. IsWalk(h, M, u, q \o one, "kernel")
      BY <2>2, <2>4
    <3>2. Passes(h, q, one, u)
      BY <2>1, <2>2, <2>3, <3>1, PlainSteps, Zenon
    <3> QED
      BY <3>2 DEF Passes
  <2> DEFINE y == NextWalk(Here(q, one, 0, u), "kernel")
  <2>6. h[m + 1] = y
    BY <2>3, <2>4, <2>5 DEF IsWalk
  <2>7. GoesOn(q, s, <<>>, 0, u, "kernel", y)
    <3>1. GoesOn(q, Head(one), Tail(one), 0, u, "kernel", y)
      BY <2>2, StepHere, Zenon
    <3> QED
      BY <2>2, <3>1
  <2>8. y = Here(q, u[p].to \o <<>>, 1, u)
    <3>1. 0 # MaxLinks /\ 0 + 1 = 1
      BY StagingAssumption
    <3> HIDE DEF y
    <3> QED
      BY <1>1, <1>3, <2>1, <2>7, <3>1 DEF GoesOn
  <2>9. PICK f \in DOMAIN u : \E d \in 0 .. MaxSteps :
          u[f].is = "file" /\ Toward(Here(q, u[p].to \o <<>>, 1, u), u, f, <<>>, 1, d)
    <3>1. LeadsToFile(u, Append(q, s)) /\ Append(q, s) \in DOMAIN u
      BY <1>1, <1>3, <2>1 DEF Leading
    <3>2. \E f \in DOMAIN u : \E d \in 0 .. MaxSteps :
            u[f].is = "file" /\ Toward(Here(q, u[Append(q, s)].to \o <<>>, 1, u), u, f, <<>>, 1, d)
      BY <2>1, <3>1, EmptyPath, LinkAims
    <3> QED
      BY <2>1, <3>2
  <2>10. PICK d \in 0 .. MaxSteps : u[f].is = "file" /\ Toward(h[m + 1], u, f, <<>>, 1, d)
    BY <2>6, <2>8, <2>9
  <2>11. d \in Nat /\ m + 1 \in Nat /\ (m + 1) + d <= M /\ (m + 1) + d \in 0 .. M /\ M \in 0 .. M
    BY <2>2, <2>3, NamesKnown
  <2>12. h[(m + 1) + d] = Here(f, <<>>, 1, u)
    <3> DEFINE i == m + 1
    <3>1. i \in Nat /\ i + d <= M /\ M \in Nat /\ d \in Nat /\ Toward(h[i], u, f, <<>>, 1, d) /\ u[f].is = "file"
      BY <2>3, <2>10, <2>11
    <3> HIDE DEF i
    <3>2. Comes(h, i + d, f, 1, u)
      BY <2>4, <3>1, KernelArrives, Zenon
    <3> QED
      BY <3>2 DEF Comes, i
  <2>13. h[M] = Here(f, <<>>, 1, u)
    <3> DEFINE e == (m + 1) + d
    <3>1. h[e].todo = <<>> /\ e \in 0 .. M /\ e <= M
      BY <2>11, <2>12 DEF Here
    <3> HIDE DEF e
    <3>2. Stays(h, e, M)
      BY <2>3, <2>4, <2>11, <3>1, WalkEnds, Zenon
    <3> QED
      BY <2>12, <3>2 DEF Stays, e
  <2>14. Walked(u, p, "kernel") = [h[M] EXCEPT !.ok = h[M].ok /\ h[M].todo = <<>>]
    BY <2>4 DEF IsWalk
  <2>15. Walked(u, p, "kernel") = Here(f, <<>>, 1, u)
    BY <2>13, <2>14, EndOk
  <2>16. Shown(u, p) = u[f]
    <3>1. Walked(u, p, "kernel").ok /\ Walked(u, p, "kernel").tree = u /\ Walked(u, p, "kernel").at = f
      BY <2>15 DEF Here
    <3> QED
      BY <3>1 DEF Shown
  <2> QED
    BY <2>10, <2>16 DEF Resolves
<1> QED
  BY <1>1, <1>2, <1>3

--------------------------------------------------------------------------------
\* What a step leaves alone, and what it writes.

\* Directories and files stay what they are, and links stay where they lead, or become files.
Holds(t, v) ==
  \A p \in DOMAIN t :
    /\ p \in DOMAIN v
    /\ t[p].is = "dir" => v[p].is = "dir"
    /\ t[p].is = "file" => v[p].is = "file"
    /\ t[p].is = "link" => v[p] = t[p] \/ v[p].is = "file"

\* Files are written, each at its place, and directories are made.
WrittenAs(v, p, W) == \E w \in W : w.at = p /\ v[p] = w.node
Puts(t, v, W) ==
  /\ \A p \in DOMAIN t : p \in DOMAIN v /\ (v[p] = t[p] \/ (t[p].is # "dir" /\ WrittenAs(v, p, W)))
  /\ \A p \in DOMAIN v : p \notin DOMAIN t => v[p] = Dir \/ WrittenAs(v, p, W)
  /\ \A w \in W : w.node.is = "file" /\ w.at \in DOMAIN v /\ WrittenAs(v, w.at, W)

\* Writing leaves everything else alone.
LEMMA PutsHolds ==
  ASSUME NEW t, NEW v, NEW W, Puts(t, v, W)
  PROVE  Holds(t, v)
<1> SUFFICES ASSUME NEW p \in DOMAIN t
             PROVE  /\ p \in DOMAIN v
                    /\ t[p].is = "dir" => v[p].is = "dir"
                    /\ t[p].is = "file" => v[p].is = "file"
                    /\ t[p].is = "link" => v[p] = t[p] \/ v[p].is = "file"
  BY DEF Holds
<1>1. p \in DOMAIN v /\ (v[p] = t[p] \/ (t[p].is # "dir" /\ WrittenAs(v, p, W)))
  BY DEF Puts
<1>2. WrittenAs(v, p, W) => v[p].is = "file"
  BY DEF Puts, WrittenAs
<1> QED
  BY <1>1, <1>2

\* A flat tree stays flat.
LEMMA PutsFlat ==
  ASSUME NEW t, Flat(t), NEW v, NEW W, Puts(t, v, W)
  PROVE  Flat(v)
<1> SUFFICES ASSUME NEW p \in DOMAIN v, v[p].is = "link" PROVE LeadsToFile(v, p)
  BY DEF Flat
<1>1. ~WrittenAs(v, p, W)
  BY DEF Puts, WrittenAs
<1>2. p \in DOMAIN t /\ v[p] = t[p]
  BY <1>1 DEF Puts, Dir
<1>3. \A f \in DOMAIN t : t[f].is = "file" => f \in DOMAIN v /\ v[f].is = "file"
  BY PutsHolds DEF Holds
<1>4. LeadsToFile(t, p)
  BY <1>2 DEF Flat
<1> QED
  BY <1>2, <1>3, <1>4, LeadsStay

\* One write after another.
LEMMA PutsBoth ==
  ASSUME NEW t, NEW u, NEW v, NEW V, NEW W, Puts(t, u, V), Puts(u, v, W)
  PROVE  Puts(t, v, V \cup W)
<1>1. ASSUME NEW p \in DOMAIN u
      PROVE  p \in DOMAIN v /\ (v[p] = u[p] \/ (u[p].is # "dir" /\ WrittenAs(v, p, W)))
  BY DEF Puts
<1>2. \A p : WrittenAs(v, p, W) => WrittenAs(v, p, V \cup W)
  BY DEF WrittenAs
<1>3. \A p : WrittenAs(u, p, V) /\ v[p] = u[p] => WrittenAs(v, p, V \cup W)
  BY DEF WrittenAs
<1>4. ASSUME NEW p \in DOMAIN t
      PROVE  p \in DOMAIN v /\ (v[p] = t[p] \/ (t[p].is # "dir" /\ WrittenAs(v, p, V \cup W)))
  <2>1. p \in DOMAIN u /\ (u[p] = t[p] \/ (t[p].is # "dir" /\ WrittenAs(u, p, V)))
    BY DEF Puts
  <2> QED
    BY <1>1, <1>2, <1>3, <2>1
<1>5. ASSUME NEW p \in DOMAIN v, p \notin DOMAIN t PROVE v[p] = Dir \/ WrittenAs(v, p, V \cup W)
  <2>1. CASE p \in DOMAIN u
    <3>1. u[p] = Dir \/ WrittenAs(u, p, V)
      BY <1>5, <2>1 DEF Puts
    <3> QED
      BY <1>1, <1>2, <1>3, <2>1, <3>1
  <2>2. CASE p \notin DOMAIN u
    BY <1>2, <2>2 DEF Puts
  <2> QED
    BY <2>1, <2>2
<1>6. ASSUME NEW w \in V \cup W
      PROVE  w.node.is = "file" /\ w.at \in DOMAIN v /\ WrittenAs(v, w.at, V \cup W)
  <2>1. CASE w \in V
    <3>1. w.node.is = "file" /\ w.at \in DOMAIN u /\ WrittenAs(u, w.at, V)
      BY <2>1 DEF Puts
    <3> QED
      BY <1>1, <1>2, <1>3, <3>1
  <2>2. CASE w \in W
    BY <1>2, <2>2 DEF Puts
  <2> QED
    BY <2>1, <2>2
<1> QED
  BY <1>4, <1>5, <1>6 DEF Puts

\* Nothing, directories only, and one file.
LEMMA PutsOne ==
  ASSUME NEW t
  PROVE  /\ \A v : MadeDirs(t, v) => Puts(t, v, {})
         /\ \A w : w.node.is = "file" /\ ~(w.at \in DOMAIN t /\ t[w.at].is = "dir") =>
              Puts(t, With(t, w.at, w.node), {w})
<1>1. ASSUME NEW v, MadeDirs(t, v) PROVE Puts(t, v, {})
  BY <1>1 DEF MadeDirs, Puts
<1>2. ASSUME NEW w, w.node.is = "file", ~(w.at \in DOMAIN t /\ t[w.at].is = "dir")
      PROVE  Puts(t, With(t, w.at, w.node), {w})
  <2> DEFINE v == With(t, w.at, w.node)
  <2>1. /\ DOMAIN v = {w.at} \cup DOMAIN t /\ v[w.at] = w.node
        /\ \A p \in DOMAIN t : p # w.at => v[p] = t[p]
    BY DEF With
  <2> HIDE DEF v
  <2>2. WrittenAs(v, w.at, {w})
    BY <2>1 DEF WrittenAs
  <2>3. Puts(t, v, {w})
    BY <1>2, <2>1, <2>2 DEF Puts
  <2> QED
    BY <2>3 DEF v
<1> QED
  BY <1>1, <1>2

\* `copy_into` writes at its own path, if it writes.
LEMMA PlainWrite ==
  ASSUME NEW t, Good(t), Flat(t), NEW w, IsEntry(w), NamesOnly(w.at),
         NEW res, res = Replaced(t, w.at, w.node), res.ok
  PROVE  Puts(t, res.tree, {w}) /\ Good(res.tree)
<1> DEFINE path == w.at
           n == w.node
           l == Walked(t, Parent(path), "make")
           place == Target(l, path)
<1>1. path \in Path \ {<<>>} /\ n.is = "file" /\ IsNode(n) /\ NamesOnly(path)
  BY DEF IsEntry
<1> HIDE DEF path, n
<1>2. Writes(Replaced(t, path, n), t, l, place, n)
  BY <1>1, ReplacedIs
<1>3. /\ l.ok /\ res.tree = With(l.tree, place, n) /\ MadeDirs(t, l.tree)
      /\ ~(place \in DOMAIN l.tree /\ l.tree[place].is = "dir")
  <2> HIDE DEF l, place
  <2> QED
    BY <1>2 DEF Writes, path, n
<1>4. l.at = Parent(path)
  <2>1. Parent(path) \in Path /\ NamesOnly(Parent(path))
    BY <1>1, PathEnds, NamesParts
  <2>2. LandsFlat(l, Parent(path))
    BY <1>3, <2>1, FlatWalk, Zenon
  <2> QED
    BY <2>1, <2>2 DEF LandsFlat
<1>5. place = path
  <2>1. JoinFacts(<<>>, path)
    BY <1>1, EmptyPath, JoinIs, Zenon
  <2> QED
    BY <1>1, <1>4, <2>1 DEF JoinFacts, Target
<1>6. Puts(t, l.tree, {}) /\ Puts(l.tree, With(l.tree, path, n), {w})
  <2>1. w.at = path /\ w.node = n
    BY DEF path, n
  <2>2. w.node.is = "file" /\ ~(w.at \in DOMAIN l.tree /\ l.tree[w.at].is = "dir")
    BY <1>1, <1>3, <1>5, <2>1
  <2>3. Puts(l.tree, With(l.tree, w.at, w.node), {w})
    BY <2>2, PutsOne
  <2> QED
    BY <1>3, <2>1, <2>3, PutsOne
<1>7. Puts(t, res.tree, {} \cup {w})
  BY <1>3, <1>5, <1>6, PutsBoth
<1>8. Good(res.tree)
  BY <1>1, ReplacedGood DEF path, n
<1> QED
  BY <1>7, <1>8

\* A list of entries, as a set.
Lists(files, W) ==
  /\ Listed(files)
  /\ \A i \in 1 .. Len(files) : files[i] \in W
  /\ \A w \in W : \E i \in 1 .. Len(files) : files[i] = w

\* Several files of one step are each written at their own path.
LEMMA ListWrite ==
  ASSUME NEW t, Good(t), Flat(t), NEW files, NEW W, Lists(files, W), \A w \in W : NamesOnly(w.at),
         NEW res, res = ReplacedAll(t, files), res.ok
  PROVE  Puts(t, res.tree, W)
<1> DEFINE N == Len(files)
           V(n) == {files[i] : i \in 1 .. n}
           P(n, g) == g[n].ok => Good(g[n].tree) /\ Flat(g[n].tree) /\ Puts(t, g[n].tree, V(n))
<1>1. N \in Nat /\ (\A i \in 1 .. N : IsEntry(files[i])) /\ \E g : IsFill(g, N, t, files)
  BY FilledIs DEF Lists
<1>2. \A i \in 1 .. N : files[i] \in W
  BY DEF Lists
<1>3. V(N) = W
  BY DEF Lists
<1>4. \A n \in 1 .. N : V(n) = V(n - 1) \cup {files[n]}
  BY <1>1
<1>5. V(0) = {}
  OBVIOUS
<1> HIDE DEF N, V
<1>6. PICK g : IsFill(g, N, t, files)
  BY <1>1
<1> DEFINE S == {n \in 0 .. N : P(n, g)}
<1>7. 0 \in S
  <2>1. g[0].tree = t
    BY <1>6 DEF IsFill, Made
  <2>2. Puts(t, t, {})
    BY PutsOne, MadeDirsOnly
  <2> QED
    BY <1>1, <1>5, <2>1, <2>2
<1>8. ASSUME NEW n \in 1 .. N, n - 1 \in S PROVE n \in S
  <2> DEFINE w == files[n]
             u == g[n - 1].tree
             r == Replaced(u, w.at, w.node)
  <2> SUFFICES ASSUME g[n].ok PROVE P(n, g)
    BY <1>1
  <2>1. g[n] = NextFile(g[n - 1], w) /\ P(n - 1, g)
    BY <1>6, <1>8 DEF IsFill
  <2>2. g[n - 1].ok /\ g[n] = r
    BY <2>1 DEF NextFile, Failed
  <2>3. Good(u) /\ Flat(u) /\ Puts(t, u, V(n - 1))
    BY <2>1, <2>2
  <2>4. IsEntry(w) /\ NamesOnly(w.at)
    BY <1>1, <1>2
  <2>5. r.ok
    BY <2>2
  <2> HIDE DEF w, u, r
  <2>6. Puts(u, r.tree, {w}) /\ Good(r.tree)
    BY <2>3, <2>4, <2>5, PlainWrite DEF r
  <2>7. Puts(t, r.tree, V(n - 1) \cup {w}) /\ Flat(r.tree)
    BY <2>3, <2>6, PutsBoth, PutsFlat
  <2>8. V(n) = V(n - 1) \cup {w}
    BY <1>4 DEF w
  <2> QED
    BY <2>2, <2>6, <2>7, <2>8
<1>9. P(N, g)
  <2>1. \A n \in 0 .. N : n \in S
    <3> HIDE DEF S
    <3> QED
      BY <1>1, <1>7, <1>8, UpTo
  <2>2. N \in 0 .. N
    BY <1>1
  <2> QED
    BY <2>1, <2>2
<1>10. g[N] = res
  BY <1>6 DEF IsFill
<1> QED
  BY <1>3, <1>9, <1>10

\* A file stays a file, and what leads somewhere leads somewhere.
IsFile(t, p) == p \in DOMAIN t /\ t[p].is = "file"

\* Both stay where everything is held.
LEMMA HoldsThem ==
  ASSUME NEW t, Good(t), NEW v, Holds(t, v), NEW p
  PROVE  /\ IsFile(t, p) => IsFile(v, p)
         /\ Leading(t, p) => Leading(v, p)
<1>1. IsFile(t, p) => IsFile(v, p)
  BY DEF IsFile, Holds
<1>2. ASSUME Leading(t, p) PROVE Leading(v, p)
  <2>1. p \in DOMAIN t /\ t[p].is \in {"dir", "file", "link"} /\ (t[p].is = "link" => LeadsToFile(t, p))
    BY <1>2, NodeAt DEF Leading
  <2>2. p \in DOMAIN v /\ (v[p].is = "link" => t[p].is = "link" /\ v[p] = t[p])
    BY <2>1 DEF Holds
  <2>3. v[p].is = "link" => LeadsToFile(v, p)
    <3>1. \A f \in DOMAIN t : t[f].is = "file" => f \in DOMAIN v /\ v[f].is = "file"
      BY DEF Holds
    <3> QED
      BY <2>1, <2>2, <3>1, LeadsStay
  <2> QED
    BY <2>2, <2>3 DEF Leading
<1> QED
  BY <1>1, <1>2

\* Adding holds everything, and holding twice does.
LEMMA HoldsMore ==
  ASSUME NEW t
  PROVE  /\ \A v : Extends(t, v) => Holds(t, v)
         /\ \A u, v : Holds(t, u) /\ Holds(u, v) => Holds(t, v)
<1>1. \A v : Extends(t, v) => Holds(t, v)
  BY DEF Extends, Holds
<1>2. ASSUME NEW u, NEW v, Holds(t, u), Holds(u, v) PROVE Holds(t, v)
  <2> SUFFICES ASSUME NEW p \in DOMAIN t
               PROVE  /\ p \in DOMAIN v
                      /\ t[p].is = "dir" => v[p].is = "dir"
                      /\ t[p].is = "file" => v[p].is = "file"
                      /\ t[p].is = "link" => v[p] = t[p] \/ v[p].is = "file"
    BY DEF Holds
  <2>1. /\ p \in DOMAIN u
        /\ t[p].is = "dir" => u[p].is = "dir"
        /\ t[p].is = "file" => u[p].is = "file"
        /\ t[p].is = "link" => u[p] = t[p] \/ u[p].is = "file"
    BY <1>2 DEF Holds
  <2>2. /\ p \in DOMAIN v
        /\ u[p].is = "dir" => v[p].is = "dir"
        /\ u[p].is = "file" => v[p].is = "file"
        /\ u[p].is = "link" => v[p] = u[p] \/ v[p].is = "file"
    BY <1>2, <2>1 DEF Holds
  <2> QED
    BY <2>1, <2>2
<1> QED
  BY <1>1, <1>2

\* Where a walk of the loader's directory led without a link, with a file at the end.
Landing(path, t) ==
  LET l == Walked(t, Parent(path), "make")
  IN  l.ok /\ l.tree = t /\ l.links = 0 /\ Last(path) \notin {Root, Up} /\ IsFile(t, Target(l, path))
Place(path, t) == Target(Walked(t, Parent(path), "make"), path)

\* It stays there, and the kernel finds the file.
LEMMA LandingStays ==
  ASSUME NEW t, Good(t), NEW path \in Path \ {<<>>}, Landing(path, t), NEW v, Holds(t, v)
  PROVE  Landing(path, v) /\ Place(path, v) = Place(path, t)
<1> DEFINE l == Walked(t, Parent(path), "make")
           w == Walked(v, Parent(path), "make")
<1>1. l.ok /\ l.tree = t /\ l.links = 0 /\ Last(path) \notin {Root, Up} /\ IsFile(t, Target(l, path))
  BY DEF Landing
<1>2. Parent(path) \in Path
  BY PathEnds
<1>3. Serves(l.tree, l.links, v)
  BY <1>1 DEF Serves, Holds
<1>4. Leads(v, Parent(path), "make", l)
  BY <1>1, <1>2, <1>3, FollowsTo, Zenon
<1> HIDE DEF l, w
<1>5. w.ok /\ w.tree = v /\ w.links = 0 /\ w.at = l.at
  BY <1>1, <1>4 DEF Leads, Here, w
<1>6. Target(w, path) = Target(l, path)
  BY <1>5 DEF Target
<1>7. IsFile(v, Target(l, path))
  BY <1>1, HoldsThem
<1> QED
  BY <1>1, <1>5, <1>6, <1>7 DEF Landing, Place, l, w

\* The kernel finds the file by the path as it is spelled.
LEMMA LandingShown ==
  ASSUME NEW t, Good(t), NEW path \in Path \ {<<>>}, Landing(path, t)
  PROVE  Shown(t, path) = t[Place(path, t)]
<1> DEFINE l == Walked(t, Parent(path), "make")
           s == Last(path)
<1>1. l.ok /\ l.tree = t /\ l.links = 0 /\ s \notin {Root, Up} /\ IsFile(t, Target(l, path))
  BY DEF Landing
<1>2. JoinFacts(<<>>, path)
  BY EmptyPath, JoinIs, Zenon
<1>3. Parent(path) \in Path /\ s \in Names \ {Root, Up} /\ path = Append(Parent(path), s)
  BY <1>1, <1>2 DEF JoinFacts
<1>4. Serves(l.tree, l.links, t)
  BY <1>1 DEF Serves
<1>5. Append(l.at, s) \in DOMAIN t /\ t[Append(l.at, s)].is \in {"dir", "file"}
  BY <1>1 DEF IsFile, Target
<1>6. Shown(t, Append(Parent(path), s)) = t[Append(l.at, s)]
  BY <1>1, <1>3, <1>4, <1>5, FollowsShown
<1>7. Append(l.at, s) = Place(path, t)
  BY DEF Place, Target
<1> QED
  BY <1>3, <1>6, <1>7

\* One entry, if it is asked for.
One(asked, f) == IF asked THEN {f} ELSE {}

\* As a list it is that set.
LEMMA ListsWhen ==
  ASSUME NEW asked, NEW f, asked => IsEntry(f)
  PROVE  Lists(When(asked, f), One(asked, f))
<1>1. Listed(When(asked, f))
  BY ListedWhen
<1>2. CASE asked
  <2>1. When(asked, f) = <<f>> /\ One(asked, f) = {f}
    BY <1>2 DEF When, One
  <2>2. Len(<<f>>) = 1 /\ <<f>>[1] = f
    OBVIOUS
  <2> QED
    BY <1>1, <2>1, <2>2 DEF Lists
<1>3. CASE ~asked
  <2>1. When(asked, f) = <<>> /\ One(asked, f) = {} /\ Len(<<>>) = 0
    BY <1>3 DEF When, One
  <2> QED
    BY <1>1, <2>1 DEF Lists
<1> QED
  BY <1>2, <1>3

\* Element by element, one list after the other.
JoinedList(a, b) ==
  /\ Len(a) \in Nat /\ Len(b) \in Nat /\ Len(a \o b) = Len(a) + Len(b)
  /\ \A i \in 1 .. Len(a) : (a \o b)[i] = a[i]
  /\ \A i \in 1 .. Len(b) : (a \o b)[Len(a) + i] = b[i]

\* It is.
LEMMA JoinedLists ==
  ASSUME NEW S, NEW a \in Seq(S), NEW b \in Seq(S)
  PROVE  JoinedList(a, b)
BY DEF JoinedList

\* Two lists, one after the other.
LEMMA ListsJoin ==
  ASSUME NEW a, NEW V, Lists(a, V), NEW b, NEW W, Lists(b, W)
  PROVE  Lists(a \o b, V \cup W)
<1>1. Listed(a \o b)
  BY ListedJoin DEF Lists
<1>2. PICK S : a \in Seq(S) /\ \A f \in S : IsEntry(f)
  BY DEF Listed, Lists
<1>3. PICK T : b \in Seq(T) /\ \A f \in T : IsEntry(f)
  BY DEF Listed, Lists
<1>4. a \in Seq(S \cup T) /\ b \in Seq(S \cup T)
  BY <1>2, <1>3
<1>5. JoinedList(a, b)
  BY <1>4, JoinedLists, Zenon
<1> DEFINE c == a \o b
           m == Len(a)
           n == Len(b)
<1>6. /\ m \in Nat /\ n \in Nat /\ Len(c) = m + n
      /\ \A i \in 1 .. m : c[i] = a[i]
      /\ \A i \in 1 .. n : c[m + i] = b[i]
  BY <1>5 DEF JoinedList
<1>7. /\ \A i \in 1 .. m : a[i] \in V
      /\ \A w \in V : \E i \in 1 .. m : a[i] = w
      /\ \A i \in 1 .. n : b[i] \in W
      /\ \A w \in W : \E i \in 1 .. n : b[i] = w
  BY DEF Lists
<1> HIDE DEF c, m, n
<1>8. ASSUME NEW i \in 1 .. Len(c) PROVE c[i] \in V \cup W
  <2>1. CASE i \in 1 .. m
    BY <1>6, <1>7, <2>1
  <2>2. CASE i \notin 1 .. m
    <3>1. i - m \in 1 .. n /\ i = m + (i - m)
      BY <1>6, <1>8, <2>2
    <3>2. c[m + (i - m)] = b[i - m]
      BY <1>6, <3>1
    <3> QED
      BY <1>7, <3>1, <3>2
  <2> QED
    BY <2>1, <2>2
<1>9. ASSUME NEW w \in V \cup W PROVE \E i \in 1 .. Len(c) : c[i] = w
  <2>1. CASE w \in V
    <3>1. PICK i \in 1 .. m : a[i] = w
      BY <1>7, <2>1
    <3>2. i \in 1 .. Len(c) /\ c[i] = w
      BY <1>6, <3>1
    <3> QED
      BY <3>2
  <2>2. CASE w \in W
    <3>1. PICK i \in 1 .. n : b[i] = w
      BY <1>7, <2>2
    <3>2. m + i \in 1 .. Len(c) /\ c[m + i] = w
      BY <1>6, <3>1
    <3> QED
      BY <3>2
  <2> QED
    BY <1>9, <2>1, <2>2
<1> QED
  BY <1>1, <1>8, <1>9 DEF Lists, c

\* The modules that `stage_default_includes` finds, and where it puts them.
Found(r, dirs) == IF dirs = {} THEN {} ELSE NssModules(r.nss) \cap r.modules
Beside(dirs, m)  == Append(CHOOSE d \in dirs : TRUE, m)
Copied(r, dirs, m) == One(m \in Found(r, dirs), Mirrored(Beside(dirs, m)))

\* A file of /etc that the stager writes.
EtcFile(name) == Generated(<<"etc", name>>)

\* All that it writes.
Includes(r, dirs) ==
  (((One(r.nss.files \/ r.nss.dns, EtcFile("nsswitch.conf"))
       \cup Copied(r, dirs, "libnss_files.so.2"))
       \cup Copied(r, dirs, "libnss_dns.so.2"))
       \cup Copied(r, dirs, "libresolv.so.2"))
    \cup One(r.nss.files, EtcFile("passwd")) \cup One(r.nss.files, EtcFile("group"))

\* Two names and more, each of its own.
LEMMA OwnPaths ==
  /\ \A n \in OwnNames : <<"etc", n>> \in Path \ {<<>>} /\ NamesOnly(<<"etc", n>>) /\ Last(<<"etc", n>>) = n
  /\ LET p == <<"etc", "ssl", "certs", "ca-certificates.crt">>
     IN  p \in Path \ {<<>>} /\ NamesOnly(p) /\ Last(p) = "ca-certificates.crt"
  /\ <<"tini">> \in Path \ {<<>>} /\ NamesOnly(<<"tini">>) /\ Last(<<"tini">>) = "tini"
  /\ OwnNames \subseteq Names \ {Root, Up}
<1>1. OwnNames \subseteq Names \ {Root, Up}
  BY NamesKnown DEF OwnNames, Root, Up
<1>2. ASSUME NEW n \in OwnNames
      PROVE  <<"etc", n>> \in Path \ {<<>>} /\ NamesOnly(<<"etc", n>>) /\ Last(<<"etc", n>>) = n
  <2>1. "etc" \in OwnNames
    BY DEF OwnNames
  <2>2. <<"etc", n>> \in Path \ {<<>>}
    BY <1>1, <2>1 DEF Path
  <2>3. Len(<<"etc", n>>) = 2 /\ <<"etc", n>>[1] = "etc" /\ <<"etc", n>>[2] = n
    OBVIOUS
  <2>4. NamesOnly(<<"etc", n>>)
    BY <1>1, <2>1, <2>2, <2>3, NamesAre
  <2> QED
    BY <2>2, <2>3, <2>4 DEF Last
<1>3. LET p == <<"etc", "ssl", "certs", "ca-certificates.crt">>
      IN  p \in Path \ {<<>>} /\ NamesOnly(p) /\ Last(p) = "ca-certificates.crt"
  <2> DEFINE p == <<"etc", "ssl", "certs", "ca-certificates.crt">>
  <2>1. {"etc", "ssl", "certs", "ca-certificates.crt"} \subseteq Names \ {Root, Up}
    BY <1>1 DEF OwnNames
  <2>2. p \in Path \ {<<>>}
    BY <2>1 DEF Path
  <2>3. Len(p) = 4 /\ p[1] = "etc" /\ p[2] = "ssl" /\ p[3] = "certs" /\ p[4] = "ca-certificates.crt"
    OBVIOUS
  <2>4. \A i \in 1 .. 4 : p[i] \notin {Root, Up}
    BY <2>1, <2>3
  <2> HIDE DEF p
  <2>5. NamesOnly(p)
    BY <2>2, <2>3, <2>4, NamesAre
  <2>6. Last(p) = "ca-certificates.crt"
    BY <2>3 DEF Last
  <2> QED
    BY <2>2, <2>5, <2>6 DEF p
<1>4. <<"tini">> \in Path \ {<<>>} /\ NamesOnly(<<"tini">>) /\ Last(<<"tini">>) = "tini"
  <2>1. "tini" \in Names \ {Root, Up}
    BY <1>1 DEF OwnNames
  <2>2. <<"tini">> \in Path \ {<<>>} /\ Len(<<"tini">>) = 1 /\ <<"tini">>[1] = "tini"
    BY <2>1 DEF Path
  <2>3. NamesOnly(<<"tini">>)
    BY <2>1, <2>2, NamesAre
  <2> QED
    BY <2>2, <2>3 DEF Last
<1> QED
  BY <1>1, <1>2, <1>3, <1>4

\* An entry at a path of names.
PlainEntry(w) == IsEntry(w) /\ NamesOnly(w.at)
PlainList(files, W) == Lists(files, W) /\ \A w \in W : PlainEntry(w)

\* A file the stager generates in /etc, one mirrored from the host, and one if it is asked for.
LEMMA PlainEntries ==
  /\ \A n \in OwnNames : PlainEntry(EtcFile(n))
  /\ \A p \in Path \ {<<>>} : NamesOnly(p) => PlainEntry(Mirrored(p))
<1>1. ASSUME NEW n \in OwnNames PROVE PlainEntry(EtcFile(n))
  <2>1. <<"etc", n>> \in Path \ {<<>>} /\ NamesOnly(<<"etc", n>>)
    BY OwnPaths
  <2> QED
    BY <2>1 DEF PlainEntry, EtcFile, IsEntry, Generated, File, IsNode
<1>2. ASSUME NEW p \in Path \ {<<>>}, NamesOnly(p) PROVE PlainEntry(Mirrored(p))
  BY <1>2 DEF PlainEntry, IsEntry, Mirrored, File, IsNode
<1> QED
  BY <1>1, <1>2

\* One entry, and two lists.
LEMMA PlainLists ==
  /\ \A asked, f : (asked => PlainEntry(f)) => PlainList(When(asked, f), One(asked, f))
  /\ \A a, b, V, W : PlainList(a, V) /\ PlainList(b, W) => PlainList(a \o b, V \cup W)
<1>1. ASSUME NEW asked, NEW f, asked => PlainEntry(f) PROVE PlainList(When(asked, f), One(asked, f))
  <2>1. asked => IsEntry(f)
    BY <1>1 DEF PlainEntry
  <2>2. Lists(When(asked, f), One(asked, f))
    BY <2>1, ListsWhen, Zenon
  <2>3. \A w \in One(asked, f) : asked /\ w = f
    BY DEF One
  <2> QED
    BY <1>1, <2>2, <2>3 DEF PlainList
<1>2. ASSUME NEW a, NEW b, NEW V, NEW W, PlainList(a, V), PlainList(b, W) PROVE PlainList(a \o b, V \cup W)
  <2>1. Lists(a, V) /\ Lists(b, W)
    BY <1>2 DEF PlainList
  <2>2. Lists(a \o b, V \cup W)
    BY <2>1, ListsJoin, Zenon
  <2> QED
    BY <1>2, <2>2 DEF PlainList
<1> QED
  BY <1>1, <1>2, Zenon

\* Where the modules go.
LEMMA BesideIs ==
  ASSUME NEW r, NEW dirs \in SUBSET Path, \A d \in dirs : NamesOnly(d), NEW m \in Found(r, dirs)
  PROVE  /\ Beside(dirs, m) \in Path \ {<<>>} /\ NamesOnly(Beside(dirs, m)) /\ Last(Beside(dirs, m)) = m
         /\ \E d \in dirs : Beside(dirs, m) = Append(d, m)
<1> DEFINE d == CHOOSE x \in dirs : TRUE
<1>1. dirs # {} /\ m \in NssModules(r.nss)
  BY DEF Found
<1>2. d \in dirs
  BY <1>1
<1>3. m \in OwnNames
  BY <1>1 DEF NssModules, OwnNames
<1>4. m \in Names \ {Root, Up}
  BY <1>3, OwnPaths
<1>5. Beside(dirs, m) = Append(d, m)
  BY DEF Beside
<1> HIDE DEF d
<1>6. d \in Path /\ NamesOnly(d)
  BY <1>2
<1>7. Append(d, m) \in Path /\ Append(d, m) # <<>>
  BY <1>4, <1>6, PathEnds
<1>8. NamesOnly(Append(d, m))
  BY <1>4, <1>6, NamesParts
<1>9. Last(Append(d, m)) = m
  BY <1>4, <1>6, EndsOf DEF Path
<1> QED
  BY <1>2, <1>5, <1>7, <1>8, <1>9

\* What `stage_default_includes` writes, as a set.
LEMMA IncludesAre ==
  ASSUME NEW dirs \in SUBSET Path, \A d \in dirs : NamesOnly(d)
  PROVE  PlainList(DefaultIncludes(req.nss, dirs), Includes(req, dirs))
<1> DEFINE copy(m) == When(m \in Found(req, dirs), Mirrored(Beside(dirs, m)))
<1>1. ASSUME NEW m PROVE PlainList(copy(m), Copied(req, dirs, m))
  <2>1. m \in Found(req, dirs) => PlainEntry(Mirrored(Beside(dirs, m)))
    BY BesideIs, PlainEntries
  <2>2. PlainList(When(m \in Found(req, dirs), Mirrored(Beside(dirs, m))),
                  One(m \in Found(req, dirs), Mirrored(Beside(dirs, m))))
    BY <2>1, PlainLists, Zenon
  <2> QED
    BY <2>2 DEF Copied
<1>2. ASSUME NEW asked, NEW n \in OwnNames PROVE PlainList(When(asked, EtcFile(n)), One(asked, EtcFile(n)))
  BY PlainEntries, PlainLists, Zenon
<1>3. {"nsswitch.conf", "passwd", "group"} \subseteq OwnNames
  BY DEF OwnNames
<1> DEFINE a1 == When(req.nss.files \/ req.nss.dns, EtcFile("nsswitch.conf"))
           a2 == copy("libnss_files.so.2")
           a3 == copy("libnss_dns.so.2")
           a4 == copy("libresolv.so.2")
           a5 == When(req.nss.files, EtcFile("passwd"))
           a6 == When(req.nss.files, EtcFile("group"))
           b1 == One(req.nss.files \/ req.nss.dns, EtcFile("nsswitch.conf"))
           b2 == Copied(req, dirs, "libnss_files.so.2")
           b3 == Copied(req, dirs, "libnss_dns.so.2")
           b4 == Copied(req, dirs, "libresolv.so.2")
           b5 == One(req.nss.files, EtcFile("passwd"))
           b6 == One(req.nss.files, EtcFile("group"))
<1>4. PlainList(a1, b1) /\ PlainList(a5, b5) /\ PlainList(a6, b6)
  BY <1>2, <1>3
<1>5. PlainList(a2, b2) /\ PlainList(a3, b3) /\ PlainList(a4, b4)
  <2> HIDE DEF copy
  <2> QED
    BY <1>1
<1>6. DefaultIncludes(req.nss, dirs) = a1 \o a2 \o a3 \o a4 \o a5 \o a6
  BY Zenon DEF DefaultIncludes, Found, Beside, EtcFile
<1>7. Includes(req, dirs) = (((b1 \cup b2) \cup b3) \cup b4) \cup b5 \cup b6
  BY DEF Includes
<1> HIDE DEF a1, a2, a3, a4, a5, a6, b1, b2, b3, b4, b5, b6
<1>8. PlainList(a1 \o a2, b1 \cup b2)
  BY <1>4, <1>5, PlainLists, Zenon
<1>9. PlainList(a1 \o a2 \o a3, (b1 \cup b2) \cup b3)
  BY <1>5, <1>8, PlainLists, Zenon
<1>10. PlainList(a1 \o a2 \o a3 \o a4, ((b1 \cup b2) \cup b3) \cup b4)
  BY <1>5, <1>9, PlainLists, Zenon
<1>11. PlainList(a1 \o a2 \o a3 \o a4 \o a5, (((b1 \cup b2) \cup b3) \cup b4) \cup b5)
  BY <1>4, <1>10, PlainLists, Zenon
<1>12. PlainList(a1 \o a2 \o a3 \o a4 \o a5 \o a6, (((b1 \cup b2) \cup b3) \cup b4) \cup b5 \cup b6)
  BY <1>4, <1>11, PlainLists, Zenon
<1> QED
  BY <1>6, <1>7, <1>12

\* What `stage_runtime_extras` writes, as a set.
HostFile(r, what, at) == [at |-> at, node |-> File(<<"host", what>>), there |-> what \in r.hostExtras]
ExtraFiles(r) ==
  (One("ca_certs" \in r.extras, HostFile(r, "ca_certs", <<"etc", "ssl", "certs", "ca-certificates.crt">>))
     \cup One("tz" \in r.extras, HostFile(r, "tz", <<"etc", "localtime">>)))
    \cup One("init" \in r.extras, HostFile(r, "init", <<"tini">>))

\* None of it has the name of a module.
LEMMA ExtrasAre ==
  /\ PlainList(Extras, ExtraFiles(req))
  /\ \A w \in ExtraFiles(req) : Last(w.at) \in {"ca-certificates.crt", "localtime", "tini"}
<1> DEFINE p1 == <<"etc", "ssl", "certs", "ca-certificates.crt">>
           p2 == <<"etc", "localtime">>
           p3 == <<"tini">>
<1>1. /\ \A p \in {p1, p2, p3} : p \in Path \ {<<>>} /\ NamesOnly(p)
      /\ Last(p1) = "ca-certificates.crt" /\ Last(p2) = "localtime" /\ Last(p3) = "tini"
  <2>1. "localtime" \in OwnNames
    BY DEF OwnNames
  <2> QED
    BY <2>1, OwnPaths
<1> DEFINE ask(what, at) == One(what \in req.extras, HostFile(req, what, at))
<1>2. Extras = Extra("ca_certs", p1) \o Extra("tz", p2) \o Extra("init", p3)
  BY Zenon DEF Extras
<1>3. ExtraFiles(req) = (ask("ca_certs", p1) \cup ask("tz", p2)) \cup ask("init", p3)
  BY DEF ExtraFiles
<1>4. ASSUME NEW what, NEW at \in {p1, p2, p3} PROVE PlainList(Extra(what, at), ask(what, at))
  <2>1. at \in Path \ {<<>>} /\ NamesOnly(at)
    BY <1>1
  <2>2. PlainEntry(HostFile(req, what, at))
    BY <2>1 DEF PlainEntry, IsEntry, HostFile, File, IsNode
  <2>3. PlainList(When(what \in req.extras, HostFile(req, what, at)), One(what \in req.extras, HostFile(req, what, at)))
    BY <2>2, PlainLists, Zenon
  <2> QED
    BY <2>3 DEF Extra, HostFile
<1>5. ASSUME NEW what, NEW at, NEW w \in ask(what, at) PROVE w.at = at
  BY <1>5 DEF One, HostFile
<1> HIDE DEF p1, p2, p3, ask
<1>6. PlainList(Extra("ca_certs", p1), ask("ca_certs", p1)) /\ PlainList(Extra("tz", p2), ask("tz", p2))
      /\ PlainList(Extra("init", p3), ask("init", p3))
  BY <1>4
<1>7. PlainList(Extra("ca_certs", p1) \o Extra("tz", p2), ask("ca_certs", p1) \cup ask("tz", p2))
  BY <1>6, PlainLists, Zenon
<1>8. PlainList(Extra("ca_certs", p1) \o Extra("tz", p2) \o Extra("init", p3),
                (ask("ca_certs", p1) \cup ask("tz", p2)) \cup ask("init", p3))
  BY <1>6, <1>7, PlainLists, Zenon
<1>9. ASSUME NEW w \in ExtraFiles(req) PROVE Last(w.at) \in {"ca-certificates.crt", "localtime", "tini"}
  <2>1. w.at \in {p1, p2, p3}
    BY <1>3, <1>5
  <2> QED
    BY <1>1, <2>1
<1> QED
  BY <1>2, <1>3, <1>8, <1>9

\* A sequence cut in two.
CutAt(S, p, n) ==
  LET a == SubSeq(p, 1, n)
      b == SubSeq(p, n + 1, Len(p))
  IN  a \in Seq(S) /\ b \in Seq(S) /\ p = a \o b /\ Len(a) = n /\ Len(b) = Len(p) - n

\* Wherever it is cut.
LEMMA Cuts ==
  ASSUME NEW S, NEW p \in Seq(S), NEW n \in 0 .. Len(p)
  PROVE  CutAt(S, p, n)
<1> DEFINE L == Len(p)
           a == SubSeq(p, 1, n)
           b == SubSeq(p, n + 1, L)
<1>1. L \in Nat /\ n \in Nat /\ n <= L
  OBVIOUS
<1>2. a \in Seq(S) /\ Len(a) = n /\ \A i \in 1 .. n : a[i] = p[i]
  OBVIOUS
<1>3. b \in Seq(S) /\ Len(b) = L - n /\ \A i \in 1 .. L - n : b[i] = p[n + i]
  OBVIOUS
<1> HIDE DEF a, b
<1>4. /\ a \o b \in Seq(S) /\ Len(a \o b) = Len(a) + Len(b)
      /\ \A i \in 1 .. Len(a) + Len(b) : (a \o b)[i] = IF i <= Len(a) THEN a[i] ELSE b[i - Len(a)]
  BY <1>2, <1>3
<1>5. Len(a) + Len(b) = L
  BY <1>1, <1>2, <1>3
<1>6. ASSUME NEW i \in 1 .. L PROVE (a \o b)[i] = p[i]
  <2>1. CASE i <= n
    BY <1>1, <1>2, <1>4, <1>5, <2>1
  <2>2. CASE ~(i <= n)
    <3>1. i - n \in 1 .. L - n /\ n + (i - n) = i
      BY <1>1, <1>6, <2>2
    <3>2. b[i - n] = p[i]
      BY <1>3, <3>1
    <3>3. (a \o b)[i] = b[i - n]
      BY <1>2, <1>4, <1>5, <2>2
    <3> QED
      BY <3>2, <3>3
  <2> QED
    BY <2>1, <2>2
<1>7. a \o b = p
  <2>1. a \o b \in Seq(S) /\ p \in Seq(S) /\ Len(a \o b) = Len(p)
    BY <1>4, <1>5
  <2>2. \A i \in 1 .. Len(p) : (a \o b)[i] = p[i]
    BY <1>6
  <2> HIDE DEF L
  <2> QED
    BY <2>1, <2>2, SeqEqual
<1> QED
  BY <1>2, <1>3, <1>7 DEF CutAt, a, b

\* What `relative_link_value` gives: up to what two paths share, and down.
UpAndDown(from, to, v) ==
  \E a, u, b \in Path :
    /\ a \o u = from /\ a \o b = to /\ NamesOnly(b) /\ v = Ups(Len(u)) \o b
    /\ Len(u) + Len(b) <= Len(from) + Len(to)

\* It does.
LEMMA RelativeSplits ==
  ASSUME NEW from \in Path, NEW to \in Path, NamesOnly(to)
  PROVE  UpAndDown(from, to, RelativeValue(from, to))
<1> DEFINE n == Len(LongestCommonPrefix({from, to}))
           a == SubSeq(from, 1, n)
           u == SubSeq(from, n + 1, Len(from))
           b == SubSeq(to, n + 1, Len(to))
<1>1. n \in Nat /\ n <= Len(from) /\ n <= Len(to) /\ SubSeq(from, 1, n) = SubSeq(to, 1, n)
  BY CommonPrefixFits, Zenon DEF Path
<1>2. RelativeValue(from, to) = [i \in 1 .. Len(from) - n |-> Up] \o b
  BY DEF RelativeValue
<1> HIDE DEF n
<1>3. Len(from) \in Nat /\ Len(to) \in Nat
  BY DEF Path
<1>4. n \in 0 .. Len(from) /\ n \in 0 .. Len(to)
  BY <1>1, <1>3
<1>5. CutAt(Names, from, n) /\ CutAt(Names, to, n)
  BY <1>4, Cuts, Zenon DEF Path
<1>6. /\ a \in Path /\ u \in Path /\ b \in Path /\ from = a \o u /\ to = a \o b
      /\ Len(u) = Len(from) - n /\ Len(b) = Len(to) - n
  BY <1>1, <1>5 DEF CutAt, Path
<1>7. RelativeValue(from, to) = Ups(Len(u)) \o b
  BY <1>2, <1>6 DEF Ups
<1> HIDE DEF a, u, b
<1>8. NamesOnly(b)
  BY <1>6, NamesParts
<1>9. Len(u) + Len(b) <= Len(from) + Len(to)
  BY <1>1, <1>3, <1>6
<1> QED
  BY <1>6, <1>7, <1>8, <1>9 DEF UpAndDown

\* A tree without links, and a walk of it that spells its path.
Linkless(t) == \A p \in DOMAIN t : t[p].is # "link"
Spells(w, t, path) ==
  \E a, b \in Path : a \o b = path /\ NamesOnly(b) /\ w \in {Here(a, b, 0, t), ByName(a, b, 0, t)}

\* So it does, step by step.
LEMMA SpellStep ==
  ASSUME NEW t, Good(t), Linkless(t), NEW path, NEW w, Spells(w, t, path), w.todo # <<>>,
         NEW v, v = NextWalk(w, "look"), v.ok
  PROVE  Spells(v, t, path)
<1>1. PICK a, b \in Path : a \o b = path /\ NamesOnly(b) /\ w \in {Here(a, b, 0, t), ByName(a, b, 0, t)}
  BY DEF Spells
<1> DEFINE s == Head(b)
           rest == Tail(b)
           next == Append(a, s)
<1>2. b # <<>>
  BY <1>1 DEF Here, ByName
<1>3. JoinFacts(a, b)
  BY JoinIs, Zenon
<1>4. next \in Path /\ rest \in Path /\ next \o rest = path
  BY <1>1, <1>2, <1>3 DEF JoinFacts
<1>5. s \in Names \ {Root, Up} /\ NamesOnly(rest)
  BY <1>1, <1>2, NamesParts
<1>6. v \in {Here(next, rest, 0, t), ByName(next, rest, 0, t)}
  <2>1. CASE w = Here(a, b, 0, t)
    <3>1. GoesOn(a, s, rest, 0, t, "look", v)
      BY <1>2, <2>1, StepHere, Zenon
    <3> HIDE DEF s, rest
    <3>2. next \in DOMAIN t => t[next].is \in {"dir", "file"}
      BY NodeAt DEF Linkless
    <3> QED
      BY <1>5, <3>1, <3>2 DEF GoesOn
  <2>2. CASE w = ByName(a, b, 0, t)
    <3>1. s \notin {Root, Up}
      BY <1>5
    <3>2. v = ByName(next, rest, 0, t)
      BY <1>2, <2>2, <3>1, StepByName
    <3> QED
      BY <3>2
  <2> QED
    BY <1>1, <2>1, <2>2
<1> HIDE DEF s, rest, next
<1> QED
  BY <1>4, <1>5, <1>6 DEF Spells

\* To its end.
LEMMA SpelledOut ==
  ASSUME NEW t, Good(t), Linkless(t), NEW path \in Path, NamesOnly(path),
         NEW l, l = Walked(t, path, "look"), l.ok
  PROVE  l.at = path
<1> DEFINE N == StepsOf(path)
<1>1. N \in Nat /\ N = StepsOf(path)
  BY StepsAre
<1> HIDE DEF N
<1>2. PICK g : IsWalk(g, N, t, path, "look") /\ g[N].ok /\ g[N].todo = <<>> /\ l = g[N]
  BY <1>1, WalkedOk
<1>3. \A n \in 0 .. N : g[n].ok
  BY <1>1, <1>2, WalkBack
<1> DEFINE S == {n \in 0 .. N : Spells(g[n], t, path)}
<1>4. JoinFacts(path, <<>>)
  BY EmptyPath, JoinIs, Zenon
<1>5. 0 \in S
  <2>1. g[0] = Here(<<>>, path, 0, t)
    BY <1>2 DEF IsWalk, Start, Here
  <2>2. <<>> \o path = path
    BY <1>4 DEF JoinFacts
  <2>3. Here(<<>>, path, 0, t) \in {Here(<<>>, path, 0, t), ByName(<<>>, path, 0, t)}
    OBVIOUS
  <2>4. Spells(g[0], t, path)
    BY <2>1, <2>2, <2>3, EmptyPath, Zenon DEF Spells
  <2> QED
    BY <1>1, <2>4
<1>6. ASSUME NEW n \in 1 .. N, n - 1 \in S PROVE n \in S
  <2>1. n - 1 \in 0 .. N /\ g[n] = NextWalk(g[n - 1], "look") /\ Spells(g[n - 1], t, path) /\ g[n].ok
    BY <1>2, <1>3, <1>6 DEF IsWalk
  <2>2. CASE g[n - 1].todo = <<>>
    BY <2>1, <2>2 DEF NextWalk
  <2>3. CASE g[n - 1].todo # <<>>
    <3>1. Spells(g[n], t, path)
      BY <2>1, <2>3, SpellStep, Zenon
    <3> QED
      BY <3>1
  <2> QED
    BY <2>2, <2>3
<1>7. Spells(l, t, path)
  <2>1. \A n \in 0 .. N : n \in S
    <3> HIDE DEF S
    <3> QED
      BY <1>1, <1>5, <1>6, UpTo
  <2> QED
    BY <1>1, <1>2, <2>1
<1>8. PICK a, b \in Path : a \o b = path /\ l \in {Here(a, b, 0, t), ByName(a, b, 0, t)}
  BY <1>7 DEF Spells
<1>9. b = <<>> /\ l.at = a
  BY <1>2, <1>8 DEF Here, ByName
<1>10. JoinFacts(a, <<>>)
  BY EmptyPath, JoinIs, Zenon
<1> QED
  BY <1>8, <1>9, <1>10 DEF JoinFacts

\* Files are laid at their places, and everything else stays.
Lays(t, v, W) ==
  /\ \A p \in DOMAIN t : p \in DOMAIN v /\ (v[p] = t[p] \/ (t[p].is # "dir" /\ WrittenAs(v, p, W)))
  /\ \A w \in W : w.node.is = "file" /\ w.at \in DOMAIN v /\ WrittenAs(v, w.at, W)

\* By a write, by what is only added, and by one step after another.
LEMMA LaysMore ==
  /\ \A t, v, W : Puts(t, v, W) => Lays(t, v, W)
  /\ \A t, v : Extends(t, v) => Lays(t, v, {})
  /\ \A t, v, W : Lays(t, v, W) => Holds(t, v)
<1>1. ASSUME NEW t, NEW v, NEW W, Puts(t, v, W) PROVE Lays(t, v, W)
  BY <1>1 DEF Puts, Lays
<1>2. ASSUME NEW t, NEW v, Extends(t, v) PROVE Lays(t, v, {})
  BY <1>2 DEF Extends, Lays
<1>3. ASSUME NEW t, NEW v, NEW W, Lays(t, v, W) PROVE Holds(t, v)
  <2> SUFFICES ASSUME NEW p \in DOMAIN t
               PROVE  /\ p \in DOMAIN v
                      /\ t[p].is = "dir" => v[p].is = "dir"
                      /\ t[p].is = "file" => v[p].is = "file"
                      /\ t[p].is = "link" => v[p] = t[p] \/ v[p].is = "file"
    BY Zenon DEF Holds
  <2>1. p \in DOMAIN v /\ (v[p] = t[p] \/ (t[p].is # "dir" /\ WrittenAs(v, p, W)))
    BY <1>3 DEF Lays
  <2>2. WrittenAs(v, p, W) => v[p].is = "file"
    BY <1>3 DEF WrittenAs, Lays
  <2> QED
    BY <2>1, <2>2
<1> QED
  BY <1>1, <1>2, <1>3, Zenon

\* One after another.
LEMMA LaysBoth ==
  ASSUME NEW t, NEW u, NEW v, NEW V, NEW W, Lays(t, u, V), Lays(u, v, W)
  PROVE  Lays(t, v, V \cup W)
<1>1. ASSUME NEW p \in DOMAIN u
      PROVE  p \in DOMAIN v /\ (v[p] = u[p] \/ (u[p].is # "dir" /\ WrittenAs(v, p, W)))
  BY <1>1 DEF Lays
<1>2. ASSUME NEW p, WrittenAs(v, p, W) PROVE WrittenAs(v, p, V \cup W)
  BY <1>2 DEF WrittenAs
<1>3. ASSUME NEW p \in DOMAIN u, WrittenAs(u, p, V) PROVE WrittenAs(v, p, V \cup W)
  <2>1. CASE v[p] = u[p]
    BY <1>3, <2>1 DEF WrittenAs
  <2>2. CASE WrittenAs(v, p, W)
    BY <1>2, <2>2
  <2> QED
    BY <1>1, <2>1, <2>2
<1>4. ASSUME NEW p \in DOMAIN t
      PROVE  p \in DOMAIN v /\ (v[p] = t[p] \/ (t[p].is # "dir" /\ WrittenAs(v, p, V \cup W)))
  <2>1. p \in DOMAIN u /\ (u[p] = t[p] \/ (t[p].is # "dir" /\ WrittenAs(u, p, V)))
    BY <1>4 DEF Lays
  <2>2. p \in DOMAIN v
    BY <1>1, <2>1
  <2>3. CASE u[p] = t[p]
    BY <1>1, <1>2, <2>1, <2>3
  <2>4. CASE t[p].is # "dir" /\ WrittenAs(u, p, V)
    BY <1>3, <2>1, <2>2, <2>4
  <2> QED
    BY <2>1, <2>2, <2>3, <2>4
<1>5. ASSUME NEW w \in V \cup W
      PROVE  w.node.is = "file" /\ w.at \in DOMAIN v /\ WrittenAs(v, w.at, V \cup W)
  <2>1. CASE w \in W
    BY <1>2, <2>1 DEF Lays
  <2>2. CASE w \in V
    <3>1. w.node.is = "file" /\ w.at \in DOMAIN u /\ WrittenAs(u, w.at, V)
      BY <2>2 DEF Lays
    <3> QED
      BY <1>1, <1>3, <3>1
  <2> QED
    BY <1>5, <2>1, <2>2
<1> QED
  BY <1>4, <1>5 DEF Lays

\* What a step before the added files does to a tree.
Stages(t, v, W) == Good(v) /\ Flat(v) /\ Lays(t, v, W)

\* A file at a path of names.
LEMMA WriteStages ==
  ASSUME NEW t, Good(t), Flat(t), NEW w, PlainEntry(w), NEW res, res = Replaced(t, w.at, w.node), res.ok
  PROVE  Stages(t, res.tree, {w})
<1>1. Puts(t, res.tree, {w}) /\ Good(res.tree)
  BY PlainWrite DEF PlainEntry
<1>2. Flat(res.tree)
  BY <1>1, PutsFlat
<1> QED
  BY <1>1, <1>2, LaysMore DEF Stages

\* Several of them.
LEMMA ListStages ==
  ASSUME NEW t, Good(t), Flat(t), NEW files, NEW W, PlainList(files, W),
         NEW res, res = ReplacedAll(t, files), res.ok
  PROVE  Stages(t, res.tree, W)
<1>1. Lists(files, W) /\ \A w \in W : NamesOnly(w.at)
  BY DEF PlainList, PlainEntry
<1>2. Puts(t, res.tree, W)
  BY <1>1, ListWrite
<1>3. Flat(res.tree)
  BY <1>2, PutsFlat
<1>4. Good(res.tree)
  BY <1>1, AllGood DEF Lists
<1> QED
  BY <1>2, <1>3, <1>4, LaysMore DEF Stages

\* A link to a file, where nothing was.
LEMMA LinkFlat ==
  ASSUME NEW t, Flat(t), NEW p, p \notin DOMAIN t, NEW value, NEW v, v = With(t, p, LinkTo(value)),
         LeadsToFile(v, p)
  PROVE  Flat(v) /\ Extends(t, v) /\ Leading(v, p)
<1>1. p \in DOMAIN v /\ Extends(t, v)
  BY DEF With, Extends
<1>2. ASSUME NEW q \in DOMAIN v, v[q].is = "link" PROVE LeadsToFile(v, q)
  <2>1. CASE q = p
    BY <2>1
  <2>2. CASE q # p
    <3>1. q \in DOMAIN t /\ v[q] = t[q]
      BY <2>2 DEF With
    <3>2. LeadsToFile(t, q)
      BY <1>2, <3>1 DEF Flat
    <3>3. \A f \in DOMAIN t : t[f].is = "file" => f \in DOMAIN v /\ v[f].is = "file"
      BY <1>1 DEF Extends
    <3> QED
      BY <3>1, <3>2, <3>3, LeadsStay
  <2> QED
    BY <2>1, <2>2
<1> QED
  BY <1>1, <1>2 DEF Flat, Leading

\* `..`, so many times, and a way down that keeps to the tree's directories: a file is there.
LEMMA NamedLeads ==
  ASSUME NEW t, Good(t), NEW q \in Path, q \in DOMAIN t, t[q].is = "dir",
         NEW real \in Path, NamesOnly(real), IsFile(t, real),
         NEW p, Parent(p) = q, NEW v, Extends(t, v), v[p].to = RelativeValue(q, real),
         Len(q) + Len(real) <= MaxSteps
  PROVE  LeadsToFile(v, p)
<1>1. UpAndDown(q, real, RelativeValue(q, real))
  BY RelativeSplits, Zenon
<1>2. PICK a, u, b \in Path :
        /\ a \o u = q /\ a \o b = real /\ NamesOnly(b) /\ v[p].to = Ups(Len(u)) \o b
        /\ Len(u) + Len(b) <= Len(q) + Len(real)
  BY <1>1 DEF UpAndDown
<1>3. JoinFacts(a, u) /\ JoinFacts(a, b) /\ JoinFacts(q, real)
  BY <1>2, JoinIs, Zenon
<1>4. b # <<>>
  <2> SUFFICES ASSUME b = <<>> PROVE FALSE
    OBVIOUS
  <2>1. a = real
    <3>1. JoinFacts(a, <<>>)
      BY EmptyPath, JoinIs, Zenon
    <3> QED
      BY <1>2, <3>1 DEF JoinFacts
  <2>2. CASE u = <<>>
    <3>1. a = q
      BY <1>2, <1>3, <2>1, <2>2
    <3> QED
      BY <2>1, <3>1 DEF IsFile
  <2>3. CASE u # <<>>
    <3>1. t[a].is = "dir"
      <4>1. a \o u \in DOMAIN t
        BY <1>2
      <4>2. a \in DOMAIN t /\ t[a].is = "dir"
        BY <2>3, <4>1, PrefixIsDir, Zenon
      <4> QED
        BY <4>2
    <3> QED
      BY <2>1, <3>1 DEF IsFile
  <2> QED
    BY <2>2, <2>3
<1>5. real \in DOMAIN v /\ v[real].is = "file"
  BY DEF Extends, IsFile
<1>6. Len(u) + Len(b) <= MaxSteps
  <2>1. Len(u) \in Nat /\ Len(b) \in Nat /\ Len(q) \in Nat /\ Len(real) \in Nat /\ MaxSteps \in Nat
    BY <1>3, NamesKnown DEF JoinFacts
  <2> QED
    BY <1>2, <2>1
<1>7. /\ Parent(p) = a \o u /\ b # <<>> /\ NamesOnly(b) /\ v[p].to = Ups(Len(u)) \o b
      /\ a \o b \in DOMAIN v /\ v[a \o b].is = "file" /\ Len(u) + Len(b) <= MaxSteps
  BY <1>2, <1>4, <1>5, <1>6
<1> QED
  BY <1>7, Zenon DEF LeadsToFile

\* The link that the user's name of the program becomes.
LEMMA NamedStages ==
  ASSUME NEW t, Good(t), Flat(t), NEW named \in Path \ {<<>>}, NamesOnly(named),
         NEW real \in Path, NamesOnly(real), IsFile(t, real), Len(named) + Len(real) <= MaxSteps,
         NEW res, res = Linked(t, named, RelativeValue(Parent(named), real)), res.ok
  PROVE  Stages(t, res.tree, {}) /\ Leading(res.tree, named)
<1> DEFINE q == Parent(named)
           value == RelativeValue(q, real)
           l == Walked(t, q, "make")
           v == res.tree
<1>1. q \in Path /\ value \in Path
  BY PathEnds, RelativeIs
<1>2. JoinFacts(<<>>, named) /\ JoinFacts(q, real)
  BY <1>1, EmptyPath, JoinIs, Zenon
<1>3. named = Append(q, Last(named)) /\ Last(named) \in Names /\ Len(q) = Len(named) - 1 /\ Len(named) \in Nat
  BY <1>2 DEF JoinFacts
<1>4. NamesOnly(q)
  BY NamesParts
<1> HIDE DEF q, value
<1>5. /\ Writes(res, t, l, Target(l, named), LinkTo(value)) /\ Target(l, named) \notin DOMAIN l.tree
  BY LinkedIs DEF q, value
<1>6. l.ok /\ Good(l.tree) /\ MadeDirs(t, l.tree) /\ v = With(l.tree, Target(l, named), LinkTo(value))
  BY <1>5 DEF Writes
<1> HIDE DEF l
<1>7. LandsFlat(l, q)
  BY <1>1, <1>6, FlatWalk, Zenon DEF l
<1>8. l.at = q /\ Flat(l.tree)
  BY <1>4, <1>7 DEF LandsFlat
<1>9. Target(l, named) = named
  BY <1>3, <1>8 DEF Target
<1>10. q \in DOMAIN l.tree /\ l.tree[q].is = "dir"
  <2>1. PlaceOf(StagedPath(t, named, "make"), l, named, "make")
    BY StagedPathIs DEF l, q
  <2> QED
    BY <1>6, <1>8, <2>1 DEF PlaceOf
<1> HIDE DEF v
<1>11. Extends(t, l.tree) /\ Extends(l.tree, v)
  BY <1>5, <1>6, <1>9, ExtendsOnly
<1>12. IsFile(l.tree, real)
  BY <1>11 DEF Extends, IsFile
<1>13. v[named].to = value
  BY <1>6, <1>9 DEF With, LinkTo
<1>14. LeadsToFile(v, named)
  <2>1. Len(q) + Len(real) <= MaxSteps
    BY <1>2, <1>3, NamesKnown DEF JoinFacts
  <2> QED
    BY <1>1, <1>6, <1>10, <1>11, <1>12, <1>13, <2>1, NamedLeads DEF q, value
<1>15. Flat(v) /\ Leading(v, named)
  BY <1>5, <1>6, <1>8, <1>9, <1>14, LinkFlat
<1>16. Good(v)
  BY <1>1, LinkedGood DEF v, q, value
<1>17. Lays(t, v, {})
  BY <1>11, ExtendsOnly, LaysMore
<1> QED
  BY <1>15, <1>16, <1>17 DEF Stages, v

\* What is written, and where.
Entry(at, node) == [at |-> at, node |-> node]

\* The loader, where its path leads inside the image.
LEMMA LoaderStages ==
  ASSUME NEW t, Good(t), Flat(t), NEW path \in Path \ {<<>>}, NEW w, w = InterpTarget(t, path), w.ok,
         NEW ld, NEW res, res = Replaced(w.tree, w.at, File(ld)), res.ok
  PROVE  Landing(path, res.tree) /\ Stages(t, res.tree, {Entry(Place(path, res.tree), File(ld))})
<1> DEFINE l == Walked(t, Parent(path), "make")
           s == Last(path)
           v == res.tree
<1>1. Parent(path) \in Path /\ s \in Names
  BY PathEnds
<1>2. /\ DOMAIN l = {"at", "todo", "links", "missing", "ok", "tree"} /\ l.at \in Path /\ Good(l.tree)
      /\ l.missing => "make" = "look"
      /\ l.ok /\ ~l.missing => l.at \in DOMAIN l.tree /\ l.tree[l.at].is = "dir"
  BY <1>1, WalkedInv, Zenon
<1>3. w = [l EXCEPT !.at = Append(l.at, s), !.ok = l.ok /\ s \notin {Root, Up}]
  BY DEF InterpTarget
<1>4. MadeDirs(t, l.tree)
  BY <1>1, WalkedMakes, Zenon
<1> HIDE DEF l, s
<1>5. w.tree = l.tree /\ w.at = Append(l.at, s) /\ l.ok /\ s \notin {Root, Up}
  BY <1>2, <1>3
<1>6. LandsFlat(l, Parent(path))
  BY <1>1, <1>5, FlatWalk, Zenon DEF l
<1>7. l.links = 0 /\ NamesOnly(l.at) /\ Flat(l.tree)
  BY <1>6 DEF LandsFlat
<1>8. Append(l.at, s) \in Path \ {<<>>} /\ NamesOnly(Append(l.at, s))
  <2>1. s \in Names \ {Root, Up}
    BY <1>1, <1>5
  <2> QED
    BY <1>2, <1>7, <2>1, PathEnds, NamesParts
<1> DEFINE e == Entry(Append(l.at, s), File(ld))
<1>9. PlainEntry(e) /\ e.at = w.at /\ e.node = File(ld)
  BY <1>5, <1>8 DEF PlainEntry, IsEntry, IsNode, File, Entry
<1> HIDE DEF e
<1>10. Stages(l.tree, v, {e})
  BY <1>2, <1>5, <1>7, <1>9, WriteStages
<1> HIDE DEF v
<1>11. Lays(t, l.tree, {})
  BY <1>4, ExtendsOnly, LaysMore
<1>12. Lays(t, v, {} \cup {e})
  BY <1>10, <1>11, LaysBoth DEF Stages
<1>13. Holds(l.tree, v)
  BY <1>10, LaysMore DEF Stages
<1>14. Serves(l.tree, l.links, v)
  BY <1>7, <1>13 DEF Serves, Holds
<1>15. Leads(v, Parent(path), "make", l)
  BY <1>1, <1>5, <1>14, FollowsTo, Zenon DEF l
<1> DEFINE x == Walked(v, Parent(path), "make")
<1>16. x.ok /\ x.tree = v /\ x.links = 0 /\ x.at = l.at
  BY <1>7, <1>15 DEF Leads, Here
<1> HIDE DEF x
<1>17. Target(x, path) = Append(l.at, s)
  BY <1>16 DEF Target, s
<1>18. IsFile(v, Append(l.at, s))
  <2>1. e.node.is = "file" /\ e.at \in DOMAIN v /\ WrittenAs(v, e.at, {e})
    BY <1>10 DEF Stages, Lays
  <2>2. e.at = Append(l.at, s)
    BY <1>5, <1>9
  <2>3. v[e.at] = e.node
    BY <2>1 DEF WrittenAs
  <2> QED
    BY <2>1, <2>2, <2>3 DEF IsFile
<1>19. Landing(path, v)
  BY <1>5, <1>16, <1>17, <1>18 DEF Landing, x, s
<1>20. e = Entry(Place(path, v), File(ld))
  BY <1>17 DEF Place, x, e
<1>21. Stages(t, v, {e})
  BY <1>10, <1>12 DEF Stages
<1> QED
  BY <1>19, <1>20, <1>21 DEF v

\* One more name.
LEMMA OneMore ==
  ASSUME NEW S, NEW a \in Seq(S), NEW s \in S
  PROVE  a \o <<s>> = Append(a, s) /\ Len(<<s>>) = 1 /\ <<s>> \in Seq(S)
OBVIOUS

\* A path of one name.
LEMMA OneName ==
  ASSUME NEW S, NEW a \in Seq(S), Len(a) = 1
  PROVE  a = <<a[1]>> /\ a[1] \in S
<1> DEFINE s == a[1]
           b == <<s>>
<1>1. s \in S
  OBVIOUS
<1> HIDE DEF s
<1>2. b \in Seq(S) /\ Len(b) = 1 /\ b[1] = s
  BY <1>1
<1> HIDE DEF b
<1>3. \A i \in 1 .. Len(a) : a[i] = b[i]
  BY <1>2 DEF s
<1>4. a = b
  BY <1>2, <1>3, SeqEqual
<1> QED
  BY <1>1, <1>4 DEF s, b

\* The name that a soname of one name makes beside the library, if any.
LEMMA SonameBeside ==
  ASSUME NEW d \in Path, NEW soname \in Path, Len(soname) = 1, NEW raw, raw = Joined(d, soname)
  PROVE  \/ Last(raw) \in {Root, Up}
         \/ \E s \in Names \ {Root, Up} : soname = <<s>> /\ raw = Append(d, s) /\ d \o soname = Append(d, s)
                                         /\ Parent(raw) = d /\ Last(raw) = s /\ raw # <<>>
<1> DEFINE s == soname[1]
<1>1. soname = <<s>> /\ s \in Names
  BY OneName DEF Path
<1>2. Head(soname) = s /\ soname # <<>>
  BY <1>1
<1> HIDE DEF s
<1>3. CASE s = Root
  <2>1. raw = <<s>>
    BY <1>1, <1>2, <1>3 DEF Joined
  <2>2. Last(raw) = s
    BY <2>1 DEF Last
  <2> QED
    BY <1>3, <2>2
<1>4. CASE s # Root
  <2>1. raw = d \o <<s>>
    BY <1>1, <1>2, <1>4 DEF Joined
  <2>2. d \o <<s>> = Append(d, s)
    BY <1>1, OneMore DEF Path
  <2>3. Last(Append(d, s)) = s
    BY <1>1, EndsOf DEF Path
  <2>4. Parent(Append(d, s)) = d /\ Append(d, s) # <<>>
    BY <1>1, PathEnds
  <2>5. CASE s = Up
    BY <2>1, <2>2, <2>3, <2>5
  <2>6. CASE s # Up
    <3>1. s \in Names \ {Root, Up}
      BY <1>1, <1>4, <2>6
    <3>2. soname = <<s>> /\ raw = Append(d, s) /\ d \o soname = Append(d, s)
          /\ Parent(raw) = d /\ Last(raw) = s /\ raw # <<>>
      BY <1>1, <2>1, <2>2, <2>3, <2>4
    <3> QED
      BY <3>1, <3>2
  <2> QED
    BY <2>5, <2>6
<1> QED
  BY <1>3, <1>4

\* A library is at its path, and its soname leads somewhere.
LibraryThere(v, lib) ==
  IsFile(v, lib.path) /\ NamesOnly(lib.soname) /\ Leading(v, Parent(lib.path) \o lib.soname)

\* So it is once it was staged.
LEMMA LibraryStages ==
  ASSUME NEW t, Good(t), Flat(t), NEW lib \in [path : Path \ {<<>>}, soname : Path], NamesOnly(lib.path),
         Len(lib.soname) = 1, 1 <= MaxSteps, NEW res, res = LibraryStaged(t, lib), res.ok
  PROVE  Stages(t, res.tree, {Mirrored(lib.path)}) /\ LibraryThere(res.tree, lib)
<1> DEFINE path == lib.path
           d == Parent(path)
           e == Mirrored(path)
           copied == Replaced(t, path, File(path))
           raw == Joined(d, lib.soname)
           w == Walked(copied.tree, Parent(raw), "look")
           at == Append(w.at, Last(raw))
           v == res.tree
<1>1. path \in Path \ {<<>>} /\ lib.soname \in Path
  OBVIOUS
<1>2. PlainEntry(e) /\ e.at = path /\ e.node = File(path)
  BY <1>1, PlainEntries DEF Mirrored
<1>3. res = IF copied.ok /\ <<Last(path)>> # lib.soname THEN SonameLinked(copied.tree, lib) ELSE copied
  BY DEF LibraryStaged
<1>4. copied.ok
  BY <1>3
<1>5. SonameLinked(copied.tree, lib)
        = IF ~w.ok \/ raw = <<>> \/ Last(raw) \in {Root, Up} THEN Failed(copied.tree)
          ELSE IF at \in DOMAIN copied.tree THEN Made(copied.tree)
          ELSE IF w.missing THEN Failed(copied.tree)
          ELSE Made(With(copied.tree, at, LinkTo(<<Last(path)>>)))
  BY DEF SonameLinked
<1>6. Good(v)
  BY LibraryGood DEF v
<1> DEFINE u == copied.tree
<1>7. Stages(t, u, {e})
  BY <1>2, <1>4, WriteStages
<1>8. raw = Joined(d, lib.soname)
  OBVIOUS
<1>9. u = copied.tree /\ w = Walked(u, Parent(raw), "look") /\ at = Append(w.at, Last(raw))
  OBVIOUS
<1> HIDE DEF copied, u, v, raw, w, at, e, d, path
<1>10. Good(u) /\ Flat(u) /\ IsFile(u, path)
  <2>1. e.node.is = "file" /\ e.at \in DOMAIN u /\ WrittenAs(u, e.at, {e})
    BY <1>7 DEF Stages, Lays
  <2>2. u[e.at] = e.node
    BY <2>1 DEF WrittenAs
  <2> QED
    BY <1>2, <1>7, <2>1, <2>2 DEF IsFile, Stages
<1>11. /\ d \in DOMAIN u /\ u[d].is = "dir" /\ NamesOnly(d) /\ d \in Path
       /\ Last(path) \in Names \ {Root, Up} /\ path = Append(d, Last(path))
  BY <1>1, <1>10, ParentIsDir DEF IsFile, d, path
<1>12. d \o <<Last(path)>> = path
  BY <1>11, OneMore DEF Path
<1>13. \A s \in Names \ {Root, Up} : NamesOnly(<<s>>)
  <2>1. \A s \in Names : Append(<<>>, s) = <<s>>
    OBVIOUS
  <2>2. \A s \in Names \ {Root, Up} : NamesOnly(Append(<<>>, s))
    BY EmptyPath, NamesParts, Zenon
  <2> QED
    BY <2>1, <2>2, Zenon
<1>14. lib.soname = <<Last(path)>> => NamesOnly(lib.soname)
  BY <1>11, <1>13
<1>15. CASE <<Last(path)>> = lib.soname
  <2>1. v = u
    BY <1>3, <1>9, <1>15 DEF v
  <2>2. Leading(u, path)
    BY <1>10 DEF Leading, IsFile
  <2> QED
    BY <1>7, <1>10, <1>12, <1>14, <1>15, <2>1, <2>2 DEF LibraryThere, v, e, d, path
<1>16. CASE <<Last(path)>> # lib.soname
  <2>1. res = SonameLinked(u, lib)
    BY <1>3, <1>4, <1>9, <1>16
  <2>2. res = IF ~w.ok \/ raw = <<>> \/ Last(raw) \in {Root, Up} THEN Failed(u)
              ELSE IF at \in DOMAIN u THEN Made(u)
              ELSE IF w.missing THEN Failed(u)
              ELSE Made(With(u, at, LinkTo(<<Last(path)>>)))
    BY <1>5, <1>9, <2>1
  <2>3. Last(raw) \notin {Root, Up} /\ w.ok /\ raw # <<>>
    BY <2>2 DEF Failed
  <2>4. PICK s \in Names \ {Root, Up} : lib.soname = <<s>> /\ raw = Append(d, s) /\ d \o lib.soname = Append(d, s)
                                       /\ Parent(raw) = d /\ Last(raw) = s /\ raw # <<>>
    BY <1>1, <1>8, <1>11, <2>3, SonameBeside
  <2>5. LeadsHome(u, d, "look")
    BY <1>10, <1>11, PlainLeads, Zenon
  <2>6. w.at = d /\ ~w.missing
    BY <1>9, <2>4, <2>5 DEF LeadsHome, Here
  <2>7. at = Append(d, s) /\ d \o lib.soname = at
    BY <1>9, <2>4, <2>6
  <2>8. NamesOnly(lib.soname)
    BY <1>13, <2>4
  <2>9. CASE at \in DOMAIN u
    <3>1. v = u
      BY <2>2, <2>3, <2>9 DEF Made, v
    <3>2. Leading(u, at)
      BY <1>10, <2>9 DEF Leading, Flat
    <3> QED
      BY <1>7, <1>10, <2>7, <2>8, <3>1, <3>2 DEF LibraryThere, v, e, d, path
  <2>10. CASE at \notin DOMAIN u
    <3> DEFINE to == <<Last(path)>>
    <3>1. v = With(u, at, LinkTo(to))
      BY <2>2, <2>3, <2>6, <2>10 DEF Made, v
    <3>2. to \in Path /\ Len(to) = 1 /\ to # <<>> /\ NamesOnly(to)
      <4>1. to \in Path /\ Len(to) = 1 /\ to[1] = Last(path)
        BY <1>11, OneMore DEF Path
      <4> HIDE DEF to
      <4>2. to # <<>>
        BY <4>1, EmptyPath
      <4> QED
        BY <1>11, <4>1, <4>2, NamesAre
    <3>3. v[at].to = to /\ path \in DOMAIN v /\ v[path].is = "file"
      BY <1>10, <2>10, <3>1 DEF With, LinkTo, IsFile
    <3>4. Parent(at) = d
      BY <1>11, <2>7, PathEnds
    <3> HIDE DEF to
    <3>5. LeadsToFile(v, at)
      <4>1. JoinFacts(d, <<>>) /\ JoinFacts(to, <<>>)
        BY <1>11, <3>2, EmptyPath, JoinIs, Zenon
      <4>2. d \o <<>> = d /\ Ups(Len(<<>>)) \o to = to
        <5>1. Ups(Len(<<>>)) = <<>>
          BY EmptyPath, UpsAre DEF UpsFacts
        <5> QED
          BY <4>1, <5>1 DEF JoinFacts
      <4>3. d \o to = path
        BY <1>12 DEF to
      <4>4. Len(<<>>) + Len(to) <= MaxSteps
        BY <3>2, EmptyPath
      <4>5. /\ Parent(at) = d \o <<>> /\ to # <<>> /\ NamesOnly(to) /\ v[at].to = Ups(Len(<<>>)) \o to
            /\ d \o to \in DOMAIN v /\ v[d \o to].is = "file" /\ Len(<<>>) + Len(to) <= MaxSteps
        BY <3>2, <3>3, <3>4, <4>2, <4>3, <4>4
      <4> QED
        BY <1>11, <3>2, <4>5, EmptyPath, Zenon DEF LeadsToFile
    <3>6. Flat(v) /\ Extends(u, v) /\ Leading(v, at)
      BY <1>10, <2>10, <3>1, <3>5, LinkFlat
    <3>7. Lays(u, v, {})
      BY <3>6, LaysMore
    <3>8. Lays(t, v, {e} \cup {})
      BY <1>7, <3>7, LaysBoth DEF Stages
    <3>9. IsFile(v, path)
      BY <3>3 DEF IsFile
    <3> QED
      BY <1>6, <2>7, <2>8, <3>6, <3>8, <3>9 DEF Stages, LibraryThere, v, e, d, path
  <2> QED
    BY <2>9, <2>10
<1> QED
  BY <1>15, <1>16

--------------------------------------------------------------------------------
\* What the walk found stays in the image.

\* A program that is named without `..`, and sonames without a slash.
PlainPack(r) == NamesOnly(r.program.named) /\ \A i \in 1 .. Len(r.libs) : Len(r.libs[i].soname) = 1
PlainNames == PlainPack(req)

\* The files a pack writes before the added ones, with the loader at its place.
LoaderFile(r, place) == IF r.interp = <<>> THEN {} ELSE {Entry(place, File(r.ld))}
Libraries(r, n) == {Mirrored(r.libs[i].path) : i \in {j \in 1 .. Len(r.libs) : j < n}}
CoreFiles(r, place, n) == ({Mirrored(r.program.real)} \cup LoaderFile(r, place)) \cup Libraries(r, n)
CacheFiles == {EtcFile("ld.so.conf"), EtcFile("ld.so.cache")}
Writing(r, place) ==
  ((CoreFiles(r, place, Len(r.libs) + 1) \cup CacheFiles) \cup Includes(r, LibcDir(r.libs))) \cup ExtraFiles(r)

\* No two of them are different files at one path, and upx is not asked to rewrite an object that
\* the loader maps.
ApartAt(r, place) ==
  /\ \A x, y \in Writing(r, place) : x.at = y.at => x.node = y.node
  /\ r.upx => /\ \A i \in 1 .. Len(r.libs) : r.libs[i].path # r.program.real
              /\ r.interp # <<>> => place # r.program.real
Apart == ApartAt(req, Place(req.interp, tree))

\* What is known of a request.
CoreRequest(r) ==
  /\ r.program.named \in Path \ {<<>>} /\ r.program.real \in Path \ {<<>>} /\ r.interp \in Path
  /\ NamesOnly(r.program.real)
  /\ Len(r.libs) \in Nat
  /\ \A i \in 1 .. Len(r.libs) : r.libs[i] \in [path : Path \ {<<>>}, soname : Path] /\ NamesOnly(r.libs[i].path)
  /\ Len(r.program.named) + Len(r.program.real) <= MaxSteps /\ 1 <= MaxSteps
  /\ LibcDir(r.libs) \subseteq Path /\ \A d \in LibcDir(r.libs) : NamesOnly(d)

\* It is so of each.
LEMMA CoreRequests ==
  ASSUME NEW r \in Requests
  PROVE  CoreRequest(r)
<1> DEFINE B == [path : Path \ {<<>>}, soname : Path]
           libcs == {i \in DOMAIN r.libs : r.libs[i].soname = <<"libc.so.6">>}
<1>1. /\ r.program \in [named : Path \ {<<>>}, real : Path \ {<<>>}] /\ r.interp \in Path
      /\ r.libs \in Seq(B) /\ NamesOnly(r.program.real)
      /\ \A i \in DOMAIN r.libs : NamesOnly(r.libs[i].path)
      /\ Len(r.program.named) + Len(r.program.real) <= MaxSteps
  BY StagingAssumption
<1>2. r.program.named \in Path \ {<<>>} /\ r.program.real \in Path \ {<<>>}
  BY <1>1
<1>3. \A i \in DOMAIN r.libs : r.libs[i] \in B
  <2> HIDE DEF B
  <2> QED
    BY <1>1, ElementsOf, Zenon
<1>4. DOMAIN r.libs = 1 .. Len(r.libs) /\ Len(r.libs) \in Nat
  <2> HIDE DEF B
  <2> QED
    BY <1>1, LenProperties
<1>5. 1 <= MaxSteps
  <2>1. JoinFacts(r.program.named, r.program.real)
    BY <1>2, JoinIs, Zenon
  <2>2. JoinFacts(r.program.real, r.program.named)
    BY <1>2, JoinIs, Zenon
  <2>3. Len(r.program.named) \in Nat \ {0} /\ Len(r.program.real) \in Nat \ {0}
    BY <1>2, <2>1, <2>2 DEF JoinFacts
  <2> DEFINE m == Len(r.program.named)
             n == Len(r.program.real)
  <2>4. m \in Nat \ {0} /\ n \in Nat \ {0} /\ m + n <= MaxSteps /\ MaxSteps \in Nat
    BY <1>1, <2>3, NamesKnown
  <2> HIDE DEF m, n
  <2> QED
    BY <2>4
<1>6. LibcDir(r.libs) \subseteq Path
  BY <1>1, LibcDirs
<1>7. \A d \in LibcDir(r.libs) : NamesOnly(d)
  <2>1. CASE libcs # {}
    <3>1. libcs \in SUBSET Nat
      BY <1>4
    <3>2. PICK m \in libcs : \A i \in libcs : m <= i
      BY <2>1, <3>1, LeastExists
    <3>3. Min(libcs) \in libcs
      <4> HIDE DEF libcs
      <4> QED
        BY <3>2 DEF Min
    <3>4. LibcDir(r.libs) = {Parent(r.libs[Min(libcs)].path)}
      BY <2>1 DEF LibcDir
    <3>5. Min(libcs) \in DOMAIN r.libs
      BY <3>3
    <3> HIDE DEF libcs
    <3>6. r.libs[Min(libcs)].path \in Path \ {<<>>} /\ NamesOnly(r.libs[Min(libcs)].path)
      BY <1>1, <1>3, <3>5
    <3>7. NamesOnly(Parent(r.libs[Min(libcs)].path))
      BY <3>6, NamesParts
    <3> QED
      BY <3>4, <3>7
  <2>2. CASE libcs = {}
    BY <2>2 DEF LibcDir
  <2> QED
    BY <2>1, <2>2
<1> HIDE DEF B
<1>8. \A i \in 1 .. Len(r.libs) : r.libs[i] \in [path : Path \ {<<>>}, soname : Path] /\ NamesOnly(r.libs[i].path)
  BY <1>1, <1>3, <1>4 DEF B
<1> QED
  BY <1>1, <1>2, <1>4, <1>5, <1>6, <1>7, <1>8 DEF CoreRequest

\* The program, the name it was packed by, the loader, the libraries before the n-th.
RealThere(r, t)    == IsFile(t, r.program.real)
NamedThere(r, t)   == r.mode # "CopyAll" => Leading(t, r.program.named)
LoaderThere(r, t)  == r.interp # <<>> => Landing(r.interp, t)
LibsThere(r, t, n) == \A i \in 1 .. Len(r.libs) : i < n => LibraryThere(t, r.libs[i])

\* They are where they were.
StillThere(r, t, v) ==
  /\ RealThere(r, t) => RealThere(r, v)
  /\ NamedThere(r, t) => NamedThere(r, v)
  /\ LoaderThere(r, t) => LoaderThere(r, v) /\ (r.interp # <<>> => Place(r.interp, v) = Place(r.interp, t))
  /\ \A n : LibsThere(r, t, n) => LibsThere(r, v, n)

\* In a tree that holds everything.
LEMMA TheyStay ==
  ASSUME NEW r, CoreRequest(r), NEW t, Good(t), NEW v, Holds(t, v)
  PROVE  StillThere(r, t, v)
<1>1. \A p : (IsFile(t, p) => IsFile(v, p)) /\ (Leading(t, p) => Leading(v, p))
  BY HoldsThem
<1>2. LoaderThere(r, t) => LoaderThere(r, v) /\ (r.interp # <<>> => Place(r.interp, v) = Place(r.interp, t))
  <2> SUFFICES ASSUME r.interp # <<>>, Landing(r.interp, t)
               PROVE  Landing(r.interp, v) /\ Place(r.interp, v) = Place(r.interp, t)
    BY DEF LoaderThere
  <2>1. r.interp \in Path \ {<<>>}
    BY DEF CoreRequest
  <2> QED
    BY <2>1, LandingStays
<1> QED
  BY <1>1, <1>2 DEF StillThere, RealThere, NamedThere, LibsThere, LibraryThere

\* A file is what was written, but for what upx makes of the program.
Packed(of) == [is |-> "file", of |-> of, upx |-> TRUE]
Carries(r, t, w) ==
  /\ w.at \in DOMAIN t
  /\ t[w.at] = w.node \/ (r.upx /\ w.at = r.program.real /\ t[w.at] = Packed(w.node.of))
Contents(r, t, n) == \A w \in CoreFiles(r, Place(r.interp, t), n) : Carries(r, t, w)

\* What lies apart stays apart, as long as the loader's place does.
LEMMA SameApart ==
  ASSUME NEW r, NEW p, NEW q, r.interp # <<>> => p = q
  PROVE  /\ ApartAt(r, p) => ApartAt(r, q)
         /\ \A n : CoreFiles(r, p, n) = CoreFiles(r, q, n)
<1>1. LoaderFile(r, p) = LoaderFile(r, q)
  BY DEF LoaderFile
<1>2. \A n : CoreFiles(r, p, n) = CoreFiles(r, q, n)
  BY <1>1 DEF CoreFiles
<1>3. Writing(r, p) = Writing(r, q)
  BY <1>2 DEF Writing
<1> QED
  BY <1>2, <1>3 DEF ApartAt

\* The core files are among those that are written.
LEMMA CoreWritten ==
  ASSUME NEW r, CoreRequest(r), NEW place
  PROVE  /\ \A n : CoreFiles(r, place, n) \subseteq Writing(r, place)
         /\ CacheFiles \subseteq Writing(r, place) /\ ExtraFiles(r) \subseteq Writing(r, place)
         /\ Includes(r, LibcDir(r.libs)) \subseteq Writing(r, place)
         /\ \A n : \A w \in CoreFiles(r, place, n) : w.node = File(w.node.of)
         /\ Len(r.libs) \in Nat
<1>1. ASSUME NEW n PROVE Libraries(r, n) \subseteq Libraries(r, Len(r.libs) + 1)
  <2>1. \A j \in 1 .. Len(r.libs) : j < Len(r.libs) + 1
    BY DEF CoreRequest
  <2> QED
    BY <2>1 DEF Libraries
<1>2. ASSUME NEW n, NEW w \in CoreFiles(r, place, n) PROVE w.node = File(w.node.of)
  <2>1. \A of : File(of) = File(File(of).of)
    BY DEF File
  <2>2. \A p : Mirrored(p).node = File(p) /\ Entry(place, File(p)).node = File(p)
    BY DEF Mirrored, Entry
  <2>3. \E of : w.node = File(of)
    BY <1>2, <2>2 DEF CoreFiles, LoaderFile, Libraries
  <2> QED
    BY <2>1, <2>3
<1> QED
  BY <1>1, <1>2 DEF CoreFiles, Writing, CoreRequest

\* Where files that lie apart are laid, each file stays what it is, and the new ones are there.
LEMMA CarriedOn ==
  ASSUME NEW r, NEW place, ApartAt(r, place), NEW t, NEW v, NEW W, W \subseteq Writing(r, place), Lays(t, v, W)
  PROVE  /\ \A w \in Writing(r, place) : Carries(r, t, w) => Carries(r, v, w)
         /\ \A w \in W : Carries(r, v, w)
<1>1. ASSUME NEW w \in Writing(r, place), w.at \in DOMAIN v, WrittenAs(v, w.at, W) PROVE Carries(r, v, w)
  <2>1. PICK x \in W : x.at = w.at /\ v[w.at] = x.node
    BY <1>1 DEF WrittenAs
  <2>2. x.node = w.node
    BY <1>1, <2>1 DEF ApartAt
  <2> QED
    BY <1>1, <2>1, <2>2 DEF Carries
<1>2. ASSUME NEW w \in Writing(r, place), Carries(r, t, w) PROVE Carries(r, v, w)
  <2>1. w.at \in DOMAIN t
    BY <1>2 DEF Carries
  <2>2. w.at \in DOMAIN v /\ (v[w.at] = t[w.at] \/ WrittenAs(v, w.at, W))
    BY <2>1 DEF Lays
  <2>3. CASE v[w.at] = t[w.at]
    BY <1>2, <2>2, <2>3 DEF Carries
  <2> QED
    BY <1>1, <2>2, <2>3
<1>3. ASSUME NEW w \in W PROVE Carries(r, v, w)
  <2>1. w.at \in DOMAIN v /\ WrittenAs(v, w.at, W)
    BY DEF Lays
  <2> QED
    BY <1>1, <2>1
<1> QED
  BY <1>2, <1>3

\* The names of the host that nsswitch.conf needs, and what it reads.
Mirrors(t, p) == IsFile(t, p) /\ t[p].of = p
Backed(r, t, ws) ==
  /\ \A m \in NssModules(r.nss) :
       <<m>> \in ws \/ <<"libc">> \in ws \/ \E d \in LibcDir(r.libs) : Mirrors(t, Append(d, m))
  /\ r.nss.files => IsFile(t, <<"etc", "passwd">>) /\ IsFile(t, <<"etc", "group">>)

Before    == {"program", "named", "loader", "libs", "nss", "strip", "extras"}
FromStrip == {"strip", "extras", "add", "locales", "done"}
FromLibs  == {"libs", "nss"} \cup FromStrip

\* How many of the libraries were staged, and one.
Reached(r, p, c) == IF p = "libs" THEN c ELSE Len(r.libs) + 1

\* The objects are in the image as the host has them.
CoreHome(r, t, n) ==
  /\ RealThere(r, t) /\ NamedThere(r, t) /\ LoaderThere(r, t) /\ LibsThere(r, t, n)
  /\ ApartAt(r, Place(r.interp, t)) => Contents(r, t, n)

\* Step by step: no link leads elsewhere than to a file until the added files, and what is
\* staged stays.
Home(r, t, p, c, ws) ==
  /\ p \in Before => Flat(t)
  /\ p \in {"program", "named", "loader"} => c = 1
  /\ p \in {"program", "named"} => Linkless(t)
  /\ p \in {"named", "loader"} => RealThere(r, t) /\ Carries(r, t, Mirrored(r.program.real))
  /\ p = "loader" => NamedThere(r, t)
  /\ p \in FromLibs => CoreHome(r, t, Reached(r, p, c))
  /\ p \in FromStrip => Backed(r, t, ws)

\* The program's file.
LEMMA ProgramHome ==
  ASSUME CoreRequest(req), Good(tree), Home(req, tree, pc, k, warned), StageProgram, pc' # "failed"
  PROVE  Home(req, tree', pc', k', warned')
<1> DEFINE real == req.program.real
           res == Replaced(tree, real, File(real))
           e == Mirrored(real)
<1>1. pc = "program" /\ pc' = "named" /\ tree' = res.tree /\ res.ok /\ k' = k
  BY DEF StageProgram, Then
<1>2. Flat(tree) /\ Linkless(tree) /\ k = 1
  BY <1>1 DEF Home, Before
<1>3. PlainEntry(e) /\ e.at = real /\ e.node = File(real)
  BY PlainEntries DEF Mirrored, CoreRequest
<1> HIDE DEF e, real, res
<1>4. IsEntry(e) /\ NamesOnly(e.at) /\ res = Replaced(tree, e.at, e.node)
  BY <1>3 DEF PlainEntry, res
<1>5. Puts(tree, res.tree, {e})
  BY <1>1, <1>2, <1>4, PlainWrite
<1>6. Flat(res.tree)
  BY <1>2, <1>5, PutsFlat
<1>7. e.node.is = "file" /\ e.at \in DOMAIN res.tree /\ res.tree[e.at] = e.node
  BY <1>5 DEF Puts, WrittenAs
<1>8. Linkless(res.tree)
  <2> SUFFICES ASSUME NEW p \in DOMAIN res.tree PROVE res.tree[p].is # "link"
    BY DEF Linkless
  <2>1. WrittenAs(res.tree, p, {e}) => res.tree[p].is = "file"
    BY <1>7 DEF WrittenAs
  <2>2. Dir.is = "dir"
    BY DEF Dir
  <2>3. CASE p \in DOMAIN tree
    <3>1. res.tree[p] = tree[p] \/ WrittenAs(res.tree, p, {e})
      BY <1>5, <2>3 DEF Puts
    <3> QED
      BY <1>2, <2>1, <2>3, <3>1 DEF Linkless
  <2>4. CASE p \notin DOMAIN tree
    BY <1>5, <2>1, <2>2, <2>4 DEF Puts
  <2> QED
    BY <2>3, <2>4
<1>9. RealThere(req, res.tree) /\ Carries(req, res.tree, e)
  BY <1>3, <1>7 DEF RealThere, IsFile, Carries, real
<1> QED
  BY <1>1, <1>2, <1>6, <1>8, <1>9 DEF Home, FromLibs, FromStrip, e, real

\* The link to it.
LEMMA NamedHome ==
  ASSUME CoreRequest(req), PlainPack(req), Good(tree), Home(req, tree, pc, k, warned), StageNamed, pc' # "failed"
  PROVE  Home(req, tree', pc', k', warned')
<1> DEFINE real == req.program.real
           named == req.program.named
           wanted == req.mode # "CopyAll" /\ named # real /\ ~IsStaged(tree, named)
           res == Linked(tree, named, RelativeValue(Parent(named), real))
           e == Mirrored(real)
<1>1. /\ pc = "named" /\ pc' = "loader" /\ k' = k
      /\ wanted => tree' = res.tree /\ res.ok
      /\ ~wanted => tree' = tree
  BY DEF StageNamed, Then, Made
<1>2. Flat(tree) /\ Linkless(tree) /\ k = 1 /\ RealThere(req, tree) /\ Carries(req, tree, e)
  BY <1>1 DEF Home, Before
<1>3. /\ named \in Path \ {<<>>} /\ NamesOnly(named) /\ real \in Path \ {<<>>} /\ NamesOnly(real)
      /\ IsFile(tree, real) /\ Len(named) + Len(real) <= MaxSteps
  BY <1>2 DEF CoreRequest, PlainPack, RealThere
<1> HIDE DEF wanted, res, e
<1>4. CASE wanted
  <2>1. Stages(tree, res.tree, {}) /\ Leading(res.tree, named)
    BY <1>1, <1>2, <1>3, <1>4, NamedStages DEF res
  <2>2. Flat(res.tree) /\ Lays(tree, res.tree, {}) /\ Holds(tree, res.tree)
    BY <2>1, LaysMore DEF Stages
  <2>3. RealThere(req, res.tree)
    <3>1. StillThere(req, tree, res.tree)
      BY <2>2, TheyStay
    <3> QED
      BY <1>2, <3>1 DEF StillThere
  <2>4. Carries(req, res.tree, e)
    <3>1. e.at \in DOMAIN tree
      BY <1>2 DEF Carries
    <3>2. e.at \in DOMAIN res.tree /\ res.tree[e.at] = tree[e.at]
      BY <2>2, <3>1 DEF Lays, WrittenAs
    <3> QED
      BY <1>2, <3>2 DEF Carries
  <2>5. NamedThere(req, res.tree)
    BY <2>1 DEF NamedThere
  <2> QED
    BY <1>1, <1>2, <1>4, <2>2, <2>3, <2>4, <2>5 DEF Home, FromLibs, FromStrip, e
<1>5. CASE ~wanted
  <2>1. NamedThere(req, tree)
    <3>1. CASE req.mode = "CopyAll"
      BY <3>1 DEF NamedThere
    <3>2. CASE named = real
      BY <1>3, <3>2 DEF NamedThere, Leading, IsFile
    <3>3. CASE IsStaged(tree, named)
      <4> DEFINE l == Walked(tree, Parent(named), "look")
                 w == StagedPath(tree, named, "look")
      <4>1. PlaceOf(w, l, named, "look")
        BY <1>3, StagedPathIs
      <4>2. w.ok /\ w.at \in DOMAIN tree
        BY <3>3 DEF IsStaged
      <4> HIDE DEF l, w
      <4>3. l.ok /\ w.at = Append(l.at, Last(named))
        BY <4>1, <4>2 DEF PlaceOf, Target
      <4>4. Parent(named) \in Path /\ NamesOnly(Parent(named)) /\ named = Append(Parent(named), Last(named))
        <5>1. JoinFacts(<<>>, named)
          BY <1>3, EmptyPath, JoinIs, Zenon
        <5> QED
          BY <1>3, <5>1, NamesParts DEF JoinFacts
      <4>5. l.at = Parent(named)
        BY <1>2, <4>3, <4>4, SpelledOut, Zenon DEF l
      <4>6. named \in DOMAIN tree
        BY <4>2, <4>3, <4>4, <4>5
      <4> QED
        BY <1>2, <4>6 DEF NamedThere, Leading, Linkless
    <3> QED
      BY <1>5, <3>1, <3>2, <3>3 DEF wanted
  <2> QED
    BY <1>1, <1>2, <1>5, <2>1 DEF Home, FromLibs, FromStrip, e
<1> QED
  BY <1>4, <1>5

\* The loader.
LEMMA LoaderHome ==
  ASSUME CoreRequest(req), Good(tree), Home(req, tree, pc, k, warned), StageLoader, pc' # "failed"
  PROVE  Home(req, tree', pc', k', warned')
<1> DEFINE path == req.interp
           w == InterpTarget(tree, path)
           res == Replaced(w.tree, w.at, File(req.ld))
           e == Mirrored(req.program.real)
           place == Place(path, tree')
           W == LoaderFile(req, place)
<1>1. /\ pc = "loader" /\ pc' = "libs" /\ k' = k
      /\ path = <<>> => tree' = tree
      /\ path # <<>> => w.ok /\ tree' = res.tree /\ res.ok
  BY DEF StageLoader, Then, Made, Failed
<1>2. Flat(tree) /\ k = 1 /\ RealThere(req, tree) /\ Carries(req, tree, e) /\ NamedThere(req, tree)
  BY <1>1 DEF Home, Before
<1>3. path \in Path
  BY DEF CoreRequest
<1> HIDE DEF w, res, e
<1>4. Flat(tree') /\ Lays(tree, tree', W) /\ LoaderThere(req, tree')
  <2>1. CASE path = <<>>
    <3>1. W = {} /\ tree' = tree
      BY <1>1, <2>1 DEF LoaderFile
    <3>2. Lays(tree, tree, {})
      BY ExtendsOnly, LaysMore
    <3> QED
      BY <1>2, <2>1, <3>1, <3>2 DEF LoaderThere
  <2>2. CASE path # <<>>
    <3>1. Landing(path, res.tree) /\ Stages(tree, res.tree, {Entry(Place(path, res.tree), File(req.ld))})
      BY <1>1, <1>2, <1>3, <2>2, LoaderStages DEF w, res
    <3>2. W = {Entry(Place(path, res.tree), File(req.ld))}
      BY <1>1, <2>2 DEF LoaderFile
    <3> QED
      BY <1>1, <2>2, <3>1, <3>2 DEF Stages, LoaderThere
  <2> QED
    BY <2>1, <2>2
<1>5. RealThere(req, tree') /\ NamedThere(req, tree')
  <2>1. StillThere(req, tree, tree')
    BY <1>4, LaysMore, TheyStay
  <2> QED
    BY <1>2, <2>1 DEF StillThere
<1>6. LibsThere(req, tree', 1)
  BY DEF LibsThere
<1>7. ApartAt(req, place) => Contents(req, tree', 1)
  <2> SUFFICES ASSUME ApartAt(req, place) PROVE Contents(req, tree', 1)
    OBVIOUS
  <2>1. CoreFiles(req, place, 1) = {e} \cup W
    <3>1. Libraries(req, 1) = {}
      BY DEF Libraries
    <3> QED
      BY <3>1 DEF CoreFiles, e
  <2>2. CoreFiles(req, place, 1) \subseteq Writing(req, place)
    BY CoreWritten
  <2>3. e \in Writing(req, place) /\ W \subseteq Writing(req, place)
    BY <2>1, <2>2
  <2> HIDE DEF W, place
  <2>4. Carries(req, tree', e) /\ \A x \in W : Carries(req, tree', x)
    BY <1>2, <1>4, <2>3, CarriedOn
  <2> QED
    BY <2>1, <2>4 DEF Contents, place
<1>8. CoreHome(req, tree', 1)
  BY <1>4, <1>5, <1>6, <1>7 DEF CoreHome
<1>9. Reached(req, pc', k') = 1
  BY <1>1, <1>2 DEF Reached
<1> HIDE DEF W, place
<1> QED
  BY <1>1, <1>4, <1>8, <1>9 DEF Home, FromStrip

\* Wherever files are laid, the objects stay.
LEMMA LaidHome ==
  ASSUME NEW r, CoreRequest(r), NEW t, Good(t), NEW n, CoreHome(r, t, n), NEW v, NEW W, Lays(t, v, W),
         \A place : W \subseteq Writing(r, place)
  PROVE  /\ CoreHome(r, v, n)
         /\ ApartAt(r, Place(r.interp, v)) => \A w \in W : Carries(r, v, w)
<1> DEFINE p == Place(r.interp, t)
           q == Place(r.interp, v)
<1>1. StillThere(r, t, v)
  BY LaysMore, TheyStay
<1>2. RealThere(r, v) /\ NamedThere(r, v) /\ LoaderThere(r, v) /\ LibsThere(r, v, n) /\ (r.interp # <<>> => p = q)
  BY <1>1 DEF StillThere, CoreHome
<1>3. ApartAt(r, p) => Contents(r, t, n)
  BY DEF CoreHome
<1> HIDE DEF p, q
<1>4. ASSUME ApartAt(r, q)
      PROVE  (\A w \in CoreFiles(r, q, n) : Carries(r, v, w)) /\ \A w \in W : Carries(r, v, w)
  <2>1. ApartAt(r, p) /\ CoreFiles(r, p, n) = CoreFiles(r, q, n)
    BY <1>2, <1>4, SameApart
  <2>2. \A w \in CoreFiles(r, q, n) : Carries(r, t, w)
    BY <1>3, <2>1 DEF Contents, p
  <2>3. CoreFiles(r, q, n) \subseteq Writing(r, q) /\ W \subseteq Writing(r, q)
    BY CoreWritten
  <2>4. /\ \A w \in Writing(r, q) : Carries(r, t, w) => Carries(r, v, w)
        /\ \A w \in W : Carries(r, v, w)
    BY <1>4, <2>3, CarriedOn
  <2> QED
    BY <2>2, <2>3, <2>4
<1>5. ApartAt(r, q) => Contents(r, v, n)
  BY <1>4 DEF Contents, q
<1> QED
  BY <1>2, <1>4, <1>5 DEF CoreHome, q

\* A library.
LEMMA LibraryHome ==
  ASSUME CoreRequest(req), PlainPack(req), k \in Nat \ {0}, Good(tree), Home(req, tree, pc, k, warned),
         StageLibrary, pc' # "failed"
  PROVE  Home(req, tree', pc', k', warned')
<1> DEFINE lib == req.libs[k]
           res == LibraryStaged(tree, lib)
           W == {Mirrored(lib.path)}
<1>1. pc = "libs" /\ k <= Len(req.libs) /\ pc' = "libs" /\ tree' = res.tree /\ res.ok /\ k' = k + 1
  BY DEF StageLibrary, Then
<1>2. k \in 1 .. Len(req.libs) /\ Len(req.libs) \in Nat
  BY <1>1 DEF CoreRequest
<1>3. Flat(tree) /\ CoreHome(req, tree, k)
  BY <1>1 DEF Home, Before, FromLibs, Reached
<1>4. /\ lib \in [path : Path \ {<<>>}, soname : Path] /\ NamesOnly(lib.path) /\ Len(lib.soname) = 1
      /\ 1 <= MaxSteps
  BY <1>2 DEF CoreRequest, PlainPack
<1> HIDE DEF lib, res
<1>5. Stages(tree, res.tree, W) /\ LibraryThere(res.tree, lib)
  BY <1>1, <1>3, <1>4, LibraryStages DEF res
<1>6. Libraries(req, k + 1) = Libraries(req, k) \cup W
  <2>1. {j \in 1 .. Len(req.libs) : j < k + 1} = {j \in 1 .. Len(req.libs) : j < k} \cup {k}
    BY <1>2
  <2> QED
    BY <2>1 DEF Libraries, lib
<1> HIDE DEF W
<1>7. ASSUME NEW place PROVE W \subseteq Writing(req, place)
  <2>1. CoreFiles(req, place, k + 1) \subseteq Writing(req, place)
    BY CoreWritten
  <2> QED
    BY <1>6, <2>1 DEF CoreFiles
<1>8. CoreHome(req, tree', k) /\ (ApartAt(req, Place(req.interp, tree')) => \A w \in W : Carries(req, tree', w))
  BY <1>1, <1>3, <1>5, <1>7, LaidHome DEF Stages
<1>9. LibsThere(req, tree', k + 1)
  <2>1. \A i \in 1 .. Len(req.libs) : i < k + 1 => i < k \/ i = k
    BY <1>2
  <2> QED
    BY <1>1, <1>5, <1>8, <2>1 DEF LibsThere, CoreHome, lib
<1>10. ApartAt(req, Place(req.interp, tree')) => Contents(req, tree', k + 1)
  BY <1>6, <1>8 DEF CoreHome, Contents, CoreFiles
<1>11. CoreHome(req, tree', k + 1)
  BY <1>8, <1>9, <1>10 DEF CoreHome
<1>12. Reached(req, pc', k') = k + 1 /\ Flat(tree')
  BY <1>1, <1>5 DEF Reached, Stages
<1> QED
  BY <1>1, <1>11, <1>12 DEF Home, FromStrip

\* When the last of them is staged, all are.
LEMMA AllReached ==
  ASSUME NEW r, CoreRequest(r), NEW n \in Nat, n > Len(r.libs), NEW t, CoreHome(r, t, n)
  PROVE  CoreHome(r, t, Len(r.libs) + 1)
<1>1. Len(r.libs) \in Nat
  BY DEF CoreRequest
<1>2. \A i \in 1 .. Len(r.libs) : i < n
  BY <1>1
<1>3. LibsThere(r, t, Len(r.libs) + 1)
  BY <1>2 DEF CoreHome, LibsThere
<1>4. \A place : CoreFiles(r, place, Len(r.libs) + 1) \subseteq CoreFiles(r, place, n)
  BY <1>2 DEF CoreFiles, Libraries
<1> QED
  BY <1>3, <1>4 DEF CoreHome, Contents

\* The loader's cache.
LEMMA CacheHome ==
  ASSUME CoreRequest(req), k \in Nat \ {0}, Good(tree), Home(req, tree, pc, k, warned), GenerateCache,
         pc' # "failed"
  PROVE  Home(req, tree', pc', k', warned')
<1> DEFINE a == EtcFile("ld.so.conf")
           b == EtcFile("ld.so.cache")
           conf == Replaced(tree, a.at, a.node)
           last == Replaced(conf.tree, b.at, b.node)
<1>1. a.at = <<"etc", "ld.so.conf">> /\ a.node = Generated(<<"etc", "ld.so.conf">>).node
      /\ b = Generated(<<"etc", "ld.so.cache">>)
  BY DEF EtcFile, Generated
<1>2. /\ pc = "libs" /\ k > Len(req.libs) /\ pc' = "nss" /\ k' = 1
      /\ conf.ok /\ last.ok /\ tree' = last.tree
  BY <1>1 DEF GenerateCache, Then, Failed
<1>3. PlainEntry(a) /\ PlainEntry(b)
  BY PlainEntries DEF OwnNames
<1>4. Flat(tree) /\ CoreHome(req, tree, k)
  BY <1>2 DEF Home, Before, FromLibs, Reached
<1>5. {a, b} = CacheFiles
  BY DEF CacheFiles
<1> HIDE DEF a, b, conf, last
<1>6. Stages(tree, conf.tree, {a})
  BY <1>2, <1>3, <1>4, WriteStages DEF conf
<1>7. Stages(conf.tree, last.tree, {b})
  BY <1>2, <1>3, <1>6, WriteStages DEF Stages, last
<1>8. Lays(tree, tree', CacheFiles) /\ Flat(tree')
  <2>1. Lays(tree, last.tree, {a} \cup {b})
    BY <1>6, <1>7, LaysBoth DEF Stages
  <2> QED
    BY <1>2, <1>5, <1>7, <2>1 DEF Stages
<1>9. \A place : CacheFiles \subseteq Writing(req, place)
  BY CoreWritten
<1>10. CoreHome(req, tree', k)
  BY <1>4, <1>8, <1>9, LaidHome
<1>11. CoreHome(req, tree', Len(req.libs) + 1)
  BY <1>2, <1>10, AllReached
<1>12. Reached(req, pc', k') = Len(req.libs) + 1
  BY <1>2 DEF Reached
<1> QED
  BY <1>2, <1>8, <1>11, <1>12 DEF Home, FromStrip

\* What the name services need is among what is written.
LEMMA IncludesBack ==
  ASSUME NEW r, CoreRequest(r), NEW dirs, dirs = LibcDir(r.libs), NEW v,
         \A w \in Includes(r, dirs) : /\ w.node.is = "file" /\ w.at \in DOMAIN v
                                      /\ WrittenAs(v, w.at, Includes(r, dirs))
  PROVE  /\ \A m \in Found(r, dirs) : \E d \in dirs : Mirrors(v, Append(d, m))
         /\ r.nss.files => IsFile(v, <<"etc", "passwd">>) /\ IsFile(v, <<"etc", "group">>)
<1> DEFINE N == {"nsswitch.conf", "passwd", "group"}
           M == {"libnss_files.so.2", "libnss_dns.so.2", "libresolv.so.2"}
<1>1. dirs \in SUBSET Path /\ \A d \in dirs : NamesOnly(d)
  BY DEF CoreRequest
<1>2. ASSUME NEW x \in Includes(r, dirs)
      PROVE  (\E n \in N : x = EtcFile(n)) \/ \E m \in M : m \in Found(r, dirs) /\ x = Mirrored(Beside(dirs, m))
  BY <1>2 DEF Includes, Copied, One
<1>3. Found(r, dirs) \subseteq M
  BY DEF Found, NssModules
<1>4. ASSUME NEW m \in Found(r, dirs) PROVE \E d \in dirs : Mirrors(v, Append(d, m))
  <2> DEFINE p == Beside(dirs, m)
             w == Mirrored(p)
  <2>1. p \in Path \ {<<>>} /\ Last(p) = m /\ \E d \in dirs : p = Append(d, m)
    BY <1>1, BesideIs
  <2>2. w \in Includes(r, dirs)
    BY <1>3 DEF Includes, Copied, One
  <2> HIDE DEF p
  <2>3. w.at = p /\ \A q : Mirrored(q).at = q /\ Mirrored(q).node = File(q)
    BY DEF Mirrored
  <2> HIDE DEF w
  <2>4. PICK x \in Includes(r, dirs) : x.at = p /\ v[p] = x.node
    BY <2>2, <2>3 DEF WrittenAs
  <2>5. x.node = File(p)
    <3>1. CASE \E n \in N : x = EtcFile(n)
      <4>1. PICK n \in N : x = EtcFile(n)
        BY <3>1
      <4>2. n \in OwnNames /\ x.at = <<"etc", n>>
        BY <4>1 DEF OwnNames, EtcFile, Generated
      <4>3. Last(x.at) = n
        BY <4>2, OwnPaths
      <4> QED
        BY <1>3, <2>1, <2>4, <4>3
    <3>2. CASE \E q : x = Mirrored(q)
      BY <2>3, <2>4, <3>2
    <3> QED
      BY <1>2, <3>1, <3>2
  <2>6. p \in DOMAIN v /\ v[p] = File(p)
    BY <2>2, <2>3, <2>4, <2>5
  <2>7. Mirrors(v, p)
    BY <2>6 DEF Mirrors, IsFile, File
  <2> QED
    BY <2>1, <2>7
<1>5. ASSUME NEW n \in {"passwd", "group"}, r.nss.files PROVE IsFile(v, <<"etc", n>>)
  <2> DEFINE w == EtcFile(n)
  <2>1. w \in Includes(r, dirs) /\ w.at = <<"etc", n>>
    BY <1>5 DEF Includes, One, EtcFile, Generated
  <2> HIDE DEF w
  <2>2. PICK x \in Includes(r, dirs) : x.at = w.at /\ v[w.at] = x.node
    BY <2>1 DEF WrittenAs
  <2> QED
    BY <2>1, <2>2 DEF IsFile
<1> QED
  BY <1>4, <1>5

\* The name services.
LEMMA IncludesHome ==
  ASSUME CoreRequest(req), Good(tree), Home(req, tree, pc, k, warned), StageDefaultIncludes, pc' # "failed"
  PROVE  Home(req, tree', pc', k', warned')
<1> DEFINE dirs == LibcDir(req.libs)
           res == ReplacedAll(tree, DefaultIncludes(req.nss, dirs))
           W == Includes(req, dirs)
<1>1. /\ pc = "nss" /\ pc' = "strip" /\ tree' = res.tree /\ res.ok
      /\ warned' = warned \cup NssWarned(req.nss, dirs)
  BY DEF StageDefaultIncludes, Then
<1>2. Flat(tree) /\ CoreHome(req, tree, Len(req.libs) + 1)
  BY <1>1 DEF Home, Before, FromLibs, Reached
<1>3. PlainList(DefaultIncludes(req.nss, dirs), W)
  BY IncludesAre DEF CoreRequest
<1>4. \A place : W \subseteq Writing(req, place)
  BY CoreWritten
<1> HIDE DEF res, W, dirs
<1>5. Stages(tree, res.tree, W)
  BY <1>1, <1>2, <1>3, ListStages DEF res
<1>6. Lays(tree, tree', W) /\ Flat(tree')
  BY <1>1, <1>5 DEF Stages
<1>7. CoreHome(req, tree', Len(req.libs) + 1)
  BY <1>2, <1>4, <1>6, LaidHome
<1>8. Backed(req, tree', warned')
  <2>1. \A w \in W : w.node.is = "file" /\ w.at \in DOMAIN tree' /\ WrittenAs(tree', w.at, W)
    BY <1>6 DEF Lays
  <2>2. /\ \A m \in Found(req, dirs) : \E d \in dirs : Mirrors(tree', Append(d, m))
        /\ req.nss.files => IsFile(tree', <<"etc", "passwd">>) /\ IsFile(tree', <<"etc", "group">>)
    BY <2>1, IncludesBack DEF W, dirs
  <2>3. ASSUME NEW m \in NssModules(req.nss)
        PROVE  <<m>> \in warned' \/ <<"libc">> \in warned' \/ \E d \in dirs : Mirrors(tree', Append(d, m))
    <3>1. CASE dirs = {}
      BY <1>1, <2>3, <3>1 DEF NssWarned
    <3>2. CASE dirs # {} /\ m \notin req.modules
      BY <1>1, <2>3, <3>2 DEF NssWarned
    <3>3. CASE dirs # {} /\ m \in req.modules
      BY <2>2, <2>3, <3>3 DEF Found
    <3> QED
      BY <3>1, <3>2, <3>3
  <2> QED
    BY <2>2, <2>3 DEF Backed, dirs
<1>9. Reached(req, pc', k') = Len(req.libs) + 1
  BY <1>1 DEF Reached
<1> QED
  BY <1>1, <1>6, <1>7, <1>8, <1>9 DEF Home

\* upx rewrites the program's file and nothing else.
Rewritten(t, v, real) ==
  /\ DOMAIN v = DOMAIN t /\ \A p \in DOMAIN t : p # real => v[p] = t[p]
  /\ real \in DOMAIN t /\ t[real].is = "file" /\ v[real] = Packed(t[real].of)

\* That is what `strip_and_measure` does.
LEMMA CompressedIs ==
  ASSUME NEW t, Good(t), CoreRequest(req), RealThere(req, t)
  PROVE  Rewritten(t, Compressed(t), req.program.real)
<1> DEFINE real == req.program.real
           l == Walked(t, Parent(real), "look")
           w == StagedPath(t, real, "look")
<1>1. real \in Path \ {<<>>} /\ NamesOnly(real) /\ real \in DOMAIN t /\ t[real].is = "file"
  BY DEF CoreRequest, RealThere, IsFile
<1>2. /\ Parent(real) \in DOMAIN t /\ t[Parent(real)].is = "dir" /\ NamesOnly(Parent(real))
      /\ Parent(real) \in Path /\ real = Append(Parent(real), Last(real))
  BY <1>1, ParentIsDir
<1>3. LeadsHome(t, Parent(real), "look")
  BY <1>2, PlainLeads, Zenon
<1>4. PlaceOf(w, l, real, "look")
  BY <1>1, StagedPathIs
<1>5. Compressed(t) = [t EXCEPT ![w.at] = IF @.is = "file" THEN [@ EXCEPT !.upx = TRUE] ELSE @]
  BY DEF Compressed
<1> HIDE DEF w
<1>6. w.at = real
  BY <1>2, <1>3, <1>4 DEF PlaceOf, Target, LeadsHome, Here
<1> DEFINE f == t[real]
<1>7. IsNode(f) /\ f.is = "file"
  BY <1>1 DEF Good, Typed
<1> HIDE DEF f
<1>8. [f EXCEPT !.upx = TRUE] = Packed(f.of)
  <2>1. PICK of, u : f = [is |-> "file", of |-> of, upx |-> u]
    BY <1>7 DEF IsNode, Dir, LinkTo
  <2>2. f \in [is : {"file"}, of : {of}, upx : {u}]
    BY <2>1
  <2>3. [f EXCEPT !.upx = TRUE] \in [is : {"file"}, of : {of}, upx : {TRUE}]
    BY <2>2
  <2> DEFINE m == [f EXCEPT !.upx = TRUE]
  <2> HIDE DEF m
  <2>4. m \in [is : {"file"}, of : {of}, upx : {TRUE}] => m = Packed(of)
    BY DEF Packed
  <2> QED
    BY <2>1, <2>3, <2>4 DEF m
<1> HIDE DEF real, l
<1>9. Compressed(t)[real] = [f EXCEPT !.upx = TRUE]
  BY <1>1, <1>5, <1>6, <1>7 DEF f
<1> QED
  BY <1>1, <1>5, <1>6, <1>8, <1>9 DEF Rewritten, real, f

\* No link changes where it leads to, and no object goes.
LEMMA RewrittenHome ==
  ASSUME NEW r, CoreRequest(r), r.upx, NEW t, Good(t), NEW v, Rewritten(t, v, r.program.real),
         NEW n, CoreHome(r, t, n), NEW ws
  PROVE  /\ CoreHome(r, v, n) /\ (Flat(t) => Flat(v))
         /\ Backed(r, t, ws) => Backed(r, v, ws)
<1> DEFINE real == r.program.real
           p == Place(r.interp, t)
           q == Place(r.interp, v)
<1>1. /\ DOMAIN v = DOMAIN t /\ \A x \in DOMAIN t : x # real => v[x] = t[x]
      /\ real \in DOMAIN t /\ t[real].is = "file" /\ v[real] = Packed(t[real].of)
  BY DEF Rewritten
<1>2. \A of : Packed(of).is = "file" /\ Packed(of).of = of
  BY DEF Packed
<1> HIDE DEF real
<1>3. \A x \in DOMAIN t : x \in DOMAIN v /\ v[x].is = t[x].is /\ (t[x].is = "link" => v[x] = t[x])
  BY <1>1, <1>2
<1>4. Holds(t, v)
  BY <1>3 DEF Holds
<1>5. Flat(t) => Flat(v)
  <2> SUFFICES ASSUME Flat(t), NEW x \in DOMAIN v, v[x].is = "link" PROVE LeadsToFile(v, x)
    BY DEF Flat
  <2>1. x \in DOMAIN t /\ LeadsToFile(t, x) /\ v[x] = t[x]
    BY <1>1, <1>3 DEF Flat
  <2> QED
    BY <1>3, <2>1, LeadsStay
<1>6. StillThere(r, t, v)
  BY <1>4, TheyStay
<1>7. RealThere(r, v) /\ NamedThere(r, v) /\ LoaderThere(r, v) /\ LibsThere(r, v, n) /\ (r.interp # <<>> => p = q)
  BY <1>6 DEF StillThere, CoreHome
<1>8. ApartAt(r, p) => Contents(r, t, n)
  BY DEF CoreHome
<1> HIDE DEF p, q
<1>9. ASSUME ApartAt(r, q), NEW w \in CoreFiles(r, q, n) PROVE Carries(r, v, w)
  <2>1. ApartAt(r, p) /\ CoreFiles(r, p, n) = CoreFiles(r, q, n)
    BY <1>7, <1>9, SameApart
  <2>2. Carries(r, t, w)
    BY <1>8, <1>9, <2>1 DEF Contents, p
  <2>3. w.node = File(w.node.of)
    BY <1>9, CoreWritten
  <2>4. CASE w.at # real
    BY <1>1, <2>2, <2>4 DEF Carries, real
  <2>5. CASE w.at = real
    <3>1. t[real].of = w.node.of
      BY <2>2, <2>3, <2>5 DEF Carries, real, File, Packed
    <3> QED
      BY <1>1, <2>5, <3>1 DEF Carries, real
  <2> QED
    BY <2>4, <2>5
<1>10. CoreHome(r, v, n)
  BY <1>7, <1>9 DEF CoreHome, Contents, q
<1>11. ASSUME NEW x, Mirrors(t, x) PROVE Mirrors(v, x)
  BY <1>1, <1>2, <1>11 DEF Mirrors, IsFile
<1>12. Backed(r, t, ws) => Backed(r, v, ws)
  <2>1. \A x : IsFile(t, x) => IsFile(v, x)
    BY <1>4, HoldsThem
  <2> QED
    BY <1>11, <2>1 DEF Backed
<1> QED
  BY <1>5, <1>10, <1>12

\* Stripping and upx.
LEMMA StripHome ==
  ASSUME CoreRequest(req), Good(tree), Home(req, tree, pc, k, warned), StripAndMeasure,
         pc' # "failed"
  PROVE  Home(req, tree', pc', k', warned')
<1> DEFINE n == Len(req.libs) + 1
<1>1. /\ pc = "strip" /\ pc' = "extras" /\ warned' = warned
      /\ tree' = IF req.upx THEN Compressed(tree) ELSE tree
  BY DEF StripAndMeasure, Then, Quiet
<1> HIDE DEF n
<1>2. Flat(tree) /\ CoreHome(req, tree, n) /\ Backed(req, tree, warned)
  BY <1>1 DEF Home, Before, FromLibs, FromStrip, Reached, n
<1>3. Flat(tree') /\ CoreHome(req, tree', n) /\ Backed(req, tree', warned)
  <2>1. CASE req.upx
    <3>1. Rewritten(tree, Compressed(tree), req.program.real)
      BY <1>2, CompressedIs DEF CoreHome
    <3> QED
      BY <1>1, <1>2, <2>1, <3>1, RewrittenHome
  <2>2. CASE ~req.upx
    BY <1>1, <1>2, <2>2
  <2> QED
    BY <2>1, <2>2
<1>4. Reached(req, pc', k') = n
  BY <1>1 DEF Reached, n
<1> QED
  BY <1>1, <1>3, <1>4 DEF Home

\* Files that do not have the name of a module leave the modules as they are.
LEMMA BackedStays ==
  ASSUME NEW r, CoreRequest(r), NEW t, Good(t), NEW v, NEW W, Lays(t, v, W), NEW ws, NEW more, ws \subseteq more,
         \A w \in W : Last(w.at) \notin NssModules(r.nss), Backed(r, t, ws)
  PROVE  Backed(r, v, more)
<1> DEFINE M == NssModules(r.nss)
<1>1. M \subseteq Names
  BY NamesKnown DEF NssModules, OwnNames
<1>2. ASSUME NEW m \in M, NEW d \in LibcDir(r.libs), Mirrors(t, Append(d, m)) PROVE Mirrors(v, Append(d, m))
  <2> DEFINE p == Append(d, m)
  <2>1. Last(p) = m
    BY <1>1, EndsOf DEF CoreRequest, Path
  <2> HIDE DEF p
  <2>2. ~WrittenAs(v, p, W)
    BY <2>1 DEF WrittenAs
  <2>3. p \in DOMAIN v /\ v[p] = t[p]
    BY <1>2, <2>2 DEF Lays, Mirrors, IsFile, p
  <2> QED
    BY <1>2, <2>3 DEF Mirrors, IsFile, p
<1>3. \A x : IsFile(t, x) => IsFile(v, x)
  BY LaysMore, HoldsThem
<1> QED
  BY <1>2, <1>3 DEF Backed

\* The extras of the host.
LEMMA ExtrasHome ==
  ASSUME CoreRequest(req), Good(tree), Home(req, tree, pc, k, warned), StageRuntimeExtras, pc' # "failed"
  PROVE  Home(req, tree', pc', k', warned')
<1> DEFINE n == Len(req.libs) + 1
           W == ExtraFiles(req)
           res == ReplacedAll(tree, Extras)
<1>1. pc = "extras" /\ pc' = "add" /\ warned' = warned /\ tree' = res.tree /\ res.ok
  BY DEF StageRuntimeExtras, Then, Quiet
<1>2. Flat(tree) /\ CoreHome(req, tree, n) /\ Backed(req, tree, warned)
  BY <1>1 DEF Home, Before, FromLibs, FromStrip, Reached
<1>3. PlainList(Extras, W) /\ \A w \in W : Last(w.at) \notin NssModules(req.nss)
  BY ExtrasAre DEF NssModules
<1>4. \A place : W \subseteq Writing(req, place)
  BY CoreWritten
<1> HIDE DEF n, W, res
<1>5. Lays(tree, tree', W)
  BY <1>1, <1>2, <1>3, ListStages DEF Stages, res
<1>6. CoreHome(req, tree', n)
  BY <1>2, <1>4, <1>5, LaidHome
<1>7. Backed(req, tree', warned)
  BY <1>2, <1>3, <1>5, BackedStays
<1>8. Reached(req, pc', k') = n
  BY <1>1 DEF Reached, n
<1> QED
  BY <1>1, <1>6, <1>7, <1>8 DEF Home, Before

\* From then on nothing that is there is written over.
LEMMA LateHome ==
  ASSUME CoreRequest(req), Good(tree), Home(req, tree, pc, k, warned), pc \in {"add", "locales", "done"},
         pc' \in {"add", "locales", "done"}, Extends(tree, tree'), warned \subseteq warned'
  PROVE  Home(req, tree', pc', k', warned')
<1> DEFINE n == Len(req.libs) + 1
<1>1. CoreHome(req, tree, n) /\ Backed(req, tree, warned)
  BY DEF Home, FromLibs, FromStrip, Reached
<1>2. Reached(req, pc', k') = n
  BY DEF Reached
<1>3. Lays(tree, tree', {})
  BY LaysMore
<1>4. CoreHome(req, tree', n)
  BY <1>1, <1>3, LaidHome
<1>5. Backed(req, tree', warned')
  BY <1>1, <1>3, BackedStays
<1> HIDE DEF n
<1> QED
  BY <1>2, <1>4, <1>5 DEF Home, Before

--------------------------------------------------------------------------------
\* The invariant of the objects.

CoreInv == AddInv /\ (StraightAdds /\ PlainNames => Home(req, tree, pc, k, warned))

\* The empty tree has no link.
LEMMA CoreStarts == Init => CoreInv
<1> SUFFICES ASSUME Init PROVE CoreInv
  OBVIOUS
<1>1. tree = [p \in {<<>>} |-> Dir] /\ k = 1 /\ pc = "program" /\ AddInv
  BY AddStarts DEF Init
<1>2. Flat(tree) /\ Linkless(tree)
  BY <1>1 DEF Flat, Linkless, Dir
<1> QED
  BY <1>1, <1>2 DEF CoreInv, Home, Before, FromLibs, FromStrip

\* The steps up to the extras.
LEMMA EarlyHome ==
  ASSUME CoreRequest(req), PlainPack(req), k \in Nat \ {0}, Good(tree), Home(req, tree, pc, k, warned),
         pc' # "failed",
         \/ StageProgram \/ StageNamed \/ StageLoader \/ StageLibrary \/ GenerateCache
         \/ StageDefaultIncludes \/ StripAndMeasure \/ StageRuntimeExtras
  PROVE  Home(req, tree', pc', k', warned')
<1>1. CASE StageProgram
  BY <1>1, ProgramHome
<1>2. CASE StageNamed
  BY <1>2, NamedHome
<1>3. CASE StageLoader
  BY <1>3, LoaderHome
<1>4. CASE StageLibrary
  BY <1>4, LibraryHome
<1>5. CASE GenerateCache
  BY <1>5, CacheHome
<1>6. CASE StageDefaultIncludes
  BY <1>6, IncludesHome
<1>7. CASE StripAndMeasure
  BY <1>7, StripHome
<1>8. CASE StageRuntimeExtras
  BY <1>8, ExtrasHome
<1> QED
  BY <1>1, <1>2, <1>3, <1>4, <1>5, <1>6, <1>7, <1>8

\* The steps after them only add to the tree.
LEMMA LateAdds ==
  ASSUME AddInv, StraightAdds, pc' # "failed", StageAddedFile \/ AllAdded \/ StageLocale \/ AllStaged
  PROVE  /\ Extends(tree, tree') /\ warned \subseteq warned'
         /\ pc \in {"add", "locales", "done"} /\ pc' \in {"add", "locales", "done"}
<1>1. Good(tree) /\ StraightTree(tree) /\ req \in Requests /\ k \in Nat \ {0}
  BY DEF AddInv, StageInv
<1>2. CASE StageAddedFile
  <2> DEFINE f == req.add[k]
             answer == AddAnswer(f)
             res == Added(f, answer)
  <2>1. /\ pc = "add" /\ k <= Len(req.add) /\ tree' = res.tree /\ pc' \in {"add", "failed"}
        /\ warned' = warned \cup AddWarned(f, answer)
    BY <1>2 DEF StageAddedFile, Then
  <2>2. Len(req.add) \in Nat /\ k \in 1 .. Len(req.add)
    BY <1>1, <2>1, RequestFacts
  <2>3. f.dst \in Path \ {<<>>} /\ f.value \in Path /\ Parsed(f) /\ f.link \in BOOLEAN
    BY <1>1, <2>2, RequestFacts, AddFacts
  <2>4. f.link => StraightValue(f.value)
    <3> DEFINE B == [src : Path, dst : Path, link : BOOLEAN, value : Path, leads : {"file", "dir", "none"}]
    <3>1. req.add \in Seq(B)
      BY <1>1, StagingAssumption
    <3> HIDE DEF B
    <3>2. DOMAIN req.add = 1 .. Len(req.add)
      BY <3>1
    <3> QED
      BY <2>2, <3>2 DEF StraightAdds
  <2>5. Extends(tree, res.tree)
    <3> HIDE DEF f
    <3> QED
      BY <1>1, <2>3, <2>4, AddedIsKept
  <2> HIDE DEF f, answer, res
  <2> QED
    BY <2>1, <2>5
<1>3. CASE AllAdded \/ AllStaged
  <2>1. /\ pc \in {"add", "locales"} /\ pc' \in {"locales", "done"} /\ tree' = tree /\ warned' = warned
    BY <1>3 DEF AllAdded, AllStaged, Then, Made, Quiet
  <2> QED
    BY <2>1, ExtendsOnly
<1>4. CASE StageLocale
  <2> DEFINE u == LocaleStaged(tree, req.locales[k]).tree
  <2>1. /\ pc = "locales" /\ pc' \in {"locales", "failed"} /\ tree' = u /\ k <= Len(req.locales)
        /\ warned' = warned
    BY <1>4 DEF StageLocale, Then, Quiet
  <2>2. req.locales[k].name \in Names
    BY <1>1, <2>1, RequestFacts
  <2>3. Extends(tree, u)
    BY <1>1, <2>2, LocaleAdds
  <2> HIDE DEF u
  <2> QED
    BY <2>1, <2>3
<1> QED
  BY <1>2, <1>3, <1>4

\* Nothing is said of a pack that failed.
LEMMA FailedHome == \A r, t, c, ws : Home(r, t, "failed", c, ws)
BY DEF Home, Before, FromLibs, FromStrip

\* Every step keeps the invariant of the objects.
LEMMA CoreStep == CoreInv /\ [Next]_vars => CoreInv'
<1> SUFFICES ASSUME CoreInv, [Next]_vars PROVE CoreInv'
  OBVIOUS
<1>1. AddInv /\ AddInv' /\ req \in Requests /\ k \in Nat \ {0}
  BY AddStep DEF CoreInv, AddInv, StageInv
<1>2. req' = req
  BY DEF Next, StageProgram, StageNamed, StageLoader, StageLibrary, GenerateCache, StageDefaultIncludes,
         StripAndMeasure, StageRuntimeExtras, StageAddedFile, AllAdded, StageLocale, AllStaged, HostFails,
         Then, vars
<1>3. ASSUME StraightAdds, PlainNames PROVE Home(req, tree', pc', k', warned')
  <2>1. Home(req, tree, pc, k, warned) /\ Good(tree) /\ CoreRequest(req) /\ PlainPack(req)
    BY <1>1, <1>3, CoreRequests DEF CoreInv, AddInv, PlainNames
  <2>2. CASE pc' = "failed"
    BY <2>2, FailedHome
  <2>3. CASE UNCHANGED vars
    BY <2>1, <2>3 DEF vars
  <2>4. CASE pc' # "failed" /\ Next
    <3>1. CASE \/ StageProgram \/ StageNamed \/ StageLoader \/ StageLibrary \/ GenerateCache
               \/ StageDefaultIncludes \/ StripAndMeasure \/ StageRuntimeExtras
      BY <1>1, <2>1, <2>4, <3>1, EarlyHome
    <3>2. CASE StageAddedFile \/ AllAdded \/ StageLocale \/ AllStaged
      <4>1. /\ Extends(tree, tree') /\ warned \subseteq warned'
            /\ pc \in {"add", "locales", "done"} /\ pc' \in {"add", "locales", "done"}
        BY <1>1, <1>3, <2>4, <3>2, LateAdds
      <4> QED
        BY <2>1, <4>1, LateHome
    <3>3. ~HostFails
      BY <2>4 DEF HostFails, Then, Failed
    <3> QED
      BY <2>4, <3>1, <3>2, <3>3 DEF Next
  <2> QED
    BY <2>2, <2>3, <2>4
<1> QED
  BY <1>1, <1>2, <1>3 DEF CoreInv, StraightAdds, PlainNames, PlainPack

\* A file at a path of names is what the image shows there.
LEMMA FileShown ==
  ASSUME NEW t, Good(t), NEW p, IsFile(t, p), p # <<>>, NamesOnly(p)
  PROVE  Shown(t, p) = t[p] /\ Resolves(t, p) /\ \A of : t[p].of = of => Shows(t, p, of)
<1>1. p \in DOMAIN t /\ t[p].is = "file"
  BY DEF IsFile
<1>2. Shown(t, p) = t[p]
  BY <1>1, PlainShown
<1> QED
  BY <1>1, <1>2 DEF Resolves, Shows

\* The name services that were asked for are there, or a warning says what is missing.
LEMMA BackedIsShown ==
  ASSUME CoreRequest(req), Good(tree), Backed(req, tree, warned)
  PROVE  /\ \A m \in NssModules(req.nss) :
              \/ <<m>> \in warned \/ <<"libc">> \in warned
              \/ \E dir \in LibcDir(req.libs) : Shows(tree, Append(dir, m), Append(dir, m))
         /\ req.nss.files => \A n \in {"passwd", "group"} : Resolves(tree, <<"etc", n>>)
<1>1. NssModules(req.nss) \subseteq OwnNames /\ {"passwd", "group"} \subseteq OwnNames
  BY DEF NssModules, OwnNames
<1>2. ASSUME NEW m \in NssModules(req.nss), NEW d \in LibcDir(req.libs), Mirrors(tree, Append(d, m))
      PROVE  Shows(tree, Append(d, m), Append(d, m))
  <2>1. d \in Path /\ NamesOnly(d) /\ m \in Names \ {Root, Up}
    BY <1>1, OwnPaths DEF CoreRequest
  <2>2. Append(d, m) # <<>> /\ NamesOnly(Append(d, m))
    BY <2>1, PathEnds, NamesParts
  <2> DEFINE p == Append(d, m)
  <2>3. IsFile(tree, p) /\ tree[p].of = p /\ p # <<>> /\ NamesOnly(p)
    BY <1>2, <2>2 DEF Mirrors
  <2> HIDE DEF p
  <2>4. Shows(tree, p, p)
    BY <2>3, FileShown
  <2> QED
    BY <2>4 DEF p
<1>3. ASSUME NEW m \in NssModules(req.nss)
      PROVE  \/ <<m>> \in warned \/ <<"libc">> \in warned
             \/ \E dir \in LibcDir(req.libs) : Shows(tree, Append(dir, m), Append(dir, m))
  <2>1. <<m>> \in warned \/ <<"libc">> \in warned \/ \E d \in LibcDir(req.libs) : Mirrors(tree, Append(d, m))
    BY <1>3 DEF Backed
  <2> QED
    BY <1>2, <1>3, <2>1, Zenon
<1>4. ASSUME req.nss.files, NEW n \in {"passwd", "group"} PROVE Resolves(tree, <<"etc", n>>)
  <2> DEFINE p == <<"etc", n>>
  <2>1. p \in Path \ {<<>>} /\ NamesOnly(p)
    BY <1>1, OwnPaths
  <2>2. IsFile(tree, p)
    BY <1>4 DEF Backed
  <2> HIDE DEF p
  <2>3. Resolves(tree, p)
    BY <2>1, <2>2, FileShown
  <2> QED
    BY <2>3 DEF p
<1> QED
  BY <1>3, <1>4

\* When only straight links are added, by plain names, nothing that was asked for is left out of
\* the image without a word: each --add-file entry is in it or a warning names it, and so is
\* each module that nsswitch.conf needs, with the files it reads.
THEOREM OmissionsSaid == Spec => [](StraightAdds /\ PlainNames => OmissionsAreSaid)
<1>1. CoreInv => (StraightAdds /\ PlainNames => NssIsBacked)
  <2> SUFFICES ASSUME CoreInv, StraightAdds, PlainNames PROVE NssIsBacked
    OBVIOUS
  <2>1. Home(req, tree, pc, k, warned) /\ Good(tree) /\ CoreRequest(req)
    BY CoreRequests DEF CoreInv, AddInv, StageInv
  <2>2. pc = "done" => Backed(req, tree, warned)
    BY <2>1 DEF Home, FromStrip
  <2> QED
    BY <2>1, <2>2, BackedIsShown DEF NssIsBacked
<1>2. Spec => []CoreInv
  BY CoreStarts, CoreStep, PTL DEF Spec
<1>3. (StraightAdds => AddedIsAnswered) /\ (StraightAdds /\ PlainNames => NssIsBacked)
        => (StraightAdds /\ PlainNames => OmissionsAreSaid)
  BY DEF OmissionsAreSaid
<1> QED
  BY <1>1, <1>2, <1>3, StraightAnswered, PTL

\* The objects are what the image shows at their paths.
LEMMA CoreIsShown ==
  ASSUME CoreRequest(req), PlainPack(req), Good(tree), CoreHome(req, tree, Len(req.libs) + 1), Apart
  PROVE  /\ Shows(tree, req.program.real, req.program.real)
         /\ req.mode # "CopyAll" => Resolves(tree, req.program.named)
         /\ req.interp # <<>> => Shows(tree, req.interp, req.ld) /\ ~Shown(tree, req.interp).upx
         /\ \A i \in 1 .. Len(req.libs) :
              /\ Shows(tree, req.libs[i].path, req.libs[i].path) /\ ~Shown(tree, req.libs[i].path).upx
              /\ Resolves(tree, Parent(req.libs[i].path) \o req.libs[i].soname)
<1> DEFINE real == req.program.real
           named == req.program.named
           place == Place(req.interp, tree)
           n == Len(req.libs) + 1
<1>1. /\ real \in Path \ {<<>>} /\ NamesOnly(real) /\ named \in Path \ {<<>>} /\ NamesOnly(named)
      /\ req.interp \in Path /\ Len(req.libs) \in Nat
  BY DEF CoreRequest, PlainPack
<1>2. RealThere(req, tree) /\ NamedThere(req, tree) /\ LoaderThere(req, tree) /\ LibsThere(req, tree, n)
  BY DEF CoreHome
<1>3. /\ ApartAt(req, place) /\ Contents(req, tree, n)
  BY DEF CoreHome, Apart
<1> HIDE DEF n
<1>4. ASSUME NEW w \in CoreFiles(req, place, n) PROVE Carries(req, tree, w)
  BY <1>3, <1>4 DEF Contents
<1>5. \A of : /\ File(of).of = of /\ File(of).upx = FALSE /\ File(of).is = "file" /\ Packed(of).of = of
              /\ \A at : Entry(at, File(of)).at = at /\ Entry(at, File(of)).node = File(of)
  BY DEF File, Packed, Entry
<1>6. \A p : Mirrored(p).at = p /\ Mirrored(p).node = File(p)
  BY DEF Mirrored
<1> HIDE DEF place
<1>7. Shows(tree, real, real)
  <2>1. Carries(req, tree, Mirrored(real))
    BY <1>4 DEF CoreFiles
  <2>2. tree[real] = File(real) \/ tree[real] = Packed(real)
    BY <1>5, <1>6, <2>1 DEF Carries
  <2>3. tree[real].of = real
    BY <1>5, <2>2
  <2> QED
    BY <1>1, <1>2, <2>3, FileShown DEF RealThere
<1>8. ASSUME req.mode # "CopyAll" PROVE Resolves(tree, named)
  BY <1>1, <1>2, <1>8, LinkResolves DEF NamedThere
<1>9. ASSUME req.interp # <<>> PROVE Shows(tree, req.interp, req.ld) /\ ~Shown(tree, req.interp).upx
  <2>1. Shown(tree, req.interp) = tree[place]
    BY <1>1, <1>2, <1>9, LandingShown DEF LoaderThere, place
  <2>2. Carries(req, tree, Entry(place, File(req.ld)))
    BY <1>4, <1>9 DEF CoreFiles, LoaderFile
  <2>3. ~(req.upx /\ place = req.program.real)
    BY <1>3, <1>9 DEF ApartAt
  <2>4. tree[place] = File(req.ld)
    BY <1>5, <2>2, <2>3 DEF Carries
  <2> QED
    BY <1>5, <2>1, <2>4 DEF Shows
<1>10. ASSUME NEW i \in 1 .. Len(req.libs)
       PROVE  /\ Shows(tree, req.libs[i].path, req.libs[i].path) /\ ~Shown(tree, req.libs[i].path).upx
              /\ Resolves(tree, Parent(req.libs[i].path) \o req.libs[i].soname)
  <2> DEFINE lib == req.libs[i]
             path == lib.path
             q == Parent(path) \o lib.soname
  <2>1. lib \in [path : Path \ {<<>>}, soname : Path] /\ NamesOnly(path) /\ Len(lib.soname) = 1
    BY DEF CoreRequest, PlainPack
  <2>2. i < n
    BY <1>1 DEF n
  <2>3. IsFile(tree, path) /\ NamesOnly(lib.soname) /\ Leading(tree, q)
    BY <1>2, <2>2 DEF LibsThere, LibraryThere
  <2>4. Mirrored(path) \in CoreFiles(req, place, n)
    BY <2>2 DEF CoreFiles, Libraries
  <2>5. ~(req.upx /\ path = req.program.real)
    BY <1>3 DEF ApartAt
  <2> HIDE DEF lib, path, q
  <2>6. tree[path] = File(path)
    BY <1>4, <1>6, <2>4, <2>5 DEF Carries
  <2>7. path \in Path \ {<<>>} /\ lib.soname \in Path
    BY <2>1 DEF path
  <2>8. Shown(tree, path) = tree[path] /\ Shows(tree, path, path)
    BY <1>5, <2>1, <2>3, <2>6, <2>7, FileShown
  <2>9. q # <<>> /\ NamesOnly(q)
    <3>1. Parent(path) \in Path /\ NamesOnly(Parent(path))
      BY <2>1, <2>7, PathEnds, NamesParts
    <3>2. JoinFacts(Parent(path), lib.soname)
      BY <2>7, <3>1, JoinIs, Zenon
    <3>3. lib.soname # <<>>
      BY <2>1, EmptyPath
    <3>4. NamesOnly(Parent(path) \o lib.soname)
      BY <2>3, <2>7, <3>1, NamesParts
    <3> QED
      BY <3>2, <3>3, <3>4 DEF JoinFacts, q, path
  <2>10. Resolves(tree, q)
    BY <2>3, <2>9, LinkResolves
  <2> QED
    BY <1>5, <2>6, <2>8, <2>10 DEF lib, path, q
<1> QED
  BY <1>7, <1>8, <1>9, <1>10

\* When only straight links are added, by plain names, and what a pack writes lies apart, the
\* loader, the program and the libraries stay what the walk found, at the paths by which the
\* kernel and the loader look for them, whatever is staged later.
THEOREM StagedStays == Spec => [](StraightAdds /\ PlainNames /\ Apart => StagedStay)
<1>1. CoreInv => (StraightAdds /\ PlainNames /\ Apart => StagedStay)
  <2> SUFFICES ASSUME CoreInv, StraightAdds, PlainNames, Apart,
                      pc \in {"nss", "strip", "extras", "add", "locales", "done"}
               PROVE  StagedStay
    BY DEF StagedStay
  <2>1. Home(req, tree, pc, k, warned) /\ Good(tree) /\ CoreRequest(req) /\ PlainPack(req) /\ req \in Requests
    BY CoreRequests DEF CoreInv, AddInv, StageInv, PlainNames
  <2>2. CoreHome(req, tree, Len(req.libs) + 1)
    BY <2>1 DEF Home, FromLibs, FromStrip, Reached
  <2>3. DOMAIN req.libs = 1 .. Len(req.libs)
    <3> DEFINE B == [path : Path \ {<<>>}, soname : Path]
    <3>1. req.libs \in Seq(B)
      BY <2>1, StagingAssumption
    <3> HIDE DEF B
    <3> QED
      BY <3>1
  <2> QED
    BY <2>1, <2>2, <2>3, CoreIsShown DEF StagedStay
<1>2. Spec => []CoreInv
  BY CoreStarts, CoreStep, PTL DEF Spec
<1> QED
  BY <1>1, <1>2, PTL
==================================================================================
