------------------------------ MODULE DeliveryProofs ------------------------------
(***************************************************************************)
(* What holds of packing a staged tree and of reading an archive, ours or  *)
(* another's: for every tree, every archive, any set of names and any cap. *)
(*                                                                         *)
(* First `unpack` alone: the types of its tree, the record of cleared      *)
(* bits, and the overlay, which is an invariant of every step once it is   *)
(* said of the entries applied so far.  Then `pack`, whose layer is the    *)
(* sorted list of what was staged.  Last the two together, and the memory. *)
(***************************************************************************)
EXTENDS Delivery, SequenceTheorems, FiniteSetTheorems, WellFoundedInduction, TLAPS

\* Paths, and the chains of links.

\* Paths are of at most two names, and what that says of the directory of each.
LEMMA PathFacts ==
  ASSUME NEW p \in Paths
  PROVE  /\ Len(p) \in 0 .. 2 /\ p \in Seq(Names)
         /\ Len(p) < 2 <=> Len(p) # 2
         /\ Len(p) = 1 => Parent(p) = <<>>
         /\ Len(p) = 2 => /\ Parent(p) \in Paths /\ Len(Parent(p)) = 1
                          /\ Append(Parent(p), p[2]) = p
         /\ Len(p) = 0 <=> p = <<>>
         /\ Len(p) > 0 => /\ Parent(p) \in Paths /\ Len(Parent(p)) = Len(p) - 1
                          /\ Append(Parent(p), p[Len(p)]) = p
<1>1. CASE p = <<>>
  BY <1>1
<1>2. CASE \E n \in Names : p = <<n>>
  <2>1. PICK n \in Names : p = <<n>>
    BY <1>2
  <2>2. p \in Seq(Names) /\ Len(p) = 1 /\ p[1] = n
    BY <2>1
  <2>3. Parent(p) = <<>>
    BY <2>2, SubSeqEmpty DEF Parent
  <2>4. Append(<<>>, n) = <<n>>
    OBVIOUS
  <2>5. <<>> \in Paths /\ Len(<<>>) = 0
    BY DEF Paths
  <2>6. Append(Parent(p), p[Len(p)]) = p
    BY <2>1, <2>2, <2>3, <2>4
  <2> QED
    BY <2>2, <2>3, <2>5, <2>6
<1>3. CASE \E n, m \in Names : p = <<n, m>>
  <2>1. PICK n \in Names, m \in Names : p = <<n, m>>
    BY <1>3
  <2>2. p \in Seq(Names) /\ Len(p) = 2 /\ p[1] = n /\ p[2] = m
    BY <2>1
  <2>3. Parent(p) = <<n>>
    <3>1. \A i \in 1 .. 1 : p[i] \in Names
      BY <2>2
    <3>2. /\ SubSeq(p, 1, 1) \in Seq(Names) /\ Len(SubSeq(p, 1, 1)) = 1
          /\ \A i \in 1 .. 1 : SubSeq(p, 1, 1)[i] = p[i]
      BY <3>1, SubSeqProperties
    <3>3. <<n>> \in Seq(Names) /\ Len(<<n>>) = 1 /\ <<n>>[1] = n
      OBVIOUS
    <3>4. SubSeq(p, 1, 1) = <<n>>
      <4>1. \A i \in 1 .. Len(SubSeq(p, 1, 1)) : SubSeq(p, 1, 1)[i] = <<n>>[i]
        BY <3>2, <3>3, <2>2
      <4> QED
        BY <4>1, <3>2, <3>3, SeqEqual, Zenon
    <3> QED
      BY <3>4, <2>2 DEF Parent
  <2>4. Append(<<n>>, m) = p
    <3>1. <<n>> \in Seq(Names) /\ Len(<<n>>) = 1 /\ <<n>>[1] = n
      OBVIOUS
    <3>2. /\ Append(<<n>>, m) \in Seq(Names) /\ Len(Append(<<n>>, m)) = 2
          /\ Append(<<n>>, m)[1] = n /\ Append(<<n>>, m)[2] = m
      BY <3>1, AppendProperties
    <3> QED
      BY <3>2, <2>2, SeqEqual
  <2>5. <<n>> \in Paths /\ Len(<<n>>) = 1
    BY DEF Paths
  <2>6. Append(Parent(p), p[Len(p)]) = p
    BY <2>2, <2>3, <2>4
  <2> QED
    BY <2>2, <2>3, <2>5, <2>6
<1>4. \A i \in 0 .. 2 : i < 2 <=> i # 2
  OBVIOUS
<1>5. Len(p) \in 0 .. 2 /\ p \in Seq(Names) /\ (Len(p) = 0 <=> p = <<>>)
  BY <1>1, <1>2, <1>3 DEF Paths
<1>6. Len(p) < 2 <=> Len(p) # 2
  BY <1>4, <1>5, Zenon
<1>7. Len(p) > 0 => /\ Parent(p) \in Paths /\ Len(Parent(p)) = Len(p) - 1
                    /\ Append(Parent(p), p[Len(p)]) = p
  BY <1>1, <1>2, <1>3 DEF Paths
<1>9. Len(p) = 1 => Parent(p) = <<>>
  BY <1>5, SubSeqEmpty DEF Parent
<1>8. Len(p) = 2 => /\ Parent(p) \in Paths /\ Len(Parent(p)) = 1
                    /\ Append(Parent(p), p[2]) = p
  BY <1>7
<1> QED
  BY <1>5, <1>6, <1>7, <1>8, <1>9

\* A path of less than two names has one below it for every name.
LEMMA PathGrows ==
  ASSUME NEW p \in Paths, Len(p) # 2, NEW m \in Names
  PROVE  Append(p, m) \in Paths /\ Append(p, m) # <<>>
<1>1. CASE p = <<>>
  <2>1. Append(p, m) = <<m>> /\ Len(<<m>>) = 1
    BY <1>1
  <2> QED
    BY <2>1 DEF Paths
<1>2. CASE \E n \in Names : p = <<n>>
  <2>1. PICK n \in Names : p = <<n>>
    BY <1>2
  <2>2. <<n>> \in Seq(Names) /\ Len(<<n>>) = 1 /\ <<n>>[1] = n
    OBVIOUS
  <2>3. /\ Append(<<n>>, m) \in Seq(Names) /\ Len(Append(<<n>>, m)) = 2
        /\ Append(<<n>>, m)[1] = n /\ Append(<<n>>, m)[2] = m
    BY <2>2, AppendProperties
  <2>4. PICK q : q = <<n, m>>
    OBVIOUS
  <2>5. q \in Seq(Names) /\ Len(q) = 2 /\ q[1] = n /\ q[2] = m /\ q # <<>> /\ q \in Paths
    BY <2>4 DEF Paths
  <2>6. Append(<<n>>, m) = q
    BY <2>3, <2>5, SeqEqual
  <2> QED
    BY <2>1, <2>5, <2>6
<1>3. ~\E n, k \in Names : p = <<n, k>>
  <2> SUFFICES ASSUME NEW n \in Names, NEW k \in Names, p = <<n, k>> PROVE FALSE
    OBVIOUS
  <2>1. Len(p) = 2
    OBVIOUS
  <2> QED
    BY <2>1
<1> QED
  BY <1>1, <1>2, <1>3 DEF Paths

\* What is under what.
LEMMA UnderFacts ==
  ASSUME NEW p \in Paths, NEW q \in Paths
  PROVE  Under(p, q) <=> \/ p = <<>> /\ q # <<>>
                         \/ Len(p) = 1 /\ Len(q) = 2 /\ Parent(q) = p
<1>1. p \in Seq(Names) /\ q \in Seq(Names) /\ Len(p) \in 0 .. 2 /\ Len(q) \in 0 .. 2
  BY PathFacts
<1>0. Len(p) \in 0 .. 2 /\ Len(q) \in 0 .. 2
  BY PathFacts
<1>2. Len(p) = 0 <=> p = <<>>
  BY PathFacts
<1>3. Len(q) = 0 <=> q = <<>>
  BY PathFacts
<1>4. SubSeq(q, 1, 0) = <<>>
  BY SubSeqEmpty
<1>5. CASE Len(p) = 0
  BY <1>1, <1>2, <1>3, <1>4, <1>5 DEF Under
<1>6. CASE Len(p) = 1
  <2>1. Len(p) < Len(q) <=> Len(q) = 2
    <3>1. \A i, j \in 0 .. 2 : i = 1 => (i < j <=> j = 2)
      OBVIOUS
    <3> QED
      BY <3>1, <1>0, <1>6, Zenon
  <2>2. Len(q) = 2 => Parent(q) = SubSeq(q, 1, Len(p))
    BY <1>1, <1>6 DEF Parent
  <2> QED
    BY <2>1, <2>2, <1>2, <1>6 DEF Under
<1>7. CASE Len(p) = 2
  <2>1. ~(Len(p) < Len(q))
    <3>1. \A i, j \in 0 .. 2 : i = 2 => ~(i < j)
      OBVIOUS
    <3> QED
      BY <3>1, <1>0, <1>7, Zenon
  <2> QED
    BY <2>1, <1>2, <1>7 DEF Under
<1> QED
  BY <1>1, <1>5, <1>6, <1>7

\* A nonempty set of numbers has a least one.
LEMMA LeastExists ==
  ASSUME NEW S \in SUBSET Nat, S # {}
  PROVE  \E m \in S : \A k \in S : m <= k
<1> DEFINE Less == {pair \in Nat \X Nat : pair[1] < pair[2]}
<1>1. IsWellFoundedOn(Less, Nat)
  BY NatLessThanWellFounded DEF OpToRel
<1>2. PICK m \in S : \A k \in S : <<k, m>> \notin Less
  <2> HIDE DEF Less
  <2> QED
    BY <1>1, WFMin
<1>3. ASSUME NEW k \in S PROVE m <= k
  <2>1. ~ (k < m)
    BY <1>2
  <2> QED
    BY <2>1
<1> QED
  BY <1>3

\* Where there is no link, `canonicalize` stays: its hops are equal, by the least that would not be.
LEMMA ChaseEnds ==
  ASSUME NEW p, tree[p].kind # "link"
  PROVE  Chase(p) = p
<1> DEFINE N == Cardinality(Names)
           Hop(h) == [n \in 0 .. N |->
                        IF n = 0 THEN p
                        ELSE LET q == h[n - 1] IN IF tree[q].kind = "link" THEN <<tree[q].to>> ELSE q]
           hop == CHOOSE h : h = Hop(h)
           still == [n \in 0 .. N |-> p]
<1>0. N \in Nat
  BY UnpackAssumption, FS_CardinalityType
<1>1. Chase(p) = hop[N]
  BY DEF Chase
<1>2. still = Hop(still)
  BY <1>0
<1>3. hop = Hop(hop)
  BY <1>2
<1> HIDE DEF hop, N
<1>4. hop[0] = p /\ \A n \in 1 .. N : hop[n - 1] = p => hop[n] = p
  <2>1. \A n \in 0 .. N : hop[n] = Hop(hop)[n]
    BY <1>3, Zenon
  <2>2. hop[0] = p
    <3>1. 0 \in 0 .. N
      BY <1>0
    <3>2. Hop(hop)[0] = p
      BY <3>1
    <3> QED
      BY <2>1, <3>1, <3>2
  <2>3. ASSUME NEW n \in 1 .. N, hop[n - 1] = p PROVE hop[n] = p
    <3>1. n \in 0 .. N /\ n # 0
      BY <1>0
    <3> QED
      BY <2>1, <2>3, <3>1
  <2> QED
    BY <2>2, <2>3
<1> HIDE DEF Hop
<1> DEFINE Off == {n \in Nat : n <= N /\ hop[n] # p}
<1>5. Off = {}
  <2> SUFFICES ASSUME Off # {} PROVE FALSE
    OBVIOUS
  <2>1. PICK m \in Off : \A k \in Off : m <= k
    BY LeastExists
  <2>2. CASE m = 0
    BY <2>1, <2>2, <1>4
  <2>3. CASE m > 0
    <3>1. m \in 1 .. N /\ hop[m] # p
      BY <2>1, <2>3, <1>0
    <3>2. m - 1 \in Nat /\ m - 1 <= N /\ ~(m <= m - 1)
      BY <3>1, <1>0
    <3>3. m - 1 \notin Off
      BY <2>1, <3>2
    <3> QED
      BY <3>1, <3>2, <3>3, <1>4
  <2> QED
    BY <2>1, <2>2, <2>3, <1>0
<1> QED
  BY <1>0, <1>1, <1>5

--------------------------------------------------------------------------------
\* `unpack`: the tree, and the record of cleared bits.

\* What a layer is.
LayerSet == [media : {"gzip", "tar", "other"}, size : Nat, tar : Seq(TarEntry)]

\* The layers of an archive, each with its entries.
Formed(a) ==
  /\ a.layers \in Seq(LayerSet)
  /\ \A l \in DOMAIN a.layers : \A k \in DOMAIN a.layers[l].tar : Fits(a.layers[l].tar[k])

\* A layer of the archive holds a link at the path.
HasLink(p) ==
  \E l \in DOMAIN archive.layers : \E k \in DOMAIN archive.layers[l].tar :
    archive.layers[l].tar[k].kind \in Links /\ archive.layers[l].tar[k].path = p

\* The types, and where links come from: a link of the tree is one that a layer holds.
TreeInv ==
  /\ Formed(archive)
  /\ layer \in Nat \ {0} /\ pass \in {1, 2} /\ pos \in Nat \ {0}
  /\ walk \in [on : BOOLEAN, dir : Paths, links : Nat]
  /\ tree \in [Paths -> Node] /\ setid \subseteq Paths
  /\ \A p \in Paths :
       /\ tree[p].kind = "none" => tree[p] = Nothing
       /\ tree[p].kind \in Links => tree[p].to \in Names /\ HasLink(p)

\* No entry that a layer unpacks is spelled through a link of the archive.
InPlace ==
  \A l, m \in DOMAIN archive.layers :
    \A k \in DOMAIN archive.layers[l].tar, j \in DOMAIN archive.layers[m].tar :
      archive.layers[l].tar[k].kind \in Links /\ ~IsWhiteout(archive.layers[m].tar[j]) =>
        ~Under(archive.layers[l].tar[k].path, archive.layers[m].tar[j].path)

\* The record is that of the tree in every state, not only in the last.
ReportInv == outcome # "failed" /\ InPlace => setid = {p \in Paths : tree[p].bit}

\* The entry that is next is one of the archive.
LEMMA EntryFacts ==
  ASSUME TreeInv, layer <= Len(archive.layers), pos <= Len(Layer.tar)
  PROVE  /\ layer \in DOMAIN archive.layers /\ pos \in DOMAIN Layer.tar
         /\ Entry \in TarEntry /\ Fits(Entry)
<1>1. archive.layers \in Seq(LayerSet) /\ layer \in Nat \ {0} /\ pos \in Nat \ {0}
  BY DEF TreeInv, Formed
<1>2. layer \in 1 .. Len(archive.layers) /\ layer \in DOMAIN archive.layers
  BY <1>1
<1>3. Layer \in LayerSet
  BY <1>1, <1>2, ElementOfSeq, Zenon DEF Layer
<1>4. Layer.tar \in Seq(TarEntry)
  BY <1>3 DEF LayerSet
<1>5. pos \in 1 .. Len(Layer.tar) /\ pos \in DOMAIN Layer.tar
  BY <1>1, <1>4
<1>6. Entry \in TarEntry
  BY <1>4, <1>5, ElementOfSeq, Zenon DEF Entry
<1>7. Fits(Entry)
  BY <1>2, <1>5 DEF TreeInv, Formed, Entry, Layer
<1> QED
  BY <1>2, <1>5, <1>6, <1>7

\* Where an entry spelled in place goes, nothing leads elsewhere.
LEMMA PlacedInPlace ==
  ASSUME TreeInv, InPlace, layer <= Len(archive.layers), pos <= Len(Layer.tar), ~IsWhiteout(Entry)
  PROVE  Place(Entry) = Entry.path
<1>1. /\ layer \in DOMAIN archive.layers /\ pos \in DOMAIN Layer.tar
      /\ Entry \in TarEntry /\ Entry.path \in Paths
  BY EntryFacts DEF TarEntry
<1>2. CASE Len(Entry.path) < 2
  BY <1>2 DEF Place
<1>3. CASE ~(Len(Entry.path) < 2)
  <2> DEFINE e == Entry
             q == Parent(e.path)
  <2>1. e.path \in Paths
    BY <1>1
  <2>2. Len(e.path) = 2 /\ q \in Paths /\ Len(q) = 1 /\ Append(q, e.path[2]) = e.path
    BY <1>3, <2>1, PathFacts, Zenon
  <2>3. Under(q, e.path)
    BY <2>1, <2>2, UnderFacts
  <2>4. ~HasLink(q)
    BY <1>1, <2>3 DEF InPlace, HasLink, Entry, Layer
  <2>5. tree[q].kind # "link"
    BY <2>2, <2>4 DEF TreeInv, Links
  <2>6. Chase(q) = q
    BY <2>5, ChaseEnds
  <2> QED
    BY <2>2, <2>6, <1>3 DEF Place
<1> QED
  BY <1>2, <1>3

\* What an extracted entry becomes.
Extracted == [kind |-> Entry.kind, bit |-> Entry.bit, to |-> Entry.to, from |-> <<layer, pos>>]

\* What is extracted is a node of the tree, and a link is extracted where it is spelled.
LEMMA NodeTypes ==
  ASSUME TreeInv, layer <= Len(archive.layers), pos <= Len(Layer.tar), ~IsWhiteout(Entry)
  PROVE  /\ Extracted \in Node /\ Extracted.kind # "none"
         /\ Extracted.kind \in Links => /\ Extracted.to \in Names /\ Place(Entry) = Entry.path
                                        /\ HasLink(Entry.path)
         /\ Nothing \in Node /\ Folder \in Node
<1>1. Nothing \in Node /\ Folder \in Node
  BY DEF Nothing, Folder, Node, Kinds
<1>2. /\ layer \in DOMAIN archive.layers /\ pos \in DOMAIN Layer.tar
      /\ Entry \in TarEntry /\ Fits(Entry)
  BY EntryFacts
<1>3. Entry.kind \in Kinds \ {"none"} /\ Entry.bit \in BOOLEAN /\ Entry.to \in Names \cup {NoName}
  BY <1>2 DEF TarEntry, IsWhiteout
<1>4. layer \in Nat /\ pos \in Nat
  BY DEF TreeInv
<1>5. Extracted \in Node /\ Extracted.kind # "none"
  BY <1>3, <1>4 DEF Extracted, Node
<1>6. ASSUME Entry.kind \in Links
      PROVE  Entry.to \in Names /\ Place(Entry) = Entry.path /\ HasLink(Entry.path)
  <2>1. Entry.to \in Names /\ Len(Entry.path) = 1
    BY <1>2, <1>3, <1>6 DEF Fits
  <2>2. Len(Entry.path) < 2
    BY <2>1
  <2>3. Place(Entry) = Entry.path
    BY <2>2 DEF Place
  <2> QED
    BY <1>2, <1>6, <2>1, <2>3 DEF HasLink, Entry, Layer
<1> QED
  BY <1>1, <1>5, <1>6 DEF Extracted

\* Every step of `unpack` keeps the types.
LEMMA TreeStep ==
  ASSUME TreeInv, [Next]_vars
  PROVE  TreeInv'
<1>0. /\ layer \in Nat \ {0} /\ pass \in {1, 2} /\ pos \in Nat \ {0}
      /\ pos + 1 \in Nat \ {0} /\ layer + 1 \in Nat \ {0} /\ 3 - pass \in {1, 2} /\ 1 \in Nat \ {0}
  BY DEF TreeInv
<1>f. ASSUME UNCHANGED <<archive, tree>>, setid' \subseteq Paths,
             layer' \in {layer, layer + 1}, pass' \in {pass, 3 - pass}, pos' \in {1, pos, pos + 1},
             walk' \in [on : BOOLEAN, dir : Paths, links : Nat]
      PROVE  TreeInv'
  <2>1. /\ Formed(archive') /\ setid' \subseteq Paths
        /\ layer' \in Nat \ {0} /\ pass' \in {1, 2} /\ pos' \in Nat \ {0}
    BY <1>f, <1>0 DEF TreeInv
  <2>2. tree' = tree /\ \A p : HasLink(p)' <=> HasLink(p)
    BY <1>f DEF HasLink
  <2> QED
    BY <1>f, <2>1, <2>2 DEF TreeInv
<1>i. Idle \in [on : BOOLEAN, dir : Paths, links : Nat]
  BY DEF Idle, Paths
<1>w. walk \in [on : BOOLEAN, dir : Paths, links : Nat] /\ setid \subseteq Paths
  BY DEF TreeInv
<1>1. CASE ReadEntry \/ OpenImage \/ RefuseLayer \/ SkipEntry \/ NextPass \/ Finish \/ Stopped
           \/ WhiteoutNowhere \/ UNCHANGED vars
  <2>1. /\ UNCHANGED <<archive, tree, setid>> /\ walk' \in {walk, Idle}
        /\ layer' \in {layer, layer + 1} /\ pass' \in {pass, 3 - pass} /\ pos' \in {1, pos, pos + 1}
    BY <1>1 DEF ReadEntry, OpenImage, RefuseLayer, SkipEntry, NextPass, Finish, Stopped, WhiteoutNowhere,
                Fail, PassMarker, vars
  <2> QED
    BY <2>1, <1>f, <1>i, <1>w
<1>2. CASE OpenWhiteout
  <2>1. layer <= Len(archive.layers) /\ pos <= Len(Layer.tar) /\ IsWhiteout(Entry)
    BY <1>2 DEF OpenWhiteout, AtEntry, Applying
  <2>2. Entry \in TarEntry /\ Fits(Entry)
    BY <2>1, EntryFacts
  <2>3. Entry.path \in Paths /\ (Entry.kind # "opaque" => Entry.path # <<>>)
    BY <2>2 DEF TarEntry, Fits
  <2>4. Entry.kind # "opaque" => Parent(Entry.path) \in Paths
    <3>1. \A n \in 0 .. 2 : n # 0 => n > 0
      OBVIOUS
    <3> QED
      BY <2>3, <3>1, PathFacts
  <2>5. walk' \in [on : BOOLEAN, dir : Paths, links : Nat]
    BY <1>2, <2>3, <2>4 DEF OpenWhiteout
  <2> QED
    BY <1>2, <2>5, <1>f, <1>w DEF OpenWhiteout
<1>3. CASE FollowLink
  <2>1. walk.dir \in Paths /\ tree[walk.dir].kind \in Links
    BY <1>3, <1>w DEF FollowLink
  <2>2. tree[walk.dir].to \in Names
    BY <2>1 DEF TreeInv
  <2>3. <<tree[walk.dir].to>> \in Paths
    BY <2>2 DEF Paths
  <2>4. walk' = Idle \/ walk' = [walk EXCEPT !.dir = <<tree[walk.dir].to>>, !.links = Count(@)]
    BY <1>3 DEF FollowLink, PassMarker
  <2>5. walk' \in [on : BOOLEAN, dir : Paths, links : Nat]
    <3>1. walk.links + 1 \in Nat /\ Count(walk.links) = walk.links + 1
      BY <1>w DEF Count
    <3>2. CASE walk' = [walk EXCEPT !.dir = <<tree[walk.dir].to>>, !.links = Count(@)]
      <4>1. walk' = [walk EXCEPT !.dir = <<tree[walk.dir].to>>, !.links = walk.links + 1]
        BY <3>1, <3>2
      <4> HIDE DEF Idle
      <4> QED
        BY <4>1, <3>1, <2>3, <1>w
    <3> QED
      BY <3>2, <2>4, <1>i
  <2> QED
    BY <1>3, <2>5, <1>f, <1>w DEF FollowLink, PassMarker
<1>4. CASE ApplyWhiteout
  <2>1. /\ tree' = [p \in Paths |-> IF p \in Gone(Entry) THEN Nothing ELSE tree[p]]
        /\ archive' = archive /\ setid' \subseteq setid /\ layer' = layer /\ pass' = pass
        /\ pos' = pos + 1 /\ walk' = Idle
    BY <1>4 DEF ApplyWhiteout, PassMarker
  <2>2. Nothing \in Node /\ Nothing.kind = "none" /\ "none" \notin Links
    BY DEF Nothing, Node, Kinds, Links
  <2>3. tree' \in [Paths -> Node]
    BY <2>1, <2>2 DEF TreeInv
  <2>4. \A p \in Paths : tree'[p] = Nothing \/ tree'[p] = tree[p]
    BY <2>1
  <2>5. \A p : HasLink(p)' <=> HasLink(p)
    BY <2>1 DEF HasLink
  <2>6. \A p \in Paths : /\ tree'[p].kind = "none" => tree'[p] = Nothing
                         /\ tree'[p].kind \in Links => tree'[p].to \in Names /\ HasLink(p)'
    BY <2>2, <2>4, <2>5 DEF TreeInv
  <2>7. Formed(archive')
    BY <2>1 DEF TreeInv
  <2> QED
    BY <2>1, <2>3, <2>6, <2>7, <1>0, <1>i, <1>w DEF TreeInv
<1>5. CASE ExtractFile
  <2>1. layer <= Len(archive.layers) /\ pos <= Len(Layer.tar) /\ ~IsWhiteout(Entry)
    BY <1>5 DEF ExtractFile, AtEntry, Applying
  <2>2. Entry.path \in Paths
    BY <2>1, EntryFacts DEF TarEntry
  <2>3. setid' \subseteq Paths /\ UNCHANGED <<archive, layer, pass, walk>> /\ pos' \in {pos, pos + 1}
    BY <1>5, <2>2, <1>w DEF ExtractFile, Recorded, Fail
  <2>4. CASE tree' = tree
    BY <2>3, <2>4, <1>f, <1>w
  <2>5. CASE tree' = [p \in Paths |->
             IF p = Place(Entry) THEN Extracted
             ELSE IF p = Parent(Place(Entry)) /\ tree[p].kind = "none" THEN Folder ELSE tree[p]]
    <3>1. /\ Extracted \in Node /\ Extracted.kind # "none"
          /\ Extracted.kind \in Links => /\ Extracted.to \in Names /\ Place(Entry) = Entry.path
                                         /\ HasLink(Entry.path)
          /\ Nothing \in Node /\ Folder \in Node
      BY <2>1, NodeTypes
    <3>2. tree' \in [Paths -> Node]
      BY <2>5, <3>1 DEF TreeInv
    <3>3. Folder.kind = "dir" /\ "dir" \notin Links
      BY DEF Folder, Nothing, Links
    <3>4. \A p : HasLink(p)' <=> HasLink(p)
      BY <2>3 DEF HasLink
    <3>5. \A p \in Paths : \/ tree'[p] = Extracted /\ p = Place(Entry)
                           \/ tree'[p] = Folder \/ tree'[p] = tree[p]
      BY <2>5
    <3>6. \A p \in Paths : /\ tree'[p].kind = "none" => tree'[p] = Nothing
                           /\ tree'[p].kind \in Links => tree'[p].to \in Names /\ HasLink(p)'
      BY <3>1, <3>3, <3>4, <3>5 DEF TreeInv
    <3>7. Formed(archive')
      BY <2>3 DEF TreeInv
    <3> QED
      BY <2>3, <3>2, <3>6, <3>7, <1>0, <1>w DEF TreeInv
  <2> QED
    BY <1>5, <2>4, <2>5 DEF ExtractFile, Fail, Extracted
<1> QED
  BY <1>1, <1>2, <1>3, <1>4, <1>5 DEF Next

\* Every step of `unpack` keeps the record that of the tree.
LEMMA ReportStep ==
  ASSUME TreeInv, ReportInv, [Next]_vars
  PROVE  ReportInv'
<1> SUFFICES ASSUME outcome' # "failed", InPlace' PROVE setid' = {p \in Paths : tree'[p].bit}
  BY DEF ReportInv
<1>1. archive' = archive /\ (outcome = "failed" => UNCHANGED <<tree, setid, outcome>>)
  BY DEF Next, ReadEntry, OpenImage, RefuseLayer, SkipEntry, NextPass, Finish, OpenWhiteout, FollowLink,
         WhiteoutNowhere, ApplyWhiteout, ExtractFile, Stopped, PassMarker, Fail, vars, AtEntry, Applying
<1>2. InPlace /\ outcome # "failed"
  BY <1>1 DEF InPlace
<1>3. setid = {p \in Paths : tree[p].bit} /\ setid \subseteq Paths /\ tree \in [Paths -> Node]
  BY <1>2 DEF ReportInv, TreeInv
<1>4. CASE UNCHANGED <<tree, setid>>
  BY <1>3, <1>4
<1>5. CASE ApplyWhiteout
  <2>1. /\ tree' = [p \in Paths |-> IF p \in Gone(Entry) THEN Nothing ELSE tree[p]]
        /\ setid' = setid \ Forgotten(Entry)
    BY <1>5 DEF ApplyWhiteout
  <2>2. \A p \in Paths : p \in setid => (p \in Forgotten(Entry) <=> p \in Gone(Entry))
    BY <1>3 DEF Gone, Forgotten
  <2>3. Nothing.bit = FALSE
    BY DEF Nothing
  <2> HIDE DEF Nothing
  <2> QED
    BY <1>3, <2>1, <2>2, <2>3
<1>6. CASE ExtractFile /\ ~UNCHANGED tree
  <2>1. layer <= Len(archive.layers) /\ pos <= Len(Layer.tar) /\ ~IsWhiteout(Entry)
    BY <1>6 DEF ExtractFile, AtEntry, Applying
  <2>2. Place(Entry) = Entry.path /\ Entry.path \in Paths /\ Entry.bit \in BOOLEAN
    BY <2>1, <1>2, PlacedInPlace, EntryFacts DEF TarEntry
  <2>3. /\ setid' = Recorded(Entry)
        /\ tree' = [p \in Paths |->
             IF p = Entry.path THEN Extracted
             ELSE IF p = Parent(Entry.path) /\ tree[p].kind = "none" THEN Folder ELSE tree[p]]
    BY <1>6, <2>2 DEF ExtractFile, Fail, Extracted
  <2>4. Extracted.bit = Entry.bit /\ Folder.bit = FALSE /\ Nothing.bit = FALSE
    BY DEF Extracted, Folder, Nothing
  <2>5. \A p \in Paths : tree[p].kind = "none" => tree[p].bit = FALSE
    BY <2>4 DEF TreeInv
  <2>6. \A p \in Paths : tree'[p].bit <=> IF p = Entry.path THEN Entry.bit ELSE tree[p].bit
    BY <2>3, <2>4, <2>5, <1>3 DEF Node
  <2>7. \A p \in Paths : p \in setid' <=> IF p = Entry.path THEN Entry.bit ELSE p \in setid
    BY <2>2, <2>3 DEF Recorded
  <2>8. setid' \subseteq Paths
    BY <2>2, <2>3, <1>3 DEF Recorded
  <2> QED
    BY <1>3, <2>6, <2>7, <2>8
<1>7. CASE ExtractFile /\ UNCHANGED tree
  <2>1. layer <= Len(archive.layers) /\ pos <= Len(Layer.tar) /\ ~IsWhiteout(Entry)
    BY <1>7 DEF ExtractFile, AtEntry, Applying
  <2>2. Place(Entry) = Entry.path /\ Entry.path \in Paths /\ Entry.bit \in BOOLEAN
    BY <2>1, <1>2, PlacedInPlace, EntryFacts DEF TarEntry
  <2>3. setid' = Recorded(Entry) /\ tree'[Entry.path] = Extracted
    BY <1>7, <2>2 DEF ExtractFile, Fail, Extracted
  <2>4. tree[Entry.path].bit = Entry.bit
    BY <1>7, <2>3 DEF Extracted
  <2> QED
    BY <1>3, <1>7, <2>2, <2>3, <2>4 DEF Recorded
<1> QED
  <2>1. \/ UNCHANGED <<tree, setid>> \/ ApplyWhiteout \/ ExtractFile
    BY DEF Next, ReadEntry, OpenImage, RefuseLayer, SkipEntry, NextPass, Finish, OpenWhiteout, FollowLink,
           WhiteoutNowhere, Stopped, PassMarker, Fail, vars
  <2> QED
    BY <2>1, <1>4, <1>5, <1>6, <1>7

--------------------------------------------------------------------------------
\* `unpack`: the overlay.

\* No layer holds a link.
NoLinks == \A l \in DOMAIN archive.layers : \A k \in DOMAIN archive.layers[l].tar :
             archive.layers[l].tar[k].kind \notin Links

\* Entry `k` of layer `l`.
E(l, k) == archive.layers[l].tar[k]
IsEntry(l, k) == l \in DOMAIN archive.layers /\ k \in DOMAIN archive.layers[l].tar

\* The files and the whiteouts that have been applied.
FileDone(l, k) == l < layer \/ (l = layer /\ pass = 2 /\ k < pos)
MarkDone(l, k) == l < layer \/ (l = layer /\ (pass = 2 \/ k < pos))

\* What a whiteout removes, and whether an applied one of a later layer has removed a path.
Kills(e, p) == \/ e.kind = "whiteout" /\ (e.path = p \/ Under(e.path, p))
               \/ e.kind = "opaque" /\ Under(e.path, p)
Killed(l, p) == \E m, j : IsEntry(m, j) /\ l < m /\ MarkDone(m, j) /\ Kills(E(m, j), p)

\* An applied entry of the path that no later applied layer removed.
IsLive(l, k, p) ==
  /\ IsEntry(l, k) /\ ~IsWhiteout(E(l, k)) /\ E(l, k).path = p
  /\ FileDone(l, k) /\ ~Killed(l, p)

\* The node is of the last entry alive, or no entry is and it is a directory that was needed.
OfLive(p) ==
  \/ tree[p] \in {Nothing, Folder} /\ \A l, k : ~IsLive(l, k, p)
  \/ \E l, k : /\ IsLive(l, k, p) /\ tree[p].from = <<l, k>> /\ tree[p].kind = E(l, k).kind
               /\ \A m, j : IsLive(m, j, p) => m < l \/ (m = l /\ j <= k)

\* The tree is the overlay of what has been applied.
OverlayOf ==
  /\ tree[<<>>] = Folder
  /\ \A p \in Paths \ {<<>>} : OfLive(p) /\ (tree[p].kind # "none" => tree[Parent(p)].kind = "dir")

\* A whiteout is followed where it is spelled, unless links lead elsewhere.
WalkInv ==
  walk.on => /\ layer <= Len(archive.layers) /\ pos <= Len(Layer.tar) /\ pass = 1 /\ IsWhiteout(Entry)
             /\ NoLinks => walk.dir = IF Entry.kind = "opaque" THEN Entry.path ELSE Parent(Entry.path)

\* Nothing is applied while the archive is read.
StartInv == outcome \in {"packing", "reading"} =>
              /\ layer = 1 /\ pass = 1 /\ walk = Idle
              /\ tree = [p \in Paths |-> IF p = <<>> THEN Folder ELSE Nothing]

\* The overlay at every point of the applying.
OverlayInv ==
  /\ WalkInv /\ StartInv
  /\ NoLinks /\ outcome \in {"applying", "done"} => OverlayOf
  /\ outcome = "done" => layer > Len(archive.layers)

\* Positions are numbers.
LEMMA EntryNumbers ==
  ASSUME Formed(archive), NEW l, NEW k, IsEntry(l, k)
  PROVE  l \in Nat \ {0} /\ k \in Nat \ {0} /\ E(l, k) \in TarEntry /\ Fits(E(l, k))
<1>1. archive.layers \in Seq(LayerSet) /\ l \in DOMAIN archive.layers
  BY DEF Formed, IsEntry
<1>2. archive.layers[l] \in LayerSet /\ l \in Nat \ {0}
  BY <1>1
<1>3. archive.layers[l].tar \in Seq(TarEntry) /\ k \in DOMAIN archive.layers[l].tar
  BY <1>2 DEF LayerSet, IsEntry
<1>4. archive.layers[l].tar[k] \in TarEntry /\ k \in Nat \ {0}
  BY <1>3
<1> QED
  BY <1>1, <1>2, <1>3, <1>4 DEF Formed, E

\* Only whiteouts remove.
LEMMA KillsAreWhiteouts == ASSUME NEW e, NEW p, Kills(e, p) PROVE IsWhiteout(e)
BY DEF Kills, IsWhiteout, Whiteouts

\* What is alive depends on the files and whiteouts applied and on nothing else.
LEMMA LiveKept ==
  ASSUME archive' = archive,
         \A l, k : IsEntry(l, k) /\ ~IsWhiteout(E(l, k)) => (FileDone(l, k)' <=> FileDone(l, k)),
         \A l, k : IsEntry(l, k) /\ IsWhiteout(E(l, k)) => (MarkDone(l, k)' <=> MarkDone(l, k))
  PROVE  \A l, k, p : IsLive(l, k, p)' <=> IsLive(l, k, p)
<1>1. \A l, k : (IsEntry(l, k)' <=> IsEntry(l, k)) /\ E(l, k)' = E(l, k)
  BY DEF IsEntry, E
<1>2. \A l, p : Killed(l, p)' <=> Killed(l, p)
  BY <1>1, KillsAreWhiteouts DEF Killed
<1> QED
  BY <1>1, <1>2 DEF IsLive

\* An overlay is one of the same entries alive.
LEMMA OverlayKept ==
  ASSUME OverlayOf, tree' = tree, archive' = archive,
         \A l, k, p : IsLive(l, k, p)' <=> IsLive(l, k, p)
  PROVE  OverlayOf'
<1>1. \A l, k : E(l, k)' = E(l, k)
  BY DEF E
<1>2. \A p : OfLive(p)' <=> OfLive(p)
  BY <1>1 DEF OfLive
<1> QED
  BY <1>2 DEF OverlayOf

\* Without a link in the archive there is none in the tree, and all is spelled in place.
LEMMA LinkFree ==
  ASSUME TreeInv, NoLinks, NEW p \in Paths
  PROVE  tree[p].kind \notin Links /\ InPlace
BY DEF TreeInv, HasLink, NoLinks, InPlace

\* A whiteout takes what it names out of what is alive.
LEMMA MarkApplied ==
  ASSUME TreeInv, UNCHANGED <<archive, layer, pass>>, pass = 1, pos' = pos + 1,
         layer <= Len(archive.layers), pos <= Len(Layer.tar), IsWhiteout(Entry)
  PROVE  \A l, k, p : IsLive(l, k, p)' <=> IsLive(l, k, p) /\ ~Kills(Entry, p)
<1>0. Formed(archive) /\ layer \in Nat \ {0} /\ pos \in Nat \ {0}
  BY DEF TreeInv
<1>1. \A l, k : (IsEntry(l, k)' <=> IsEntry(l, k)) /\ E(l, k)' = E(l, k)
  BY DEF IsEntry, E
<1>2. IsEntry(layer, pos) /\ Entry = E(layer, pos)
  BY EntryFacts DEF IsEntry, Entry, Layer, E
<1>3. \A l, k : IsEntry(l, k) => l \in Nat /\ k \in Nat
  BY <1>0, EntryNumbers
<1>4. \A l, k : IsEntry(l, k) => (FileDone(l, k)' <=> l < layer) /\ (FileDone(l, k) <=> l < layer)
  BY DEF FileDone
<1>5. \A l, k : IsEntry(l, k) => (MarkDone(l, k)' <=> MarkDone(l, k) \/ (l = layer /\ k = pos))
  BY <1>0, <1>3 DEF MarkDone
<1>6. ~MarkDone(layer, pos)
  BY <1>0 DEF MarkDone
<1>7. ASSUME NEW l, NEW p, l < layer PROVE Killed(l, p)' <=> Killed(l, p) \/ Kills(Entry, p)
  BY <1>1, <1>2, <1>5, <1>7 DEF Killed
<1> QED
  BY <1>1, <1>4, <1>7 DEF IsLive

\* An entry that is extracted is alive, and nothing else changes.
LEMMA FileApplied ==
  ASSUME TreeInv, UNCHANGED <<archive, layer, pass>>, pass = 2, pos' = pos + 1,
         layer <= Len(archive.layers), pos <= Len(Layer.tar), ~IsWhiteout(Entry)
  PROVE  \A l, k, p : IsLive(l, k, p)' <=> IsLive(l, k, p) \/ (l = layer /\ k = pos /\ p = Entry.path)
<1>0. Formed(archive) /\ layer \in Nat \ {0} /\ pos \in Nat \ {0}
  BY DEF TreeInv
<1>1. \A l, k : (IsEntry(l, k)' <=> IsEntry(l, k)) /\ E(l, k)' = E(l, k)
  BY DEF IsEntry, E
<1>2. IsEntry(layer, pos) /\ Entry = E(layer, pos)
  BY EntryFacts DEF IsEntry, Entry, Layer, E
<1>3. \A l, k : IsEntry(l, k) => l \in Nat /\ k \in Nat
  BY <1>0, EntryNumbers
<1>4. \A l, k : IsEntry(l, k) => (FileDone(l, k)' <=> FileDone(l, k) \/ (l = layer /\ k = pos))
  BY <1>0, <1>3 DEF FileDone
<1>5. \A l, k : IsEntry(l, k) => (MarkDone(l, k)' <=> MarkDone(l, k))
  BY DEF MarkDone
<1>6. \A l, k : IsEntry(l, k) /\ layer < l => ~MarkDone(l, k)
  BY <1>0, <1>3 DEF MarkDone
<1>7. \A l, p : Killed(l, p)' <=> Killed(l, p)
  BY <1>1, <1>5 DEF Killed
<1>8. \A p : ~Killed(layer, p)
  BY <1>6 DEF Killed
<1> QED
  BY <1>1, <1>2, <1>4, <1>7, <1>8 DEF IsLive

\* What a whiteout kills is what it takes from the tree, if it lands where it is spelled.
LEMMA KilledIsGone ==
  ASSUME TreeInv, layer <= Len(archive.layers), pos <= Len(Layer.tar), IsWhiteout(Entry),
         walk.dir = IF Entry.kind = "opaque" THEN Entry.path ELSE Parent(Entry.path)
  PROVE  /\ \A p \in Paths : Kills(Entry, p) <=> p \in Gone(Entry)
         /\ Entry.path \in Paths /\ <<>> \notin Gone(Entry)
         /\ Entry.kind # "opaque" => Entry.path # <<>>
<1>1. Entry \in TarEntry /\ Fits(Entry)
  BY EntryFacts
<1>2. Entry.path \in Paths /\ (Entry.kind # "opaque" => Entry.path # <<>>)
  BY <1>1 DEF TarEntry, Fits
<1>3. Entry.kind # "opaque" => Append(Parent(Entry.path), Entry.path[Len(Entry.path)]) = Entry.path
  <2>1. \A n \in 0 .. 2 : n # 0 => n > 0
    OBVIOUS
  <2> QED
    BY <2>1, <1>2, PathFacts
<1>4. Landed(Entry) = Entry.path
  BY <1>3 DEF Landed
<1>5. <<>> \in Paths /\ Len(<<>>) = 0
  BY DEF Paths
<1>6. ~Under(Entry.path, <<>>)
  <2>1. ~(\E n \in 0 .. 2 : n < 0) /\ Len(Entry.path) \in 0 .. 2
    BY <1>2, PathFacts
  <2> QED
    BY <2>1, <1>5 DEF Under
<1> QED
  BY <1>2, <1>4, <1>5, <1>6 DEF Kills, Gone, IsWhiteout, Whiteouts

\* Before the first layer nothing is alive.
LEMMA OverlayStarts ==
  ASSUME TreeInv, StartInv, outcome \in {"packing", "reading"}
  PROVE  OverlayOf
<1>1. tree = [p \in Paths |-> IF p = <<>> THEN Folder ELSE Nothing] /\ layer = 1 /\ pass = 1
  BY DEF StartInv
<1>2. <<>> \in Paths /\ Nothing.kind = "none"
  BY DEF Paths, Nothing
<1>3. \A l, k, p : ~IsLive(l, k, p)
  BY <1>1, EntryNumbers DEF TreeInv, IsLive, FileDone
<1> QED
  BY <1>1, <1>2, <1>3 DEF OverlayOf, OfLive

\* A layer is finite.
LEMMA LayerLength ==
  ASSUME TreeInv, layer <= Len(archive.layers)
  PROVE  Len(Layer.tar) \in Nat
<1>1. archive.layers \in Seq(LayerSet) /\ layer \in 1 .. Len(archive.layers)
  BY DEF TreeInv, Formed
<1>2. Layer \in LayerSet
  BY <1>1, ElementOfSeq, Zenon DEF Layer
<1> QED
  BY <1>2 DEF LayerSet

\* Every step keeps a whiteout where it is spelled.
LEMMA WalkStep ==
  ASSUME TreeInv, OverlayInv, [Next]_vars
  PROVE  WalkInv'
<1> SUFFICES ASSUME walk'.on
             PROVE  /\ layer' <= Len(archive'.layers) /\ pos' <= Len(Layer'.tar) /\ pass' = 1
                    /\ IsWhiteout(Entry')
                    /\ NoLinks' => walk'.dir = IF Entry'.kind = "opaque" THEN Entry'.path ELSE Parent(Entry'.path)
  BY DEF WalkInv
<1>0. Idle.on = FALSE
  BY DEF Idle
<1>1. CASE OpenWhiteout
  <2>1. /\ layer <= Len(archive.layers) /\ pos <= Len(Layer.tar) /\ pass = 1 /\ IsWhiteout(Entry)
        /\ UNCHANGED <<archive, layer, pos, pass>>
        /\ walk'.dir = IF Entry.kind = "opaque" THEN Entry.path ELSE Parent(Entry.path)
    BY <1>1 DEF OpenWhiteout, AtEntry, Applying, InPass
  <2>2. Layer' = Layer /\ Entry' = Entry
    BY <2>1 DEF Layer, Entry
  <2> QED
    BY <2>1, <2>2
<1>2. CASE UNCHANGED <<archive, layer, pos, pass, walk>>
  <2>1. Layer' = Layer /\ Entry' = Entry /\ NoLinks' = NoLinks
    BY <1>2 DEF Layer, Entry, NoLinks
  <2> QED
    BY <1>2, <2>1 DEF OverlayInv, WalkInv
<1>3. CASE FollowLink
  <2>1. /\ UNCHANGED <<archive, layer, pos, pass>> /\ walk.on /\ tree[walk.dir].kind \in Links
    BY <1>3, <1>0 DEF FollowLink, PassMarker
  <2>2. Layer' = Layer /\ Entry' = Entry /\ NoLinks' = NoLinks
    BY <2>1 DEF Layer, Entry, NoLinks
  <2>3. walk.dir \in Paths
    BY DEF TreeInv
  <2>4. ~NoLinks
    BY <2>1, <2>3, LinkFree
  <2> QED
    BY <2>1, <2>2, <2>4 DEF OverlayInv, WalkInv
<1>4. CASE ReadEntry \/ OpenImage
  BY <1>4, <1>0 DEF ReadEntry, OpenImage, OverlayInv, StartInv, Fail
<1>5. CASE SkipEntry \/ ExtractFile \/ NextPass \/ Finish \/ PassMarker
  <2>1. CASE SkipEntry \/ (ExtractFile /\ UNCHANGED walk) \/ PassMarker
    BY <2>1, <1>0 DEF SkipEntry, ExtractFile, AtEntry, PassMarker
  <2>2. CASE NextPass
    <3>1. layer <= Len(archive.layers) /\ pos > Len(Layer.tar) /\ walk' = walk
      BY <2>2 DEF NextPass, Applying
    <3>2. Len(Layer.tar) \in Nat /\ pos \in Nat
      BY <3>1, LayerLength DEF TreeInv
    <3> QED
      BY <3>1, <3>2 DEF OverlayInv, WalkInv
  <2>3. CASE Finish
    BY <2>3, <1>2 DEF Finish
  <2> QED
    BY <1>5, <2>1, <2>2, <2>3 DEF ExtractFile, Fail
<1> QED
  BY <1>1, <1>2, <1>3, <1>4, <1>5
     DEF Next, RefuseLayer, WhiteoutNowhere, ApplyWhiteout, Stopped, Fail, vars

\* Nothing is alive where nothing is.
LEMMA NothingAlive ==
  ASSUME TreeInv, OverlayOf, NEW p \in Paths \ {<<>>}, tree[p].kind = "none"
  PROVE  \A l, k : ~IsLive(l, k, p)
<1>1. ASSUME NEW l, NEW k, IsEntry(l, k), ~IsWhiteout(E(l, k)) PROVE E(l, k).kind # "none"
  BY <1>1, EntryNumbers DEF TreeInv, TarEntry, IsWhiteout
<1> QED
  BY <1>1 DEF OverlayOf, OfLive, IsLive

\* A whiteout over nothing: what it names was gone before.
LEMMA OverlayNowhere ==
  ASSUME TreeInv, OverlayInv, NoLinks, outcome = "applying", WhiteoutNowhere, outcome' = "applying"
  PROVE  OverlayOf'
<1>1. /\ tree[walk.dir].kind = "none" /\ walk.on /\ UNCHANGED <<archive, layer, pass, tree>> /\ pos' = pos + 1
  BY DEF WhiteoutNowhere, PassMarker, Fail
<1>2. /\ layer <= Len(archive.layers) /\ pos <= Len(Layer.tar) /\ pass = 1 /\ IsWhiteout(Entry)
      /\ walk.dir = IF Entry.kind = "opaque" THEN Entry.path ELSE Parent(Entry.path)
  BY <1>1 DEF OverlayInv, WalkInv
<1>3. OverlayOf /\ walk.dir \in Paths
  BY DEF OverlayInv, TreeInv
<1>4. walk.dir # <<>> /\ <<>> \in Paths
  BY <1>1, <1>3 DEF OverlayOf, Folder, Nothing, Paths
<1>5. ASSUME NEW p \in Paths, Kills(Entry, p) PROVE p # <<>> /\ Parent(p) = walk.dir
  <2>1. Entry.path \in Paths
    BY <1>2, KilledIsGone
  <2>2. CASE Entry.kind = "opaque"
    <3>1. Under(walk.dir, p)
      BY <1>2, <1>5, <2>2 DEF Kills
    <3> QED
      BY <1>3, <1>4, <3>1, UnderFacts, PathFacts
  <2>3. CASE Entry.kind # "opaque"
    <3>1. walk.dir = Parent(Entry.path)
      BY <1>2, <2>3
    <3>2. Len(Entry.path) \in 0 .. 2 /\ Len(Entry.path) # 0
      <4>1. Entry.path # <<>>
        BY <1>2, <2>3, KilledIsGone
      <4> QED
        BY <2>1, <4>1, PathFacts
    <3>3. Len(walk.dir) # 0
      BY <1>3, <1>4, PathFacts
    <3>4. Len(Entry.path) # 1
      BY <1>4, <2>1, <3>1, PathFacts
    <3>5. ~Under(Entry.path, p) /\ Len(Entry.path) # 0
      BY <2>1, <3>2, <3>4, UnderFacts, PathFacts
    <3>6. p = Entry.path
      BY <1>5, <2>3, <3>5 DEF Kills
    <3> QED
      BY <3>1, <3>2, <3>6, <2>1, PathFacts
  <2> QED
    BY <2>2, <2>3
<1>6. ASSUME NEW p \in Paths, Kills(Entry, p) PROVE \A l, k : ~IsLive(l, k, p)
  <2>1. p # <<>> /\ Parent(p) = walk.dir
    BY <1>5, <1>6
  <2>2. tree[p].kind = "none"
    BY <2>1, <1>1, <1>3 DEF OverlayOf
  <2> QED
    BY <2>1, <2>2, <1>3, NothingAlive
<1>7. \A l, k, p : IsLive(l, k, p)' <=> IsLive(l, k, p)
  <2>1. \A l, k, p : IsLive(l, k, p)' <=> IsLive(l, k, p) /\ ~Kills(Entry, p)
    BY <1>1, <1>2, MarkApplied
  <2>2. \A l, k, p : IsLive(l, k, p) => p \in Paths
    BY EntryNumbers DEF TreeInv, IsLive, TarEntry
  <2> QED
    BY <2>1, <2>2, <1>6
<1> QED
  BY <1>1, <1>3, <1>7, OverlayKept

\* A whiteout that lands: the tree loses what it kills, and keeps the directories of the rest.
LEMMA OverlayApplied ==
  ASSUME TreeInv, OverlayInv, NoLinks, outcome = "applying", ApplyWhiteout
  PROVE  OverlayOf'
<1>1. /\ walk.on /\ UNCHANGED <<archive, layer, pass>> /\ pos' = pos + 1
      /\ tree' = [p \in Paths |-> IF p \in Gone(Entry) THEN Nothing ELSE tree[p]]
  BY DEF ApplyWhiteout, PassMarker
<1>2. /\ layer <= Len(archive.layers) /\ pos <= Len(Layer.tar) /\ pass = 1 /\ IsWhiteout(Entry)
      /\ walk.dir = IF Entry.kind = "opaque" THEN Entry.path ELSE Parent(Entry.path)
  BY <1>1 DEF OverlayInv, WalkInv
<1>3. OverlayOf /\ <<>> \in Paths /\ Nothing.kind = "none"
  BY DEF OverlayInv, Paths, Nothing
<1>4. /\ \A p \in Paths : Kills(Entry, p) <=> p \in Gone(Entry)
      /\ Entry.path \in Paths /\ <<>> \notin Gone(Entry)
  BY <1>2, KilledIsGone
<1>5. \A l, k, p : IsLive(l, k, p)' <=> IsLive(l, k, p) /\ ~Kills(Entry, p)
  BY <1>1, <1>2, MarkApplied
<1>6. tree'[<<>>] = Folder
  BY <1>1, <1>3, <1>4 DEF OverlayOf
<1>7. \A l, k : E(l, k)' = E(l, k)
  BY <1>1 DEF E
<1>8. ASSUME NEW p \in Paths \ {<<>>}
      PROVE  OfLive(p)' /\ (tree'[p].kind # "none" => tree'[Parent(p)].kind = "dir")
  <2>1. CASE p \in Gone(Entry)
    <3>1. tree'[p] = Nothing /\ \A l, k : ~IsLive(l, k, p)'
      BY <1>1, <1>4, <1>5, <2>1
    <3> QED
      BY <3>1, <1>3 DEF OfLive
  <2>2. CASE p \notin Gone(Entry)
    <3>1. tree'[p] = tree[p] /\ \A l, k : IsLive(l, k, p)' <=> IsLive(l, k, p)
      BY <1>1, <1>4, <1>5, <2>2
    <3>2. OfLive(p)'
      BY <3>1, <1>3, <1>7 DEF OfLive, OverlayOf
    <3>3. ASSUME tree[p].kind # "none" PROVE tree'[Parent(p)].kind = "dir"
      <4>1. tree[Parent(p)].kind = "dir"
        BY <3>3, <1>3 DEF OverlayOf
      <4>2. Parent(p) \in Paths /\ (Parent(p) # <<>> => Len(Parent(p)) = 1 /\ Len(p) = 2)
        <5>1. Len(p) \in {1, 2}
          BY PathFacts
        <5> QED
          BY <5>1, PathFacts, <1>3
      <4>3. Parent(p) \notin Gone(Entry)
        <5> SUFFICES ASSUME Parent(p) \in Gone(Entry) PROVE Kills(Entry, p)
          BY <1>4, <2>2
        <5>1. Kills(Entry, Parent(p)) /\ Parent(p) # <<>>
          BY <1>4, <4>2
        <5>2. Under(Parent(p), p)
          BY <4>2, <5>1, UnderFacts
        <5>3. Under(Entry.path, Parent(p)) => Entry.path = <<>>
          BY <1>4, <4>2, <5>1, UnderFacts
        <5>4. Entry.path = <<>> => Under(Entry.path, p)
          BY <1>4, UnderFacts
        <5> QED
          BY <5>1, <5>2, <5>3, <5>4 DEF Kills
      <4> QED
        BY <1>1, <4>1, <4>2, <4>3
    <3> QED
      BY <3>1, <3>2, <3>3
  <2> QED
    BY <2>1, <2>2
<1> QED
  BY <1>6, <1>8 DEF OverlayOf

\* An entry that is extracted hides what had its path, and has its directory.
LEMMA OverlayExtracted ==
  ASSUME TreeInv, OverlayInv, NoLinks, outcome = "applying", ExtractFile, outcome' = "applying"
  PROVE  OverlayOf'
<1> DEFINE a == Entry.path
           b == Parent(a)
<1>1. /\ layer <= Len(archive.layers) /\ pos <= Len(Layer.tar) /\ ~IsWhiteout(Entry) /\ pass = 2
      /\ UNCHANGED <<archive, layer, pass>> /\ pos' = pos + 1 /\ Extractable(Entry)
      /\ tree' = [p \in Paths |->
             IF p = Place(Entry) THEN Extracted
             ELSE IF p = Parent(Place(Entry)) /\ tree[p].kind = "none" THEN Folder ELSE tree[p]]
  <2>1. ~Fail
    BY DEF Fail
  <2>2. (pass = 1) = FALSE
    BY DEF ExtractFile, InPass, IsWhiteout
  <2> QED
    BY <2>1, <2>2 DEF ExtractFile, AtEntry, Applying, Extracted, TreeInv
<1>2. a \in Paths /\ a # <<>> /\ b \in Paths /\ b # a /\ (b # <<>> => Len(a) = 2 /\ Len(b) = 1)
  <2>1. Entry \in TarEntry /\ Fits(Entry)
    BY <1>1, EntryFacts
  <2>2. a \in Paths /\ a # <<>>
    BY <2>1, <1>1 DEF TarEntry, Fits, IsWhiteout, Whiteouts
  <2>3. Len(a) = 1 \/ Len(a) = 2
    BY <2>2, PathFacts
  <2> QED
    BY <2>2, <2>3, PathFacts DEF Paths
<1>3. Place(Entry) = a
  <2>1. InPlace
    BY <1>2, LinkFree
  <2> QED
    BY <1>1, <2>1, PlacedInPlace
<1>4. /\ tree' = [p \in Paths |->
           IF p = a THEN Extracted ELSE IF p = b /\ tree[p].kind = "none" THEN Folder ELSE tree[p]]
      /\ tree[b].kind = "dir" \/ tree[b].kind = "none"
      /\ IF Entry.kind = "dir" THEN tree[a].kind \in {"none", "dir"} ELSE tree[a].kind # "dir"
  BY <1>1, <1>3 DEF Extractable
<1>5. OverlayOf /\ Formed(archive) /\ <<>> \in Paths /\ Folder.kind = "dir"
  BY DEF OverlayInv, TreeInv, Folder, Nothing, Paths
<1>6. \A l, k, p : IsLive(l, k, p)' <=> IsLive(l, k, p) \/ (l = layer /\ k = pos /\ p = a)
  BY <1>1, FileApplied
<1>7. \A l, k : E(l, k)' = E(l, k)
  BY <1>1 DEF E
<1>8. Entry = E(layer, pos) /\ Extracted.kind = Entry.kind /\ Extracted.from = <<layer, pos>>
  BY DEF Entry, Layer, E, Extracted
<1> HIDE DEF a, b
<1>9. tree'[<<>>] = Folder /\ tree'[b].kind = "dir"
  BY <1>2, <1>4, <1>5 DEF OverlayOf
<1>10. ASSUME NEW p \in Paths \ {<<>>} PROVE OfLive(p)'
  <2>1. CASE p = a
    <3>1. PICK n, m : n = layer /\ m = pos
      OBVIOUS
    <3>2. \A l, k : IsLive(l, k, p)' <=> IsLive(l, k, p) \/ (l = n /\ k = m)
      BY <1>6, <2>1, <3>1
    <3>3. n \in Nat /\ m \in Nat /\ n <= n /\ m <= m
      BY <3>1 DEF TreeInv
    <3>4. \A l, k : IsLive(l, k, p) => l < n \/ (l = n /\ k <= m)
      <4>1. \A l, k : IsLive(l, k, p) => l \in Nat /\ k \in Nat /\ FileDone(l, k)
        BY <1>5, EntryNumbers DEF IsLive
      <4>2. \A l, k : IsLive(l, k, p) => l \in Nat /\ k \in Nat /\ (l < n \/ (l = n /\ k < m))
        BY <4>1, <3>1 DEF FileDone
      <4> QED
        BY <4>2, <3>3
    <3>5. tree'[p] = Extracted
      BY <2>1, <1>2, <1>4
    <3>6. tree'[p].from = <<n, m>> /\ tree'[p].kind = E(n, m)'.kind
      BY <3>1, <3>5, <1>7, <1>8
    <3>7. IsLive(n, m, p)' /\ \A l, k : IsLive(l, k, p)' => l < n \/ (l = n /\ k <= m)
      BY <3>2, <3>3, <3>4
    <3> QED
      BY <3>6, <3>7 DEF OfLive
  <2>2. CASE p # a
    <3>1. \A l, k : IsLive(l, k, p)' <=> IsLive(l, k, p)
      BY <1>6, <2>2
    <3>2. CASE tree'[p] = tree[p]
      BY <3>1, <3>2, <1>5, <1>7 DEF OfLive, OverlayOf
    <3>3. CASE tree'[p] = Folder /\ tree[p].kind = "none"
      <4>1. \A l, k : ~IsLive(l, k, p)'
        BY <3>1, <3>3, <1>5, NothingAlive
      <4> QED
        BY <3>3, <4>1 DEF OfLive
    <3> QED
      BY <2>2, <3>2, <3>3, <1>4
  <2> QED
    BY <2>1, <2>2
<1>11. ASSUME NEW p \in Paths \ {<<>>}, tree'[p].kind # "none" PROVE tree'[Parent(p)].kind = "dir"
  <2>0. Parent(p) \in Paths
    <3>1. Len(p) = 1 \/ Len(p) = 2
      BY PathFacts
    <3> QED
      BY <3>1, PathFacts, <1>5
  <2>1. CASE p = a
    BY <2>1, <1>9 DEF b
  <2>2. CASE p = b
    <3>1. Parent(p) = <<>>
      BY <2>2, <1>2, PathFacts
    <3> QED
      BY <3>1, <1>9, <1>5
  <2>3. CASE p # a /\ p # b
    <3>1. tree[p].kind # "none"
      BY <2>3, <1>4, <1>11
    <3>2. tree[Parent(p)].kind = "dir"
      BY <3>1, <1>5 DEF OverlayOf
    <3>3. CASE Parent(p) = a
      <4>1. Entry.kind = "dir"
        BY <3>2, <3>3, <1>4
      <4> QED
        BY <4>1, <3>3, <1>2, <1>4, <1>8
    <3>4. CASE Parent(p) # a
      BY <3>2, <3>4, <2>0, <1>4
    <3> QED
      BY <3>3, <3>4
  <2> QED
    BY <2>1, <2>2, <2>3
<1> QED
  BY <1>9, <1>10, <1>11 DEF OverlayOf

\* A step of `unpack` that applies no entry leaves what is alive as it is.
LEMMA NothingApplied ==
  ASSUME TreeInv, OverlayInv, SkipEntry \/ NextPass \/ OpenImage
  PROVE  \A l, k, p : IsLive(l, k, p)' <=> IsLive(l, k, p)
<1>0. /\ Formed(archive) /\ archive' = archive
      /\ layer \in Nat \ {0} /\ pos \in Nat \ {0} /\ pass \in {1, 2}
  BY DEF TreeInv, SkipEntry, NextPass, OpenImage, Fail
<1>1. \A l, k : IsEntry(l, k) => /\ l \in Nat \ {0} /\ k \in Nat \ {0}
                                 /\ (l = layer => k \in DOMAIN Layer.tar)
  BY <1>0, EntryNumbers DEF IsEntry, Layer
<1>2. CASE SkipEntry
  <2>1. /\ layer <= Len(archive.layers) /\ pos <= Len(Layer.tar) /\ UNCHANGED <<layer, pass>> /\ pos' = pos + 1
        /\ IsWhiteout(Entry) # (pass = 1)
    BY <1>2 DEF SkipEntry, AtEntry, Applying, InPass
  <2>2. Entry = E(layer, pos)
    BY DEF Entry, Layer, E
  <2>3. \A k \in Nat : k < pos + 1 <=> k < pos \/ k = pos
    BY <1>0
  <2>4. \A l, k : IsEntry(l, k) /\ ~IsWhiteout(E(l, k)) => (FileDone(l, k)' <=> FileDone(l, k))
    <3> SUFFICES ASSUME NEW l, NEW k, IsEntry(l, k), ~IsWhiteout(E(l, k))
                 PROVE  FileDone(l, k)' <=> FileDone(l, k)
      OBVIOUS
    <3>1. ~(l = layer /\ k = pos /\ pass = 2)
      BY <2>1, <2>2 DEF IsWhiteout
    <3> QED
      BY <1>1, <2>1, <2>3, <3>1 DEF FileDone
  <2>5. \A l, k : IsEntry(l, k) /\ IsWhiteout(E(l, k)) => (MarkDone(l, k)' <=> MarkDone(l, k))
    <3> SUFFICES ASSUME NEW l, NEW k, IsEntry(l, k), IsWhiteout(E(l, k))
                 PROVE  MarkDone(l, k)' <=> MarkDone(l, k)
      OBVIOUS
    <3>1. l = layer /\ k = pos => pass = 2
      BY <1>0, <2>1, <2>2 DEF IsWhiteout
    <3> QED
      BY <1>1, <2>1, <2>3, <3>1 DEF MarkDone
  <2> QED
    BY <1>0, <2>4, <2>5, LiveKept
<1>3. CASE NextPass
  <2>1. /\ layer <= Len(archive.layers) /\ pos > Len(Layer.tar) /\ pos' = 1
        /\ pass' = 3 - pass /\ layer' = IF pass = 1 THEN layer ELSE layer + 1
    BY <1>3 DEF NextPass, Applying
  <2>2. \A l, k : IsEntry(l, k) /\ l = layer => k < pos
    <3>1. archive.layers \in Seq(LayerSet) /\ layer \in 1 .. Len(archive.layers)
      BY <1>0, <2>1 DEF Formed
    <3>2. Layer \in LayerSet
      BY <3>1, ElementOfSeq, Zenon DEF Layer
    <3>3. Layer.tar \in Seq(TarEntry)
      BY <3>2 DEF LayerSet
    <3> QED
      BY <1>0, <1>1, <2>1, <3>3
  <2>3. \A l, k : IsEntry(l, k) => (FileDone(l, k)' <=> FileDone(l, k)) /\ (MarkDone(l, k)' <=> MarkDone(l, k))
    <3> SUFFICES ASSUME NEW l, NEW k, IsEntry(l, k)
                 PROVE  (FileDone(l, k)' <=> FileDone(l, k)) /\ (MarkDone(l, k)' <=> MarkDone(l, k))
      OBVIOUS
    <3>1. CASE pass = 1
      BY <1>0, <1>1, <2>1, <2>2, <3>1 DEF FileDone, MarkDone
    <3>2. CASE pass = 2
      BY <1>0, <1>1, <2>1, <2>2, <3>2 DEF FileDone, MarkDone
    <3> QED
      BY <1>0, <3>1, <3>2
  <2> QED
    BY <1>0, <2>3, LiveKept
<1>4. CASE OpenImage
  <2>1. layer = 1 /\ UNCHANGED <<layer, pass>> /\ pass = 1
    BY <1>4 DEF OpenImage, OverlayInv, StartInv, Fail
  <2>2. \A l, k : IsEntry(l, k) => ~FileDone(l, k) /\ ~FileDone(l, k)'
    BY <1>1, <2>1 DEF FileDone
  <2>3. \A l, k : IsEntry(l, k)' <=> IsEntry(l, k)
    BY <1>0 DEF IsEntry
  <2> QED
    BY <2>2, <2>3 DEF IsLive
<1> QED
  BY <1>2, <1>3, <1>4

\* A step that changes nothing the overlay is read from.
LEMMA OverlayUntouched ==
  ASSUME OverlayOf, UNCHANGED <<archive, layer, pass, pos, tree>>
  PROVE  OverlayOf'
<1>1. \A l, k, p : IsLive(l, k, p)' <=> IsLive(l, k, p)
  BY LiveKept DEF FileDone, MarkDone
<1> QED
  BY <1>1, OverlayKept

\* Every step of `unpack` keeps the tree the overlay of what has been applied.
LEMMA OverlayStep ==
  ASSUME TreeInv, OverlayInv, [Next]_vars
  PROVE  OverlayInv'
<1>1. WalkInv'
  BY WalkStep
<1>2. StartInv'
  <2>1. CASE outcome' \in {"packing", "reading"}
    <3>1. UNCHANGED <<outcome, layer, pass, walk, tree>>
      BY <2>1 DEF Next, ReadEntry, OpenImage, RefuseLayer, SkipEntry, NextPass, Finish, OpenWhiteout, FollowLink,
         WhiteoutNowhere, ApplyWhiteout, ExtractFile, Stopped, PassMarker, Fail, AtEntry, Applying, vars
    <3> QED
      BY <3>1 DEF OverlayInv, StartInv
  <2> QED
    BY <2>1 DEF StartInv
<1>3. outcome' = "done" => layer' > Len(archive'.layers)
  BY DEF Next, ReadEntry, OpenImage, RefuseLayer, SkipEntry, NextPass, Finish, OpenWhiteout, FollowLink,
     WhiteoutNowhere, ApplyWhiteout, ExtractFile, Stopped, PassMarker, Fail, AtEntry, Applying, vars, OverlayInv
<1>4. ASSUME NoLinks', outcome' \in {"applying", "done"} PROVE OverlayOf'
  <2>1. archive' = archive
    BY DEF Next, ReadEntry, OpenImage, RefuseLayer, SkipEntry, NextPass, Finish, OpenWhiteout, FollowLink,
       WhiteoutNowhere, ApplyWhiteout, ExtractFile, Stopped, PassMarker, Fail, vars
  <2>2. NoLinks
    BY <1>4, <2>1 DEF NoLinks
  <2>3. outcome \in {"applying", "done"} => OverlayOf
    BY <2>2 DEF OverlayInv
  <2>4. CASE SkipEntry \/ NextPass \/ OpenImage
    <3>1. tree' = tree /\ outcome \in {"reading", "applying"}
      BY <2>4 DEF SkipEntry, NextPass, OpenImage, AtEntry, Applying, Fail
    <3>2. OverlayOf
      BY <2>3, <3>1, OverlayStarts DEF OverlayInv
    <3> QED
      BY <2>1, <2>4, <3>1, <3>2, NothingApplied, OverlayKept
  <2>5. CASE UNCHANGED <<archive, layer, pass, pos, tree>> /\ outcome \in {"applying", "done"}
    BY <2>3, <2>5, OverlayUntouched
  <2>6. CASE FollowLink
    <3>1. walk.dir \in Paths /\ tree[walk.dir].kind \in Links
      BY <2>6 DEF FollowLink, TreeInv
    <3> QED
      BY <2>2, <3>1, LinkFree
  <2>7. CASE WhiteoutNowhere
    <3>1. outcome = "applying" /\ outcome' = "applying"
      BY <1>4, <2>7 DEF WhiteoutNowhere, PassMarker, Fail
    <3> QED
      BY <2>2, <2>7, <3>1, OverlayNowhere
  <2>8. CASE ApplyWhiteout
    BY <2>2, <2>8, OverlayApplied DEF ApplyWhiteout
  <2>9. CASE ExtractFile
    <3>1. outcome = "applying" /\ outcome' = "applying"
      BY <1>4, <2>9 DEF ExtractFile, AtEntry, Applying, Fail
    <3> QED
      BY <2>2, <2>9, <3>1, OverlayExtracted
  <2>10. CASE ReadEntry \/ RefuseLayer
    BY <1>4, <2>10 DEF ReadEntry, RefuseLayer, Fail
  <2>11. CASE OpenWhiteout \/ Finish \/ Stopped \/ UNCHANGED vars
    <3>1. UNCHANGED <<archive, layer, pass, pos, tree>> /\ outcome \in {"applying", "done"}
      BY <1>4, <2>11 DEF OpenWhiteout, Finish, Stopped, AtEntry, Applying, vars
    <3> QED
      BY <2>5, <3>1
  <2> QED
    BY <2>4, <2>6, <2>7, <2>8, <2>9, <2>10, <2>11 DEF Next
<1> QED
  BY <1>1, <1>2, <1>3, <1>4 DEF OverlayInv

\* When all layers are applied, what is alive is what shows.
LEMMA AliveShows ==
  ASSUME TreeInv, layer > Len(archive.layers), NEW p
  PROVE  \A l, k : IsLive(l, k, p) <=> <<l, k>> \in Showing(p)
<1>0. archive.layers \in Seq(LayerSet) /\ layer \in Nat
  BY DEF TreeInv, Formed
<1>1. DOMAIN archive.layers = 1 .. Len(archive.layers) /\ Len(archive.layers) \in Nat
  BY <1>0
<1>2. \A l, k : IsEntry(l, k) => l \in 1 .. Len(archive.layers) /\ FileDone(l, k) /\ MarkDone(l, k)
  BY <1>0, <1>1 DEF IsEntry, FileDone, MarkDone
<1>3. ASSUME NEW m \in DOMAIN archive.layers
      PROVE  Removes(m, p) <=> \E j : IsEntry(m, j) /\ Kills(E(m, j), p)
  <2>1. archive.layers[m] \in LayerSet
    BY <1>0, <1>3
  <2>2. archive.layers[m].tar \in Seq(TarEntry)
    BY <2>1 DEF LayerSet
  <2>3. Range(archive.layers[m].tar) = {archive.layers[m].tar[j] : j \in DOMAIN archive.layers[m].tar}
    BY DEF Range
  <2> QED
    BY <1>3, <2>3 DEF Removes, Kills, IsEntry, E
<1>4. ASSUME NEW l \in DOMAIN archive.layers PROVE Killed(l, p) <=> ~Stays(l, p)
  <2>1. \A m : m \in l + 1 .. Len(archive.layers) <=> m \in DOMAIN archive.layers /\ l < m
    BY <1>1, <1>4
  <2>2. Killed(l, p) <=> \E m \in DOMAIN archive.layers : l < m /\ \E j : IsEntry(m, j) /\ Kills(E(m, j), p)
    BY <1>2 DEF Killed, IsEntry
  <2> QED
    BY <1>3, <2>1, <2>2 DEF Stays
<1>5. ASSUME NEW l, NEW k PROVE IsLive(l, k, p) <=> <<l, k>> \in Showing(p)
  <2> DEFINE Of(x) == {<<x, y>> : y \in {y \in DOMAIN archive.layers[x].tar :
                              /\ ~IsWhiteout(archive.layers[x].tar[y])
                              /\ archive.layers[x].tar[y].path = p
                              /\ Stays(x, p)}}
  <2>1. Showing(p) = UNION {Of(x) : x \in DOMAIN archive.layers}
    BY DEF Showing
  <2>2. \A x : <<l, k>> \in Of(x) <=> /\ x = l /\ k \in DOMAIN archive.layers[l].tar
                                      /\ ~IsWhiteout(E(l, k)) /\ E(l, k).path = p /\ Stays(l, p)
    BY DEF E
  <2> HIDE DEF Of
  <2>3. <<l, k>> \in Showing(p) <=> /\ IsEntry(l, k) /\ ~IsWhiteout(E(l, k)) /\ E(l, k).path = p
                                    /\ Stays(l, p)
    BY <2>1, <2>2 DEF IsEntry
  <2> QED
    BY <1>2, <1>4, <2>3 DEF IsLive, IsEntry
<1> QED
  BY <1>5

\* The entry that is above all others is the winner.
LEMMA WinnerIs ==
  ASSUME NEW S \in SUBSET (Nat \X Nat), NEW x \in S,
         \A y \in S : y[1] < x[1] \/ (y[1] = x[1] /\ y[2] <= x[2])
  PROVE  Winner(S) = x
<1> DEFINE Top(z) == \A y \in S : y[1] < z[1] \/ (y[1] = z[1] /\ y[2] <= z[2])
           w == Winner(S)
<1>1. Top(x)
  OBVIOUS
<1>2. w \in S /\ Top(w)
  BY <1>1 DEF Winner
<1>3. /\ w[1] < x[1] \/ (w[1] = x[1] /\ w[2] <= x[2])
      /\ x[1] < w[1] \/ (x[1] = w[1] /\ x[2] <= w[2])
  BY <1>1, <1>2
<1>4. w[1] \in Nat /\ w[2] \in Nat /\ x[1] \in Nat /\ x[2] \in Nat
  BY <1>2
<1>5. w = <<w[1], w[2]>> /\ x = <<x[1], x[2]>>
  BY <1>2
<1> HIDE DEF w, Top
<1>6. w[1] = x[1] /\ w[2] = x[2]
  BY <1>3, <1>4
<1> QED
  BY <1>5, <1>6 DEF w

\* The invariant says what `TreeIsOverlay` says.
LEMMA OverlayShows ==
  ASSUME TreeInv, OverlayInv
  PROVE  TreeIsOverlay
<1> SUFFICES ASSUME outcome = "done", \A l \in Range(archive.layers) : \A e \in Range(l.tar) : e.kind \notin Links,
                    NEW p \in Paths \ {<<>>}
             PROVE  IF Showing(p) # {} THEN tree[p].from = Winner(Showing(p))
                    ELSE /\ tree[p] \in {Nothing, Folder}
                         /\ (\E q \in Paths : Under(p, q) /\ Showing(q) # {}) => tree[p] = Folder
  BY DEF TreeIsOverlay
<1>1. NoLinks
  BY DEF NoLinks, Range
<1>2. OverlayOf /\ layer > Len(archive.layers)
  BY <1>1 DEF OverlayInv
<1>3. \A q : Showing(q) \in SUBSET (Nat \X Nat)
  <2>1. \A q : \A x \in Showing(q) : \E l, k : x = <<l, k>> /\ IsEntry(l, k)
    BY DEF Showing, IsEntry
  <2> QED
    BY <2>1, EntryNumbers DEF TreeInv
<1>4. \A q : \A l, k : IsLive(l, k, q) <=> <<l, k>> \in Showing(q)
  BY <1>2, AliveShows
<1>5. OfLive(p)
  BY <1>2 DEF OverlayOf
<1>6. CASE Showing(p) # {}
  <2>1. PICK x \in Showing(p) : TRUE
    BY <1>6
  <2>2. x = <<x[1], x[2]>>
    BY <1>3
  <2>3. IsLive(x[1], x[2], p)
    BY <1>4, <2>2
  <2>4. PICK l, k : /\ IsLive(l, k, p) /\ tree[p].from = <<l, k>>
                    /\ \A m, j : IsLive(m, j, p) => m < l \/ (m = l /\ j <= k)
    BY <1>5, <2>3 DEF OfLive
  <2>5. <<l, k>> \in Showing(p)
    BY <1>4, <2>4
  <2>6. \A y \in Showing(p) : y[1] < l \/ (y[1] = l /\ y[2] <= k)
    <3> SUFFICES ASSUME NEW y \in Showing(p) PROVE y[1] < l \/ (y[1] = l /\ y[2] <= k)
      OBVIOUS
    <3>1. y = <<y[1], y[2]>>
      BY <1>3
    <3> QED
      BY <1>4, <2>4, <3>1
  <2>7. Winner(Showing(p)) = <<l, k>>
    BY <1>3, <2>5, <2>6, WinnerIs
  <2> QED
    BY <1>6, <2>4, <2>7
<1>7. CASE Showing(p) = {}
  <2>1. \A l, k : ~IsLive(l, k, p)
    BY <1>4, <1>7
  <2>2. tree[p] \in {Nothing, Folder}
    BY <1>5, <2>1 DEF OfLive
  <2>3. ASSUME NEW q \in Paths, Under(p, q), Showing(q) # {} PROVE tree[p] = Folder
    <3>1. q # <<>> /\ Parent(q) = p
      BY <2>3, UnderFacts, PathFacts DEF Paths
    <3>2. PICK x \in Showing(q) : TRUE
      BY <2>3
    <3>3. x = <<x[1], x[2]>> /\ IsLive(x[1], x[2], q)
      <4>1. x = <<x[1], x[2]>>
        BY <1>3
      <4> QED
        BY <1>4, <4>1
    <3>4. tree[q].kind # "none"
      BY <1>2, <3>1, <3>3, NothingAlive
    <3>5. tree[p].kind = "dir"
      BY <1>2, <3>1, <3>4 DEF OverlayOf
    <3> QED
      BY <2>2, <3>5 DEF Nothing
  <2> QED
    BY <1>7, <2>2, <2>3
<1> QED
  BY <1>6, <1>7

\* The record is of the final tree: no bit is lost and none is kept that is gone.
LEMMA ReportShows ==
  ASSUME ReportInv
  PROVE  InPlace => ReportIsOfFinalImage
BY DEF ReportInv, ReportIsOfFinalImage

--------------------------------------------------------------------------------
\* `pack`: the order of the entries.

\* Each name has a place of its own.
LEMMA RankFacts ==
  \A n \in Names : Rank(n) \in Nat \ {0} /\ \A m \in Names : Rank(n) = Rank(m) => n = m
<1> DEFINE N == Cardinality(Names)
<1>1. IsFiniteSet(Names) /\ N \in Nat /\ ExistsBijection(1 .. N, Names)
  BY UnpackAssumption, FS_CardinalityType
<1>2. \E f \in [1 .. N -> Names] : IsInjective(f)
  BY <1>1, Zenon DEF ExistsBijection, Bijection, Injection
<1>3. Order \in [1 .. N -> Names] /\ IsInjective(Order)
  BY <1>2, Zenon DEF Order, SetToSeq
<1>4. IsFiniteSet(1 .. N) /\ Cardinality(1 .. N) = N
  <2>1. ~(1 > N) => N - 1 + 1 = N
    BY <1>1
  <2>2. 1 > N => N = 0
    BY <1>1
  <2> HIDE DEF N
  <2> QED
    BY <1>1, <2>1, <2>2, FS_Interval
<1>5. Order \in Surjection(1 .. N, Names)
  <2>1. Order \in Injection(1 .. N, Names)
    BY <1>3 DEF Injection
  <2> QED
    BY <1>1, <1>4, <2>1, FS_Injection
<1>6. \A n \in Names : \E i \in DOMAIN Order : Order[i] = n
  BY <1>3, <1>5 DEF Surjection
<1>7. \A n \in Names : Rank(n) \in DOMAIN Order /\ Order[Rank(n)] = n
  BY <1>6 DEF Rank
<1>8. \A n \in Names : Rank(n) \in 1 .. N
  BY <1>3, <1>7
<1> QED
  BY <1>1, <1>7, <1>8

\* `Before` compares two places.
First(p)  == IF p = <<>> THEN 0 ELSE Rank(p[1])
Second(p) == IF Len(p) = 2 THEN Rank(p[2]) ELSE 0

\* The two names of a path place it, and no other path has its place.
LEMMA PlaceFacts ==
  ASSUME NEW p \in Paths, NEW q \in Paths
  PROVE  /\ First(p) \in Nat /\ Second(p) \in Nat
         /\ First(p) = First(q) /\ Second(p) = Second(q) => p = q
         /\ Before(p, q) <=> \/ First(p) < First(q)
                             \/ First(p) = First(q) /\ Second(p) < Second(q)
<1>1. \A r \in Paths : /\ r \in Seq(Names) /\ Len(r) \in {0, 1, 2} /\ (Len(r) = 0 <=> r = <<>>)
                       /\ Len(r) # 0 => r[1] \in Names
                       /\ Len(r) = 2 => r[2] \in Names
  <2> SUFFICES ASSUME NEW r \in Paths
               PROVE  /\ r \in Seq(Names) /\ Len(r) \in {0, 1, 2} /\ (Len(r) = 0 <=> r = <<>>)
                      /\ Len(r) # 0 => r[1] \in Names
                      /\ Len(r) = 2 => r[2] \in Names
    OBVIOUS
  <2>1. r \in Seq(Names) /\ Len(r) \in 0 .. 2 /\ (Len(r) = 0 <=> r = <<>>)
    BY PathFacts
  <2> QED
    BY <2>1
<1>2. \A r \in Paths : First(r) \in Nat /\ Second(r) \in Nat /\ (First(r) = 0 <=> r = <<>>)
                       /\ (Second(r) = 0 <=> Len(r) # 2)
  BY <1>1, RankFacts DEF First, Second
<1>3. First(p) = First(q) <=> (p = <<>> /\ q = <<>>) \/ (p # <<>> /\ q # <<>> /\ p[1] = q[1])
  BY <1>1, <1>2, RankFacts DEF First
<1>4. Second(p) = Second(q) <=> (Len(p) # 2 /\ Len(q) # 2) \/ (Len(p) = 2 /\ Len(q) = 2 /\ p[2] = q[2])
  BY <1>1, <1>2, RankFacts DEF Second
<1>5. ASSUME First(p) = First(q), Second(p) = Second(q) PROVE p = q
  <2>1. Len(p) = Len(q)
    BY <1>1, <1>3, <1>4, <1>5
  <2>2. \A i \in 1 .. Len(p) : p[i] = q[i]
    <3> SUFFICES ASSUME NEW i \in 1 .. Len(p) PROVE p[i] = q[i]
      OBVIOUS
    <3>1. (i = 1 /\ Len(p) # 0) \/ (i = 2 /\ Len(p) = 2)
      <4>1. \A k \in {0, 1, 2} : \A j \in 1 .. k : (j = 1 /\ k # 0) \/ (j = 2 /\ k = 2)
        OBVIOUS
      <4> QED
        BY <1>1, <4>1, Zenon
    <3> QED
      BY <1>1, <1>3, <1>4, <1>5, <2>1, <3>1
  <2> QED
    BY <1>1, <2>1, <2>2, SeqEqual
<1>6. CASE p = <<>> \/ q = <<>>
  <2>1. First(p) < First(q) <=> p = <<>> /\ q # <<>>
    BY <1>2, <1>6
  <2>2. ~(First(p) = First(q) /\ Second(p) < Second(q))
    <3>1. Len(<<>>) = 0
      OBVIOUS
    <3> QED
      BY <1>2, <1>3, <1>6, <3>1
  <2> QED
    BY <1>2, <1>5, <1>6, <2>1, <2>2 DEF Before
<1>7. CASE p # <<>> /\ q # <<>>
  <2>1. First(p) = Rank(p[1]) /\ First(q) = Rank(q[1])
    BY <1>7 DEF First
  <2>2. Second(p) < Second(q) <=> (Len(p) # 2 /\ Len(q) = 2) \/ (Len(p) = 2 /\ Len(q) = 2 /\ Rank(p[2]) < Rank(q[2]))
    BY <1>1, <1>2 DEF Second
  <2>3. Len(p) < Len(q) <=> Len(p) # 2 /\ Len(q) = 2
    BY <1>1, <1>7
  <2> QED
    BY <1>2, <1>3, <1>5, <1>7, <2>1, <2>2, <2>3 DEF Before
<1> QED
  BY <1>6, <1>7

\* `Before` is a strict total order.
LEMMA BeforeOrders ==
  ASSUME NEW p \in Paths, NEW q \in Paths
  PROVE  /\ ~Before(p, p)
         /\ p # q => Before(p, q) \/ Before(q, p)
         /\ \A r \in Paths : Before(r, p) /\ Before(p, q) => Before(r, q)
<1>1. \A r, s \in Paths :
        /\ First(r) \in Nat /\ Second(r) \in Nat
        /\ First(r) = First(s) /\ Second(r) = Second(s) => r = s
        /\ Before(r, s) <=> \/ First(r) < First(s)
                            \/ First(r) = First(s) /\ Second(r) < Second(s)
  BY PlaceFacts
<1>2. ~Before(p, p)
  BY <1>1
<1>3. p # q => Before(p, q) \/ Before(q, p)
  BY <1>1
<1>4. \A r \in Paths : Before(r, p) /\ Before(p, q) => Before(r, q)
  BY <1>1
<1> QED
  BY <1>2, <1>3, <1>4

\* Sorting a set of paths lists each of them once.
LEMMA InOrderLists ==
  ASSUME NEW S \in SUBSET Paths, IsFiniteSet(S)
  PROVE  /\ InOrder(S) \in [1 .. Cardinality(S) -> S] /\ Cardinality(S) \in Nat
         /\ \A p \in S : \E i \in 1 .. Cardinality(S) : InOrder(S)[i] = p
         /\ \A i, j \in 1 .. Cardinality(S) : InOrder(S)[i] = InOrder(S)[j] => i = j
<1> DEFINE n == Cardinality(S)
           below(p) == {q \in S : Before(q, p)}
           at(p) == Cardinality(below(p))
           f == [p \in S |-> at(p) + 1]
<1>1. n \in Nat
  BY FS_CardinalityType
<1>2. ASSUME NEW p \in S PROVE IsFiniteSet(below(p)) /\ at(p) \in Nat /\ at(p) + 1 \in 1 .. n
  <2>1. below(p) \in SUBSET S /\ below(p) # S
    BY BeforeOrders
  <2>2. IsFiniteSet(below(p)) /\ at(p) <= n /\ (n = at(p) => S = below(p))
    BY <2>1, FS_Subset, Zenon
  <2>3. at(p) \in Nat
    BY <2>2, FS_CardinalityType
  <2> HIDE DEF n, below, at
  <2> QED
    BY <1>1, <2>1, <2>2, <2>3
<1>3. ASSUME NEW p \in S, NEW q \in S, Before(p, q) PROVE at(p) # at(q)
  <2>1. below(p) \in SUBSET below(q)
    BY <1>3, BeforeOrders
  <2>2. p \in below(q) /\ p \notin below(p)
    BY <1>3, BeforeOrders
  <2>3. IsFiniteSet(below(q))
    BY <1>2
  <2> HIDE DEF below
  <2> QED
    BY <2>1, <2>2, <2>3, FS_Subset
<1>4. \A p, q \in S : at(p) = at(q) => p = q
  BY <1>3, BeforeOrders
<1> HIDE DEF n, at
<1>a. \A p \in S : at(p) \in Nat /\ at(p) + 1 \in 1 .. n
  BY <1>2
<1>5. f \in Injection(S, 1 .. n)
  <2>1. \A p, q \in S : at(p) + 1 = at(q) + 1 => p = q
    <3> SUFFICES ASSUME NEW p \in S, NEW q \in S, at(p) + 1 = at(q) + 1 PROVE p = q
      OBVIOUS
    <3>1. at(p) \in Nat /\ at(q) \in Nat
      BY <1>a
    <3>2. at(p) = at(q)
      BY <3>1
    <3> QED
      BY <1>4, <3>2
  <2> QED
    BY <1>a, <2>1 DEF Injection, IsInjective
<1>6. IsFiniteSet(1 .. n) /\ Cardinality(1 .. n) = Cardinality(S)
  <2>1. Cardinality(1 .. n) = IF 1 > n THEN 0 ELSE n - 1 + 1
    BY <1>1, FS_Interval
  <2>2. IsFiniteSet(1 .. n)
    BY <1>1, FS_Interval
  <2>3. (IF 1 > n THEN 0 ELSE n - 1 + 1) = n
    BY <1>1
  <2> QED
    BY <2>1, <2>2, <2>3 DEF n
<1>7. f \in Surjection(S, 1 .. n)
  BY <1>5, <1>6, FS_Injection
<1>8. \A i \in 1 .. n : \E p \in S : at(p) = i - 1
  <2>1. \A i \in 1 .. n : \E p \in S : at(p) + 1 = i
    BY <1>7 DEF Surjection
  <2>2. \A p \in S : at(p) \in Nat
    BY <1>2
  <2> QED
    BY <2>1, <2>2
<1>9. InOrder(S) = [i \in 1 .. n |-> CHOOSE p \in S : at(p) = i - 1]
  BY DEF InOrder, n, at
<1>10. \A i \in 1 .. n : InOrder(S)[i] \in S /\ at(InOrder(S)[i]) = i - 1
  BY <1>8, <1>9
<1>11. \A p \in S : \E i \in 1 .. n : InOrder(S)[i] = p
  <2> SUFFICES ASSUME NEW p \in S PROVE \E i \in 1 .. n : InOrder(S)[i] = p
    OBVIOUS
  <2>1. at(p) + 1 \in 1 .. n /\ at(p) \in Nat
    BY <1>a
  <2>2. PICK i \in 1 .. n : i - 1 = at(p)
    BY <2>1
  <2>3. InOrder(S)[i] \in S /\ at(InOrder(S)[i]) = at(p)
    BY <1>10, <2>2
  <2> QED
    BY <1>4, <2>3
<1>12. \A i, j \in 1 .. n : InOrder(S)[i] = InOrder(S)[j] => i = j
  <2>1. \A i, j \in 1 .. n : i - 1 = j - 1 => i = j
    BY <1>1
  <2> QED
    BY <1>10, <2>1
<1>13. InOrder(S) \in [1 .. n -> S]
  BY <1>9, <1>10
<1> QED
  BY <1>1, <1>11, <1>12, <1>13 DEF n

--------------------------------------------------------------------------------
\* `pack`: the layer and the image.

\* The entries of the layer `pack` writes.
EntrySet == [path : Paths, kind : Kinds \ {"none"}, to : Names \cup {NoName}, body : Bodies \cup {0},
             mode : Modes \cup {"dir or link"}]

\* The entries of a whole layer: every staged path, in order.
Whole == [i \in 1 .. Cardinality(Present(staged)) |-> EntryOf(InOrder(Present(staged))[i])]

\* What `unpack` works on is untouched while `pack` runs.
FrameInv ==
  /\ phase \in {"walk", "read", "delivered", "written", "stopped"} =>
       outcome = "packing" /\ pos = 1 /\ setid = {}
  /\ phase = "foreign" => outcome # "packing" /\ images = {}
  /\ phase = "unpacking" => outcome # "packing"

\* The walk lists paths that it could read; then all of them, and an entry for each.
PackInv ==
  /\ phase \in {"walk", "read", "delivered", "written", "stopped", "unpacking", "foreign"}
  /\ phase # "foreign" => IsTree(staged)
  /\ phase = "walk" => /\ listed \in Seq(Present(staged)) /\ entries = <<>>
                       /\ \A p \in Range(listed) : ~WalkError(p)
  /\ phase \in {"read", "delivered", "written", "unpacking"} =>
       /\ IsFiniteSet(Present(staged)) /\ listed = InOrder(Present(staged))
       /\ entries \in Seq(EntrySet) /\ Len(entries) <= Len(listed)
       /\ \A i \in 1 .. Len(entries) : entries[i] = EntryOf(listed[i])
  /\ phase \in {"delivered", "written", "unpacking"} => entries = Whole
  /\ phase \in {"written", "unpacking"} =>
       /\ \E sizes \in Sizes : archive = OciArchive(BuildImage(entries), sizes)
       /\ bodies = [i \in DOMAIN entries |-> entries[i].body]

\* However often the tree is packed, one image comes of it.
ImagesInv == images \subseteq {Identity(BuildImage(Whole))}

\* The entry of a staged path is one, and only a link has a target.
LEMMA EntryType ==
  ASSUME IsTree(staged), NEW p \in Present(staged)
  PROVE  /\ EntryOf(p) \in EntrySet /\ EntryOf(p).path = p
         /\ EntryOf(p).kind \in Links <=> EntryOf(p).to # NoName
         /\ EntryOf(p).kind \in Links => Len(p) = 1
         /\ p # <<>>
<1>1. p \in Paths /\ p # <<>> /\ staged[p].kind # "none"
  BY DEF Present
<1>2. staged[p] \in StagedNode
  BY <1>1 DEF IsTree
<1> DEFINE node == staged[p]
<1>3. /\ node.kind \in Kinds \ {"none"} /\ node.to \in Names \cup {NoName}
      /\ node.body \in Bodies \cup {0} /\ Mode(node) \in Modes
  BY <1>1, <1>2 DEF StagedNode, Mode, Modes
<1>4. /\ node.kind \in Links <=> node.to # NoName
      /\ node.kind \in Links => Len(p) = 1
  BY <1>1 DEF IsTree
<1>5. /\ EntryOf(p).path = p /\ EntryOf(p).kind = node.kind /\ EntryOf(p).to = node.to
  BY DEF EntryOf
<1>6. EntryOf(p) \in EntrySet
  BY <1>1, <1>3 DEF EntryOf, EntrySet
<1> QED
  BY <1>1, <1>4, <1>5, <1>6

\* What a sequence holds is finite, and grows by what is appended.
LEMMA RangeFinite ==
  ASSUME NEW S, NEW s \in Seq(S)
  PROVE  IsFiniteSet(Range(s)) /\ Range(s) \subseteq S /\ \A e : Range(Append(s, e)) = Range(s) \cup {e}
<1>1. DOMAIN s = 1 .. Len(s) /\ Len(s) \in Nat /\ \A i \in 1 .. Len(s) : s[i] \in S
  BY LenProperties, ElementOfSeq
<1>2. s \in Surjection(1 .. Len(s), Range(s))
  <2>1. s \in [1 .. Len(s) -> Range(s)]
    BY <1>1, LenProperties DEF Range
  <2> QED
    BY <1>1, <2>1 DEF Range, Surjection
<1>3. IsFiniteSet(1 .. Len(s))
  BY <1>1, FS_Interval
<1>4. IsFiniteSet(Range(s))
  BY <1>2, <1>3, FS_Surjection
<1>5. Range(s) \subseteq S
  BY <1>1 DEF Range
<1>6. ASSUME NEW e PROVE Range(Append(s, e)) = Range(s) \cup {e}
  <2> DEFINE T == S \cup {e}
             a == Append(s, e)
  <2>1. s \in Seq(T) /\ e \in T
    BY <1>1, SeqDef
  <2>2. /\ a \in Seq(T) /\ Len(a) = Len(s) + 1 /\ \A i \in 1 .. Len(s) : a[i] = s[i]
        /\ a[Len(s) + 1] = e
    BY <2>1, AppendProperties
  <2>3. DOMAIN a = 1 .. Len(s) + 1
    BY <2>2, LenProperties
  <2> HIDE DEF a
  <2>4. Range(a) = {a[i] : i \in 1 .. Len(s) + 1} /\ Range(s) = {s[i] : i \in 1 .. Len(s)}
    BY <1>1, <2>3 DEF Range
  <2>5. 1 .. Len(s) + 1 = (1 .. Len(s)) \cup {Len(s) + 1}
    BY <1>1
  <2>6. {a[i] : i \in 1 .. Len(s) + 1} = {a[i] : i \in 1 .. Len(s)} \cup {a[Len(s) + 1]}
    BY <2>5
  <2> QED
    BY <2>2, <2>4, <2>6 DEF a
<1> QED
  BY <1>4, <1>5, <1>6

\* A walk that ends has listed every path.
LEMMA WalkIsWhole ==
  ASSUME PackInv, phase = "walk", Reachable = {}
  PROVE  Range(listed) = Present(staged)
<1>1. /\ listed \in Seq(Present(staged)) /\ IsTree(staged)
      /\ \A p \in Range(listed) : ~WalkError(p)
  BY DEF PackInv
<1>2. Range(listed) \subseteq Present(staged)
  BY <1>1, RangeFinite
<1>3. ASSUME NEW p \in Present(staged) PROVE p \in Range(listed)
  <2>1. p \in Paths /\ p # <<>> /\ staged[p].kind # "none"
    BY DEF Present
  <2>2. Len(p) = 1 \/ Len(p) = 2
    <3>1. Len(p) \in 0 .. 2 /\ Len(p) # 0
      BY <2>1, PathFacts
    <3> QED
      BY <3>1
  <2>3. \A q \in Present(staged) : Len(q) = 1 => q \in Range(listed)
    BY DEF Reachable, InList
  <2>4. ASSUME Len(p) = 2 PROVE p \in Range(listed)
    <3>1. Parent(p) \in Paths /\ Len(Parent(p)) = 1 /\ Parent(p) # <<>>
      BY <2>1, <2>4, PathFacts
    <3>2. staged[Parent(p)].kind = "dir"
      BY <1>1, <2>1 DEF IsTree
    <3>3. Parent(p) \in Present(staged)
      BY <3>1, <3>2 DEF Present
    <3>4. Parent(p) \in Range(listed) /\ staged[Parent(p)].reads
      BY <1>1, <2>3, <3>1, <3>2, <3>3 DEF WalkError
    <3> QED
      BY <3>4 DEF Reachable, InList
  <2> QED
    BY <2>2, <2>3, <2>4
<1> QED
  BY <1>2, <1>3

\* Packed again, the tree is a tree, and each of its entries is the same.
LEMMA RestagedSame ==
  ASSUME IsTree(staged), IsFiniteSet(Present(staged)), staged' = Restaged
  PROVE  /\ IsTree(staged') /\ Present(staged') = Present(staged)
         /\ Whole' = Whole
<1> DEFINE other == [private |-> "plain", plain |-> "private", exec |-> "setuid", setuid |-> "exec"]
<1>1. staged' = [p \in Paths |-> [staged[p] EXCEPT !.mode = other[staged[p].mode]]]
  BY DEF Restaged
<1>2. ASSUME NEW p \in Paths
      PROVE  /\ staged'[p] \in StagedNode /\ staged'[p].kind = staged[p].kind /\ staged'[p].to = staged[p].to
             /\ staged'[p].body = staged[p].body /\ Mode(staged'[p]) = Mode(staged[p])
  <2>1. staged[p] \in StagedNode /\ staged[p].mode \in Modes
    BY DEF IsTree, StagedNode
  <2>2. staged'[p] = [staged[p] EXCEPT !.mode = other[staged[p].mode]]
    BY <1>1
  <2>3. \A m \in Modes : other[m] \in Modes /\ (other[m] \in {"exec", "setuid"} <=> m \in {"exec", "setuid"})
    BY DEF Modes
  <2> HIDE DEF other
  <2>4. /\ staged'[p] \in StagedNode /\ staged'[p].kind = staged[p].kind /\ staged'[p].to = staged[p].to
        /\ staged'[p].body = staged[p].body /\ staged'[p].mode = other[staged[p].mode]
    BY <2>1, <2>2, <2>3 DEF StagedNode
  <2> QED
    BY <2>1, <2>3, <2>4 DEF Mode
<1>3. IsTree(staged')
  <2>1. staged' \in [Paths -> StagedNode]
    BY <1>1, <1>2
  <2>2. <<>> \in Paths /\ \A p \in Paths \ {<<>>} : Parent(p) \in Paths
    <3>1. \A p \in Paths \ {<<>>} : Len(p) > 0
      <4>1. \A p \in Paths \ {<<>>} : Len(p) \in 0 .. 2 /\ Len(p) # 0
        BY PathFacts
      <4> QED
        BY <4>1
    <3> QED
      BY <3>1, PathFacts DEF Paths
  <2> QED
    BY <1>2, <2>1, <2>2 DEF IsTree
<1>4. Present(staged') = Present(staged)
  BY <1>2 DEF Present
<1>5. \A p \in Paths : EntryOf(p)' = EntryOf(p)
  BY <1>2 DEF EntryOf
<1>6. Whole' = Whole
  <2>1. Present(staged)' = Present(staged)
    BY <1>4
  <2> DEFINE n == Cardinality(Present(staged))
             x == InOrder(Present(staged))
  <2>2. n' = n /\ x' = x
    BY <2>1
  <2>3. \A i \in 1 .. n : x[i] \in Paths
    <3>1. Present(staged) \in SUBSET Paths
      BY DEF Present
    <3> QED
      BY <3>1, InOrderLists
  <2> QED
    BY <1>5, <2>2, <2>3 DEF Whole
<1> QED
  BY <1>3, <1>4, <1>6

\* The same layer and config are the same image.
LEMMA ImageSame ==
  ASSUME config' = config, Whole' = Whole
  PROVE  Identity(BuildImage(Whole))' = Identity(BuildImage(Whole))
BY DEF Identity, BuildImage, BuildLayer, ImageConfig

\* What is written when every path is listed is the whole layer.
LEMMA WrittenWhole ==
  ASSUME PackInv, phase = "read", Len(entries) = Len(listed)
  PROVE  entries = Whole
<1> DEFINE n == Cardinality(Present(staged))
<1>1. /\ IsFiniteSet(Present(staged)) /\ listed = InOrder(Present(staged))
      /\ entries \in Seq(EntrySet)
      /\ \A i \in 1 .. Len(entries) : entries[i] = EntryOf(listed[i])
  BY DEF PackInv
<1>2. listed \in [1 .. n -> Present(staged)] /\ n \in Nat
  <2>1. Present(staged) \in SUBSET Paths
    BY DEF Present
  <2> QED
    BY <1>1, <2>1, InOrderLists
<1>3. Len(listed) = n
  BY <1>2
<1>4. entries = [i \in 1 .. Len(entries) |-> entries[i]]
  BY <1>1, LenProperties
<1> HIDE DEF n
<1>5. entries = [i \in 1 .. n |-> EntryOf(listed[i])]
  BY <1>1, <1>3, <1>4
<1> QED
  BY <1>1, <1>5 DEF Whole, n

\* An entry of the layer is that of the staged path, or the whiteout its name stands for.
LEMMA TakenFacts ==
  ASSUME IsTree(staged), NEW p \in Present(staged)
  PROVE  LET e == Taken(EntryOf(p))
         IN  /\ e \in TarEntry /\ Fits(e) /\ ~e.bit
             /\ IsWhiteout(e) <=> Marker(p)
             /\ ~Marker(p) => e = [path |-> p, kind |-> EntryOf(p).kind, bit |-> FALSE, to |-> EntryOf(p).to]
             /\ e.kind \in Links => e.path = p /\ staged[p].kind \in Links
<1> DEFINE s == EntryOf(p)
           n == p[Len(p)]
           b == Parent(p)
           e == Taken(s)
<1>1. /\ s \in EntrySet /\ s.path = p /\ (s.kind \in Links <=> s.to # NoName) /\ (s.kind \in Links => Len(p) = 1)
      /\ p # <<>> /\ p \in Paths
  BY EntryType DEF Present
<1>2. s.kind \in Kinds \ {"none"} /\ s.to \in Names \cup {NoName} /\ s.kind = staged[p].kind
  BY <1>1 DEF EntrySet, EntryOf
<1>3. s.kind \notin Whiteouts
  BY <1>2 DEF Kinds, Links, Whiteouts
<1>4. CASE ~Marker(p)
  <2>1. e = [path |-> p, kind |-> s.kind, bit |-> FALSE, to |-> s.to]
    BY <1>1, <1>4 DEF Taken
  <2>2. e \in TarEntry /\ Fits(e)
    BY <1>1, <1>2, <1>3, <2>1 DEF TarEntry, Fits, Whiteouts
  <2> QED
    BY <1>2, <1>3, <1>4, <2>1, <2>2 DEF IsWhiteout
<1>5. CASE Marker(p)
  <2>1. n \in DOMAIN Hides /\ Hides[n] \in Names \cup {NoName}
    BY <1>5, DeliveryAssumption DEF Marker
  <2>2. /\ b \in Paths /\ Len(b) < 2 /\ \A m \in Names : Append(b, m) \in Paths /\ Append(b, m) # <<>>
    <3> HIDE DEF s, n, b, e
    <3>1. Len(p) = 1 \/ Len(p) = 2
      BY <1>1, PathFacts
    <3>2. b \in Paths /\ (b = <<>> \/ Len(b) = 1)
      BY <1>1, <3>1, PathFacts DEF b, Paths
    <3>3. Len(b) # 2
      BY <3>2
    <3>4. Len(b) < 2
      BY <3>2, <3>3, PathFacts
    <3> QED
      BY <3>2, <3>3, <3>4, PathGrows
  <2>3. CASE Hides[n] = NoName
    <3>1. e = [path |-> b, kind |-> "opaque", bit |-> FALSE, to |-> NoName]
      BY <1>1, <1>5, <2>3 DEF Taken
    <3> QED
      BY <1>5, <2>2, <3>1 DEF TarEntry, Fits, Whiteouts, Links, IsWhiteout
  <2>4. CASE Hides[n] # NoName
    <3>1. e = [path |-> Append(b, Hides[n]), kind |-> "whiteout", bit |-> FALSE, to |-> NoName]
      BY <1>1, <1>5, <2>4 DEF Taken
    <3>2. e.path \in Paths /\ e.path # <<>>
      BY <2>1, <2>2, <2>4, <3>1
    <3> QED
      BY <1>5, <3>1, <3>2 DEF TarEntry, Fits, Whiteouts, Links, IsWhiteout
  <2> QED
    BY <2>3, <2>4
<1> QED
  BY <1>4, <1>5

\* What `pack` writes is an archive of entries that fit.
LEMMA OwnFormed ==
  ASSUME PackInv, phase \in {"read", "delivered", "written", "unpacking"}, NEW built, NEW sizes \in Sizes
  PROVE  Formed(OciArchive(built, sizes))
<1> DEFINE tar == [i \in DOMAIN entries |-> Taken(entries[i])]
           blob == [media |-> "gzip", size |-> sizes.tar, tar |-> tar]
<1>1. /\ entries \in Seq(EntrySet) /\ Len(entries) <= Len(listed) /\ IsTree(staged)
      /\ IsFiniteSet(Present(staged)) /\ listed = InOrder(Present(staged))
      /\ \A i \in 1 .. Len(entries) : entries[i] = EntryOf(listed[i])
  BY DEF PackInv
<1>2. DOMAIN entries = 1 .. Len(entries) /\ Len(entries) \in Nat
  BY <1>1, LenProperties
<1>3. listed \in Seq(Present(staged))
  <2>1. Present(staged) \in SUBSET Paths
    BY DEF Present
  <2> QED
    BY <1>1, <2>1, InOrderLists
<1>4. \A i \in DOMAIN entries : listed[i] \in Present(staged) /\ entries[i] = EntryOf(listed[i])
  BY <1>1, <1>2, <1>3
<1>5. \A i \in DOMAIN entries : tar[i] \in TarEntry /\ Fits(tar[i])
  BY <1>1, <1>4, TakenFacts
<1>6. tar \in Seq(TarEntry)
  BY <1>2, <1>5
<1> HIDE DEF tar
<1>7. blob \in LayerSet
  <2>1. sizes.tar \in Nat
    BY DeliveryAssumption DEF ArchiveSizes
  <2> QED
    BY <1>6, <2>1 DEF LayerSet
<1> HIDE DEF blob
<1>8. OciArchive(built, sizes).layers = <<blob>>
  BY DEF OciArchive, blob, tar
<1>9. <<blob>> \in Seq(LayerSet) /\ DOMAIN <<blob>> = {1} /\ <<blob>>[1] = blob
  BY <1>7
<1>10. \A k \in DOMAIN blob.tar : Fits(blob.tar[k])
  <2>1. blob.tar = tar /\ DOMAIN tar = DOMAIN entries
    BY DEF blob, tar
  <2> QED
    BY <1>5, <2>1
<1> QED
  BY <1>8, <1>9, <1>10 DEF Formed

\* `unpack` never writes the archive it reads.
LEMMA ArchiveKept ==
  ASSUME Next
  PROVE  archive' = archive
BY DEF Next, ReadEntry, OpenImage, RefuseLayer, SkipEntry, NextPass, Finish, OpenWhiteout, FollowLink,
   WhiteoutNowhere, ApplyWhiteout, ExtractFile, Stopped, PassMarker, Fail, vars

\* Nothing is listed at first.
LEMMA PackStarts ==
  ASSUME DeliveryInit
  PROVE  PackInv /\ FrameInv /\ ImagesInv
<1>1. PackInv
  <2>1. CASE phase = "foreign"
    BY <2>1 DEF PackInv
  <2>2. CASE phase = "walk" /\ staged \in Trees /\ listed = <<>> /\ entries = <<>>
    <3>1. IsTree(staged)
      BY <2>2, DeliveryAssumption
    <3>2. Range(listed) = {} /\ listed \in Seq(Present(staged))
      BY <2>2 DEF Range
    <3> QED
      BY <2>2, <3>1, <3>2 DEF PackInv
  <2> QED
    BY <2>1, <2>2 DEF DeliveryInit
<1>2. FrameInv
  BY DEF DeliveryInit, Init, FrameInv
<1>3. ImagesInv
  BY DEF DeliveryInit, ImagesInv
<1> QED
  BY <1>1, <1>2, <1>3

\* Every step keeps what is listed and what is written those of the staged tree.
LEMMA PackStep ==
  ASSUME PackInv, [DeliveryNext]_dvars
  PROVE  PackInv'
<1>1. CASE Walk
  <2>1. /\ phase = "walk" /\ UNCHANGED <<staged, entries>> /\ IsTree(staged) /\ listed \in Seq(Present(staged))
        /\ entries = <<>> /\ \A p \in Range(listed) : ~WalkError(p)
    BY <1>1 DEF Walk, PackInv
  <2>2. PICK p \in Reachable : IF WalkError(p) THEN phase' = "stopped" /\ UNCHANGED listed
                               ELSE listed' = Append(listed, p) /\ UNCHANGED phase
    BY <1>1 DEF Walk
  <2>3. CASE WalkError(p)
    BY <2>1, <2>2, <2>3 DEF PackInv
  <2>4. CASE ~WalkError(p)
    <3>1. p \in Present(staged) /\ listed' = Append(listed, p) /\ phase' = "walk"
      BY <2>1, <2>2, <2>4 DEF Reachable
    <3>2. listed' \in Seq(Present(staged)) /\ Range(listed') = Range(listed) \cup {p}
      BY <2>1, <3>1, RangeFinite, AppendProperties
    <3>3. \A q \in Range(listed') : ~WalkError(q)
      BY <2>1, <2>4, <3>2
    <3>4. /\ Present(staged') = Present(staged) /\ \A q : WalkError(q)' <=> WalkError(q)
          /\ IsTree(staged')
      BY <2>1 DEF WalkError
    <3>5. /\ IsTree(staged)' /\ listed' \in Seq(Present(staged)') /\ entries' = <<>> /\ phase' = "walk"
          /\ \A q \in Range(listed)' : ~WalkError(q)'
      BY <2>1, <3>1, <3>2, <3>3, <3>4
    <3> QED
      BY <3>5 DEF PackInv
  <2> QED
    BY <2>3, <2>4
<1>2. CASE WalkEnds
  <2>1. /\ phase = "walk" /\ Reachable = {} /\ UNCHANGED <<staged, entries>> /\ phase' = "read"
        /\ listed' = Sorted(listed) /\ IsTree(staged) /\ listed \in Seq(Present(staged)) /\ entries = <<>>
    BY <1>2 DEF WalkEnds, PackInv
  <2>2. Range(listed) = Present(staged) /\ IsFiniteSet(Present(staged))
    BY <2>1, WalkIsWhole, RangeFinite
  <2>3. listed' = InOrder(Present(staged))
    BY <2>1, <2>2 DEF Sorted
  <2>4. listed' \in Seq(Present(staged))
    <3>1. Present(staged) \in SUBSET Paths
      BY DEF Present
    <3> QED
      BY <2>2, <2>3, <3>1, InOrderLists
  <2>5. Present(staged)' = Present(staged)
    BY <2>1
  <2>6. /\ entries' \in Seq(EntrySet) /\ Len(entries') = 0 /\ 1 .. 0 = {} /\ Len(listed') \in Nat
    BY <2>1, <2>4
  <2>7. Len(entries') <= Len(listed') /\ 1 .. Len(entries') = {}
    BY <2>6
  <2> QED
    BY <2>1, <2>2, <2>3, <2>5, <2>6, <2>7 DEF PackInv
<1>3. CASE ReadStaged
  <2>1. /\ phase = "read" /\ Len(entries) < Len(listed) /\ UNCHANGED <<staged, listed>>
        /\ \/ phase' = "stopped" /\ UNCHANGED entries
           \/ phase' = "read" /\ entries' = Append(entries, EntryOf(listed[Len(entries) + 1]))
    BY <1>3 DEF ReadStaged
  <2>2. /\ IsTree(staged) /\ IsFiniteSet(Present(staged)) /\ listed = InOrder(Present(staged))
        /\ entries \in Seq(EntrySet)
        /\ \A i \in 1 .. Len(entries) : entries[i] = EntryOf(listed[i])
    BY <2>1 DEF PackInv
  <2>3. CASE phase' = "stopped"
    BY <2>1, <2>2, <2>3 DEF PackInv
  <2>4. CASE phase' = "read" /\ entries' = Append(entries, EntryOf(listed[Len(entries) + 1]))
    <3> DEFINE k == Len(entries) + 1
    <3>1. listed \in Seq(Present(staged)) /\ Len(listed) \in Nat
      <4>1. Present(staged) \in SUBSET Paths
        BY DEF Present
      <4>2. listed \in Seq(Present(staged))
        BY <2>2, <4>1, InOrderLists
      <4> QED
        BY <4>2, LenProperties
    <3>2. k \in 1 .. Len(listed) /\ Len(entries) \in Nat
      BY <2>1, <2>2, <3>1, LenProperties
    <3>3. EntryOf(listed[k]) \in EntrySet
      BY <2>2, <3>1, <3>2, EntryType
    <3>4. /\ entries' \in Seq(EntrySet) /\ Len(entries') = k /\ entries'[k] = EntryOf(listed[k])
          /\ \A i \in 1 .. Len(entries) : entries'[i] = entries[i]
      BY <2>2, <2>4, <3>3, AppendProperties
    <3>5. \A i \in 1 .. k : entries'[i] = EntryOf(listed[i])
      <4>1. \A i \in 1 .. k : i = k \/ i \in 1 .. Len(entries)
        BY <3>2
      <4> QED
        BY <2>2, <3>4, <4>1
    <3>6. k <= Len(listed)
      BY <3>1, <3>2
    <3> HIDE DEF k
    <3>7. /\ IsTree(staged)' /\ IsFiniteSet(Present(staged)') /\ listed' = InOrder(Present(staged)')
          /\ Len(entries') <= Len(listed')
      BY <2>1, <2>2, <3>4, <3>6
    <3>8. \A i \in 1 .. Len(entries') : entries'[i] = EntryOf(listed[i])'
      BY <2>1, <3>4, <3>5 DEF EntryOf
    <3> QED
      BY <2>4, <3>4, <3>7, <3>8 DEF PackInv
  <2> QED
    BY <2>1, <2>3, <2>4
<1>4. CASE Hand \/ WriteArchive
  <2>1. /\ phase = "read" /\ Len(entries) = Len(listed) /\ UNCHANGED <<staged, config, listed, entries>>
        /\ \/ phase' = "delivered"
           \/ /\ phase' = "written" /\ \E sizes \in Sizes : archive' = OciArchive(BuildImage(entries), sizes)
              /\ bodies' = [i \in DOMAIN entries |-> entries[i].body]
    BY <1>4 DEF Hand, WriteArchive, Delivers
  <2>2. entries = Whole
    BY <2>1, WrittenWhole
  <2>3. /\ Whole' = Whole /\ \A i : EntryOf(listed[i])' = EntryOf(listed[i])
        /\ Present(staged)' = Present(staged)
    BY <2>1 DEF EntryOf, Whole
  <2>4. /\ IsTree(staged) /\ IsFiniteSet(Present(staged)) /\ listed = InOrder(Present(staged))
        /\ entries \in Seq(EntrySet) /\ Len(entries) <= Len(listed)
        /\ \A i \in 1 .. Len(entries) : entries[i] = EntryOf(listed[i])
    BY <2>1 DEF PackInv
  <2>5. phase' = "written" =>
          /\ \E sizes \in Sizes : archive' = OciArchive(BuildImage(entries), sizes)'
          /\ bodies' = [i \in DOMAIN entries |-> entries[i].body]'
    <3>1. \A sizes \in Sizes : OciArchive(BuildImage(entries), sizes)' = OciArchive(BuildImage(entries), sizes)
      BY <2>1 DEF OciArchive, Taken, BuildImage, BuildLayer, ImageConfig
    <3> QED
      BY <2>1, <3>1
  <2> QED
    BY <2>1, <2>2, <2>3, <2>4, <2>5 DEF PackInv
<1>5. CASE PackAgain
  <2>1. /\ phase \in {"delivered", "written"} /\ staged' = Restaged /\ listed' = <<>> /\ entries' = <<>>
        /\ phase' = "walk"
    BY <1>5 DEF PackAgain
  <2>2. IsTree(staged) /\ IsFiniteSet(Present(staged))
    BY <2>1 DEF PackInv
  <2>3. IsTree(staged)'
    BY <2>1, <2>2, RestagedSame
  <2>4. Range(listed') = {} /\ listed' \in Seq(Present(staged)')
    BY <2>1 DEF Range
  <2> QED
    BY <2>1, <2>3, <2>4 DEF PackInv
<1>6. CASE Open \/ Unpacking \/ UNCHANGED dvars
  <2>1. /\ UNCHANGED <<staged, config, listed, entries, bodies, archive>>
        /\ (phase' = phase \/ (phase = "written" /\ phase' = "unpacking"))
    BY <1>6, ArchiveKept DEF Open, Unpacking, dvars, vars, deliveryVars
  <2>2. /\ Whole' = Whole /\ \A i : EntryOf(listed[i])' = EntryOf(listed[i])
        /\ Present(staged)' = Present(staged) /\ IsTree(staged)' = IsTree(staged)
        /\ \A p : WalkError(p)' = WalkError(p)
    BY <2>1 DEF EntryOf, Whole, WalkError
  <2>3. \A sizes \in Sizes : OciArchive(BuildImage(entries), sizes)' = OciArchive(BuildImage(entries), sizes)
    BY <2>1 DEF OciArchive, Taken, BuildImage, BuildLayer, ImageConfig
  <2> QED
    BY <2>1, <2>2, <2>3 DEF PackInv
<1> QED
  BY <1>1, <1>2, <1>3, <1>4, <1>5, <1>6 DEF DeliveryNext, Packing

\* Every step keeps the image the one of the staged tree.
LEMMA ImagesStep ==
  ASSUME PackInv, FrameInv, ImagesInv, [DeliveryNext]_dvars
  PROVE  ImagesInv'
<1>1. CASE Hand \/ WriteArchive
  <2>1. /\ phase = "read" /\ Len(entries) = Len(listed) /\ UNCHANGED <<staged, config>>
        /\ images' = images \cup {Identity(BuildImage(entries))}
    BY <1>1 DEF Hand, WriteArchive, Delivers
  <2>2. entries = Whole /\ Whole' = Whole
    BY <2>1, WrittenWhole DEF Whole, EntryOf
  <2> QED
    BY <2>1, <2>2, ImageSame DEF ImagesInv
<1>2. CASE PackAgain
  <2>1. /\ phase \in {"delivered", "written"} /\ staged' = Restaged /\ UNCHANGED <<config, images>>
    BY <1>2 DEF PackAgain
  <2>2. Whole' = Whole
    BY <2>1, RestagedSame DEF PackInv
  <2> QED
    BY <2>1, <2>2, ImageSame DEF ImagesInv
<1>3. CASE UNCHANGED <<staged, config, images>>
  <2>1. Whole' = Whole
    BY <1>3 DEF Whole, EntryOf
  <2> QED
    BY <1>3, <2>1, ImageSame DEF ImagesInv
<1> QED
  BY <1>1, <1>2, <1>3 DEF DeliveryNext, Packing, Walk, WalkEnds, ReadStaged, Open, Unpacking, dvars, deliveryVars

\* `pack` leaves what `unpack` works on alone.
LEMMA FrameStep ==
  ASSUME FrameInv, [DeliveryNext]_dvars
  PROVE  FrameInv'
<1>1. CASE Packing \/ PackAgain \/ Open
  BY <1>1 DEF FrameInv, Packing, Walk, WalkEnds, ReadStaged, Hand, WriteArchive, Delivers, PackAgain, Open, vars
<1>2. CASE Unpacking
  <2>1. phase \in {"unpacking", "foreign"} /\ UNCHANGED <<phase, images>> /\ outcome # "packing"
    BY <1>2 DEF Unpacking, FrameInv, deliveryVars
  <2>2. outcome' # "packing"
    BY <1>2, <2>1 DEF Unpacking, Next, ReadEntry, OpenImage, RefuseLayer, SkipEntry, NextPass, Finish, OpenWhiteout,
       FollowLink, WhiteoutNowhere, ApplyWhiteout, ExtractFile, Stopped, PassMarker, Fail, vars
  <2> QED
    BY <2>1, <2>2 DEF FrameInv
<1>3. CASE UNCHANGED dvars
  BY <1>3 DEF FrameInv, dvars, vars, deliveryVars
<1> QED
  BY <1>1, <1>2, <1>3 DEF DeliveryNext

--------------------------------------------------------------------------------
\* Packing and unpacking: the invariant.

\* What holds of `unpack`, whichever archive it reads.
ReadInv == TreeInv /\ OverlayInv /\ ReportInv

\* The archives of others hold entries that fit.
LEMMA ForeignFormed ==
  ASSUME NEW a \in Archives
  PROVE  Formed(a)
<1>1. a \in Archive /\ \A l \in Range(a.layers) : \A e \in Range(l.tar) : Fits(e)
  BY UnpackAssumption
<1>2. a.layers \in Seq(LayerSet)
  BY <1>1 DEF Archive, LayerSet
<1> QED
  BY <1>1, <1>2 DEF Formed, Range

\* Before an archive is written there is no layer.
LEMMA NoLayersFormed == Formed(NoArchive)
<1>1. NoArchive.layers = <<>>
  BY DEF NoArchive
<1>2. <<>> \in Seq(LayerSet) /\ DOMAIN <<>> = {}
  OBVIOUS
<1> QED
  BY <1>1, <1>2 DEF Formed

\* The tree before anything is applied holds nothing but its root.
LEMMA EmptyTree ==
  ASSUME NEW t, t = [p \in Paths |-> IF p = <<>> THEN Folder ELSE Nothing]
  PROVE  /\ t \in [Paths -> Node] /\ Idle \in [on : BOOLEAN, dir : Paths, links : Nat] /\ ~Idle.on
         /\ \A p \in Paths : /\ t[p].kind = "none" => t[p] = Nothing
                             /\ t[p].kind \notin Links /\ ~t[p].bit
<1>1. Nothing \in Node /\ Folder \in Node
  BY DEF Nothing, Folder, Node, Kinds
<1>2. t \in [Paths -> Node]
  BY <1>1
<1>3. \A p \in Paths : /\ t[p].kind = "none" => t[p] = Nothing
                       /\ t[p].kind \notin Links /\ ~t[p].bit
  BY DEF Nothing, Folder, Links
<1>4. Idle \in [on : BOOLEAN, dir : Paths, links : Nat] /\ ~Idle.on
  BY DEF Idle, Paths
<1> QED
  BY <1>2, <1>3, <1>4

\* Nothing is extracted at first.
LEMMA ReadStarts ==
  ASSUME DeliveryInit
  PROVE  ReadInv
<1>1. Formed(archive)
  BY ForeignFormed, NoLayersFormed DEF DeliveryInit, Init
<1>2. /\ layer = 1 /\ pass = 1 /\ pos = 1 /\ walk = Idle /\ setid = {}
      /\ tree = [p \in Paths |-> IF p = <<>> THEN Folder ELSE Nothing] /\ outcome \in {"packing", "reading"}
  BY DEF DeliveryInit, Init
<1>3. /\ tree \in [Paths -> Node] /\ walk \in [on : BOOLEAN, dir : Paths, links : Nat] /\ ~walk.on
      /\ \A p \in Paths : /\ tree[p].kind = "none" => tree[p] = Nothing
                          /\ tree[p].kind \notin Links /\ ~tree[p].bit
  BY <1>2, EmptyTree
<1>4. TreeInv
  BY <1>1, <1>2, <1>3 DEF TreeInv
<1>5. OverlayInv
  BY <1>2, <1>3 DEF OverlayInv, WalkInv, StartInv
<1>6. ReportInv
  BY <1>2, <1>3 DEF ReportInv
<1> QED
  BY <1>4, <1>5, <1>6 DEF ReadInv

\* Every step keeps what is known of the tree, the overlay and the record.
LEMMA ReadStep ==
  ASSUME ReadInv, PackInv, FrameInv, [DeliveryNext]_dvars
  PROVE  ReadInv'
<1>0. TreeInv /\ OverlayInv /\ ReportInv
  BY DEF ReadInv
<1>1. CASE [Next]_vars
  BY <1>0, <1>1, TreeStep, OverlayStep, ReportStep DEF ReadInv
<1>2. CASE WriteArchive \/ Open
  <2>1. /\ phase \in {"read", "written"} /\ UNCHANGED <<layer, pass, pos, walk, tree, setid>>
        /\ outcome' \in {"packing", "reading"} /\ outcome = "packing"
    BY <1>2 DEF WriteArchive, Delivers, Open, FrameInv
  <2>2. Formed(archive')
    <3>1. CASE WriteArchive
      <4>1. phase = "read" /\ UNCHANGED entries /\ \E sizes \in Sizes : archive' = OciArchive(BuildImage(entries), sizes)
        BY <3>1 DEF WriteArchive, Delivers
      <4> QED
        BY <4>1, OwnFormed
    <3>2. CASE Open
      BY <3>2, <1>0 DEF Open, TreeInv
    <3> QED
      BY <1>2, <3>1, <3>2
  <2>3. /\ layer = 1 /\ pass = 1 /\ pos \in Nat \ {0} /\ walk = Idle /\ setid = {}
        /\ tree = [p \in Paths |-> IF p = <<>> THEN Folder ELSE Nothing]
    BY <1>0, <2>1 DEF TreeInv, OverlayInv, StartInv, FrameInv
  <2>4. /\ tree' \in [Paths -> Node] /\ walk' \in [on : BOOLEAN, dir : Paths, links : Nat] /\ ~walk'.on
        /\ \A p \in Paths : /\ tree'[p].kind = "none" => tree'[p] = Nothing
                            /\ tree'[p].kind \notin Links /\ ~tree'[p].bit
    BY <2>1, <2>3, EmptyTree
  <2>5. TreeInv'
    BY <2>1, <2>2, <2>3, <2>4 DEF TreeInv
  <2>6. OverlayInv'
    BY <2>1, <2>3, <2>4 DEF OverlayInv, WalkInv, StartInv
  <2>7. ReportInv'
    BY <2>1, <2>3, <2>4 DEF ReportInv
  <2> QED
    BY <2>5, <2>6, <2>7 DEF ReadInv
<1> QED
  BY <1>1, <1>2 DEF DeliveryNext, Packing, Walk, WalkEnds, ReadStaged, Hand, Delivers, PackAgain, Unpacking, dvars, vars
\* What holds of every state, of those that pack and of those that unpack.
DeliveryInv == ReadInv /\ PackInv /\ FrameInv /\ ImagesInv

\* The inductive invariant.
LEMMA DeliveryInvariant == DeliverySpec => []DeliveryInv
<1>1. DeliveryInit => DeliveryInv
  BY ReadStarts, PackStarts DEF DeliveryInv
<1>2. DeliveryInv /\ [DeliveryNext]_dvars => DeliveryInv'
  BY ReadStep, PackStep, FrameStep, ImagesStep DEF DeliveryInv
<1> QED
  BY <1>1, <1>2, PTL DEF DeliverySpec

\* `TreeIsOverlay`: with every layer applied to a new directory, each path of the output holds the
\* node of the last entry that no later layer removed, for any number of layers, names and entries
\* and any caps.
THEOREM OverlayIsExact == DeliverySpec => []TreeIsOverlay
<1>1. DeliveryInv => TreeIsOverlay
  BY OverlayShows DEF DeliveryInv, ReadInv
<1> QED
  BY <1>1, DeliveryInvariant, PTL

\* `ReportIsOfFinalImage`: the paths `unpack` reports are those whose bit the final image has,
\* for every archive whose entries are not spelled through a link of the archive.
THEOREM ReportIsExact == DeliverySpec => [](InPlace => ReportIsOfFinalImage)
<1>1. DeliveryInv => (InPlace => ReportIsOfFinalImage)
  BY ReportShows DEF DeliveryInv, ReadInv
<1> QED
  BY <1>1, DeliveryInvariant, PTL

\* `Reproducible`: one staged tree is one image, however often it is packed, whatever order its
\* directories answer in, whoever stages it and whichever sink it goes to.
THEOREM OneTreeOneImage == DeliverySpec => []Reproducible
<1>1. DeliveryInv => Reproducible
  <2> SUFFICES ASSUME ImagesInv PROVE Reproducible
    BY DEF DeliveryInv
  <2> DEFINE x == Identity(BuildImage(Whole))
  <2>1. images \in SUBSET {x}
    BY DEF ImagesInv
  <2> HIDE DEF x
  <2>2. IsFiniteSet({x}) /\ Cardinality({x}) = 1
    BY FS_Singleton
  <2> QED
    BY <2>1, <2>2, FS_Subset DEF Reproducible
<1> QED
  BY <1>1, DeliveryInvariant, PTL

--------------------------------------------------------------------------------
\* Packing and unpacking: the round trip.

\* A node of the tree is of an entry of the path, or a directory that one below it needed.
OfEntry(p, k) ==
  tree[p] = [kind |-> entries[k].kind, bit |-> FALSE, to |-> entries[k].to, from |-> <<1, k>>]
Restored(p) == \/ tree[p] = Nothing
               \/ tree[p] = Folder /\ staged[p].kind = "dir"
               \/ \E k \in DOMAIN entries : entries[k].path = p /\ ~Marker(p) /\ OfEntry(p, k)

\* What the entries from one on yield, and whether those that were read are under the cap.
Size(i) == archive.stored[i].size
Yet(i) == (IF i <= 2 THEN Size(2) ELSE 0) + (IF i <= 3 THEN Size(3) ELSE 0)
          + (IF i <= 4 THEN Size(4) ELSE 0) + (IF i <= 5 THEN Size(5) ELSE 0)
UnderCap == \A i \in 1 .. 5 : (outcome = "reading" => i < pos) => Size(i) <= EntryCap

\* What `pack` wrote is read, and applied, with no refusal but for a size; its whiteouts come
\* while there is nothing to delete.
RoundInv ==
  phase = "unpacking" =>
    /\ outcome \in {"reading", "applying", "done", "failed"} /\ setid = {}
    /\ outcome = "failed" => Oversized
    /\ outcome # "failed" => UnderCap
    /\ outcome = "reading" => pos <= 6 /\ budget \in Nat /\ budget >= Yet(pos)
    /\ layer \in {1, 2} /\ tree[<<>>] = Folder
    /\ layer = 2 => archive.layers[1].size <= LayerCap
    /\ walk.on => layer = 1 /\ pass = 1
    /\ layer = 1 /\ pass = 1 => \A p \in Paths \ {<<>>} : tree[p] = Nothing
    /\ outcome = "done" => layer = 2
    /\ \A p \in Paths \ {<<>>} : Restored(p)
    /\ \A k \in DOMAIN entries :
         FileDone(1, k) /\ ~Marker(entries[k].path) => tree[entries[k].path].kind = entries[k].kind

\* The entries of the archive that was written are those of the staged tree.
LEMMA OwnEntries ==
  ASSUME PackInv, phase \in {"written", "unpacking"}
  PROVE  /\ DOMAIN archive.layers = {1} /\ Len(archive.layers) = 1
         /\ archive.layers[1].media = "gzip" /\ archive.layers[1].size \in Nat
         /\ DOMAIN archive.layers[1].tar = DOMAIN entries /\ Len(archive.layers[1].tar) \in Nat
         /\ DOMAIN entries = 1 .. Len(archive.layers[1].tar)
         /\ \A k \in DOMAIN entries :
              /\ archive.layers[1].tar[k] = Taken(entries[k])
              /\ entries[k].path \in Present(staged) /\ entries[k] = EntryOf(entries[k].path)
              /\ bodies[k] = entries[k].body
              /\ entries[k].kind = staged[entries[k].path].kind
         /\ \A p \in Present(staged) : \E k \in DOMAIN entries : entries[k].path = p
         /\ IsTree(staged)
<1>1. /\ IsTree(staged) /\ IsFiniteSet(Present(staged)) /\ listed = InOrder(Present(staged))
      /\ entries \in Seq(EntrySet) /\ entries = Whole /\ bodies = [i \in DOMAIN entries |-> entries[i].body]
  BY DEF PackInv
<1>0. PICK sizes \in Sizes : archive = OciArchive(BuildImage(entries), sizes)
  BY DEF PackInv
<1> DEFINE n == Cardinality(Present(staged))
           tar == [i \in DOMAIN entries |-> Taken(entries[i])]
           blob == [media |-> "gzip", size |-> sizes.tar, tar |-> tar]
<1>2. /\ InOrder(Present(staged)) \in [1 .. n -> Present(staged)] /\ n \in Nat
      /\ \A p \in Present(staged) : \E i \in 1 .. n : InOrder(Present(staged))[i] = p
  <2>1. Present(staged) \in SUBSET Paths
    BY DEF Present
  <2> QED
    BY <1>1, <2>1, InOrderLists
<1>3. DOMAIN entries = 1 .. n /\ \A k \in 1 .. n : entries[k] = EntryOf(InOrder(Present(staged))[k])
  BY <1>1 DEF Whole
<1>4. \A k \in 1 .. n : /\ InOrder(Present(staged))[k] \in Present(staged)
                        /\ entries[k].path = InOrder(Present(staged))[k]
                        /\ entries[k].kind = staged[entries[k].path].kind
  <2>1. \A p : EntryOf(p).path = p /\ EntryOf(p).kind = staged[p].kind
    BY DEF EntryOf
  <2> HIDE DEF n
  <2> QED
    BY <1>2, <1>3, <2>1
<1> HIDE DEF tar
<1>5. archive.layers = <<blob>>
  BY <1>0 DEF OciArchive, tar
<1> HIDE DEF blob
<1>6. archive.layers[1] = blob /\ DOMAIN archive.layers = {1} /\ Len(archive.layers) = 1
  BY <1>5
<1>7. blob.media = "gzip" /\ blob.size \in Nat /\ blob.tar = tar
  BY DeliveryAssumption DEF blob, ArchiveSizes
<1>8. DOMAIN tar = 1 .. n /\ Len(tar) = n
  BY <1>2, <1>3 DEF tar
<1>9. \A k \in DOMAIN entries : tar[k] = Taken(entries[k])
  BY DEF tar
<1>10. \A p \in Present(staged) : \E k \in DOMAIN entries : entries[k].path = p
  BY <1>2, <1>3, <1>4
<1>11. \A k \in DOMAIN entries : /\ entries[k].path \in Present(staged) /\ entries[k] = EntryOf(entries[k].path)
                                 /\ bodies[k] = entries[k].body
                                 /\ entries[k].kind = staged[entries[k].path].kind
  BY <1>1, <1>3, <1>4
<1> HIDE DEF n
<1> QED
  BY <1>1, <1>2, <1>3, <1>5, <1>6, <1>7, <1>8, <1>9, <1>10, <1>11

\* Its blobs are all there, each is what its digest says, and there is room for all.
LEMMA OwnStored ==
  ASSUME PackInv, phase \in {"written", "unpacking"}
  PROVE  /\ Len(archive.stored) = 5 /\ ~archive.multi
         /\ archive.length \in Nat /\ archive.length >= Yet(1)
         /\ Range(archive.stored) = {archive.stored[i] : i \in 1 .. 5}
         /\ \A i \in 1 .. 5 : Size(i) \in Nat /\ archive.stored[i].matches /\ ~archive.stored[i].sparse
         /\ ~Used(archive.stored[1]) /\ Size(1) = 1 /\ \A i \in 2 .. 5 : Used(archive.stored[i])
         /\ Stored(<<"index", 0>>) /\ Stored(<<"manifest", 0>>) /\ Stored(<<"layer", 1>>)
<1>0. PICK sizes \in Sizes : archive = OciArchive(BuildImage(entries), sizes)
  BY DEF PackInv
<1> DEFINE blob(what, size) == [holds |-> what, size |-> size, matches |-> TRUE, sparse |-> FALSE]
           all == <<blob(<<"other", 0>>, 1), blob(<<"index", 0>>, sizes.index), blob(<<"config", 0>>, sizes.config),
                    blob(<<"layer", 1>>, sizes.layer), blob(<<"manifest", 0>>, sizes.manifest)>>
<1>1. sizes.index \in Nat /\ sizes.config \in Nat /\ sizes.layer \in Nat /\ sizes.manifest \in Nat
  BY DeliveryAssumption DEF ArchiveSizes
<1>2. /\ archive.stored = all /\ ~archive.multi
      /\ archive.length = sizes.index + sizes.config + sizes.layer + sizes.manifest + 6
  BY <1>0 DEF OciArchive, BuildImage, BuildLayer
<1>3. Len(all) = 5 /\ DOMAIN all = 1 .. 5
  OBVIOUS
<1>4. /\ all[1] = blob(<<"other", 0>>, 1) /\ all[2] = blob(<<"index", 0>>, sizes.index)
      /\ all[3] = blob(<<"config", 0>>, sizes.config) /\ all[4] = blob(<<"layer", 1>>, sizes.layer)
      /\ all[5] = blob(<<"manifest", 0>>, sizes.manifest)
  OBVIOUS
<1> HIDE DEF all
<1>5. \A i \in 1 .. 5 : i = 1 \/ i = 2 \/ i = 3 \/ i = 4 \/ i = 5
  OBVIOUS
<1>6. \A i \in 1 .. 5 : all[i].size \in Nat /\ all[i].matches /\ ~all[i].sparse
  BY <1>1, <1>4, <1>5
<1>7. Range(archive.stored) = {archive.stored[i] : i \in 1 .. 5}
  BY <1>2, <1>3 DEF Range
<1>8. archive.length \in Nat /\ archive.length >= Yet(1)
  <2>1. Size(2) = sizes.index /\ Size(3) = sizes.config /\ Size(4) = sizes.layer /\ Size(5) = sizes.manifest
    BY <1>2, <1>4 DEF Size
  <2> QED
    BY <1>1, <1>2, <2>1 DEF Yet
<1>9. ~Used(archive.stored[1]) /\ Size(1) = 1 /\ \A i \in 2 .. 5 : Used(archive.stored[i])
  <2>1. \A i \in 2 .. 5 : i = 2 \/ i = 3 \/ i = 4 \/ i = 5
    OBVIOUS
  <2>2. /\ all[2].holds # <<"other", 0>> /\ all[3].holds # <<"other", 0>>
        /\ all[4].holds # <<"other", 0>> /\ all[5].holds # <<"other", 0>>
    BY <1>4
  <2>3. all[1].holds = <<"other", 0>> /\ all[1].size = 1
    BY <1>4
  <2> QED
    BY <1>2, <2>1, <2>2, <2>3 DEF Used, Size
<1>10. Stored(<<"index", 0>>) /\ Stored(<<"manifest", 0>>) /\ Stored(<<"layer", 1>>)
  <2>1. /\ archive.stored[2].holds = <<"index", 0>> /\ archive.stored[5].holds = <<"manifest", 0>>
        /\ archive.stored[4].holds = <<"layer", 1>>
    BY <1>2, <1>4
  <2> QED
    BY <1>7, <2>1 DEF Stored
<1> QED
  BY <1>2, <1>3, <1>6, <1>7, <1>8, <1>9, <1>10 DEF Size

\* No entry that is unpacked is spelled through a link.
LEMMA OwnInPlace ==
  ASSUME PackInv, phase = "unpacking"
  PROVE  InPlace
<1> DEFINE e(k) == archive.layers[1].tar[k]
<1>1. DOMAIN archive.layers = {1} /\ DOMAIN archive.layers[1].tar = DOMAIN entries /\ IsTree(staged)
  BY OwnEntries
<1>2. \A k \in DOMAIN entries :
        LET p == entries[k].path
        IN  /\ p \in Present(staged) /\ (~IsWhiteout(e(k)) => e(k).path = p)
            /\ e(k).kind \in Links => e(k).path = p /\ staged[p].kind \in Links
  <2> SUFFICES ASSUME NEW k \in DOMAIN entries
               PROVE  LET p == entries[k].path
                      IN  /\ p \in Present(staged) /\ (~IsWhiteout(e(k)) => e(k).path = p)
                          /\ e(k).kind \in Links => e(k).path = p /\ staged[p].kind \in Links
    OBVIOUS
  <2> DEFINE p == entries[k].path
  <2>1. p \in Present(staged) /\ entries[k] = EntryOf(p) /\ e(k) = Taken(entries[k])
    BY OwnEntries, Zenon
  <2>2. e(k) = Taken(EntryOf(p))
    BY <2>1
  <2> HIDE DEF p, e
  <2>3. /\ IsWhiteout(e(k)) <=> Marker(p)
        /\ ~Marker(p) => e(k) = [path |-> p, kind |-> EntryOf(p).kind, bit |-> FALSE, to |-> EntryOf(p).to]
        /\ e(k).kind \in Links => e(k).path = p /\ staged[p].kind \in Links
    BY <1>1, <2>1, <2>2, TakenFacts, Zenon
  <2>4. ~IsWhiteout(e(k)) => e(k).path = p
    BY <2>3
  <2> QED
    BY <2>1, <2>3, <2>4 DEF p
<1>3. ASSUME NEW k \in DOMAIN entries, NEW j \in DOMAIN entries, e(k).kind \in Links, ~IsWhiteout(e(j)),
             Under(e(k).path, e(j).path)
      PROVE  FALSE
  <2> DEFINE a == entries[k].path
             b == entries[j].path
  <2>1. /\ a \in Present(staged) /\ b \in Present(staged) /\ staged[a].kind \in Links
        /\ e(k).path = a /\ e(j).path = b
    BY <1>2, <1>3
  <2> HIDE DEF a, b, e
  <2>2. a \in Paths /\ a # <<>> /\ b \in Paths /\ b # <<>> /\ staged[b].kind # "none"
    BY <2>1 DEF Present
  <2>3. Parent(b) = a
    BY <1>3, <2>1, <2>2, UnderFacts
  <2>4. staged[a].kind = "dir"
    BY <1>1, <2>2, <2>3 DEF IsTree
  <2> QED
    BY <2>1, <2>4 DEF Links
<1> HIDE DEF Under
<1> QED
  BY <1>1, <1>3 DEF InPlace

\* The entry that is applied is one of the staged tree, or the whiteout its name stands for.
LEMMA OwnEntry ==
  ASSUME PackInv, TreeInv, phase = "unpacking", layer <= Len(archive.layers), pos <= Len(Layer.tar)
  PROVE  /\ layer = 1 /\ pos \in DOMAIN entries
         /\ IsWhiteout(Entry) <=> Marker(entries[pos].path)
         /\ ~IsWhiteout(Entry) =>
              Entry = [path |-> entries[pos].path, kind |-> entries[pos].kind, bit |-> FALSE, to |-> entries[pos].to]
<1>1. layer = 1
  <2>1. Len(archive.layers) = 1
    BY OwnEntries
  <2> QED
    BY <2>1 DEF TreeInv
<1>2. pos \in DOMAIN entries
  <2>1. DOMAIN entries = 1 .. Len(archive.layers[1].tar) /\ Len(archive.layers[1].tar) \in Nat
    BY OwnEntries
  <2> QED
    BY <1>1, <2>1 DEF TreeInv, Layer
<1> DEFINE p == entries[pos].path
<1>3. p \in Present(staged) /\ entries[pos] = EntryOf(p) /\ archive.layers[1].tar[pos] = Taken(entries[pos]) /\ IsTree(staged)
  BY <1>2, OwnEntries, Zenon
<1>4. Entry = Taken(EntryOf(p))
  BY <1>1, <1>3 DEF Entry, Layer
<1> HIDE DEF p
<1>5. /\ IsWhiteout(Entry) <=> Marker(p)
      /\ ~Marker(p) => Entry = [path |-> p, kind |-> EntryOf(p).kind, bit |-> FALSE, to |-> EntryOf(p).to]
  BY <1>3, <1>4, TakenFacts, Zenon
<1>6. EntryOf(p).kind = entries[pos].kind /\ EntryOf(p).to = entries[pos].to
  BY <1>3, Zenon
<1> QED
  BY <1>1, <1>2, <1>5, <1>6 DEF p

\* Reading: there is room for every entry, so that only one past a cap is refused.
LEMMA RoundReads ==
  ASSUME RoundInv, PackInv, TreeInv, StartInv, phase = "unpacking", UNCHANGED <<phase, entries, staged>>,
         ReadEntry \/ OpenImage \/ RefuseLayer
  PROVE  RoundInv'
<1>1. /\ Len(archive.stored) = 5 /\ ~archive.multi
      /\ Range(archive.stored) = {archive.stored[i] : i \in 1 .. 5}
      /\ \A i \in 1 .. 5 : Size(i) \in Nat /\ archive.stored[i].matches /\ ~archive.stored[i].sparse
      /\ ~Used(archive.stored[1]) /\ Size(1) = 1 /\ \A i \in 2 .. 5 : Used(archive.stored[i])
      /\ Stored(<<"index", 0>>) /\ Stored(<<"manifest", 0>>) /\ Stored(<<"layer", 1>>)
  BY OwnStored
<1>2. /\ pos \in Nat \ {0} /\ layer \in Nat \ {0} /\ outcome \in {"reading", "applying"}
      /\ UNCHANGED <<archive, layer, pass, walk, tree, setid>>
  BY DEF TreeInv, ReadEntry, OpenImage, RefuseLayer, Fail
<1>3. /\ \A p \in Paths \ {<<>>} : Restored(p)'
      /\ layer \in {1, 2} /\ tree[<<>>] = Folder /\ setid = {}
      /\ layer = 2 => archive.layers[1].size <= LayerCap
      /\ layer = 1 /\ pass = 1 => \A p \in Paths \ {<<>>} : tree[p] = Nothing
      /\ UnderCap
  <2>1. \A p : Restored(p)' <=> Restored(p)
    BY <1>2 DEF Restored, OfEntry, Marker
  <2> QED
    BY <1>2, <2>1 DEF RoundInv
<1>4. \A i : Size(i)' = Size(i) /\ Yet(i)' = Yet(i)
  BY <1>2 DEF Size, Yet
<1>5. CASE outcome = "reading"
  <2>1. layer = 1 /\ pass = 1 /\ ~walk.on /\ \A k : ~FileDone(1, k)'
    BY <1>2, <1>5 DEF StartInv, Idle, FileDone
  <2>2. CASE ReadEntry
    <3>1. pos \in 1 .. 5 /\ budget \in Nat /\ budget >= Yet(pos)
      BY <1>1, <1>2, <1>5, <2>2 DEF ReadEntry, RoundInv
    <3> DEFINE e == archive.stored[pos]
    <3>2. e.size = Size(pos) /\ e.matches /\ ~e.sparse /\ (Used(e) <=> pos # 1) /\ e \in Range(archive.stored)
      BY <1>1, <3>1 DEF Size
    <3> HIDE DEF e
    <3>3. /\ \A i \in 1 .. 5 : Size(i) \in Nat
          /\ pos = 1 => Yet(pos) = Yet(pos + 1)
          /\ pos # 1 => Yet(pos) = Size(pos) + Yet(pos + 1)
          /\ Yet(pos + 1) \in Nat /\ Size(pos) \in Nat
      <4>1. pos = 1 \/ pos = 2 \/ pos = 3 \/ pos = 4 \/ pos = 5
        BY <3>1
      <4>2. Size(1) \in Nat /\ Size(2) \in Nat /\ Size(3) \in Nat /\ Size(4) \in Nat /\ Size(5) \in Nat
        BY <1>1
      <4> QED
        BY <1>1, <4>1, <4>2 DEF Yet
    <3>4. CASE Used(e) /\ ~Readable(e)
      <4>1. e.size <= budget
        BY <3>1, <3>2, <3>3, <3>4
      <4>2. ~(e.size <= EntryCap)
        BY <3>2, <3>4, <4>1 DEF Readable
      <4>3. e.size > EntryCap
        BY <3>2, <3>3, <4>2, UnpackAssumption
      <4>4. Oversized'
        BY <1>2, <3>2, <4>3 DEF Oversized
      <4>5. outcome' = "failed"
        BY <2>2, <3>4 DEF ReadEntry, e, Fail
      <4> QED
        BY <1>2, <1>3, <2>1, <4>4, <4>5 DEF RoundInv
    <3>5. CASE ~Used(e) \/ Readable(e)
      <4>1. /\ pos' = pos + 1 /\ outcome' = "reading"
            /\ \/ ~Used(e) /\ budget' = budget
               \/ Used(e) /\ budget' = budget - Size(pos)
        BY <1>5, <2>2, <3>2, <3>5 DEF ReadEntry, e, Charge
      <4>2. budget' \in Nat /\ budget' >= Yet(pos') /\ pos' <= 6
        BY <3>1, <3>2, <3>3, <4>1
      <4>3. Size(pos) <= EntryCap
        <5>1. CASE pos = 1
          BY <1>1, <5>1, UnpackAssumption
        <5>2. CASE pos # 1
          BY <3>2, <3>5, <5>2 DEF Readable
        <5> QED
          BY <5>1, <5>2
      <4>4. UnderCap'
        <5>1. \A i \in 1 .. 5 : i < pos' => i < pos \/ i = pos
          BY <3>1, <4>1
        <5>2. \A i \in 1 .. 5 : i < pos' => Size(i) <= EntryCap
          BY <1>3, <1>5, <4>3, <5>1 DEF UnderCap
        <5> QED
          BY <1>4, <4>1, <5>2 DEF UnderCap
      <4> QED
        BY <1>2, <1>3, <1>4, <2>1, <4>1, <4>2, <4>4 DEF RoundInv
    <3> QED
      BY <3>4, <3>5
  <2>3. CASE OpenImage
    <3>1. outcome' = "applying" /\ pos > 5
      BY <1>1, <2>3 DEF OpenImage
    <3>2. UnderCap'
      <4>1. \A i \in 1 .. 5 : i < pos
        BY <1>2, <3>1
      <4>2. \A i \in 1 .. 5 : Size(i) <= EntryCap
        BY <1>3, <4>1 DEF UnderCap
      <4> QED
        BY <1>4, <4>2 DEF UnderCap
    <3> QED
      BY <1>2, <1>3, <2>1, <3>1, <3>2 DEF RoundInv
  <2> QED
    BY <1>5, <2>2, <2>3 DEF RefuseLayer
<1>6. CASE outcome = "applying"
  <2>1. layer <= Len(archive.layers) /\ ~Applicable(layer) /\ outcome' = "failed" /\ pos' = pos
    BY <1>6 DEF ReadEntry, OpenImage, RefuseLayer, Fail
  <2>2. /\ Len(archive.layers) = 1 /\ archive.layers[1].media = "gzip" /\ archive.layers[1].size \in Nat
        /\ DOMAIN archive.layers = {1}
    BY OwnEntries
  <2>3. layer = 1
    BY <1>2, <2>1, <2>2
  <2>4. archive.layers[1].size > LayerCap
    <3>1. ~(archive.layers[1].size <= LayerCap)
      BY <1>1, <2>1, <2>2, <2>3 DEF Applicable
    <3> QED
      BY <2>2, <3>1, UnpackAssumption
  <2>5. Oversized'
    BY <1>2, <2>2, <2>4 DEF Oversized, Range
  <2>6. \A k : FileDone(1, k)' <=> FileDone(1, k)
    BY <1>2, <2>1 DEF FileDone
  <2>7. \A k \in DOMAIN entries :
          FileDone(1, k)' /\ ~Marker(entries[k].path) => tree[entries[k].path].kind = entries[k].kind
    BY <2>6 DEF RoundInv
  <2>8. walk.on => layer = 1 /\ pass = 1
    BY DEF RoundInv
  <2> QED
    BY <1>2, <1>3, <2>1, <2>5, <2>7, <2>8 DEF RoundInv, Marker
<1> QED
  BY <1>2, <1>5, <1>6

\* An entry that goes on, or is passed over.
LEMMA RoundSkips ==
  ASSUME RoundInv, PackInv, TreeInv, OverlayInv, phase = "unpacking", UNCHANGED <<phase, entries, staged>>,
         SkipEntry \/ NextPass \/ Finish
  PROVE  RoundInv'
<1>1. /\ UNCHANGED <<archive, budget, walk, tree, setid>> /\ outcome = "applying" /\ outcome' \in {"applying", "done"}
      /\ layer \in {1, 2} /\ setid = {} /\ pos \in Nat \ {0} /\ pass \in {1, 2}
  BY DEF SkipEntry, NextPass, Finish, AtEntry, Applying, RoundInv, TreeInv
<1>2. \A p \in Paths \ {<<>>} : Restored(p)'
  <2>1. \A p : Restored(p)' <=> Restored(p)
    BY <1>1 DEF Restored, OfEntry, Marker
  <2> QED
    BY <2>1 DEF RoundInv
<1>3. /\ Len(archive.layers) = 1 /\ (\A k \in DOMAIN entries : k \in Nat \ {0})
      /\ archive.layers[1].media = "gzip"
  BY OwnEntries
<1>4. ~walk.on
  BY DEF SkipEntry, AtEntry, NextPass, Finish, OverlayInv, WalkInv, TreeInv, Formed
<1>5. UnderCap'
  BY <1>1 DEF UnderCap, Size, RoundInv
<1>6. /\ layer' \in {1, 2} /\ (outcome' = "done" => layer' = 2)
      /\ layer' = 2 => archive.layers[1].size <= LayerCap
      /\ layer' = 1 /\ pass' = 1 => \A p \in Paths \ {<<>>} : tree[p] = Nothing
      /\ \A k \in DOMAIN entries : FileDone(1, k)' /\ ~Marker(entries[k].path) => FileDone(1, k)
  <2>1. CASE SkipEntry
    <3>1. /\ layer <= Len(archive.layers) /\ pos <= Len(Layer.tar) /\ UNCHANGED <<layer, pass, outcome>>
          /\ ~InPass(Entry) /\ pos' = pos + 1
      BY <2>1 DEF SkipEntry, AtEntry, Applying
    <3>2. IsWhiteout(Entry) <=> pass # 1
      BY <3>1 DEF InPass, IsWhiteout
    <3>3. IsWhiteout(Entry) <=> Marker(entries[pos].path)
      BY <3>1, OwnEntry
    <3>4. ASSUME NEW k \in DOMAIN entries, FileDone(1, k)', ~Marker(entries[k].path) PROVE FileDone(1, k)
      <4>1. pass = 2 => k # pos
        BY <3>2, <3>3, <3>4
      <4> QED
        BY <1>1, <1>3, <3>1, <3>4, <4>1 DEF FileDone
    <3> QED
      BY <1>1, <3>1, <3>4 DEF RoundInv
  <2>2. CASE NextPass
    <3>1. /\ layer <= Len(archive.layers) /\ pos > Len(Layer.tar) /\ outcome' = outcome
          /\ pos' = 1 /\ pass' = 3 - pass /\ (layer' = IF pass = 1 THEN layer ELSE layer + 1) /\ Applicable(layer)
      BY <2>2 DEF NextPass, Applying
    <3>2. layer = 1
      BY <1>1, <1>3, <3>1
    <3>3. \A k \in DOMAIN entries : k < pos
      <4>1. DOMAIN entries = 1 .. Len(archive.layers[1].tar) /\ Len(archive.layers[1].tar) \in Nat
        BY OwnEntries
      <4> QED
        BY <1>1, <3>1, <3>2, <4>1 DEF Layer
    <3>4. archive.layers[1].size <= LayerCap
      BY <1>3, <3>1, <3>2 DEF Applicable
    <3>5. CASE pass = 1
      BY <1>1, <1>3, <3>1, <3>2, <3>4, <3>5 DEF FileDone
    <3>6. CASE pass = 2
      BY <1>1, <3>1, <3>2, <3>3, <3>4, <3>6 DEF FileDone
    <3> QED
      BY <1>1, <3>5, <3>6
  <2>3. CASE Finish
    <3>1. layer > 1 /\ UNCHANGED <<layer, pass, pos>>
      BY <1>3, <2>3 DEF Finish
    <3> QED
      BY <1>1, <3>1 DEF FileDone, RoundInv
  <2> QED
    BY <2>1, <2>2, <2>3
<1>7. \A k \in DOMAIN entries :
        FileDone(1, k) /\ ~Marker(entries[k].path) => tree[entries[k].path].kind = entries[k].kind
  BY DEF RoundInv
<1>8. /\ UNCHANGED <<phase, entries>> /\ tree'[<<>>] = Folder
      /\ \A k \in DOMAIN entries :
           FileDone(1, k)' /\ ~Marker(entries[k].path) => tree'[entries[k].path].kind = entries[k].kind
  BY <1>1, <1>6, <1>7 DEF RoundInv
<1> QED
  BY <1>1, <1>2, <1>4, <1>5, <1>6, <1>8 DEF RoundInv, Marker

\* A whiteout of ours comes while nothing but the root is there, and deletes nothing.
LEMMA RoundWhiteouts ==
  ASSUME RoundInv, PackInv, TreeInv, phase = "unpacking", UNCHANGED <<phase, entries, staged>>,
         OpenWhiteout \/ FollowLink \/ WhiteoutNowhere \/ ApplyWhiteout
  PROVE  RoundInv'
<1>1. layer = 1 /\ pass = 1
  <2>1. CASE OpenWhiteout
    <3>1. layer <= Len(archive.layers) /\ pos <= Len(Layer.tar) /\ InPass(Entry) /\ IsWhiteout(Entry)
      BY <2>1 DEF OpenWhiteout, AtEntry, Applying
    <3>2. layer = 1
      BY <3>1, OwnEntry
    <3> QED
      BY <3>1, <3>2 DEF InPass
  <2>2. CASE walk.on
    BY <2>2 DEF RoundInv
  <2> QED
    BY <2>1, <2>2 DEF FollowLink, WhiteoutNowhere, ApplyWhiteout
<1>2. /\ \A p \in Paths \ {<<>>} : tree[p] = Nothing
      /\ tree[<<>>] = Folder /\ setid = {} /\ UnderCap /\ outcome = "applying" /\ walk.dir \in Paths
      /\ tree \in [Paths -> Node]
  BY <1>1 DEF RoundInv, TreeInv, OpenWhiteout, AtEntry, Applying, FollowLink, WhiteoutNowhere, ApplyWhiteout
<1>3. Nothing.kind = "none" /\ Folder.kind = "dir" /\ "none" \notin Links /\ "dir" \notin Links
  BY DEF Nothing, Folder, Links
<1>4. tree[walk.dir].kind = IF walk.dir = <<>> THEN "dir" ELSE "none"
  BY <1>2, <1>3
<1>5. ASSUME ApplyWhiteout PROVE \A p \in Paths : tree'[p] = tree[p]
  <2>1. walk.dir = <<>> /\ tree' = [p \in Paths |-> IF p \in Gone(Entry) THEN Nothing ELSE tree[p]]
    BY <1>4, <1>5 DEF ApplyWhiteout
  <2>2. <<>> \notin Gone(Entry)
    <3>1. ASSUME NEW x PROVE Append(<<>>, x) = <<x>> /\ Len(<<x>>) = 1 /\ <<x>> # <<>>
      OBVIOUS
    <3>2. Len(<<>>) = 0
      OBVIOUS
    <3>3. \/ Entry.kind = "opaque" /\ Landed(Entry) = <<>>
          \/ Entry.kind # "opaque" /\ Landed(Entry) = <<Entry.path[Len(Entry.path)]>>
      BY <2>1, <3>1 DEF Landed
    <3>4. ~Under(Landed(Entry), <<>>)
      BY <3>1, <3>2, <3>3 DEF Under
    <3> QED
      BY <3>1, <3>3, <3>4 DEF Gone
  <2> QED
    BY <1>2, <2>1, <2>2
<1>6. /\ UNCHANGED <<archive, outcome, layer, pass>> /\ setid' = {} /\ \A p \in Paths : tree'[p] = tree[p]
  <2>1. CASE OpenWhiteout
    BY <1>2, <2>1 DEF OpenWhiteout
  <2>2. ~FollowLink
    BY <1>3, <1>4 DEF FollowLink
  <2>3. CASE WhiteoutNowhere
    BY <1>2, <1>3, <1>4, <2>3 DEF WhiteoutNowhere, PassMarker
  <2>4. CASE ApplyWhiteout
    BY <1>2, <1>5, <2>4 DEF ApplyWhiteout, PassMarker
  <2> QED
    BY <2>1, <2>2, <2>3, <2>4
<1>7. /\ \A p \in Paths \ {<<>>} : tree'[p] = Nothing
      /\ tree'[<<>>] = Folder /\ <<>> \in Paths
  BY <1>2, <1>6 DEF Paths
<1>8. \A p \in Paths \ {<<>>} : Restored(p)'
  BY <1>7 DEF Restored
<1>9. \A k : ~FileDone(1, k)'
  BY <1>1, <1>6 DEF FileDone
<1>10. UnderCap'
  BY <1>2, <1>6 DEF UnderCap, Size
<1> QED
  BY <1>1, <1>2, <1>6, <1>7, <1>8, <1>9, <1>10 DEF RoundInv

\* An entry can always be extracted: its directory is a directory, and what is there is of its kind.
LEMMA RoundExtracts ==
  ASSUME RoundInv, PackInv, TreeInv, OverlayInv, phase = "unpacking", UNCHANGED <<phase, entries, staged>>, ExtractFile
  PROVE  RoundInv'
<1> DEFINE a == entries[pos].path
           b == Parent(a)
<1>1. /\ layer <= Len(archive.layers) /\ pos <= Len(Layer.tar) /\ outcome = "applying" /\ InPass(Entry)
      /\ setid' = Recorded(Entry) /\ ~IsWhiteout(Entry) /\ ~walk.on
  BY DEF ExtractFile, AtEntry, Applying
<1>2. /\ layer = 1 /\ pos \in DOMAIN entries /\ ~Marker(a)
      /\ Entry = [path |-> a, kind |-> entries[pos].kind, bit |-> FALSE, to |-> entries[pos].to]
  BY <1>1, OwnEntry
<1>3. /\ a \in Present(staged) /\ entries[pos].kind = staged[a].kind /\ IsTree(staged)
  BY <1>2, OwnEntries
<1>0. pass = 2
  BY <1>1 DEF InPass, TreeInv, IsWhiteout
<1>4. /\ Entry.path = a /\ Entry.kind = entries[pos].kind /\ ~Entry.bit /\ Entry.to = entries[pos].to
  BY <1>2
<1>5. Place(Entry) = a
  BY <1>1, <1>2, <1>4, OwnInPlace, PlacedInPlace
<1> HIDE DEF a
<1>6. a \in Paths /\ a # <<>> /\ staged[a].kind # "none" /\ staged[b].kind = "dir"
  BY <1>3 DEF Present, IsTree
<1>7. b \in Paths /\ b # a
  <2>1. Len(a) \in 0 .. 2 /\ Len(a) # 0
    BY <1>6, PathFacts
  <2>2. Len(a) > 0
    BY <2>1
  <2>3. b \in Paths /\ Len(b) = Len(a) - 1
    BY <1>6, <2>2, PathFacts
  <2> QED
    BY <2>1, <2>3
<1>8. \A p \in Paths \ {<<>>} : tree[p].kind = "none" \/ tree[p].kind = staged[p].kind
  <2>1. \A k \in DOMAIN entries : entries[k].kind = staged[entries[k].path].kind
    BY OwnEntries
  <2>2. Nothing.kind = "none" /\ Folder.kind = "dir"
    BY DEF Nothing, Folder
  <2>3. \A p \in Paths \ {<<>>} : Restored(p)
    BY DEF RoundInv
  <2> SUFFICES ASSUME NEW p \in Paths \ {<<>>} PROVE tree[p].kind = "none" \/ tree[p].kind = staged[p].kind
    OBVIOUS
  <2>4. CASE \E k \in DOMAIN entries : entries[k].path = p /\ ~Marker(p) /\ OfEntry(p, k)
    <3>1. PICK k \in DOMAIN entries : entries[k].path = p /\ OfEntry(p, k)
      BY <2>4
    <3>2. tree[p].kind = entries[k].kind
      BY <3>1 DEF OfEntry
    <3> QED
      BY <2>1, <3>1, <3>2
  <2> QED
    BY <2>2, <2>3, <2>4 DEF Restored
<1>9. tree[<<>>] = Folder /\ Folder.kind = "dir" /\ <<>> \in Paths
  BY DEF RoundInv, Folder, Nothing, Paths
<1>10. staged[<<>>].kind = "dir"
  BY <1>3 DEF IsTree
<1>11. Extractable(Entry)
  <2>1. tree[b].kind \in {"none", "dir"}
    BY <1>6, <1>7, <1>8, <1>9
  <2>2. tree[a].kind = "none" \/ tree[a].kind = Entry.kind
    BY <1>3, <1>4, <1>6, <1>8
  <2> QED
    BY <1>4, <1>5, <2>1, <2>2 DEF Extractable
<1>12. /\ tree' = [p \in Paths |->
              IF p = a THEN [kind |-> Entry.kind, bit |-> Entry.bit, to |-> Entry.to, from |-> <<layer, pos>>]
              ELSE IF p = b /\ tree[p].kind = "none" THEN Folder ELSE tree[p]]
       /\ pos' = pos + 1 /\ UNCHANGED <<archive, outcome, budget, held, layer, pass, walk>>
  BY <1>5, <1>11 DEF ExtractFile
<1>13. tree'[<<>>] = Folder
  BY <1>6, <1>9, <1>12
<1>14. setid' = {}
  BY <1>1, <1>4 DEF Recorded, RoundInv
<1>15. ASSUME NEW p \in Paths \ {<<>>} PROVE Restored(p)'
  <2>1. CASE p = a
    <3>1. tree'[p] = [kind |-> entries[pos].kind, bit |-> FALSE, to |-> entries[pos].to, from |-> <<1, pos>>]
      BY <1>2, <1>4, <1>12, <2>1
    <3>2. PICK k : k = pos
      OBVIOUS
    <3>3. k \in DOMAIN entries /\ entries[k].path = p /\ ~Marker(p)
      BY <1>2, <2>1, <3>2 DEF a
    <3>4. OfEntry(p, k)'
      BY <3>1, <3>2 DEF OfEntry
    <3> QED
      BY <3>3, <3>4 DEF Restored, Marker
  <2>2. CASE p # a /\ tree'[p] = Folder /\ p = b
    BY <1>6, <2>2 DEF Restored
  <2>3. CASE p # a /\ tree'[p] = tree[p]
    <3>1. Restored(p)
      BY DEF RoundInv
    <3> QED
      BY <2>3, <3>1 DEF Restored, OfEntry, Marker
  <2> QED
    BY <1>12, <2>1, <2>2, <2>3
<1>16. ASSUME NEW k \in DOMAIN entries, FileDone(1, k)', ~Marker(entries[k].path)
       PROVE  tree'[entries[k].path].kind = entries[k].kind
  <2>0. k \in Nat
    <3>1. DOMAIN entries = 1 .. Len(archive.layers[1].tar)
      BY OwnEntries
    <3> QED
      BY <3>1
  <2>1. entries[k].path \in Present(staged) /\ entries[k].kind = staged[entries[k].path].kind
    BY OwnEntries, Zenon
  <2>2. entries[k].path \in Paths /\ staged[entries[k].path].kind # "none"
    BY <2>1 DEF Present
  <2>3. CASE entries[k].path = a
    <3>1. tree'[a].kind = Entry.kind
      BY <1>6, <1>12
    <3> QED
      BY <1>3, <1>4, <2>1, <2>3, <3>1
  <2>4. CASE entries[k].path # a
    <3>1. FileDone(1, k)
      <4>1. k # pos
        BY <2>4 DEF a
      <4>2. pos \in Nat /\ layer = 1
        BY <1>2 DEF TreeInv
      <4> QED
        BY <1>12, <1>16, <2>0, <4>1, <4>2 DEF FileDone
    <3>2. tree[entries[k].path].kind = entries[k].kind
      BY <1>16, <3>1 DEF RoundInv
    <3>3. tree'[entries[k].path] = tree[entries[k].path]
      BY <1>12, <2>1, <2>2, <2>4, <3>2
    <3> QED
      BY <3>2, <3>3
  <2> QED
    BY <2>3, <2>4
<1>17. UnderCap' /\ outcome' = "applying"
  BY <1>1, <1>2, <1>12 DEF UnderCap, Size, RoundInv
<1>18. layer' = 1 /\ pass' = 2 /\ ~walk'.on
  BY <1>0, <1>1, <1>2, <1>12
<1> QED
  BY <1>13, <1>14, <1>15, <1>16, <1>17, <1>18 DEF RoundInv

\* A step that touches nothing of it.
LEMMA RoundKept ==
  ASSUME RoundInv,
         UNCHANGED <<archive, outcome, budget, layer, pass, pos, walk, tree, setid, phase, entries, staged>>
  PROVE  RoundInv'
<1>1. \A p : Restored(p)' <=> Restored(p)
  BY DEF Restored, OfEntry, Marker
<1>2. \A k : FileDone(1, k)' <=> FileDone(1, k)
  BY DEF FileDone
<1>3. (UnderCap' <=> UnderCap) /\ (Oversized' <=> Oversized) /\ \A i : Yet(i)' = Yet(i)
  BY DEF UnderCap, Oversized, Yet, Size
<1> QED
  BY <1>1, <1>2, <1>3 DEF RoundInv, Marker

\* Every step keeps our own archive readable, and its entries where they were staged.
LEMMA RoundStep ==
  ASSUME RoundInv, ReadInv, PackInv, FrameInv, [DeliveryNext]_dvars
  PROVE  RoundInv'
<1>0. TreeInv /\ OverlayInv /\ StartInv
  BY DEF ReadInv, OverlayInv
<1>1. CASE Open
  <2>1. /\ phase = "written" /\ outcome' = "reading" /\ budget' = archive.length
        /\ UNCHANGED <<archive, layer, pass, pos, walk, tree, setid, staged, entries>>
    BY <1>1 DEF Open
  <2>2. outcome = "packing" /\ pos = 1 /\ setid = {}
    BY <2>1 DEF FrameInv
  <2>3. layer = 1 /\ walk = Idle /\ tree = [p \in Paths |-> IF p = <<>> THEN Folder ELSE Nothing]
    BY <1>0, <2>2 DEF StartInv
  <2>4. /\ archive.length \in Nat /\ archive.length >= Yet(1) /\ Yet(1)' = Yet(1)
        /\ UnderCap'
    <3>1. archive.length \in Nat /\ archive.length >= Yet(1)
      BY <2>1, OwnStored
    <3>2. Yet(1)' = Yet(1)
      BY <2>1 DEF Yet, Size
    <3>3. UnderCap'
      BY <2>1, <2>2 DEF UnderCap
    <3> QED
      BY <3>1, <3>2, <3>3
  <2>5. tree'[<<>>] = Folder /\ \A p \in Paths \ {<<>>} : tree'[p] = Nothing
    BY <2>1, <2>3 DEF Paths
  <2>6. \A p \in Paths \ {<<>>} : Restored(p)'
    BY <2>5 DEF Restored
  <2>7. budget' \in Nat /\ pos' <= 6 /\ budget' >= Yet(pos)'
    BY <2>1, <2>2, <2>4
  <2>8. pass' = 1 /\ layer' = 1 /\ ~walk'.on
    BY <1>0, <2>1, <2>2, <2>3 DEF StartInv, Idle
  <2>9. \A k : ~FileDone(1, k)'
    BY <2>8 DEF FileDone
  <2> QED
    BY <2>1, <2>2, <2>4, <2>5, <2>6, <2>7, <2>8, <2>9 DEF RoundInv
<1>2. CASE Unpacking /\ phase = "unpacking"
  <2>1. UNCHANGED <<phase, entries, staged>> /\ Next
    BY <1>2 DEF Unpacking, deliveryVars
  <2>2. CASE OpenWhiteout \/ FollowLink \/ WhiteoutNowhere \/ ApplyWhiteout
    BY <1>0, <1>2, <2>1, <2>2, RoundWhiteouts
  <2>4. CASE ReadEntry \/ OpenImage \/ RefuseLayer
    BY <1>0, <1>2, <2>1, <2>4, RoundReads
  <2>5. CASE SkipEntry \/ NextPass \/ Finish
    BY <1>0, <1>2, <2>1, <2>5, RoundSkips
  <2>6. CASE ExtractFile
    BY <1>0, <1>2, <2>1, <2>6, RoundExtracts
  <2>7. CASE Stopped
    <3>1. UNCHANGED <<archive, outcome, budget, layer, pass, pos, walk, tree, setid>>
      BY <2>7 DEF Stopped, vars
    <3> QED
      BY <2>1, <3>1, RoundKept
  <2> QED
    BY <2>1, <2>2, <2>4, <2>5, <2>6, <2>7 DEF Next
<1>3. CASE phase' # "unpacking"
  BY <1>3 DEF RoundInv
<1>4. CASE UNCHANGED dvars
  <2>1. UNCHANGED <<archive, outcome, budget, layer, pass, pos, walk, tree, setid, phase, entries, staged>>
    BY <1>4 DEF dvars, vars, deliveryVars
  <2> QED
    BY <2>1, RoundKept
<1>5. CASE Packing \/ PackAgain \/ (Unpacking /\ phase # "unpacking")
  <2>1. phase' # "unpacking"
    BY <1>5 DEF Packing, Walk, WalkEnds, ReadStaged, Hand, WriteArchive, Delivers, PackAgain, Unpacking, deliveryVars
  <2> QED
    BY <1>3, <2>1
<1> QED
  BY <1>1, <1>2, <1>4, <1>5 DEF DeliveryNext

\* What is unpacked in the end is what was staged, but for the names that are whiteouts.
LEMMA RestoredIsStaged ==
  ASSUME RoundInv, ReadInv, PackInv, phase = "unpacking", outcome = "done"
  PROVE  /\ DOMAIN ScanUnpacked = {p \in DOMAIN ScanStaged(staged) : ~Marker(p)}
         /\ \A p \in DOMAIN ScanUnpacked : ScanUnpacked[p] = ScanStaged(staged)[p]
<1>1. \A p \in Paths \ {<<>>} : /\ ~Marker(p) => tree[p].kind = staged[p].kind
                                /\ Marker(p) => tree[p].kind \in {"none", "dir"}
  <2> SUFFICES ASSUME NEW p \in Paths \ {<<>>}
               PROVE  /\ ~Marker(p) => tree[p].kind = staged[p].kind
                      /\ Marker(p) => tree[p].kind \in {"none", "dir"}
    OBVIOUS
  <2>1. \A k \in DOMAIN entries : entries[k].path \in Present(staged) /\ entries[k].kind = staged[entries[k].path].kind
    BY OwnEntries, Zenon
  <2>2. Nothing.kind = "none" /\ Folder.kind = "dir"
    BY DEF Nothing, Folder
  <2>3. Restored(p)
    BY DEF RoundInv
  <2>4. CASE p \in Present(staged) /\ ~Marker(p)
    <3>1. PICK k \in DOMAIN entries : entries[k].path = p
      BY <2>4, OwnEntries, Zenon
    <3>2. FileDone(1, k)
      BY DEF FileDone, RoundInv
    <3>3. tree[p].kind = entries[k].kind
      BY <2>4, <3>1, <3>2 DEF RoundInv
    <3> QED
      BY <2>1, <2>4, <3>1, <3>3
  <2>5. CASE p \notin Present(staged) /\ ~Marker(p)
    <3>1. staged[p].kind = "none"
      BY <2>5 DEF Present
    <3> QED
      BY <2>1, <2>2, <2>3, <2>5, <3>1 DEF Restored
  <2>6. CASE Marker(p)
    BY <2>2, <2>3, <2>6 DEF Restored
  <2> QED
    BY <2>4, <2>5, <2>6
<1>2. tree[<<>>].kind = "dir" /\ staged[<<>>].kind = "dir" /\ <<>> \in Paths
  BY OwnEntries DEF IsTree, RoundInv, Folder, Nothing, Paths
<1> DEFINE S == {q \in Present(staged) : staged[q].kind # "dir"}
           D == {q \in S : ~Marker(q)}
<1>3. D = {q \in Paths : tree[q].kind \notin {"none", "dir"}}
  BY <1>1, <1>2 DEF Present
<1>4. ASSUME NEW p \in D
      PROVE  (IF staged[p].kind = "file" THEN <<"file", staged[p].body>> ELSE <<staged[p].kind, staged[p].to>>)
             = (IF tree[p].kind = "file" THEN <<"file", bodies[tree[p].from[2]]>> ELSE <<tree[p].kind, tree[p].to>>)
  <2>1. p \in Paths \ {<<>>} /\ staged[p].kind \notin {"none", "dir"} /\ tree[p].kind = staged[p].kind
    BY <1>1 DEF Present
  <2>2. PICK k \in DOMAIN entries : entries[k].path = p /\ OfEntry(p, k)
    <3>1. Restored(p) /\ tree[p] # Nothing /\ tree[p] # Folder
      BY <2>1 DEF RoundInv, Nothing, Folder
    <3> QED
      BY <3>1 DEF Restored
  <2>3. entries[k] = EntryOf(p) /\ bodies[k] = entries[k].body
    BY <2>2, OwnEntries, Zenon
  <2>4. tree[p].to = staged[p].to /\ (staged[p].kind = "file" => bodies[k] = staged[p].body)
    <3>1. EntryOf(p).to = staged[p].to /\ (staged[p].kind = "file" => EntryOf(p).body = staged[p].body)
      BY DEF EntryOf
    <3>2. tree[p].to = entries[k].to
      BY <2>2 DEF OfEntry
    <3>3. entries[k].to = EntryOf(p).to /\ bodies[k] = EntryOf(p).body
      BY <2>3, Zenon
    <3> QED
      BY <3>1, <3>2, <3>3
  <2>5. tree[p].from[2] = k
    BY <2>2 DEF OfEntry
  <2> QED
    BY <2>1, <2>4, <2>5
<1>5. ScanStaged(staged) = [p \in S |-> IF staged[p].kind = "file" THEN <<"file", staged[p].body>>
                                       ELSE <<staged[p].kind, staged[p].to>>]
  BY DEF ScanStaged
<1>6. ScanUnpacked = [p \in D |-> IF tree[p].kind = "file" THEN <<"file", bodies[tree[p].from[2]]>>
                                 ELSE <<tree[p].kind, tree[p].to>>]
  BY <1>3 DEF ScanUnpacked
<1>7. D = {p \in S : ~Marker(p)}
  OBVIOUS
<1> HIDE DEF S, D
<1> QED
  BY <1>4, <1>5, <1>6, <1>7

\* `RoundTrip`: of the archive `pack` wrote, `unpack` refuses nothing but a size past its caps, and
\* what it restores to a new directory is what was staged, without the files whose names make them
\* whiteouts: for every tree of two levels, any names of either sort, and any sizes and caps.
THEOREM RoundTripHolds == DeliverySpec => []RoundTrip
<1>1. DeliveryInit => RoundInv
  BY DEF DeliveryInit, RoundInv
<1>2. DeliveryInv /\ RoundInv /\ [DeliveryNext]_dvars => RoundInv'
  BY RoundStep DEF DeliveryInv
<1>3. DeliveryInv /\ RoundInv => RoundTrip
  <2> SUFFICES ASSUME ReadInv, PackInv, RoundInv, phase = "unpacking", outcome = "done"
               PROVE  /\ ~Oversized
                      /\ Diff(ScanStaged(staged), ScanUnpacked)
                           = [added |-> {}, removed |-> {p \in DOMAIN ScanStaged(staged) : Marker(p)}, changed |-> {}]
    BY DEF DeliveryInv, RoundTrip, RoundInv
  <2>1. /\ DOMAIN ScanUnpacked = {p \in DOMAIN ScanStaged(staged) : ~Marker(p)}
        /\ \A p \in DOMAIN ScanUnpacked : ScanUnpacked[p] = ScanStaged(staged)[p]
    BY RestoredIsStaged
  <2>2. \A new, old : /\ DOMAIN new = {p \in DOMAIN old : ~Marker(p)}
                      /\ \A p \in DOMAIN new : new[p] = old[p]
                      => Diff(old, new) = [added |-> {}, removed |-> {p \in DOMAIN old : Marker(p)}, changed |-> {}]
    BY DEF Diff
  <2>3. ~Oversized
    <3>1. /\ Range(archive.stored) = {archive.stored[i] : i \in 1 .. 5} /\ \A i \in 1 .. 5 : Size(i) \in Nat
          /\ DOMAIN archive.layers = {1} /\ archive.layers[1].size \in Nat
      BY OwnStored, OwnEntries
    <3>2. archive.layers[1].size <= LayerCap /\ \A i \in 1 .. 5 : Size(i) <= EntryCap
      BY DEF RoundInv, UnderCap
    <3>3. EntryCap \in Nat /\ LayerCap \in Nat
      BY UnpackAssumption
    <3>4. /\ \A i \in 1 .. 5 : ~(Size(i) > EntryCap)
          /\ ~(archive.layers[1].size > LayerCap)
      BY <3>1, <3>2, <3>3
    <3>5. Range(archive.layers) = {archive.layers[1]}
      BY <3>1 DEF Range
    <3> QED
      BY <3>1, <3>4, <3>5 DEF Oversized, Size
  <2> QED
    BY <2>1, <2>2, <2>3
<1> QED
  BY <1>1, <1>2, <1>3, DeliveryInvariant, PTL DEF DeliverySpec

--------------------------------------------------------------------------------
\* The memory that reading takes.

\* Each entry says how many bytes it yields.
Sized(a) == a.length \in Nat /\ \A i \in 1 .. Len(a.stored) : a.stored[i].size \in Nat

\* What is held was taken out of the budget, which began at the archive's length; before an
\* archive is opened nothing is held.
BudgetInv ==
  /\ Sized(archive)
  /\ pos \in Nat \ {0}
  /\ budget \in Nat /\ held \in Nat /\ held + budget <= archive.length
  /\ phase \in {"walk", "read", "delivered", "written", "stopped"} => held = 0 /\ budget = 0 /\ pos = 1

\* What the archives of others are known to be.
LEMMA ForeignSized ==
  ASSUME NEW a \in Archives
  PROVE  Sized(a)
<1>1. a \in Archive
  BY UnpackAssumption
<1>2. a.length \in Nat
  BY <1>1 DEF Archive
<1> DEFINE Held == [holds : ({"index", "manifest", "config", "other"} \X {0}) \cup ({"layer"} \X Nat),
                    size : Nat, matches : BOOLEAN, sparse : BOOLEAN]
<1>3. a.stored \in Seq(Held)
  BY <1>1 DEF Archive
<1>4. \A x \in Held : x.size \in Nat
  OBVIOUS
<1> HIDE DEF Held
<1>5. QED
  BY <1>2, <1>3, <1>4 DEF Sized

\* What `pack` writes has entries of known size.
LEMMA OwnSized ==
  ASSUME NEW built, NEW sizes \in Sizes
  PROVE  Sized(OciArchive(built, sizes))
<1>1. sizes.index \in Nat /\ sizes.config \in Nat /\ sizes.layer \in Nat /\ sizes.manifest \in Nat
  BY DeliveryAssumption DEF ArchiveSizes
<1> QED
  BY <1>1 DEF OciArchive, Sized

\* One step of `unpack`: an entry that is read moves from the budget to what is held.
LEMMA UnpackStep ==
  ASSUME BudgetInv, Next, UNCHANGED deliveryVars, phase \in {"unpacking", "foreign"}
  PROVE  BudgetInv'
<1>1. CASE ReadEntry
  <2> DEFINE e == archive.stored[pos]
  <2>1. pos \in 1 .. Len(archive.stored) /\ archive' = archive
    BY <1>1 DEF ReadEntry, BudgetInv, Fail
  <2>2. e.size \in Nat
    BY <2>1 DEF BudgetInv, Sized
  <2>3. CASE UNCHANGED <<budget, held>>
    BY <1>1, <2>1, <2>3 DEF ReadEntry, Fail, BudgetInv, deliveryVars
  <2>4. CASE Readable(e) /\ budget' = Charge(e.size) /\ held' = held + e.size /\ pos' = pos + 1
    <3>1. e.size <= budget
      BY <2>4 DEF Readable
    <3>2. budget' = budget - e.size
      BY <2>4 DEF Charge
    <3> HIDE DEF e
    <3>3. /\ held \in Nat /\ budget \in Nat /\ archive.length \in Nat
          /\ held + budget <= archive.length /\ pos \in Nat \ {0}
      BY DEF BudgetInv, Sized
    <3>4. /\ held' \in Nat /\ budget' \in Nat /\ held' + budget' <= archive.length
          /\ pos' \in Nat \ {0}
      BY <2>2, <2>4, <3>1, <3>2, <3>3
    <3>5. QED
      BY <2>1, <3>4 DEF BudgetInv, deliveryVars
  <2>5. QED
    BY <1>1, <2>3, <2>4 DEF ReadEntry, Fail
<1>2. CASE ~ReadEntry
  <2>1. UNCHANGED <<archive, budget, held>> /\ pos' \in {1, pos, pos + 1}
    BY <1>2 DEF Next, OpenImage, RefuseLayer, SkipEntry, NextPass, Finish, OpenWhiteout, FollowLink,
       WhiteoutNowhere, ApplyWhiteout, ExtractFile, Stopped, PassMarker, Fail, vars
  <2>2. QED
    BY <2>1 DEF BudgetInv, deliveryVars
<1>3. QED
  BY <1>1, <1>2

\* `HeldFitsArchive`: the blobs in memory never hold more than the archive itself, whatever its
\* entries say, whatever the caps are.
THEOREM MemoryIsBounded == DeliverySpec => []HeldFitsArchive
<1>1. DeliveryInit => BudgetInv
  BY ForeignSized DEF DeliveryInit, Init, BudgetInv, NoArchive, Sized
<1>2. BudgetInv /\ [DeliveryNext]_dvars => BudgetInv'
  <2> SUFFICES ASSUME BudgetInv, [DeliveryNext]_dvars PROVE BudgetInv'
    OBVIOUS
  <2>1. CASE Walk \/ WalkEnds \/ ReadStaged \/ Hand \/ PackAgain
    <3>1. UNCHANGED <<archive, budget, held, pos>>
      BY <2>1 DEF Walk, WalkEnds, ReadStaged, Hand, Delivers, PackAgain, vars
    <3>2. phase \in {"walk", "read", "delivered", "written"}
      BY <2>1 DEF Walk, WalkEnds, ReadStaged, Hand, Delivers, PackAgain
    <3>3. QED
      BY <3>1, <3>2 DEF BudgetInv
  <2>2. CASE WriteArchive
    <3>1. UNCHANGED <<budget, held, pos>> /\ phase = "read"
      BY <2>2 DEF WriteArchive, Delivers
    <3>2. Sized(archive')
      BY <2>2, OwnSized DEF WriteArchive
    <3>3. QED
      BY <2>2, <3>1, <3>2 DEF BudgetInv, WriteArchive, Delivers, Sized
  <2>3. CASE Open
    BY <2>3 DEF Open, BudgetInv, Sized
  <2>4. CASE Unpacking
    BY <2>4, UnpackStep DEF Unpacking
  <2>5. CASE UNCHANGED dvars
    BY <2>5 DEF dvars, vars, deliveryVars, BudgetInv
  <2>6. QED
    BY <2>1, <2>2, <2>3, <2>4, <2>5 DEF DeliveryNext, Packing
<1>3. BudgetInv => HeldFitsArchive
  BY DEF BudgetInv, HeldFitsArchive, Sized
<1>4. QED
  BY <1>1, <1>2, <1>3, PTL DEF DeliverySpec
================================================================================
