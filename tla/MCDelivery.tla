-------------------------------- MODULE MCDelivery --------------------------------
(***************************************************************************)
(* Delivery over staged trees of two names and two levels, a few with names *)
(* that begin with `.wh.`, and the foreign archives of MCUnpack.           *)
(***************************************************************************)
EXTENDS Delivery, MCUnpack

Blank == [kind |-> "none", to |-> NoName, body |-> 0, mode |-> "plain", reads |-> TRUE]
Dir == [Blank EXCEPT !.kind = "dir"]
File(body, mode) == [Blank EXCEPT !.kind = "file", !.body = body, !.mode = mode]
Link(kind, n) == [Blank EXCEPT !.kind = kind, !.to = n]

Shut(S) == S \cup {[n EXCEPT !.reads = FALSE] : n \in {m \in S : m.kind \in {"dir", "file"}}}

Tops == {Blank, Dir, File(1, "exec"), File(2, "private"), Link("rooted", "b"), Link("link", "a")}
Leaves == {Blank, File(1, "setuid"), File(2, "plain")}

\* A name holds leaves only if it is a directory; at most one entry cannot be read.
Plainly == {"a", "b"}
Below(top) == {<<n, m>> : n \in {k \in Plainly : top[k].kind = "dir"}, m \in Plainly}
TreeOf(top, leaf) ==
  [p \in Paths |-> IF p = <<>> THEN Dir
                   ELSE IF Len(p) = 1 THEN (IF p[1] \in DOMAIN top THEN top[p[1]] ELSE Blank)
                   ELSE IF p \in DOMAIN leaf THEN leaf[p] ELSE Blank]
PlainTrees ==
  {t \in UNION {{TreeOf(top, leaf) : leaf \in [Below(top) -> Shut(Leaves)]} : top \in [Plainly -> Shut(Tops)]} :
     Cardinality({p \in Paths : ~t[p].reads}) <= 1}

\* `.wh.a` and `.wh..wh..opq`, as files, and `.wh.a` as a directory, beside what they hide.
MCHides == [wh |-> "a", opq |-> NoName]
MarkedTops == [a : {File(1, "exec"), Link("link", "b")}, wh : {Blank, Dir, File(2, "plain")}, opq : {Blank, File(2, "plain")}]
MarkedTrees ==
  {TreeOf(top, [p \in {<<"wh", "b">>} |-> IF top.wh = Dir THEN File(1, "plain") ELSE Blank]) : top \in MarkedTops}
  \cup {TreeOf([a |-> Dir], leaf) :
          leaf \in [{<<"a", "a">>, <<"a", "wh">>, <<"a", "opq">>} -> {Blank, File(1, "plain")}]}

MCTrees == PlainTrees \cup MarkedTrees

\* Up to the caps of `unpack`, and over one of them.
AtCaps == [index |-> 2, config |-> 2, layer |-> 2, manifest |-> 2, tar |-> 2]
MCSizes == {AtCaps, [AtCaps EXCEPT !.layer = 3], [AtCaps EXCEPT !.tar = 3]}

MCConfigs ==
  {[entrypoint |-> "unset", user |-> "unset", env |-> <<>>],
   [entrypoint |-> "/app", user |-> "0:0",
    env |-> << <<"A", "1">>, <<"PATH", "own">>, <<"A", "2">> >>]}
==================================================================================
