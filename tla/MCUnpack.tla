------------------------------- MODULE MCUnpack -------------------------------
(* Small archives: two names, two or three layers of a few entries. *)
EXTENDS Unpack, SequencesExt

E(kind, path) == [kind |-> kind, path |-> path, bit |-> FALSE, to |-> NoName]
Setuid(path) == [E("file", path) EXCEPT !.bit = TRUE]
LinkTo(n, m) == [E("link", <<n>>) EXCEPT !.to = m]

Blob(what, size) == [holds |-> what, size |-> size, matches |-> TRUE, sparse |-> FALSE]

\* An archive as `pack --oci-archive` writes it.
Image(tars) ==
  [length |-> Len(tars) + 2,
   stored |-> <<Blob(<<"index", 0>>, 1), Blob(<<"manifest", 0>>, 1)>>
              \o [n \in DOMAIN tars |-> Blob(<<"layer", n>>, 1)],
   multi |-> FALSE,
   layers |-> [n \in DOMAIN tars |-> [media |-> "tar", size |-> 1, tar |-> tars[n]]]]

UpTo(S, n) == UNION {[1 .. k -> S] : k \in 0 .. n}

\* A set-id file rewritten, removed and brought back, alone or with its directory.
PlainEntries == {E("file", <<"a">>), E("dir", <<"a">>), E("file", <<"a", "b">>),
                 Setuid(<<"a", "b">>), E("whiteout", <<"a">>), E("whiteout", <<"a", "b">>),
                 E("opaque", <<"a">>)}
Plain == [1 .. 2 -> UpTo(PlainEntries, 2)] \cup [1 .. 3 -> UpTo(PlainEntries, 1)]

\* The same reached by markers that go through links, and through loops of links.
LinkEntries == {LinkTo("b", "a"), LinkTo("a", "b"), E("dir", <<"a">>), Setuid(<<"a", "b">>),
                E("whiteout", <<"b", "b">>), E("opaque", <<"b">>), E("file", <<"b">>),
                [LinkTo("b", "a") EXCEPT !.kind = "rooted"]}
SpelledInPlace(t) ==
  \A i, j \in DOMAIN t : \A k \in DOMAIN t[i], l \in DOMAIN t[j] :
    ~(t[i][k].kind \in Links /\ t[j][l].kind \notin Whiteouts /\ Under(t[i][k].path, t[j][l].path))
Linked == {t \in [1 .. 2 -> UpTo(LinkEntries, 2)] : SpelledInPlace(t)}

\* Archives whose entries lie about their size, do not match, are missing or unreadable.
Odd(stored, length, media, size, multi) ==
  [length |-> length, stored |-> stored, multi |-> multi,
   layers |-> <<[media |-> media, size |-> size, tar |-> <<Setuid(<<"a">>)>>]>>]
Stores == UpTo({Blob(<<"index", 0>>, 1), Blob(<<"manifest", 0>>, 1), Blob(<<"other", 0>>, 3),
                Blob(<<"layer", 1>>, 2), Blob(<<"layer", 1>>, 3),
                [Blob(<<"layer", 1>>, 1) EXCEPT !.matches = FALSE],
                [Blob(<<"manifest", 0>>, 1) EXCEPT !.sparse = TRUE]}, 3)
Broken == {Odd(s, n, "gzip", 2, FALSE) : s \in Stores, n \in {2, 4}}
          \cup {Odd(<<Blob(<<"index", 0>>, 1), Blob(<<"manifest", 0>>, 1), Blob(<<"layer", 1>>, 1)>>,
                    3, media, size, multi) :
                media \in {"gzip", "tar", "other"}, size \in {2, 3}, multi \in BOOLEAN}

AllArchives == {Image(t) : t \in Plain \cup Linked} \cup Broken

\* A set-id file, rewritten without the bit by an entry that is spelled through a link of the
\* image, as a merged /bin -> /usr/bin spells one.
ThroughLink ==
  {Image(<< <<E("dir", <<"a">>), LinkTo("b", "a"), Setuid(<<"a", "b">>)>>, <<E("file", <<"b", "b">>)>> >>)}
===============================================================================
