--------------------------------- MODULE DepGraph ---------------------------------
(***************************************************************************)
(* `graph`: the dependency graph that src/src/graph.rs builds from a       *)
(* finished walk, and the tree that src/src/report.rs prints of it.        *)
(*                                                                         *)
(* A view: operators over the variables of Resolver, and no action.        *)
(***************************************************************************)
EXTENDS Resolver, SequencesExt

\* The name an object is staged under; the binary has its own.
NameById(f) == IF f = Binary THEN NoName ELSE libs[SelectInSeq(libs, LAMBDA l : l.path = f)].soname

\* Where an edge leads: to a real path, or to a name that was not found.
Leads(e) == IF e.to = NoFile THEN e.soname ELSE e.to

\* Edges grouped by parent, each answer once, in the order of the walk.
ByParent(f, found) ==
  LET upTo[n \in 0 .. Len(edges)] ==
        IF n = 0 THEN <<>>
        ELSE IF edges[n].from = f /\ (edges[n].to # NoFile <=> found)
             THEN PushUnique(upTo[n - 1], Leads(edges[n])) ELSE upTo[n - 1]
  IN  upTo[Len(edges)]

DepNodes ==
  [f \in {Binary} \cup {l.path : l \in Range(libs)} |->
     [name |-> NameById(f), needs |-> ByParent(f, TRUE), missing |-> ByParent(f, FALSE)]]

\* `graph` prints the report first, and then fails if the walk missed a name.
CheckComplete == missing = <<>>

--------------------------------------------------------------------------------
\* The tree, line by line: what is shown, and the object it is indented under.

Shown(kind, x, parent) == [kind |-> kind, of |-> x, under |-> parent]
ChildLines(f) ==
  [k \in DOMAIN DepNodes[f].needs |-> Shown("object", DepNodes[f].needs[k], f)]
    \o [k \in DOMAIN DepNodes[f].missing |-> Shown("missing", DepNodes[f].missing[k], f)]

\* Mutant: repeats told by the name that is printed.
SeenByName(f, seen) == DepNodes[f].name \in {DepNodes[g].name : g \in seen}
Seen(f, seen) == f \in seen

\* One line.  `todo` holds the lines to come, an object's own before the rest of its parent's.
RenderLine(page) ==
  LET line == Head(page.todo)
      rest == Tail(page.todo)
  IN  IF line.kind = "missing"
      THEN [page EXCEPT !.todo = rest, !.text = Append(@, line)]
      ELSE IF line.of \notin DOMAIN DepNodes
      THEN [page EXCEPT !.todo = rest]
      ELSE IF Seen(line.of, page.seen)
      THEN [page EXCEPT !.todo = rest, !.text = Append(@, Shown("repeat", line.of, line.under))]
      ELSE [todo |-> ChildLines(line.of) \o rest, seen |-> page.seen \cup {line.of},
            text |-> Append(page.text, line)]

\* The page with the root's line on it, before any of its children.
RootLine == [todo |-> ChildLines(Binary), seen |-> {Binary},
             text |-> <<Shown("object", Binary, NoFile)>>]

\* An object is expanded where it is first met; met again, it is one line marked `(*)`.
\* Each line stands for an edge, so there are at most that many.
RenderChildren ==
  LET after[n \in 0 .. Len(edges)] ==
        IF n = 0 THEN RootLine
        ELSE IF after[n - 1].todo = <<>> THEN after[n - 1] ELSE RenderLine(after[n - 1])
  IN  after[Len(edges)]

ToText == RenderChildren.text

--------------------------------------------------------------------------------
\* Properties.

\* The graph tells what the walk found, whatever names its files share: no edge leads out of
\* it, the tree expands every collected file once and only once, shows every edge once, under
\* an object that was expanded above it, and names every name for which `graph` fails, the
\* loader apart.
GraphIsWhole ==
  outcome = "resolved" =>
    LET text == ToText
        at(kind) == {k \in DOMAIN text : text[k].kind = kind}
        below == DOMAIN text \ {1}
    IN /\ \A f \in DOMAIN DepNodes : Range(DepNodes[f].needs) \subseteq DOMAIN DepNodes
       /\ {text[k].of : k \in at("object")} = visited
       /\ \A j, k \in at("object") : text[j].of = text[k].of => j = k
       /\ {<<text[k].under, text[k].of>> : k \in below \ at("missing")}
            = {<<e.from, e.to>> : e \in {d \in Range(edges) : d.to # NoFile}}
       /\ {<<text[k].under, text[k].of>> : k \in at("missing")}
            = {<<e.from, e.soname>> : e \in {d \in Range(edges) : d.to = NoFile}}
       /\ \A j, k \in below :
            /\ text[j].under = text[k].under /\ text[j].of = text[k].of
            /\ j \in at("missing") <=> k \in at("missing")
            => j = k
       /\ \A k \in below : \E j \in at("object") : j < k /\ text[j].of = text[k].under
       /\ {text[k].of : k \in at("missing")} \ {Interp} = Range(missing) \ {Interp}
       /\ CheckComplete <=> at("missing") = {} /\ sys.interp # NoFile
==================================================================================
