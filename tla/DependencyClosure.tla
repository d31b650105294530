--------------------------- MODULE DependencyClosure ---------------------------
(***************************************************************************)
(* What the resolver promises, with the search order, the queue and the    *)
(* list layouts left out.                                                  *)
(*                                                                         *)
(* Starting from one object, every name a collected object demands is      *)
(* answered: by an object, which is then collected too, or by Nothing.     *)
(* The verdict is positive only when no demand of any collected object is  *)
(* left open, and nothing is collected that no collected object asked for. *)
(***************************************************************************)
EXTENDS Naturals

CONSTANTS
  Object,   \* the files that can be collected
  Name,     \* the names an object can demand
  Start,    \* the object of the closure that nothing asks for
  Nothing   \* the answer, not an object, to a name no object provides

VARIABLES
  demand,     \* object -> the names it asks for; fixed by the input
  collected,  \* the objects found so far
  answers,    \* the <<object, name, answer>> triples given so far
  verdict     \* "open", "resolved" or "refused"

vars == <<demand, collected, answers, verdict>>

Answered(o, n) == \E p \in Object \cup {Nothing} : <<o, n, p>> \in answers

Closed == \A o \in collected : \A n \in demand[o] : Answered(o, n)

Init ==
  /\ demand \in [Object -> SUBSET Name]
  /\ collected = {Start}
  /\ answers = {}
  /\ verdict = "open"

Answer(o, n, p) ==
  /\ verdict = "open"
  /\ o \in collected
  /\ n \in demand[o]
  /\ answers' = answers \cup {<<o, n, p>>}
  /\ collected' = collected \cup ({p} \ {Nothing})
  /\ UNCHANGED <<demand, verdict>>

Accept ==
  /\ verdict = "open"
  /\ Closed
  /\ verdict' = "resolved"
  /\ UNCHANGED <<demand, collected, answers>>

\* An answer may arrive together with the refusal it causes.
Refuse ==
  /\ verdict = "open"
  /\ verdict' = "refused"
  /\ UNCHANGED demand
  /\ \/ UNCHANGED <<collected, answers>>
     \/ \E o \in collected, p \in Object : \E n \in demand[o] :
          /\ answers' = answers \cup {<<o, n, p>>}
          /\ collected' = collected \cup {p}

Next ==
  \/ \E o \in Object, n \in Name, p \in Object \cup {Nothing} : Answer(o, n, p)
  \/ Accept
  \/ Refuse

Spec == Init /\ [][Next]_vars
================================================================================
