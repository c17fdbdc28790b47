--------------------------- MODULE CustomElements ---------------------------
(***************************************************************************)
(* Custom elements (vita/js/prelude.js): elements of a name that get their *)
(* class when it is defined, and are told when they go into the page and   *)
(* out of it.  Constructors and callbacks run in the midst of the calls    *)
(* that move elements about, and may move them themselves; what is left of *)
(* the calls they interrupt is a stack, innermost first.                   *)
(*                                                                         *)
(* The page has its root and one more box, which may stand for a shadow    *)
(* tree, whose elements looking through the document does not find.        *)
(***************************************************************************)
EXTENDS Naturals, Sequences, SequencesExt

CONSTANTS Elements,  \* elements of the one name there is
          MaxCalls   \* calls of the page that move, make or define something

VARIABLES kids,      \* what is in the root and in the box, in order
          shadow,    \* the box is a shadow tree
          CEn,       \* definitions there are: of another name, then of this one too
          defined,
          ceState,   \* of each element: __ceState, 0 not upgraded, 1 being made, 2 made, 3 failed
          ceConn,    \* of each element: __ceConn
          pending,   \* CEpending[name], in order
          todo,      \* what is left of the calls being made
          acting,    \* the page's own code runs: a task of its, or a callback
          calls,
          made,      \* how often the constructor ran for each element
          last,      \* the last callback each element got: "none", "connected" or "disconnected"
          twice,     \* the steps that told an element out of its turn
          crossed    \* the page moved what the calls being made had yet to come to

vars == <<kids, shadow, CEn, defined, ceState, ceConn, pending, todo, acting, calls,
          made, last, twice, crossed>>

Box == "box"
Root == "root"
Nodes == Elements \cup {Box}

In(p, n) == n \in ToSet(kids[p])
Flat(n) == IF n = Box THEN kids[Box] ELSE <<n>>
\* The elements under the root, in tree order, and those a search of the
\* document finds.
InPage == FlattenSeq([i \in DOMAIN kids[Root] |-> Flat(kids[Root][i])])
Found == IF shadow THEN SelectSeq(kids[Root], LAMBDA n : n /= Box) ELSE InPage
ceInDoc(n) == IF n = Box THEN In(Root, Box) ELSE n \in ToSet(InPage)

Init ==
  /\ kids = [p \in {Root, Box} |-> <<>>]
  /\ shadow \in BOOLEAN
  /\ CEn \in {0, 1} /\ (shadow => CEn = 1)
  /\ defined = FALSE
  /\ ceState = [e \in Elements |-> 0]
  /\ ceConn = [e \in Elements |-> FALSE]
  /\ pending = <<>>
  /\ todo = <<>>
  /\ acting = TRUE
  /\ calls = 0
  /\ made = [e \in Elements |-> 0]
  /\ last = [e \in Elements |-> "none"]
  /\ twice = {}
  /\ crossed = FALSE

-----------------------------------------------------------------------------
\* What the calls being made have yet to come to: an element being upgraded, and
\* the node put in whose elements are visited.
Awaited == {todo[i].e : i \in {j \in DOMAIN todo : todo[j].k \in {"made", "noted"}}}
             \cup {todo[i].top : i \in {j \in DOMAIN todo : todo[j].k = "visit"}}
Defining == \E i \in DOMAIN todo : todo[i].k = "defines"

Call(steps) ==
  /\ acting /\ calls < MaxCalls
  /\ calls' = calls + 1
  /\ todo' = steps \o <<[k |-> "back"]>> \o todo
  /\ acting' = FALSE

Without(n) == [p \in {Root, Box} |-> Remove(kids[p], n)]
Visits(n, inDoc) == [i \in DOMAIN Flat(n) |-> [k |-> "visit", e |-> Flat(n)[i], inDoc |-> inDoc, top |-> n]]
Leaves(n) == [i \in DOMAIN Flat(n) |-> [k |-> "leave", e |-> Flat(n)[i]]]

Moves(n) ==
  crossed' = (crossed \/ n \in Awaited
              \/ (\E e \in Awaited \cap Elements : n = Box /\ In(Box, e))
              \/ Defining)

\* appendChild: a node that is elsewhere is moved, and not told it has left.
Append_(p, n) ==
  /\ n /= p /\ p \in {Root, Box}
  /\ kids' = [Without(n) EXCEPT ![p] = Append(@, n)]
  /\ LET inDoc == IF p = Root \/ In(Root, Box) THEN "in" ELSE "out" IN
     /\ Call(IF CEn > 0 THEN Visits(n, inDoc) ELSE <<>>)
     /\ crossed' = (crossed \/ n \in Awaited \/ Defining
                    \/ ceInDoc(n)
                    \/ (\E e \in Awaited \cap Elements : n = Box /\ In(Box, e)))
  /\ UNCHANGED <<shadow, CEn, defined, ceState, ceConn, pending, made, last, twice>>

RemoveChild(n) ==
  /\ \E p \in {Root, Box} : In(p, n)
  /\ kids' = Without(n)
  /\ Call(IF CEn > 0 THEN Leaves(n) ELSE <<>>)
  /\ Moves(n)
  /\ UNCHANGED <<shadow, CEn, defined, ceState, ceConn, pending, made, last, twice>>

\* createElement, of an element there was not: it is upgraded out of the page.
CreateElement(e) ==
  /\ CEn > 0 /\ ceState[e] = 0
  /\ \A p \in {Root, Box} : ~In(p, e)
  /\ e \notin ToSet(pending)
  /\ \A i \in DOMAIN todo : "e" \in DOMAIN todo[i] => todo[i].e # e
  /\ Call(Visits(e, "out"))
  /\ UNCHANGED <<kids, shadow, CEn, defined, ceState, ceConn, pending, made, last, twice, crossed>>

\* customElements.define: those a search finds, one after another as the
\* search then stands, and those that wait.
Define ==
  /\ ~defined
  /\ defined' = TRUE
  /\ CEn' = CEn + 1
  /\ pending' = <<>>
  /\ Call(<<[k |-> "defines", i |-> 1]>>
           \o [j \in DOMAIN pending |-> [k |-> "waited", e |-> pending[j]]])
  /\ UNCHANGED <<kids, shadow, ceState, ceConn, made, last, twice, crossed>>

CallbackEnds ==
  /\ acting /\ todo /= <<>>
  /\ acting' = FALSE
  /\ UNCHANGED <<kids, shadow, CEn, defined, ceState, ceConn, pending, todo, calls,
                 made, last, twice, crossed>>

-----------------------------------------------------------------------------
(* The steps of the calls.                                                 *)

Step(k) == ~acting /\ todo /= <<>> /\ Head(todo).k = k

\* Tell e, whose turn it should be.
Tell(e, what) ==
  /\ last' = [last EXCEPT ![e] = what]
  /\ twice' = IF last[e] = what \/ (what = "disconnected" /\ last[e] = "none")
              THEN twice \cup {Head(todo).k} ELSE twice
  /\ acting' = TRUE

Silent == UNCHANGED <<last, twice>> /\ acting' = FALSE

\* ceUpgrade, as far as the constructor, or to wait for a definition.
Upgrade(e, inDoc, rest) ==
  \/ /\ ceState[e] = 0 /\ defined
     /\ ceState' = [ceState EXCEPT ![e] = 1]
     /\ made' = [made EXCEPT ![e] = @ + 1]
     /\ todo' = <<[k |-> "made", e |-> e, inDoc |-> inDoc]>> \o rest
     /\ acting' = TRUE
     /\ UNCHANGED <<pending, last, twice>>
  \/ /\ ceState[e] = 0 /\ ~defined
     /\ pending' = IF e \in ToSet(pending) THEN pending ELSE Append(pending, e)
     /\ todo' = rest
     /\ Silent
     /\ UNCHANGED <<ceState, made>>
  \/ /\ ceState[e] /= 0
     /\ todo' = rest
     /\ Silent
     /\ UNCHANGED <<ceState, pending, made>>

\* ceConnectTree comes to e.  What a callback took out from under the node put
\* in is passed over.
Visit ==
  /\ Step("visit")
  /\ LET s == Head(todo)
         e == s.e IN
     \/ /\ s.top = Box /\ ~In(Box, e)
        /\ todo' = Tail(todo)
        /\ Silent
        /\ UNCHANGED <<ceState, ceConn, pending, made>>
     \/ /\ s.top = Box => In(Box, e)
        /\ ceState[e] = 0
        /\ Upgrade(e, s.inDoc, Tail(todo))
        /\ UNCHANGED ceConn
     \/ /\ s.top = Box => In(Box, e)
        /\ ceState[e] /= 0
        /\ todo' = Tail(todo)
        /\ IF ceState[e] = 2 /\ ~ceConn[e] /\ s.inDoc = "in"
             THEN ceConn' = [ceConn EXCEPT ![e] = TRUE] /\ Tell(e, "connected")
             ELSE UNCHANGED ceConn /\ Silent
        /\ UNCHANGED <<ceState, pending, made>>
  /\ UNCHANGED <<kids, shadow, CEn, defined, calls, crossed>>

\* The constructor threw; or it returned, and attributeChangedCallback is called
\* if the element has an attribute its class observes.
Made ==
  /\ Step("made")
  /\ LET s == Head(todo) IN
     \/ /\ ceState' = [ceState EXCEPT ![s.e] = 3]
        /\ todo' = Tail(todo)
        /\ acting' = FALSE
     \/ /\ ceState' = [ceState EXCEPT ![s.e] = 2]
        /\ todo' = <<[s EXCEPT !.k = "noted"]>> \o Tail(todo)
        /\ acting' \in BOOLEAN
  /\ UNCHANGED <<kids, shadow, CEn, defined, ceConn, pending, calls, made, last, twice, crossed>>

\* The end of ceUpgrade, which looks at where the element is but not at whether
\* it was told so meanwhile.
Noted ==
  /\ Step("noted")
  /\ LET s == Head(todo)
         e == s.e IN
     IF s.inDoc = "in" \/ (s.inDoc = "ask" /\ ceInDoc(e))
       THEN ceConn' = [ceConn EXCEPT ![e] = TRUE] /\ Tell(e, "connected")
       ELSE UNCHANGED ceConn /\ Silent
  /\ todo' = Tail(todo)
  /\ UNCHANGED <<kids, shadow, CEn, defined, ceState, pending, calls, made, crossed>>

LeaveAnyway ==
  /\ Step("leave")
  /\ LET e == Head(todo).e IN
     /\ ceConn' = [ceConn EXCEPT ![e] = FALSE]
     /\ IF ceState[e] = 2 THEN Tell(e, "disconnected") ELSE Silent
  /\ todo' = Tail(todo)
  /\ UNCHANGED <<kids, shadow, CEn, defined, ceState, pending, calls, made, crossed>>

\* ceDisconnectTree comes to e.
Leave ==
  /\ Step("leave")
  /\ LET e == Head(todo).e IN
     IF ceConn[e] THEN ceConn' = [ceConn EXCEPT ![e] = FALSE] /\ Tell(e, "disconnected")
                  ELSE UNCHANGED ceConn /\ Silent
  /\ todo' = Tail(todo)
  /\ UNCHANGED <<kids, shadow, CEn, defined, ceState, pending, calls, made, crossed>>

\* define's two loops.
Defines ==
  /\ Step("defines")
  /\ LET i == Head(todo).i IN
     IF i > Len(Found)
       THEN /\ todo' = Tail(todo)
            /\ Silent
            /\ UNCHANGED <<ceState, pending, made>>
       ELSE Upgrade(Found[i], "ask", <<[k |-> "defines", i |-> i + 1]>> \o Tail(todo))
  /\ UNCHANGED <<kids, shadow, CEn, defined, ceConn, calls, crossed>>

Waited ==
  /\ Step("waited")
  /\ LET e == Head(todo).e IN
     IF ceInDoc(e) THEN Upgrade(e, "ask", Tail(todo))
     ELSE /\ todo' = Tail(todo)
          /\ Silent
          /\ UNCHANGED <<ceState, pending, made>>
  /\ UNCHANGED <<kids, shadow, CEn, defined, ceConn, calls, crossed>>

\* The call returns to the page's code that made it.
Back ==
  /\ Step("back")
  /\ todo' = Tail(todo)
  /\ acting' = TRUE
  /\ UNCHANGED <<kids, shadow, CEn, defined, ceState, ceConn, pending, calls,
                 made, last, twice, crossed>>

Next ==
  \/ \E p \in {Root, Box}, n \in Nodes : Append_(p, n)
  \/ \E n \in Nodes : RemoveChild(n)
  \/ \E e \in Elements : CreateElement(e)
  \/ Define
  \/ CallbackEnds
  \/ Visit
  \/ Made
  \/ Noted
  \/ Leave
  \/ Defines
  \/ Waited
  \/ Back

-----------------------------------------------------------------------------
\* An element's constructor runs once and no more, though callbacks put it
\* into the page again, or define its name, while it runs (ceUpgrade).
MadeOnce == \A e \in Elements : made[e] <= 1

\* An element is told that it is connected and disconnected by turns, and not
\* disconnected first, whatever constructors and callbacks do in between; but at
\* the end of its upgrade one that its own attributeChangedCallback put into the
\* page is told once more that it is connected (ceConnectTree, ceDisconnectTree,
\* ceUpgrade).
TurnAbout == twice \subseteq {"noted"} /\ (twice # {} => crossed)

\* When every call has returned, the elements whose class was made have been
\* told they are in the page if they are, and only then; and once the name is
\* defined all in the page have their class.  This is so as long as an element
\* is taken out before it is put elsewhere, and no callback moves what the call
\* it interrupts had yet to come to (ceInserted, ceUpgrade, define).
ToldWhereTheyAre ==
  todo = <<>> /\ ~crossed =>
    \A e \in Elements :
      /\ ceState[e] = 2 => (ceConn[e] <=> ceInDoc(e))
      /\ defined /\ ceInDoc(e) => ceState[e] # 0
=============================================================================
