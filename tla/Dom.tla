--------------------------------- MODULE Dom ---------------------------------
(***************************************************************************)
(* The tree of nodes as a page's script changes it (vita/js/prelude.js):   *)
(* what may go where, and those who are told: MutationObservers, and the   *)
(* slots of a shadow tree, in the microtask after.  The tree itself is the *)
(* engine's (vita/js/qjs.c), which takes a node from where it was, puts it *)
(* where it goes and reports both.                                         *)
(***************************************************************************)
EXTENDS Naturals, Sequences, FiniteSets, SequencesExt

CONSTANTS MaxEdits   \* changes the page makes

VARIABLES scene,     \* what there is: "document", "slots" or "observed"
          kids,      \* the children of each node, in order
          attr,      \* slot= of a child, name= of a slot
          manual,    \* the shadow tree assigns by hand
          taken,     \* __vsManual of each slot
          chosen,    \* __vsManualSlot of each node
          watch,     \* some listener wants slotchange
          dirty,     \* the host is to be looked at
          seen,      \* __vsSeen of each slot
          drawn,     \* __vsSlot of each node: where the last pass drew it
          passed,    \* nothing changed since the last pass
          observers, \* MOlist, in order
          watches,   \* _watch of each observer
          records,   \* _records of each observer
          queued,    \* a microtask of the slots, or of the observers, is to come
          todo,      \* what is left of the one that runs: slots, or observers
          acting,    \* the page's own code runs
          edits,
          known,     \* of each slot: its nodes when it was last looked at
          untold,    \* what nobody is told of: a text in the place of children, nodes assigned
          lost,      \* nodes of which one child was replaced by itself
          start      \* of each observer and node watched: its children then, and records before

vars == <<scene, kids, attr, manual, taken, chosen, watch, dirty, seen, drawn, passed, observers, watches,
          records, queued, todo, acting, edits, known, untold, lost, start>>

Nothing == "nothing"
Type == [doc |-> 9, doctype |-> 10, e1 |-> 1, e2 |-> 1, text |-> 3, frag |-> 11,
         temp |-> 11, page |-> 1, host |-> 1, root |-> 11, s1 |-> 1, s2 |-> 1, c |-> 1]

Slots == {"s1", "s2"}
In(s) == CASE s = "document" -> {"doc", "doctype", "e1", "e2", "text", "frag", "temp"}
           [] s = "slots" -> {"page", "host", "root", "s1", "s2", "c", "text", "temp"}
           [] s = "observed" -> {"page", "e1", "c", "text", "frag", "temp"}
Os == {"o1", "o2"}
Watched == {"page", "e1"}

\* A tree, and what has been reported of the changes to it.
Holders(k, n) == {p \in DOMAIN k : \E i \in DOMAIN k[p] : k[p][i] = n}
The(holders) == IF holders = {} THEN Nothing ELSE CHOOSE p \in holders : TRUE
ParentIn(k, n) == The(Holders(k, n))
UpIn(k, n) == FoldLeft(LAMBDA s, i : s \cup UNION {Holders(k, m) : m \in s}, {n}, <<1, 2, 3, 4, 5, 6>>)
RootIn(k, n) == CHOOSE m \in UpIn(k, n) : Holders(k, m) = {}
Index(s, x) == CHOOSE i \in DOMAIN s : s[i] = x
At(s, i) == IF i \in DOMAIN s THEN s[i] ELSE Nothing
Take(s, nodes) == SelectSeq(s, LAMBDA x : x \notin ToSet(nodes))
Put(s, nodes, ref) == IF ref = Nothing THEN s \o nodes
                      ELSE SubSeq(s, 1, Index(s, ref) - 1) \o nodes \o SubSeq(s, Index(s, ref), Len(s))

-----------------------------------------------------------------------------
(* The engine.                                                             *)
\* siblingsOf: what a record's nodes lie between, where they are or where they were.
Between(s, nodes) == <<At(s, Index(s, Head(nodes)) - 1), At(s, Index(s, Last(nodes)) + 1)>>
Record(k, target, came, gone, sides) == [target |-> target, above |-> UpIn(k, target), added |-> came, removed |-> gone, sides |-> sides]
Gone(k, n) == Record(k, ParentIn(k, n), <<>>, <<n>>, Between(k[ParentIn(k, n)], <<n>>))
Leaves(t, n) == IF ParentIn(t.kids, n) = Nothing THEN t
                ELSE [t EXCEPT !.log = Append(@, Gone(t.kids, n))]
Out(k, nodes) == [p \in DOMAIN k |-> Take(k[p], nodes)]
Flat(t, n) == IF Type[n] = 11 THEN t.kids[n] ELSE <<n>>
\* A node is told to have left where it was, then put where it goes; one that is put
\* before itself stays.
Insert(t, p, n, ref) ==
  LET came == Flat(t, n)
      k == IF ref = n THEN t.kids ELSE [Out(t.kids, came) EXCEPT ![p] = Put(@, came, ref)]
      told(u) == IF came = <<>> THEN u ELSE [u EXCEPT !.log = Append(@, Record(k, p, came, <<>>, Between(k[p], came)))]
  IN  told([Leaves(t, n) EXCEPT !.kids = k])
\* A node that is replaced by itself is told to have left, and no more.
Replace(t, p, n, old) ==
  LET came == Flat(t, n)
      k == [Out(t.kids, came) EXCEPT ![p] = Take(Put(@, came, old), <<old>>)]
      sides == IF came = <<>> THEN Between(t.kids[p], <<old>>) ELSE Between(k[p], came)
      told(u) == [u EXCEPT !.kids = k, !.log = Append(@, Record(k, p, came, <<old>>, sides))]
  IN  IF n = old THEN [Leaves(t, n) EXCEPT !.lost = @ \cup {p}] ELSE told(Leaves(t, n))
\* The page's document keeps its root and doctype.
RemoveNode(t, p, n) == IF p = "doc" /\ Type[n] \in {1, 10} THEN t ELSE [Leaves(t, n) EXCEPT !.kids = Out(@, <<n>>)]

-----------------------------------------------------------------------------
(* What may go where.                                                      *)
Kinds(k, p, type, skip) == SelectSeq(k[p], LAMBDA n : n # skip /\ Type[n] = type)
\* documentRules: one element and one doctype before it; ref is what is replaced, or
\* what the node is to go before.
DocumentRefuses(k, n, child, replacing) ==
  LET ref == IF replacing # Nothing THEN replacing ELSE child
      doctype == Kinds(k, "doc", 10, replacing)
      element == Kinds(k, "doc", 1, replacing)
      elements(m) == Len(Kinds(k, m, 1, Nothing))
      place == IF ref = Nothing THEN Len(k["doc"]) + 1 ELSE Index(k["doc"], ref)
  IN  \/ Type[n] = 11 /\ (Kinds(k, n, 3, Nothing) # <<>> \/ elements(n) > 1)
      \/ Type[n] = 10 /\ (doctype # <<>> \/ (element # <<>> /\ Index(k["doc"], element[1]) < place))
      \/ /\ Type[n] = 1 \/ (Type[n] = 11 /\ elements(n) = 1)
         /\ \/ element # <<>>
            \/ child # Nothing /\ Type[child] = 10
            \/ ref # Nothing /\ doctype # <<>> /\ Index(k["doc"], doctype[1]) > place
\* Mutant: a node may go into one that is in it.
MayLoop(k, p, n, child, replacing) ==
  \/ Type[p] \notin {1, 9, 11}
  \/ n = p
  \/ child # Nothing /\ ParentIn(k, child) # p
  \/ Type[n] = 3 /\ Type[p] = 9
  \/ Type[n] = 9
  \/ Type[n] = 10 /\ Type[p] # 9
  \/ p = "doc" /\ DocumentRefuses(k, n, child, replacing)
Refused(k, p, n, child, replacing) ==
  \/ Type[p] \notin {1, 9, 11}
  \/ n \in UpIn(k, p)
  \/ child # Nothing /\ ParentIn(k, child) # p
  \/ Type[n] = 3 /\ Type[p] = 9
  \/ Type[n] = 9
  \/ Type[n] = 10 /\ Type[p] # 9
  \/ p = "doc" /\ DocumentRefuses(k, n, child, replacing)

\* touch: the host is to be looked at if this is it, or is in its shadow tree.
Touch(t, p) ==
  IF p = Nothing \/ ~watch THEN t
  ELSE [t EXCEPT !.dirty = @ \/ p = "host" \/ RootIn(t.kids, p) = "root", !.queued = TRUE]
Moved(t, u, p, n) == LET from == ParentIn(t.kids, n)
                     IN  IF from = p THEN Touch(u, p) ELSE Touch(Touch(u, p), from)
Fails(t) == [t EXCEPT !.failed = TRUE]
\* appendChild is insertBefore with nothing to go before.
InsertBefore(t, p, n, ref) ==
  CASE t.failed -> t
    [] ~t.failed /\ Refused(t.kids, p, n, ref, Nothing) -> Fails(t)
    [] OTHER -> Moved(t, Insert(t, p, n, ref), p, n)
AppendChild(t, p, n) == InsertBefore(t, p, n, Nothing)
ReplaceChild(t, p, n, old) ==
  CASE t.failed -> t
    [] ~t.failed /\ (ParentIn(t.kids, old) # p \/ Refused(t.kids, p, n, Nothing, old)) -> Fails(t)
    [] OTHER -> Moved(t, Replace(t, p, n, old), p, n)
RemoveChild(t, p, n) ==
  CASE t.failed -> t
    [] ~t.failed /\ ParentIn(t.kids, n) # p -> Fails(t)
    [] OTHER -> Touch(RemoveNode(t, p, n), p)

\* before, after, replaceWith: the nodes go into a fragment first; what they are to
\* stand next to is the nearest sibling that is none of them.
NextSibling(k, n) == IF ParentIn(k, n) = Nothing THEN Nothing ELSE At(k[ParentIn(k, n)], Index(k[ParentIn(k, n)], n) + 1)
Siblings(t, x) == t.kids[ParentIn(t.kids, x)]
ViableNext(t, x, nodes) == At(SelectSeq(SubSeq(Siblings(t, x), Index(Siblings(t, x), x) + 1, Len(Siblings(t, x))), LAMBDA n : n \notin ToSet(nodes)), 1)
ViablePrev(t, x, nodes) == LET before == SelectSeq(SubSeq(Siblings(t, x), 1, Index(Siblings(t, x), x) - 1), LAMBDA n : n \notin ToSet(nodes))
                           IN  At(before, Len(before))
Gathered(t, nodes) == FoldLeft(LAMBDA u, n : AppendChild(u, "temp", n), t, nodes)
Before(t, x, nodes) ==
  LET p == ParentIn(t.kids, x)
      prev == ViablePrev(t, x, nodes)
      put(u) == InsertBefore(u, p, "temp", IF prev = Nothing THEN At(u.kids[p], 1) ELSE NextSibling(u.kids, prev))
  IN  put(Gathered(t, nodes))
After(t, x, nodes) == InsertBefore(Gathered(t, nodes), ParentIn(t.kids, x), "temp", ViableNext(t, x, nodes))
ReplaceWith(t, x, nodes) ==
  LET p == ParentIn(t.kids, x)
      without(u) == IF ParentIn(u.kids, x) = p THEN RemoveChild(u, p, x) ELSE u
  IN  InsertBefore(without(Gathered(t, nodes)), p, "temp", ViableNext(t, x, nodes))
ReplaceChildren(t, p, nodes) ==
  FoldLeft(LAMBDA u, n : AppendChild(u, p, n), FoldLeft(LAMBDA u, n : RemoveChild(u, p, n), t, t.kids[p]), nodes)

-----------------------------------------------------------------------------
(* What is told.                                                           *)
RECURSIVE TreeOrder(_, _)
TreeOrder(k, n) == <<n>> \o FlattenSeq([i \in DOMAIN k[n] |-> TreeOrder(k, k[n][i])])
SlotsOf(k) == SelectSeq(TreeOrder(k, "root"), LAMBDA n : n \in Slots)
NameOf(n) == IF Type[n] = 3 THEN "" ELSE attr[n]
\* manualSlot: the slot that was given the node, if it still has it and is in the tree.
ManualSlot(k, n) == IF chosen[n] # Nothing /\ RootIn(k, chosen[n]) = "root" /\ n \in ToSet(taken[chosen[n]]) THEN chosen[n] ELSE Nothing
\* slotAssigned: what a slot is given; the first of a name has it all.
Assigned(k, s) ==
  CASE RootIn(k, s) # "root" -> <<>>
    [] RootIn(k, s) = "root" /\ manual -> SelectSeq(taken[s], LAMBDA n : ParentIn(k, n) = "host" /\ ManualSlot(k, n) = s)
    [] OTHER -> IF SelectSeq(SlotsOf(k), LAMBDA z : attr[z] = attr[s])[1] # s THEN <<>>
                ELSE SelectSeq(k["host"], LAMBDA n : NameOf(n) = attr[s])
\* pass: where each child of the host is drawn; assignedSlot finds it the same way.
AssignedSlot(k, n) == IF manual THEN ManualSlot(k, n)
                      ELSE LET ss == SelectSeq(SlotsOf(k), LAMBDA z : attr[z] = NameOf(n)) IN At(ss, 1)

Tree == [kids |-> kids, log |-> <<>>, dirty |-> dirty, queued |-> FALSE, failed |-> FALSE, lost |-> {}]
\* __vitaMutation: each observer one of whose watches wants it.
Wants(o, r) == \E w \in watches[o] : w.target = r.target \/ (w.subtree /\ w.target \in r.above)
Heard(o, t) == SelectSeq(t.log, LAMBDA r : Wants(o, r))
May == acting /\ edits < MaxEdits
Change(t) ==
  /\ edits' = edits + 1
  /\ kids' = t.kids /\ dirty' = t.dirty /\ lost' = lost \cup t.lost
  /\ records' = [o \in Os |-> records[o] \o Heard(o, t)]
  /\ queued' = (queued \/ t.queued \/ \E o \in Os : Heard(o, t) # <<>>)
  /\ passed' = (passed /\ t.kids = kids)
  /\ UNCHANGED <<scene, attr, manual, taken, chosen, watch, seen, drawn, observers, watches, todo, acting, known, start>>

\* What the page moves, and where to.
Mine == CASE scene = "document" -> {"doctype", "e1", "e2", "text", "frag"}
          [] scene = "slots" -> {"s1", "s2", "c", "text"}
          [] scene = "observed" -> {"e1", "c", "text", "frag"}
Places == CASE scene = "document" -> In(scene) \ {"temp"} [] scene = "slots" -> {"page", "host", "root", "s1"} [] scene = "observed" -> {"page", "e1", "frag"}
Refs(p) == ToSet(kids[p]) \cup {Nothing}
Lists == {<<n>> : n \in Mine} \cup {<<"e2", "text">>, <<"text", "e1">>, <<"frag", "text">>, <<"e1", "doctype">>}
Told == UNCHANGED untold

Inserts == May /\ \E p \in Places, n \in Mine : (\E ref \in Refs(p) : \E t \in {InsertBefore(Tree, p, n, ref)} : Change(t)) /\ Told
Replaces == May /\ \E p \in Places, n \in Mine : (\E old \in ToSet(kids[p]) : \E t \in {ReplaceChild(Tree, p, n, old)} : Change(t)) /\ Told
Removes == May /\ \E p \in Places : (\E n \in ToSet(kids[p]) : \E t \in {RemoveChild(Tree, p, n)} : Change(t)) /\ Told
Beside ==
  /\ May /\ scene = "document" /\ kids["temp"] = <<>>
  /\ \E x \in Mine, nodes \in Lists :
       /\ ParentIn(kids, x) # Nothing
       /\ \E t \in {Before(Tree, x, nodes), After(Tree, x, nodes), ReplaceWith(Tree, x, nodes)} : Change(t)
  /\ Told
Refills == May /\ scene = "document" /\ (\E p \in Places, nodes \in Lists : \E t \in {ReplaceChildren(Tree, p, nodes)} : Change(t)) /\ Told
\* textContent = '': nobody looks at the slots for it.
SetText ==
  May /\ \E p \in {q \in Places : kids[q] # <<>> /\ Type[q] = 1} :
    /\ Change([Tree EXCEPT !.kids[p] = <<>>, !.log = <<Record(kids, p, <<>>, kids[p], <<Nothing, Nothing>>)>>])
    /\ untold' = IF watch THEN untold \cup {"text"} ELSE untold

\* slot= of a child or name= of a slot.
SetAttribute(n, v) ==
  /\ scene = "slots" /\ May
  /\ edits' = edits + 1
  /\ attr' = [attr EXCEPT ![n] = v]
  /\ passed' = FALSE
  /\ \E t \in {Touch(Tree, IF ParentIn(kids, n) = Nothing THEN n ELSE ParentIn(kids, n))} :
       dirty' = t.dirty /\ queued' = (queued \/ t.queued)
  /\ UNCHANGED <<scene, kids, manual, taken, chosen, watch, seen, drawn, observers, watches, records, todo, acting,
                 known, untold, lost, start>>
\* slot.assign(): a node is taken from the slot that had it.
Assign(s, list) ==
  LET old == ToSet(taken[s]) \ ToSet(list)
      from(n) == chosen[n] \notin {Nothing, s} /\ n \in ToSet(list)
      touched == SelectSeq(taken[s] \o list \o <<s>>, LAMBDA n : n = s \/ ParentIn(kids, n) # Nothing)
  IN  /\ scene = "slots" /\ manual /\ May
      /\ edits' = edits + 1
      /\ chosen' = [n \in In(scene) |-> CASE n \in ToSet(list) -> s [] n \in old /\ chosen[n] = s -> Nothing [] OTHER -> chosen[n]]
      /\ taken' = [z \in Slots |-> IF z = s THEN list ELSE SelectSeq(taken[z], LAMBDA n : ~(from(n) /\ chosen[n] = z))]
      /\ \E t \in {FoldLeft(LAMBDA u, n : Touch(u, IF n = s THEN s ELSE ParentIn(kids, n)), Tree, touched)} :
           dirty' = t.dirty /\ queued' = (queued \/ t.queued)
      /\ untold' = untold \cup {"assign"}
      /\ UNCHANGED <<scene, kids, attr, manual, watch, seen, drawn, passed, observers, watches, records, todo, acting,
                     known, lost, start>>
\* The engine is to draw.
SlotPass ==
  /\ scene = "slots" /\ ~passed /\ todo = <<>>
  /\ drawn' = [n \in In(scene) |-> IF n \in ToSet(kids["host"]) /\ "page" \in UpIn(kids, "host") THEN AssignedSlot(kids, n) ELSE Nothing]
  /\ passed' = TRUE
  /\ untold' = untold \ {"assign"}
  /\ UNCHANGED <<scene, kids, attr, manual, taken, chosen, watch, dirty, seen, observers, watches, records, queued,
                 todo, acting, edits, known, lost, start>>

Observing(o, w) ==
  /\ scene = "observed" /\ May
  /\ edits' = edits + 1
  /\ UNCHANGED <<scene, kids, attr, manual, taken, chosen, watch, dirty, seen, drawn, passed, queued, todo, acting,
                 known, untold, lost>>
\* observe: of two of one target the later holds.
Observe(o, w) ==
  /\ Observing(o, w)
  /\ watches' = [watches EXCEPT ![o] = {v \in @ : v.target # w.target} \cup {w}]
  /\ observers' = IF o \in ToSet(observers) THEN observers ELSE Append(observers, o)
  /\ start' = IF \E v \in watches[o] : v.target = w.target THEN start
              ELSE [start EXCEPT ![o][w.target] = [kids |-> kids[w.target], from |-> Len(records[o])]]
  /\ UNCHANGED records
Disconnect(o) ==
  /\ Observing(o, Nothing) /\ watches[o] # {}
  /\ watches' = [watches EXCEPT ![o] = {}]
  /\ records' = [records EXCEPT ![o] = <<>>]
  /\ observers' = Remove(observers, o)
  /\ UNCHANGED start
\* What an observer has taken, it knows.
Cleared(o) ==
  /\ records' = [records EXCEPT ![o] = <<>>]
  /\ start' = [start EXCEPT ![o] = [n \in Watched |-> [kids |-> kids[n], from |-> 0]]]
TakeRecords(o) ==
  /\ Observing(o, Nothing) /\ records[o] # <<>>
  /\ Cleared(o)
  /\ UNCHANGED <<observers, watches>>

-----------------------------------------------------------------------------
(* The microtasks: each slot of the host, each observer, whose callbacks   *)
(* are the page's.                                                         *)
TaskEnds == acting /\ (queued \/ todo # <<>>) /\ acting' = FALSE
            /\ UNCHANGED <<scene, kids, attr, manual, taken, chosen, watch, dirty, seen, drawn, passed, observers, watches,
                           records, queued, todo, edits, known, untold, lost, start>>
NextTask == ~acting /\ todo = <<>> /\ ~queued /\ acting' = TRUE
            /\ UNCHANGED <<scene, kids, attr, manual, taken, chosen, watch, dirty, seen, drawn, passed, observers, watches,
                           records, queued, todo, edits, known, untold, lost, start>>
MicrotaskRuns ==
  /\ ~acting /\ todo = <<>> /\ queued
  /\ queued' = FALSE
  /\ todo' = CASE scene = "observed" -> observers [] scene = "slots" /\ dirty -> SlotsOf(kids) [] OTHER -> <<>>
  /\ dirty' = FALSE
  /\ untold' = IF dirty THEN untold \ {"text"} ELSE untold
  /\ UNCHANGED <<scene, kids, attr, manual, taken, chosen, watch, seen, drawn, passed, observers, watches, records,
                 acting, edits, known, lost, start>>
LooksAtSlot ==
  LET s == Head(todo) now == Assigned(kids, s)
  IN  /\ ~acting /\ todo # <<>> /\ scene = "slots"
      /\ todo' = Tail(todo)
      /\ known' = [known EXCEPT ![s] = now]
      /\ seen' = [seen EXCEPT ![s] = now]
      /\ acting' = (now # seen[s])
      /\ UNCHANGED <<scene, kids, attr, manual, taken, chosen, watch, dirty, drawn, passed, observers, watches, records,
                     queued, edits, untold, lost, start>>
Delivers ==
  LET o == Head(todo)
  IN  /\ ~acting /\ todo # <<>> /\ scene = "observed"
      /\ todo' = Tail(todo)
      /\ IF records[o] = <<>> THEN UNCHANGED <<records, start, acting>> ELSE Cleared(o) /\ acting' = TRUE
      /\ UNCHANGED <<scene, kids, attr, manual, taken, chosen, watch, dirty, seen, drawn, passed, observers, watches,
                     queued, edits, known, untold, lost>>

-----------------------------------------------------------------------------
Kids(s) == LET Empty == [n \in In(s) |-> <<>>] IN
           CASE s = "document" -> {[Empty EXCEPT !["doc"] = <<"doctype", "e1">>, !["frag"] = <<"e2", "text">>],
                                   [Empty EXCEPT !["doc"] = <<"e1">>, !["e1"] = <<"e2", "text">>],
                                   [Empty EXCEPT !["frag"] = <<"e1">>, !["e1"] = <<"e2">>]}
             [] s = "slots" -> {[Empty EXCEPT !["page"] = <<"host">>, !["host"] = <<"c", "text">>, !["root"] = <<"s1", "s2">>],
                                [Empty EXCEPT !["page"] = <<"host">>, !["host"] = <<"c">>, !["root"] = <<"s1">>, !["s1"] = <<"s2">>]}
             [] s = "observed" -> {[Empty EXCEPT !["page"] = <<"e1", "text">>, !["frag"] = <<"c">>],
                                   [Empty EXCEPT !["page"] = <<"e1">>, !["e1"] = <<"c", "text">>]}
Watch(n, sub) == [target |-> n, subtree |-> sub]
Starts == {[o1 |-> {Watch("e1", FALSE)}, o2 |-> {Watch("page", FALSE)}], [o1 |-> {Watch("page", TRUE), Watch("e1", TRUE)}, o2 |-> {}]}
Init ==
  /\ scene \in {"document", "slots", "observed"}
  /\ kids \in Kids(scene)
  /\ attr = [n \in In(scene) |-> IF n = "s2" THEN "x" ELSE ""]
  /\ manual \in IF scene = "slots" THEN BOOLEAN ELSE {FALSE}
  /\ taken = [s \in Slots |-> <<>>] /\ seen = taken
  /\ watch \in IF scene = "slots" THEN BOOLEAN ELSE {FALSE}
  /\ chosen = [n \in In(scene) |-> Nothing] /\ drawn = chosen
  /\ known = [s \in Slots |-> IF scene = "slots" THEN Assigned(kids, s) ELSE <<>>]
  /\ dirty = FALSE /\ passed = FALSE /\ queued = FALSE /\ acting = TRUE
  /\ todo = <<>> /\ edits = 0
  /\ watches \in IF scene = "observed" THEN Starts ELSE {[o \in Os |-> {}]}
  /\ observers = SelectSeq(<<"o1", "o2">>, LAMBDA o : watches[o] # {})
  /\ records = [o \in Os |-> <<>>]
  /\ untold = {} /\ lost = {}
  /\ start = [o \in Os |-> [n \in Watched |-> [kids |-> IF scene = "observed" THEN kids[n] ELSE <<>>, from |-> 0]]]

Edits == Inserts \/ Replaces \/ Removes \/ Beside \/ Refills \/ SetText
Next ==
  \/ Edits
  \/ \E n \in {"c", "s2"}, v \in {"", "x"} : SetAttribute(n, v)
  \/ \E s \in Slots, list \in {<<"c">>, <<"text", "c">>} : Assign(s, list)
  \/ SlotPass
  \/ \E o \in Os : \/ \E n \in Watched, sub \in BOOLEAN : Observe(o, Watch(n, sub))
                   \/ Disconnect(o) \/ TakeRecords(o)
  \/ TaskEnds \/ NextTask \/ MicrotaskRuns \/ LooksAtSlot \/ Delivers
Spec == Init /\ [][Next]_vars

-----------------------------------------------------------------------------
\* preInsert: a node is in one place and not within itself; what stands in nothing
\* stays so; a document has one element and one doctype at most, the doctype first.
TreesSound ==
  /\ \A p \in In(scene) : IsInjective(kids[p]) /\ (Type[p] \notin {1, 9, 11} => kids[p] = <<>>)
  /\ LET held == UNION {ToSet(kids[p]) : p \in In(scene)}
         under(s, i) == s \cup UNION {ToSet(kids[p]) : p \in s}
     IN  /\ Cardinality(UNION {{<<p, i>> : i \in DOMAIN kids[p]} : p \in In(scene)}) = Cardinality(held)
         /\ FoldLeft(under, In(scene) \ held, <<1, 2, 3, 4, 5, 6>>) = In(scene)
  /\ scene = "document" =>
     LET doctype == Kinds(kids, "doc", 10, Nothing) element == Kinds(kids, "doc", 1, Nothing)
     IN  /\ Len(doctype) <= 1 /\ Len(element) <= 1 /\ Kinds(kids, "doc", 3, Nothing) = <<>>
         /\ doctype # <<>> /\ element # <<>> => Index(kids["doc"], doctype[1]) < Index(kids["doc"], element[1])

\* MutationObserver: what was in a node when an observer began or last took its
\* records, changed as they say, is what is in it now, and each says rightly what
\* its nodes lay between; but for a child that was replaced by itself.
Follow(m, r) ==
  LET left == Take(m.list, r.removed)
      new == IF r.added = <<>> THEN left
             ELSE IF r.sides[2] \in ToSet(left) \cup {Nothing} THEN Put(left, r.added, r.sides[2]) ELSE <<>>
  IN  [list |-> new,
       right |-> /\ m.right /\ ToSet(r.removed) \subseteq ToSet(m.list)
                 /\ r.added # <<>> => new # <<>> /\ Between(new, r.added) = r.sides
                 /\ r.added = <<>> => Between(m.list, r.removed) = r.sides]
RecordsLead ==
  \A o \in Os : \A w \in watches[o] :
    w.target \notin lost =>
      LET from == start[o][w.target]
          of == SelectSeq(SubSeq(records[o], from.from + 1, Len(records[o])), LAMBDA r : r.target = w.target)
          end == FoldLeft(Follow, [list |-> from.kids, right |-> TRUE], of)
      IN  end.right /\ end.list = kids[w.target]

\* slotchange: once the microtasks have run, no slot in the tree has nodes it was not
\* looked at with; where a child is drawn is where it is assigned.
SlotsTold ==
  /\ watch /\ ~queued /\ todo = <<>> /\ "text" \notin untold =>
       \A s \in Slots : RootIn(kids, s) = "root" => Assigned(kids, s) = known[s]
  /\ passed /\ "assign" \notin untold =>
       \A n \in In(scene) : \A s \in Slots : drawn[n] = s <=> n \in ToSet(Assigned(kids, s)) /\ "page" \in UpIn(kids, "host")
=============================================================================
