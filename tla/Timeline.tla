------------------------------ MODULE Timeline ------------------------------
(***************************************************************************)
(* The performance timeline (vita/js/performance.js): the entries a page   *)
(* makes and those it keeps, the observers that are told of them in a      *)
(* microtask, and the milestones of the document that the navigation entry *)
(* is made of.  A callback is the page's code and may do all of this.  The *)
(* page may dispatch events of the milestones' names itself, and stop the  *)
(* document's own on its way, as the code's listeners hear any.            *)
(*                                                                         *)
(* Time is counted from the page's start, and a milestone that has not     *)
(* happened is NotYet, which the code writes as 0.                         *)
(***************************************************************************)
EXTENDS Naturals, Sequences, FiniteSets, SequencesExt

CONSTANTS MaxMade,    \* marks and measures a page makes
          MAX_ENTRIES,
          MaxWatches, \* calls of observe, disconnect and takeRecords; and events
                      \* the page dispatches
          MaxTime

Observers == {"p", "q"}
MarkNames == {"a"}
Types == {"mark", "measure", "navigation"}
Nobody == "nobody"
NotYet == MaxTime + 1

VARIABLES now,
          entries,   \* what is kept, in the order it was made
          made,      \* all that was made
          observers, \* those that watch, in their order
          types,     \* of each observer, what it watches
          buffer,    \* what it has not been told of
          jobs,      \* microtasks: those to be told, or the end of the load event
          telling,   \* those of the microtask that runs who are still to be told
          calling,   \* whose callback runs
          heard,     \* of each, the lists it was told of, as numbers of the entries
          owed,      \* those it was to be told of, without what it gave up
          cleared,   \* numbers of the entries the page cleared
          TV,
          watches,
          fired      \* how far the document has come, the events the page dispatched,
                     \* whether a milestone is not of the document's own event, and
                     \* the load events that reached the window

vars == <<now, entries, made, observers, types, buffer, jobs, telling, calling, heard, owed, cleared, TV,
          watches, fired>>
watching == <<observers, types, buffer, heard, owed>>
running == <<telling, calling>>

Stages == <<"domInteractive", "domContentLoadedEventStart", "domContentLoadedEventEnd",
            "domComplete", "loadEventStart", "loadEventEnd">>

Init ==
  /\ now = 0 /\ entries = <<>> /\ made = <<>>
  /\ observers = <<>> /\ types = [o \in Observers |-> {}]
  /\ buffer = [o \in Observers |-> <<>>]
  /\ jobs = <<>> /\ telling = <<>> /\ calling = Nobody
  /\ heard = [o \in Observers |-> <<>>]
  /\ owed = [o \in Observers |-> <<>>]
  /\ cleared = {} /\ watches = 0
  /\ TV = [s \in ToSet(Stages) |-> NotYet]
  /\ fired = [own |-> "loading", dispatched |-> 0, meddled |-> FALSE, loads |-> 0]

\* The page's code runs in a task or in a callback; a task begins when no
\* microtask is left, and what it leaves comes before the next.
Acts == telling = <<>> \/ calling # Nobody

-----------------------------------------------------------------------------
\* record, with `queue' the microtasks before: those who watch the type are told
\* of it by one more.
Kept(list) == IF Len(list) <= MAX_ENTRIES THEN list
              ELSE SubSeq(list, Len(list) - MAX_ENTRIES + 1, Len(list))
record(type, name, start, end, queue) ==
  LET e == [type |-> type, name |-> name, start |-> start, end |-> end, n |-> Len(made) + 1]
      matched == SelectSeq(observers, LAMBDA o : type \in types[o])
      For(f, x) == [o \in Observers |-> IF o \in ToSet(matched) THEN Append(f[o], x) ELSE f[o]]
  IN  /\ made' = Append(made, e)
      /\ entries' = Kept(Append(entries, e))
      /\ buffer' = For(buffer, e)
      /\ owed' = For(owed, e.n)
      /\ jobs' = IF matched = <<>> THEN queue ELSE Append(queue, matched)

MayMake == Acts /\ Cardinality({i \in DOMAIN made : made[i].type # "navigation"}) < MaxMade

\* A mark of now, or of another time.
mark(name, start) ==
  /\ MayMake
  /\ record("mark", name, start, start, jobs)
  /\ UNCHANGED <<now, observers, types, running, heard, cleared, TV, watches, fired>>

\* measure from a mark to now: the last of its name, which must be kept still;
\* or from a milestone, which must have happened (toTimestamp).
From(name) == {i \in DOMAIN entries : entries[i].type = "mark" /\ entries[i].name = name}
measure(from) ==
  /\ MayMake
  /\ \/ from \in MarkNames /\ From(from) # {}
     \/ from \in DOMAIN TV /\ TV[from] # NotYet
  /\ LET last == CHOOSE i \in From(from) : \A j \in From(from) : j <= i
         start == IF from \in MarkNames THEN entries[last].start ELSE TV[from]
     IN  record("measure", from, start, now, jobs)
  /\ UNCHANGED <<now, observers, types, running, heard, cleared, TV, watches, fired>>

\* clearMarks and clearMeasures, of a name or all.
clear(type, names) ==
  LET goes(e) == e.type = type /\ e.name \in names IN
  /\ Acts
  /\ \E i \in DOMAIN entries : goes(entries[i])
  /\ entries' = SelectSeq(entries, LAMBDA e : ~goes(e))
  /\ cleared' = cleared \cup {entries[i].n : i \in {j \in DOMAIN entries : goes(entries[j])}}
  /\ UNCHANGED <<now, made, watching, jobs, running, TV, watches, fired>>

Call == Acts /\ watches < MaxWatches /\ watches' = watches + 1

observe(o, asked, buffered) ==
  LET past == IF buffered THEN SelectSeq(entries, LAMBDA e : e.type \in asked) ELSE <<>> IN
  /\ Call
  /\ types' = [types EXCEPT ![o] = @ \cup asked]
  /\ observers' = IF o \in ToSet(observers) THEN observers ELSE Append(observers, o)
  /\ buffer' = [buffer EXCEPT ![o] = @ \o past]
  /\ owed' = [owed EXCEPT ![o] = @ \o [i \in DOMAIN past |-> past[i].n]]
  /\ jobs' = IF past = <<>> THEN jobs ELSE Append(jobs, <<o>>)
  /\ UNCHANGED <<now, entries, made, running, heard, cleared, TV, fired>>

\* What is left of what it was to be told of.
GivesUp(o) == owed' = [owed EXCEPT ![o] = SubSeq(@, 1, Len(@) - Len(buffer[o]))]
disconnect(o) ==
  /\ Call /\ types[o] # {}
  /\ types' = [types EXCEPT ![o] = {}]
  /\ observers' = Remove(observers, o)
  /\ buffer' = [buffer EXCEPT ![o] = <<>>]
  /\ GivesUp(o)
  /\ UNCHANGED <<now, entries, made, jobs, running, heard, cleared, TV, fired>>

takeRecords(o) ==
  /\ Call /\ buffer[o] # <<>>
  /\ buffer' = [buffer EXCEPT ![o] = <<>>]
  /\ GivesUp(o)
  /\ UNCHANGED <<now, entries, made, observers, types, jobs, running, heard, cleared, TV, fired>>

-----------------------------------------------------------------------------
(* Microtasks.                                                             *)

\* A list comes sorted by when its entries start, those of one time as they were.
chronological(list) ==
  FoldLeft(LAMBDA sorted, e :
             InsertAt(sorted, Cardinality({i \in DOMAIN sorted : sorted[i].start <= e.start}) + 1, e),
           <<>>, list)
entryList(list) == LET sorted == chronological(list) IN [i \in DOMAIN sorted |-> sorted[i].n]

\* deliver, which calls back an observer that has anything in its buffer.
Deliver ==
  /\ telling # <<>> /\ calling = Nobody
  /\ LET o == Head(telling) IN
       IF buffer[o] = <<>> THEN telling' = Tail(telling) /\ UNCHANGED <<calling, heard, buffer>>
       ELSE /\ calling' = o
            /\ heard' = [heard EXCEPT ![o] = Append(@, entryList(buffer[o]))]
            /\ buffer' = [buffer EXCEPT ![o] = <<>>]
            /\ UNCHANGED telling
  /\ UNCHANGED <<now, entries, made, observers, types, jobs, owed, cleared, TV, watches, fired>>

CallbackEnds ==
  /\ calling # Nobody
  /\ calling' = Nobody
  /\ telling' = Tail(telling)
  /\ UNCHANGED <<now, entries, made, watching, jobs, cleared, TV, watches, fired>>

Quiet == telling = <<>> /\ calling = Nobody

Microtask ==
  /\ Quiet /\ jobs # <<>> /\ Head(jobs) # <<"loadEnd">>
  /\ telling' = Head(jobs)
  /\ jobs' = Tail(jobs)
  /\ UNCHANGED <<now, entries, made, watching, calling, cleared, TV, watches, fired>>

\* The end of the load event, and then navigationEntry.
Stamped(stages) == [s \in DOMAIN TV |-> IF s \in stages /\ TV[s] = NotYet THEN now ELSE TV[s]]
LoadEnds ==
  /\ Quiet /\ jobs # <<>> /\ Head(jobs) = <<"loadEnd">>
  /\ TV' = Stamped({"loadEventEnd"})
  /\ record("navigation", "document", 0, TV'["loadEventEnd"], Tail(jobs))
  /\ UNCHANGED <<now, observers, types, running, heard, cleared, watches, fired>>

-----------------------------------------------------------------------------
(* The document's milestones, with the code's own listeners: of            *)
(* DOMContentLoaded a capturing one at the document and one at the window, *)
(* which hears it last, with the page's listeners between them; and the    *)
(* window's first of load.                                                 *)

AtDocument == TV' = Stamped({"domInteractive", "domContentLoadedEventStart"}) /\ UNCHANGED jobs
AtWindow == TV' = Stamped({"domContentLoadedEventEnd"}) /\ UNCHANGED jobs

\* Each load event ends in a microtask, whether or not one came before it.
LoadHeard ==
  /\ TV' = Stamped({"domComplete", "loadEventStart"})
  /\ jobs' = Append(jobs, <<"loadEnd">>)

\* An event of the document's own reaches a listener, unless the page has
\* stopped it (stopPropagation) before.
Own(from, to, hears) ==
  /\ Quiet /\ jobs = <<>> /\ fired.own = from
  /\ \/ hears /\ fired' = [fired EXCEPT !.own = to]
     \/ UNCHANGED <<TV, jobs>> /\ fired' = [fired EXCEPT !.own = to, !.meddled = TRUE]
  /\ UNCHANGED <<now, entries, made, watching, running, cleared, watches>>

DOMContentLoading == Own("loading", "interactive", AtDocument)
DOMContentLoaded == Own("interactive", "loaded", AtWindow)

\* js_fire_event runs the window's listeners of load, and this one first.
Load ==
  /\ Quiet /\ jobs = <<>> /\ fired.own = "loaded"
  /\ LoadHeard
  /\ fired' = [fired EXCEPT !.own = "complete", !.loads = @ + 1]
  /\ UNCHANGED <<now, entries, made, watching, running, cleared, watches>>

\* dispatchEvent, of a DOMContentLoaded in the document that bubbles no further
\* or of one at the window, and of a load at the window.
Dispatch(reaches) ==
  /\ Acts /\ fired.dispatched < MaxWatches
  /\ CASE reaches = "document" -> AtDocument
       [] reaches = "window" -> AtWindow
       [] reaches = "load" -> LoadHeard
  /\ fired' = [fired EXCEPT !.dispatched = @ + 1, !.meddled = @ \/ TV' # TV,
                            !.loads = IF reaches = "load" THEN @ + 1 ELSE @]
  /\ UNCHANGED <<now, entries, made, watching, running, cleared, watches>>

Tick ==
  /\ Quiet /\ now < MaxTime
  /\ now' = now + 1
  /\ UNCHANGED <<entries, made, watching, jobs, running, cleared, TV, watches, fired>>

Next ==
  \/ \E name \in MarkNames, start \in {0, now} : mark(name, start)
  \/ \E from \in MarkNames \cup {"domInteractive"} : measure(from)
  \/ \E type \in {"mark", "measure"} : clear(type, MarkNames)
  \/ \E o \in Observers, buffered \in BOOLEAN :
       observe(o, IF o = "p" THEN {"mark"} ELSE {"mark", "navigation"}, buffered)
  \/ \E o \in Observers : disconnect(o) \/ takeRecords(o)
  \/ Microtask
  \/ Deliver
  \/ CallbackEnds
  \/ LoadEnds
  \/ DOMContentLoading
  \/ DOMContentLoaded
  \/ Load
  \/ \E reaches \in {"document", "window", "load"} : Dispatch(reaches)
  \/ Tick

-----------------------------------------------------------------------------
\* An observer is told of every entry made while it watched its type or kept
\* when it asked for those there were, as often as that and except what it gave
\* up, in lists that follow each other as they were made and each by its own
\* times; what it has not been told of yet it has in its buffer, of types it
\* watches, and a microtask is to come for it, whatever it or another marks,
\* watches or gives up in a callback (record, deliver, entryList, observe,
\* disconnect, takeRecords).
AllIsTold ==
  \A o \in Observers :
    LET told == FlattenSeq(heard[o])
        Before(k) == Len(FlattenSeq(SubSeq(heard[o], 1, k - 1)))
        Times(list, n) == Cardinality({i \in DOMAIN list : list[i] = n})
    IN  /\ Len(told) + Len(buffer[o]) = Len(owed[o])
        /\ [i \in DOMAIN buffer[o] |-> buffer[o][i].n] = SubSeq(owed[o], Len(told) + 1, Len(owed[o]))
        /\ \A k \in DOMAIN heard[o] :
             LET list == heard[o][k]
                 asMade == SubSeq(owed[o], Before(k) + 1, Before(k) + Len(list))
             IN  /\ \A n \in ToSet(asMade) : Times(list, n) = Times(asMade, n)
                 /\ \A i, j \in DOMAIN list : i < j => made[list[i]].start <= made[list[j]].start
        /\ \A i \in DOMAIN buffer[o] : buffer[o][i].type \in types[o]
        /\ buffer[o] # <<>> =>
             \/ \E i \in DOMAIN telling : telling[i] = o /\ (i = 1 => calling = Nobody)
             \/ \E i \in DOMAIN jobs : o \in ToSet(jobs[i])

\* What is kept is in the order it was made, and what is not was cleared or has
\* MAX_ENTRIES made after it (record, clearMarks).
LastAreKept ==
  /\ Len(entries) <= MAX_ENTRIES
  /\ \A i, j \in DOMAIN entries : i < j => entries[i].n < entries[j].n
  /\ \A k \in DOMAIN made :
       k \in {entries[i].n : i \in DOMAIN entries} \cup cleared
         \/ Len(made) - k >= MAX_ENTRIES

\* Each load event at the window makes a navigation entry when its listeners
\* have run, and all of them agree on when the first had ended, whenever a page
\* dispatches more of them, before the document's own or in its callbacks; and
\* the milestones that are the document's own happen in their order (stamp,
\* navigationEntry).
StagesInOrder ==
  LET navigations == {i \in DOMAIN made : made[i].type = "navigation"}
      ending == {i \in DOMAIN jobs : jobs[i] = <<"loadEnd">>}
  IN  /\ Cardinality(navigations) + Cardinality(ending) = fired.loads
      /\ \A i \in navigations : made[i].end = TV["loadEventEnd"] /\ made[i].end # NotYet
      /\ TV["domComplete"] = TV["loadEventStart"] /\ TV["loadEventStart"] <= TV["loadEventEnd"]
      /\ ~fired.meddled =>
           \A i, j \in DOMAIN Stages : i < j => TV[Stages[i]] <= TV[Stages[j]]
=============================================================================
