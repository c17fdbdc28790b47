----------------------------- MODULE Addresses -----------------------------
(***************************************************************************)
(* Where a page is (vita/js/prelude.js): the entries of its history, which *)
(* it makes and walks itself, the address kept over the browser's own, and *)
(* going to a fragment or to another page.  Events of it and pages gone to *)
(* wait for a task of their own.                                           *)
(***************************************************************************)
EXTENDS Integers, Sequences, SequencesExt

CONSTANT MaxSteps    \* calls of the page that move it

\* One page at three places of it, and another page.
Urls == [doc : {"a"}, frag : {"none", "x", "y"}] \cup [doc : {"b"}, frag : {"none"}]
NoUrl == [doc |-> "none", frag |-> "none"]

VARIABLES stack,     \* the entries: what the page left with each, and its address
          at,
          state,
          vitaHref,  \* NV.__vitaHref, or NoUrl
          real,      \* the browser's own address of the page
          tasks,     \* owed: a hashchange, a popstate or a page to go to
          events,    \* hashchanges and popstates made so far, heard or owed
          leaving,   \* the last address the browser was sent to
          walks,     \* moves other than to a fragment
          steps

vars == <<stack, at, state, vitaHref, real, tasks, events, leaving, walks, steps>>

Start == [doc |-> "a", frag |-> "none"]

Init ==
  /\ stack = << [state |-> 0, url |-> Start] >> /\ at = 1 /\ state = 0
  /\ vitaHref = NoUrl /\ real = Start
  /\ tasks = <<>> /\ events = <<>> /\ leaving = NoUrl
  /\ walks = 0 /\ steps = 0

-----------------------------------------------------------------------------
\* location.href as it reads.
here == IF vitaHref = NoUrl THEN real ELSE vitaHref

sameDocFragment(from, to) == from.doc = to.doc /\ to.frag # "none"

\* To a fragment, at once: it is told of by a task behind these.
ToFragment(url, rest) ==
  IF url = here THEN tasks' = rest /\ UNCHANGED <<vitaHref, events>>
  ELSE /\ vitaHref' = url
       /\ events' = Append(events, [k |-> "hash", old |-> here, new |-> url, walks |-> walks])
       /\ tasks' = Append(rest, <<"event">>)

\* goTo: any other page is gone to later.
goTo(url) ==
  /\ IF url = here \/ sameDocFragment(here, url) THEN ToFragment(url, tasks)
     ELSE tasks' = Append(tasks, <<"go", url>>) /\ UNCHANGED <<vitaHref, events>>
  /\ UNCHANGED <<stack, at, state, real, leaving, walks>>

\* location.href as it is set, with `rest' for tasks.
SetHref(url, rest) ==
  IF sameDocFragment(here, url)
    THEN ToFragment(url, rest) /\ UNCHANGED <<leaving, walks>>
    ELSE /\ vitaHref' = NoUrl
         /\ leaving' = url
         /\ walks' = walks + 1
         /\ tasks' = rest
         /\ UNCHANGED events

\* apply and tell: the page is at entry i of these.
apply(entries, i) ==
  /\ stack' = entries
  /\ at' = i
  /\ vitaHref' = entries[i].url
  /\ state' = entries[i].state
  /\ real' = entries[i].url
  /\ walks' = walks + 1
  /\ UNCHANGED leaving

Call == steps < MaxSteps /\ steps' = steps + 1

\* A link, or location.hash set.
Follow == \E url \in Urls : Call /\ goTo(url)

Assign == \E url \in Urls : Call /\ SetHref(url, tasks) /\ UNCHANGED <<stack, at, state, real>>

Given == Urls \cup {NoUrl}
resolve(url) == IF url = NoUrl THEN here ELSE url

pushState ==
  \E url \in Given :
    /\ Call
    /\ apply(SubSeq(stack, 1, at) \o << [state |-> steps', url |-> resolve(url)] >>, at + 1)
    /\ UNCHANGED <<tasks, events>>

\* Without an address the entry keeps its own, and the page is there again.
replaceState ==
  \E url \in Given :
    /\ Call
    /\ apply([stack EXCEPT ![at] = [state |-> steps',
                                    url |-> IF url = NoUrl THEN @.url ELSE url]], at)
    /\ UNCHANGED <<tasks, events>>

\* go, back and forward; go(0) is reload.
go ==
  \E n \in -2..2 :
    /\ Call
    /\ \/ n = 0 /\ SetHref(here, tasks) /\ UNCHANGED <<stack, at, state, real>>
       \/ /\ n # 0 /\ at + n \notin DOMAIN stack
          /\ UNCHANGED <<stack, at, state, vitaHref, real, tasks, events, leaving, walks>>
       \/ /\ n # 0 /\ at + n \in DOMAIN stack
          /\ apply(stack, at + n)
          /\ events' = Append(events, [k |-> "pop", state |-> stack[at + n].state,
                                       walks |-> walks + 1])
          /\ tasks' = Append(tasks, <<"event">>)

Task ==
  /\ tasks # <<>>
  /\ IF Head(tasks) = <<"event">>
       THEN tasks' = Tail(tasks) /\ UNCHANGED <<vitaHref, events, leaving, walks>>
       ELSE SetHref(Head(tasks)[2], Tail(tasks))
  /\ UNCHANGED <<stack, at, state, real, steps>>

Next ==
  \/ Follow
  \/ Assign
  \/ pushState
  \/ replaceState
  \/ go
  \/ Task

-----------------------------------------------------------------------------
\* The hashchanges told between two other moves lead from one fragment to the
\* next and the last of them to where the page is, also when it moves on
\* before it hears of the first (goTo).
HashesFollow ==
  /\ \A i \in 1..Len(events) - 1 : LET e == events[i] f == events[i + 1] IN
       e.k = "hash" /\ f.k = "hash" /\ e.walks = f.walks => e.new = f.old
  /\ events # <<>> => LET e == Last(events) IN
       e.k = "hash" /\ e.walks = walks => e.new = here

\* After the page has walked its history the last popstate tells what
\* history.state is, however many were owed (go, apply).
PopsAreTrue ==
  events # <<>> => LET e == Last(events) IN
    e.k = "pop" /\ e.walks = walks => e.state = state

\* The entry the page is at is what its address and its state say, unless it
\* went to a fragment or sent the browser away since (apply, tell).
EntryIsHere ==
  /\ at \in DOMAIN stack
  /\ state = stack[at].state
  /\ real = stack[at].url
  /\ vitaHref # NoUrl /\ ~(\E i \in DOMAIN events : events[i].k = "hash" /\ events[i].walks = walks)
       => here = stack[at].url
=============================================================================
