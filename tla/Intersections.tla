--------------------------- MODULE Intersections ---------------------------
(***************************************************************************)
(* IntersectionObserver (vita/js/prelude.js): what observers are told of   *)
(* elements that come into view and leave it.  A timer looks whether the   *)
(* page has scrolled, changed or been laid out, and then goes through the  *)
(* observers that watch something; a new target is looked at once besides. *)
(* An observer's callback runs in the midst of that and may have any of    *)
(* them watch more or less.                                                *)
(*                                                                         *)
(* Of where an element is all that is kept is whether it is in view, in    *)
(* the layout there is.                                                    *)
(***************************************************************************)
EXTENDS Naturals, Sequences, SequencesExt, Functions

CONSTANTS MaxShifts,  \* scrolls, changes and layouts
          MaxWatches  \* calls of observe, unobserve and disconnect

Observers == {"o1", "o2"}
Targets == {"t1", "t2"}
Nobody == "nobody"

VARIABLES visible,   \* elements in view
          stale,     \* a change of the document is not laid out yet
          now,       \* counts scrolls, changes and layouts
          last,      \* the count at the last look: lastScroll, lastGen, lastLayout
          timer,     \* the timer runs
          observers, \* those that watch something, in order
          seen,      \* of each observer, its targets and what it was told of each
          firsts,    \* of each observer, how many first looks are owed
          walk,      \* which observer checkAll is at, or 0
          calling,   \* whose callback runs
          watches,
          missed     \* one stopped watching while checkAll was at it or past it

vars == <<visible, stale, now, last, timer, observers, seen, firsts, walk, calling, watches, missed>>
world == <<visible, stale, now>>

Init ==
  /\ visible = {} /\ stale = FALSE /\ now = 0 /\ last = 0
  /\ timer = FALSE /\ observers = <<>>
  /\ seen = [o \in Observers |-> <<>>]
  /\ firsts = [o \in Observers |-> 0]
  /\ walk = 0 /\ calling = Nobody /\ watches = 0 /\ missed = FALSE

Idle == walk = 0 /\ calling = Nobody
\* The page's code runs: a task of its, or a callback.
Acts == walk = 0 \/ calling # Nobody

-----------------------------------------------------------------------------
Call == Acts /\ watches < MaxWatches /\ watches' = watches + 1

observe(o, t) ==
  /\ Call /\ t \notin DOMAIN seen[o]
  /\ seen' = [seen EXCEPT ![o] = [x \in DOMAIN @ \cup {t} |-> IF x = t THEN "new" ELSE @[x]]]
  /\ observers' = IF o \in ToSet(observers) THEN observers ELSE Append(observers, o)
  /\ timer' = TRUE
  /\ firsts' = [firsts EXCEPT ![o] = @ + 1]
  /\ UNCHANGED <<world, last, walk, calling, missed>>

\* unobserve and disconnect; one that watches nothing any more is not kept,
\* wherever the walk is.
Leaves(o, gone) ==
  /\ Call
  /\ seen' = [seen EXCEPT ![o] = Restrict(@, DOMAIN @ \ gone)]
  /\ IF DOMAIN seen[o] \subseteq gone
       THEN /\ observers' = Remove(observers, o)
            /\ missed' = (missed \/ \E i \in 1..walk : i < Len(observers) /\ observers[i] = o)
       ELSE UNCHANGED <<observers, missed>>
  /\ UNCHANGED <<world, last, timer, firsts, walk, calling>>

unobserve(o, t) == t \in DOMAIN seen[o] /\ Leaves(o, {t})
disconnect(o) == seen[o] # <<>> /\ Leaves(o, Targets)

-----------------------------------------------------------------------------
\* What there is to see of t, and whether o is to be told anything.
View(t) == IF t \in visible THEN "in" ELSE "out"
News(o) == \E t \in DOMAIN seen[o] : seen[o][t] # View(t)

\* check: all that o watches is noted, and then it is told of what is new.
check(o) ==
  /\ seen' = [seen EXCEPT ![o] = [t \in DOMAIN @ |-> View(t)]]
  /\ calling' = IF News(o) THEN o ELSE Nobody

\* first, which waits for layout, but not for ever.
first(o) ==
  /\ Idle /\ firsts[o] > 0
  /\ firsts' = [firsts EXCEPT ![o] = @ - 1]
  /\ check(o)
  /\ UNCHANGED <<world, last, timer, observers, walk, watches, missed>>

\* tick, of the timer or of a scroll.
tick ==
  /\ Idle /\ timer
  /\ \/ /\ \A o \in Observers : seen[o] = <<>>
        /\ timer' = FALSE
        /\ UNCHANGED <<last, walk>>
     \/ /\ \E o \in Observers : seen[o] # <<>>
        /\ ~stale /\ now # last
        /\ last' = now
        /\ walk' = 1
        /\ UNCHANGED timer
  /\ UNCHANGED <<world, observers, seen, firsts, calling, watches, missed>>

\* checkAll comes to the next observer.
Walk ==
  /\ walk > 0 /\ calling = Nobody
  /\ IF walk > Len(observers) THEN walk' = 0 /\ UNCHANGED <<seen, calling>>
     ELSE LET o == observers[walk]
          IN  check(o) /\ walk' = IF News(o) THEN walk ELSE walk + 1
  /\ UNCHANGED <<world, last, timer, observers, firsts, watches, missed>>

CallbackEnds ==
  /\ calling # Nobody
  /\ calling' = Nobody
  /\ walk' = IF walk = 0 THEN 0 ELSE walk + 1
  /\ UNCHANGED <<world, last, timer, observers, seen, firsts, watches, missed>>

-----------------------------------------------------------------------------
(* What moves elements.                                                    *)

Shift == now < MaxShifts /\ now' = now + 1

\* The page scrolls, or what has changed is laid out.
Scroll ==
  /\ Idle /\ Shift
  /\ visible' \in SUBSET Targets
  /\ UNCHANGED <<stale, last, timer, observers, seen, firsts, walk, calling, watches, missed>>

Layout ==
  /\ Idle /\ stale /\ Shift
  /\ stale' = FALSE
  /\ visible' \in SUBSET Targets
  /\ UNCHANGED <<last, timer, observers, seen, firsts, walk, calling, watches, missed>>

Mutate ==
  /\ Acts /\ Shift
  /\ stale' = TRUE
  /\ UNCHANGED <<visible, last, timer, observers, seen, firsts, walk, calling, watches, missed>>

Next ==
  \/ \E o \in Observers, t \in Targets : observe(o, t) \/ unobserve(o, t)
  \/ \E o \in Observers : disconnect(o) \/ first(o)
  \/ tick
  \/ Walk
  \/ CallbackEnds
  \/ Scroll
  \/ Layout
  \/ Mutate

-----------------------------------------------------------------------------
\* When nothing has moved since the last look, every observer was told of all
\* it watches what there is to see, whatever callbacks did while the others
\* were waiting for theirs (checkAll, tick, first).  This is so unless one of
\* them stopped watching altogether as the walk was at it or past it: the
\* next in the list is then passed over.
AllIsSeen ==
  Idle /\ ~missed /\ ~stale /\ now = last =>
    \A o \in Observers : firsts[o] = 0 => ~News(o)

\* Those that watch something are in the list, once each, and no others, and
\* while there are any the timer runs (list, unlist, wake).
ListedAreWatching ==
  /\ ToSet(observers) = {o \in Observers : seen[o] # <<>>}
  /\ IsInjective(observers)
  /\ observers # <<>> => timer
=============================================================================
