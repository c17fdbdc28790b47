---------------------------- MODULE FetchResolve -----------------------------
(***************************************************************************)
(* Fetches waiting for their hosts' addresses: what patch 0392 adds to     *)
(* NetSurf's curl fetcher, on top of the lookups of Resolve.               *)
(*                                                                         *)
(* A fetch whose host is not known yet waits in a list.  Both the ordinary *)
(* poll and the pump (run from the script interrupt) walk the list and ask *)
(* vita_resolve again; only the poll may finish a fetch that failed.  The  *)
(* poll tells others too, of what came while a script ran before its walk  *)
(* and of the transfers that have ended after it, and all the callbacks it *)
(* makes may start and abort fetches.                                      *)
(***************************************************************************)
EXTENDS Resolve, SequencesExt

CONSTANTS Fetch, HostOf   \* the fetches, and the host each one wants

ASSUME HostOfAssumption == HostOf \in [Fetch -> Host]

VARIABLES
  fetch,     \* "new", "waiting", "curl" (has its address), "failed" or "freed"
  heard,     \* what each fetch was told
  abort,     \* the fetches aborted while a poll ran, yet to be freed
  list,      \* resolving_fetches
  walk,      \* who is asking, and where in the list: see Nobody
  starting   \* the fetch being started

fetchVars == <<fetch, heard, abort, list, walk, starting>>
allVars == <<vars, fetchVars>>

\* "start": a fetch being started; "nested": one started by the poll's callback.
\* Behind its callbacks a poll still has to "walk" the list, or is "done".
Nobody == [by |-> "nobody", at |-> 1, next |-> "done"]
Nothing == CHOOSE f \in Fetch : TRUE
Waiting == {f \in Fetch : fetch[f] = "waiting"}

FInit == /\ Init
         /\ fetch = [f \in Fetch |-> "new"]
         /\ heard = [f \in Fetch |-> Pending]
         /\ abort = {}
         /\ list = <<>>
         /\ walk = Nobody
         /\ starting = Nothing

-----------------------------------------------------------------------------
\* fetch_curl_initiate_fetch: the host is asked for at once; also from a
\* callback of the poll (inside).
Initiate(f) ==
  /\ walk.by \in {"nobody", "callback"}
  /\ fetch[f] = "new"
  /\ Call(HostOf[f])
  /\ walk' = [walk EXCEPT !.by = IF walk.by = "callback" THEN "nested" ELSE "start"]
  /\ starting' = f
  /\ UNCHANGED <<fetch, heard, abort, list>>

Begin(by, next) ==
  /\ walk = Nobody /\ main.pc = "idle"
  /\ walk' = [Nobody EXCEPT !.by = by, !.next = next]
  /\ UNCHANGED <<vars, fetch, heard, abort, list, starting>>

\* fetch_curl_poll: curl is entered, and what arrived while a script ran is
\* handed on (fetch_curl_flush_held) before the list is walked.
Poll == Begin("callback", "walk")

\* fetch_curl_pump walks before it enters curl, and tells nobody anything.
Pump == Begin("pump", "done")

Walking == walk.by \in {"poll", "pump"} /\ main.pc = "idle"
\* Mutant: the last fetch of the list is left out.
AtLast == walk.at >= Len(list)

AtEnd == walk.at > Len(list)
Here == list[walk.at]

\* fetch_curl_resolve_unlink
Unlinked(i) == RemoveAt(list, i)

\* A fetch aborted while a poll ran: nothing to tell.
WalkAborted ==
  /\ Walking /\ ~AtEnd /\ Here \in abort
  /\ list' = Unlinked(walk.at)
  /\ fetch' = [fetch EXCEPT ![Here] = "freed"]
  /\ abort' = abort \ {Here}
  /\ UNCHANGED <<vars, heard, walk, starting>>

WalkAsk ==
  /\ Walking /\ ~AtEnd /\ Here \notin abort
  /\ Call(HostOf[Here])
  /\ UNCHANGED fetchVars

\* Behind its walk the poll tells of the transfers that have ended, and curl
\* does what it can.
WalkEnds ==
  /\ Walking /\ AtEnd
  /\ walk' = IF walk.by = "poll" THEN [Nobody EXCEPT !.by = "callback"] ELSE Nobody
  /\ UNCHANGED <<vars, fetch, heard, abort, list, starting>>

\* Told is what a fetch hears.
Hear(f, state) ==
  /\ fetch' = [fetch EXCEPT ![f] = state]
  /\ heard' = [heard EXCEPT ![f] = main.ret]

\* A fetch being started is given to curl, or joins the list's front: also
\* when it has failed, which may not be said from there.
StartReturns ==
  /\ walk.by \in {"start", "nested"} /\ Return
  /\ walk' = IF walk.by = "nested" THEN [walk EXCEPT !.by = "callback"] ELSE Nobody
  /\ IF main.ret.kind = "ok"
     THEN Hear(starting, "curl") /\ UNCHANGED list
     ELSE /\ fetch' = [fetch EXCEPT ![starting] = "waiting"]
          /\ list' = <<starting>> \o list
          /\ UNCHANGED <<heard>>
  /\ starting' = Nothing
  /\ UNCHANGED abort

\* Mutant: the pump finishes a fetch that failed.
StayAlways == main.ret.kind = "pending"

\* Nothing to do yet, or nothing the pump may do.
Stay == main.ret.kind = "pending" \/ (main.ret.kind = "failed" /\ walk.by = "pump")

\* Mutant: after a callback the walk carries on where it was.
CarryOn == walk.at

\* After a callback the list is walked from its start (goto again).
Again == 1

WalkReturns ==
  /\ walk.by \in {"poll", "pump"} /\ Return
  /\ IF Stay
     THEN /\ walk' = [walk EXCEPT !.at = walk.at + 1]
          /\ UNCHANGED <<fetch, heard, list>>
     ELSE /\ list' = Unlinked(walk.at)
          /\ IF main.ret.kind = "ok"
             THEN Hear(Here, "curl") /\ UNCHANGED walk
             ELSE /\ Hear(Here, "failed")
                  /\ walk' = [walk EXCEPT !.by = "callback", !.at = Again]
  /\ UNCHANGED <<abort, starting>>

\* The callbacks have returned: of what was held and of a fetch that failed, and
\* the list is walked; or of the rest, and curl is left.
CallbackEnds ==
  /\ walk.by = "callback"
  /\ walk' = IF walk.next = "walk" THEN [walk EXCEPT !.by = "poll"] ELSE Nobody
  /\ UNCHANGED <<vars, fetch, heard, abort, list, starting>>

\* A fetch no longer wanted (fetch_curl_abort, and fetch_curl_free): only marked
\* in a poll's callbacks (inside_curl), of the walk and of the rest; otherwise
\* taken off the list and freed.
Abort(f) ==
  /\ f \in Waiting \ abort
  /\ \/ /\ walk.by = "callback"
        /\ abort' = abort \cup {f}
        /\ UNCHANGED <<fetch, list>>
     \/ /\ walk = Nobody
        /\ \E i \in DOMAIN list : list[i] = f /\ list' = Unlinked(i)
        /\ fetch' = [fetch EXCEPT ![f] = "freed"]
        /\ UNCHANGED abort
  /\ UNCHANGED <<vars, heard, walk, starting>>

-----------------------------------------------------------------------------

Lookup == \E t \in Tid : Thread(t)

Driver == \/ Resolving /\ UNCHANGED fetchVars
          \/ StartReturns \/ WalkReturns \/ WalkAborted \/ WalkAsk \/ WalkEnds
          \/ CallbackEnds

FNext == \/ \E f \in Fetch : Initiate(f) \/ Abort(f)
         \/ Poll \/ Pump
         \/ Driver
         \/ Lookup /\ UNCHANGED fetchVars
         \/ Tick /\ UNCHANGED fetchVars

FSpec == FInit /\ [][FNext]_allVars

\* The main thread runs what it has begun, a lookup's thread is scheduled and
\* its blocking calls return (the system's own time limits); the poll comes
\* round however often a script's pump came before it, as no script outlasts
\* its budget.
Fairness == /\ WF_allVars(Driver)
            /\ \A t \in Tid : WF_allVars(Thread(t) /\ UNCHANGED fetchVars)
            /\ SF_allVars(Poll)

FairSpec == FSpec /\ Fairness

-----------------------------------------------------------------------------
(* Properties.                                                             *)

\* The list holds each fetch that waits once and nothing else, though it is
\* walked while callbacks start, finish and abort fetches; and no walk is past
\* its end.
ListIsWaiting ==
  /\ ToSet(list) = Waiting /\ IsInjective(list)
  /\ abort \subseteq Waiting
  /\ walk.by \in {"poll", "pump"} => walk.at \in 1..Len(list)+1

\* No walk passes a fetch that was aborted: at its end it has freed all that were
\* marked, before it, in the callbacks it made and in an earlier poll's.  (What
\* a poll's last callbacks abort stays marked in the list until the next walk.)
AbortedAreFreed ==
  walk.by \in {"poll", "pump"} => \A i \in DOMAIN list : i < walk.at => list[i] \notin abort

\* What a fetch that left the list, or never joined it, was told is for its own
\* host, though fetches are started from callbacks while others are asked for.
ToldOfTheirHosts ==
  \A f \in Fetch :
    /\ fetch[f] = "curl" => /\ heard[f].kind = "ok" /\ heard[f].host = HostOf[f]
                           /\ heard[f].found.of = HostOf[f]
    /\ fetch[f] = "failed" => heard[f].kind = "failed"

\* So the list is sound, between walks and in them, and so is what it is for.
ListSound == ListIsWaiting /\ AbortedAreFreed /\ ToldOfTheirHosts

\* Nothing is said to the rest of NetSurf from the pump, which runs inside a
\* page's script, nor while a fetch is being started: only the poll finishes a
\* fetch whose host has no address.  A fetch that is aborted, at once or marked
\* until a walk comes by, is given to curl and told of nothing by any of them.
OnlyPollFinishes ==
  [][\A f \in Fetch :
       /\ fetch[f] # "failed" /\ fetch'[f] = "failed" => walk.by = "poll"
       /\ f \in abort => fetch'[f] \in {"waiting", "freed"} /\ heard'[f] = heard[f]]_allVars

\* With a slot for every host, a fetch that waits is in the end told, or
\* aborted.
EveryFetchEnds == \A f \in Fetch : fetch[f] = "waiting" ~> fetch[f] # "waiting"


-----------------------------------------------------------------------------
(* TLC's instance: the clock is about to wrap; a third fetch has the second*)
(* host to itself, the others wait on the first.                           *)

LastMs == Wrap - 1
HostOfThree == [f \in Fetch |-> IF f = 3 THEN 2 ELSE 1]
=============================================================================
