------------------------------ MODULE Requests ------------------------------
(***************************************************************************)
(* XMLHttpRequest, and fetch() over it (vita/js/prelude.js).  What a       *)
(* request tells its page it tells from inside its own methods: handlers   *)
(* run between one step of open, send, abort or an answer and the next,    *)
(* and may call open, send and abort again.  The steps still to come are   *)
(* a stack, with those of the innermost call first.                        *)
(*                                                                         *)
(* The network answers a request in a task of its own or, told to abort    *)
(* it, never (__vitaFetch of qjs.c); a data: URL, and a request the        *)
(* network layer refuses, are answered by a task nothing takes back.       *)
(***************************************************************************)
EXTENDS Naturals, Sequences, FiniteSets

CONSTANTS MaxCalls   \* calls of open, send and abort a page makes in all

VARIABLES use,      \* "page", or "fetch": made by fetch(), whose signal alone aborts it
          ready,    \* readyState
          id,       \* _id: the send the network has, or 0
          network,  \* the sends the network is to answer
          local,    \* the sends a timeout of the prelude's is to answer
          todo,     \* the steps still to come
          calls, sends,
          ends,     \* how often loadend was heard
          promise,  \* what fetch() answered: "pending" or what settled it
          signal,   \* the signal given to fetch(): "none", or what promise was when it was aborted
          crossed   \* the page opened or aborted where the object cannot keep two requests apart

vars == <<use, ready, id, network, local, todo, calls, sends, ends, promise, signal, crossed>>

Set(s) == <<<<"state", s>>>>
Emit(e) == <<<<"emit", e>>>>

\* What done does with an answer, and with none.
Answered == Set(2) \o Set(3) \o Set(4) \o Emit("load") \o Emit("loadend")
NotAnswered(why) == Set(4) \o Emit(why) \o Emit("loadend")

\* The answers a request may have.
Answers == {Answered, NotAnswered("error"), NotAnswered("timeout")}

Init ==
  /\ use \in {"page", "fetch"}
  /\ ready = 0 /\ id = 0
  /\ network = {} /\ local = {}
  /\ todo = <<>>
  /\ calls = 0 /\ sends = 0 /\ ends = 0
  /\ promise = "pending"
  /\ signal = "none"
  /\ crossed = FALSE

-----------------------------------------------------------------------------
\* What a page may call, from a task or from the handler of the event just
\* told; fetch() opens and sends once and answers the events itself.
Called == calls < MaxCalls /\ calls' = calls + 1

Busy == network /= {} \/ local /= {} \/ todo /= <<>>

Open ==
  /\ use = "page" \/ calls = 0
  /\ Called
  /\ todo' = Set(1) \o todo
  /\ crossed' = (crossed \/ Busy)
  /\ UNCHANGED <<use, ready, id, network, local, sends, ends, promise, signal>>

Send ==
  /\ use = "page" \/ (calls = 1 /\ todo = <<>> /\ signal = "none")
  /\ Called
  /\ ready = 1
  /\ todo' = Emit("loadstart") \o <<<<"fetch">>>> \o todo
  /\ crossed' = (crossed \/ Busy)
  /\ UNCHANGED <<use, ready, id, network, local, sends, ends, promise, signal>>

Settle(how) == promise' = IF promise = "pending" THEN how ELSE promise

AbortSteps ==
  (IF ready \notin {0, 4} THEN Set(4) \o Emit("abort") \o Emit("loadend") ELSE <<>>)
    \o <<<<"reset", 0>>>> \o todo

\* abort: the network is told, and the page, unless there is nothing to abort.
AbortNow ==
  /\ id' = 0
  /\ network' = network \ {id}
  /\ todo' = AbortSteps

Abort ==
  /\ use = "page"
  /\ Called
  /\ AbortNow
  /\ crossed' = (crossed \/ todo /= <<>> \/ local /= {} \/ (ready = 1 /\ id = 0))
  /\ UNCHANGED <<use, ready, local, sends, ends, promise, signal>>

\* The signal given to fetch(): aborted before it sends, it is never sent.
SignalAborts ==
  /\ use = "fetch" /\ calls > 0 /\ signal = "none" /\ todo = <<>>
  /\ signal' = promise
  /\ IF sends = 0
       THEN Settle("abort") /\ UNCHANGED <<id, network, todo>>
       ELSE AbortNow /\ UNCHANGED promise
  /\ UNCHANGED <<use, ready, local, calls, sends, ends, crossed>>

-----------------------------------------------------------------------------
SettlesNoTimeout == [e \in {"load", "error", "abort"} |->
                       IF e = "load" THEN "response" ELSE IF e = "abort" THEN "abort" ELSE "failure"]

\* The events fetch() listens for, and what it makes of them.
Settles == [e \in {"load", "error", "timeout", "abort"} |->
              IF e = "load" THEN "response" ELSE IF e = "abort" THEN "abort" ELSE "failure"]

\* _set, whose readystatechange has handlers too, and abort's own last step.
StepSet ==
  /\ todo /= <<>> /\ Head(todo)[1] \in {"state", "reset"}
  /\ ready' = Head(todo)[2]
  /\ todo' = Tail(todo)
  /\ UNCHANGED <<use, id, network, local, calls, sends, ends, promise, signal, crossed>>

StepEmit ==
  /\ todo /= <<>> /\ Head(todo)[1] = "emit"
  /\ LET e == Head(todo)[2] IN
     /\ ends' = IF e = "loadend" THEN ends + 1 ELSE ends
     /\ IF e \in DOMAIN Settles THEN Settle(Settles[e]) ELSE UNCHANGED promise
  /\ todo' = Tail(todo)
  /\ UNCHANGED <<use, ready, id, network, local, calls, sends, signal, crossed>>

\* The end of send: the network has it, or a task answers for it.
StepFetch ==
  /\ todo /= <<>> /\ Head(todo)[1] = "fetch"
  /\ sends' = sends + 1
  /\ \/ id' = sends' /\ network' = network \cup {sends'} /\ UNCHANGED local
     \/ local' = local \cup {sends'} /\ UNCHANGED <<id, network>>
  /\ todo' = Tail(todo)
  /\ UNCHANGED <<use, ready, calls, ends, promise, signal, crossed>>

\* done, in a task, for whichever send it is.
NetworkAnswers ==
  /\ todo = <<>>
  /\ \E s \in network, a \in Answers : network' = network \ {s} /\ todo' = a
  /\ id' = 0
  /\ UNCHANGED <<use, ready, local, calls, sends, ends, promise, signal, crossed>>

LocalAnswers ==
  /\ todo = <<>>
  /\ \E s \in local, a \in {Answered, NotAnswered("error")} : local' = local \ {s} /\ todo' = a
  /\ id' = 0
  /\ UNCHANGED <<use, ready, network, calls, sends, ends, promise, signal, crossed>>

Next ==
  \/ Open
  \/ Send
  \/ Abort
  \/ SignalAborts
  \/ StepSet
  \/ StepEmit
  \/ StepFetch
  \/ NetworkAnswers
  \/ LocalAnswers

-----------------------------------------------------------------------------
\* Every send hears one loadend in the end, whether it was answered, failed,
\* timed out or was aborted, however often the object is used again, as long
\* as it is opened between its requests and aborted between the events of one
\* the network has (send, done, abort).
OneEndEach ==
  use = "page" /\ ~crossed /\ ~Busy => ends = sends

\* What fetch() returned is settled once nothing is to come of its request.
EveryFetchSettles ==
  use = "fetch" /\ ~Busy /\ (sends = 1 \/ signal /= "none")
    => promise /= "pending"

\* A fetch whose signal is aborted while it is pending can end in that only,
\* though a task may still be coming to answer it, and leaves nothing with the
\* network (fetch, abort).
AbortIsLast ==
  signal = "pending" => promise \in {"pending", "abort"} /\ network = {}
=============================================================================
