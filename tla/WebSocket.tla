----------------------------- MODULE WebSocket ------------------------------
(***************************************************************************)
(* A page's WebSocket connections: js/websocket.c, the holding back of     *)
(* their events while the page is frozen (js/qjs.c), and the state a       *)
(* WebSocket object keeps in the page (js/prelude.js).  There is one       *)
(* thread.  It looks at every connection from the scheduler, and calls the *)
(* page back in the middle of that look; the page's handlers call          *)
(* websocket.c in turn.  `stack' is what is left to do, innermost first.   *)
(* A connection's id is also its age, so the list, newest first, is walked *)
(* from the greatest id down.                                              *)
(***************************************************************************)
EXTENDS Integers, Sequences

CONSTANTS
  MaxId,    \* bound: how many connections are opened
  MaxSend,  \* bound: how many messages the page sends on each
  MaxRecv   \* bound: how many each one's server sends

Id == 1..MaxId

ASSUME SocketAssumption ==
  MaxId \in Nat /\ MaxSend \in [Id -> Nat] /\ MaxRecv \in [Id -> Nat]

CloseFrame == 0    \* on the wire, among the messages 1, 2, ...

VARIABLES
  sock,       \* struct vws of each connection; wire is a history: what it took
  made,       \* next_id - 1
  scheduled,  \* whether a look is asked for
  page,       \* the page's thread, and its WebSocket objects' readyState
  heard,      \* history: the events the page was called for
  stack       \* what the thread is in the middle of

looks == <<made, scheduled>>
ears == <<page, heard>>
vars == <<sock, looks, ears, stack>>

NotYet == [state |-> "none", waiting |-> FALSE, out |-> <<>>, wire |-> <<>>,
           sent |-> 0, got |-> 0, late |-> FALSE]

Init ==
  /\ sock = [i \in Id |-> NotYet]
  /\ made = 0 /\ scheduled = FALSE
  /\ page = [closed |-> FALSE, frozen |-> FALSE, held |-> <<>>, asked |-> FALSE,
             ready |-> [i \in Id |-> 0]]
  /\ heard = [i \in Id |-> <<>>]
  /\ stack = <<>>

State(i) == sock[i].state
Live(i) == State(i) \in {"connecting", "open", "closing"}     \* find
Listed(i) == State(i) \notin {"none", "freed"}

Frame(at, i) == [at |-> at, id |-> i]
Idle == stack = <<>>
In(at) == stack # <<>> /\ Head(stack).at = at
Here == Head(stack).id
Under == Tail(stack)
Then(at, i) == <<Frame(at, i)>> \o Under
GoOn(at, i) == stack' = Then(at, i)

-----------------------------------------------------------------------------
(* Telling the page.                                                       *)

Event(ev, n) == [ev |-> ev, n |-> n]

\* __vitaWsEvent: the events the object passes on, and its state after them.
Fires(i, e) ==
  /\ page.ready[i] # 3
  /\ e.ev = "open" => page.ready[i] = 0
  /\ e.ev = "message" => page.ready[i] = 1
ReadyAfter(i, e) ==
  CASE Fires(i, e) /\ e.ev = "open" -> 1
    [] Fires(i, e) /\ e.ev = "close" -> 3
    [] OTHER -> page.ready[i]

\* ws_deliver: the handlers run, and after them what is in `under'.
Deliver(i, e, held, under) ==
  /\ page' = [page EXCEPT !.ready[i] = ReadyAfter(i, e), !.held = held]
  /\ heard' = [heard EXCEPT ![i] = Append(@, e)]
  /\ stack' = IF Fires(i, e) THEN <<Frame("script", 0)>> \o under ELSE under

\* ws_hold, of which a message that does not fit is let go.
Hold(i, e, under) ==
  /\ \/ page' = [page EXCEPT !.held = Append(@, [id |-> i, event |-> e]), !.asked = TRUE]
     \/ e.ev = "message" /\ UNCHANGED page
  /\ stack' = under /\ UNCHANGED heard

\* Mutant: an event of a page that may run again overtakes what is held.
HeldWhileFrozen == page.frozen

HeldBack == page.held # <<>> \/ page.frozen

\* ws_event; the thread goes on with `under'.
Tell(i, e, under) ==
  \/ page.closed /\ stack' = under /\ UNCHANGED ears
  \/ ~page.closed /\ HeldBack /\ Hold(i, e, under)
  \/ ~page.closed /\ ~HeldBack /\ Deliver(i, e, page.held, under)

Finished == [NotYet EXCEPT !.state = "done"]

\* closed
Closed(i, under) ==
  /\ sock' = [sock EXCEPT ![i] = Finished]
  /\ Tell(i, Event("close", 0), under)

\* failed: the error is told, and what is left to do is found after it.
Failed(i, under) == Tell(i, Event("error", 0), <<Frame("failed", i)>> \o under)

FailedGoesOn ==
  /\ In("failed")
  /\ \/ State(Here) # "done" /\ Closed(Here, Under)
     \/ State(Here) = "done" /\ stack' = Under /\ UNCHANGED <<sock, ears>>
  /\ UNCHANGED looks

-----------------------------------------------------------------------------
(* Handing frames to a connection.                                         *)

\* flush_out_as: the first k of the messages queued are taken.
Flush(i, k, s, more) ==
  sock' = [sock EXCEPT ![i] = [s EXCEPT !.out = SubSeq(@, k + 1, Len(@)),
                                        !.wire = @ \o SubSeq(s.out, 1, k) \o more]]
Taken(i) == 0..Len(sock[i].out)

\* send_close_frame: it may not be taken, and nobody asks.  A connection that is
\* taken down with it is not looked at after that.
MaybeClose == {<<>>, <<CloseFrame>>}

-----------------------------------------------------------------------------
(* The page's scripts, and what becomes of the page.                       *)

PageRuns == In("script") /\ ~page.closed

RunScript ==
  /\ Idle /\ ~page.closed /\ ~page.frozen
  /\ stack' = <<Frame("script", 0)>>
  /\ UNCHANGED <<sock, looks, ears>>

ScriptEnds ==
  /\ In("script") /\ stack' = Under
  /\ UNCHANGED <<sock, looks, ears>>

\* vws_open; the host's address may be known at once.
Open ==
  /\ PageRuns /\ made < MaxId
  /\ made' = made + 1
  /\ \E w \in BOOLEAN :
       sock' = [sock EXCEPT ![made'] = [NotYet EXCEPT !.state = "connecting", !.waiting = w]]
  /\ scheduled' = TRUE
  /\ UNCHANGED <<ears, stack>>

Queued(s) == [s EXCEPT !.out = Append(@, s.sent + 1), !.sent = @ + 1]

\* vws_send, which leaves a failure for the next look.
Send(i) ==
  /\ PageRuns /\ page.ready[i] = 1 /\ State(i) = "open" /\ sock[i].sent < MaxSend[i]
  /\ \E k \in 0..(IF sock[i].out = <<>> THEN 1 ELSE 0) : Flush(i, k, Queued(sock[i]), <<>>)
  /\ scheduled' = TRUE
  /\ UNCHANGED <<made, ears, stack>>

\* The object's close, which goes on in vws_close, once.
Close(i) ==
  /\ PageRuns /\ i <= made /\ page.ready[i] < 2
  /\ page' = [page EXCEPT !.ready[i] = 2]
  /\ stack' = <<Frame("close", i)>> \o stack
  /\ UNCHANGED <<sock, looks, heard>>

CloseEarly ==
  /\ In("close") /\ State(Here) = "connecting"
  /\ Failed(Here, Under)
  /\ UNCHANGED <<sock, looks>>

CloseNothing ==
  /\ In("close") /\ State(Here) \notin {"connecting", "open"}
  /\ stack' = Under
  /\ UNCHANGED <<sock, looks, ears>>

CloseOpen ==
  /\ In("close") /\ State(Here) = "open"
  /\ \E k \in Taken(Here), c \in MaybeClose :
       Flush(Here, k, [sock[Here] EXCEPT !.state = "closing"], c)
  /\ scheduled' = TRUE /\ stack' = Under
  /\ UNCHANGED <<made, ears>>

CloseFails ==
  /\ In("close") /\ State(Here) = "open" /\ sock[Here].out # <<>>
  /\ Failed(Here, Under)
  /\ UNCHANGED <<sock, looks>>

\* js_closethread: vws_drop_owner, and what is held goes too.
ClosePage ==
  /\ Idle \/ In("script")
  /\ ~page.closed
  /\ page' = [page EXCEPT !.closed = TRUE, !.held = <<>>, !.asked = FALSE]
  /\ sock' = [i \in Id |-> IF Live(i) THEN Finished ELSE sock[i]]
  /\ scheduled' = (scheduled \/ \E i \in Id : Listed(i))
  /\ UNCHANGED <<made, heard, stack>>

\* The page is frozen while the one that replaces it loads, and may stay.
Freeze ==
  /\ Idle /\ ~page.closed /\ ~page.frozen
  /\ page' = [page EXCEPT !.frozen = TRUE]
  /\ UNCHANGED <<sock, looks, heard, stack>>

Thaw ==
  /\ Idle /\ page.frozen
  /\ page' = [page EXCEPT !.frozen = FALSE]
  /\ UNCHANGED <<sock, looks, heard, stack>>

\* ws_held_cb
HeldDue ==
  /\ Idle /\ page.asked
  /\ page' = [page EXCEPT !.asked = FALSE]
  /\ stack' = <<Frame("held", 0)>>
  /\ UNCHANGED <<sock, looks, heard>>

HeldGoesOn ==
  /\ In("held")
  /\ \/ page.held = <<>> /\ stack' = Under /\ UNCHANGED ears
     \/ /\ page.held # <<>> /\ page.frozen
        /\ page' = [page EXCEPT !.asked = TRUE] /\ stack' = Under /\ UNCHANGED heard
     \/ /\ page.held # <<>> /\ ~page.frozen
        /\ LET h == Head(page.held) IN Deliver(h.id, h.event, Tail(page.held), stack)
  /\ UNCHANGED <<sock, looks>>

-----------------------------------------------------------------------------
(* poll_cb: the look at every connection.                                  *)

\* The walk is at Here; the next of S on the list.
NextOf(S) == {i \in S : i < Here /\ \A j \in S : j < Here => j <= i}

Waiting == {i \in Id : State(i) = "connecting" /\ sock[i].waiting}
Reading == {i \in Id : State(i) \in {"open", "closing"}}

PollDue ==
  /\ Idle /\ scheduled
  /\ scheduled' = FALSE
  /\ stack' = <<Frame("resolve", MaxId + 1)>>
  /\ UNCHANGED <<sock, made, ears>>

\* poll_connecting: first those that wait for an address, ...
ResolvePending(i) ==
  /\ In("resolve") /\ i \in NextOf(Waiting)
  /\ GoOn("resolve", i)
  /\ UNCHANGED <<sock, looks, ears>>

Resolved(i) ==
  /\ In("resolve") /\ i \in NextOf(Waiting)
  /\ \/ sock' = [sock EXCEPT ![i].waiting = FALSE] /\ GoOn("resolve", i) /\ UNCHANGED ears
     \/ Failed(i, Then("resolve", i)) /\ UNCHANGED sock
  /\ UNCHANGED looks

ResolveEnds ==
  /\ In("resolve") /\ NextOf(Waiting) = {}
  /\ GoOn("connect", 0)
  /\ UNCHANGED <<sock, looks, ears>>

\* ... then those curl is done with.
Connected(i) ==
  /\ In("connect") /\ State(i) = "connecting" /\ ~sock[i].waiting
  /\ \/ sock' = [sock EXCEPT ![i].state = "open"] /\ Tell(i, Event("open", 0), stack)
     \/ Failed(i, stack) /\ UNCHANGED sock
  /\ UNCHANGED looks

ConnectEnds ==
  /\ In("connect") /\ GoOn("read", MaxId + 1)
  /\ UNCHANGED <<sock, looks, ears>>

\* poll_open: what is queued is sent, ...
SendQueued(i) ==
  /\ In("read") /\ i \in NextOf(Reading)
  /\ \E k \in Taken(i) : Flush(i, k, sock[i], <<>>)
  /\ GoOn("receive", i)
  /\ UNCHANGED <<looks, ears>>

SendFails(i) ==
  /\ In("read") /\ i \in NextOf(Reading) /\ sock[i].out # <<>>
  /\ Failed(i, Then("read", i))
  /\ UNCHANGED <<sock, looks>>

\* ... and what has arrived is read, a message at a time, while there is time.
Receive ==
  /\ In("receive") /\ Here \in Reading /\ sock[Here].got < MaxRecv[Here]
  /\ sock' = [sock EXCEPT ![Here].got = @ + 1]
  /\ \E next \in {"receive", "late"} :
       IF State(Here) = "open"
         THEN Tell(Here, Event("message", sock'[Here].got), Then(next, Here))
         ELSE GoOn(next, Here) /\ UNCHANGED ears
  /\ UNCHANGED looks

\* The handlers of a message may have taken the connection down.
ReceiveGone ==
  /\ In("receive") /\ Here \notin Reading
  /\ GoOn("read", Here)
  /\ UNCHANGED <<sock, looks, ears>>

ReceiveEnds ==
  /\ In("receive") /\ Here \in Reading
  /\ GoOn("late", Here)
  /\ UNCHANGED <<sock, looks, ears>>

\* The server's close, which is answered; a message too big; the end of it.
ServerCloses ==
  /\ In("receive") /\ Here \in Reading
  /\ Closed(Here, Then("read", Here))
  /\ UNCHANGED looks

ReceiveFails ==
  /\ In("receive") /\ Here \in Reading
  /\ Failed(Here, Then("read", Here))
  /\ UNCHANGED <<sock, looks>>

\* Mutant: a close waits for the server however long it takes.
NeverOver(i) == FALSE

Overdue(i) == State(i) = "closing" /\ sock[i].late

GiveUpClosing ==
  /\ In("late")
  /\ \/ Overdue(Here) /\ Closed(Here, Then("read", Here))
     \/ ~Overdue(Here) /\ GoOn("read", Here) /\ UNCHANGED <<sock, ears>>
  /\ UNCHANGED looks

\* What is done is freed, and another look asked for if there is anything left.
LookAgain == scheduled \/ \E i \in Id : Live(i)
Done(i) == State(i) = "done"

PollEnds ==
  /\ In("read") /\ NextOf(Reading) = {}
  /\ sock' = [i \in Id |-> IF Done(i) THEN [sock[i] EXCEPT !.state = "freed"] ELSE sock[i]]
  /\ scheduled' = LookAgain
  /\ stack' = Under
  /\ UNCHANGED <<made, ears>>

\* CLOSE_WAIT_MS has passed.
TimePasses(i) ==
  /\ State(i) = "closing" /\ ~sock[i].late
  /\ sock' = [sock EXCEPT ![i].late = TRUE]
  /\ UNCHANGED <<looks, ears, stack>>

-----------------------------------------------------------------------------

PollStep ==
  \/ ResolveEnds \/ ConnectEnds \/ FailedGoesOn \/ Receive \/ ReceiveGone \/ ReceiveEnds
  \/ ServerCloses \/ ReceiveFails \/ GiveUpClosing \/ PollEnds
  \/ \E i \in Id : ResolvePending(i) \/ SendQueued(i) \/ SendFails(i)

Next ==
  \/ RunScript \/ ScriptEnds \/ Open \/ \E i \in Id : Send(i) \/ Close(i)
  \/ CloseEarly \/ CloseNothing \/ CloseOpen \/ CloseFails
  \/ ClosePage \/ Freeze \/ Thaw \/ HeldDue \/ HeldGoesOn
  \/ PollDue \/ PollStep \/ \E i \in Id : Resolved(i) \/ Connected(i) \/ TimePasses(i)

Spec == Init /\ [][Next]_vars

\* The scheduler runs what is asked of it; scripts end, and time passes; a load
\* that freezes the page ends, and not always between two looks at whether it has.
Fairness ==
  /\ SF_vars(PollDue) /\ WF_vars(PollStep)
  /\ SF_vars(HeldDue /\ ~page.frozen) /\ WF_vars(HeldGoesOn) /\ SF_vars(Thaw)
  /\ WF_vars(ScriptEnds) /\ WF_vars(CloseEarly \/ CloseNothing \/ CloseOpen)
  /\ WF_vars(\E i \in Id : TimePasses(i))

FairSpec == Spec /\ Fairness

-----------------------------------------------------------------------------

EventRec == [ev : {"open", "message", "error", "close"}, n : Nat]

TypeOK ==
  /\ sock \in [Id -> [state : {"none", "connecting", "open", "closing", "done", "freed"},
                      waiting : BOOLEAN, out : Seq(Nat), wire : Seq(Nat), sent : Nat, got : Nat, late : BOOLEAN]]
  /\ \A i \in Id : State(i) = "none" <=> i > made
  /\ made \in 0..MaxId /\ scheduled \in BOOLEAN
  /\ page \in [closed : BOOLEAN, frozen : BOOLEAN, asked : BOOLEAN, ready : [Id -> 0..3],
               held : Seq([id : Id, event : EventRec])]
  /\ heard \in [Id -> Seq(EventRec)]
  /\ stack \in Seq([at : {"script", "close", "failed", "held", "resolve", "connect", "read",
                          "receive", "late"}, id : 0..MaxId+1])

\* Whatever is held back and whatever handlers do in between, a page hears a
\* connection's events in order: open first, messages as they came, none after an
\* error, and its close once, with nothing after it.
HeardInOrder ==
  \A i \in Id : \A k \in DOMAIN heard[i] : \A j \in 1..k-1 :
    LET before == heard[i][j]
        after == heard[i][k]
    IN  /\ before.ev # "close" /\ after.ev # "open"
        /\ after.ev = "message" =>
             before.ev = "open" \/ (before.ev = "message" /\ before.n < after.n)

\* What a page sends is taken by the connection in order, or still queued for it;
\* a close frame comes once, wherever the queue was when the page closed.
Whole(n) == [k \in 1..n |-> k]
ClosedAfter(p, n) ==
  [k \in 1..n+1 |-> IF k <= p THEN k ELSE IF k = p + 1 THEN CloseFrame ELSE k - 1]
SentWhole(s) ==
  LET n == s.sent - Len(s.out)
  IN  /\ s.out = [k \in 1..Len(s.out) |-> n + k]
      /\ \/ s.wire = Whole(n)
         \/ s.state = "closing" /\ \E p \in 0..n : s.wire = ClosedAfter(p, n)
NothingLost == \A i \in Id : State(i) \in {"open", "closing"} => SentWhole(sock[i])

\* While there is a connection a look at it is asked for, or under way: those
\* opened by the handlers of the last look too.
PollAsked ==
  (\E i \in Id : Listed(i)) =>
    scheduled \/ (stack # <<>> /\ stack[Len(stack)].at \in {"resolve", "connect", "read", "receive", "late"})

\* So a connection is sound: what happens is looked for, and what is sent and
\* heard is whole and in order.
SocketsSound == TypeOK /\ HeardInOrder /\ NothingLost /\ PollAsked

\* A close is heard of in the end, whether the server answers it or not.
EveryCloseIsHeard ==
  \A i \in Id : (State(i) = "closing") ~>
    (page.closed \/ \E k \in DOMAIN heard[i] : heard[i][k].ev = "close")

\* "Start the closing handshake": once nothing is queued before it, the close
\* frame was sent.
HandshakeStarts ==
  \A i \in Id : State(i) = "closing" /\ sock[i].out = <<>> =>
    \E k \in DOMAIN sock[i].wire : sock[i].wire[k] = CloseFrame
=============================================================================
