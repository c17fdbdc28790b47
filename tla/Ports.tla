------------------------------- MODULE Ports --------------------------------
(***************************************************************************)
(* MessageChannel and MessagePort: two ports entangled with one another,   *)
(* each with a queue that waits until the port is started, one task to a   *)
(* message, and ports handed on inside messages, which arrive as new ports *)
(* that take over the old one's peer and queue (vita/js/prelude.js).       *)
(* A page may do anything with any port it has ever held.                  *)
(***************************************************************************)
EXTENDS Naturals, Sequences, SequencesExt, FiniteSets

CONSTANTS MaxTasks,     \* tasks queued at once, beyond which a page starts no port again
          MaxPorts,     \* ports there are in all, the two of the channel and those made by a transfer
          MaxMessages   \* messages posted in all

VARIABLES peer, queue, started, \* of each port: _peer, _q, _started
          made,                 \* how many ports have been made
          held,                 \* the ports a page has its hands on
          tasks,                \* the ports whose _flush queued a task, in order
          running,              \* the port whose listeners a task is calling
          posted,               \* how many messages were posted
          heard                 \* what each port's listener was given, in order

vars == <<peer, queue, started, made, held, tasks, running, posted, heard>>

Ports == 1 .. MaxPorts
NoPort == 0

Init ==
  /\ peer = [p \in Ports |-> IF p < 3 THEN 3 - p ELSE NoPort]
  /\ queue = [p \in Ports |-> <<>>]
  /\ started = [p \in Ports |-> FALSE]
  /\ made = 2
  /\ held = {1, 2}
  /\ tasks = <<>>
  /\ running = NoPort
  /\ posted = 0
  /\ heard = [p \in Ports |-> <<>>]

\* _flush: a task of its own for the first message of a port that is started.
Flushed(p, q) == IF started[p] /\ q /= <<>> THEN <<p>> ELSE <<>>

-----------------------------------------------------------------------------
Start(p) ==
  /\ Len(tasks) < MaxTasks
  /\ started' = [started EXCEPT ![p] = TRUE]
  /\ tasks' = tasks \o IF queue[p] /= <<>> THEN <<p>> ELSE <<>>
  /\ UNCHANGED <<peer, queue, made, held, running, posted, heard>>

\* A message with nothing but data, whatever it is, numbered as it is posted.
Post(p) ==
  LET to == peer[p] IN
  /\ posted < MaxMessages
  /\ posted' = posted + 1
  /\ \/ /\ to = NoPort
        /\ UNCHANGED <<queue, tasks>>
     \/ /\ to /= NoPort
        /\ queue' = [queue EXCEPT ![to] = Append(@, [n |-> posted, port |-> NoPort])]
        /\ tasks' = tasks \o Flushed(to, queue'[to])
  /\ UNCHANGED <<peer, started, made, held, running, heard>>

\* portMove: a new port takes over the other one's peer and queue.
Entangled(o, new) ==
  LET moved == [peer EXCEPT ![new] = peer[o], ![o] = NoPort] IN
  IF peer[o] = NoPort THEN moved ELSE [moved EXCEPT ![peer[o]] = new]

\* A message that hands the port o on.  Who it goes to was looked up before
\* the port moved, so a port sent to itself goes to what is left of it.
PostPort(p, o) ==
  LET to == peer[p]
      new == made + 1 IN
  /\ to /= NoPort
  /\ posted < MaxMessages /\ new \in Ports
  /\ posted' = posted + 1
  /\ made' = new
  /\ peer' = Entangled(o, new)
  /\ queue' = LET moved == [queue EXCEPT ![new] = queue[o], ![o] = <<>>]
              IN [moved EXCEPT ![to] = Append(@, [n |-> posted, port |-> new])]
  /\ tasks' = tasks \o Flushed(to, queue'[to])
  /\ UNCHANGED <<started, held, running, heard>>

Close(p) ==
  /\ peer' = [q \in Ports |-> IF q = p \/ q = peer[p] THEN NoPort ELSE peer[q]]
  /\ queue' = [queue EXCEPT ![p] = <<>>]
  /\ UNCHANGED <<started, made, held, tasks, running, posted, heard>>

\* The task _flush queued: the first message there is by now, if any.  Its
\* listeners may do all of the above before the task ends.
Deliver ==
  /\ tasks /= <<>> /\ running = NoPort
  /\ tasks' = Tail(tasks)
  /\ LET p == Head(tasks) IN
     \/ /\ queue[p] = <<>>
        /\ UNCHANGED <<queue, running, held, heard>>
     \/ /\ queue[p] /= <<>>
        /\ queue' = [queue EXCEPT ![p] = Tail(@)]
        /\ running' = p
        /\ heard' = [heard EXCEPT ![p] = Append(@, Head(queue[p]).n)]
        /\ held' = held \cup ({Head(queue[p]).port} \ {NoPort})
  /\ UNCHANGED <<peer, started, made, posted>>

TaskEndsAlone ==
  /\ running /= NoPort
  /\ running' = NoPort
  /\ UNCHANGED <<peer, queue, started, made, held, tasks, posted, heard>>

\* The listeners are done, and the next message gets its task.
TaskEnds ==
  /\ running /= NoPort
  /\ running' = NoPort
  /\ tasks' = tasks \o Flushed(running, queue[running])
  /\ UNCHANGED <<peer, queue, started, made, held, posted, heard>>

Next ==
  \/ \E p \in held : Start(p)
  \/ \E p \in held : Post(p)
  \/ \E p, o \in held : PostPort(p, o)
  \/ \E p \in held : Close(p)
  \/ Deliver
  \/ TaskEnds

-----------------------------------------------------------------------------
(* "Each message is a task of its own ...: delivery stays asynchronous and *)
(* ordered", and a message sent before the other side listens is not lost. *)

\* A port's peer has that port for its peer, through any transfer and close:
\* no port posts to one that has gone over to another (portMove, close).
PeersAgree == \A p \in Ports : peer[p] /= NoPort => peer[peer[p]] = p

\* What waits at a port that is started has a task to come for it, even when
\* tasks found the queue carried off or emptied (_flush).
NothingLeftWaiting ==
  \A p \in Ports : started[p] /\ queue[p] /= <<>> => p \in ToSet(tasks) \cup {running}

\* No message is heard twice, whatever port its queue went over to, none is
\* heard that still waits, and one port hears messages in the order they
\* were posted (postMessage, portMove, the task of _flush).
HeardOnceInOrder ==
  /\ \A p \in Ports : \A i, j \in DOMAIN heard[p] : i < j => heard[p][i] < heard[p][j]
  /\ \A p, q \in Ports : p /= q => ToSet(heard[p]) \cap ToSet(heard[q]) = {}
  /\ \A p, q \in Ports : \A m \in ToSet(queue[q]) : m.n \notin ToSet(heard[p])

=============================================================================
