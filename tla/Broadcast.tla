----------------------------- MODULE Broadcast ------------------------------
(***************************************************************************)
(* BroadcastChannel (vita/js/prelude.js): what is posted on a channel goes *)
(* to every other open channel of its name, in a task for each, where it   *)
(* is looked at again whether the channel is open.                         *)
(***************************************************************************)
EXTENDS Naturals, Sequences, SequencesExt, FiniteSets, Functions

CONSTANTS Names, MaxChannels, MaxPosts

VARIABLES channels, \* the channels made, in order: their name, and whether closed
          open,     \* for each name the channels that are open, in order
          tasks,    \* the tasks queued: [to, n]
          posts,    \* what was posted: by whom, and to which channels it should go
          heard     \* what each channel was given, in order

vars == <<channels, open, tasks, posts, heard>>

Init ==
  /\ channels = <<>>
  /\ open = [n \in Names |-> <<>>]
  /\ tasks = <<>>
  /\ posts = <<>>
  /\ heard = [c \in 1 .. MaxChannels |-> <<>>]

New(n) ==
  /\ Len(channels) < MaxChannels
  /\ channels' = Append(channels, [name |-> n, closed |-> FALSE])
  /\ open' = [open EXCEPT ![n] = Append(@, Len(channels'))]
  /\ UNCHANGED <<tasks, posts, heard>>

Receivers(c) == SelectSeq(open[channels[c].name], LAMBDA d : d /= c)

Post(c) ==
  /\ ~channels[c].closed
  /\ Len(posts) < MaxPosts
  /\ posts' = Append(posts, [by |-> c, to |-> ToSet(Receivers(c))])
  /\ tasks' = tasks \o [i \in 1 .. Len(Receivers(c)) |-> [to |-> Receivers(c)[i], n |-> Len(posts')]]
  /\ UNCHANGED <<channels, open, heard>>

\* close keeps the channel's object, marked, and takes it out of its name's list.
Close(c) ==
  /\ channels' = [channels EXCEPT ![c].closed = TRUE]
  /\ open' = [open EXCEPT ![channels[c].name] = Remove(@, c)]
  /\ UNCHANGED <<tasks, posts, heard>>

DeliverAnyway ==
  /\ tasks /= <<>>
  /\ LET t == Head(tasks) IN heard' = [heard EXCEPT ![t.to] = Append(@, t.n)]
  /\ tasks' = Tail(tasks)
  /\ UNCHANGED <<channels, open, posts>>

\* The task: a channel closed since then is told nothing.
Deliver ==
  /\ tasks /= <<>>
  /\ LET t == Head(tasks) IN
     heard' = IF channels[t.to].closed THEN heard
              ELSE [heard EXCEPT ![t.to] = Append(@, t.n)]
  /\ tasks' = Tail(tasks)
  /\ UNCHANGED <<channels, open, posts>>

Next ==
  \/ \E n \in Names : New(n)
  \/ \E c \in DOMAIN channels : Post(c)
  \/ \E c \in DOMAIN channels : Close(c)
  \/ Deliver

-----------------------------------------------------------------------------
Expected(c) == SelectSeq([i \in 1 .. Len(posts) |-> i], LAMBDA i : c \in posts[i].to)

\* A channel hears what was posted under its name by others while it was open,
\* all of it and in order, for as long as it is not closed (postMessage).
EveryoneHears ==
  \A c \in DOMAIN channels :
    /\ IsPrefix(heard[c], Expected(c))
    /\ \A p \in ToSet(heard[c]) :
         posts[p].by /= c /\ channels[posts[p].by].name = channels[c].name
    /\ tasks = <<>> /\ ~channels[c].closed => heard[c] = Expected(c)

\* One that is closed hears nothing more, though tasks for it are still queued.
ClosedHearsNothing ==
  \A c \in DOMAIN channels : channels[c].closed => heard'[c] = heard[c]
=============================================================================
