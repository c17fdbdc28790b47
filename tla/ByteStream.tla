----------------------------- MODULE ByteStream -----------------------------
(***************************************************************************)
(* A ReadableStream of bytes (vita/js/streams.js): the queue holds views   *)
(* of bytes, a default reader takes them as they stand, and a BYOB reader  *)
(* hands in views of its own that are filled from the queue, in part when  *)
(* there is not enough.  A byte is its number in what the source makes.    *)
(***************************************************************************)
EXTENDS Integers, Sequences, SequencesExt, FiniteSetsExt

CONSTANTS
  HWM,         \* a highWaterMark that is not the default
  MaxBytes,    \* bound: how many bytes the source makes
  MaxView,     \* bound: the longest view, of the source's and of the reads'
  MaxReads     \* bound: how many reads are made

VARIABLES
  b,       \* the stream, its controller and its reader
  gave,    \* the source has given, closed or failed since it was asked
  made,    \* how many bytes the source has made
  lost     \* history: bytes that went with a cancel, an error or a released view

vars == <<b, gave, made, lost>>

Waiting == [is |-> "waiting", bytes |-> <<>>]
Done == [is |-> "done", bytes |-> <<>>]
Failed == [is |-> "failed", bytes |-> <<>>]
Released == [is |-> "released", bytes |-> <<>>]
Given(s) == [is |-> "bytes", bytes |-> s]

\* highWaterMark is 0 unless the page says otherwise.  waits: reads of a default reader; views: those
\* of a BYOB reader, each with the room it has and the bytes already in it.
Init ==
  /\ \E mark \in {0, HWM} :
     b = [state |-> "readable", hwm |-> mark, reader |-> "none", waits |-> <<>>, views |-> <<>>,
          queue |-> <<>>, closing |-> FALSE, started |-> FALSE,
          pulling |-> FALSE, again |-> FALSE, told |-> <<>>]
  /\ gave = FALSE /\ made = 0 /\ lost = {}

Elements(s) == {s[i] : i \in DOMAIN s}
Told(ids, answer) == [i \in DOMAIN b.told |-> IF i \in ids THEN answer ELSE b.told[i]]
Queued == FlattenSeq(b.queue)
InViews == UNION {Elements(b.views[i].has) : i \in DOMAIN b.views}

-----------------------------------------------------------------------------
ShouldPull(s) ==
  /\ s.state = "readable" /\ ~s.closing /\ s.started
  /\ s.waits # <<>> \/ s.views # <<>> \/ Len(FlattenSeq(s.queue)) < s.hwm

CallPull(s) ==
  IF ~ShouldPull(s) THEN s
  ELSE IF s.pulling THEN [s EXCEPT !.again = TRUE] ELSE [s EXCEPT !.pulling = TRUE]

\* The queue without its first n bytes: whole views go, one may be cut short.
Without(queue, n) ==
  LET Before(i) == Len(FlattenSeq(SubSeq(queue, 1, i - 1)))
      Cut(i) == SubSeq(queue[i], Max({n - Before(i), 0}) + 1, Len(queue[i]))
  IN  SelectSeq([i \in DOMAIN queue |-> Cut(i)], LAMBDA v : v # <<>>)

\* The first view is filled, and its read told; or filled in part, and waits.
FillFirst(s) ==
  IF s.views = <<>> \/ s.queue = <<>> THEN s
  ELSE LET view == Head(s.views)
           bytes == FlattenSeq(s.queue)
           n == Min({view.room - Len(view.has), Len(bytes)})
           has == view.has \o SubSeq(bytes, 1, n)
           rest == [s EXCEPT !.queue = Without(s.queue, n)]
       IN  IF Len(has) < view.room
           THEN [rest EXCEPT !.views[1].has = has]
           ELSE [rest EXCEPT !.views = Tail(s.views), !.told[view.read] = Given(has)]

\* The views are filled in turn, while there is something to fill them with.
FillViews(s) ==
  LET after[n \in 0..Len(s.views)] == IF n = 0 THEN s ELSE FillFirst(after[n - 1])
  IN  after[Len(s.views)]

CloseStream(s) ==
  IF s.state # "readable" THEN s
  ELSE [s EXCEPT !.state = "closed", !.waits = <<>>,
                 !.told = [i \in DOMAIN @ |->
                             IF i \in Elements(s.waits) THEN Done ELSE @[i]]]

\* mutant: what is queued waits for the next read
FillLater(s) == s

\* byteControllerFillFromQueue: at the end of a stream that is closing, each view
\* gets what is in it.
Fill(s) ==
  IF s.reader # "byob" THEN s
  ELSE LET f == FillViews(s)
           Of(i) == {j \in DOMAIN f.views : f.views[j].read = i}
           Answer(i) == LET has == f.views[CHOOSE j \in Of(i) : TRUE].has
                        IN  IF has = <<>> THEN Done ELSE Given(has)
       IN  IF f.closing /\ FlattenSeq(f.queue) = <<>>
           THEN CloseStream(
                  [f EXCEPT !.views = <<>>,
                     !.told = [i \in DOMAIN @ |-> IF Of(i) = {} THEN @[i] ELSE Answer(i)]])
           ELSE f

-----------------------------------------------------------------------------
(* The source.                                                             *)

MayGive == b.state = "readable" /\ ~b.closing
ItsTurn == b.pulling /\ ~gave

StartEnds == ~b.started /\ b' = CallPull([b EXCEPT !.started = TRUE])
             /\ UNCHANGED <<gave, made, lost>>

\* enqueue: a default read that waits takes the view as it stands.
Gives == \E n \in 1..MaxView :
  LET chunk == [i \in 1..n |-> made + i]
  IN  /\ MayGive /\ ItsTurn /\ made + n <= MaxBytes
      /\ made' = made + n /\ gave' = TRUE
      /\ b' = CallPull(
                IF b.reader = "default" /\ b.waits # <<>>
                THEN [b EXCEPT !.waits = Tail(@), !.told[Head(b.waits)] = Given(chunk)]
                ELSE Fill([b EXCEPT !.queue = Append(@, chunk)]))
      /\ UNCHANGED lost

\* close: with nothing queued the stream ends here, whatever the views hold.
Closes ==
  /\ MayGive /\ ItsTurn /\ gave' = TRUE
  /\ LET c == [b EXCEPT !.closing = TRUE]
     IN  b' = IF Queued = <<>> THEN CloseStream(c) ELSE c
  /\ UNCHANGED <<made, lost>>

Fails ==
  /\ b.state = "readable" /\ ItsTurn /\ gave' = TRUE
  /\ b' = [b EXCEPT !.state = "errored", !.queue = <<>>, !.waits = <<>>,
                    !.told = Told(Elements(b.waits), Failed)]
  /\ lost' = lost \cup Elements(Queued) /\ UNCHANGED made

PullEnds ==
  /\ b.pulling /\ (gave \/ ~MayGive)
  /\ LET idle == [b EXCEPT !.pulling = FALSE, !.again = FALSE]
     IN  b' = IF b.again THEN CallPull(idle) ELSE idle
  /\ gave' = FALSE /\ UNCHANGED <<made, lost>>

-----------------------------------------------------------------------------
(* The code that reads.                                                    *)

GetReader ==
  /\ b.reader = "none"
  /\ \E kind \in {"default", "byob"} : b' = [b EXCEPT !.reader = kind]
  /\ UNCHANGED <<gave, made, lost>>

NextRead == Len(b.told) + 1
MayRead == NextRead <= MaxReads
Answered(s, answer) == [s EXCEPT !.told = Append(@, answer)]

ReadChunk ==
  /\ b.reader = "default" /\ MayRead
  /\ b' = CASE b.state = "errored" -> Answered(b, Failed)
            [] b.state # "errored" /\ b.queue # <<>> ->
                 LET took == Answered([b EXCEPT !.queue = Tail(@)], Given(Head(b.queue)))
                 IN  IF took.closing /\ took.queue = <<>>
                     THEN CloseStream(took) ELSE CallPull(took)
            [] b.state = "closed" /\ b.queue = <<>> -> Answered(b, Done)
            [] OTHER -> CallPull([Answered(b, Waiting) EXCEPT !.waits = Append(@, NextRead)])
  /\ UNCHANGED <<gave, made, lost>>

ReadInto == \E n \in 1..MaxView :
  LET view == [read |-> NextRead, room |-> n, has |-> <<>>]
      f == Fill([Answered(b, Waiting) EXCEPT !.views = Append(@, view)])
      Still == {i \in DOMAIN f.views : f.views[i].read = NextRead}
  IN  /\ b.reader = "byob" /\ MayRead
      /\ b' = CASE b.state = "errored" -> Answered(b, Failed)
                [] b.state # "errored" /\ f.state = "closed" /\ Still # {} ->
                     [f EXCEPT !.views = SelectSeq(@, LAMBDA v : v.read # NextRead),
                               !.told[NextRead] = Done]
                [] OTHER -> CallPull(f)
      /\ UNCHANGED <<gave, made, lost>>

\* releaseLock: what the views had been filled with goes with them.
ReleaseLock ==
  /\ b.reader # "none"
  /\ b' = [b EXCEPT !.reader = "none", !.waits = <<>>, !.views = <<>>,
             !.told = Told(Elements(b.waits)
                             \cup {b.views[i].read : i \in DOMAIN b.views}, Released)]
  /\ lost' = lost \cup InViews /\ UNCHANGED <<gave, made>>

Cancel ==
  /\ b.state = "readable"
  /\ b' = [CloseStream(b) EXCEPT !.queue = <<>>]
  /\ lost' = lost \cup Elements(Queued) /\ UNCHANGED <<gave, made>>

Asked == Gives \/ Closes \/ Fails
Next == \/ StartEnds \/ Asked \/ PullEnds
        \/ GetReader \/ ReadChunk \/ ReadInto \/ ReleaseLock \/ Cancel
Spec == Init /\ [][Next]_vars

-----------------------------------------------------------------------------
\* The stream's parts have their types.
TypeOK ==
  /\ b.state \in {"readable", "closed", "errored"}
  /\ b.reader \in {"none", "default", "byob"}
  /\ b.waits \in Seq(1..MaxReads) /\ b.queue \in Seq(Seq(1..MaxBytes) \ {<<>>})
  /\ \A i \in DOMAIN b.views : b.views[i].read \in 1..MaxReads
                               /\ b.views[i].room \in 1..MaxView
                               /\ b.views[i].has \in Seq(1..MaxBytes)
  /\ made \in 0..MaxBytes /\ lost \subseteq 1..MaxBytes

\* However views of every length meet chunks of every length, in part or whole,
\* with two kinds of readers in turn: the bytes the reads got, those in views,
\* and those queued are the source's in its order, each once, none missing but the
\* lost.
BytesInOrder ==
  LET Got == SelectSeq(b.told, LAMBDA t : t.is = "bytes")
      all == FlattenSeq([i \in DOMAIN Got |-> Got[i].bytes])
               \o FlattenSeq([i \in DOMAIN b.views |-> b.views[i].has]) \o Queued
  IN  /\ \A i, j \in DOMAIN all : i < j => all[i] < all[j]
      /\ Elements(all) \cup lost = 1..made

\* A view waits only when no byte that could go into it is queued, and only the
\* first of those that wait is filled in part.
ViewsFirst ==
  /\ b.views # <<>> => b.queue = <<>>
  /\ \A i \in DOMAIN b.views :
       /\ Len(b.views[i].has) < b.views[i].room
       /\ i > 1 => b.views[i].has = <<>>

\* While a read of either kind waits on a stream that goes on, a source that
\* answers is being asked for more.
WaitIsAsked ==
  /\ b.waits # <<>> \/ b.views # <<>>
  /\ b.state = "readable" /\ b.started
  => b.pulling

=============================================================================
