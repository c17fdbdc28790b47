--------------------------- MODULE StreamRecords ---------------------------
(***************************************************************************)
(* The algorithms of vita/js/streams.js as operators on records: a         *)
(* ReadableStream with its default controller and reader, and a            *)
(* WritableStream and its writer.  A chunk is its number, in the order the *)
(* source makes them; the reads of a stream, and its calls of write and    *)
(* close, are numbered in the order they are made, and `told' is what the  *)
(* promise of each is settled with.                                        *)
(*                                                                         *)
(* Calling the source's pull is the last thing any of these does: `pulling'*)
(* says it has been called, and what it does before it returns comes next, as*)
(* what it does later does.  `flight' is how far the first job in the queue*)
(* is: asked of the promise of start, in the sink's hands, or not begun.   *)
(***************************************************************************)
EXTENDS Integers, Sequences

Waiting == [is |-> "waiting", chunk |-> 0]
Done == [is |-> "done", chunk |-> 0]
Failed == [is |-> "failed", chunk |-> 0]      \* rejected with the stored error
Released == [is |-> "released", chunk |-> 0]  \* rejected: the reader was released
Given(n) == [is |-> "chunk", chunk |-> n]

\* new ReadableStream(source, {highWaterMark: hwm}), its start still to end.
Fresh(hwm) ==
  [state |-> "readable", locked |-> FALSE, waits |-> <<>>, closed |-> "pending",
   queue |-> <<>>, hwm |-> hwm, closing |-> FALSE,
   started |-> FALSE, pulling |-> FALSE, again |-> FALSE, told |-> <<>>]

Settled(r, ids, answer) ==
  [i \in DOMAIN r.told |-> IF i \in ids THEN answer ELSE r.told[i]]
Waiters(r) == {r.waits[i] : i \in DOMAIN r.waits}

-----------------------------------------------------------------------------
(* Asking the source for more.                                             *)

Desired(r) == CASE r.state = "readable" -> r.hwm - Len(r.queue)
                [] r.state = "closed" -> 0
                [] OTHER -> -1

ShouldPull(r) ==
  /\ r.state = "readable" /\ ~r.closing /\ r.started
  /\ r.waits # <<>> \/ Desired(r) > 0

CallPull(r) ==
  IF ~ShouldPull(r) THEN r
  ELSE IF r.pulling THEN [r EXCEPT !.again = TRUE] ELSE [r EXCEPT !.pulling = TRUE]

\* The promise of pull is fulfilled.
PullEnded(r) ==
  LET idle == [r EXCEPT !.pulling = FALSE, !.again = FALSE]
  IN  IF r.again THEN CallPull(idle) ELSE idle

-----------------------------------------------------------------------------
(* How a stream ends.                                                      *)

StreamClose(r) ==
  IF r.state # "readable" THEN r
  ELSE [r EXCEPT !.state = "closed", !.waits = <<>>,
                 !.told = Settled(r, Waiters(r), Done),
                 !.closed = IF r.locked THEN "resolved" ELSE @]

ControllerError(r) ==
  IF r.state # "readable" THEN r
  ELSE [r EXCEPT !.state = "errored", !.queue = <<>>, !.waits = <<>>,
                 !.told = Settled(r, Waiters(r), Failed),
                 !.closed = IF r.locked THEN "rejected" ELSE @]

StreamCancel(r) ==
  IF r.state # "readable" THEN r
  ELSE [StreamClose(r) EXCEPT !.queue = <<>>]

-----------------------------------------------------------------------------
(* The controller, which the source holds.                                 *)

MayGive(r) == r.state = "readable" /\ ~r.closing

Enqueue(r, chunk) ==
  CallPull(IF r.waits # <<>>
           THEN [r EXCEPT !.waits = Tail(@),
                          !.told = Settled(r, {Head(r.waits)}, Given(chunk))]
           ELSE [r EXCEPT !.queue = Append(@, chunk)])

ControllerClose(r) ==
  LET c == [r EXCEPT !.closing = TRUE]
  IN  IF r.queue = <<>> THEN StreamClose(c) ELSE c

Started(r) == CallPull([r EXCEPT !.started = TRUE])

-----------------------------------------------------------------------------
(* The reader.                                                             *)

Attach(r) ==
  [r EXCEPT !.locked = TRUE,
            !.closed = CASE r.state = "readable" -> "pending"
                         [] r.state = "closed" -> "resolved"
                         [] OTHER -> "rejected"]

\* mutant: the reads that wait still do
ReleaseKeeping(r) == [r EXCEPT !.locked = FALSE, !.closed = "rejected"]

\* readerRelease; `closed' is then a promise of its own, already rejected.
Release(r) ==
  [r EXCEPT !.locked = FALSE, !.closed = "rejected", !.waits = <<>>,
            !.told = Settled(r, Waiters(r), Released)]

ReadAnswered(r, answer) == [r EXCEPT !.told = Append(@, answer)]

ReadQueued(r) ==
  LET head == Head(r.queue)
      took == ReadAnswered([r EXCEPT !.queue = Tail(@)], Given(head))
  IN  IF took.closing /\ took.queue = <<>> THEN StreamClose(took)
      ELSE CallPull(took)

Read(r) ==
  CASE r.state = "errored" -> ReadAnswered(r, Failed)
    [] r.state # "errored" /\ r.queue # <<>> -> ReadQueued(r)
    [] r.state = "closed" /\ r.queue = <<>> -> ReadAnswered(r, Done)
    [] OTHER -> CallPull([ReadAnswered(r, Waiting)
                            EXCEPT !.waits = Append(@, Len(r.told) + 1)])

Reads(r) == DOMAIN r.told
Waits(r, i) == r.told[i].is = "waiting"
Chunks(r) == SelectSeq(r.told, LAMBDA t : t.is = "chunk")

-----------------------------------------------------------------------------
\* new WritableStream(sink, {highWaterMark: hwm}); taken and over are histories:
\* the chunks the sink was given, and whether its close was called.
Blank(hwm) ==
  [state |-> "writable", start |-> "pending", locked |-> FALSE, queue |-> <<>>,
   size |-> 0, hwm |-> hwm, flight |-> "no", ready |-> "none", closed |-> "none",
   told |-> <<>>, taken |-> <<>>, over |-> FALSE]

Jobs(w) == {w.queue[i].call : i \in DOMAIN w.queue}

\* mutant: a call that was dropped is told it is done
WRejectedAsDone(w, calls) ==
  [i \in DOMAIN w.told |->
     IF i \in calls /\ w.told[i] = "pending" THEN "resolved" ELSE w.told[i]]

WRejected(w, calls) ==
  [i \in DOMAIN w.told |->
     IF i \in calls /\ w.told[i] = "pending" THEN "rejected" ELSE w.told[i]]

Room(w) == w.hwm - w.size      \* writableDesiredSize of one that is writable

-----------------------------------------------------------------------------
\* writableError: everything queued is rejected, the job in flight with it; what
\* that job was doing goes on.
WritableError(w) ==
  IF w.state = "errored" THEN w
  ELSE [w EXCEPT !.state = "errored", !.queue = <<>>, !.size = 0,
                 !.told = WRejected(w, Jobs(w)),
                 !.ready = IF w.locked /\ @ = "pending" THEN "rejected" ELSE @,
                 !.closed = IF w.locked /\ @ = "pending" THEN "rejected" ELSE @]

Advance(w) ==
  IF w.flight # "no" \/ w.state = "errored" \/ w.queue = <<>> THEN w
  ELSE [w EXCEPT !.flight = "asked"]

\* writableUpdateReady: a new promise when there is no room left, the old one
\* fulfilled when there is some again.
UpdateReady(w) ==
  IF ~w.locked \/ w.state # "writable" THEN w
  ELSE [w EXCEPT !.ready = IF Room(w) > 0 THEN (IF @ = "pending" THEN "resolved" ELSE @)
                           ELSE (IF @ # "pending" THEN "pending" ELSE @)]

-----------------------------------------------------------------------------
(* What the page calls.                                                    *)

Call(w, answer) == [w EXCEPT !.told = Append(@, answer)]
Push(w, close, chunk) ==
  [Call(w, "pending") EXCEPT
     !.queue = Append(@, [call |-> Len(w.told) + 1, close |-> close, chunk |-> chunk])]

Write(w, chunk) ==
  IF w.state # "writable" THEN Call(w, "rejected")
  ELSE LET p == Push(w, FALSE, chunk)
       IN  Advance(UpdateReady([p EXCEPT !.size = @ + 1]))

Close(w) ==
  IF w.state # "writable" THEN Call(w, "rejected") ELSE Advance(Push(w, TRUE, 0))

Abort(w) == IF w.state = "writable" THEN WritableError(w) ELSE w

GetWriter(w) ==
  LET now == CASE w.state = "errored" -> "rejected"
               [] w.state = "closed" -> "resolved"
               [] OTHER -> IF Room(w) > 0 THEN "resolved" ELSE "pending"
      end == CASE w.state = "errored" -> "rejected"
               [] w.state = "closed" -> "resolved"
               [] OTHER -> "pending"
  IN  [w EXCEPT !.locked = TRUE, !.ready = now, !.closed = end]

ReleaseWriter(w) == [w EXCEPT !.locked = FALSE, !.ready = "none", !.closed = "none"]

-----------------------------------------------------------------------------
(* The job in flight.                                                      *)

InFlight(w) == Head(w.queue)

\* start's promise is settled: the sink is called, unless the stream has failed.
SinkCalled(w) ==
  IF w.state = "errored" \/ w.start = "rejected"
  THEN WritableError([w EXCEPT !.flight = "no",
                               !.told = IF w.queue = <<>> THEN @
                                        ELSE WRejected(w, {InFlight(w).call})])
  ELSE IF InFlight(w).close
       THEN [w EXCEPT !.flight = "closing", !.over = TRUE]
       ELSE [w EXCEPT !.flight = "writing", !.taken = Append(@, InFlight(w).chunk)]

\* The sink's promise is fulfilled.  The queue may have been emptied by an error.
SinkDone(w) ==
  LET close == w.flight = "closing"
      left == IF w.queue = <<>> THEN w
              ELSE [w EXCEPT !.queue = Tail(@),
                             !.size = IF close THEN @ ELSE @ - 1,
                             !.told = [i \in DOMAIN @ |-> IF i = InFlight(w).call
                                                          THEN "resolved" ELSE @[i]]]
      idle == [left EXCEPT !.flight = "no",
                 !.state = IF close THEN "closed" ELSE @,
                 !.closed = IF close /\ w.locked /\ @ = "pending" THEN "resolved" ELSE @]
  IN  Advance(UpdateReady(idle))

\* It is rejected: the job's own promise first, then everything.
SinkFailed(w) ==
  WritableError([w EXCEPT !.flight = "no",
                          !.told = IF w.queue = <<>> THEN @
                                   ELSE WRejected(w, {InFlight(w).call})])

SinkBusy(w) == w.flight \in {"writing", "closing"}
MayCallSink(w) == w.flight = "asked" /\ w.start # "pending"
=============================================================================
