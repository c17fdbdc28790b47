----------------------------- MODULE Transform ------------------------------
(***************************************************************************)
(* A TransformStream (vita/js/streams.js): a writable stream whose sink    *)
(* hands what a transformer makes of each chunk to a readable stream.  The *)
(* transformer may make none or several of one, flushes what it kept when  *)
(* the writable end is closed, may end the readable end on its own, and    *)
(* may fail.  TextDecoderStream and TextEncoderStream are such streams.    *)
(***************************************************************************)
EXTENDS StreamRecords

CONSTANTS
  MaxWrites,  \* bound: how often write and close are called
  MaxMade,    \* bound: how many chunks the transformer makes
  MaxReads    \* bound: how many reads are made

VARIABLES
  r,    \* the readable end
  w,    \* the writable end
  x     \* the transformer: chunks made, terminated, and histories of cancel and abort

vars == <<r, w, x>>

Init ==
  /\ r = Attach(Fresh(1)) /\ w = GetWriter(Blank(1))
  /\ x = [made |-> 0, terminated |-> FALSE, cancelled |-> FALSE,
          aborted |-> FALSE]

-----------------------------------------------------------------------------
(* The transformer, while the sink's write or close is on its way.         *)

Makes ==
  /\ SinkBusy(w) /\ MayGive(r) /\ x.made < MaxMade
  /\ r' = Enqueue(r, x.made + 1) /\ x' = [x EXCEPT !.made = @ + 1] /\ UNCHANGED w

\* terminate: an end that cannot be closed is left as it is.
Terminates ==
  /\ SinkBusy(w) /\ ~x.terminated
  /\ r' = (IF MayGive(r) THEN ControllerClose(r) ELSE r)
  /\ x' = [x EXCEPT !.terminated = TRUE] /\ UNCHANGED w

Errs == SinkBusy(w) /\ r.state = "readable" /\ r' = ControllerError(r) /\ UNCHANGED <<w, x>>

TransformEnds == w.flight = "writing" /\ w' = SinkDone(w) /\ UNCHANGED <<r, x>>

\* transform or flush throws, and so does enqueue on an end that takes no more.
TransformFails == SinkBusy(w) /\ w' = SinkFailed(w) /\ UNCHANGED <<r, x>>

\* flush has ended: the readable end is closed, which fails if it cannot be.
FlushEnds ==
  /\ w.flight = "closing" /\ UNCHANGED x
  /\ \/ x.terminated /\ w' = SinkDone(w) /\ UNCHANGED r
     \/ ~x.terminated /\ MayGive(r) /\ r' = ControllerClose(r) /\ w' = SinkDone(w)
     \/ ~x.terminated /\ ~MayGive(r) /\ w' = SinkFailed(w) /\ UNCHANGED r

SinkStarts ==
  /\ UNCHANGED <<r, x>>
  /\ \/ w.start = "pending" /\ w' = [w EXCEPT !.start = "resolved"]
     \/ MayCallSink(w) /\ w' = SinkCalled(w)

-----------------------------------------------------------------------------
(* The two ends.  The readable one's pull does nothing, and is soon over.  *)

ReadableActs ==
  /\ UNCHANGED <<w, x>>
  /\ \/ ~r.started /\ r' = Started(r)
     \/ r.pulling /\ r' = PullEnded(r)

MayCall == Len(w.told) < MaxWrites
Writes == MayCall /\ w' = Write(w, Len(w.told) + 1) /\ UNCHANGED <<r, x>>
CloseCalled == MayCall /\ ~w.over /\ w' = Close(w) /\ UNCHANGED <<r, x>>

\* abort: the sink fails the readable end.
Aborts ==
  /\ w.state = "writable"
  /\ r' = ControllerError(r) /\ w' = Abort(w) /\ x' = [x EXCEPT !.aborted = TRUE]

ReadsOne == Len(r.told) < MaxReads /\ r' = Read(r) /\ UNCHANGED <<w, x>>
Cancels ==
  /\ r.state = "readable"
  /\ r' = StreamCancel(r) /\ x' = [x EXCEPT !.cancelled = TRUE] /\ UNCHANGED w

Next == \/ Makes \/ Terminates \/ Errs \/ TransformEnds \/ TransformFails \/ FlushEnds
        \/ SinkStarts \/ ReadableActs
        \/ Writes \/ CloseCalled \/ Aborts \/ ReadsOne \/ Cancels
Spec == Init /\ [][Next]_vars

-----------------------------------------------------------------------------
\* The transformer's state has its types.
TypeOK == x \in [made : 0..MaxMade, terminated : BOOLEAN, cancelled : BOOLEAN,
                 aborted : BOOLEAN]

\* Whatever is made of the chunks, the reads and the queue hold it in the order it
\* was made, all of it unless an error or a cancel came.
MadeInOrder ==
  LET out == [i \in 1..Len(Chunks(r)) |-> Chunks(r)[i].chunk] \o r.queue
  IN  /\ out = [i \in 1..Len(out) |-> i]
      /\ r.state # "errored" /\ ~x.cancelled => Len(out) = x.made

\* The reader hears the end only when there is one: a readable end that is closed
\* or closing was flushed, terminated or cancelled.
EndIsMeant ==
  r.closing \/ r.state = "closed" => w.over \/ x.terminated \/ x.cancelled

\* When the writable end has been closed, or was aborted, the readable one has
\* ended or ends with what is queued: no reader waits for what cannot come.
EndsPassOn == w.state = "closed" \/ x.aborted => ~MayGive(r)

=============================================================================
