--------------------------- MODULE ReadableStream ---------------------------
(***************************************************************************)
(* A ReadableStream between a source and the code that reads it: readers   *)
(* that take the lock and leave it, reads made one after another without   *)
(* waiting, cancelling, and the async iterator.  The source is either one  *)
(* that gives a chunk when it is asked (`polite': its pull gives one chunk *)
(* or ends the stream before its promise is fulfilled) or one that gives   *)
(* when it likes.                                                          *)
(***************************************************************************)
EXTENDS StreamRecords

CONSTANTS
  MaxHWM,      \* bound: the greatest highWaterMark
  MaxChunks,   \* bound: how many chunks the source makes
  MaxReads     \* bound: how many reads are made

ASSUME ReadableAssumption ==
  MaxHWM \in Nat /\ MaxChunks \in Nat /\ MaxReads \in Nat

VARIABLES
  r,       \* the stream
  polite,  \* which kind of source
  gave,    \* the source has given, closed or failed since it was asked
  made,    \* how many chunks the source has made
  dropped, \* history: the stream was cancelled
  iter     \* whether the reader is an async iterator's, and the reads made before

vars == <<r, polite, gave, made, dropped, iter>>

NotIterating == [going |-> FALSE, since |-> 0]

Init ==
  /\ \E hwm \in 0..MaxHWM : r = Fresh(hwm)
  /\ polite \in BOOLEAN /\ gave = FALSE /\ made = 0
  /\ dropped = FALSE /\ iter = NotIterating

-----------------------------------------------------------------------------
(* The source.                                                             *)

Source == UNCHANGED <<polite, dropped, iter>>

StartEnds == ~r.started /\ r' = Started(r) /\ Source /\ UNCHANGED <<gave, made>>
StartFails ==
  ~r.started /\ r.state = "readable" /\ r' = ControllerError(r)
  /\ Source /\ UNCHANGED <<gave, made>>

ItsTurn == polite => r.pulling /\ ~gave

Gives ==
  /\ MayGive(r) /\ ItsTurn /\ made < MaxChunks
  /\ made' = made + 1 /\ gave' = TRUE
  /\ r' = Enqueue(r, made + 1)
  /\ Source

\* The strategy's size throws, or is not a size: with no read to hand it to.
SizeFails ==
  /\ MayGive(r) /\ ItsTurn /\ r.waits = <<>>
  /\ r' = ControllerError(r) /\ gave' = TRUE
  /\ Source /\ UNCHANGED made

Closes ==
  /\ MayGive(r) /\ ItsTurn
  /\ r' = ControllerClose(r) /\ gave' = TRUE
  /\ Source /\ UNCHANGED made

Fails ==
  /\ r.state = "readable" /\ ItsTurn
  /\ r' = ControllerError(r) /\ gave' = TRUE
  /\ Source /\ UNCHANGED made

PullEnds ==
  /\ r.pulling /\ (polite => gave \/ r.state # "readable" \/ r.closing)
  /\ r' = PullEnded(r) /\ gave' = FALSE
  /\ Source /\ UNCHANGED made

\* pull throws, or its promise is rejected.
PullFails ==
  /\ r.pulling
  /\ r' = [ControllerError(r) EXCEPT !.pulling = FALSE] /\ gave' = FALSE
  /\ Source /\ UNCHANGED made

-----------------------------------------------------------------------------
(* The code that reads.                                                    *)

Reader == UNCHANGED <<polite, gave, made>>

GetReader ==
  /\ ~r.locked /\ r' = Attach(r)
  /\ iter' \in {NotIterating, [going |-> TRUE, since |-> Len(r.told)]}
  /\ Reader /\ UNCHANGED dropped

MakesRead ==
  /\ r.locked /\ Len(r.told) < MaxReads
  /\ r' = Read(r)
  /\ Reader /\ UNCHANGED <<dropped, iter>>

ReleaseLock ==
  /\ r.locked /\ ~iter.going
  /\ r' = Release(r)
  /\ Reader /\ UNCHANGED <<dropped, iter>>

\* stream.cancel, for a stream that is not locked, and reader.cancel.
Cancel ==
  /\ ~iter.going
  /\ r' = StreamCancel(r) /\ dropped' = (dropped \/ r.state = "readable")
  /\ Reader /\ UNCHANGED iter

\* The iterator's next has heard that the stream is done: it lets the lock go.
IterEnds ==
  /\ iter.going /\ \E i \in Reads(r) : i > iter.since /\ r.told[i].is = "done"
  /\ r' = Release(r) /\ iter' = NotIterating
  /\ Reader /\ UNCHANGED dropped

\* return(): the loop was left, and with preventCancel the stream is left be.
IterReturns ==
  /\ iter.going /\ iter' = NotIterating
  /\ \E preventCancel \in BOOLEAN :
       /\ r' = Release(IF preventCancel THEN r ELSE StreamCancel(r))
       /\ dropped' = (dropped \/ (~preventCancel /\ r.state = "readable"))
  /\ Reader

SourceActs == StartEnds \/ StartFails \/ Gives \/ SizeFails \/ Closes \/ Fails
              \/ PullEnds \/ PullFails
ReaderActs == GetReader \/ MakesRead \/ ReleaseLock \/ Cancel \/ IterEnds \/ IterReturns
Next == SourceActs \/ ReaderActs

Spec == Init /\ [][Next]_vars

(* The browser runs the callback of start, and a polite source answers.    *)
Answers == polite /\ (Gives \/ Closes \/ Fails)
FairSpec == Spec /\ WF_vars(StartEnds \/ StartFails) /\ WF_vars(Answers)
                 /\ WF_vars(polite /\ PullEnds)

-----------------------------------------------------------------------------
Answer == [is : {"waiting", "done", "failed", "released", "chunk"}, chunk : 0..MaxChunks]

\* The stream and its reads have their types.
TypeOK ==
  /\ r \in [state : {"readable", "closed", "errored"}, locked : BOOLEAN,
            waits : Seq(1..MaxReads), closed : {"pending", "resolved", "rejected"},
            queue : Seq(1..MaxChunks), hwm : 0..MaxHWM, closing : BOOLEAN,
            started : BOOLEAN, pulling : BOOLEAN, again : BOOLEAN, told : Seq(Answer)]
  /\ polite \in BOOLEAN /\ gave \in BOOLEAN /\ made \in 0..MaxChunks
  /\ dropped \in BOOLEAN /\ iter \in [going : BOOLEAN, since : 0..MaxReads]

\* However enqueue, reads made ahead, releases of the lock and closing meet,
\* the chunks the reads were given and then those queued are the ones the
\* source made, in its order, none twice; and none is missing until an error or a
\* cancel throws the queue away.
InOrder ==
  LET got == {i \in Reads(r) : r.told[i].is = "chunk"}
  IN  \E n \in 0..made :
        /\ {r.told[i].chunk : i \in got} = 1..n
        /\ \A i, j \in got : i < j => r.told[i].chunk < r.told[j].chunk
        /\ \A k \in DOMAIN r.queue : r.queue[k] = n + k
        /\ n + Len(r.queue) <= made
        /\ r.state # "errored" /\ ~dropped => n + Len(r.queue) = made

\* A read waits only while nothing is queued and more may come, only while the
\* lock that made it is held, and exactly the reads in the list wait: one that
\* is missing would never be answered, and one too many answered for another.
WaitsForMore ==
  /\ Waiters(r) = {i \in Reads(r) : Waits(r, i)}
  /\ r.waits # <<>> =>
       r.queue = <<>> /\ r.state = "readable" /\ ~r.closing /\ r.locked

\* A stream is closed with nothing left to read, so the end is never heard
\* before the chunks, and a stream that is closing still holds some.
ClosedIsEmpty ==
  /\ r.state # "readable" => r.queue = <<>>
  /\ r.closing /\ r.state = "readable" => r.queue # <<>>

\* While a read waits, a source that answers what it is asked is being asked:
\* a wish that came while pull was on its way is not lost.
WaitIsAsked == polite /\ r.waits # <<>> /\ r.started => r.pulling

\* Backpressure: a source that gives one chunk each time it is asked never has
\* more queued than the mark, save the one a released reader had asked for.
Backpressure == polite => Len(r.queue) <= IF r.hwm = 0 THEN 1 ELSE r.hwm

\* What ended stays ended, and a promise that is settled keeps what it was
\* settled with.
EndedStays ==
  [][ /\ r.state # "readable" => r'.state = r.state
      /\ \A i \in Reads(r) : ~Waits(r, i) => r'.told[i] = r.told[i] ]_vars

\* With a source that answers, every read does hear something.
EveryReadHears == \A i \in 1..MaxReads :
  (polite /\ i \in Reads(r) /\ Waits(r, i)) ~> (i \in Reads(r) => ~Waits(r, i))
=============================================================================
