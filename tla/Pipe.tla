-------------------------------- MODULE Pipe --------------------------------
(***************************************************************************)
(* ReadableStream.pipeTo (vita/js/streams.js): a readable stream is read   *)
(* and each chunk is written to a writable one, waiting for room, for the  *)
(* chunk and for the sink in turn; either may fail while the pipe waits    *)
(* for the other, and a signal may abort it anywhere.                      *)
(***************************************************************************)
EXTENDS StreamRecords, SequenceTheorems, TLAPS

CONSTANTS
  MaxHWM,     \* bound: both streams' greatest highWaterMark
  MaxChunks   \* bound: how many chunks the source makes

VARIABLES
  src,   \* the readable stream
  w,     \* the writable one
  p,     \* streamPipeTo: where it waits, its options and its promise
  env    \* the source and the sink: given since asked, chunks made, sink failed

vars == <<src, w, p, env>>

Options == SUBSET {"close", "abort", "cancel"}

Init ==
  /\ \E m, n \in 0..MaxHWM : src = Attach(Fresh(m)) /\ w = GetWriter(Blank(n + 1))
  /\ \E prevent \in Options :
       p = [at |-> "ready", prevent |-> prevent, stopped |-> FALSE,
            done |-> "pending", aborted |-> "no"]
  /\ env = [gave |-> FALSE, made |-> 0, sinkFailed |-> FALSE]

Keeps(what) == what \notin p.prevent
Outside == UNCHANGED env

-----------------------------------------------------------------------------
(* finish: once, and both locks are let go.                                *)

Finish(s, d, answer) ==
  IF p.stopped THEN src' = s /\ w' = d /\ p' = [p EXCEPT !.at = "over"]
  ELSE /\ src' = Release(s) /\ w' = ReleaseWriter(d)
       /\ p' = [p EXCEPT !.at = "over", !.stopped = TRUE, !.done = answer]

Canceled(s) == IF Keeps("cancel") THEN StreamCancel(s) ELSE s

\* mutant: the destination is not told that the source failed
AbortedNot(d) == d

Aborted(d) == IF Keeps("abort") THEN Abort(d) ELSE d

\* mutant: a destination that failed meanwhile just ends the loop
StepQuiet ==
  IF p.stopped \/ w.state = "errored"
  THEN p' = [p EXCEPT !.at = "over"] /\ UNCHANGED <<src, w>>
  ELSE p' = [p EXCEPT !.at = "ready"] /\ UNCHANGED <<src, w>>

\* step, after a chunk was written.
Step ==
  IF p.stopped THEN p' = [p EXCEPT !.at = "over"] /\ UNCHANGED <<src, w>>
  ELSE IF w.state = "errored" THEN Finish(Canceled(src), w, "rejected")
  ELSE p' = [p EXCEPT !.at = "ready"] /\ UNCHANGED <<src, w>>

-----------------------------------------------------------------------------
(* The promises it waits for.                                              *)

RoomHeard ==
  /\ p.at = "ready" /\ (p.stopped \/ w.ready # "pending")
  /\ \/ p.stopped /\ p' = [p EXCEPT !.at = "over"] /\ UNCHANGED <<src, w>>
     \/ ~p.stopped /\ w.ready = "resolved"
        /\ src' = Read(src) /\ p' = [p EXCEPT !.at = "reading"] /\ UNCHANGED w
     \/ ~p.stopped /\ w.ready = "rejected"
        /\ Finish(Canceled(src), w, "rejected")
  /\ Outside

Heard == src.told[Len(src.told)]

\* mutant: the end of the source ends the pipe, whatever the destination holds
EndOfSourceNow == Finish(src, IF Keeps("close") THEN Close(w) ELSE w, "resolved")

EndOfSource ==
  IF Keeps("close")
  THEN w' = Close(w) /\ p' = [p EXCEPT !.at = "closing"] /\ UNCHANGED src
  ELSE Finish(src, w, "resolved")

ReadHeard ==
  /\ p.at = "reading" /\ Heard.is # "waiting"
  /\ \/ p.stopped /\ Heard.is \in {"chunk", "done"}
        /\ p' = [p EXCEPT !.at = "over"] /\ UNCHANGED <<src, w>>
     \/ ~p.stopped /\ Heard.is = "chunk"
        /\ w' = Write(w, Heard.chunk) /\ p' = [p EXCEPT !.at = "writing"]
        /\ UNCHANGED src
     \/ ~p.stopped /\ Heard.is = "done" /\ EndOfSource
     \/ Heard.is \in {"failed", "released"} /\ Finish(src, Aborted(w), "rejected")
  /\ Outside

Written == w.told[Len(w.told)]
WriteHeard ==
  /\ p.at = "writing" /\ Written # "pending"
  /\ \/ Written = "resolved" /\ Step
     \/ Written = "rejected" /\ Finish(Canceled(src), w, "rejected")
  /\ Outside

CloseHeard ==
  /\ p.at = "closing" /\ Written # "pending"
  /\ Finish(src, w, Written) /\ Outside

-----------------------------------------------------------------------------
(* The signal.                                                             *)

SignalAborts ==
  /\ p.aborted = "no" /\ ~p.stopped
  /\ w' = Aborted(w) /\ src' = Canceled(src)
  /\ p' = [p EXCEPT !.aborted = "telling"] /\ Outside

\* The sink's abort and the source's cancel have ended.
AbortEnds ==
  /\ p.aborted = "telling"
  /\ LET over == [p EXCEPT !.aborted = "told"]
     IN  IF p.stopped THEN p' = over /\ UNCHANGED <<src, w>>
         ELSE /\ src' = Release(src) /\ w' = ReleaseWriter(w)
              /\ p' = [over EXCEPT !.stopped = TRUE, !.done = "rejected"]
  /\ Outside

-----------------------------------------------------------------------------
(* The source, which answers when it is asked, and the sink.               *)

SourceMay == src.pulling /\ ~env.gave /\ MayGive(src)
SourceActs ==
  /\ UNCHANGED <<w, p>>
  /\ \/ ~src.started /\ src' = Started(src) /\ Outside
     \/ /\ SourceMay /\ env.made < MaxChunks
        /\ src' = Enqueue(src, env.made + 1)
        /\ env' = [env EXCEPT !.gave = TRUE, !.made = @ + 1]
     \/ /\ SourceMay /\ env' = [env EXCEPT !.gave = TRUE]
        /\ src' \in {ControllerClose(src), ControllerError(src)}
     \/ /\ src.pulling /\ (env.gave \/ ~MayGive(src))
        /\ src' = PullEnded(src) /\ env' = [env EXCEPT !.gave = FALSE]

SinkActs ==
  /\ UNCHANGED <<src, p>>
  /\ \/ w.start = "pending" /\ w' = [w EXCEPT !.start = "resolved"] /\ Outside
     \/ MayCallSink(w) /\ w' = SinkCalled(w) /\ Outside
     \/ SinkBusy(w) /\ w' = SinkDone(w) /\ Outside
     \/ SinkBusy(w) /\ w' = SinkFailed(w) /\ env' = [env EXCEPT !.sinkFailed = TRUE]

\* The sink fails the stream through its controller, whenever it likes.
SinkErrs ==
  /\ w.state = "writable" /\ w' = WritableError(w)
  /\ env' = [env EXCEPT !.sinkFailed = TRUE] /\ UNCHANGED <<src, p>>

PipeActs == RoomHeard \/ ReadHeard \/ WriteHeard \/ CloseHeard \/ AbortEnds
Next == PipeActs \/ SourceActs \/ SinkActs \/ SinkErrs \/ SignalAborts

Spec == Init /\ [][Next]_vars

(* Callbacks of settled promises run; source and sink answer.              *)
FairSpec == Spec /\ WF_vars(PipeActs) /\ WF_vars(SourceActs) /\ WF_vars(SinkActs)

-----------------------------------------------------------------------------
\* The pipe's own state has its types.
TypeOK ==
  /\ p \in [at : {"ready", "reading", "writing", "closing", "over"}, prevent : Options,
            stopped : BOOLEAN, done : {"pending", "resolved", "rejected"},
            aborted : {"no", "telling", "told"}]
  /\ env \in [gave : BOOLEAN, made : 0..MaxChunks, sinkFailed : BOOLEAN]

\* A pipe that is fulfilled, and was not aborted, has passed the whole stream:
\* the sink has had every chunk the source made, in order, and its close unless
\* that was prevented.
FulfilledIsWhole ==
  p.done = "resolved" /\ p.aborted = "no" =>
    /\ w.taken = [i \in 1..env.made |-> i]
    /\ Keeps("close") <=> w.over

\* Even when it fails halfway, what the sink had is the start of what the source
\* made.
SinkHasPrefix ==
  Len(w.taken) <= env.made /\ \A i \in DOMAIN w.taken : w.taken[i] = i

\* What was prevented is not done: the destination fails only by its own sink,
\* and the source ends only by itself.
Prevented ==
  /\ ~Keeps("abort") => (w.state = "errored" => env.sinkFailed)
  /\ ~Keeps("cancel") => (src.state = "closed" => src.closing)

\* When the pipe fails neither end is left waiting: the source no longer gives
\* and the destination no longer takes, unless that was prevented.
BothAreTold ==
  ~p.stopped /\ p'.done = "rejected" =>
    /\ Keeps("abort") => w'.state # "writable"
    /\ Keeps("cancel") => src'.state # "readable"

\* The pipe ends, both locks are let go, and it has nothing on its way.
PipeEnds == <>[](p.stopped /\ ~src.locked /\ ~w.locked /\ p.done # "pending")

-----------------------------------------------------------------------------
(* Proof that both ends are told, for any marks and number of chunks.      *)

\* The two ends' records, as streams.js keeps them.
Tellings == [is : {"waiting", "chunk", "done", "failed", "released"}, chunk : Nat]
Source == [state : {"readable", "closed", "errored"}, locked : BOOLEAN, waits : Seq(Nat),
           closed : {"pending", "resolved", "rejected"}, queue : Seq(Nat), hwm : Nat,
           closing : BOOLEAN, started : BOOLEAN, pulling : BOOLEAN, again : BOOLEAN,
           told : Seq(Tellings)]
Answers == {"pending", "resolved", "rejected"}
Job == [call : Nat, close : BOOLEAN, chunk : Nat]
Sink == [state : {"writable", "closed", "errored"}, start : Answers, locked : BOOLEAN,
         queue : Seq(Job), size : Int, hwm : Nat,
         flight : {"no", "asked", "writing", "closing"},
         ready : {"none"} \cup Answers, closed : {"none"} \cup Answers,
         told : Seq(Answers), taken : Seq(Nat), over : BOOLEAN]

\* A read is told of an end only when the source has one; ...
Truly(s) == s.state = "readable" => \A i \in 1..Len(s.told) : s.told[i].is \in {"waiting", "chunk"}
\* ... and a write, or one who waits for room, of a failure only of a destination
\* that takes no more.
Honest(d) ==
  d.state = "writable" => d.ready # "rejected" /\ \A i \in 1..Len(d.told) : d.told[i] # "rejected"

\* What ended does not begin again, and what was asked stays asked.
SourceGoesOn(s, t) ==
  /\ s.state # "readable" => t.state # "readable"
  /\ s.told # <<>> => t.told # <<>>
SinkGoesOn(d, e) ==
  /\ d.state # "writable" => e.state # "writable"
  /\ d.told # <<>> => e.told # <<>>

\* The inductive invariant: while the pipe runs it is pending, has asked for what
\* it waits for, closes after the end of its source, and when a signal has
\* aborted it both ends are told.
Under ==
  ~p.stopped =>
    /\ p.done = "pending" /\ Truly(src) /\ Honest(w)
    /\ p.at = "reading" => src.told # <<>>
    /\ p.at \in {"writing", "closing"} => w.told # <<>>
    /\ p.at = "closing" => src.state # "readable"
    /\ p.aborted # "no" => /\ Keeps("abort") => w.state # "writable"
                           /\ Keeps("cancel") => src.state # "readable"

\* A job is in flight only of a queue that has it, or that an error emptied.
Orderly(d) == /\ d.state = "errored" => d.queue = <<>>
              /\ d.queue = <<>> /\ d.flight # "no" => d.state = "errored"

PipeInv == TypeOK /\ src \in Source /\ w \in Sink /\ Orderly(w) /\ Under

\* A record stays one, and what becomes of it is as it should be.
SourceKept(s, t) == t \in Source /\ (Truly(s) => Truly(t)) /\ SourceGoesOn(s, t)

LEMMA SourceSame == ASSUME NEW s \in Source PROVE SourceKept(s, s)
BY DEF SourceKept, SourceGoesOn

LEMMA SourceThen ==
  ASSUME NEW s, NEW t, NEW u, SourceKept(s, t), SourceKept(t, u) PROVE SourceKept(s, u)
BY DEF SourceKept, SourceGoesOn

\* What is told.
LEMMA Answers0 ==
  /\ Waiting \in Tellings /\ Done \in Tellings /\ Failed \in Tellings /\ Released \in Tellings
  /\ \A n \in Nat : Given(n) \in Tellings /\ Given(n).is = "chunk"
  /\ Waiting.is = "waiting"
BY DEF Waiting, Done, Failed, Released, Given, Tellings

LEMMA SettledType ==
  ASSUME NEW s \in Source, NEW ids, NEW a \in Tellings
  PROVE  /\ Settled(s, ids, a) \in Seq(Tellings) /\ Len(Settled(s, ids, a)) = Len(s.told)
         /\ \A i \in 1..Len(s.told) : Settled(s, ids, a)[i] \in {a, s.told[i]}
<1>1. s.told \in Seq(Tellings) /\ Len(s.told) \in Nat /\ DOMAIN s.told = 1..Len(s.told)
  BY DEF Source
<1> QED BY <1>1 DEF Settled

LEMMA Pulls == ASSUME NEW s \in Source PROVE SourceKept(s, CallPull(s))
<1>1. CallPull(s) \in {s, [s EXCEPT !.again = TRUE], [s EXCEPT !.pulling = TRUE]}
  BY DEF CallPull
<1>2. \A t \in {s, [s EXCEPT !.again = TRUE], [s EXCEPT !.pulling = TRUE]} :
        t \in Source /\ t.told = s.told /\ t.state = s.state
  BY DEF Source
<1> QED BY <1>1, <1>2 DEF SourceKept, SourceGoesOn, Truly

LEMMA PullsEnd == ASSUME NEW s \in Source PROVE SourceKept(s, PullEnded(s))
<1> DEFINE t == [s EXCEPT !.pulling = FALSE, !.again = FALSE]
<1>1. t \in Source /\ t.told = s.told /\ t.state = s.state
  BY DEF Source
<1>2. PullEnded(s) \in {t, CallPull(t)}
  BY DEF PullEnded
<1> HIDE DEF t
<1>3. SourceKept(s, t)
  BY <1>1 DEF SourceKept, SourceGoesOn, Truly
<1> QED BY <1>1, <1>2, <1>3, Pulls, SourceThen

LEMMA Starts == ASSUME NEW s \in Source PROVE SourceKept(s, Started(s))
<1> DEFINE t == [s EXCEPT !.started = TRUE]
<1>1. t \in Source /\ t.told = s.told /\ t.state = s.state
  BY DEF Source
<1> HIDE DEF t
<1>2. SourceKept(s, t)
  BY <1>1 DEF SourceKept, SourceGoesOn, Truly
<1> QED BY <1>1, <1>2, Pulls, SourceThen DEF Started, t

\* A source is one still when some of its fields are written.
Rewritten(s, st, lk, wt, cl, q, told) ==
  [s EXCEPT !.state = st, !.locked = lk, !.waits = wt, !.closed = cl, !.queue = q, !.told = told]

LEMMA Rewrites ==
  ASSUME NEW s \in Source, NEW t, t.state \in {"readable", "closed", "errored"},
         t.locked \in BOOLEAN, t.waits \in Seq(Nat),
         t.closed \in {"pending", "resolved", "rejected"}, t.queue \in Seq(Nat),
         t.told \in Seq(Tellings),
         t = Rewritten(s, t.state, t.locked, t.waits, t.closed, t.queue, t.told)
  PROVE  t \in Source
<1>1. ASSUME NEW st \in {"readable", "closed", "errored"}, NEW lk \in BOOLEAN,
             NEW wt \in Seq(Nat), NEW cl \in {"pending", "resolved", "rejected"},
             NEW q \in Seq(Nat), NEW told \in Seq(Tellings)
      PROVE  Rewritten(s, st, lk, wt, cl, q, told) \in Source
  BY ONLY <1>1, s \in Source DEF Rewritten, Source
<1>2. Rewritten(s, t.state, t.locked, t.waits, t.closed, t.queue, t.told) \in Source
  BY <1>1
<1> QED BY ONLY <1>2, t = Rewritten(s, t.state, t.locked, t.waits, t.closed, t.queue, t.told)

\* The source ends, and all that wait are told a.
LEMMA Ends ==
  ASSUME NEW s \in Source, s.state = "readable", NEW a \in {Done, Failed},
         NEW t \in {StreamClose(s), StreamCancel(s), ControllerError(s)},
         t.told = Settled(s, Waiters(s), a), t.state \in {"closed", "errored"}
  PROVE  SourceKept(s, t) /\ t.state # "readable"
<1>1. /\ t.told \in Seq(Tellings) /\ Len(t.told) = Len(s.told) /\ s.told \in Seq(Tellings)
  BY SettledType, Answers0 DEF Source
<1>2. t \in Source
  <2>1. /\ t.state \in {"readable", "closed", "errored"} /\ t.locked \in BOOLEAN
        /\ t.waits \in Seq(Nat) /\ t.queue \in Seq(Nat)
        /\ t.closed \in {"pending", "resolved", "rejected"}
    <3>1. CASE t = StreamClose(s)
      BY <3>1 DEF StreamClose, Source
    <3>2. CASE t = StreamCancel(s)
      <4>1. /\ t.state \in {"readable", "closed", "errored"} /\ t.locked \in BOOLEAN
            /\ t.closed \in {"pending", "resolved", "rejected"}
        BY <3>2 DEF StreamClose, StreamCancel, Source
      <4>2. t.waits = <<>> /\ t.queue = <<>>
        BY <3>2 DEF StreamClose, StreamCancel, Source
      <4> QED BY <4>1, <4>2
    <3>3. CASE t = ControllerError(s)
      BY <3>3 DEF ControllerError, Source
    <3> QED BY <3>1, <3>2, <3>3
  <2>2. t = Rewritten(s, t.state, t.locked, t.waits, t.closed, t.queue, t.told)
    <3>1. CASE t = StreamClose(s)
      BY <3>1 DEF StreamClose, Source, Rewritten
    <3>2. CASE t = StreamCancel(s)
      BY <3>2 DEF StreamClose, StreamCancel, Source, Rewritten
    <3>3. CASE t = ControllerError(s)
      BY ZenonT(60), <3>3 DEF ControllerError, Source, Rewritten
    <3> QED BY <3>1, <3>2, <3>3
  <2> QED BY <1>1, <2>1, <2>2, Rewrites
<1>3. s.told # <<>> => t.told # <<>>
  BY <1>1
<1> QED BY <1>2, <1>3 DEF SourceKept, SourceGoesOn, Truly

LEMMA Closes ==
  ASSUME NEW s \in Source
  PROVE  SourceKept(s, StreamClose(s)) /\ StreamClose(s).state # "readable"
<1>1. CASE s.state # "readable"
  BY <1>1, SourceSame DEF StreamClose
<1>2. CASE s.state = "readable"
  <2>1. StreamClose(s).told = Settled(s, Waiters(s), Done) /\ StreamClose(s).state = "closed"
    BY <1>2 DEF StreamClose, Source
  <2> QED BY <1>2, <2>1, Ends
<1> QED BY <1>1, <1>2

LEMMA Cancels ==
  ASSUME NEW s \in Source
  PROVE  SourceKept(s, StreamCancel(s)) /\ StreamCancel(s).state # "readable"
<1>1. CASE s.state # "readable"
  BY <1>1, SourceSame DEF StreamCancel
<1>2. CASE s.state = "readable"
  <2>1. StreamCancel(s).told = Settled(s, Waiters(s), Done) /\ StreamCancel(s).state = "closed"
    BY <1>2 DEF StreamCancel, StreamClose, Source
  <2> QED BY <1>2, <2>1, Ends
<1> QED BY <1>1, <1>2

LEMMA Errs ==
  ASSUME NEW s \in Source
  PROVE  SourceKept(s, ControllerError(s))
<1>1. CASE s.state # "readable"
  BY <1>1, SourceSame DEF ControllerError
<1>2. CASE s.state = "readable"
  <2>1. ControllerError(s).told = Settled(s, Waiters(s), Failed) /\ ControllerError(s).state = "errored"
    BY <1>2 DEF ControllerError, Source
  <2> QED BY <1>2, <2>1, Ends
<1> QED BY <1>1, <1>2

\* The reader leaves.
LEMMA Leaves ==
  ASSUME NEW s \in Source PROVE Release(s) \in Source /\ Release(s).state = s.state
<1> DEFINE t == Release(s)
<1>1. t.told = Settled(s, Waiters(s), Released) /\ t.told \in Seq(Tellings) /\ t.state = s.state
  <2>1. t.told = Settled(s, Waiters(s), Released) /\ t.state = s.state
    BY DEF Release, Source
  <2> QED BY <2>1, SettledType, Answers0
<1>2. /\ t.state \in {"readable", "closed", "errored"} /\ t.locked \in BOOLEAN
      /\ t.waits \in Seq(Nat) /\ t.queue \in Seq(Nat)
      /\ t.closed \in {"pending", "resolved", "rejected"}
  BY DEF Release, Source
<1>3. t = Rewritten(s, t.state, t.locked, t.waits, t.closed, t.queue, t.told)
  BY DEF Release, Source, Rewritten
<1> HIDE DEF t
<1> QED BY <1>1, <1>2, <1>3, Rewrites DEF t

LEMMA ClosesSoon == ASSUME NEW s \in Source PROVE SourceKept(s, ControllerClose(s))
<1> DEFINE t == [s EXCEPT !.closing = TRUE]
<1>1. t \in Source /\ t.told = s.told /\ t.state = s.state
  BY DEF Source
<1>2. ControllerClose(s) \in {t, StreamClose(t)}
  BY DEF ControllerClose
<1> HIDE DEF t
<1>3. SourceKept(s, t)
  BY <1>1 DEF SourceKept, SourceGoesOn, Truly
<1> QED BY <1>1, <1>2, <1>3, Closes, SourceThen

\* A chunk comes.
LEMMA Enqueues ==
  ASSUME NEW s \in Source, NEW n \in Nat PROVE SourceKept(s, Enqueue(s, n))
<1> DEFINE told == Settled(s, {Head(s.waits)}, Given(n))
           t == IF s.waits # <<>> THEN [s EXCEPT !.waits = Tail(@), !.told = told]
                ELSE [s EXCEPT !.queue = Append(@, n)]
<1>1. /\ told \in Seq(Tellings) /\ Len(told) = Len(s.told)
      /\ \A i \in 1..Len(s.told) : told[i] \in {Given(n), s.told[i]}
  BY SettledType, Answers0
<1>2. s.waits \in Seq(Nat) /\ s.queue \in Seq(Nat) /\ s.told \in Seq(Tellings)
  BY DEF Source
<1>3. s.waits # <<>> => Tail(s.waits) \in Seq(Nat)
  BY <1>2, HeadTailProperties
<1>4. Append(s.queue, n) \in Seq(Nat)
  BY <1>2
<1>5. s.told # <<>> => told # <<>>
  BY <1>1, <1>2
<1> HIDE DEF told
<1>6. t \in Source /\ t.told \in {told, s.told} /\ t.state = s.state
  BY <1>1, <1>3, <1>4 DEF Source
<1> HIDE DEF t
<1>7. SourceKept(s, t)
  BY <1>1, <1>5, <1>6, Answers0 DEF SourceKept, SourceGoesOn, Truly
<1>8. Enqueue(s, n) = CallPull(t)
  BY DEF Enqueue, t, told
<1> QED BY <1>6, <1>7, <1>8, Pulls, SourceThen

\* A read is made.
LEMMA ReadsAnswered ==
  ASSUME NEW s \in Source, NEW a \in Tellings,
         s.state = "readable" => a.is \in {"waiting", "chunk"}
  PROVE  LET t == ReadAnswered(s, a) IN
         /\ SourceKept(s, t) /\ t.told # <<>> /\ t.state = s.state
         /\ t.waits = s.waits /\ t.queue = s.queue
<1> DEFINE t == ReadAnswered(s, a)
           told == Append(s.told, a)
<1>1. /\ told \in Seq(Tellings) /\ Len(told) = Len(s.told) + 1 /\ told # <<>>
      /\ \A i \in 1..Len(s.told) : told[i] = s.told[i]
      /\ told[Len(s.told) + 1] = a /\ Len(s.told) \in Nat
  <2>1. s.told \in Seq(Tellings)
    BY DEF Source
  <2> QED BY <2>1, AppendProperties
<1>2. t = [s EXCEPT !.told = told]
  BY DEF ReadAnswered, Source
<1> HIDE DEF told, t
<1>3. t \in Source /\ t.told = told /\ t.state = s.state /\ t.waits = s.waits /\ t.queue = s.queue
  BY <1>1, <1>2 DEF Source
<1>4. Truly(s) => Truly(t)
  BY <1>1, <1>3 DEF Truly
<1> QED BY <1>1, <1>3, <1>4 DEF SourceKept, SourceGoesOn, t

LEMMA MakesRead ==
  ASSUME NEW s \in Source PROVE SourceKept(s, Read(s)) /\ Read(s).told # <<>>
<1>1. CASE s.state = "errored"
  BY <1>1, ReadsAnswered, Answers0 DEF Read
<1>2. CASE s.state # "errored" /\ s.queue # <<>>
  <2> DEFINE t == [s EXCEPT !.queue = Tail(@)]
             u == ReadAnswered(t, Given(Head(s.queue)))
  <2>1. s.queue \in Seq(Nat) /\ Head(s.queue) \in Nat /\ Tail(s.queue) \in Seq(Nat)
    <3>1. s.queue \in Seq(Nat)
      BY DEF Source
    <3> QED BY <1>2, <3>1, HeadTailProperties
  <2>2. t \in Source /\ t.told = s.told /\ t.state = s.state
    BY <2>1 DEF Source
  <2>3. Read(s) \in {StreamClose(u), CallPull(u)}
    BY <1>2 DEF Read, ReadQueued
  <2> HIDE DEF t
  <2>4. SourceKept(s, t)
    BY <2>2 DEF SourceKept, SourceGoesOn, Truly
  <2>5. SourceKept(t, u) /\ u.told # <<>>
    BY <2>1, <2>2, ReadsAnswered, Answers0
  <2> HIDE DEF u
  <2>6. SourceKept(s, u) /\ u \in Source
    BY <2>4, <2>5, SourceThen DEF SourceKept
  <2>7. SourceKept(u, StreamClose(u)) /\ SourceKept(u, CallPull(u))
    BY <2>6, Closes, Pulls
  <2>8. SourceKept(u, Read(s))
    BY <2>3, <2>7
  <2> QED BY <2>5, <2>6, <2>8, SourceThen DEF SourceKept, SourceGoesOn
<1>3. CASE s.state = "closed" /\ s.queue = <<>>
  BY <1>3, ReadsAnswered, Answers0 DEF Read
<1>4. CASE s.state = "readable" /\ s.queue = <<>>
  <2> DEFINE t == ReadAnswered(s, Waiting)
             u == [t EXCEPT !.waits = Append(@, Len(s.told) + 1)]
  <2>1. SourceKept(s, t) /\ t.told # <<>> /\ t \in Source
    BY ReadsAnswered, Answers0 DEF SourceKept
  <2>2. Len(s.told) + 1 \in Nat /\ t.waits \in Seq(Nat)
    BY <2>1 DEF Source
  <2>3. Append(t.waits, Len(s.told) + 1) \in Seq(Nat)
    BY <2>2
  <2>4. Read(s) = CallPull(u)
    BY <1>4 DEF Read
  <2> HIDE DEF t
  <2>5. u \in Source /\ u.told = t.told /\ u.state = t.state
    BY <2>1, <2>3 DEF Source
  <2> HIDE DEF u
  <2>6. SourceKept(t, u) /\ SourceKept(u, CallPull(u))
    BY <2>5, Pulls DEF SourceKept, SourceGoesOn, Truly
  <2>7. SourceKept(t, Read(s)) /\ SourceKept(s, Read(s))
    BY <2>1, <2>4, <2>6, SourceThen
  <2> QED BY <2>1, <2>7 DEF SourceKept, SourceGoesOn
<1> QED BY <1>1, <1>2, <1>3, <1>4 DEF Source

-----------------------------------------------------------------------------
(* The same of the destination.                                            *)

SinkKept(d, e) ==
  e \in Sink /\ (Orderly(d) => Orderly(e)) /\ (Honest(d) => Honest(e)) /\ SinkGoesOn(d, e)

LEMMA SinkSame == ASSUME NEW d \in Sink PROVE SinkKept(d, d)
BY DEF SinkKept, SinkGoesOn

LEMMA SinkThen ==
  ASSUME NEW d, NEW e, NEW f, SinkKept(d, e), SinkKept(e, f) PROVE SinkKept(d, f)
BY DEF SinkKept, SinkGoesOn

\* A destination is one still when some of its fields are written.
Remade(d, st, qu, sz, rd, cl, told) ==
  [d EXCEPT !.state = st, !.queue = qu, !.size = sz, !.ready = rd, !.closed = cl, !.told = told]

LEMMA Remakes ==
  ASSUME NEW d \in Sink, NEW e, e.state \in {"writable", "closed", "errored"},
         e.queue \in Seq(Job), e.size \in Int, e.ready \in {"none"} \cup Answers,
         e.closed \in {"none"} \cup Answers, e.told \in Seq(Answers),
         e = Remade(d, e.state, e.queue, e.size, e.ready, e.closed, e.told)
  PROVE  e \in Sink
<1>1. ASSUME NEW st \in {"writable", "closed", "errored"}, NEW qu \in Seq(Job), NEW sz \in Int,
             NEW rd \in {"none"} \cup Answers, NEW cl \in {"none"} \cup Answers,
             NEW told \in Seq(Answers)
      PROVE  Remade(d, st, qu, sz, rd, cl, told) \in Sink
  BY ONLY <1>1, d \in Sink DEF Remade, Sink
<1>2. Remade(d, e.state, e.queue, e.size, e.ready, e.closed, e.told) \in Sink
  BY <1>1
<1> QED BY ONLY <1>2, e = Remade(d, e.state, e.queue, e.size, e.ready, e.closed, e.told)

LEMMA SinkFields ==
  ASSUME NEW d \in Sink
  PROVE  /\ d.state \in {"writable", "closed", "errored"} /\ d.queue \in Seq(Job) /\ d.size \in Int
         /\ d.flight \in {"no", "asked", "writing", "closing"} /\ d.ready \in {"none"} \cup Answers
         /\ d.closed \in {"none"} \cup Answers /\ d.told \in Seq(Answers) /\ d.taken \in Seq(Nat)
         /\ d.over \in BOOLEAN /\ d.locked \in BOOLEAN
BY DEF Sink

\* Those who wait are told of a failure.
LEMMA RejectedType ==
  ASSUME NEW d \in Sink, NEW calls
  PROVE  WRejected(d, calls) \in Seq(Answers) /\ Len(WRejected(d, calls)) = Len(d.told)
<1>1. d.told \in Seq(Answers) /\ Len(d.told) \in Nat /\ DOMAIN d.told = 1..Len(d.told)
  BY SinkFields
<1> QED BY <1>1 DEF WRejected, Answers

LEMMA Fails ==
  ASSUME NEW d \in Sink, d.state = "errored" => d.queue = <<>>
  PROVE  LET e == WritableError(d) IN
         e \in Sink /\ e.state = "errored" /\ e.queue = <<>> /\ (d.told # <<>> => e.told # <<>>)
<1> DEFINE e == WritableError(d)
<1>1. CASE d.state = "errored"
  BY <1>1 DEF WritableError
<1>2. CASE d.state # "errored"
  <2>1. /\ e.told = WRejected(d, Jobs(d)) /\ e.state = "errored" /\ e.queue = <<>> /\ e.size = 0
        /\ e.ready \in {d.ready, "rejected"} /\ e.closed \in {d.closed, "rejected"}
    BY <1>2 DEF WritableError, Sink
  <2>2. e.told \in Seq(Answers) /\ Len(e.told) = Len(d.told) /\ "rejected" \in Answers
    BY <2>1, RejectedType DEF Answers
  <2>3. e = Remade(d, e.state, e.queue, e.size, e.ready, e.closed, e.told)
    BY ZenonT(60), <1>2 DEF WritableError, Sink, Remade
  <2>4. e.ready \in {"none"} \cup Answers /\ e.closed \in {"none"} \cup Answers
    BY <2>1, <2>2, SinkFields
  <2> HIDE DEF e
  <2>6. e \in Sink
    <3>1. /\ e.state \in {"writable", "closed", "errored"} /\ e.queue \in Seq(Job)
          /\ e.size \in Int
      BY <2>1
    <3> QED BY <2>2, <2>3, <2>4, <3>1, Remakes
  <2>5. d.told # <<>> => e.told # <<>>
    BY <2>2, SinkFields
  <2> QED BY <2>1, <2>5, <2>6 DEF e
<1> QED BY <1>1, <1>2

LEMMA FailsKept ==
  ASSUME NEW d \in Sink, Orderly(d)
  PROVE  SinkKept(d, WritableError(d)) /\ WritableError(d).state = "errored"
BY Fails DEF SinkKept, Orderly, Honest, SinkGoesOn

LEMMA Aborts ==
  ASSUME NEW d \in Sink, Orderly(d)
  PROVE  SinkKept(d, Abort(d)) /\ Abort(d).state # "writable"
BY FailsKept, SinkSame DEF Abort

LEMMA LeavesWriter ==
  ASSUME NEW d \in Sink
  PROVE  LET e == ReleaseWriter(d) IN e \in Sink /\ e.state = d.state /\ (Orderly(d) => Orderly(e))
BY DEF ReleaseWriter, Sink, Orderly

\* What changes no more than the promises of room and of the sink's turn.
LEMMA Advances == ASSUME NEW d \in Sink PROVE SinkKept(d, Advance(d))
<1>1. CASE d.flight # "no" \/ d.state = "errored" \/ d.queue = <<>>
  BY <1>1, SinkSame DEF Advance
<1>2. CASE ~(d.flight # "no" \/ d.state = "errored" \/ d.queue = <<>>)
  <2> DEFINE e == [d EXCEPT !.flight = "asked"]
  <2>1. /\ e \in Sink /\ e.state = d.state /\ e.queue = d.queue /\ e.told = d.told
        /\ e.ready = d.ready
    BY DEF Sink
  <2>2. Advance(d) = e
    BY <1>2 DEF Advance
  <2> HIDE DEF e
  <2> QED BY <1>2, <2>1, <2>2 DEF SinkKept, SinkGoesOn, Honest, Orderly
<1> QED BY <1>1, <1>2

LEMMA Updates == ASSUME NEW d \in Sink PROVE SinkKept(d, UpdateReady(d))
<1>1. CASE ~d.locked \/ d.state # "writable"
  BY <1>1, SinkSame DEF UpdateReady
<1>2. CASE ~(~d.locked \/ d.state # "writable")
  <2>1. PICK a \in {d.ready, "pending", "resolved"} : UpdateReady(d) = [d EXCEPT !.ready = a]
    BY <1>2 DEF UpdateReady
  <2> DEFINE e == [d EXCEPT !.ready = a]
  <2>2. a \in {"none"} \cup Answers
    BY SinkFields DEF Answers
  <2>3. /\ e \in Sink /\ e.state = d.state /\ e.queue = d.queue /\ e.told = d.told
        /\ e.ready = a /\ e.flight = d.flight
    BY <2>2 DEF Sink
  <2> HIDE DEF e
  <2> QED BY <2>1, <2>3 DEF SinkKept, SinkGoesOn, Honest, Orderly, e
<1> QED BY <1>1, <1>2

\* A write or a close is refused, or joins the queue.
LEMMA CallsMade ==
  ASSUME NEW d \in Sink, NEW a \in Answers, d.state = "writable" => a # "rejected"
  PROVE  LET e == Call(d, a) IN
         /\ SinkKept(d, e) /\ e.told # <<>> /\ e.told = Append(d.told, a)
         /\ e.state = d.state /\ e.queue = d.queue /\ e.size = d.size
<1> DEFINE e == Call(d, a)
           told == Append(d.told, a)
<1>1. /\ told \in Seq(Answers) /\ Len(told) = Len(d.told) + 1 /\ told # <<>>
      /\ \A i \in 1..Len(d.told) : told[i] = d.told[i]
      /\ told[Len(d.told) + 1] = a /\ Len(d.told) \in Nat
  <2>1. d.told \in Seq(Answers)
    BY SinkFields
  <2> QED BY <2>1, AppendProperties
<1>2. e = [d EXCEPT !.told = told]
  BY DEF Call, Sink
<1> HIDE DEF told, e
<1>3. /\ e \in Sink /\ e.told = told /\ e.state = d.state /\ e.queue = d.queue
      /\ e.size = d.size /\ e.ready = d.ready /\ e.flight = d.flight
  BY <1>1, <1>2 DEF Sink
<1>4. Honest(d) => Honest(e)
  BY <1>1, <1>3 DEF Honest
<1> QED BY <1>1, <1>3, <1>4 DEF SinkKept, SinkGoesOn, Orderly, e, told

LEMMA JoinsQueue ==
  ASSUME NEW d \in Sink, d.state = "writable", NEW close \in BOOLEAN, NEW chunk \in Nat,
         NEW size \in Int
  PROVE  LET e == [Push(d, close, chunk) EXCEPT !.size = size] IN
         /\ SinkKept(d, e) /\ SinkKept(d, Push(d, close, chunk))
         /\ e.told # <<>> /\ Push(d, close, chunk).told # <<>>
<1> DEFINE c == Call(d, "pending")
           job == [call |-> Len(d.told) + 1, close |-> close, chunk |-> chunk]
           queue == Append(c.queue, job)
           u == Push(d, close, chunk)
           e == [u EXCEPT !.size = size]
<1>1. /\ SinkKept(d, c) /\ c.told # <<>> /\ c \in Sink /\ c.state = "writable"
      /\ c.queue \in Seq(Job)
  BY CallsMade, SinkFields DEF SinkKept, Answers
<1>2. Len(d.told) + 1 \in Nat
  BY SinkFields
<1>3. job \in Job
  BY <1>2 DEF Job
<1>4. u = [c EXCEPT !.queue = queue]
  BY DEF Push
<1> HIDE DEF job, c
<1>5. queue \in Seq(Job) /\ queue # <<>>
  BY <1>1, <1>3, AppendProperties
<1> HIDE DEF queue, u
<1>6. /\ u \in Sink /\ u.told = c.told /\ u.state = c.state /\ u.queue = queue
      /\ u.ready = c.ready /\ u.flight = c.flight
  BY <1>1, <1>4, <1>5 DEF Sink
<1>7. /\ e \in Sink /\ e.told = u.told /\ e.state = u.state /\ e.queue = u.queue
      /\ e.ready = u.ready /\ e.flight = u.flight
  BY <1>6 DEF Sink
<1> HIDE DEF e
<1>8. SinkKept(c, u) /\ SinkKept(c, e)
  BY <1>1, <1>5, <1>6, <1>7 DEF SinkKept, SinkGoesOn, Honest, Orderly
<1> QED BY <1>1, <1>6, <1>7, <1>8, SinkThen DEF u, e

LEMMA MakesWrite ==
  ASSUME NEW d \in Sink, NEW n \in Nat PROVE SinkKept(d, Write(d, n)) /\ Write(d, n).told # <<>>
<1>1. CASE d.state # "writable"
  BY <1>1, CallsMade DEF Write, Answers
<1>2. CASE d.state = "writable"
  <2> DEFINE u == Push(d, FALSE, n)
             e == [u EXCEPT !.size = u.size + 1]
             f == UpdateReady(e)
  <2> HIDE DEF u
  <2>0. u \in Sink
    BY <1>2, JoinsQueue, 0 \in Int DEF SinkKept, u
  <2>1. u.size + 1 \in Int
    BY <2>0, SinkFields
  <2> USE DEF u
  <2>2. SinkKept(d, e) /\ e.told # <<>> /\ e \in Sink
    BY <1>2, <2>1, JoinsQueue DEF SinkKept
  <2>3. Write(d, n) = Advance(f)
    BY <1>2 DEF Write
  <2> HIDE DEF e
  <2>4. SinkKept(e, f) /\ f \in Sink
    BY <2>2, Updates DEF SinkKept
  <2> HIDE DEF f
  <2>5. SinkKept(f, Write(d, n))
    BY <2>3, <2>4, Advances
  <2> QED BY <2>2, <2>4, <2>5, SinkThen DEF SinkKept, SinkGoesOn
<1> QED BY <1>1, <1>2

LEMMA MakesClose ==
  ASSUME NEW d \in Sink PROVE SinkKept(d, Close(d)) /\ Close(d).told # <<>>
<1>1. CASE d.state # "writable"
  BY <1>1, CallsMade DEF Close, Answers
<1>2. CASE d.state = "writable"
  <2> DEFINE u == Push(d, TRUE, 0)
  <2>1. SinkKept(d, u) /\ u.told # <<>> /\ u \in Sink
    BY <1>2, JoinsQueue, 0 \in Int DEF SinkKept
  <2>2. Close(d) = Advance(u)
    BY <1>2 DEF Close
  <2> HIDE DEF u
  <2>3. SinkKept(u, Close(d))
    BY <2>1, <2>2, Advances
  <2> QED BY <2>1, <2>3, SinkThen DEF SinkKept, SinkGoesOn
<1> QED BY <1>1, <1>2

\* The job in flight fails, and the destination with it.
Dropped(d) == [d EXCEPT !.flight = "no",
                        !.told = IF d.queue = <<>> THEN @ ELSE WRejected(d, {InFlight(d).call})]

LEMMA FlightFails ==
  ASSUME NEW d \in Sink, Orderly(d) PROVE SinkKept(d, WritableError(Dropped(d)))
<1> DEFINE told == IF d.queue = <<>> THEN d.told ELSE WRejected(d, {InFlight(d).call})
           u == [d EXCEPT !.flight = "no", !.told = told]
           e == WritableError(Dropped(d))
<1>1. told \in Seq(Answers) /\ Len(told) = Len(d.told) /\ Len(d.told) \in Nat
  BY RejectedType, SinkFields
<1>2. e = WritableError(u)
  BY DEF Sink, Dropped
<1> HIDE DEF e
<1>3. d.told # <<>> => told # <<>>
  BY <1>1
<1> HIDE DEF told
<1>4. u \in Sink /\ u.told = told /\ u.state = d.state /\ u.queue = d.queue
  BY <1>1 DEF Sink
<1> HIDE DEF u
<1>5. e \in Sink /\ e.state = "errored" /\ e.queue = <<>> /\ (u.told # <<>> => e.told # <<>>)
  BY <1>2, <1>4, Fails DEF Orderly
<1> QED BY <1>3, <1>4, <1>5 DEF SinkKept, SinkGoesOn, Honest, Orderly, e

LEMMA BeginsToo == ASSUME NEW d \in Sink PROVE SinkKept(d, [d EXCEPT !.start = "resolved"])
<1> DEFINE e == [d EXCEPT !.start = "resolved"]
<1>1. /\ e \in Sink /\ e.state = d.state /\ e.queue = d.queue /\ e.told = d.told
      /\ e.ready = d.ready /\ e.flight = d.flight
  BY DEF Sink, Answers
<1> HIDE DEF e
<1> QED BY <1>1 DEF SinkKept, SinkGoesOn, Honest, Orderly, e

LEMMA IsCalled ==
  ASSUME NEW d \in Sink, Orderly(d), MayCallSink(d) PROVE SinkKept(d, SinkCalled(d))
<1>1. CASE d.state = "errored" \/ d.start = "rejected"
  <2>1. SinkCalled(d) = WritableError(Dropped(d))
    BY ONLY <1>1 DEF SinkCalled, Dropped
  <2> QED BY <2>1, FlightFails
<1>2. CASE ~(d.state = "errored" \/ d.start = "rejected")
  <2>1. d.queue # <<>> /\ d.queue \in Seq(Job)
    BY <1>2, SinkFields DEF Orderly, MayCallSink
  <2>2. InFlight(d) \in Job
    BY <2>1, HeadTailProperties DEF InFlight
  <2> DEFINE tk == Append(d.taken, InFlight(d).chunk)
             c == [d EXCEPT !.flight = "closing", !.over = TRUE]
             t == [d EXCEPT !.flight = "writing", !.taken = tk]
  <2>3. tk \in Seq(Nat)
    BY <2>2, SinkFields DEF Job
  <2>4. SinkCalled(d) \in {c, t}
    BY <1>2 DEF SinkCalled
  <2> HIDE DEF tk
  <2>5. \A e \in {c, t} : /\ e \in Sink /\ e.told = d.told /\ e.state = d.state
                         /\ e.queue = d.queue /\ e.ready = d.ready
    BY <2>3 DEF Sink
  <2> HIDE DEF c, t
  <2> QED BY <2>1, <2>4, <2>5 DEF SinkKept, SinkGoesOn, Honest, Orderly
<1> QED BY <1>1, <1>2

LEMMA IsDone ==
  ASSUME NEW d \in Sink, SinkBusy(d) PROVE SinkKept(d, SinkDone(d))
<1> DEFINE close == d.flight = "closing"
           told == [i \in DOMAIN d.told |-> IF i = InFlight(d).call THEN "resolved" ELSE d.told[i]]
           size == IF close THEN d.size ELSE d.size - 1
           rest == [d EXCEPT !.queue = Tail(@), !.size = size, !.told = told]
           left == IF d.queue = <<>> THEN d
                   ELSE [d EXCEPT !.queue = Tail(@), !.size = IF close THEN @ ELSE @ - 1,
                           !.told = [i \in DOMAIN @ |-> IF i = InFlight(d).call
                                                        THEN "resolved" ELSE @[i]]]
           idle == [left EXCEPT !.flight = "no", !.state = IF close THEN "closed" ELSE @,
                      !.closed = IF close /\ d.locked /\ @ = "pending" THEN "resolved" ELSE @]
<1>1. SinkDone(d) = Advance(UpdateReady(idle))
  BY DEF SinkDone
<1>2. /\ told \in Seq(Answers) /\ Len(told) = Len(d.told) /\ size \in Int
      /\ \A i \in 1..Len(told) : told[i] \in {"resolved", d.told[i]}
      /\ d.told # <<>> => told # <<>>
  <2>1. d.told \in Seq(Answers) /\ Len(d.told) \in Nat /\ DOMAIN d.told = 1..Len(d.told)
    BY SinkFields
  <2>2. told \in Seq(Answers) /\ Len(told) = Len(d.told)
    BY <2>1 DEF Answers
  <2>3. size \in Int
    BY SinkFields
  <2> QED BY <2>1, <2>2, <2>3
<1>3. left \in {d, rest} /\ (left = rest => d.queue # <<>> \/ rest = d)
  BY DEF Sink
<1>4. d.queue # <<>> => Tail(d.queue) \in Seq(Job)
  BY SinkFields, HeadTailProperties
<1>5. left \in Sink /\ left.told \in {told, d.told} /\ left.state = d.state /\ left.ready = d.ready
  <2>1. CASE d.queue = <<>>
    BY <2>1
  <2>2. CASE d.queue # <<>>
    <3>1. left = rest
      BY <2>2 DEF Sink
    <3> HIDE DEF left, told, size
    <3>2. rest \in Sink /\ rest.told = told /\ rest.state = d.state /\ rest.ready = d.ready
      BY <1>2, <1>4, <2>2 DEF Sink
    <3> QED BY <3>1, <3>2
  <2> QED BY <2>1, <2>2
<1> HIDE DEF left, told, size
<1>6. /\ idle \in Sink /\ idle.told = left.told /\ idle.state \in {left.state, "closed"}
      /\ idle.ready = left.ready /\ idle.flight = "no" /\ idle.queue = left.queue
  <2>1. left.closed \in {"none"} \cup Answers /\ left.state \in {"writable", "closed", "errored"}
    BY <1>5, SinkFields
  <2> DEFINE cl == IF close /\ d.locked /\ left.closed = "pending" THEN "resolved" ELSE left.closed
             st == IF close THEN "closed" ELSE left.state
  <2>2. cl \in {"none"} \cup Answers /\ st \in {"writable", "closed", "errored"}
    BY <2>1 DEF Answers
  <2>3. idle = [left EXCEPT !.flight = "no", !.state = st, !.closed = cl]
    BY <1>5 DEF Sink
  <2>4. st \in {left.state, "closed"}
    OBVIOUS
  <2> HIDE DEF st, cl, idle
  <2>5. /\ idle \in Sink /\ idle.told = left.told /\ idle.state = st
        /\ idle.ready = left.ready /\ idle.flight = "no" /\ idle.queue = left.queue
    BY ONLY <1>5, <2>2, <2>3 DEF Sink
  <2> QED BY <2>4, <2>5
<1> HIDE DEF idle
<1>7. Orderly(d) => (idle.state = "errored" => idle.queue = <<>>)
  <2>1. d.queue = <<>> => left.queue = <<>>
    BY DEF left
  <2> QED BY <1>5, <1>6, <2>1 DEF Orderly
<1>8. SinkKept(d, idle)
  <2>1. d.told # <<>> => idle.told # <<>>
    BY <1>2, <1>5, <1>6
  <2>2. Honest(d) => Honest(idle)
    BY <1>2, <1>5, <1>6 DEF Honest
  <2>3. Orderly(d) => Orderly(idle)
    BY <1>5, <1>6, <1>7 DEF Orderly
  <2>4. d.state # "writable" => idle.state # "writable"
    BY <1>5, <1>6
  <2> QED BY <1>6, <2>1, <2>2, <2>3, <2>4 DEF SinkKept, SinkGoesOn
<1>9. SinkKept(idle, UpdateReady(idle)) /\ UpdateReady(idle) \in Sink
  BY <1>6, Updates DEF SinkKept
<1>10. SinkKept(UpdateReady(idle), SinkDone(d))
  BY <1>1, <1>9, Advances
<1> QED BY <1>8, <1>9, <1>10, SinkThen

-----------------------------------------------------------------------------
(* The pipe's steps.                                                       *)

Chunks0 == MaxHWM \in Nat /\ MaxChunks \in Nat

LEMMA PipeInit == ASSUME Chunks0, Init PROVE PipeInv
<1>1. PICK m \in 0..MaxHWM, n \in 0..MaxHWM : src = Attach(Fresh(m)) /\ w = GetWriter(Blank(n + 1))
  BY DEF Init
<1>2. m \in Nat /\ n + 1 \in Nat /\ n + 1 > 0
  BY DEF Chunks0
<1>3. src \in Source /\ src.told = <<>> /\ src.state = "readable"
  <2> DEFINE f == Fresh(m)
  <2>1. f \in Source /\ f.told = <<>> /\ f.state = "readable"
    BY <1>2 DEF Fresh, Source
  <2> HIDE DEF f
  <2>2. src = [f EXCEPT !.locked = TRUE, !.closed = "pending"]
    BY <1>1, <2>1 DEF Attach, f
  <2> QED BY <2>1, <2>2 DEF Source
<1>4. w \in Sink /\ w.told = <<>> /\ w.state = "writable" /\ w.ready = "resolved"
      /\ w.flight = "no"
  <2> DEFINE b == Blank(n + 1)
  <2>1. /\ b \in Sink /\ b.told = <<>> /\ b.state = "writable" /\ b.flight = "no"
        /\ b.hwm = n + 1 /\ b.size = 0
    BY <1>2 DEF Blank, Sink, Answers
  <2> HIDE DEF b
  <2>2. w = [b EXCEPT !.locked = TRUE, !.ready = "resolved", !.closed = "pending"]
    <3>1. Room(b) > 0
      BY <1>2, <2>1 DEF Room
    <3> QED BY <1>1, <2>1, <3>1 DEF GetWriter, b
  <2> QED BY <2>1, <2>2 DEF Sink, Answers
<1>5. TypeOK
  BY DEF Init, TypeOK, Chunks0
<1>6. Under /\ Orderly(w)
  BY <1>3, <1>4 DEF Init, Under, Truly, Honest, Orderly
<1> QED BY <1>3, <1>4, <1>5, <1>6 DEF PipeInv

\* What is heard last.
LEMMA HeardLast ==
  ASSUME PipeInv, src.told # <<>>
  PROVE  /\ Heard \in Tellings
         /\ Truly(src) /\ src.state = "readable" => Heard.is \in {"waiting", "chunk"}
<1>1. src.told \in Seq(Tellings) /\ Len(src.told) \in 1..Len(src.told)
  BY DEF PipeInv, Source
<1> QED BY <1>1 DEF Heard, Truly

LEMMA WrittenLast ==
  ASSUME PipeInv, w.told # <<>>
  PROVE  /\ Written \in Answers
         /\ Honest(w) /\ w.state = "writable" => Written # "rejected"
<1>1. w.told \in Seq(Answers) /\ Len(w.told) \in 1..Len(w.told)
  BY DEF PipeInv, Sink
<1> QED BY <1>1 DEF Written, Honest

\* A step that only moves the pipe, and one that ends it.
Types(q) ==
  q \in [at : {"ready", "reading", "writing", "closing", "over"}, prevent : Options,
         stopped : BOOLEAN, done : {"pending", "resolved", "rejected"},
         aborted : {"no", "telling", "told"}]

LEMMA Stays ==
  ASSUME PipeInv, TypeOK', SourceKept(src, src'), SinkKept(w, w'),
         p'.stopped = p.stopped, p'.done = p.done, p'.aborted = p.aborted,
         p'.prevent = p.prevent,
         ~p.stopped => /\ p'.at = "reading" => src'.told # <<>>
                       /\ p'.at \in {"writing", "closing"} => w'.told # <<>>
                       /\ p'.at = "closing" => src'.state # "readable"
  PROVE  PipeInv'
<1>1. src' \in Source /\ w' \in Sink /\ Orderly(w')
  BY DEF PipeInv, SourceKept, SinkKept
<1>2. ASSUME ~p'.stopped PROVE p'.done = "pending" /\ Truly(src') /\ Honest(w')
  BY <1>2 DEF PipeInv, Under, SourceKept, SinkKept
<1>3. ASSUME ~p'.stopped, p'.aborted # "no"
      PROVE  /\ Keeps("abort")' => w'.state # "writable"
             /\ Keeps("cancel")' => src'.state # "readable"
  BY <1>3 DEF PipeInv, Under, SourceKept, SinkKept, SourceGoesOn, SinkGoesOn, Keeps
<1> QED BY <1>1, <1>2, <1>3 DEF PipeInv, Under

LEMMA Finishes ==
  ASSUME PipeInv, Outside, NEW s, SourceKept(src, s), NEW d, SinkKept(w, d), NEW answer,
         ~p.stopped => answer \in Answers, Finish(s, d, answer)
  PROVE  PipeInv'
<1>1. s \in Source /\ d \in Sink /\ Orderly(d)
  BY DEF PipeInv, SourceKept, SinkKept
<1>2. src' \in Source /\ w' \in Sink /\ Orderly(w')
  BY <1>1, Leaves, LeavesWriter DEF Finish
<1>3. TypeOK' /\ p'.stopped = TRUE
  BY DEF PipeInv, TypeOK, Finish, Outside, Answers
<1> QED BY <1>2, <1>3 DEF PipeInv, Under

LEMMA FinishTells ==
  ASSUME PipeInv, ~p.stopped, NEW s \in Source, NEW d \in Sink, NEW answer,
         Finish(s, d, answer),
         answer = "rejected" => /\ Keeps("abort") => d.state # "writable"
                                /\ Keeps("cancel") => s.state # "readable"
  PROVE  BothAreTold
<1>1. src' = Release(s) /\ w' = ReleaseWriter(d) /\ p'.done = answer
  BY DEF Finish, PipeInv, TypeOK
<1>2. src'.state = s.state /\ w'.state = d.state
  BY <1>1, Leaves, LeavesWriter
<1> QED BY <1>1, <1>2 DEF BothAreTold

LEMMA CanceledKept ==
  ASSUME PipeInv
  PROVE  SourceKept(src, Canceled(src)) /\ (Keeps("cancel") => Canceled(src).state # "readable")
BY Cancels, SourceSame DEF Canceled, PipeInv

LEMMA AbortedKept ==
  ASSUME PipeInv
  PROVE  SinkKept(w, Aborted(w)) /\ (Keeps("abort") => Aborted(w).state # "writable")
BY Aborts, SinkSame DEF Aborted, PipeInv

LEMMA Sames ==
  ASSUME PipeInv
  PROVE  /\ SourceKept(src, src) /\ SinkKept(w, w) /\ src \in Source /\ w \in Sink
         /\ ~p.stopped => p.done = "pending"
BY SourceSame, SinkSame DEF PipeInv, Under

\* Each action keeps the invariant.
LEMMA RoomKept == ASSUME PipeInv, RoomHeard PROVE PipeInv'
<1>1. CASE p.stopped /\ p' = [p EXCEPT !.at = "over"] /\ UNCHANGED <<src, w>>
  <2>1. TypeOK' /\ p'.stopped /\ src' = src /\ w' = w
    BY <1>1 DEF RoomHeard, Outside, PipeInv, TypeOK
  <2> QED BY <2>1 DEF PipeInv, Under
<1>2. CASE ~p.stopped /\ src' = Read(src) /\ p' = [p EXCEPT !.at = "reading"] /\ UNCHANGED w
  <2>1. /\ TypeOK' /\ p'.at = "reading" /\ p'.stopped = p.stopped /\ p'.done = p.done
        /\ p'.aborted = p.aborted /\ p'.prevent = p.prevent
    BY <1>2 DEF RoomHeard, Outside, PipeInv, TypeOK
  <2>2. SourceKept(src, src') /\ src'.told # <<>> /\ SinkKept(w, w')
    BY <1>2, Sames, MakesRead
  <2> QED BY <2>1, <2>2, Stays
<1>3. CASE Finish(Canceled(src), w, "rejected")
  BY <1>3, CanceledKept, Sames, Finishes DEF RoomHeard, Answers
<1> QED BY <1>1, <1>2, <1>3 DEF RoomHeard

LEMMA EndKept ==
  ASSUME PipeInv, ~p.stopped, p.at = "reading", Heard.is = "done", EndOfSource, Outside
  PROVE  PipeInv'
<1>1. CASE w' = Close(w) /\ p' = [p EXCEPT !.at = "closing"] /\ UNCHANGED src
  <2>1. /\ TypeOK' /\ p'.at = "closing" /\ p'.stopped = p.stopped /\ p'.done = p.done
        /\ p'.aborted = p.aborted /\ p'.prevent = p.prevent
    BY <1>1 DEF Outside, PipeInv, TypeOK
  <2>2. SinkKept(w, w') /\ w'.told # <<>> /\ SourceKept(src, src')
    BY <1>1, Sames, MakesClose
  <2>3. src'.state # "readable"
    BY <1>1, HeardLast DEF PipeInv, Under
  <2> QED BY <2>1, <2>2, <2>3, Stays
<1>2. CASE Finish(src, w, "resolved")
  BY <1>2, Sames, Finishes DEF Answers
<1> QED BY <1>1, <1>2 DEF EndOfSource

LEMMA ReadKept == ASSUME PipeInv, ReadHeard PROVE PipeInv'
<1>1. CASE p.stopped /\ p' = [p EXCEPT !.at = "over"] /\ UNCHANGED <<src, w>>
  <2>1. TypeOK' /\ p'.stopped /\ src' = src /\ w' = w
    BY <1>1 DEF ReadHeard, Outside, PipeInv, TypeOK
  <2> QED BY <2>1 DEF PipeInv, Under
<1>2. CASE ~p.stopped /\ w' = Write(w, Heard.chunk) /\ p' = [p EXCEPT !.at = "writing"] /\ UNCHANGED src
  <2>1. /\ TypeOK' /\ p'.at = "writing" /\ p'.stopped = p.stopped /\ p'.done = p.done
        /\ p'.aborted = p.aborted /\ p'.prevent = p.prevent
    BY <1>2 DEF ReadHeard, Outside, PipeInv, TypeOK
  <2>2. Heard.chunk \in Nat
    BY <1>2, HeardLast DEF ReadHeard, PipeInv, Under, Tellings
  <2>3. SinkKept(w, w') /\ w'.told # <<>> /\ SourceKept(src, src')
    BY <1>2, <2>2, Sames, MakesWrite
  <2> QED BY <2>1, <2>3, Stays
<1>3. CASE ~p.stopped /\ Heard.is = "done" /\ EndOfSource
  BY <1>3, EndKept DEF ReadHeard
<1>4. CASE Finish(src, Aborted(w), "rejected")
  BY <1>4, AbortedKept, Sames, Finishes DEF ReadHeard, Answers
<1> QED BY <1>1, <1>2, <1>3, <1>4 DEF ReadHeard

LEMMA WriteKept == ASSUME PipeInv, WriteHeard PROVE PipeInv'
<1>1. CASE p.stopped /\ p' = [p EXCEPT !.at = "over"] /\ UNCHANGED <<src, w>>
  <2>1. TypeOK' /\ p'.stopped /\ src' = src /\ w' = w
    BY <1>1 DEF WriteHeard, Outside, PipeInv, TypeOK
  <2> QED BY <2>1 DEF PipeInv, Under
<1>2. CASE p' = [p EXCEPT !.at = "ready"] /\ UNCHANGED <<src, w>>
  <2>1. /\ TypeOK' /\ p'.at = "ready" /\ p'.stopped = p.stopped /\ p'.done = p.done
        /\ p'.aborted = p.aborted /\ p'.prevent = p.prevent
    BY <1>2 DEF WriteHeard, Outside, PipeInv, TypeOK
  <2>2. SourceKept(src, src') /\ SinkKept(w, w')
    BY <1>2, Sames
  <2> QED BY <2>1, <2>2, Stays
<1>3. CASE Finish(Canceled(src), w, "rejected")
  BY <1>3, CanceledKept, Sames, Finishes DEF WriteHeard, Answers
<1> QED BY <1>1, <1>2, <1>3 DEF WriteHeard, Step

LEMMA CloseKept == ASSUME PipeInv, CloseHeard PROVE PipeInv'
<1>1. ~p.stopped => Written \in Answers
  BY WrittenLast DEF CloseHeard, PipeInv, Under
<1> QED BY <1>1, Sames, Finishes DEF CloseHeard

LEMMA AbortEndKept == ASSUME PipeInv, AbortEnds PROVE PipeInv'
<1>1. TypeOK' /\ p'.stopped
  BY DEF AbortEnds, Outside, PipeInv, TypeOK
<1>2. src' \in {src, Release(src)} /\ w' \in {w, ReleaseWriter(w)}
  BY DEF AbortEnds
<1>3. src' \in Source /\ w' \in Sink /\ Orderly(w')
  BY <1>2, Leaves, LeavesWriter DEF PipeInv
<1> QED BY <1>1, <1>3 DEF PipeInv, Under

LEMMA SignalKept == ASSUME PipeInv, SignalAborts PROVE PipeInv'
<1>1. /\ TypeOK' /\ p'.at = p.at /\ p'.stopped = p.stopped /\ p'.done = p.done
      /\ p'.prevent = p.prevent
  BY DEF SignalAborts, Outside, PipeInv, TypeOK
<1>2. SourceKept(src, src') /\ (Keeps("cancel") => src'.state # "readable")
  BY CanceledKept DEF SignalAborts
<1>3. SinkKept(w, w') /\ (Keeps("abort") => w'.state # "writable")
  BY AbortedKept DEF SignalAborts
<1>4. src' \in Source /\ w' \in Sink /\ Orderly(w')
  BY <1>2, <1>3 DEF PipeInv, SourceKept, SinkKept
<1>5. Under'
  BY <1>1, <1>2, <1>3 DEF PipeInv, Under, Keeps, SourceKept, SinkKept, SourceGoesOn, SinkGoesOn,
                         SignalAborts
<1> QED BY <1>1, <1>4, <1>5 DEF PipeInv

\* The source's and the sink's steps leave the pipe where it is.
LEMMA OthersKept ==
  ASSUME PipeInv, UNCHANGED p, TypeOK', SourceKept(src, src'), SinkKept(w, w') PROVE PipeInv'
<1>1. ~p.stopped => /\ p'.at = "reading" => src'.told # <<>>
                    /\ p'.at \in {"writing", "closing"} => w'.told # <<>>
                    /\ p'.at = "closing" => src'.state # "readable"
  BY DEF PipeInv, Under, SourceKept, SinkKept, SourceGoesOn, SinkGoesOn
<1> QED BY <1>1, Stays

LEMMA SourceActsKept == ASSUME Chunks0, PipeInv, SourceActs PROVE PipeInv'
<1>1. src \in Source /\ env.made \in Nat
  BY DEF PipeInv, TypeOK, Chunks0
<1>2. src' \in {Started(src), Enqueue(src, env.made + 1), ControllerClose(src),
                ControllerError(src), PullEnded(src)}
  BY DEF SourceActs
<1>3. SourceKept(src, src')
  BY <1>1, <1>2, Starts, Enqueues, ClosesSoon, Errs, PullsEnd
<1>4. env' \in [gave : BOOLEAN, made : 0..MaxChunks, sinkFailed : BOOLEAN]
  <2>1. env \in [gave : BOOLEAN, made : 0..MaxChunks, sinkFailed : BOOLEAN]
    BY DEF PipeInv, TypeOK
  <2>2. \/ env' = env
        \/ env.made < MaxChunks /\ env' = [env EXCEPT !.gave = TRUE, !.made = @ + 1]
        \/ env' = [env EXCEPT !.gave = TRUE]
        \/ env' = [env EXCEPT !.gave = FALSE]
    BY DEF SourceActs, Outside
  <2>3. env.made < MaxChunks => env.made + 1 \in 0..MaxChunks
    BY <2>1 DEF Chunks0
  <2> QED BY <2>1, <2>2, <2>3
<1>5. UNCHANGED p /\ SinkKept(w, w')
  BY Sames DEF SourceActs
<1>6. TypeOK'
  BY <1>4, <1>5 DEF PipeInv, TypeOK
<1> QED BY <1>3, <1>5, <1>6, OthersKept

LEMMA SinkActsKept == ASSUME PipeInv, SinkActs \/ SinkErrs PROVE PipeInv'
<1>1. SinkKept(w, w')
  <2>1. w \in Sink /\ Orderly(w)
    BY DEF PipeInv
  <2>2. \/ w' = [w EXCEPT !.start = "resolved"]
        \/ MayCallSink(w) /\ w' = SinkCalled(w)
        \/ SinkBusy(w) /\ w' = SinkDone(w)
        \/ SinkBusy(w) /\ w' = WritableError(Dropped(w))
        \/ w' = WritableError(w)
    BY DEF SinkActs, SinkErrs, SinkFailed, Dropped
  <2> QED BY <2>1, <2>2, BeginsToo, IsCalled, IsDone, FlightFails, FailsKept
<1>2. TypeOK' /\ UNCHANGED p /\ SourceKept(src, src')
  BY Sames DEF SinkActs, SinkErrs, Outside, PipeInv, TypeOK
<1> QED BY <1>1, <1>2, OthersKept

LEMMA PipeKept == ASSUME Chunks0, PipeInv, [Next]_vars PROVE PipeInv'
<1>1. CASE UNCHANGED vars
  BY <1>1 DEF vars, PipeInv, TypeOK, Under, Keeps
<1> QED BY <1>1, RoomKept, ReadKept, WriteKept, CloseKept, AbortEndKept, SignalKept,
           SourceActsKept, SinkActsKept DEF Next, PipeActs

\* A step that fails the pipe finds the end that failed, and tells the other.
LEMMA StepTells == ASSUME PipeInv, [Next]_vars PROVE BothAreTold
<1> SUFFICES ASSUME ~p.stopped, p'.done = "rejected" PROVE BothAreTold
  BY DEF BothAreTold
<1>1. /\ p.done = "pending" /\ Truly(src) /\ Honest(w) /\ src \in Source /\ w \in Sink
      /\ Types(p)
  BY DEF PipeInv, Under, TypeOK, Types
<1>2. /\ Canceled(src) \in Source /\ (Keeps("cancel") => Canceled(src).state # "readable")
      /\ Aborted(w) \in Sink /\ (Keeps("abort") => Aborted(w).state # "writable")
  BY CanceledKept, AbortedKept DEF SourceKept, SinkKept
<1>3. CASE RoomHeard
  <2>1. w.ready = "rejected" /\ Finish(Canceled(src), w, "rejected")
    BY <1>1, <1>3 DEF RoomHeard, Types
  <2>2. w.state # "writable"
    BY <1>1, <2>1 DEF Honest
  <2> QED BY <1>1, <1>2, <2>1, <2>2, FinishTells
<1>4. CASE ReadHeard
  <2>1. src.told # <<>>
    BY <1>4 DEF ReadHeard, PipeInv, Under
  <2>2. CASE Heard.is \in {"failed", "released"} /\ Finish(src, Aborted(w), "rejected")
    <3>1. src.state # "readable"
      BY <1>1, <2>1, <2>2, HeardLast
    <3> QED BY <1>1, <1>2, <2>2, <3>1, FinishTells
  <2>3. CASE Finish(src, w, "resolved")
    BY <1>1, <2>3, FinishTells
  <2> QED BY <1>1, <1>4, <2>2, <2>3 DEF ReadHeard, EndOfSource, Types
<1>5. CASE WriteHeard
  <2>1. w.told # <<>>
    BY <1>5 DEF WriteHeard, PipeInv, Under
  <2>2. Finish(Canceled(src), w, "rejected") /\ (Written = "rejected" \/ w.state = "errored")
    BY <1>1, <1>5 DEF WriteHeard, Step, Types
  <2>3. w.state # "writable"
    BY <1>1, <2>1, <2>2, WrittenLast
  <2> QED BY <1>1, <1>2, <2>2, <2>3, FinishTells
<1>6. CASE CloseHeard
  <2>1. w.told # <<>> /\ src.state # "readable" /\ Finish(src, w, Written)
    BY <1>6 DEF CloseHeard, PipeInv, Under
  <2>2. Written = "rejected" => w.state # "writable"
    BY <1>1, <2>1, WrittenLast
  <2> QED BY <1>1, <2>1, <2>2, FinishTells
<1>7. CASE AbortEnds
  <2>1. /\ src' = Release(src) /\ w' = ReleaseWriter(w)
        /\ Keeps("abort") => w.state # "writable"
        /\ Keeps("cancel") => src.state # "readable"
    BY <1>7 DEF AbortEnds, PipeInv, Under
  <2>2. src'.state = src.state /\ w'.state = w.state
    BY <1>1, <2>1, Leaves, LeavesWriter
  <2> QED BY <2>1, <2>2 DEF BothAreTold
<1>8. CASE SignalAborts
  BY <1>1, <1>8 DEF SignalAborts, Types
<1>9. CASE SourceActs \/ SinkActs \/ SinkErrs \/ UNCHANGED vars
  BY <1>1, <1>9 DEF SourceActs, SinkActs, SinkErrs, vars
<1> QED BY <1>3, <1>4, <1>5, <1>6, <1>7, <1>8, <1>9 DEF Next, PipeActs

\* A pipe that fails leaves neither end waiting, whatever the marks and however
\* many chunks (streamPipeTo).
THEOREM BothEndsAreTold ==
  ASSUME Chunks0 PROVE Spec => [][BothAreTold]_vars
<1>1. Init => PipeInv
  BY PipeInit
<1>2. PipeInv /\ [Next]_vars => PipeInv'
  BY PipeKept
<1>3. PipeInv /\ [Next]_vars => [BothAreTold]_vars
  BY StepTells
<1> QED BY <1>1, <1>2, <1>3, PTL DEF Spec

=============================================================================
