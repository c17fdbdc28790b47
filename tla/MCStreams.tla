----------------------------- MODULE MCStreams ------------------------------
(***************************************************************************)
(* Streams, one use at a time: a readable stream and its readers, a stream *)
(* of bytes, a stream teed, a writable stream, a pipe, a transform.  `use' *)
(* says which.  The first is that of ReadableStream itself, whose          *)
(* variables stay as they began in the other uses; what the others are     *)
(* made of is not there when it is not their turn.                         *)
(***************************************************************************)
EXTENDS ReadableStream

CONSTANTS HWM, MaxBytes, MaxView, MaxCalls

VARIABLES use, b, t, given, taken, lost, w, wrote, src, p, env, out, x

others == <<b, t, given, taken, lost, w, wrote, src, p, env, out, x>>
allVars == <<use, vars, others>>

Bytes == INSTANCE ByteStream WITH gave <- given, made <- taken, MaxReads <- 2
Teed == INSTANCE Tee WITH gave <- given, made <- taken, MaxHWM <- 1, MaxReads <- 2
Written == INSTANCE WritableStream
Piped == INSTANCE Pipe WITH MaxChunks <- 2, MaxHWM <- 1
Transformed == INSTANCE Transform WITH
  MaxWrites <- 3, MaxMade <- 3, MaxReads <- 2, r <- out

Gone == "not there"
No(v) == v = Gone
ByReader == use = "reader"
ByBytes == use = "bytes"
ByTee == use = "tee"
ByWriter == use = "writer"
ByPipe == use = "pipe"
ByTransform == use = "transform"

Unread == /\ r = Fresh(0) /\ polite = TRUE /\ gave = FALSE /\ made = 0
          /\ dropped = FALSE /\ iter = NotIterating

Starts ==
  \/ ByReader /\ Init /\ No(b) /\ No(t) /\ No(given) /\ No(taken) /\ No(lost)
     /\ No(w) /\ No(wrote) /\ No(src) /\ No(p) /\ No(env) /\ No(out) /\ No(x)
  \/ /\ Unread
     /\ \/ ByBytes /\ Bytes!Init /\ No(t) /\ No(w) /\ No(wrote) /\ No(src) /\ No(p)
           /\ No(env) /\ No(out) /\ No(x)
        \/ ByTee /\ Teed!Init /\ No(b) /\ No(lost) /\ No(w) /\ No(wrote) /\ No(src)
           /\ No(p) /\ No(env) /\ No(out) /\ No(x)
        \/ ByWriter /\ Written!Init /\ No(b) /\ No(t) /\ No(given) /\ No(taken)
           /\ No(lost) /\ No(src) /\ No(p) /\ No(env) /\ No(out) /\ No(x)
        \/ ByPipe /\ Piped!Init /\ No(b) /\ No(t) /\ No(given) /\ No(taken) /\ No(lost)
           /\ No(wrote) /\ No(out) /\ No(x)
        \/ ByTransform /\ Transformed!Init /\ No(b) /\ No(t) /\ No(given) /\ No(taken)
           /\ No(lost) /\ No(wrote) /\ No(src) /\ No(p) /\ No(env)

Goes ==
  /\ UNCHANGED use
  /\ \/ ByReader /\ Next /\ UNCHANGED others
     \/ /\ UNCHANGED vars
        /\ \/ ByBytes /\ Bytes!Next /\ UNCHANGED <<t, w, wrote, src, p, env, out, x>>
           \/ ByTee /\ Teed!Next /\ UNCHANGED <<b, lost, w, wrote, src, p, env, out, x>>
           \/ ByWriter /\ Written!Next
              /\ UNCHANGED <<b, t, given, taken, lost, src, p, env, out, x>>
           \/ ByPipe /\ Piped!Next
              /\ UNCHANGED <<b, t, given, taken, lost, wrote, out, x>>
           \/ ByTransform /\ Transformed!Next
              /\ UNCHANGED <<b, t, given, taken, lost, wrote, src, p, env>>

(* Callbacks of settled promises run; sources and sinks answer.            *)
AllSpec ==
  /\ Starts /\ [][Goes]_allVars
  /\ WF_vars(ByReader /\ (StartEnds \/ StartFails))
  /\ WF_vars(ByReader /\ Answers) /\ WF_vars(ByReader /\ polite /\ PullEnds)
  /\ WF_<<t, given, taken>>(ByTee /\ (Teed!TeeActs \/ Teed!SourceActs))
  /\ WF_<<w, wrote>>(ByWriter /\ Written!SinkActs)
  /\ WF_<<src, w, p, env>>(ByPipe /\ (Piped!PipeActs \/ Piped!SourceActs \/ Piped!SinkActs))

-----------------------------------------------------------------------------
(* The properties are those of the modules, each of its own use.           *)

\* ReadableStream: reads get the chunks in order, wait only for what is not
\* there, while the source is being asked, and no more is asked for than there
\* is room or want of; a closed stream keeps nothing.
ReaderServed == /\ TypeOK /\ InOrder /\ WaitsForMore /\ ClosedIsEmpty /\ WaitIsAsked
                /\ Backpressure
\* ByteStream: no byte is lost, doubled or out of place between chunks and
\* views; a view waits only for bytes that are not there, and are asked for.
ViewsServed == ByBytes => /\ Bytes!TypeOK /\ Bytes!BytesInOrder /\ Bytes!ViewsFirst
                          /\ Bytes!WaitIsAsked
\* Tee: both branches have what was read of the stream, which is cancelled with
\* the second of them and not before.
BranchesServed == ByTee => Teed!BranchesAgree /\ Teed!CancelTogether
\* WritableStream: the sink has the chunks in order, each once, none left out;
\* what the page is told of a write is what became of it; `ready' is pending
\* exactly when there is no room.
SinkServed == ByWriter => /\ Written!TypeOK /\ Written!SinkInOrder /\ Written!ToldIsTrue
                          /\ Written!ReadyIsRoom
\* Pipe and Transform: the far end has what the near one made, in order, and all
\* of it when the near end is told so; ends reach each other unless prevented.
PassedOn ==
  /\ ByPipe => /\ Piped!TypeOK /\ Piped!FulfilledIsWhole /\ Piped!SinkHasPrefix
               /\ Piped!Prevented
  /\ ByTransform => /\ Transformed!TypeOK /\ Transformed!MadeInOrder
                    /\ Transformed!EndIsMeant /\ Transformed!EndsPassOn

\* An ended stream stays so; a failed one begins nothing more on its sink; when
\* a pipe fails neither of its ends is left waiting.
EndsAreKept ==
  /\ EndedStays
  /\ [][/\ ByWriter => Written!FailedIsLeft
        /\ ByPipe => Piped!BothAreTold]_allVars

\* WritableStream: every call of write and close is answered.
EveryCallHears == \A i \in 1..MaxCalls :
  (ByWriter /\ i \in DOMAIN w.told /\ w.told[i] = "pending") ~>
  (ByWriter /\ (i \in DOMAIN w.told => w.told[i] # "pending"))
\* Tee: each branch's reads are answered, whatever the other does.
BranchHears == \A y \in 1..2 : \A i \in 1..2 :
  (ByTee /\ i \in DOMAIN t.br[y].told /\ t.br[y].told[i].is = "waiting") ~>
  (ByTee /\ (i \in DOMAIN t.br[y].told => t.br[y].told[i].is # "waiting"))
\* Pipe: it ends, and both locks are let go.
PipeEnds ==
  ByPipe ~> (ByPipe /\ p.stopped /\ ~src.locked /\ ~w.locked /\ p.done # "pending")
\* Every read, call and pipe hears of its end.
EveryoneHears == EveryReadHears /\ EveryCallHears /\ BranchHears /\ PipeEnds
=============================================================================
