-------------------------------- MODULE Tee ---------------------------------
(***************************************************************************)
(* ReadableStream.tee (vita/js/streams.js): one stream is read for two     *)
(* branches.  Whichever branch is asked for more first makes the read; the *)
(* other's pull, called meanwhile, returns at once.  What the read brings  *)
(* is handed to both, and handing it to one may start the next read before *)
(* the other has its own.                                                  *)
(***************************************************************************)
EXTENDS StreamRecords

CONSTANTS
  MaxHWM,      \* bound: the source stream's greatest highWaterMark
  MaxChunks,   \* bound: how many chunks the source makes
  MaxReads     \* bound: how many reads are made of each branch

Branch == {1, 2}

VARIABLES
  t,     \* the stream, its branches and what streamTee keeps
  gave,  \* the source has given, closed or failed since it was asked
  made   \* how many chunks the source has made

vars == <<t, gave, made>>

\* own: the branch whose pull waits for the read; 0 when there is none.
Init ==
  /\ \E hwm \in 0..MaxHWM :
     t = [src |-> Attach(Fresh(hwm)), br |-> [x \in Branch |-> Attach(Fresh(1))],
          pulling |-> FALSE, closed |-> FALSE, canceled |-> {}, own |-> 0]
  /\ gave = FALSE /\ made = 0

-----------------------------------------------------------------------------
(* pull, called when a branch asks for more.                               *)

TeePull(u, x) ==
  IF u.closed \/ u.pulling THEN u
  ELSE [u EXCEPT !.pulling = TRUE, !.own = x, !.src = Read(u.src)]

\* A branch changes, and its pull is called if that is what it comes to.
Branched(u, x, s) ==
  LET v == [u EXCEPT !.br[x] = s]
  IN  IF s.pulling /\ ~u.br[x].pulling THEN TeePull(v, x) ELSE v

-----------------------------------------------------------------------------
(* The read's promise is settled.                                          *)

\* mutant: a branch that was cancelled keeps the other from its chunk
UncanceledBoth(u, x) == u.canceled = {}

Uncanceled(u, x) == x \notin u.canceled

Hand(u, x, n) ==
  IF Uncanceled(u, x) THEN Branched(u, x, Enqueue(u.br[x], n)) ELSE u
End(u, x, ended) == IF Uncanceled(u, x) THEN [u EXCEPT !.br[x] = ended] ELSE u

Heard == t.src.told[Len(t.src.told)]
TeeHears ==
  /\ t.pulling /\ Heard.is # "waiting"
  /\ LET u == [t EXCEPT !.pulling = FALSE, !.own = 0]
         over == [u EXCEPT !.closed = TRUE]
     IN  \/ Heard.is = "chunk"
            /\ \E one \in {Hand(u, 1, Heard.chunk)} : t' = Hand(one, 2, Heard.chunk)
         \/ Heard.is = "done" /\ t' = End(End(over, 1, ControllerClose(u.br[1])), 2, ControllerClose(u.br[2]))
         \/ Heard.is \in {"failed", "released"}
            /\ t' = End(End(over, 1, ControllerError(u.br[1])), 2, ControllerError(u.br[2]))
  /\ UNCHANGED <<gave, made>>

\* The promise a branch's pull returned is fulfilled.
BranchPulled(x) ==
  /\ t.br[x].pulling /\ t.own # x
  /\ \E idle \in {[t EXCEPT !.br[x] = [@ EXCEPT !.pulling = FALSE, !.again = FALSE]]} :
       t' = IF t.br[x].again THEN Branched(idle, x, CallPull(idle.br[x])) ELSE idle
  /\ UNCHANGED <<gave, made>>

BranchStarts(x) ==
  /\ ~t.br[x].started /\ t' = Branched(t, x, Started(t.br[x]))
  /\ UNCHANGED <<gave, made>>

-----------------------------------------------------------------------------
(* The code that reads the branches.                                       *)

BranchRead(x) ==
  /\ Len(t.br[x].told) < MaxReads
  /\ t' = Branched(t, x, Read(t.br[x])) /\ UNCHANGED <<gave, made>>

\* cancel: the stream itself is cancelled with the second branch.
BranchCancel(x) ==
  /\ t.br[x].state = "readable"
  /\ LET all == t.canceled \cup {x}
     IN  t' = [t EXCEPT !.br[x] = StreamCancel(@), !.canceled = all,
                        !.src = IF all = Branch THEN StreamCancel(@) ELSE @]
  /\ UNCHANGED <<gave, made>>

-----------------------------------------------------------------------------
(* The source, which answers when it is asked.                             *)

SourceMay == t.src.pulling /\ ~gave /\ MayGive(t.src)
SourceStarts ==
  ~t.src.started /\ t' = [t EXCEPT !.src = Started(@)] /\ UNCHANGED <<gave, made>>
SourceGives ==
  /\ SourceMay /\ made < MaxChunks
  /\ t' = [t EXCEPT !.src = Enqueue(@, made + 1)] /\ made' = made + 1 /\ gave' = TRUE
SourceEnds ==
  /\ SourceMay /\ gave' = TRUE /\ UNCHANGED made
  /\ \/ t' = [t EXCEPT !.src = ControllerClose(@)]
     \/ t' = [t EXCEPT !.src = ControllerError(@)]
SourcePulled ==
  /\ t.src.pulling /\ (gave \/ ~MayGive(t.src))
  /\ t' = [t EXCEPT !.src = PullEnded(@)] /\ gave' = FALSE /\ UNCHANGED made

TeeActs == TeeHears \/ \E x \in Branch : BranchPulled(x) \/ BranchStarts(x)
SourceActs == SourceStarts \/ SourceGives \/ SourceEnds \/ SourcePulled
Next == TeeActs \/ SourceActs \/ \E x \in Branch : BranchRead(x) \/ BranchCancel(x)

Spec == Init /\ [][Next]_vars

(* Callbacks of settled promises run, and the source answers.              *)
FairSpec == Spec /\ WF_vars(TeeActs \/ SourceActs)

-----------------------------------------------------------------------------
ChunksTold(s) == {i \in Reads(s) : s.told[i].is = "chunk"}
ToldOf(s) == {s.told[i].chunk : i \in ChunksTold(s)}

\* Whichever branch makes the reads, and though handing a chunk to the first may
\* start the next read, each branch that was not cancelled and has not failed has,
\* read or queued, exactly the chunks tee has heard of the stream, in order.
BranchesAgree ==
  LET late == IF t.pulling /\ Heard.is = "chunk" THEN {Heard.chunk} ELSE {}
      had == ToldOf(t.src) \ late
  IN  \A x \in Branch \ t.canceled : t.br[x].state # "errored" =>
        \E n \in 0..made :
          LET s == t.br[x]
          IN  /\ ToldOf(s) = 1..n
              /\ \A i, j \in ChunksTold(s) : i < j => s.told[i].chunk < s.told[j].chunk
              /\ \A k \in DOMAIN s.queue : s.queue[k] = n + k
              /\ had = 1..(n + Len(s.queue))

\* The stream is cancelled when both branches are, and not by one alone.
CancelTogether ==
  /\ t.canceled = Branch => t.src.state # "readable"
  /\ (\A i \in Reads(t.src) : t.src.told[i].is = "chunk")
     /\ t.src.state = "closed" /\ t.src.waits = <<>> /\ ~t.src.closing
     => t.canceled = Branch

\* Each branch's reads are answered, even if the other is never read, is far
\* behind, or was cancelled.
BranchHears == \A x \in Branch : \A i \in 1..MaxReads :
  (i \in Reads(t.br[x]) /\ Waits(t.br[x], i)) ~>
  (i \in Reads(t.br[x]) => ~Waits(t.br[x], i))
=============================================================================
