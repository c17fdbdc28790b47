----------------------------- MODULE EventSource ----------------------------
(***************************************************************************)
(* An EventSource (vita/js/prelude.js): a request whose answer is read as  *)
(* it comes, line by line, and made again after the retry time when the    *)
(* connection ends, saying which event was the last.  The server numbers   *)
(* its events, gives the odd ones a type, and goes on from the one it is   *)
(* told; the connection may be refused, fail or end at any line, and the   *)
(* page may close the source whenever a handler or a task of its runs.     *)
(***************************************************************************)
EXTENDS Naturals, Sequences, SequencesExt, FiniteSets

CONSTANTS MaxEvents,   \* events the server has
          MaxTries,    \* connections made, beyond which a retry waits for ever
          MaxBytes     \* length of the streams that are cut into pieces

VARIABLES state,       \* "connecting", "open" or "closed"
          request,     \* s.id: there is a request under way
          refused,     \* the task that tells of a request the browser refused
          timer,       \* s.timer: the wait before the next connection
          ending,      \* done is telling the page of the end of its connection
          try,         \* the connection's own p
          lastId,      \* the id of the last event dispatched
          sending,     \* the server: which event it is at, and its lines still to send
          tries, heard \* connections made, and events the page heard, in order

vars == <<state, request, refused, timer, ending, try, lastId, sending, tries, heard>>

Types == {"", "odd"}
TypeOf(k) == IF k % 2 = 1 THEN "odd" ELSE ""

\* The lines of event k as the server sends them.
LinesOf(k) ==
  (IF TypeOf(k) = "odd" THEN <<"event">> ELSE <<>>) \o <<"id", "data", "blank">>

NewTry == [opened |-> FALSE, failed |-> FALSE, data |-> 0, type |-> "", idBuf |-> lastId]

\* connect: the request is made, or refused, which a task tells.
Connect ==
  /\ tries < MaxTries
  /\ tries' = tries + 1
  /\ try' = NewTry
  /\ sending' = [event |-> lastId + 1, lines |-> LinesOf(lastId + 1)]
  /\ \/ request' = TRUE /\ refused' = FALSE
     \/ request' = FALSE /\ refused' = TRUE

Init ==
  /\ state = "connecting"
  /\ \/ request = TRUE /\ refused = FALSE
     \/ request = FALSE /\ refused = TRUE
  /\ timer = FALSE
  /\ ending = FALSE
  /\ lastId = 0
  /\ try = NewTry
  /\ sending = [event |-> 1, lines |-> LinesOf(1)]
  /\ tries = 1
  /\ heard = <<>>

\* The page closes it: nothing more is asked or told.
Close ==
  /\ state' = "closed"
  /\ timer' = FALSE
  /\ request' = FALSE
  /\ UNCHANGED <<refused, ending, try, lastId, sending, tries, heard>>

-----------------------------------------------------------------------------
(* What the request brings: open, fail, feed and its lines, done.          *)

\* open: a 200 of the right type.
Opens ==
  /\ request /\ ~try.opened /\ ~try.failed /\ state /= "closed"
  /\ try' = [try EXCEPT !.opened = TRUE]
  /\ state' = "open"
  /\ UNCHANGED <<request, refused, timer, ending, lastId, sending, tries, heard>>

\* fail: an answer of another kind, or from another origin that may not be
\* read, ends it for good.
AnswersWrong ==
  /\ request /\ ~try.opened /\ ~try.failed /\ state /= "closed"
  /\ try' = [try EXCEPT !.failed = TRUE]
  /\ request' = FALSE
  /\ state' = "closed"
  /\ UNCHANGED <<refused, timer, ending, lastId, sending, tries, heard>>

DispatchKeepingType ==
  /\ lastId' = try.idBuf
  /\ try' = [try EXCEPT !.data = 0]
  /\ heard' = IF try.data = 0 THEN heard
              ELSE Append(heard, [event |-> try.data, type |-> try.type])

\* dispatch: a blank line makes an event of what the lines before it said.
Dispatch ==
  /\ lastId' = try.idBuf
  /\ try' = [try EXCEPT !.data = 0, !.type = ""]
  /\ heard' = IF try.data = 0 THEN heard
              ELSE Append(heard, [event |-> try.data, type |-> try.type])

\* line: a field is kept until its event is complete.
Field(l) ==
  /\ try' = [try EXCEPT !.idBuf = IF l = "id" THEN sending.event ELSE @,
                        !.data = IF l = "data" THEN sending.event ELSE @,
                        !.type = IF l = "event" THEN "odd" ELSE @]
  /\ UNCHANGED <<lastId, heard>>

\* A comment or a blank line between events, which keeps a connection alive.
Idle ==
  /\ request /\ try.opened /\ state /= "closed"
  /\ sending.lines = LinesOf(sending.event)
  /\ Dispatch
  /\ UNCHANGED <<state, request, refused, timer, ending, sending, tries>>

Line ==
  /\ request /\ try.opened /\ state /= "closed"
  /\ sending.event <= MaxEvents
  /\ LET l == Head(sending.lines) IN
     IF l = "blank"
       THEN /\ Dispatch
            /\ sending' = [event |-> sending.event + 1, lines |-> LinesOf(sending.event + 1)]
       ELSE /\ Field(l)
            /\ sending' = [sending EXCEPT !.lines = Tail(@)]
  /\ UNCHANGED <<state, request, refused, timer, ending, tries>>

\* done: the connection ended, or was never made; the page is told.
Ends ==
  /\ request \/ refused
  /\ request' = FALSE /\ refused' = FALSE
  /\ IF state = "closed" \/ try.failed
       THEN UNCHANGED <<state, ending>>
       ELSE state' = "connecting" /\ ending' = TRUE
  /\ UNCHANGED <<timer, try, lastId, sending, tries, heard>>

\* The handlers of the error are done: unless one closed it, it waits.
TimerSet ==
  /\ ending
  /\ ending' = FALSE
  /\ timer' = (state = "connecting")
  /\ UNCHANGED <<state, request, refused, try, lastId, sending, tries, heard>>

TimerFires ==
  /\ timer
  /\ timer' = FALSE
  /\ IF state = "connecting" THEN Connect ELSE UNCHANGED <<request, refused, try, sending, tries>>
  /\ UNCHANGED <<state, ending, lastId, heard>>

Next ==
  \/ Close
  \/ Opens
  \/ AnswersWrong
  \/ Idle
  \/ Line
  \/ Ends
  \/ TimerSet
  \/ TimerFires

-----------------------------------------------------------------------------
\* Through every connection that ended, at whatever line, the page hears every
\* event once, in order and whole: the server is told the last event that was
\* dispatched, not one whose lines had begun (connect, line, dispatch).
NoEventMissed ==
  \A i \in DOMAIN heard : heard[i] = [event |-> i, type |-> TypeOf(i)]

\* Until it is closed, one thing and one only is to happen next: a request, its
\* refusal, the end being told, or the wait for another.  Two connections would
\* give every event twice, none would leave the source silent (connect, done).
OneThingNext ==
  LET pending == <<request, refused, timer, ending>>
      count == {i \in 1 .. 4 : pending[i]} IN
  /\ state /= "closed" => \E i \in count : count = {i}
  /\ state = "closed" => ~request /\ ~timer

\* A closed source says nothing more and asks for nothing (close, fail).
ClosedIsClosed ==
  state = "closed" => state' = "closed" /\ heard' = heard /\ tries' = tries

-----------------------------------------------------------------------------
(* How it makes lines of the bytes it is given, a piece at a time (feed),  *)
(* on TextDecoder's UTF-8: a character may be cut in two between pieces,   *)
(* and so may the two characters that end a line.  The bytes are an        *)
(* ordinary one, the two that end lines, the lead of a character of three  *)
(* bytes and a byte that continues one; the one character these can make   *)
(* is the byte order mark.                                                 *)

Bytes == {"a", "LF", "CR", "lead", "more"}

\* How many bytes of u its first character takes: a lead takes what continues
\* it, up to two, and is wrong when it has fewer.
FirstLength(u) ==
  IF Head(u) /= "lead" THEN 1
  ELSE IF Len(u) < 2 \/ u[2] /= "more" THEN 1
  ELSE IF Len(u) < 3 \/ u[3] /= "more" THEN 2 ELSE 3

FirstCode(u) ==
  IF Head(u) \in {"a", "LF", "CR"} THEN Head(u)
  ELSE IF FirstLength(u) = 3 THEN "mark" ELSE "bad"

RECURSIVE Codes(_)
Codes(u) ==
  IF u = <<>> THEN <<>>
  ELSE <<FirstCode(u)>> \o Codes(SubSeq(u, FirstLength(u) + 1, Len(u)))

\* TextDecoder drops a byte order mark that leads what it is given.
Decode(u) ==
  LET c == Codes(u) IN IF c /= <<>> /\ Head(c) = "mark" THEN Tail(c) ELSE c

Utf8CutOff(u) == Len(u)

\* utf8Cut: where a character begins, near the end of u, that the next bytes
\* are to finish.  A byte that continues says nothing of where it began.
Utf8Cut(u) ==
  LET near == {i \in 1 .. Len(u) : i + 2 >= Len(u) /\ u[i] /= "more"}
      last == CHOOSE i \in near : \A j \in near : j <= i
  IN IF near = {} \/ u[last] /= "lead" \/ Len(u) - last + 1 >= 3 THEN Len(u) ELSE last - 1

-----------------------------------------------------------------------------
EndsLine(c) == c \in {"LF", "CR"}

\* The lines of t, what is left of it after them, and whether the last line
\* ended with a CR at the very end of t.
RECURSIVE TakeLines(_)
TakeLines(t) ==
  LET end == SelectInSeq(t, EndsLine) IN
  IF end = 0 THEN [lines |-> <<>>, text |-> t, cr |-> FALSE]
  ELSE LET both == t[end] = "CR" /\ end < Len(t) /\ t[end + 1] = "LF"
           rest == TakeLines(SubSeq(t, end + (IF both THEN 2 ELSE 1), Len(t)))
       IN [rest EXCEPT !.lines = <<SubSeq(t, 1, end - 1)>> \o @,
                       !.cr = @ \/ (t[end] = "CR" /\ end = Len(t))]

Unfed == [rest |-> <<>>, text |-> <<>>, bom |-> TRUE, cr |-> FALSE, lines |-> <<>>]

DropHead(t, c) == IF t /= <<>> /\ Head(t) = c THEN Tail(t) ELSE t

\* feed: one piece.
Feed(p, piece) ==
  LET u == p.rest \o piece
      cut == Utf8Cut(u)
      kept == [p EXCEPT !.rest = SubSeq(u, cut + 1, Len(u))]
      decoded == Decode(SubSeq(u, 1, cut))
      marked == IF p.bom THEN DropHead(decoded, "mark") ELSE decoded
      taken == TakeLines(p.text \o IF p.cr THEN DropHead(marked, "LF") ELSE marked)
  IN IF cut = 0 THEN kept
     ELSE [kept EXCEPT !.bom = FALSE, !.cr = taken.cr, !.text = taken.text,
                       !.lines = @ \o taken.lines]

-----------------------------------------------------------------------------
\* The cases: bytes, and the two places, or fewer, at which they are cut.
Cases == {<<b, i, j>> \in BoundedSeq(Bytes, MaxBytes) \X (0 .. MaxBytes) \X (0 .. MaxBytes) :
            i <= j /\ j <= Len(b)}

Pieces(x) == <<SubSeq(x[1], 1, x[2]), SubSeq(x[1], x[2] + 1, x[3]), SubSeq(x[1], x[3] + 1, Len(x[1]))>>

\* The lines of a text read whole: a CR with its LF is one end.
WholeLines(c) ==
  LET joined == {i \in DOMAIN c : c[i] = "LF" /\ i > 1 /\ c[i - 1] = "CR"}
      ends == {0} \cup {i \in DOMAIN c : EndsLine(c[i]) /\ i \notin joined}
      from(e) == IF e + 1 \in joined THEN e + 2 ELSE e + 1
      starts == SetToSortSeq(ends, <)
  IN [n \in 1 .. Len(starts) - 1 |-> SubSeq(c, from(starts[n]), starts[n + 1] - 1)]

\* However the network cuts a stream into pieces, in the midst of a character
\* or between the CR and the LF of a line's end, its lines are those of the
\* stream read whole.  A stream has its byte order mark, if any, at its head: one
\* further on is dropped or not as the pieces fall (feed, utf8Cut, TextDecoder).
CutsDontShow(x) ==
  LET c == Codes(x[1]) IN
  (\A i \in DOMAIN c : c[i] = "mark" => i = 1)
    => FoldLeft(Feed, Unfed, Pieces(x)).lines = WholeLines(DropHead(c, "mark"))
=============================================================================
