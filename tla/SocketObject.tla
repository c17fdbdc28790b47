---------------------------- MODULE SocketObject ----------------------------
(***************************************************************************)
(* A page's WebSocket object (vita/js/prelude.js) over its connection      *)
(* (vita/js/websocket.c), of which it sees what __vitaWsEvent tells it:    *)
(* open, messages, an error, and one close.  A Blob is sent when its bytes *)
(* have been read, in a task of its own.                                   *)
(***************************************************************************)
EXTENDS Naturals, Sequences

CONSTANTS MaxEvents,  \* messages of the server, and so what the object may hear
          MaxSends

VARIABLES state,      \* readyState: 0 connecting, 1 open, 2 closing, 3 closed
          conn,       \* the connection: "none", "making", "made", "failing" or "ended"
          failure,    \* the task that tells of a connection that could not be begun
          blobs,      \* what was sent as a Blob and is being read
          sent,       \* what the connection was given, in order
          sends,      \* how often the page called send
          extra,      \* s.extra: what bufferedAmount keeps of sends that went nowhere
          closing,    \* the connection was told to close
          messages,   \* messages the connection brought
          heard       \* the events the page heard, in order

vars == <<state, conn, failure, blobs, sent, sends, extra, closing, messages, heard>>

\* The constructor: the connection is begun, or at once is not.
Init ==
  /\ \/ conn = "making" /\ state = 0 /\ failure = FALSE
     \/ conn = "none" /\ state = 3 /\ failure = TRUE
  /\ blobs = {} /\ sent = <<>> /\ sends = 0 /\ extra = 0
  /\ closing = FALSE /\ messages = 0 /\ heard = <<>>

Fire(e) == heard' = Append(heard, e)

FailureTold ==
  /\ failure
  /\ failure' = FALSE
  /\ heard' = heard \o <<"error", "close">>
  /\ UNCHANGED <<state, conn, blobs, sent, sends, extra, closing, messages>>

\* The connection is made: kind 1.
Opened ==
  /\ conn = "making"
  /\ conn' = "made"
  /\ IF state = 0 THEN state' = 1 /\ Fire("open") ELSE UNCHANGED <<state, heard>>
  /\ UNCHANGED <<failure, blobs, sent, sends, extra, closing, messages>>

\* Kinds 2 and 3, which are for an open object only.
Message ==
  /\ conn = "made" /\ messages < MaxEvents
  /\ messages' = messages + 1
  /\ IF state = 1 THEN Fire("message") ELSE UNCHANGED heard
  /\ UNCHANGED <<state, conn, failure, blobs, sent, sends, extra, closing>>

\* Kind 4, which comes before the close.
Error ==
  /\ conn \in {"making", "made"}
  /\ conn' = "failing"
  /\ Fire("error")
  /\ UNCHANGED <<state, failure, blobs, sent, sends, extra, closing, messages>>

\* Kind 5: the object is taken out of the table, and hears no more.
Closed ==
  /\ conn \in {"failing", "made"}
  /\ conn' = "ended"
  /\ state' = 3
  /\ Fire("close")
  /\ UNCHANGED <<failure, blobs, sent, sends, extra, closing, messages>>

Send ==
  /\ state /= 0
  /\ sends < MaxSends
  /\ sends' = sends + 1
  /\ \/ state = 1 /\ sent' = Append(sent, sends') /\ UNCHANGED <<blobs, extra>>
     \/ state = 1 /\ blobs' = blobs \cup {sends'} /\ UNCHANGED <<sent, extra>>
     \/ state > 1 /\ extra' = extra + 1 /\ UNCHANGED <<blobs, sent>>
  /\ UNCHANGED <<state, conn, failure, closing, messages, heard>>

\* A Blob's bytes have been read: they go if the object is still open.
BlobRead ==
  /\ blobs /= {}
  /\ LET b == CHOOSE x \in blobs : \A y \in blobs : x <= y IN
     /\ blobs' = blobs \ {b}
     /\ sent' = IF state = 1 THEN Append(sent, b) ELSE sent
  /\ UNCHANGED <<state, conn, failure, sends, extra, closing, messages, heard>>

Close ==
  /\ state < 2
  /\ state' = 2
  /\ closing' = TRUE
  /\ UNCHANGED <<conn, failure, blobs, sent, sends, extra, messages, heard>>

Next ==
  \/ FailureTold
  \/ Opened
  \/ Message
  \/ Error
  \/ Closed
  \/ Send
  \/ BlobRead
  \/ Close

-----------------------------------------------------------------------------
Order == <<"open", "message", "error", "close">>
Rank(e) == CHOOSE i \in 1 .. 4 : Order[i] = e

\* Whatever the connection brings and the page does meanwhile, the object is
\* heard to open, get messages, fail and close in that order, of each but
\* messages once, and no message without the opening (__vitaWsEvent).
HeardInTurn ==
  \A i \in 2 .. Len(heard) :
    /\ Rank(heard[i - 1]) <= Rank(heard[i])
    /\ heard[i] /= "message" => Rank(heard[i - 1]) < Rank(heard[i])
    /\ heard[i] = "message" => heard[1] = "open"

\* Once closed by the page it hears no message, though the connection goes on
\* until its server has answered, and gives it nothing to send, though a Blob
\* was still being read (close, send).
ClosingIsQuiet ==
  closing => /\ sent' = sent
             /\ heard' /= heard => heard'[Len(heard')] /= "message"
=============================================================================
