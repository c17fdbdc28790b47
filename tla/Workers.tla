------------------------------ MODULE Workers ------------------------------
(***************************************************************************)
(* A dedicated worker (vita/js/prelude.js): a realm of its own beside the  *)
(* page's, on one thread with it, each with tasks of its own in their      *)
(* order.  The page's side is the Worker object, the worker's what         *)
(* __vitaBecomeWorker hands back and puts into the realm.  The realm goes  *)
(* some time after it was told to, and what tasks it has run till then.    *)
(*                                                                         *)
(* Both sides say numbered words.  All the page says is one object of its, *)
(* which it changes as it likes: `obj' is its content.                     *)
(***************************************************************************)
EXTENDS Naturals, Sequences, SequencesExt

CONSTANT MaxWords    \* words each side says

VARIABLES kind,      \* how its script comes: "module", "file" or "fetched"
          dead,      \* st.dead
          port,      \* st.port is there
          realm,     \* "none", "made", "closing" or "gone"
          loading,   \* its script is on the way
          page,      \* the page's tasks that are about the worker
          tasks,     \* the worker's tasks
          started,
          queue,     \* words said before it started, by number
          closing,
          turn,      \* the worker's code that runs: "none", "script" or "event"
          obj,
          said,      \* of the page's words, what the object was, and whether the worker had started
          heard,     \* what the worker heard: <<number, content>>
          answers,   \* words the worker said
          got,       \* those the page heard
          told       \* errors the page was told

vars == <<kind, dead, port, realm, loading, page, tasks, started, queue, closing, turn,
          obj, said, heard, answers, got, told>>

worker == <<started, queue, closing>>

\* A turn of the worker's is not broken into by anything else.
Free == turn = "none"

\* What __vitaWorkerClose does to the realm, if there is one.
NC == realm' = IF realm = "made" THEN "closing" ELSE realm

-----------------------------------------------------------------------------
\* new Worker(url): the realm is made, or there is no room for it.
Init ==
  /\ kind \in {"module", "file", "fetched"}
  /\ realm \in {"none", "made"}
  /\ port = (realm = "made")
  /\ dead = FALSE
  /\ loading = (realm = "made" /\ kind = "fetched")
  /\ page = IF realm = "none" THEN << <<"failed">> >>
            ELSE IF kind = "file" THEN << <<"read">> >> ELSE <<>>
  /\ tasks = IF realm = "made" /\ kind = "module" THEN << <<"script">> >> ELSE <<>>
  /\ started = FALSE /\ queue = <<>> /\ closing = FALSE
  /\ turn = "none"
  /\ obj = "old" /\ said = <<>> /\ heard = <<>>
  /\ answers = 0 /\ got = <<>> /\ told = 0

\* deliver: a word is copied when it is delivered, and comes as a task.
Delivered(n) == {<<"message", n, obj>>, <<"messageerror", n>>}

\* Worker.prototype.postMessage, and receive.
PagePost ==
  /\ Free /\ Len(said) < MaxWords
  /\ said' = Append(said, <<obj, started>>)
  /\ IF dead \/ ~port \/ closing THEN UNCHANGED <<tasks, queue>>
     ELSE IF started THEN /\ \E d \in Delivered(Len(said) + 1) : tasks' = Append(tasks, d)
                          /\ UNCHANGED queue
     ELSE queue' = Append(queue, Len(said) + 1) /\ UNCHANGED tasks
  /\ UNCHANGED <<kind, dead, port, realm, loading, page, started, closing, turn, obj, heard,
                 answers, got, told>>

\* The page changes the object it has said.
Change ==
  /\ Free /\ said # <<>> /\ obj = "old"
  /\ obj' = "new"
  /\ UNCHANGED <<kind, dead, port, realm, loading, page, tasks, started, queue, closing, turn,
                 said, heard, answers, got, told>>

\* terminate, of the page's own.
Terminates ==
  /\ dead' = TRUE /\ port' = FALSE
  /\ IF dead THEN UNCHANGED realm ELSE NC
Terminate ==
  /\ Free /\ ~dead
  /\ Terminates
  /\ UNCHANGED <<kind, loading, page, tasks, started, queue, closing, turn, obj, said, heard,
                 answers, got, told>>

\* fail, and what it leaves for the page to be told.
Fail(rest) == NC /\ port' = FALSE /\ page' = Append(rest, <<"failed">>)

\* The answer to the request for the script.
Fetched ==
  /\ Free /\ loading /\ kind = "fetched"
  /\ loading' = FALSE
  /\ \/ Fail(page) /\ UNCHANGED tasks
     \/ /\ tasks' = IF dead THEN tasks ELSE Append(tasks, <<"script">>)
        /\ UNCHANGED <<realm, port, page>>
  /\ UNCHANGED <<kind, dead, started, queue, closing, turn, obj, said, heard, answers, got, told>>

\* The page's next task: a file is read, or the page is told.
PageTask ==
  /\ Free /\ page # <<>>
  /\ LET task == Head(page) IN
     \/ /\ task = <<"read">>
        /\ \/ dead /\ page' = Tail(page) /\ UNCHANGED <<realm, port, tasks>>
           \/ ~dead /\ Fail(Tail(page)) /\ UNCHANGED tasks
           \/ /\ ~dead
              /\ tasks' = Append(tasks, <<"script">>)
              /\ page' = Tail(page)
              /\ UNCHANGED <<realm, port>>
        /\ UNCHANGED <<got, told>>
     \/ /\ task # <<"read">>
        /\ page' = Tail(page)
        /\ got' = IF ~dead /\ task[1] = "word" THEN Append(got, task[2]) ELSE got
        /\ told' = IF ~dead /\ task[1] # "word" THEN told + 1 ELSE told
        /\ UNCHANGED <<realm, port, tasks>>
  /\ UNCHANGED <<kind, dead, loading, started, queue, closing, turn, obj, said, heard, answers>>

-----------------------------------------------------------------------------
(* The worker's tasks, and what its code may do in them.                   *)

\* begin: what was said so far is delivered, each word as it is by now.
Begin(rest) ==
  /\ started' = TRUE
  /\ queue' = <<>>
  /\ \E bad \in SUBSET ToSet(queue) :
       tasks' = rest \o [i \in DOMAIN queue |->
                           IF queue[i] \in bad THEN <<"messageerror", queue[i]>>
                                               ELSE <<"message", queue[i], obj>>]

\* A module's script waits for what it imports, and is run from there.
WorkerTask ==
  /\ Free /\ tasks # <<>> /\ realm \in {"made", "closing"}
  /\ LET task == Head(tasks) IN
     \/ /\ task[1] = "script"
        /\ tasks' = Tail(tasks)
        /\ IF kind = "module" THEN loading' = TRUE /\ UNCHANGED turn
                              ELSE turn' = "script" /\ UNCHANGED loading
        /\ UNCHANGED heard
     \/ /\ task[1] = "message"
        /\ tasks' = Tail(tasks)
        /\ IF closing THEN UNCHANGED <<turn, heard>>
           ELSE turn' = "event" /\ heard' = Append(heard, <<task[2], task[3]>>)
        /\ UNCHANGED loading
     \/ /\ task[1] = "messageerror"
        /\ tasks' = Tail(tasks)
        /\ turn' = "event" /\ heard' = Append(heard, <<task[2], "error">>)
        /\ UNCHANGED loading
  /\ UNCHANGED <<kind, dead, port, realm, page, started, queue, closing, obj, said, answers,
                 got, told>>

\* __vitaImport has the module and runs it, or cannot.
Imported ==
  /\ Free /\ loading /\ kind = "module" /\ realm \in {"made", "closing"}
  /\ loading' = FALSE
  /\ \/ turn' = "script" /\ UNCHANGED <<page, started, queue, tasks>>
     \/ /\ page' = Append(page, <<"error">>)
        /\ Begin(tasks)
        /\ UNCHANGED turn
  /\ UNCHANGED <<kind, dead, port, realm, closing, obj, said, heard, answers, got, told>>

\* postMessage in the worker: a task of the page's brings a copy.
WorkerPost ==
  /\ turn # "none" /\ answers < MaxWords
  /\ answers' = answers + 1
  /\ page' = IF closing \/ dead THEN page ELSE Append(page, <<"word", answers + 1>>)
  /\ UNCHANGED <<kind, dead, port, realm, loading, tasks, worker, turn, obj, said, heard, got,
                 told>>

\* close in the worker ends it as the page's own terminate does.
Close ==
  /\ turn # "none" /\ ~closing
  /\ closing' = TRUE
  /\ Terminates
  /\ UNCHANGED <<kind, loading, page, tasks, started, queue, turn, obj, said, heard, answers, got,
                 told>>

\* The turn ends, with an error nothing in the worker handles or without; the
\* script's ends with begin.
EndTurn ==
  /\ turn # "none"
  /\ turn' = "none"
  /\ page' \in {page, Append(page, <<"error">>)}
  /\ IF turn = "script" THEN Begin(tasks) ELSE UNCHANGED <<started, queue, tasks>>
  /\ UNCHANGED <<kind, dead, port, realm, loading, closing, obj, said, heard, answers, got, told>>

\* worker_close_cb: its realm goes, and what it had to do.
Gone ==
  /\ Free /\ realm = "closing"
  /\ realm' = "gone"
  /\ tasks' = <<>>
  /\ loading' = (loading /\ kind # "module")
  /\ UNCHANGED <<kind, dead, port, page, worker, turn, obj, said, heard, answers, got, told>>

Next ==
  \/ PagePost
  \/ Change
  \/ Terminate
  \/ Fetched
  \/ PageTask
  \/ WorkerTask
  \/ Imported
  \/ WorkerPost
  \/ Close
  \/ EndTurn
  \/ Gone

-----------------------------------------------------------------------------
Words(s) == SelectSeq(s, LAMBDA t : t[1] \in {"message", "messageerror"})
OnTheWay == [i \in DOMAIN Words(tasks) |-> Words(tasks)[i][2]]
HeardSoFar == [i \in DOMAIN heard |-> heard[i][1]]
UpTo(n) == [i \in 1..n |-> i]

\* A worker that still takes words has heard those said to it in their order,
\* and the others are on their way behind, none twice and none left out; no
\* word is heard before the script has run (receive, deliver, begin).
WorkerHearsAll ==
  /\ port => HeardSoFar \o OnTheWay \o queue = UpTo(Len(said))
  /\ \A i, j \in DOMAIN heard : i < j => heard[i][1] < heard[j][1]
  /\ heard # <<>> => started

\* A word said to a worker whose script has run is heard as it was when it was
\* said, whatever the page does to it after (structuredClone in deliver).
HeardAsSaid ==
  \A i \in DOMAIN heard : LET word == said[heard[i][1]] IN
    word[2] => heard[i][2] \in {"error", word[1]}

\* Until the worker has ended the page hears all it says, in order.
PageHearsAll ==
  LET coming == SelectSeq(page, LAMBDA t : t[1] = "word")
  IN  ~dead => got \o [i \in DOMAIN coming |-> coming[i][2]] = UpTo(answers)

\* When nothing is under way, a worker nobody has ended has run its script or
\* the page was told it could not, and then no realm is kept for it (fail).
RunsOrTold ==
  /\ Free /\ page = <<>> /\ tasks = <<>> /\ ~loading /\ ~dead =>
       IF port THEN started ELSE told > 0 /\ realm # "made"
  /\ dead => realm # "made"

\* What was ended tells the page nothing more (terminate, close).
EndedIsQuiet == dead => got' = got /\ told' = told
=============================================================================
