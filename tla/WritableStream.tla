--------------------------- MODULE WritableStream ---------------------------
(***************************************************************************)
(* A WritableStream between the code that writes to it, which may take the *)
(* lock, leave it, write without waiting, close and abort, and its sink,   *)
(* which takes one chunk at a time and may fail.                           *)
(***************************************************************************)
EXTENDS StreamRecords, FiniteSets, FiniteSetTheorems, SequenceTheorems, TLAPS

CONSTANTS
  MaxHWM,    \* bound: the greatest highWaterMark
  MaxCalls   \* bound: how often write and close are called

VARIABLES
  w,       \* the stream
  wrote    \* history: the calls that were writes of a stream that was writable

vars == <<w, wrote>>

Init == (\E hwm \in 0..MaxHWM : w = Blank(hwm)) /\ wrote = {}

NextCall == Len(w.told) + 1
MayCall == NextCall <= MaxCalls
Page == UNCHANGED wrote

Starts == w.start = "pending" /\ w' = [w EXCEPT !.start = "resolved"] /\ Page
StartFails ==
  w.start = "pending" /\ w' = [WritableError(w) EXCEPT !.start = "rejected"] /\ Page

\* A chunk is the number of the call that wrote it.
Writes ==
  /\ w.locked /\ MayCall /\ w' = Write(w, NextCall)
  /\ wrote' = IF w.state = "writable" THEN wrote \cup {NextCall} ELSE wrote
CloseCalled == MayCall /\ w' = Close(w) /\ Page
AbortCalled == w.state = "writable" /\ w' = Abort(w) /\ Page
ControllerErrs == w.state # "errored" /\ w' = WritableError(w) /\ Page
TakesLock == ~w.locked /\ w' = GetWriter(w) /\ Page
LeavesLock == w.locked /\ w' = ReleaseWriter(w) /\ Page

CallsSink == MayCallSink(w) /\ w' = SinkCalled(w) /\ Page
SinkTakes == SinkBusy(w) /\ w' = SinkDone(w) /\ Page
SinkFails == SinkBusy(w) /\ w' = SinkFailed(w) /\ Page

SinkActs == Starts \/ StartFails \/ CallsSink \/ SinkTakes \/ SinkFails
Next == \/ SinkActs \/ Writes \/ CloseCalled \/ AbortCalled \/ ControllerErrs
        \/ TakesLock \/ LeavesLock
Spec == Init /\ [][Next]_vars

(* Callbacks of settled promises run, and a sink ends what it was given.   *)
FairSpec == Spec /\ WF_vars(SinkActs)

-----------------------------------------------------------------------------
\* The stream has its types, and the size kept is that of the writes queued.
TypeOK ==
  /\ w.state \in {"writable", "closed", "errored"}
  /\ w.start \in {"pending", "resolved", "rejected"}
  /\ w.flight \in {"no", "asked", "writing", "closing"}
  /\ w.ready \in {"none", "pending", "resolved", "rejected"}
  /\ w.closed \in {"none", "pending", "resolved", "rejected"}
  /\ w.told \in Seq({"pending", "resolved", "rejected"})
  /\ w.size = Cardinality({i \in DOMAIN w.queue : ~w.queue[i].close})

Ascending(s) == \A i, j \in DOMAIN s : i < j => s[i] < s[j]

\* The sink gets the chunks in the order they were written, one after another,
\* none twice and none left out: one is skipped only by an error, after which it
\* gets no more.
SinkInOrder ==
  /\ Ascending(w.taken)
  /\ \A i \in wrote : \A k \in DOMAIN w.taken :
       i < w.taken[k] => \E j \in DOMAIN w.taken : w.taken[j] = i

\* A write the page was told is done is one the sink has had; and a write the
\* sink took is told so unless an error came before its end.
ToldIsTrue ==
  /\ \A i \in wrote : w.told[i] = "resolved" => \E k \in DOMAIN w.taken : w.taken[k] = i
  /\ w.state = "writable" =>
       \A k \in DOMAIN w.taken : w.told[w.taken[k]] = "resolved"
                                 \/ (w.flight = "writing" /\ k = Len(w.taken))

\* Backpressure, however often the lock changes hands: `ready' is pending exactly
\* when the writer of a stream that goes on has no room.
ReadyIsRoom ==
  w.locked /\ w.state = "writable" => (w.ready = "pending" <=> Room(w) <= 0)

\* Once the stream has failed nothing more is begun on the sink.
FailedIsLeft == w.state = "errored" => w'.taken = w.taken /\ w'.over = w.over

\* Every call is answered.
EveryCallHears == \A i \in 1..MaxCalls :
  (i \in DOMAIN w.told /\ w.told[i] = "pending") ~>
  (i \in DOMAIN w.told => w.told[i] # "pending")

-----------------------------------------------------------------------------
(* Proof that the sink is served, for any bounds.                          *)

\* The records of a stream, as streams.js keeps them.
Answers == {"pending", "resolved", "rejected"}
Job == [call : Nat, close : BOOLEAN, chunk : Nat]
Stream == [state : {"writable", "closed", "errored"}, start : Answers, locked : BOOLEAN,
           queue : Seq(Job), size : Int, hwm : Nat,
           flight : {"no", "asked", "writing", "closing"},
           ready : {"none"} \cup Answers, closed : {"none"} \cup Answers,
           told : Seq(Answers), taken : Seq(Nat), over : BOOLEAN]

\* x is in s.
Has(s, x) == \E k \in 1..Len(s) : s[k] = x

\* What the sink has had of the writes wr, and what the page was told of it.
Had(told, taken, wr) ==
  /\ wr \subseteq 1..Len(told)
  /\ \A k \in 1..Len(taken) : taken[k] \in wr
  /\ \A j, k \in 1..Len(taken) : j < k => taken[j] < taken[k]
  /\ \A i \in wr : \A k \in 1..Len(taken) : i < taken[k] => Has(taken, i)
  /\ \A i \in wr : told[i] = "resolved" => Has(taken, i)

\* A queue of calls, the first of them not in the sink's hands.
Lined(queue, told, wr) ==
  /\ \A i \in 1..Len(queue) :
       /\ queue[i].call \in 1..Len(told) /\ told[queue[i].call] = "pending"
       /\ queue[i].close => queue[i].call \notin wr
       /\ ~queue[i].close => queue[i].call \in wr /\ queue[i].chunk = queue[i].call
  /\ \A i, j \in 1..Len(queue) : i < j => queue[i].call < queue[j].call

\* What is queued comes after what the sink has had, but for what it is at.
Ahead(flight, queue, taken) ==
  /\ \A i \in 1..Len(queue) : (flight = "writing" => i # 1)
       => \A k \in 1..Len(taken) : taken[k] < queue[i].call
  /\ queue # <<>> /\ flight = "writing"
       => ~queue[1].close /\ taken # <<>> /\ taken[Len(taken)] = queue[1].call
  /\ queue # <<>> /\ flight = "closing" => queue[1].close

\* A write is lost only with all that are queued, and none is queued after it.
NoneLost(state, flight, queue, taken, wr) ==
  /\ state = "errored" => queue = <<>>
  /\ queue = <<>> /\ flight # "no" => state = "errored"
  /\ \A i \in wr : \/ Has(taken, i)
                   \/ \E j \in 1..Len(queue) : queue[j].call = i
                   \/ queue = <<>> /\ state # "writable"

\* A stream that goes on has told the page of all the sink has had, but for what
\* it is at.
ToldSo(state, flight, told, taken) ==
  state = "writable" =>
    \A k \in 1..Len(taken) : told[taken[k]] = "resolved" \/ (flight = "writing" /\ k = Len(taken))

Sound(state, flight, queue, told, taken, wr) ==
  /\ Had(told, taken, wr) /\ Lined(queue, told, wr) /\ Ahead(flight, queue, taken)
  /\ NoneLost(state, flight, queue, taken, wr) /\ ToldSo(state, flight, told, taken)

Soundly(u, wr) == Sound(u.state, u.flight, u.queue, u.told, u.taken, wr)

\* A sequence with one more at its end.
LEMMA OneMore ==
  ASSUME NEW S, NEW s \in Seq(S), NEW e \in S, NEW t, t = Append(s, e)
  PROVE  /\ Len(s) \in Nat /\ t \in Seq(S) /\ Len(t) = Len(s) + 1
         /\ t[Len(s) + 1] = e /\ t # <<>>
         /\ \A i \in 1..Len(s) : t[i] = s[i] /\ i \in 1..Len(t)
         /\ \A i \in 1..Len(t) : i \in 1..Len(s) \/ i = Len(s) + 1
         /\ Len(s) + 1 \in 1..Len(t) /\ Len(s) + 1 \notin 1..Len(s)
<1>1. /\ Len(s) \in Nat /\ t \in Seq(S) /\ Len(t) = Len(s) + 1
      /\ \A i \in 1..Len(s) : t[i] = s[i]
      /\ t[Len(s) + 1] = e /\ t # <<>>
  BY AppendProperties
<1> QED BY <1>1

\* The first of a sequence.
LEMMA AtFirst ==
  ASSUME NEW S, NEW s \in Seq(S), s # <<>>
  PROVE  Len(s) \in Nat /\ 1 \in 1..Len(s) /\ s[1] \in S /\ Head(s) = s[1]
OBVIOUS

\* A call is told no at once.
LEMMA Refused ==
  ASSUME NEW st, NEW fl, NEW q \in Seq(Job), NEW told \in Seq(Answers), NEW tk \in Seq(Nat), NEW wr,
         Sound(st, fl, q, told, tk, wr), NEW a \in Answers, a # "resolved"
  PROVE  Sound(st, fl, q, Append(told, a), tk, wr)
<1> DEFINE t == Append(told, a)
<1>1. /\ Len(told) \in Nat /\ Len(t) = Len(told) + 1
      /\ \A i \in 1..Len(told) : t[i] = told[i] /\ i \in 1..Len(t)
  OBVIOUS
<1> HIDE DEF t
<1>2. Had(t, tk, wr)
  BY <1>1 DEF Sound, Had
<1>3. Lined(q, t, wr)
  BY <1>1 DEF Sound, Lined
<1>4. ToldSo(st, fl, t, tk)
  BY <1>1 DEF Sound, ToldSo, Had
<1> QED BY <1>2, <1>3, <1>4 DEF Sound, t

\* A call joins the queue.
LEMMA Joined ==
  ASSUME NEW fl, NEW q \in Seq(Job), NEW told \in Seq(Answers), NEW tk \in Seq(Nat), NEW wr,
         Sound("writable", fl, q, told, tk, wr), NEW job \in Job, NEW wr2,
         job.call = Len(told) + 1,
         \/ job.close /\ wr2 = wr
         \/ ~job.close /\ job.chunk = job.call /\ wr2 = wr \cup {Len(told) + 1}
  PROVE  Sound("writable", fl, Append(q, job), Append(told, "pending"), tk, wr2)
<1> DEFINE t == Append(told, "pending")
           n == Append(q, job)
<1>0. "pending" \in Answers
  BY DEF Answers
<1>1. /\ Len(told) \in Nat /\ Len(t) = Len(told) + 1 /\ t[Len(told) + 1] = "pending"
      /\ \A i \in 1..Len(told) : t[i] = told[i] /\ i \in 1..Len(t)
      /\ Len(told) + 1 \in 1..Len(t) /\ Len(told) + 1 \notin 1..Len(told)
  BY ONLY <1>0, OneMore, told \in Seq(Answers)
<1>2. /\ Len(q) \in Nat /\ Len(n) = Len(q) + 1 /\ n[Len(q) + 1] = job /\ n # <<>>
      /\ \A i \in 1..Len(q) : n[i] = q[i] /\ i \in 1..Len(n)
      /\ \A i \in 1..Len(n) : i \in 1..Len(q) \/ i = Len(q) + 1
      /\ Len(q) + 1 \in 1..Len(n)
  BY ONLY SMTT(60), OneMore, q \in Seq(Job), job \in Job
<1>3. \A k \in 1..Len(tk) : tk[k] \in wr /\ tk[k] \in 1..Len(told) /\ tk[k] < Len(told) + 1
  BY DEF Sound, Had
<1> HIDE DEF t, n
<1>4. Had(t, tk, wr2)
  <2>1. wr2 \subseteq 1..Len(t) /\ wr \subseteq wr2
    BY <1>1 DEF Sound, Had
  <2>2. ASSUME NEW i \in wr2, ~Has(tk, i)
        PROVE  t[i] # "resolved" /\ \A k \in 1..Len(tk) : ~(i < tk[k])
    <3>1. CASE i \in wr
      BY <1>1, <2>2, <3>1 DEF Sound, Had
    <3>2. CASE i = Len(told) + 1
      BY <1>1, <1>3, <3>2
    <3> QED BY <3>1, <3>2
  <2> QED BY <2>1, <2>2 DEF Sound, Had
<1>5. Lined(n, t, wr2)
  <2>1. \A i \in 1..Len(q) : q[i].call \in 1..Len(told) /\ q[i].call < Len(told) + 1
    BY DEF Sound, Lined
  <2>2. Len(told) + 1 \notin wr
    BY <1>1 DEF Sound, Had
  <2>3. ASSUME NEW i \in 1..Len(n)
        PROVE  /\ n[i].call \in 1..Len(t) /\ t[n[i].call] = "pending"
               /\ n[i].close => n[i].call \notin wr2
               /\ ~n[i].close => n[i].call \in wr2 /\ n[i].chunk = n[i].call
    <3>1. CASE i \in 1..Len(q)
      BY <1>1, <1>2, <2>1, <3>1 DEF Sound, Lined
    <3>2. CASE i = Len(q) + 1
      BY <1>1, <1>2, <2>2, <3>2
    <3> QED BY <1>2, <3>1, <3>2
  <2>4. \A i, j \in 1..Len(n) : i < j => n[i].call < n[j].call
    <3> SUFFICES ASSUME NEW i \in 1..Len(n), NEW j \in 1..Len(n), i < j
                 PROVE  n[i].call < n[j].call
      OBVIOUS
    <3>1. i \in 1..Len(q)
      BY <1>2
    <3>2. CASE j \in 1..Len(q)
      BY <1>2, <3>1, <3>2 DEF Sound, Lined
    <3>3. CASE j = Len(q) + 1
      BY <1>2, <2>1, <3>1, <3>3
    <3> QED BY <1>2, <3>2, <3>3
  <2> QED BY <2>3, <2>4 DEF Lined
<1>6. Ahead(fl, n, tk)
  <2>1. \A i \in 1..Len(n) : (fl = "writing" => i # 1)
          => \A k \in 1..Len(tk) : tk[k] < n[i].call
    BY <1>2, <1>3 DEF Sound, Ahead
  <2>2. q # <<>> => n[1] = q[1]
    BY <1>2
  <2>3. q = <<>> => fl = "no"
    BY DEF Sound, NoneLost
  <2> QED BY <2>1, <2>2, <2>3 DEF Sound, Ahead
<1>7. NoneLost("writable", fl, n, tk, wr2)
  <2>1. ASSUME NEW i \in wr2, ~Has(tk, i) PROVE \E j \in 1..Len(n) : n[j].call = i
    <3>1. CASE i \in wr
      BY <1>2, <2>1, <3>1 DEF Sound, NoneLost
    <3>2. CASE i = Len(told) + 1
      BY <1>2, <3>2
    <3> QED BY <3>1, <3>2
  <2> QED BY <1>2, <2>1 DEF NoneLost
<1>8. ToldSo("writable", fl, t, tk)
  BY <1>1, <1>3 DEF Sound, ToldSo
<1> QED BY <1>4, <1>5, <1>6, <1>7, <1>8 DEF Sound, t, n

\* The queue is thrown away, with what waits in it told so.
LEMMA Dropped ==
  ASSUME NEW fl, NEW told \in Seq(Answers), NEW tk \in Seq(Nat), NEW wr,
         Had(told, tk, wr), NEW told2 \in Seq(Answers), Len(told2) = Len(told),
         \A i \in 1..Len(told) : told2[i] = told[i] \/ told2[i] = "rejected"
  PROVE  Sound("errored", fl, <<>>, told2, tk, wr)
<1>1. Had(told2, tk, wr)
  BY DEF Had
<1>2. Lined(<<>>, told2, wr) /\ Ahead(fl, <<>>, tk)
  BY DEF Lined, Ahead
<1>3. NoneLost("errored", fl, <<>>, tk, wr) /\ ToldSo("errored", fl, told2, tk)
  BY DEF NoneLost, ToldSo
<1> QED BY <1>1, <1>2, <1>3 DEF Sound

\* The first job is asked about, or the sink is called with it.
LEMMA Asked ==
  ASSUME NEW st, NEW q \in Seq(Job), NEW told, NEW tk, NEW wr, q # <<>>,
         Sound(st, "no", q, told, tk, wr)
  PROVE  Sound(st, "asked", q, told, tk, wr)
BY DEF Sound, Ahead, NoneLost, ToldSo

\* The sink is called to close ...
LEMMA Closed ==
  ASSUME NEW st, NEW q \in Seq(Job), NEW told, NEW tk, NEW wr, q # <<>>, q[1].close,
         Sound(st, "asked", q, told, tk, wr)
  PROVE  Sound(st, "closing", q, told, tk, wr)
BY DEF Sound, Ahead, NoneLost, ToldSo

\* ... or with the chunk of the first job, which comes after all it has had.
LEMMA Taken ==
  ASSUME NEW st, NEW q \in Seq(Job), NEW told \in Seq(Answers), NEW tk \in Seq(Nat), NEW wr,
         q # <<>>, ~q[1].close, Sound(st, "asked", q, told, tk, wr)
  PROVE  Sound(st, "writing", q, told, Append(tk, q[1].chunk), wr)
<1> DEFINE c == q[1].call
           n == Append(tk, c)
<1>1. 1 \in 1..Len(q) /\ c \in Nat /\ Len(q) \in Nat
  <2>1. 1 \in 1..Len(q) /\ q[1] \in Job /\ Len(q) \in Nat
    BY AtFirst
  <2> QED BY <2>1 DEF Job
<1>2. q[1].chunk = c /\ c \in wr /\ told[c] = "pending"
  BY <1>1 DEF Sound, Lined
<1>3. /\ Len(tk) \in Nat /\ Len(n) = Len(tk) + 1 /\ n[Len(tk) + 1] = c /\ n # <<>>
      /\ \A k \in 1..Len(tk) : n[k] = tk[k] /\ k \in 1..Len(n)
      /\ \A k \in 1..Len(n) : k \in 1..Len(tk) \/ k = Len(tk) + 1
      /\ Len(tk) + 1 \in 1..Len(n)
  <2>1. n = Append(tk, c)
    OBVIOUS
  <2>2. c \in Nat /\ tk \in Seq(Nat)
    BY <1>1
  <2> HIDE DEF c, n
  <2> QED BY ONLY <2>1, <2>2, OneMore
<1>4. \A k \in 1..Len(tk) : tk[k] < c /\ tk[k] \in Nat
  BY <1>1 DEF Sound, Ahead
<1>5. \A i \in 1..Len(q) : i # 1 => c < q[i].call /\ q[i].call \in Nat
  BY <1>1 DEF Sound, Lined, Job
<1>6. \A i : Has(tk, i) => Has(n, i)
  BY <1>3 DEF Has
<1>7. Has(n, c)
  BY <1>3 DEF Has
<1> HIDE DEF c, n
<1>8. Had(told, n, wr)
  <2>1. wr \subseteq 1..Len(told) /\ \A k \in 1..Len(n) : n[k] \in wr
    BY <1>2, <1>3 DEF Sound, Had
  <2>2. \A j, k \in 1..Len(n) : j < k => n[j] < n[k]
    <3> SUFFICES ASSUME NEW j \in 1..Len(n), NEW k \in 1..Len(n), j < k PROVE n[j] < n[k]
      OBVIOUS
    <3>1. j \in 1..Len(tk)
      BY <1>3
    <3>2. CASE k \in 1..Len(tk)
      BY <3>1, <3>2, <1>3 DEF Sound, Had
    <3>3. CASE k = Len(tk) + 1
      BY <3>1, <3>3, <1>3, <1>4
    <3> QED BY <1>3, <3>2, <3>3
  <2>3. ASSUME NEW i \in wr, NEW k \in 1..Len(n), i < n[k] PROVE Has(n, i)
    <3>1. CASE k \in 1..Len(tk)
      BY <2>3, <3>1, <1>3, <1>6 DEF Sound, Had
    <3>2. CASE k = Len(tk) + 1 /\ ~Has(tk, i)
      <4>1. PICK j \in 1..Len(q) : q[j].call = i
        BY <3>2 DEF Sound, NoneLost
      <4>2. j # 1 => c < i /\ i \in Nat
        BY <4>1, <1>5
      <4>3. i < c
        BY <3>2, <2>3, <1>3
      <4> QED BY <4>1, <4>2, <4>3, <1>1 DEF c
    <3> QED BY <1>3, <1>6, <3>1, <3>2
  <2>4. \A i \in wr : told[i] = "resolved" => Has(n, i)
    BY <1>6 DEF Sound, Had
  <2> QED BY <2>1, <2>2, <2>3, <2>4 DEF Had
<1>9. Ahead("writing", q, n)
  <2>1. n[Len(n)] = q[1].call
    BY <1>3 DEF c
  <2>2. ASSUME NEW i \in 1..Len(q), i # 1, NEW k \in 1..Len(n) PROVE n[k] < q[i].call
    <3>1. n[k] <= c /\ n[k] \in Nat
      BY SMTT(60), <1>1, <1>3, <1>4
    <3> QED BY <3>1, <2>2, <1>5, <1>1
  <2> QED BY <2>1, <2>2, <1>3 DEF Ahead
<1>10. NoneLost(st, "writing", q, n, wr)
  BY <1>6 DEF Sound, NoneLost
<1>11. ToldSo(st, "writing", told, n)
  BY <1>3 DEF Sound, ToldSo
<1> QED BY <1>2, <1>8, <1>9, <1>10, <1>11 DEF Sound, n

\* The sink is done with the first job.
LEMMA Over ==
  ASSUME NEW st \in {"writable", "closed"}, NEW fl \in {"writing", "closing"}, NEW q \in Seq(Job),
         NEW told \in Seq(Answers), NEW tk \in Seq(Nat), NEW wr, q # <<>>,
         Sound(st, fl, q, told, tk, wr), NEW told2 \in Seq(Answers), Len(told2) = Len(told),
         \A i \in 1..Len(told) : told2[i] = IF i = q[1].call THEN "resolved" ELSE told[i],
         NEW st2, st2 = IF fl = "closing" THEN "closed" ELSE st
  PROVE  Sound(st2, "no", Tail(q), told2, tk, wr)
<1> DEFINE c == q[1].call
           n == Tail(q)
<1>1. 1 \in 1..Len(q) /\ c \in Nat /\ Len(q) \in Nat
  <2>1. 1 \in 1..Len(q) /\ q[1] \in Job /\ Len(q) \in Nat
    BY AtFirst
  <2> QED BY <2>1 DEF Job
<1>2. /\ Len(n) = Len(q) - 1 /\ n \in Seq(Job)
      /\ \A i \in 1..Len(n) : n[i] = q[i + 1] /\ i + 1 \in 1..Len(q) /\ i + 1 # 1
      /\ \A i \in 1..Len(q) : i = 1 \/ (i - 1 \in 1..Len(n) /\ n[i - 1] = q[i])
  BY <1>1, HeadTailProperties
<1>3. \A i \in 1..Len(n) : c < n[i].call /\ n[i].call # c
  BY <1>1, <1>2 DEF Sound, Lined, Job
<1>4. fl = "writing" => Has(tk, c) /\ ~q[1].close
  BY DEF Sound, Ahead, Has
<1>5. fl = "closing" => c \notin wr
  BY <1>1 DEF Sound, Ahead, Lined
<1>6. c \in 1..Len(told) /\ told2[c] = "resolved"
  BY <1>1 DEF Sound, Lined
<1> HIDE DEF c, n
<1>7. Had(told2, tk, wr)
  <2>1. \A i \in wr : told2[i] = "resolved" => Has(tk, i)
    BY <1>4, <1>5 DEF Sound, Had, c
  <2> QED BY <2>1 DEF Sound, Had
<1>8. Lined(n, told2, wr)
  <2>1. ASSUME NEW i \in 1..Len(n)
        PROVE  /\ n[i].call \in 1..Len(told2) /\ told2[n[i].call] = "pending"
               /\ n[i].close => n[i].call \notin wr
               /\ ~n[i].close => n[i].call \in wr /\ n[i].chunk = n[i].call
    <3>1. i + 1 \in 1..Len(q) /\ n[i] = q[i + 1] /\ n[i].call # c
      BY <1>2, <1>3
    <3>2. n[i].call \in 1..Len(told) => told2[n[i].call] = told[n[i].call]
      BY <3>1 DEF c
    <3> QED BY <3>1, <3>2 DEF Sound, Lined
  <2>2. \A i, j \in 1..Len(n) : i < j => n[i].call < n[j].call
    BY <1>1, <1>2 DEF Sound, Lined
  <2> QED BY <2>1, <2>2 DEF Lined
<1>9. Ahead("no", n, tk)
  BY <1>2 DEF Sound, Ahead
<1>10. NoneLost(st2, "no", n, tk, wr)
  <2>1. ASSUME NEW i \in wr, ~Has(tk, i) PROVE \E j \in 1..Len(n) : n[j].call = i
    <3>1. PICK j \in 1..Len(q) : q[j].call = i
      BY <2>1 DEF Sound, NoneLost
    <3>2. j # 1
      BY <3>1, <2>1, <1>4, <1>5 DEF c
    <3> QED BY <3>1, <3>2, <1>2
  <2> QED BY <2>1 DEF NoneLost
<1>11. ToldSo(st2, "no", told2, tk)
  <2> SUFFICES ASSUME fl = "writing", st = "writable", NEW k \in 1..Len(tk)
               PROVE  told2[tk[k]] = "resolved"
    BY DEF ToldSo
  <2>1. tk[k] \in 1..Len(told)
    BY DEF Sound, Had
  <2>2. k = Len(tk) => tk[k] = c
    BY DEF Sound, Ahead, c
  <2> QED BY <2>1, <2>2, <1>6 DEF Sound, ToldSo
<1> QED BY <1>7, <1>8, <1>9, <1>10, <1>11 DEF Sound, n

\* It is done with one that was dropped meanwhile.
LEMMA OverLate ==
  ASSUME NEW st, NEW fl, NEW told, NEW tk, NEW wr, NEW st2,
         Sound(st, fl, <<>>, told, tk, wr), fl # "no",
         st2 \in {st, "closed"}
  PROVE  Sound(st2, "no", <<>>, told, tk, wr)
BY DEF Sound, Lined, Ahead, NoneLost, ToldSo

-----------------------------------------------------------------------------
(* How many writes are queued.                                             *)

WritesIn(q) == {i \in 1..Len(q) : ~q[i].close}
\* The size kept is that of the writes queued.
Sized(q, size) == size = Cardinality(WritesIn(q))

\* They can be counted.
LEMMA WritesFinite ==
  ASSUME NEW q \in Seq(Job)
  PROVE  IsFiniteSet(WritesIn(q)) /\ Cardinality(WritesIn(q)) \in Nat
<1>1. Len(q) \in Nat
  OBVIOUS
<1>2. IsFiniteSet(1..Len(q))
  BY <1>1, FS_Interval
<1>3. WritesIn(q) \subseteq 1..Len(q)
  BY DEF WritesIn
<1> QED BY <1>2, <1>3, FS_Subset, FS_CardinalityType

\* The size is none of an empty queue, ...
LEMMA NoWrites == Sized(<<>>, 0)
<1>1. WritesIn(<<>>) = {}
  BY DEF WritesIn
<1> QED BY <1>1, FS_EmptySet DEF Sized

\* ... grows by a write that joins, ...
LEMMA OneMoreWrite ==
  ASSUME NEW q \in Seq(Job), NEW job \in Job, NEW size \in Int, Sized(q, size)
  PROVE  Sized(Append(q, job), IF job.close THEN size ELSE size + 1)
<1> DEFINE n == Append(q, job)
<1>1. /\ Len(q) \in Nat /\ Len(n) = Len(q) + 1 /\ n[Len(q) + 1] = job
      /\ \A i \in 1..Len(q) : n[i] = q[i] /\ i \in 1..Len(n)
      /\ \A i \in 1..Len(n) : i \in 1..Len(q) \/ i = Len(q) + 1
      /\ Len(q) + 1 \in 1..Len(n) /\ Len(q) + 1 \notin 1..Len(q)
  BY ONLY OneMore, q \in Seq(Job), job \in Job
<1> HIDE DEF n
<1>2. CASE job.close
  <2>1. WritesIn(n) = WritesIn(q)
    BY <1>1, <1>2 DEF WritesIn
  <2> QED BY <1>2, <2>1 DEF Sized, n
<1>3. CASE ~job.close
  <2>1. WritesIn(n) = WritesIn(q) \cup {Len(q) + 1} /\ Len(q) + 1 \notin WritesIn(q)
    BY <1>1, <1>3 DEF WritesIn
  <2>2. Cardinality(WritesIn(n)) = Cardinality(WritesIn(q)) + 1
    BY <2>1, WritesFinite, FS_AddElement
  <2> QED BY <1>3, <2>2 DEF Sized, n
<1> QED BY <1>2, <1>3

\* ... and shrinks by one that goes, a close being none.
LEMMA OneLessWrite ==
  ASSUME NEW q \in Seq(Job), q # <<>>, NEW size \in Int, Sized(q, size)
  PROVE  Sized(Tail(q), IF q[1].close THEN size ELSE size - 1)
<1> DEFINE n == Tail(q)
           rest == WritesIn(q) \ {1}
           f == [i \in rest |-> i - 1]
<1>1. /\ Len(q) \in Nat /\ Len(n) = Len(q) - 1 /\ n \in Seq(Job) /\ 1 \in 1..Len(q)
      /\ \A i \in 1..Len(n) : n[i] = q[i + 1] /\ i + 1 \in 1..Len(q) /\ i + 1 # 1
      /\ \A i \in 1..Len(q) : i = 1 \/ (i - 1 \in 1..Len(n) /\ n[i - 1] = q[i])
  BY AtFirst, HeadTailProperties
<1> HIDE DEF n
<1>2. Cardinality(WritesIn(n)) = Cardinality(rest)
  <2>1. rest \subseteq Int /\ WritesIn(n) \subseteq Int
    BY <1>1 DEF WritesIn
  <2>2. \A i \in rest : f[i] = i - 1 /\ i - 1 \in WritesIn(n)
    BY <1>1 DEF WritesIn
  <2>3. \A k \in WritesIn(n) : k + 1 \in rest /\ f[k + 1] = k
    BY <1>1 DEF WritesIn
  <2>4. f \in Bijection(rest, WritesIn(n))
    <3>1. f \in [rest -> WritesIn(n)]
      BY <2>2
    <3>2. \A i, j \in rest : f[i] = f[j] => i = j
      BY <2>1, <2>2
    <3> HIDE DEF f, rest
    <3> QED BY <2>3, <3>1, <3>2 DEF Bijection, Injection, Surjection, IsInjective
  <2>5. IsFiniteSet(rest)
    BY WritesFinite, FS_RemoveElement
  <2> HIDE DEF f, rest
  <2> QED BY <2>4, <2>5, FS_Bijection DEF ExistsBijection
<1>3. CASE q[1].close
  <2>1. rest = WritesIn(q)
    BY <1>3 DEF WritesIn
  <2> QED BY <1>2, <1>3, <2>1 DEF Sized, n
<1>4. CASE ~q[1].close
  <2>1. 1 \in WritesIn(q)
    BY <1>1, <1>4 DEF WritesIn
  <2>2. Cardinality(rest) = Cardinality(WritesIn(q)) - 1
    BY <2>1, WritesFinite, FS_RemoveElement
  <2> QED BY <1>2, <1>4, <2>2 DEF Sized, n
<1> QED BY <1>3, <1>4

-----------------------------------------------------------------------------
(* The stream's operations.                                                *)

\* ReadyIsRoom, of any stream.
Roomy(u) == u.locked /\ u.state = "writable" => (u.ready = "pending" <=> Room(u) <= 0)

\* The inductive invariant, of a stream and the writes made of it.
Keeps(u, wr) == /\ u \in Stream /\ Soundly(u, wr)
                /\ Sized(u.queue, u.size) /\ Roomy(u)

\* The types of a stream's fields.
LEMMA Fields ==
  ASSUME NEW u \in Stream
  PROVE  /\ u.queue \in Seq(Job) /\ u.told \in Seq(Answers) /\ u.taken \in Seq(Nat)
         /\ u.size \in Int /\ u.hwm \in Nat
         /\ u.state \in {"writable", "closed", "errored"}
         /\ u.flight \in {"no", "asked", "writing", "closing"}
BY DEF Stream

\* writableError needs less: the queue may be told of its end already.
LEMMA Errors ==
  ASSUME NEW u \in Stream, NEW wr, Had(u.told, u.taken, wr), Sized(u.queue, u.size),
         u.state = "errored" => u.queue = <<>>
  PROVE  Keeps(WritableError(u), wr)
<1> DEFINE v == WritableError(u)
<1>1. CASE u.state = "errored"
  <2>1. v = u
    BY <1>1 DEF WritableError
  <2>2. Sound("errored", u.flight, <<>>, u.told, u.taken, wr)
    BY Fields, Dropped
  <2> QED BY <1>1, <2>1, <2>2 DEF Keeps, Soundly, Roomy
<1>2. CASE u.state # "errored"
  <2>1. /\ v.state = "errored" /\ v.queue = <<>> /\ v.size = 0 /\ v.taken = u.taken
        /\ v.flight = u.flight /\ v.told = WRejected(u, Jobs(u))
    BY <1>2 DEF WritableError, Stream
  <2>2. /\ v.told \in Seq(Answers) /\ Len(v.told) = Len(u.told)
        /\ \A j \in 1..Len(u.told) : v.told[j] = u.told[j] \/ v.told[j] = "rejected"
    BY SMTT(60), <2>1, Fields DEF WRejected, Answers
  <2>3. v \in Stream
    <3>1. v = [u EXCEPT !.state = "errored", !.queue = <<>>, !.size = 0, !.told = v.told,
                 !.ready = v.ready, !.closed = v.closed]
      BY <1>2, <2>1 DEF WritableError, Stream
    <3>2. v.ready \in {"none"} \cup Answers /\ v.closed \in {"none"} \cup Answers
      BY <1>2 DEF WritableError, Stream, Answers
    <3> HIDE DEF v
    <3>3. \A told \in Seq(Answers), a, c \in {"none"} \cup Answers :
            [u EXCEPT !.state = "errored", !.queue = <<>>, !.size = 0, !.told = told,
               !.ready = a, !.closed = c] \in Stream
      <4> SUFFICES ASSUME NEW told \in Seq(Answers), NEW a \in {"none"} \cup Answers,
                          NEW c \in {"none"} \cup Answers
                   PROVE  [u EXCEPT !.state = "errored", !.queue = <<>>, !.size = 0,
                             !.told = told, !.ready = a, !.closed = c] \in Stream
        OBVIOUS
      <4>1. <<>> \in Seq(Job) /\ 0 \in Int /\ "errored" \in {"writable", "closed", "errored"}
        OBVIOUS
      <4> QED BY ONLY <4>1, u \in Stream DEF Stream
    <3>4. [u EXCEPT !.state = "errored", !.queue = <<>>, !.size = 0, !.told = v.told,
             !.ready = v.ready, !.closed = v.closed] \in Stream
      BY ONLY <2>2, <3>2, <3>3
    <3> QED BY ONLY <3>1, <3>4
  <2> HIDE DEF v
  <2>4. Sound("errored", u.flight, <<>>, v.told, u.taken, wr)
    BY <2>2, Fields, Dropped
  <2> QED BY <2>1, <2>3, <2>4, NoWrites DEF Keeps, Soundly, Roomy, v
<1> QED BY <1>1, <1>2

\* What only changes the lock and the promises the page has.
Alike(u, v) == /\ v.state = u.state /\ v.flight = u.flight /\ v.queue = u.queue
               /\ v.size = u.size /\ v.told = u.told /\ v.taken = u.taken

\* It may change them as it likes but for `ready'.
LEMMA LikeKeeps ==
  ASSUME NEW u, NEW v \in Stream, Alike(u, v), NEW wr,
         Soundly(u, wr), Sized(u.queue, u.size), Roomy(v)
  PROVE  Keeps(v, wr)
BY DEF Alike, Keeps, Soundly

\* Asking for the first job leaves `ready' alone, ...
LEMMA Advances ==
  ASSUME NEW u, NEW wr, Keeps(u, wr)
  PROVE  Keeps(Advance(u), wr)
<1> DEFINE v == Advance(u)
<1>1. CASE u.flight # "no" \/ u.state = "errored" \/ u.queue = <<>>
  BY <1>1 DEF Advance
<1>2. CASE ~(u.flight # "no" \/ u.state = "errored" \/ u.queue = <<>>)
  <2>1. u \in Stream
    BY DEF Keeps
  <2>2. v = [u EXCEPT !.flight = "asked"]
    BY <1>2 DEF Advance
  <2>3. /\ v \in Stream /\ v.flight = "asked" /\ v.state = u.state /\ v.queue = u.queue
        /\ v.size = u.size /\ v.told = u.told /\ v.taken = u.taken
        /\ v.locked = u.locked /\ v.ready = u.ready /\ v.hwm = u.hwm
    BY <2>1, <2>2 DEF Stream
  <2> HIDE DEF v
  <2>4. Sound(u.state, "asked", u.queue, u.told, u.taken, wr)
    BY <1>2, <2>1, Fields, Asked DEF Keeps, Soundly
  <2> QED BY <2>3, <2>4 DEF Keeps, Soundly, Roomy, Room, v
<1> QED BY <1>1, <1>2

\* ... which writableUpdateReady makes right.
LEMMA Updates ==
  ASSUME NEW u \in Stream, NEW wr, Soundly(u, wr), Sized(u.queue, u.size)
  PROVE  Keeps(UpdateReady(u), wr)
<1> DEFINE v == UpdateReady(u)
<1>1. CASE ~u.locked \/ u.state # "writable"
  BY <1>1 DEF UpdateReady, Keeps, Roomy
<1>2. CASE ~(~u.locked \/ u.state # "writable")
  <2>1. PICK a : /\ v = [u EXCEPT !.ready = a]
                 /\ a = IF Room(u) > 0 THEN (IF u.ready = "pending" THEN "resolved" ELSE u.ready)
                        ELSE (IF u.ready # "pending" THEN "pending" ELSE u.ready)
    BY <1>2 DEF UpdateReady
  <2>2. a \in {"none"} \cup Answers
    BY <2>1 DEF Stream, Answers
  <2>3. v \in Stream /\ Alike(u, v) /\ v.ready = a /\ v.hwm = u.hwm /\ v.size = u.size
    BY <2>1, <2>2 DEF Stream, Alike
  <2>4. Room(u) \in Int /\ Room(v) = Room(u)
    BY <2>3, Fields DEF Room
  <2> HIDE DEF v
  <2>5. Roomy(v)
    BY <2>1, <2>3, <2>4 DEF Roomy
  <2> QED BY <2>3, <2>5, LikeKeeps DEF v
<1> QED BY <1>1, <1>2

\* A call that is told no, and one that joins the queue.
LEMMA CallRefused ==
  ASSUME NEW u, NEW wr, Keeps(u, wr)
  PROVE  Keeps(Call(u, "rejected"), wr)
<1> DEFINE v == Call(u, "rejected")
<1>1. u \in Stream /\ "rejected" \in Answers
  BY DEF Keeps, Answers
<1>2. v.told = Append(u.told, "rejected") /\ v.told \in Seq(Answers)
  BY <1>1, Fields DEF Call, Stream
<1>3. /\ v \in Stream /\ v.flight = u.flight /\ v.state = u.state /\ v.queue = u.queue
      /\ v.size = u.size /\ v.taken = u.taken
      /\ v.locked = u.locked /\ v.ready = u.ready /\ v.hwm = u.hwm
  BY <1>1, <1>2 DEF Call, Stream
<1> HIDE DEF v
<1>4. Sound(u.state, u.flight, u.queue, v.told, u.taken, wr)
  BY <1>1, <1>2, Fields, Refused DEF Keeps, Soundly
<1> QED BY <1>3, <1>4 DEF Keeps, Soundly, Roomy, Room, v

LEMMA Pushes ==
  ASSUME NEW u, NEW wr, Keeps(u, wr), u.state = "writable", NEW close \in BOOLEAN,
         NEW n \in Nat, n = Len(u.told) + 1, NEW chunk \in Nat, ~close => chunk = n
  PROVE  LET v == Push(u, close, chunk) IN
         /\ v \in Stream /\ Soundly(v, IF close THEN wr ELSE wr \cup {n})
         /\ Sized(v.queue, IF close THEN v.size ELSE v.size + 1)
         /\ v.size = u.size /\ v.state = "writable"
         /\ v.locked = u.locked /\ v.ready = u.ready /\ v.hwm = u.hwm
<1> DEFINE v == Push(u, close, chunk)
           job == [call |-> n, close |-> close, chunk |-> chunk]
<1>1. u \in Stream /\ "pending" \in Answers /\ job \in Job
  BY DEF Keeps, Answers, Job
<1>2. job.call = n /\ job.close = close /\ job.chunk = chunk
  OBVIOUS
<1>3. v.told = Append(u.told, "pending") /\ v.queue = Append(u.queue, job)
  BY <1>1 DEF Push, Call, Stream
<1> HIDE DEF job
<1>4. v.told \in Seq(Answers) /\ v.queue \in Seq(Job)
  BY <1>1, <1>3, Fields
<1>5. /\ v \in Stream /\ v.flight = u.flight /\ v.state = u.state
      /\ v.size = u.size /\ v.taken = u.taken
      /\ v.locked = u.locked /\ v.ready = u.ready /\ v.hwm = u.hwm
  <2>1. v = [u EXCEPT !.told = v.told, !.queue = v.queue]
    BY <1>1, <1>3 DEF Push, Call, Stream
  <2> HIDE DEF v
  <2> QED BY <1>1, <1>4, <2>1 DEF Stream
<1> HIDE DEF v
<1>6. Sound("writable", u.flight, u.queue, u.told, u.taken, wr)
  BY DEF Keeps, Soundly
<1>7. Sound("writable", u.flight, Append(u.queue, job), Append(u.told, "pending"), u.taken,
            IF close THEN wr ELSE wr \cup {n})
  BY <1>1, <1>2, <1>6, Fields, Joined
<1>8. Sized(v.queue, IF close THEN v.size ELSE v.size + 1)
  BY <1>1, <1>2, <1>3, <1>5, Fields, OneMoreWrite DEF Keeps
<1> QED BY <1>3, <1>5, <1>7, <1>8 DEF Soundly, v

-----------------------------------------------------------------------------
(* The steps.                                                              *)

WriterInv == Keeps(w, wrote)

\* A new stream keeps it, ...
LEMMA WriterInit == ASSUME MaxHWM \in Nat, Init PROVE WriterInv
<1>1. PICK hwm \in 0..MaxHWM : w = Blank(hwm)
  BY DEF Init
<1>2. hwm \in Nat
  OBVIOUS
<1>3. /\ w \in Stream /\ w.queue = <<>> /\ w.told = <<>> /\ w.taken = <<>> /\ w.size = 0
      /\ w.flight = "no" /\ w.state = "writable" /\ ~w.locked
  BY <1>1, <1>2 DEF Blank, Stream, Answers
<1>4. Sound("writable", "no", <<>>, <<>>, <<>>, {})
  BY DEF Sound, Had, Lined, Ahead, NoneLost, ToldSo
<1> QED BY <1>3, <1>4, NoWrites DEF WriterInv, Keeps, Soundly, Roomy, Init

\* ... and so does every step: start's promise is settled, ...
LEMMA StartsKeeps == ASSUME WriterInv, Starts \/ StartFails PROVE WriterInv'
<1>1. CASE Starts
  <2>1. /\ w' \in Stream /\ Alike(w, w') /\ w'.locked = w.locked /\ w'.ready = w.ready
        /\ w'.hwm = w.hwm /\ wrote' = wrote
    BY <1>1 DEF Starts, Page, WriterInv, Keeps, Stream, Answers, Alike
  <2>2. Roomy(w')
    BY <2>1 DEF Alike, Roomy, Room, WriterInv, Keeps
  <2> QED BY <2>1, <2>2, LikeKeeps DEF WriterInv, Keeps
<1>2. CASE StartFails
  <2> DEFINE e == WritableError(w)
  <2>1. Keeps(e, wrote)
    BY Errors DEF WriterInv, Keeps, Soundly, Sound, NoneLost
  <2>2. w' = [e EXCEPT !.start = "rejected"] /\ wrote' = wrote
    BY <1>2 DEF StartFails, Page
  <2> HIDE DEF e
  <2>3. /\ w' \in Stream /\ Alike(e, w') /\ w'.locked = e.locked /\ w'.ready = e.ready
        /\ w'.hwm = e.hwm
    BY <2>1, <2>2 DEF Keeps, Stream, Answers, Alike
  <2>4. Roomy(w')
    BY <2>1, <2>3 DEF Alike, Roomy, Room, Keeps
  <2> QED BY <2>1, <2>2, <2>3, <2>4, LikeKeeps DEF WriterInv, Keeps
<1> QED BY <1>1, <1>2

\* ... the page writes and closes, ...
LEMMA CallsKeep == ASSUME WriterInv, Writes \/ CloseCalled PROVE WriterInv'
<1> DEFINE n == Len(w.told) + 1
<1>1. w \in Stream /\ n \in Nat
  BY Fields DEF WriterInv, Keeps
<1>2. CASE w.state # "writable"
  <2>1. w' = Call(w, "rejected") /\ wrote' = wrote
    BY <1>2 DEF Writes, CloseCalled, Write, Close, Page
  <2> QED BY <2>1, CallRefused DEF WriterInv
<1>3. CASE w.state = "writable" /\ Writes
  <2> DEFINE p == Push(w, FALSE, n)
             u == [p EXCEPT !.size = p.size + 1]
  <2>1. w' = Advance(UpdateReady(u)) /\ wrote' = wrote \cup {n}
    BY <1>3 DEF Writes, Write, NextCall
  <2>2. /\ p \in Stream /\ Soundly(p, wrote \cup {n}) /\ Sized(p.queue, p.size + 1)
    BY <1>1, <1>3, Pushes DEF WriterInv
  <2> HIDE DEF p, n
  <2>3. /\ u \in Stream /\ u.size = p.size + 1 /\ u.queue = p.queue /\ u.told = p.told
        /\ u.taken = p.taken /\ u.flight = p.flight /\ u.state = p.state
    <3>1. p \in Stream /\ p.size + 1 \in Int
      BY <2>2, Fields
    <3> QED BY ONLY <3>1 DEF Stream
  <2> HIDE DEF u
  <2>4. Keeps(UpdateReady(u), wrote \cup {n})
    BY <2>2, <2>3, Updates DEF Soundly
  <2> QED BY <2>1, <2>4, Advances DEF WriterInv
<1>4. CASE w.state = "writable" /\ CloseCalled
  <2> DEFINE p == Push(w, TRUE, 0)
  <2>1. w' = Advance(p) /\ wrote' = wrote
    BY <1>4 DEF CloseCalled, Close, Page
  <2>2. /\ p \in Stream /\ Soundly(p, wrote) /\ Sized(p.queue, p.size)
        /\ p.size = w.size /\ p.state = "writable"
        /\ p.locked = w.locked /\ p.ready = w.ready /\ p.hwm = w.hwm
    <3>1. Keeps(w, wrote) /\ w.state = "writable" /\ TRUE \in BOOLEAN /\ 0 \in Nat
      BY <1>4 DEF WriterInv
    <3>2. n \in Nat /\ n = Len(w.told) + 1
      BY <1>1
    <3> HIDE DEF n
    <3> QED BY ONLY ZenonT(60), <3>1, <3>2, Pushes
  <2> HIDE DEF p
  <2>3. Roomy(p)
    BY <2>2, <1>4 DEF Roomy, Room, WriterInv, Keeps
  <2> QED BY <2>1, <2>2, <2>3, Advances DEF WriterInv, Keeps
<1> QED BY <1>2, <1>3, <1>4

\* ... the stream is made to fail, ...
LEMMA ErrorsKeep == ASSUME WriterInv, AbortCalled \/ ControllerErrs PROVE WriterInv'
<1>1. w' = WritableError(w) /\ wrote' = wrote
  BY DEF AbortCalled, ControllerErrs, Abort, Page
<1> QED BY <1>1, Errors DEF WriterInv, Keeps, Soundly, Sound, NoneLost

\* ... its lock is taken and left, ...
LEMMA LocksKeep == ASSUME WriterInv, TakesLock \/ LeavesLock PROVE WriterInv'
<1>1. w \in Stream /\ Room(w) \in Int
  BY Fields DEF WriterInv, Keeps, Room
<1>2. CASE TakesLock
  <2>1. PICK a \in Answers, c \in Answers :
          /\ w' = [w EXCEPT !.locked = TRUE, !.ready = a, !.closed = c]
          /\ w.state = "writable" => a = IF Room(w) > 0 THEN "resolved" ELSE "pending"
    BY <1>1, <1>2 DEF TakesLock, GetWriter, Answers, Stream
  <2>2. w' \in Stream /\ Alike(w, w') /\ w'.ready = a /\ w'.hwm = w.hwm /\ w'.state = w.state
    BY <1>1, <2>1 DEF Stream, Alike
  <2>3. Roomy(w')
    BY <1>1, <2>1, <2>2 DEF Roomy, Room, Alike
  <2> QED BY <1>2, <2>2, <2>3, LikeKeeps DEF TakesLock, Page, WriterInv, Keeps
<1>3. CASE LeavesLock
  <2>1. w' \in Stream /\ Alike(w, w') /\ ~w'.locked /\ wrote' = wrote
    BY <1>1, <1>3 DEF LeavesLock, ReleaseWriter, Stream, Alike, Page
  <2> QED BY <2>1, LikeKeeps DEF WriterInv, Keeps, Roomy
<1> QED BY <1>2, <1>3

\* The job in flight is rejected, and the stream has failed.
LEMMA FailsKeep ==
  ASSUME WriterInv, NEW calls,
         w' = WritableError([w EXCEPT !.flight = "no",
                               !.told = IF w.queue = <<>> THEN @ ELSE WRejected(w, calls)]),
         wrote' = wrote
  PROVE  WriterInv'
<1>1. w \in Stream
  BY DEF WriterInv, Keeps
<1> DEFINE told == IF w.queue = <<>> THEN w.told ELSE WRejected(w, calls)
           u == [w EXCEPT !.flight = "no", !.told = told]
<1>2. /\ told \in Seq(Answers) /\ Len(told) = Len(w.told)
      /\ \A j \in 1..Len(w.told) : told[j] = w.told[j] \/ told[j] = "rejected"
  BY <1>1, Fields DEF WRejected, Answers
<1>3. w' = WritableError(u)
  BY <1>1 DEF Stream
<1> HIDE DEF told
<1>4. /\ u \in Stream /\ u.told = told /\ u.taken = w.taken /\ u.queue = w.queue
      /\ u.size = w.size /\ u.state = w.state
  BY <1>1, <1>2 DEF Stream
<1> HIDE DEF u
<1>5. Sound("errored", "no", <<>>, told, w.taken, wrote)
  BY <1>1, <1>2, Fields, Dropped DEF WriterInv, Keeps, Soundly, Sound
<1> QED BY <1>3, <1>4, <1>5, Errors DEF WriterInv, Keeps, Soundly, Sound, NoneLost

\* ... the sink is called, ...
LEMMA CallsSinkKeeps == ASSUME WriterInv, CallsSink PROVE WriterInv'
<1>1. w \in Stream /\ w.flight = "asked" /\ wrote' = wrote
  BY DEF CallsSink, MayCallSink, Page, WriterInv, Keeps
<1>2. CASE w.state = "errored" \/ w.start = "rejected"
  BY <1>1, <1>2, FailsKeep DEF CallsSink, SinkCalled
<1>3. CASE ~(w.state = "errored" \/ w.start = "rejected")
  <2>1. w.queue # <<>> /\ Sound(w.state, "asked", w.queue, w.told, w.taken, wrote)
    BY <1>1, <1>3 DEF WriterInv, Keeps, Soundly, Sound, NoneLost
  <2>2. InFlight(w) = w.queue[1] /\ w.queue[1] \in Job
    BY <1>1, <2>1, Fields, AtFirst DEF InFlight
  <2>3. CASE w.queue[1].close
    <3>1. w' = [w EXCEPT !.flight = "closing", !.over = TRUE]
      BY <1>3, <2>2, <2>3 DEF CallsSink, SinkCalled
    <3>2. /\ w' \in Stream /\ w'.flight = "closing" /\ w'.state = w.state /\ w'.queue = w.queue
          /\ w'.size = w.size /\ w'.told = w.told /\ w'.taken = w.taken
          /\ w'.locked = w.locked /\ w'.ready = w.ready /\ w'.hwm = w.hwm
      BY <1>1, <3>1 DEF Stream
    <3>3. Sound(w.state, "closing", w.queue, w.told, w.taken, wrote)
      BY <1>1, <2>1, <2>3, Fields, Closed
    <3> QED BY <1>1, <3>2, <3>3 DEF WriterInv, Keeps, Soundly, Roomy, Room
  <2>4. CASE ~w.queue[1].close
    <3> DEFINE tk == Append(w.taken, w.queue[1].chunk)
    <3>1. w' = [w EXCEPT !.flight = "writing", !.taken = tk]
      BY <1>3, <2>2, <2>4 DEF CallsSink, SinkCalled
    <3>2. tk \in Seq(Nat)
      BY <1>1, <2>2, Fields DEF Job
    <3>3. Sound(w.state, "writing", w.queue, w.told, tk, wrote)
      BY <1>1, <2>1, <2>4, Fields, Taken
    <3> HIDE DEF tk
    <3>4. /\ w' \in Stream /\ w'.flight = "writing" /\ w'.state = w.state /\ w'.queue = w.queue
          /\ w'.size = w.size /\ w'.told = w.told /\ w'.taken = tk
          /\ w'.locked = w.locked /\ w'.ready = w.ready /\ w'.hwm = w.hwm
      BY <1>1, <3>1, <3>2 DEF Stream
    <3> QED BY <1>1, <3>3, <3>4 DEF WriterInv, Keeps, Soundly, Roomy, Room
  <2> QED BY <2>3, <2>4
<1> QED BY <1>2, <1>3

\* ... is done with a job, ...
LEMMA SinkTakesKeeps == ASSUME WriterInv, SinkTakes PROVE WriterInv'
<1> DEFINE close == w.flight = "closing"
           left == IF w.queue = <<>> THEN w
                   ELSE [w EXCEPT !.queue = Tail(@),
                           !.size = IF close THEN @ ELSE @ - 1,
                           !.told = [i \in DOMAIN @ |-> IF i = InFlight(w).call
                                                        THEN "resolved" ELSE @[i]]]
           idle == [left EXCEPT !.flight = "no",
                      !.state = IF close THEN "closed" ELSE @,
                      !.closed = IF close /\ w.locked /\ @ = "pending" THEN "resolved" ELSE @]
<1>1. /\ w \in Stream /\ w.flight \in {"writing", "closing"} /\ wrote' = wrote
      /\ w' = Advance(UpdateReady(idle))
  BY DEF SinkTakes, SinkBusy, SinkDone, Page, WriterInv, Keeps
<1>2. idle \in Stream /\ Soundly(idle, wrote) /\ Sized(idle.queue, idle.size)
  <2>1. CASE w.queue = <<>>
    <3>1. left = w
      BY <2>1
    <3> HIDE DEF left
    <3>2. /\ idle \in Stream /\ idle.flight = "no" /\ idle.queue = <<>> /\ idle.size = w.size
          /\ idle.told = w.told /\ idle.taken = w.taken /\ idle.state \in {w.state, "closed"}
      BY ZenonT(60), <1>1, <2>1, <3>1 DEF Stream, Answers
    <3> HIDE DEF idle
    <3>3. Sound(idle.state, "no", <<>>, w.told, w.taken, wrote)
      BY <1>1, <2>1, <3>2, OverLate DEF WriterInv, Keeps, Soundly
    <3> QED BY <2>1, <3>2, <3>3 DEF WriterInv, Keeps, Soundly
  <2>2. CASE w.queue # <<>>
    <3> DEFINE q == w.queue
               n == Tail(q)
               told == [i \in DOMAIN w.told |-> IF i = q[1].call THEN "resolved" ELSE w.told[i]]
               size == IF close THEN w.size ELSE w.size - 1
    <3>1. q \in Seq(Job) /\ q # <<>> /\ Head(q) = q[1] /\ n \in Seq(Job)
      BY <1>1, <2>2, Fields, AtFirst, HeadTailProperties
    <3>2. /\ told \in Seq(Answers) /\ Len(told) = Len(w.told) /\ size \in Int
          /\ \A i \in 1..Len(w.told) : told[i] = IF i = q[1].call THEN "resolved" ELSE w.told[i]
      BY <1>1, Fields DEF Answers
    <3>3. left = [w EXCEPT !.queue = n, !.size = size, !.told = told]
      BY <1>1, <2>2, <3>1 DEF InFlight, Stream
    <3>4. w.state \in {"writable", "closed"} /\ (close <=> q[1].close)
      BY <1>1, <2>2 DEF WriterInv, Keeps, Soundly, Sound, NoneLost, Ahead, Stream
    <3> HIDE DEF n, told, size, left
    <3>5. /\ left \in Stream /\ left.state = w.state /\ left.queue = n /\ left.size = size
          /\ left.told = told /\ left.taken = w.taken
      BY <1>1, <3>1, <3>2, <3>3 DEF Stream
    <3>6. /\ idle \in Stream /\ idle.flight = "no" /\ idle.queue = n /\ idle.size = size
          /\ idle.told = told /\ idle.taken = w.taken
          /\ idle.state = IF w.flight = "closing" THEN "closed" ELSE w.state
      BY <3>5 DEF Stream, Answers
    <3> HIDE DEF idle
    <3>7. Sound(idle.state, "no", n, told, w.taken, wrote)
      <4>1. Sound(w.state, w.flight, q, w.told, w.taken, wrote)
        BY DEF WriterInv, Keeps, Soundly
      <4>2. w.told \in Seq(Answers) /\ w.taken \in Seq(Nat)
        BY <1>1, Fields
      <4>3. /\ w.flight \in {"writing", "closing"} /\ w.state \in {"writable", "closed"}
            /\ idle.state = (IF w.flight = "closing" THEN "closed" ELSE w.state)
        BY ONLY <1>1, <3>4, <3>6
      <4>4. n = Tail(q)
        BY DEF n
      <4> HIDE DEF q
      <4> QED BY ONLY ZenonT(60), <3>1, <3>2, <4>1, <4>2, <4>3, <4>4, Over
    <3>8. Sized(n, size)
      BY <1>1, <2>2, <3>1, <3>4, Fields, OneLessWrite DEF WriterInv, Keeps, n, size
    <3> QED BY <3>6, <3>7, <3>8 DEF Soundly
  <2> QED BY <2>1, <2>2
<1> HIDE DEF idle
<1>3. Keeps(UpdateReady(idle), wrote)
  BY <1>2, Updates
<1> QED BY <1>1, <1>3, Advances DEF WriterInv

\* ... or fails at it.
LEMMA SinkFailsKeeps == ASSUME WriterInv, SinkFails PROVE WriterInv'
BY FailsKeep DEF SinkFails, SinkFailed, Page

\* All steps together.
LEMMA WriterNext == ASSUME WriterInv, [Next]_vars PROVE WriterInv'
<1>1. CASE UNCHANGED vars
  BY <1>1 DEF vars, WriterInv
<1> QED BY <1>1, StartsKeeps, CallsKeep, ErrorsKeep, LocksKeep, CallsSinkKeeps,
        SinkTakesKeeps, SinkFailsKeeps DEF Next, SinkActs

\* It holds all that the page and the sink rely on.
LEMMA WriterInvIsServed ==
  ASSUME WriterInv PROVE TypeOK /\ SinkInOrder /\ ToldIsTrue /\ ReadyIsRoom
<1>1. /\ w \in Stream /\ w.queue \in Seq(Job) /\ w.told \in Seq(Answers) /\ w.taken \in Seq(Nat)
      /\ DOMAIN w.queue = 1..Len(w.queue) /\ DOMAIN w.taken = 1..Len(w.taken)
  BY Fields DEF WriterInv, Keeps
<1>2. TypeOK
  <2>1. w.size = Cardinality({i \in DOMAIN w.queue : ~w.queue[i].close})
    BY <1>1 DEF WriterInv, Keeps, Sized, WritesIn
  <2> QED BY <1>1, <2>1 DEF TypeOK, Stream, Answers
<1>3. SinkInOrder
  BY <1>1 DEF SinkInOrder, Ascending, WriterInv, Keeps, Soundly, Sound, Had, Has
<1>4. ToldIsTrue
  BY <1>1 DEF ToldIsTrue, WriterInv, Keeps, Soundly, Sound, Had, Has, ToldSo
<1>5. ReadyIsRoom
  BY DEF ReadyIsRoom, WriterInv, Keeps, Roomy
<1> QED BY <1>2, <1>3, <1>4, <1>5

\* For any mark and any number of calls: the sink has the chunks in order, each
\* once and none left out, the page is told what became of its writes, and
\* `ready' is pending exactly when there is no room.
THEOREM SinkStaysServed ==
  ASSUME MaxHWM \in Nat
  PROVE  Spec => [](TypeOK /\ SinkInOrder /\ ToldIsTrue /\ ReadyIsRoom)
BY WriterInit, WriterNext, WriterInvIsServed, PTL DEF Spec

\* A stream that has failed begins nothing on its sink: what was in its hands may
\* end, and calls are told no.
Left(u, v) == v.taken = u.taken /\ v.over = u.over

LEMMA FailedLeaves ==
  ASSUME WriterInv, w.state = "errored", Next
  PROVE  Left(w, w')
<1>1. w \in Stream
  BY DEF WriterInv, Keeps
<1>2. CASE Starts \/ StartFails
  BY <1>1, <1>2 DEF Starts, StartFails, WritableError, Left, Stream
<1>3. CASE Writes \/ CloseCalled
  BY <1>1, <1>3 DEF Writes, CloseCalled, Write, Close, Call, Left, Stream
<1>4. CASE AbortCalled \/ ControllerErrs
  BY <1>4 DEF AbortCalled, ControllerErrs
<1>5. CASE TakesLock \/ LeavesLock
  BY <1>1, <1>5 DEF TakesLock, LeavesLock, GetWriter, ReleaseWriter, Left, Stream
<1>6. CASE CallsSink \/ SinkFails
  <2> DEFINE u == [w EXCEPT !.flight = "no", !.told = IF w.queue = <<>> THEN @
                                                      ELSE WRejected(w, {InFlight(w).call})]
  <2>1. w' = WritableError(u)
    BY <1>6 DEF CallsSink, SinkFails, SinkCalled, SinkFailed
  <2>2. u.state = "errored" /\ Left(w, u)
    BY <1>1 DEF Left, Stream
  <2> HIDE DEF u
  <2> QED BY <2>1, <2>2 DEF WritableError
<1>7. CASE SinkTakes
  <2> DEFINE close == w.flight = "closing"
             idle == [w EXCEPT !.flight = "no",
                        !.state = IF close THEN "closed" ELSE @,
                        !.closed = IF close /\ w.locked /\ @ = "pending" THEN "resolved" ELSE @]
  <2>1. w.queue = <<>>
    BY DEF WriterInv, Keeps, Soundly, Sound, NoneLost
  <2>2. w' = Advance(UpdateReady(idle))
    BY <1>7, <2>1 DEF SinkTakes, SinkDone
  <2>3. /\ idle.state # "writable" /\ idle.flight = "no" /\ idle.queue = <<>> /\ Left(w, idle)
    BY <1>1, <2>1 DEF Left, Stream
  <2> HIDE DEF idle
  <2>4. w' = idle
    BY <2>2, <2>3 DEF UpdateReady, Advance
  <2> QED BY <2>3, <2>4
<1> QED BY <1>2, <1>3, <1>4, <1>5, <1>6, <1>7 DEF Next, SinkActs

\* FailedIsLeft, of a stream by itself, for any mark and any number of calls.
THEOREM FailedIsLeftAlone ==
  ASSUME MaxHWM \in Nat
  PROVE  Spec => [][FailedIsLeft]_vars
<1>1. WriterInv /\ [Next]_vars => [FailedIsLeft]_vars
  BY FailedLeaves DEF Left, FailedIsLeft
<1> QED BY <1>1, WriterInit, WriterNext, PTL DEF Spec
=============================================================================
