---------------------------- MODULE StreamProofs ----------------------------
(***************************************************************************)
(* Theorems about the streams, for every highWaterMark, number of chunks,  *)
(* of reads and of calls: a readable stream's reads get what its source    *)
(* made, in order, and what MCStreams says of a reader, of the branches of *)
(* a stream that is teed and of a sink in each use.  The proof for the sink *)
(* is WritableStream's own.                                                *)
(***************************************************************************)
EXTENDS MCStreams, SequenceTheorems, TLAPS

-----------------------------------------------------------------------------
(* ReadableStream.                                                         *)

\* What a read is told, with a chunk only where it is told of one.
Telling ==
  {a \in [is : {"waiting", "done", "failed", "released", "chunk"}, chunk : Nat] :
     a.is # "chunk" => a.chunk = 0}

\* The chunks the reads have had, the first n the source made, and then those
\* queued, up to the m-th; all of these, while none has been thrown away.
Passed(told, queue, n, m, whole) ==
  /\ \A i \in 1..Len(told) : told[i].is = "chunk" => told[i].chunk \in 1..n
  /\ \A c \in 1..n : \E i \in 1..Len(told) : told[i].is = "chunk" /\ told[i].chunk = c
  /\ \A i, j \in 1..Len(told) :
       i < j /\ told[i].is = "chunk" /\ told[j].is = "chunk" => told[i].chunk < told[j].chunk
  /\ \A k \in 1..Len(queue) : queue[k] = n + k
  /\ n + Len(queue) <= m
  /\ whole => n + Len(queue) = m

InTurn(told, queue, m, whole) == \E n \in 0..m : Passed(told, queue, n, m, whole)

\* The reads that wait are those in the list, in the order they were made and
\* after all that had a chunk: the one that is answered next is the first.
ReadersInLine(told, waits) ==
  /\ \A k \in 1..Len(waits) : waits[k] \in 1..Len(told) /\ told[waits[k]].is = "waiting"
  /\ \A i \in 1..Len(told) : told[i].is = "waiting" => \E k \in 1..Len(waits) : waits[k] = i
  /\ \A j, k \in 1..Len(waits) : j < k => waits[j] < waits[k]
  /\ \A i \in 1..Len(told) : told[i].is = "chunk" => \A k \in 1..Len(waits) : i < waits[k]

\* A read waits for more of a stream that may have more, and one that is
\* closing has some left.
EndsEmpty(state, locked, waits, queue, closing, dr) ==
  /\ waits # <<>> => queue = <<>> /\ state = "readable" /\ ~closing /\ locked
  /\ state # "readable" => queue = <<>>
  /\ closing /\ state = "readable" => queue # <<>>
  /\ dr => state # "readable"

Mark(hwm) == IF hwm = 0 THEN 1 ELSE hwm

\* A source that answers what it is asked is asked while a read waits, again
\* when it has answered already, and asked only while there is room.
AskedFor(waits, queue, hwm, started, pulling, again, gv) ==
  /\ pulling => started
  /\ gv => pulling
  /\ waits # <<>> /\ started => pulling /\ (gv => again)
  /\ pulling /\ ~gv => Len(queue) < Mark(hwm)
  /\ Len(queue) <= Mark(hwm)

Asked(s, gv) == AskedFor(s.waits, s.queue, s.hwm, s.started, s.pulling, s.again, gv)
Readers(s, m, dr) ==
  /\ InTurn(s.told, s.queue, m, s.state # "errored" /\ ~dr)
  /\ ReadersInLine(s.told, s.waits)
  /\ EndsEmpty(s.state, s.locked, s.waits, s.queue, s.closing, dr)

-----------------------------------------------------------------------------
(* What becomes of the reads and the queue.                                *)

\* A sequence with one more at its end.
LEMMA Appended ==
  ASSUME NEW S, NEW s \in Seq(S), NEW e \in S, NEW z, z = Append(s, e)
  PROVE  /\ Len(s) \in Nat /\ z \in Seq(S) /\ Len(z) = Len(s) + 1
         /\ z[Len(s) + 1] = e /\ z # <<>>
         /\ \A i \in 1..Len(s) : z[i] = s[i] /\ i \in 1..Len(z)
         /\ \A i \in 1..Len(z) : i \in 1..Len(s) \/ i = Len(s) + 1
         /\ Len(s) + 1 \in 1..Len(z) /\ Len(s) + 1 \notin 1..Len(s)
<1>1. /\ Len(s) \in Nat /\ z \in Seq(S) /\ Len(z) = Len(s) + 1
      /\ \A i \in 1..Len(s) : z[i] = s[i]
      /\ z[Len(s) + 1] = e /\ z # <<>>
  BY AppendProperties
<1> QED BY <1>1

\* A sequence without its first.
LEMMA Behead ==
  ASSUME NEW S, NEW s \in Seq(S), s # <<>>, NEW z, z = Tail(s)
  PROVE  /\ Len(s) \in Nat /\ 1 \in 1..Len(s) /\ s[1] \in S /\ Head(s) = s[1]
         /\ z \in Seq(S) /\ Len(z) = Len(s) - 1
         /\ \A i \in 1..Len(z) : z[i] = s[i + 1] /\ i + 1 \in 1..Len(s) /\ i + 1 # 1
         /\ \A i \in 1..Len(s) : i = 1 \/ (i - 1 \in 1..Len(z) /\ z[i - 1] = s[i])
<1>1. Len(s) \in Nat /\ 1 \in 1..Len(s) /\ s[1] \in S /\ Head(s) = s[1]
  OBVIOUS
<1>2. z \in Seq(S) /\ Len(z) = Len(s) - 1 /\ \A i \in 1..Len(z) : z[i] = s[i + 1]
  BY HeadTailProperties
<1> QED BY <1>1, <1>2

\* All that wait are told a.
AllHear(told, told2, a) ==
  /\ Len(told2) = Len(told)
  /\ \A i \in 1..Len(told) : told2[i] = IF told[i].is = "waiting" THEN a ELSE told[i]

\* If that is no chunk, the order is kept, and none waits.
LEMMA AllTold ==
  ASSUME NEW told, NEW told2, Len(told) \in Nat, NEW a, a.is \notin {"waiting", "chunk"},
         AllHear(told, told2, a),
         NEW queue, NEW m \in Nat, NEW whole \in BOOLEAN, InTurn(told, queue, m, whole)
  PROVE  ReadersInLine(told2, <<>>) /\ InTurn(told2, queue, m, whole)
<1>1. ReadersInLine(told2, <<>>)
  BY DEF ReadersInLine, AllHear
<1>2. \A i \in 1..Len(told) :
        /\ told2[i].is = "chunk" <=> told[i].is = "chunk"
        /\ told[i].is = "chunk" => told2[i] = told[i]
  BY DEF AllHear
<1>0. Len(told2) = Len(told)
  BY DEF AllHear
<1>3. ASSUME NEW n \in 0..m, Passed(told, queue, n, m, whole)
      PROVE  Passed(told2, queue, n, m, whole)
  BY <1>0, <1>2, <1>3 DEF Passed
<1> QED BY <1>1, <1>3 DEF InTurn

\* The queue is thrown away.
LEMMA Emptied ==
  ASSUME NEW told, NEW queue, Len(queue) \in Nat, NEW m \in Nat, NEW whole \in BOOLEAN,
         InTurn(told, queue, m, whole)
  PROVE  InTurn(told, <<>>, m, FALSE)
<1>1. PICK n \in 0..m : Passed(told, queue, n, m, whole)
  BY DEF InTurn
<1>2. Passed(told, <<>>, n, m, FALSE)
  BY <1>1 DEF Passed
<1> QED BY <1>2 DEF InTurn

\* The first that waits gets what the source makes.
LEMMA Handed ==
  ASSUME NEW told \in Seq(Telling), NEW waits \in Seq(Nat), waits # <<>>, NEW m \in Nat,
         InTurn(told, <<>>, m, TRUE), ReadersInLine(told, waits), NEW told2,
         Len(told2) = Len(told),
         \A i \in 1..Len(told) : told2[i] = IF i = Head(waits) THEN Given(m + 1) ELSE told[i]
  PROVE  InTurn(told2, <<>>, m + 1, TRUE) /\ ReadersInLine(told2, Tail(waits))
<1> DEFINE rest == Tail(waits)
           c == waits[1]
<1>1. /\ Len(waits) \in Nat /\ 1 \in 1..Len(waits) /\ Head(waits) = c
      /\ rest \in Seq(Nat) /\ Len(rest) = Len(waits) - 1
      /\ \A i \in 1..Len(rest) : rest[i] = waits[i + 1] /\ i + 1 \in 1..Len(waits) /\ i + 1 # 1
      /\ \A i \in 1..Len(waits) : i = 1 \/ (i - 1 \in 1..Len(rest) /\ rest[i - 1] = waits[i])
  BY Behead
<1>2. /\ c \in 1..Len(told) /\ told[c].is = "waiting"
      /\ \A i \in 1..Len(told) : told[i].is = "chunk" => i < c
      /\ \A i \in 1..Len(rest) : c < rest[i] /\ rest[i] \in 1..Len(told)
                                 /\ told[rest[i]].is = "waiting"
  BY <1>1 DEF ReadersInLine
<1>3. Given(m + 1).is = "chunk" /\ Given(m + 1).chunk = m + 1 /\ Len(told) \in Nat
  BY DEF Given
<1> HIDE DEF rest, c
<1>4. /\ told2[c] = Given(m + 1)
      /\ \A i \in 1..Len(told) : i # c => told2[i] = told[i]
  BY <1>1, <1>2
<1>5. PICK n \in 0..m : Passed(told, <<>>, n, m, TRUE)
  BY DEF InTurn
<1>6. n = m
  BY <1>5 DEF Passed
<1>7. Passed(told2, <<>>, m + 1, m + 1, TRUE)
  <2>1. ASSUME NEW i \in 1..Len(told2), told2[i].is = "chunk" PROVE told2[i].chunk \in 1..m+1
    <3>1. CASE i = c
      BY <1>3, <1>4, <3>1
    <3>2. CASE i # c
      BY <1>4, <1>5, <1>6, <2>1, <3>2 DEF Passed
    <3> QED BY <3>1, <3>2
  <2>2. ASSUME NEW d \in 1..m+1
        PROVE  \E i \in 1..Len(told2) : told2[i].is = "chunk" /\ told2[i].chunk = d
    <3>1. CASE d = m + 1
      BY <1>2, <1>3, <1>4, <3>1
    <3>2. CASE d # m + 1
      <4>1. PICK i \in 1..Len(told) : told[i].is = "chunk" /\ told[i].chunk = d
        BY <1>5, <1>6, <3>2 DEF Passed
      <4>2. i # c
        BY <1>2, <4>1
      <4> QED BY <1>4, <4>1, <4>2
    <3> QED BY <3>1, <3>2
  <2>3. ASSUME NEW i \in 1..Len(told2), NEW j \in 1..Len(told2), i < j,
               told2[i].is = "chunk", told2[j].is = "chunk"
        PROVE  told2[i].chunk < told2[j].chunk
    <3>1. CASE j = c
      <4>1. told2[i] = told[i]
        BY <1>2, <1>4, <2>3, <3>1
      <4>2. told2[i].chunk \in 1..m
        BY <1>5, <1>6, <2>3, <4>1 DEF Passed
      <4>3. told2[j].chunk = m + 1
        BY <1>3, <1>4, <3>1
      <4> QED BY ONLY <4>2, <4>3, m \in Nat
    <3>2. CASE i = c /\ j # c
      <4>1. told[j].is = "chunk"
        BY <1>4, <2>3, <3>2
      <4>2. j < c
        BY <1>2, <4>1
      <4> QED BY <2>3, <3>2, <4>2, <1>2
    <3>3. CASE i # c /\ j # c
      BY <1>4, <1>5, <2>3, <3>3 DEF Passed
    <3> QED BY <3>1, <3>2, <3>3
  <2>4. Len(<<>>) = 0 /\ 1..Len(<<>>) = {}
    OBVIOUS
  <2> QED BY <2>1, <2>2, <2>3, <2>4 DEF Passed
<1>8. ReadersInLine(told2, rest)
  <2>1. \A i \in 1..Len(told) : told2[i].is = "waiting" => told[i].is = "waiting" /\ i # c
    BY <1>3, <1>4
  <2>2. ASSUME NEW i \in 1..Len(told2), told2[i].is = "waiting"
        PROVE  \E k \in 1..Len(rest) : rest[k] = i
    <3>1. PICK k \in 1..Len(waits) : waits[k] = i
      BY <2>1, <2>2 DEF ReadersInLine
    <3>2. k # 1
      BY <2>1, <2>2, <3>1 DEF c
    <3> QED BY <1>1, <3>1, <3>2
  <2>3. \A k \in 1..Len(rest) : rest[k] # c /\ told2[rest[k]] = told[rest[k]]
    BY <1>2, <1>4
  <2>4. \A k \in 1..Len(rest) : rest[k] \in 1..Len(told2) /\ told2[rest[k]].is = "waiting"
    BY <1>2, <2>3
  <2>5. \A j, k \in 1..Len(rest) : j < k => rest[j] < rest[k]
    BY <1>1 DEF ReadersInLine
  <2>6. ASSUME NEW i \in 1..Len(told2), told2[i].is = "chunk", NEW k \in 1..Len(rest)
        PROVE  i < rest[k]
    <3>1. i <= c
      BY <1>2, <1>4, <2>6
    <3> QED BY <1>2, <3>1
  <2> QED BY <2>2, <2>4, <2>5, <2>6 DEF ReadersInLine
<1>9. m + 1 \in 0..m+1
  OBVIOUS
<1> QED BY <1>7, <1>8, <1>9 DEF InTurn, rest

\* What the source makes is queued.
LEMMA Queued ==
  ASSUME NEW told, NEW S, NEW queue \in Seq(S), NEW m \in Nat, m + 1 \in S, InTurn(told, queue, m, TRUE)
  PROVE  InTurn(told, Append(queue, m + 1), m + 1, TRUE)
<1> DEFINE q == Append(queue, m + 1)
<1>1. /\ Len(queue) \in Nat /\ Len(q) = Len(queue) + 1 /\ q[Len(queue) + 1] = m + 1
      /\ \A i \in 1..Len(queue) : q[i] = queue[i]
      /\ \A i \in 1..Len(q) : i \in 1..Len(queue) \/ i = Len(queue) + 1
  BY Appended
<1>2. PICK n \in 0..m : Passed(told, queue, n, m, TRUE)
  BY DEF InTurn
<1> HIDE DEF q
<1>3. n + Len(queue) = m /\ n \in Nat /\ n \in 0..m+1
  BY <1>1, <1>2 DEF Passed
<1>4. ASSUME NEW k \in 1..Len(q) PROVE q[k] = n + k
  <2>1. CASE k \in 1..Len(queue)
    BY <1>1, <1>2, <2>1 DEF Passed
  <2>2. CASE k = Len(queue) + 1
    BY <1>1, <1>3, <2>2
  <2> QED BY <1>1, <2>1, <2>2
<1>5. n + Len(q) = m + 1
  BY <1>1, <1>3
<1>6. Passed(told, q, n, m + 1, TRUE)
  BY <1>2, <1>4, <1>5 DEF Passed
<1> QED BY <1>3, <1>6 DEF InTurn, q

\* A read is answered at once, but not with a chunk.
LEMMA Answered ==
  ASSUME NEW told \in Seq(Telling), NEW a \in Telling, a.is \notin {"waiting", "chunk"},
         NEW queue, NEW m \in Nat, NEW whole \in BOOLEAN, InTurn(told, queue, m, whole), ReadersInLine(told, <<>>)
  PROVE  InTurn(Append(told, a), queue, m, whole) /\ ReadersInLine(Append(told, a), <<>>)
<1> DEFINE z == Append(told, a)
<1>1. /\ Len(told) \in Nat /\ Len(z) = Len(told) + 1 /\ z[Len(told) + 1] = a
      /\ \A i \in 1..Len(told) : z[i] = told[i] /\ i \in 1..Len(z)
      /\ \A i \in 1..Len(z) : i \in 1..Len(told) \/ i = Len(told) + 1
  BY ONLY Appended, told \in Seq(Telling), a \in Telling
<1> HIDE DEF z
<1>2. \A i \in 1..Len(z) : z[i].is \in {"waiting", "chunk"} => i \in 1..Len(told) /\ z[i] = told[i]
  BY <1>1
<1>3. ReadersInLine(z, <<>>)
  BY <1>2 DEF ReadersInLine
<1>4. ASSUME NEW n \in 0..m, Passed(told, queue, n, m, whole) PROVE Passed(z, queue, n, m, whole)
  BY <1>1, <1>2, <1>4 DEF Passed
<1> QED BY <1>3, <1>4 DEF InTurn, z

\* It gets the first of the queue, ...
LEMMA FromQueue ==
  ASSUME NEW told \in Seq(Telling), NEW S, NEW queue \in Seq(S), queue # <<>>, NEW m \in Nat, NEW whole \in BOOLEAN,
         InTurn(told, queue, m, whole), ReadersInLine(told, <<>>),
         Given(queue[1]) \in Telling
  PROVE  /\ InTurn(Append(told, Given(queue[1])), Tail(queue), m, whole)
         /\ ReadersInLine(Append(told, Given(queue[1])), <<>>)
<1> DEFINE a == Given(queue[1])
           z == Append(told, a)
           q == Tail(queue)
<1>1. /\ Len(told) \in Nat /\ Len(z) = Len(told) + 1 /\ z[Len(told) + 1] = a
      /\ \A i \in 1..Len(told) : z[i] = told[i] /\ i \in 1..Len(z)
      /\ \A i \in 1..Len(z) : i \in 1..Len(told) \/ i = Len(told) + 1
      /\ Len(told) + 1 \in 1..Len(z)
  BY ONLY Appended, told \in Seq(Telling), Given(queue[1]) \in Telling
<1>2. /\ Len(queue) \in Nat /\ 1 \in 1..Len(queue) /\ Len(q) = Len(queue) - 1
      /\ \A i \in 1..Len(q) : q[i] = queue[i + 1] /\ i + 1 \in 1..Len(queue)
  BY Behead
<1>3. a.is = "chunk" /\ a.chunk = queue[1]
  BY DEF Given
<1> HIDE DEF a, z, q
<1>4. ReadersInLine(z, <<>>)
  BY <1>1, <1>3 DEF ReadersInLine
<1>5. PICK n \in 0..m : Passed(told, queue, n, m, whole)
  BY DEF InTurn
<1>6. a.chunk = n + 1 /\ n + 1 \in 0..m
  BY <1>2, <1>3, <1>5 DEF Passed
<1>7. Passed(z, q, n + 1, m, whole)
  <2>1. ASSUME NEW i \in 1..Len(z), z[i].is = "chunk" PROVE z[i].chunk \in 1..n+1
    <3>1. CASE i \in 1..Len(told)
      <4>1. z[i].chunk \in 1..n /\ n \in Nat
        <5>1. z[i] = told[i] /\ told[i].is = "chunk"
          BY <1>1, <2>1, <3>1
        <5> QED BY <1>5, <3>1, <5>1 DEF Passed
      <4> QED BY ONLY <4>1
    <3>2. CASE i = Len(told) + 1
      BY <1>1, <1>6, <3>2
    <3> QED BY <1>1, <3>1, <3>2
  <2>2. ASSUME NEW c \in 1..n+1 PROVE \E i \in 1..Len(z) : z[i].is = "chunk" /\ z[i].chunk = c
    <3>1. CASE c = n + 1
      BY <1>1, <1>3, <1>6, <3>1
    <3>2. CASE c # n + 1
      <4>1. c \in 1..n
        BY <3>2
      <4> QED BY <1>1, <1>5, <4>1 DEF Passed
    <3> QED BY <3>1, <3>2
  <2>3. ASSUME NEW i \in 1..Len(z), NEW j \in 1..Len(z), i < j, z[i].is = "chunk", z[j].is = "chunk"
        PROVE  z[i].chunk < z[j].chunk
    <3>1. i \in 1..Len(told) /\ z[i] = told[i] /\ told[i].chunk \in 1..n
      <4>1. i \in 1..Len(told)
        BY <1>1, <2>3
      <4> QED BY <1>1, <1>5, <2>3, <4>1 DEF Passed
    <3>2. CASE j = Len(told) + 1
      <4>1. z[j].chunk = n + 1
        BY <1>1, <1>6, <3>2
      <4> QED BY ONLY <3>1, <4>1, n \in Nat
    <3>3. CASE j \in 1..Len(told)
      BY <1>1, <1>5, <2>3, <3>1, <3>3 DEF Passed
    <3> QED BY <1>1, <3>2, <3>3
  <2>4. \A k \in 1..Len(q) : q[k] = (n + 1) + k
    BY <1>2, <1>5 DEF Passed
  <2>5. n + Len(queue) = (n + 1) + Len(q)
    BY <1>2
  <2>6. (n + 1) + Len(q) <= m /\ (whole => (n + 1) + Len(q) = m)
    BY <1>5, <2>5 DEF Passed
  <2> QED BY <2>1, <2>2, <2>3, <2>4, <2>6 DEF Passed
<1> QED BY <1>4, <1>6, <1>7 DEF InTurn, a, z, q

\* ... or waits, behind the others.
LEMMA Waited ==
  ASSUME NEW told \in Seq(Telling), NEW waits \in Seq(Nat), NEW queue, NEW m \in Nat, NEW whole \in BOOLEAN,
         InTurn(told, queue, m, whole), ReadersInLine(told, waits)
  PROVE  /\ InTurn(Append(told, Waiting), queue, m, whole)
         /\ ReadersInLine(Append(told, Waiting), Append(waits, Len(told) + 1))
<1> DEFINE z == Append(told, Waiting)
           u == Append(waits, Len(told) + 1)
<1>0. Waiting \in Telling /\ Waiting.is = "waiting" /\ Len(told) + 1 \in Nat
  BY DEF Telling, Waiting
<1>1. /\ Len(told) \in Nat /\ Len(z) = Len(told) + 1 /\ z[Len(told) + 1] = Waiting
      /\ \A i \in 1..Len(told) : z[i] = told[i] /\ i \in 1..Len(z)
      /\ \A i \in 1..Len(z) : i \in 1..Len(told) \/ i = Len(told) + 1
      /\ Len(told) + 1 \in 1..Len(z)
  BY ONLY Appended, told \in Seq(Telling), <1>0
<1>2. /\ Len(waits) \in Nat /\ Len(u) = Len(waits) + 1 /\ u[Len(waits) + 1] = Len(told) + 1
      /\ \A i \in 1..Len(waits) : u[i] = waits[i] /\ i \in 1..Len(u)
      /\ \A i \in 1..Len(u) : i \in 1..Len(waits) \/ i = Len(waits) + 1
      /\ Len(waits) + 1 \in 1..Len(u)
  BY ONLY Appended, waits \in Seq(Nat), <1>0
<1>3. \A k \in 1..Len(waits) : waits[k] \in 1..Len(told) /\ told[waits[k]].is = "waiting"
  BY DEF ReadersInLine
<1> HIDE DEF z, u
<1>4. \A i \in 1..Len(z) : z[i].is = "chunk" => i \in 1..Len(told) /\ z[i] = told[i]
  BY <1>0, <1>1
<1>5. ReadersInLine(z, u)
  <2>1. \A k \in 1..Len(u) : u[k] \in 1..Len(z) /\ z[u[k]].is = "waiting"
    BY <1>0, <1>1, <1>2, <1>3
  <2>2. ASSUME NEW i \in 1..Len(z), z[i].is = "waiting" PROVE \E k \in 1..Len(u) : u[k] = i
    BY <1>1, <1>2, <2>2 DEF ReadersInLine
  <2>3. ASSUME NEW j \in 1..Len(u), NEW k \in 1..Len(u), j < k PROVE u[j] < u[k]
    <3>1. j \in 1..Len(waits) /\ u[j] = waits[j]
      BY <1>2, <2>3
    <3>2. CASE k \in 1..Len(waits)
      BY <1>2, <2>3, <3>1, <3>2 DEF ReadersInLine
    <3>3. CASE k = Len(waits) + 1
      BY <1>1, <1>2, <1>3, <3>1, <3>3
    <3> QED BY <1>2, <3>2, <3>3
  <2>4. ASSUME NEW i \in 1..Len(z), z[i].is = "chunk", NEW k \in 1..Len(u) PROVE i < u[k]
    <3>1. i \in 1..Len(told) /\ told[i].is = "chunk"
      BY <1>4, <2>4
    <3>2. CASE k \in 1..Len(waits)
      BY <1>2, <3>1, <3>2 DEF ReadersInLine
    <3>3. CASE k = Len(waits) + 1
      BY <1>1, <1>2, <3>1, <3>3
    <3> QED BY <1>2, <3>2, <3>3
  <2> QED BY <2>1, <2>2, <2>3, <2>4 DEF ReadersInLine
<1>6. ASSUME NEW n \in 0..m, Passed(told, queue, n, m, whole) PROVE Passed(z, queue, n, m, whole)
  BY <1>1, <1>4, <1>6 DEF Passed
<1> QED BY <1>5, <1>6 DEF InTurn, z, u

-----------------------------------------------------------------------------
(* The stream's operations.                                                *)

StreamRec ==
  [state : {"readable", "closed", "errored"}, locked : BOOLEAN,
   waits : Seq(Nat), closed : {"pending", "resolved", "rejected"},
   queue : Seq(Nat), hwm : Nat, closing : BOOLEAN,
   started : BOOLEAN, pulling : BOOLEAN, again : BOOLEAN, told : Seq(Telling)]

\* The inductive invariant but for what the source is asked, of a stream, how
\* many chunks were made for it, and whether it was cancelled.
Core(s, m, dr) == s \in StreamRec /\ Readers(s, m, dr)

\* Askable: as AskedFor has it, but a read may wait unasked for.
Askable(s, gv) ==
  /\ s.pulling => s.started
  /\ gv => s.pulling
  /\ s.pulling /\ ~gv => Len(s.queue) < Mark(s.hwm)
  /\ Len(s.queue) <= Mark(s.hwm)

\* What ended has ended, and what is settled stays so.
Follows(s, z) ==
  /\ s.state # "readable" => z.state = s.state
  /\ \A i \in 1..Len(s.told) :
       s.told[i].is # "waiting" => i \in 1..Len(z.told) /\ z.told[i] = s.told[i]

LEMMA FieldTypes ==
  ASSUME NEW s \in StreamRec
  PROVE  /\ s.waits \in Seq(Nat) /\ s.queue \in Seq(Nat) /\ s.told \in Seq(Telling)
         /\ s.hwm \in Nat /\ s.state \in {"readable", "closed", "errored"} /\ s.locked \in BOOLEAN
         /\ s.closing \in BOOLEAN /\ s.started \in BOOLEAN /\ s.pulling \in BOOLEAN /\ s.again \in BOOLEAN
         /\ Len(s.waits) \in Nat /\ Len(s.queue) \in Nat /\ Len(s.told) \in Nat
<1>1. /\ s.waits \in Seq(Nat) /\ s.queue \in Seq(Nat) /\ s.told \in Seq(Telling)
      /\ s.hwm \in Nat /\ s.state \in {"readable", "closed", "errored"} /\ s.locked \in BOOLEAN
      /\ s.closing \in BOOLEAN /\ s.started \in BOOLEAN /\ s.pulling \in BOOLEAN /\ s.again \in BOOLEAN
  BY DEF StreamRec
<1> QED BY <1>1

\* A stream is one still when some of its fields are written.
Rewritten(s, st, lk, wt, cl, q, told) ==
  [s EXCEPT !.state = st, !.locked = lk, !.waits = wt, !.closed = cl, !.queue = q, !.told = told]

LEMMA Rewrites ==
  ASSUME NEW s \in StreamRec, NEW z, z.state \in {"readable", "closed", "errored"},
         z.locked \in BOOLEAN, z.waits \in Seq(Nat),
         z.closed \in {"pending", "resolved", "rejected"}, z.queue \in Seq(Nat),
         z.told \in Seq(Telling),
         z = Rewritten(s, z.state, z.locked, z.waits, z.closed, z.queue, z.told)
  PROVE  z \in StreamRec
<1>1. ASSUME NEW st \in {"readable", "closed", "errored"}, NEW lk \in BOOLEAN,
             NEW wt \in Seq(Nat), NEW cl \in {"pending", "resolved", "rejected"},
             NEW q \in Seq(Nat), NEW told \in Seq(Telling)
      PROVE  Rewritten(s, st, lk, wt, cl, q, told) \in StreamRec
  BY ONLY <1>1, s \in StreamRec DEF Rewritten, StreamRec
<1>2. Rewritten(s, z.state, z.locked, z.waits, z.closed, z.queue, z.told) \in StreamRec
  BY <1>1
<1> QED BY ONLY <1>2, z = Rewritten(s, z.state, z.locked, z.waits, z.closed, z.queue, z.told)

\* Two streams that differ in what the source is asked only.
SameReads(s, z) ==
  /\ z.state = s.state /\ z.locked = s.locked /\ z.waits = s.waits /\ z.queue = s.queue
  /\ z.hwm = s.hwm /\ z.closing = s.closing /\ z.told = s.told

LEMMA SameCore ==
  ASSUME NEW s, NEW z \in StreamRec, SameReads(s, z), NEW m, NEW dr, Core(s, m, dr)
  PROVE  Core(z, m, dr) /\ Follows(s, z)
<1>1. Core(z, m, dr)
  BY DEF SameReads, Core, Readers
<1>2. Follows(s, z)
  BY DEF SameReads, Follows
<1> QED BY <1>1, <1>2

\* controllerCallPullIfNeeded: whoever waits is asked for.
LEMMA Pulls ==
  ASSUME NEW s, NEW m, NEW dr, Core(s, m, dr)
  PROVE  /\ Core(CallPull(s), m, dr) /\ Follows(s, CallPull(s))
         /\ \A gv \in BOOLEAN : Askable(s, gv) => Asked(CallPull(s), gv)
<1> DEFINE z == CallPull(s)
<1>0. s \in StreamRec /\ EndsEmpty(s.state, s.locked, s.waits, s.queue, s.closing, dr)
  BY DEF Core, Readers
<1>1. CASE ~ShouldPull(s)
  <2>1. z = s
    BY <1>1 DEF CallPull
  <2>2. Follows(s, s)
    BY DEF Follows
  <2>3. ~(s.waits # <<>> /\ s.started)
    BY <1>0, <1>1 DEF ShouldPull, EndsEmpty
  <2>4. ASSUME NEW gv \in BOOLEAN, Askable(s, gv) PROVE Asked(s, gv)
    BY <2>3, <2>4 DEF Askable, Asked, AskedFor
  <2> QED BY <2>1, <2>2, <2>4
<1>2. CASE ShouldPull(s)
  <2>1. /\ z \in StreamRec /\ SameReads(s, z) /\ z.started = s.started /\ z.pulling
        /\ s.pulling => z.again
    BY <1>0, <1>2 DEF CallPull, StreamRec, SameReads
  <2>2. s.started /\ Len(s.queue) < Mark(s.hwm)
    <3>1. s.state = "readable" /\ s.started /\ (s.waits # <<>> \/ s.hwm - Len(s.queue) > 0)
      BY <1>2 DEF ShouldPull, Desired
    <3>2. s.waits # <<>> => Len(s.queue) = 0
      BY <1>0 DEF EndsEmpty
    <3> QED BY <1>0, <3>1, <3>2, FieldTypes DEF Mark
  <2> HIDE DEF z
  <2>3. ASSUME NEW gv \in BOOLEAN, Askable(s, gv) PROVE Asked(z, gv)
    BY <2>1, <2>2, <2>3 DEF Askable, Asked, AskedFor, SameReads
  <2> QED BY <2>1, <2>3, SameCore DEF z
<1> QED BY <1>1, <1>2

\* With nobody waiting there is nothing to ask for.
LEMMA Unasked ==
  ASSUME NEW s, s.waits = <<>>, NEW gv, Askable(s, gv)
  PROVE  Asked(s, gv)
BY DEF Askable, Asked, AskedFor

\* The reads that wait are told the same.
LEMMA SettlesAll ==
  ASSUME NEW s \in StreamRec, NEW a \in Telling, ReadersInLine(s.told, s.waits),
         NEW told, told = Settled(s, Waiters(s), a)
  PROVE  told \in Seq(Telling) /\ AllHear(s.told, told, a)
<1>1. DOMAIN s.told = 1..Len(s.told) /\ DOMAIN s.waits = 1..Len(s.waits) /\ s.told \in Seq(Telling)
      /\ Len(s.told) \in Nat
  BY FieldTypes, LenProperties
<1>2. \A i \in 1..Len(s.told) : i \in Waiters(s) <=> s.told[i].is = "waiting"
  <2>1. ASSUME NEW i \in 1..Len(s.told), i \in Waiters(s) PROVE s.told[i].is = "waiting"
    <3>1. PICK k \in 1..Len(s.waits) : s.waits[k] = i
      BY <1>1, <2>1 DEF Waiters
    <3> QED BY <3>1 DEF ReadersInLine
  <2>2. ASSUME NEW i \in 1..Len(s.told), s.told[i].is = "waiting" PROVE i \in Waiters(s)
    <3>1. PICK k \in 1..Len(s.waits) : s.waits[k] = i
      BY <2>2 DEF ReadersInLine
    <3> QED BY <1>1, <3>1 DEF Waiters
  <2> QED BY <2>1, <2>2
<1>3. told = [i \in 1..Len(s.told) |-> IF s.told[i].is = "waiting" THEN a ELSE s.told[i]]
  BY <1>1, <1>2 DEF Settled
<1>4. \A i \in 1..Len(s.told) : (IF s.told[i].is = "waiting" THEN a ELSE s.told[i]) \in Telling
  BY <1>1
<1> QED BY <1>1, <1>3, <1>4 DEF AllHear

\* How a stream ends: all that wait are told a, the queue is empty, and the rest
\* is as it may be.
LEMMA Ends ==
  ASSUME NEW s \in StreamRec, NEW z \in StreamRec, NEW a \in Telling, a.is \notin {"waiting", "chunk"},
         ReadersInLine(s.told, s.waits),
         z.told = Settled(s, Waiters(s), a), z.waits = <<>>, z.queue = <<>>,
         z.state # "readable" \/ (z.state = s.state /\ ~z.closing),
         s.state # "readable" => z.state = s.state,
         NEW m \in Nat, NEW dr \in BOOLEAN, dr => z.state # "readable",
         NEW whole \in BOOLEAN, InTurn(s.told, s.queue, m, whole),
         (s.queue = <<>> /\ whole) \/ z.state = "errored" \/ dr
  PROVE  Core(z, m, dr) /\ Follows(s, z)
<1>1. z.told \in Seq(Telling) /\ AllHear(s.told, z.told, a) /\ Len(s.told) \in Nat
  BY SettlesAll, FieldTypes
<1>2. ReadersInLine(z.told, <<>>) /\ InTurn(z.told, s.queue, m, whole)
  <2>1. AllHear(s.told, z.told, a) /\ Len(s.told) \in Nat
    BY <1>1
  <2>2. a.is \notin {"waiting", "chunk"}
    OBVIOUS
  <2>3. InTurn(s.told, s.queue, m, whole) /\ m \in Nat /\ whole \in BOOLEAN
    OBVIOUS
  <2>4. ReadersInLine(z.told, <<>>)
    BY ONLY <2>1, <2>2, <2>3, AllTold
  <2>5. InTurn(z.told, s.queue, m, whole)
    <3>1. PICK n \in 0..m : Passed(s.told, s.queue, n, m, whole)
      BY ONLY <2>3 DEF InTurn
    <3>2. /\ Len(z.told) = Len(s.told)
          /\ \A i \in 1..Len(s.told) : /\ z.told[i].is = "chunk" <=> s.told[i].is = "chunk"
                                       /\ s.told[i].is = "chunk" => z.told[i] = s.told[i]
      BY ONLY <2>1, <2>2 DEF AllHear
    <3>3. Passed(z.told, s.queue, n, m, whole)
      BY ONLY <3>1, <3>2 DEF Passed
    <3> QED BY <3>3 DEF InTurn
  <2> QED BY <2>4, <2>5
<1>6. Len(z.told) = Len(s.told)
  BY <1>1 DEF AllHear
<1>3. InTurn(z.told, <<>>, m, z.state # "errored" /\ ~dr)
  <2>1. CASE s.queue = <<>> /\ whole
    <3>1. InTurn(z.told, <<>>, m, TRUE)
      BY <1>2, <2>1
    <3>2. InTurn(z.told, <<>>, m, FALSE)
      BY <3>1, Emptied, Len(<<>>) \in Nat
    <3>3. (z.state # "errored" /\ ~dr) \in BOOLEAN
      OBVIOUS
    <3> QED BY <3>1, <3>2, <3>3
  <2>2. CASE z.state = "errored" \/ dr
    <3>1. InTurn(z.told, <<>>, m, FALSE)
      BY <1>2, Emptied, FieldTypes
    <3>2. (z.state # "errored" /\ ~dr) = FALSE
      BY <2>2
    <3> QED BY <3>1, <3>2
  <2> QED BY <2>1, <2>2
<1>4. EndsEmpty(z.state, z.locked, z.waits, z.queue, z.closing, dr)
  BY DEF EndsEmpty
<1>5. Follows(s, z)
  BY <1>1 DEF Follows, AllHear
<1> QED BY <1>1, <1>2, <1>3, <1>4, <1>5, <1>6 DEF Core, Readers

\* Three answers that are no chunk.
LEMMA Ending ==
  \A a \in {Done, Failed, Released} : a \in Telling /\ a.is \notin {"waiting", "chunk"}
BY DEF Done, Failed, Released, Telling

\* What the source is asked for, of a stream that ended otherwise alike.
AsBefore(s, z) ==
  /\ z.hwm = s.hwm /\ z.started = s.started /\ z.pulling = s.pulling /\ z.again = s.again
  /\ z.waits = <<>> /\ (z.queue = s.queue \/ z.queue = <<>>)

LEMMA StillAskable ==
  ASSUME NEW s \in StreamRec, NEW z \in StreamRec, AsBefore(s, z), NEW gv, Askable(s, gv)
  PROVE  Asked(z, gv)
<1>1. Len(z.queue) <= Len(s.queue) /\ Len(z.queue) \in Nat /\ Len(s.queue) \in Nat
  BY FieldTypes DEF AsBefore
<1>2. Mark(z.hwm) = Mark(s.hwm) /\ Mark(s.hwm) \in Nat
  BY FieldTypes DEF AsBefore, Mark
<1>3. Askable(z, gv)
  BY <1>1, <1>2 DEF AsBefore, Askable
<1> QED BY <1>3, Unasked DEF AsBefore

\* streamClose, of a stream with nothing left.
LEMMA StreamCloses ==
  ASSUME NEW s \in StreamRec, s.queue = <<>>, s.state = "readable",
         ReadersInLine(s.told, s.waits), NEW m \in Nat, InTurn(s.told, <<>>, m, TRUE)
  PROVE  /\ Core(StreamClose(s), m, FALSE) /\ Follows(s, StreamClose(s))
         /\ AsBefore(s, StreamClose(s)) /\ StreamClose(s) \in StreamRec
         /\ StreamClose(s).state = "closed"
<1> DEFINE z == StreamClose(s)
<1>1. /\ z.state = "closed" /\ z.waits = <<>> /\ z.queue = <<>>
      /\ z.told = Settled(s, Waiters(s), Done) /\ AsBefore(s, z)
  BY DEF StreamClose, StreamRec, AsBefore
<1>2. z.told \in Seq(Telling)
  BY <1>1, SettlesAll, Ending
<1>3. z \in StreamRec
  <2>1. /\ z.state \in {"readable", "closed", "errored"} /\ z.locked \in BOOLEAN
        /\ z.waits \in Seq(Nat) /\ z.queue \in Seq(Nat)
        /\ z.closed \in {"pending", "resolved", "rejected"}
    BY <1>2 DEF StreamClose, StreamRec
  <2>2. z = Rewritten(s, z.state, z.locked, z.waits, z.closed, z.queue, z.told)
    BY <1>2 DEF StreamClose, StreamRec, Rewritten
  <2> HIDE DEF z
  <2> QED BY ONLY <1>2, <2>1, <2>2, Rewrites, s \in StreamRec
<1> HIDE DEF z
<1>4. Core(z, m, FALSE) /\ Follows(s, z)
  BY <1>1, <1>3, Ends, Ending
<1> QED BY <1>1, <1>3, <1>4 DEF z

\* controllerError.
LEMMA StreamFails ==
  ASSUME NEW s, NEW m \in Nat, NEW dr \in BOOLEAN, Core(s, m, dr)
  PROVE  /\ Core(ControllerError(s), m, dr) /\ Follows(s, ControllerError(s))
         /\ ControllerError(s) \in StreamRec /\ ControllerError(s).state # "readable"
         /\ AsBefore(s, ControllerError(s))
<1> DEFINE z == ControllerError(s)
<1>0. /\ s \in StreamRec /\ ReadersInLine(s.told, s.waits)
      /\ InTurn(s.told, s.queue, m, s.state # "errored" /\ ~dr)
      /\ EndsEmpty(s.state, s.locked, s.waits, s.queue, s.closing, dr)
      /\ (s.state # "errored" /\ ~dr) \in BOOLEAN
  BY DEF Core, Readers
<1>1. CASE s.state # "readable"
  <2>1. z = s
    BY <1>1 DEF ControllerError
  <2> QED BY <1>0, <1>1, <2>1 DEF Follows, EndsEmpty, AsBefore
<1>2. CASE s.state = "readable"
  <2>1. /\ z.state = "errored" /\ z.waits = <<>> /\ z.queue = <<>>
        /\ z.told = Settled(s, Waiters(s), Failed) /\ AsBefore(s, z)
    BY <1>0, <1>2 DEF ControllerError, StreamRec, AsBefore
  <2>2. z.told \in Seq(Telling)
    BY <1>0, <2>1, SettlesAll, Ending
  <2>3. z \in StreamRec
    <3>1. /\ z.state \in {"readable", "closed", "errored"} /\ z.locked \in BOOLEAN
          /\ z.waits \in Seq(Nat) /\ z.queue \in Seq(Nat)
          /\ z.closed \in {"pending", "resolved", "rejected"}
      BY <1>0, <1>2, <2>2 DEF ControllerError, StreamRec
    <3>2. z = Rewritten(s, z.state, z.locked, z.waits, z.closed, z.queue, z.told)
      BY ZenonT(60), <1>0, <1>2, <2>2 DEF ControllerError, StreamRec, Rewritten
    <3> HIDE DEF z
    <3> QED BY <1>0, <1>2, <2>2, <3>1, <3>2, Rewrites
  <2> HIDE DEF z
  <2>4. Core(z, m, dr) /\ Follows(s, z)
    BY <1>0, <1>2, <2>1, <2>3, Ends, Ending
  <2> QED BY <2>1, <2>3, <2>4 DEF z
<1> QED BY <1>1, <1>2

\* streamCancel: what is queued goes with it.
LEMMA Cancels ==
  ASSUME NEW s, NEW m \in Nat, NEW dr \in BOOLEAN, Core(s, m, dr)
  PROVE  /\ Core(StreamCancel(s), m, dr \/ s.state = "readable") /\ Follows(s, StreamCancel(s))
         /\ AsBefore(s, StreamCancel(s)) /\ StreamCancel(s) \in StreamRec
         /\ StreamCancel(s).state # "readable"
<1> DEFINE z == StreamCancel(s)
<1>0. /\ s \in StreamRec /\ ReadersInLine(s.told, s.waits)
      /\ InTurn(s.told, s.queue, m, s.state # "errored" /\ ~dr)
      /\ EndsEmpty(s.state, s.locked, s.waits, s.queue, s.closing, dr)
      /\ (s.state # "errored" /\ ~dr) \in BOOLEAN
  BY DEF Core, Readers
<1>1. CASE s.state # "readable"
  <2>1. z = s /\ (dr \/ s.state = "readable") = dr
    BY <1>1 DEF StreamCancel
  <2> QED BY <1>0, <1>1, <2>1 DEF Follows, EndsEmpty, AsBefore
<1>2. CASE s.state = "readable"
  <2>1. /\ z.state = "closed" /\ z.waits = <<>> /\ z.queue = <<>>
        /\ z.told = Settled(s, Waiters(s), Done) /\ AsBefore(s, z)
    BY <1>0, <1>2 DEF StreamCancel, StreamClose, StreamRec, AsBefore
  <2>2. z.told \in Seq(Telling)
    BY <1>0, <2>1, SettlesAll, Ending
  <2>3. z \in StreamRec
    <3>1. /\ z.state \in {"readable", "closed", "errored"} /\ z.locked \in BOOLEAN
          /\ z.waits \in Seq(Nat) /\ z.queue \in Seq(Nat)
          /\ z.closed \in {"pending", "resolved", "rejected"}
      BY <1>0, <1>2, <2>2 DEF StreamCancel, StreamClose, StreamRec
    <3>2. z = Rewritten(s, z.state, z.locked, z.waits, z.closed, z.queue, z.told)
      BY ZenonT(60), <1>0, <1>2, <2>2 DEF StreamCancel, StreamClose, StreamRec, Rewritten
    <3> HIDE DEF z
    <3> QED BY <1>0, <1>2, <2>2, <3>1, <3>2, Rewrites
  <2> HIDE DEF z
  <2>4. Core(z, m, TRUE) /\ Follows(s, z)
    BY <1>0, <1>2, <2>1, <2>3, Ends, Ending
  <2>5. (dr \/ s.state = "readable") = TRUE
    BY <1>2
  <2> QED BY <2>1, <2>3, <2>4, <2>5 DEF z
<1> QED BY <1>1, <1>2

\* readerRelease: the reads that wait hear it, and what is queued stays.
LEMMA Releases ==
  ASSUME NEW s, NEW m \in Nat, NEW dr \in BOOLEAN, Core(s, m, dr)
  PROVE  /\ Core(Release(s), m, dr) /\ Follows(s, Release(s))
         /\ AsBefore(s, Release(s)) /\ Release(s) \in StreamRec
<1> DEFINE z == Release(s)
<1>0. /\ s \in StreamRec /\ ReadersInLine(s.told, s.waits)
      /\ InTurn(s.told, s.queue, m, s.state # "errored" /\ ~dr)
      /\ EndsEmpty(s.state, s.locked, s.waits, s.queue, s.closing, dr)
      /\ (s.state # "errored" /\ ~dr) \in BOOLEAN /\ Len(s.told) \in Nat
  BY FieldTypes DEF Core, Readers
<1>1. /\ z.state = s.state /\ z.waits = <<>> /\ z.queue = s.queue /\ z.closing = s.closing
      /\ z.told = Settled(s, Waiters(s), Released) /\ AsBefore(s, z)
  BY <1>0 DEF Release, StreamRec, AsBefore
<1>2. z.told \in Seq(Telling) /\ AllHear(s.told, z.told, Released)
  BY <1>0, <1>1, SettlesAll, Ending
<1>3. z \in StreamRec
  <2>1. /\ z.state \in {"readable", "closed", "errored"} /\ z.locked \in BOOLEAN
        /\ z.waits \in Seq(Nat) /\ z.queue \in Seq(Nat)
        /\ z.closed \in {"pending", "resolved", "rejected"}
    BY <1>0, <1>2 DEF Release, StreamRec
  <2>2. z = Rewritten(s, z.state, z.locked, z.waits, z.closed, z.queue, z.told)
    BY <1>0, <1>2 DEF Release, StreamRec, Rewritten
  <2> HIDE DEF z
  <2> QED BY <1>0, <1>2, <2>1, <2>2, Rewrites
<1> HIDE DEF z
<1>4. ReadersInLine(z.told, <<>>) /\ InTurn(z.told, z.queue, m, z.state # "errored" /\ ~dr)
  BY <1>0, <1>1, <1>2, AllTold, Ending
<1>5. Len(z.told) = Len(s.told) /\ Follows(s, z)
  BY <1>1, <1>2 DEF AllHear, Follows
<1>6. EndsEmpty(z.state, z.locked, z.waits, z.queue, z.closing, dr)
  BY <1>0, <1>1 DEF EndsEmpty
<1> QED BY <1>0, <1>1, <1>3, <1>4, <1>5, <1>6 DEF Core, Readers, z

\* A reader takes the lock.
LEMMA Attaches ==
  ASSUME NEW s, NEW m, NEW dr, Core(s, m, dr), s.waits = <<>>
  PROVE  /\ Core(Attach(s), m, dr) /\ Follows(s, Attach(s)) /\ AsBefore(s, Attach(s))
         /\ Attach(s) \in StreamRec
<1> DEFINE z == Attach(s)
<1>0. s \in StreamRec /\ EndsEmpty(s.state, s.locked, s.waits, s.queue, s.closing, dr)
  BY DEF Core, Readers
<1>1. /\ z \in StreamRec /\ z.state = s.state /\ z.waits = s.waits /\ z.queue = s.queue
      /\ z.closing = s.closing /\ z.told = s.told /\ AsBefore(s, z)
  BY <1>0 DEF Attach, StreamRec, AsBefore
<1> HIDE DEF z
<1>2. EndsEmpty(z.state, z.locked, z.waits, z.queue, z.closing, dr)
  BY <1>0, <1>1 DEF EndsEmpty
<1> QED BY <1>1, <1>2 DEF Core, Readers, Follows, z

\* controllerEnqueue: to the first that waits, or to the queue; then what more is
\* wanted is asked for, when this has been answered.
LEMMA Enqueues ==
  ASSUME NEW s, NEW m \in Nat, Core(s, m, FALSE), MayGive(s), m + 1 \in Nat
  PROVE  /\ Core(Enqueue(s, m + 1), m + 1, FALSE) /\ Follows(s, Enqueue(s, m + 1))
         /\ s.pulling /\ Asked(s, FALSE) => Asked(Enqueue(s, m + 1), TRUE)
<1> DEFINE next == IF s.waits # <<>>
                   THEN [s EXCEPT !.waits = Tail(@),
                                  !.told = Settled(s, {Head(s.waits)}, Given(m + 1))]
                   ELSE [s EXCEPT !.queue = Append(@, m + 1)]
<1>0. /\ s \in StreamRec /\ ReadersInLine(s.told, s.waits)
      /\ EndsEmpty(s.state, s.locked, s.waits, s.queue, s.closing, FALSE)
      /\ s.state = "readable" /\ ~s.closing
  BY DEF Core, Readers, MayGive
<1>1. InTurn(s.told, s.queue, m, TRUE)
  BY <1>0 DEF Core, Readers
<1>2. Enqueue(s, m + 1) = CallPull(next)
  BY DEF Enqueue
<1>3. /\ Core(next, m + 1, FALSE) /\ Follows(s, next)
      /\ s.pulling /\ Asked(s, FALSE) => Askable(next, TRUE)
  <2>1. CASE s.waits = <<>>
    <3>1. next = [s EXCEPT !.queue = Append(@, m + 1)]
      BY <2>1
    <3>2. /\ Append(s.queue, m + 1) \in Seq(Nat)
          /\ Len(Append(s.queue, m + 1)) = Len(s.queue) + 1
          /\ Append(s.queue, m + 1) # <<>>
      <4>1. s.queue \in Seq(Nat)
        BY <1>0, FieldTypes
      <4> QED BY ONLY <4>1, m + 1 \in Nat, Appended
    <3>3. /\ next \in StreamRec /\ next.state = s.state /\ next.locked = s.locked
          /\ next.waits = <<>> /\ next.queue = Append(s.queue, m + 1)
          /\ next.closing = s.closing /\ next.told = s.told
          /\ next.started = s.started /\ next.pulling = s.pulling /\ next.hwm = s.hwm
      BY <1>0, <2>1, <3>1, <3>2 DEF StreamRec
    <3>4. InTurn(s.told, Append(s.queue, m + 1), m + 1, TRUE)
      BY <1>0, <1>1, FieldTypes, Queued
    <3> HIDE DEF next
    <3>5. EndsEmpty(next.state, next.locked, next.waits, next.queue, next.closing, FALSE)
      BY <1>0, <3>3 DEF EndsEmpty
    <3>6. Core(next, m + 1, FALSE)
      BY <1>0, <2>1, <3>3, <3>4, <3>5 DEF Core, Readers
    <3>7. Follows(s, next)
      BY <3>3 DEF Follows
    <3>8. s.pulling /\ Asked(s, FALSE) => Askable(next, TRUE)
      <4>1. Mark(s.hwm) \in Nat /\ Len(s.queue) \in Nat
        BY <1>0, FieldTypes DEF Mark
      <4> QED BY <3>2, <3>3, <4>1 DEF Asked, AskedFor, Askable
    <3> QED BY <3>6, <3>7, <3>8
  <2>2. CASE s.waits # <<>>
    <3> DEFINE told == Settled(s, {Head(s.waits)}, Given(m + 1))
    <3>1. next = [s EXCEPT !.waits = Tail(@), !.told = told]
      BY <2>2
    <3>2. /\ Tail(s.waits) \in Seq(Nat) /\ s.queue = <<>> /\ s.locked
          /\ Len(s.told) \in Nat /\ s.told \in Seq(Telling) /\ DOMAIN s.told = 1..Len(s.told)
      BY <1>0, <2>2, FieldTypes, Behead, LenProperties DEF EndsEmpty
    <3>3. /\ told \in Seq(Telling) /\ Len(told) = Len(s.told)
          /\ \A i \in 1..Len(s.told) : told[i] = IF i = Head(s.waits) THEN Given(m + 1) ELSE s.told[i]
      <4>1. Given(m + 1) \in Telling
        BY DEF Given, Telling
      <4>2. told = [i \in 1..Len(s.told) |-> IF i = Head(s.waits) THEN Given(m + 1) ELSE s.told[i]]
        BY <3>2 DEF Settled
      <4>3. \A i \in 1..Len(s.told) : (IF i = Head(s.waits) THEN Given(m + 1) ELSE s.told[i]) \in Telling
        BY <3>2, <4>1
      <4> HIDE DEF told
      <4> QED BY <3>2, <4>2, <4>3
    <3> HIDE DEF told
    <3>4. /\ next \in StreamRec /\ next.state = s.state /\ next.locked = s.locked
          /\ next.waits = Tail(s.waits) /\ next.queue = <<>>
          /\ next.closing = s.closing /\ next.told = told
          /\ next.started = s.started /\ next.pulling = s.pulling /\ next.hwm = s.hwm
      BY <1>0, <3>1, <3>2, <3>3 DEF StreamRec
    <3>5. InTurn(told, <<>>, m + 1, TRUE) /\ ReadersInLine(told, Tail(s.waits))
      <4>1. InTurn(s.told, <<>>, m, TRUE)
        BY <1>1, <3>2
      <4>2. s.waits \in Seq(Nat)
        BY <1>0, FieldTypes
      <4> QED BY ONLY <1>0, <2>2, <3>2, <3>3, <4>1, <4>2, m \in Nat, Handed
    <3> HIDE DEF next
    <3>6. EndsEmpty(next.state, next.locked, next.waits, next.queue, next.closing, FALSE)
      BY <1>0, <3>2, <3>4 DEF EndsEmpty
    <3>7. Core(next, m + 1, FALSE)
      BY <1>0, <3>3, <3>4, <3>5, <3>6 DEF Core, Readers
    <3>8. Follows(s, next)
      <4>1. s.told[Head(s.waits)].is = "waiting"
        <5>1. Len(s.waits) \in Nat /\ 1 \in 1..Len(s.waits) /\ Head(s.waits) = s.waits[1]
          BY <1>0, <2>2, FieldTypes, Behead
        <5> QED BY <1>0, <5>1 DEF ReadersInLine
      <4> QED BY <3>3, <3>4, <4>1 DEF Follows
    <3>9. s.pulling /\ Asked(s, FALSE) => Askable(next, TRUE)
      BY <3>2, <3>4 DEF Asked, AskedFor, Askable
    <3> QED BY <3>7, <3>8, <3>9
  <2> QED BY <2>1, <2>2
<1>4. /\ Core(CallPull(next), m + 1, FALSE) /\ Follows(next, CallPull(next))
      /\ Askable(next, TRUE) => Asked(CallPull(next), TRUE)
  <2> HIDE DEF next
  <2> QED BY <1>3, Pulls
<1> HIDE DEF next
<1>5. Follows(s, CallPull(next))
  BY <1>3, <1>4 DEF Follows
<1> QED BY <1>2, <1>3, <1>4, <1>5

\* controllerClose: at once, or when what is queued has been read.
LEMMA ClosesLater ==
  ASSUME NEW s, NEW m \in Nat, Core(s, m, FALSE), MayGive(s)
  PROVE  /\ Core(ControllerClose(s), m, FALSE) /\ Follows(s, ControllerClose(s))
         /\ s.pulling /\ Asked(s, FALSE) => Asked(ControllerClose(s), TRUE)
<1> DEFINE c == [s EXCEPT !.closing = TRUE]
           z == ControllerClose(s)
<1>0. /\ s \in StreamRec /\ ReadersInLine(s.told, s.waits)
      /\ EndsEmpty(s.state, s.locked, s.waits, s.queue, s.closing, FALSE)
      /\ s.state = "readable" /\ InTurn(s.told, s.queue, m, TRUE)
  BY DEF Core, Readers, MayGive
<1>1. /\ c \in StreamRec /\ c.state = s.state /\ c.locked = s.locked /\ c.waits = s.waits
      /\ c.queue = s.queue /\ c.closing /\ c.told = s.told
      /\ c.started = s.started /\ c.pulling = s.pulling /\ c.hwm = s.hwm
  BY <1>0 DEF StreamRec
<1>2. z = IF s.queue = <<>> THEN StreamClose(c) ELSE c
  BY DEF ControllerClose
<1> HIDE DEF c, z
<1>3. s.pulling /\ Asked(s, FALSE) => Askable(c, TRUE)
  <2>1. Mark(s.hwm) \in Nat /\ Len(s.queue) \in Nat
    BY <1>0, FieldTypes DEF Mark
  <2> QED BY <1>1, <2>1 DEF Asked, AskedFor, Askable
<1>4. CASE s.queue = <<>>
  <2>1. /\ Core(StreamClose(c), m, FALSE) /\ Follows(c, StreamClose(c))
        /\ AsBefore(c, StreamClose(c)) /\ StreamClose(c) \in StreamRec
    BY <1>0, <1>1, <1>4, StreamCloses
  <2>2. Follows(s, StreamClose(c))
    BY <1>1, <2>1 DEF Follows
  <2> QED BY <1>1, <1>2, <1>3, <1>4, <2>1, <2>2, StillAskable DEF z
<1>5. CASE s.queue # <<>>
  <2>1. s.waits = <<>>
    BY <1>0, <1>5 DEF EndsEmpty
  <2>2. EndsEmpty(c.state, c.locked, c.waits, c.queue, c.closing, FALSE)
    BY <1>0, <1>1, <1>5, <2>1 DEF EndsEmpty
  <2>3. Core(c, m, FALSE) /\ Follows(s, c)
    BY <1>0, <1>1, <2>2 DEF Core, Readers, Follows
  <2> QED BY <1>1, <1>2, <1>3, <1>5, <2>1, <2>3, Unasked DEF z
<1> QED BY <1>4, <1>5

\* start's promise is fulfilled.
LEMMA StreamStarts ==
  ASSUME NEW s, NEW m, NEW dr, Core(s, m, dr)
  PROVE  /\ Core(Started(s), m, dr) /\ Follows(s, Started(s))
         /\ \A gv \in BOOLEAN : Asked(s, gv) => Asked(Started(s), gv)
<1> DEFINE c == [s EXCEPT !.started = TRUE]
<1>0. s \in StreamRec
  BY DEF Core
<1>1. /\ c \in StreamRec /\ SameReads(s, c) /\ c.started /\ c.pulling = s.pulling
  BY <1>0 DEF StreamRec, SameReads
<1>2. Started(s) = CallPull(c)
  BY DEF Started
<1> HIDE DEF c
<1>3. Core(c, m, dr) /\ Follows(s, c)
  BY <1>1, SameCore
<1>4. \A gv \in BOOLEAN : Asked(s, gv) => Askable(c, gv)
  BY <1>1 DEF Asked, AskedFor, Askable, SameReads
<1>5. Core(CallPull(c), m, dr) /\ Follows(c, CallPull(c))
      /\ \A gv \in BOOLEAN : Askable(c, gv) => Asked(CallPull(c), gv)
  BY <1>3, Pulls
<1>6. Follows(s, CallPull(c))
  BY <1>3, <1>5 DEF Follows
<1> QED BY <1>2, <1>4, <1>5, <1>6

\* pull's promise is fulfilled, which a source that answers has done, unless the
\* stream wants no answer.
LEMMA PullsEnd ==
  ASSUME NEW s, NEW m, NEW dr, Core(s, m, dr), NEW gv \in BOOLEAN, NEW pol \in BOOLEAN,
         pol => Asked(s, gv) /\ (gv \/ s.state # "readable" \/ s.closing)
  PROVE  /\ Core(PullEnded(s), m, dr) /\ Follows(s, PullEnded(s))
         /\ pol => Asked(PullEnded(s), FALSE)
<1> DEFINE c == [s EXCEPT !.pulling = FALSE, !.again = FALSE]
<1>0. s \in StreamRec /\ EndsEmpty(s.state, s.locked, s.waits, s.queue, s.closing, dr)
  BY DEF Core, Readers
<1>1. /\ c \in StreamRec /\ SameReads(s, c) /\ c.started = s.started /\ c.pulling = FALSE
  BY <1>0 DEF StreamRec, SameReads
<1>2. PullEnded(s) = IF s.again THEN CallPull(c) ELSE c
  BY DEF PullEnded
<1> HIDE DEF c
<1>3. Core(c, m, dr) /\ Follows(s, c)
  BY <1>1, SameCore
<1>4. pol => Askable(c, FALSE)
  BY <1>1 DEF Asked, AskedFor, Askable, SameReads
<1>5. CASE s.again
  <2>1. /\ Core(CallPull(c), m, dr) /\ Follows(c, CallPull(c))
        /\ Askable(c, FALSE) => Asked(CallPull(c), FALSE)
    BY <1>3, Pulls
  <2>2. Follows(s, CallPull(c))
    BY <1>3, <2>1 DEF Follows
  <2> QED BY <1>2, <1>4, <1>5, <2>1, <2>2
<1>6. CASE ~s.again
  <2>1. pol => c.waits = <<>> \/ ~c.started
    BY <1>0, <1>1, <1>6 DEF EndsEmpty, Asked, AskedFor, SameReads
  <2>2. pol => Asked(c, FALSE)
    BY <1>1, <1>4, <2>1 DEF Askable, Asked, AskedFor
  <2> QED BY <1>2, <1>3, <1>6, <2>2
<1> QED BY <1>5, <1>6

\* A read of a stream that is ended is told so.
LEMMA ReadsEnd ==
  ASSUME NEW s, NEW m \in Nat, NEW dr \in BOOLEAN, Core(s, m, dr), s.state # "readable",
         NEW a \in {Done, Failed}
  PROVE  /\ Core(ReadAnswered(s, a), m, dr) /\ Follows(s, ReadAnswered(s, a))
         /\ \A gv \in BOOLEAN : Asked(s, gv) => Asked(ReadAnswered(s, a), gv)
<1> DEFINE z == ReadAnswered(s, a)
           told == Append(s.told, a)
<1>0. /\ s \in StreamRec /\ ReadersInLine(s.told, s.waits) /\ s.told \in Seq(Telling)
      /\ EndsEmpty(s.state, s.locked, s.waits, s.queue, s.closing, dr)
      /\ InTurn(s.told, s.queue, m, s.state # "errored" /\ ~dr)
      /\ (s.state # "errored" /\ ~dr) \in BOOLEAN /\ Len(s.told) \in Nat
  BY FieldTypes DEF Core, Readers
<1>1. s.waits = <<>> /\ a \in Telling /\ a.is \notin {"waiting", "chunk"}
  BY <1>0, Ending DEF EndsEmpty
<1>2. /\ told \in Seq(Telling) /\ Len(told) = Len(s.told) + 1
      /\ \A i \in 1..Len(s.told) : told[i] = s.told[i] /\ i \in 1..Len(told)
  BY ONLY <1>0, <1>1, Appended
<1>3. z = [s EXCEPT !.told = told]
  BY DEF ReadAnswered
<1>4. InTurn(told, s.queue, m, s.state # "errored" /\ ~dr) /\ ReadersInLine(told, <<>>)
  BY <1>0, <1>1, Answered
<1> HIDE DEF told, z
<1>5. /\ z \in StreamRec /\ z.told = told /\ z.state = s.state /\ z.locked = s.locked
      /\ z.waits = s.waits /\ z.queue = s.queue /\ z.closing = s.closing /\ z.hwm = s.hwm
      /\ z.started = s.started /\ z.pulling = s.pulling /\ z.again = s.again
  BY <1>0, <1>2, <1>3 DEF StreamRec
<1>6. Core(z, m, dr)
  BY <1>0, <1>1, <1>2, <1>4, <1>5 DEF Core, Readers
<1>7. Follows(s, z)
  BY <1>2, <1>5 DEF Follows
<1>8. \A gv \in BOOLEAN : Asked(s, gv) => Asked(z, gv)
  BY <1>5 DEF Asked
<1> QED BY <1>6, <1>7, <1>8 DEF z

\* A read takes what is queued first; the last of a closing stream ends it.
LEMMA ReadsQueue ==
  ASSUME NEW s, NEW m \in Nat, NEW dr \in BOOLEAN, Core(s, m, dr), s.state # "errored",
         s.queue # <<>>
  PROVE  /\ Core(ReadQueued(s), m, dr) /\ Follows(s, ReadQueued(s))
         /\ \A gv \in BOOLEAN : Asked(s, gv) => Asked(ReadQueued(s), gv)
<1> DEFINE a == Given(Head(s.queue))
           told == Append(s.told, a)
           q == Tail(s.queue)
           took == ReadAnswered([s EXCEPT !.queue = Tail(@)], a)
<1>0. /\ s \in StreamRec /\ ReadersInLine(s.told, s.waits) /\ s.told \in Seq(Telling)
      /\ EndsEmpty(s.state, s.locked, s.waits, s.queue, s.closing, dr)
      /\ InTurn(s.told, s.queue, m, s.state # "errored" /\ ~dr)
      /\ Len(s.told) \in Nat /\ s.queue \in Seq(Nat)
  BY FieldTypes DEF Core, Readers
<1>1. /\ s.waits = <<>> /\ s.state = "readable" /\ dr = FALSE
  BY <1>0 DEF EndsEmpty
<1>2. /\ Len(s.queue) \in Nat /\ Len(q) = Len(s.queue) - 1 /\ q \in Seq(Nat)
      /\ Head(s.queue) = s.queue[1] /\ s.queue[1] \in Nat
  <2> DEFINE u == s.queue
  <2>1. u \in Seq(Nat) /\ u # <<>>
    BY <1>0
  <2> HIDE DEF u
  <2>2. /\ Len(u) \in Nat /\ Len(Tail(u)) = Len(u) - 1 /\ Tail(u) \in Seq(Nat)
        /\ Head(u) = u[1] /\ u[1] \in Nat
    BY ONLY <2>1, Behead
  <2> QED BY <2>2 DEF u
<1>3. a = Given(s.queue[1]) /\ a \in Telling
  BY <1>2 DEF Given, Telling
<1>4. /\ told \in Seq(Telling) /\ Len(told) = Len(s.told) + 1
      /\ \A i \in 1..Len(s.told) : told[i] = s.told[i] /\ i \in 1..Len(told)
  <2> HIDE DEF a
  <2> QED BY ONLY <1>0, <1>3, Appended
<1>5. InTurn(told, q, m, TRUE) /\ ReadersInLine(told, <<>>)
  <2>1. InTurn(s.told, s.queue, m, TRUE) /\ ReadersInLine(s.told, <<>>)
    BY <1>0, <1>1
  <2>2. Given(s.queue[1]) \in Telling
    BY <1>3
  <2>3. /\ InTurn(Append(s.told, Given(s.queue[1])), Tail(s.queue), m, TRUE)
        /\ ReadersInLine(Append(s.told, Given(s.queue[1])), <<>>)
    BY ONLY <1>0, <2>1, <2>2, s.queue # <<>>, m \in Nat, FromQueue
  <2> QED BY <1>3, <2>3
<1>6. took = [s EXCEPT !.queue = q, !.told = told]
  BY <1>0 DEF ReadAnswered, StreamRec
<1>7. ReadQueued(s) = IF took.closing /\ took.queue = <<>> THEN StreamClose(took) ELSE CallPull(took)
  BY DEF ReadQueued
<1> HIDE DEF told, q, took, a
<1>8. /\ took \in StreamRec /\ took.told = told /\ took.state = s.state /\ took.locked = s.locked
      /\ took.waits = <<>> /\ took.queue = q /\ took.closing = s.closing /\ took.hwm = s.hwm
      /\ took.started = s.started /\ took.pulling = s.pulling /\ took.again = s.again
  BY <1>0, <1>1, <1>2, <1>4, <1>6 DEF StreamRec
<1>9. Follows(s, took)
  BY <1>4, <1>8 DEF Follows
<1>10. \A gv \in BOOLEAN : Asked(s, gv) => Askable(took, gv)
  <2>1. Mark(s.hwm) \in Nat
    BY <1>0, FieldTypes DEF Mark
  <2> QED BY <1>2, <1>8, <2>1 DEF Asked, AskedFor, Askable
<1>11. CASE took.closing /\ took.queue = <<>>
  <2>1. InTurn(took.told, <<>>, m, TRUE) /\ ReadersInLine(took.told, took.waits)
    BY <1>5, <1>8, <1>11
  <2>2. took.state = "readable"
    BY <1>0, <1>1, <1>4, <1>8
  <2>3. /\ Core(StreamClose(took), m, FALSE) /\ Follows(took, StreamClose(took))
        /\ AsBefore(took, StreamClose(took)) /\ StreamClose(took) \in StreamRec
    BY <1>8, <1>11, <2>1, <2>2, StreamCloses
  <2>4. Follows(s, StreamClose(took))
    BY <1>9, <2>3 DEF Follows
  <2>5. \A gv \in BOOLEAN : Askable(took, gv) => Asked(StreamClose(took), gv)
    BY <1>8, <2>3, StillAskable
  <2> QED BY <1>1, <1>7, <1>10, <1>11, <2>3, <2>4, <2>5
<1>12. CASE ~(took.closing /\ took.queue = <<>>)
  <2>1. EndsEmpty(took.state, took.locked, took.waits, took.queue, took.closing, dr)
    BY <1>1, <1>8, <1>12 DEF EndsEmpty
  <2>3. (took.state # "errored" /\ ~dr) = TRUE
    BY <1>1, <1>8
  <2>4. Core(took, m, dr)
    BY <1>5, <1>8, <2>1, <2>3 DEF Core, Readers
  <2>5. /\ Core(CallPull(took), m, dr) /\ Follows(took, CallPull(took))
        /\ \A gv \in BOOLEAN : Askable(took, gv) => Asked(CallPull(took), gv)
    BY <2>4, Pulls
  <2>6. Follows(s, CallPull(took))
    BY <1>9, <2>5 DEF Follows
  <2> QED BY <1>7, <1>10, <1>12, <2>5, <2>6
<1> QED BY <1>11, <1>12

\* The read joins those that wait.
Awaiting(s) == [ReadAnswered(s, Waiting) EXCEPT !.waits = Append(@, Len(s.told) + 1)]

\* A read of a stream with nothing queued waits, and more is asked for.
LEMMA ReadsWait ==
  ASSUME NEW s, NEW m \in Nat, NEW dr \in BOOLEAN, Core(s, m, dr), s.state = "readable",
         s.queue = <<>>, s.locked
  PROVE  LET z == CallPull(Awaiting(s)) IN
         /\ Core(z, m, dr) /\ Follows(s, z)
         /\ \A gv \in BOOLEAN : Asked(s, gv) => Asked(z, gv)
<1> USE DEF Awaiting
<1> DEFINE c == [ReadAnswered(s, Waiting) EXCEPT !.waits = Append(@, Len(s.told) + 1)]
           told == Append(s.told, Waiting)
           waits == Append(s.waits, Len(s.told) + 1)
<1>0. /\ s \in StreamRec /\ ReadersInLine(s.told, s.waits) /\ s.told \in Seq(Telling)
      /\ EndsEmpty(s.state, s.locked, s.waits, s.queue, s.closing, dr)
      /\ InTurn(s.told, s.queue, m, s.state # "errored" /\ ~dr)
      /\ (s.state # "errored" /\ ~dr) \in BOOLEAN
      /\ Len(s.told) \in Nat /\ s.waits \in Seq(Nat)
  BY FieldTypes DEF Core, Readers
<1>1. Waiting \in Telling /\ Len(s.told) + 1 \in Nat
  BY <1>0 DEF Waiting, Telling
<1>2. /\ told \in Seq(Telling) /\ Len(told) = Len(s.told) + 1
      /\ \A i \in 1..Len(s.told) : told[i] = s.told[i] /\ i \in 1..Len(told)
  BY ONLY <1>0, <1>1, Appended
<1>3. waits \in Seq(Nat)
  BY ONLY <1>0, <1>1, Appended
<1>4. InTurn(told, s.queue, m, s.state # "errored" /\ ~dr) /\ ReadersInLine(told, waits)
  BY ONLY <1>0, <1>1, m \in Nat, Waited
<1>5. c = [s EXCEPT !.told = told, !.waits = waits]
  BY <1>0 DEF ReadAnswered, StreamRec
<1>6. CallPull(Awaiting(s)) = CallPull(c)
  OBVIOUS
<1> HIDE DEF told, waits, c
<1>7. /\ c \in StreamRec /\ c.told = told /\ c.state = s.state /\ c.locked = s.locked
      /\ c.waits = waits /\ c.queue = s.queue /\ c.closing = s.closing /\ c.hwm = s.hwm
      /\ c.started = s.started /\ c.pulling = s.pulling /\ c.again = s.again
  BY <1>0, <1>2, <1>3, <1>5 DEF StreamRec
<1>8. EndsEmpty(c.state, c.locked, c.waits, c.queue, c.closing, dr)
  BY <1>0, <1>7 DEF EndsEmpty
<1>9. Core(c, m, dr)
  BY <1>1, <1>2, <1>4, <1>7, <1>8 DEF Core, Readers
<1>10. Follows(s, c)
  BY <1>2, <1>7 DEF Follows
<1>11. \A gv \in BOOLEAN : Asked(s, gv) => Askable(c, gv)
  BY <1>7 DEF Asked, AskedFor, Askable
<1>12. /\ Core(CallPull(c), m, dr) /\ Follows(c, CallPull(c))
       /\ \A gv \in BOOLEAN : Askable(c, gv) => Asked(CallPull(c), gv)
  BY <1>9, Pulls
<1>13. Follows(s, CallPull(c))
  BY <1>10, <1>12 DEF Follows
<1> QED BY <1>6, <1>11, <1>12, <1>13

\* reader.read().
LEMMA ReadsAny ==
  ASSUME NEW s, NEW m \in Nat, NEW dr \in BOOLEAN, Core(s, m, dr), s.locked
  PROVE  /\ Core(Read(s), m, dr) /\ Follows(s, Read(s))
         /\ \A gv \in BOOLEAN : Asked(s, gv) => Asked(Read(s), gv)
<1>0. s.state \in {"readable", "closed", "errored"}
  BY FieldTypes DEF Core
<1>1. CASE s.state = "errored"
  <2>1. Read(s) = ReadAnswered(s, Failed)
    BY <1>1 DEF Read
  <2> QED BY <1>1, <2>1, ReadsEnd
<1>2. CASE s.state # "errored" /\ s.queue # <<>>
  <2>1. Read(s) = ReadQueued(s)
    BY <1>2 DEF Read
  <2> QED BY <1>2, <2>1, ReadsQueue
<1>3. CASE s.state = "closed" /\ s.queue = <<>>
  <2>1. Read(s) = ReadAnswered(s, Done)
    BY <1>3 DEF Read
  <2> QED BY <1>3, <2>1, ReadsEnd
<1>4. CASE s.state = "readable" /\ s.queue = <<>>
  <2>1. Read(s) = CallPull(Awaiting(s))
    BY <1>4 DEF Read, Awaiting
  <2> QED BY <1>4, <2>1, ReadsWait
<1> QED BY <1>0, <1>1, <1>2, <1>3, <1>4

\* No operation but a read makes the list of reads longer, and none moves the mark.
Sizes(s, z) == z.hwm = s.hwm /\ Len(z.told) = Len(s.told)

LEMMA SettledLen ==
  ASSUME NEW s \in StreamRec, NEW ids, NEW a PROVE Len(Settled(s, ids, a)) = Len(s.told)
<1>1. DOMAIN s.told = 1..Len(s.told) /\ Len(s.told) \in Nat
  BY FieldTypes
<1> QED BY <1>1 DEF Settled

LEMMA SizesSame ==
  ASSUME NEW s \in StreamRec
  PROVE  /\ Sizes(s, CallPull(s)) /\ Sizes(s, PullEnded(s)) /\ Sizes(s, Started(s))
         /\ Sizes(s, StreamClose(s)) /\ Sizes(s, ControllerError(s)) /\ Sizes(s, StreamCancel(s))
         /\ Sizes(s, ControllerClose(s)) /\ Sizes(s, Attach(s)) /\ Sizes(s, Release(s))
         /\ \A n : Sizes(s, Enqueue(s, n))
<1>1. \A ids, a : Len(Settled(s, ids, a)) = Len(s.told)
  BY SettledLen
<1>2. Sizes(s, CallPull(s)) /\ Sizes(s, PullEnded(s)) /\ Sizes(s, Started(s))
  BY DEF CallPull, PullEnded, Started, Sizes, StreamRec
<1>3. Sizes(s, StreamClose(s)) /\ Sizes(s, ControllerError(s))
  BY <1>1 DEF StreamClose, ControllerError, Sizes, StreamRec
<1>4. Sizes(s, StreamCancel(s))
  BY <1>1 DEF StreamCancel, StreamClose, Sizes, StreamRec
<1>5. Sizes(s, ControllerClose(s))
  <2> DEFINE z == [s EXCEPT !.closing = TRUE]
  <2>1. z \in StreamRec /\ z.hwm = s.hwm /\ z.told = s.told
    BY DEF StreamRec
  <2>2. ControllerClose(s) \in {z, StreamClose(z)}
    BY DEF ControllerClose
  <2> HIDE DEF z
  <2>3. \A ids, a : Len(Settled(z, ids, a)) = Len(z.told)
    BY <2>1, SettledLen
  <2>4. Sizes(z, StreamClose(z))
    BY <2>1, <2>3 DEF StreamClose, Sizes, StreamRec
  <2> QED BY <2>1, <2>2, <2>4 DEF Sizes
<1>6. Sizes(s, Attach(s)) /\ Sizes(s, Release(s))
  BY <1>1 DEF Attach, Release, Sizes, StreamRec
<1>7. ASSUME NEW n PROVE Sizes(s, Enqueue(s, n))
  BY <1>1 DEF Enqueue, CallPull, Sizes, StreamRec
<1> QED BY <1>2, <1>3, <1>4, <1>5, <1>6, <1>7

LEMMA SizesRead ==
  ASSUME NEW s \in StreamRec PROVE Read(s).hwm = s.hwm /\ Len(Read(s).told) = Len(s.told) + 1
<1>1. ASSUME NEW z \in StreamRec, NEW a \in Telling
      PROVE  LET u == ReadAnswered(z, a) IN
             u \in StreamRec /\ u.hwm = z.hwm /\ Len(u.told) = Len(z.told) + 1
  <2> DEFINE told == Append(z.told, a)
  <2>1. told \in Seq(Telling) /\ Len(told) = Len(z.told) + 1
    BY <1>1, FieldTypes, Appended
  <2> HIDE DEF told
  <2>2. ReadAnswered(z, a) = [z EXCEPT !.told = told]
    BY DEF ReadAnswered, told
  <2> QED BY <2>1, <2>2 DEF StreamRec
<1>2. Failed \in Telling /\ Done \in Telling /\ Waiting \in Telling /\ \A n \in Nat : Given(n) \in Telling
  BY DEF Failed, Done, Waiting, Given, Telling
<1>3. CASE s.state = "errored"
  BY <1>1, <1>2, <1>3 DEF Read
<1>4. CASE s.state # "errored" /\ s.queue # <<>>
  <2> DEFINE z == [s EXCEPT !.queue = Tail(@)]
             u == ReadAnswered(z, Given(Head(s.queue)))
  <2>1. Head(s.queue) \in Nat /\ Tail(s.queue) \in Seq(Nat)
    BY <1>4, FieldTypes, HeadTailProperties
  <2>2. z \in StreamRec /\ z.hwm = s.hwm /\ z.told = s.told
    BY <2>1 DEF StreamRec
  <2>3. Read(s) \in {StreamClose(u), CallPull(u)}
    BY <1>4 DEF Read, ReadQueued
  <2> HIDE DEF z
  <2>4. u \in StreamRec /\ u.hwm = s.hwm /\ Len(u.told) = Len(s.told) + 1
    BY <1>1, <1>2, <2>1, <2>2
  <2> HIDE DEF u
  <2>5. Sizes(u, Read(s))
    BY <2>3, <2>4, SizesSame
  <2> QED BY <2>4, <2>5 DEF Sizes
<1>5. CASE s.state = "closed" /\ s.queue = <<>>
  BY <1>1, <1>2, <1>5 DEF Read
<1>6. CASE s.state = "readable" /\ s.queue = <<>>
  <2> DEFINE z == ReadAnswered(s, Waiting)
             u == [z EXCEPT !.waits = Append(@, Len(s.told) + 1)]
  <2>1. z \in StreamRec /\ z.hwm = s.hwm /\ Len(z.told) = Len(s.told) + 1
    BY <1>1, <1>2
  <2>2. Read(s) = CallPull(u)
    BY <1>6 DEF Read
  <2> HIDE DEF z
  <2>3. z.waits \in Seq(Nat) /\ Len(s.told) + 1 \in Nat
    BY <2>1, FieldTypes
  <2>4. Append(z.waits, Len(s.told) + 1) \in Seq(Nat)
    BY <2>3
  <2>5. u \in StreamRec /\ u.hwm = z.hwm /\ u.told = z.told
    BY <2>1, <2>4 DEF StreamRec
  <2> HIDE DEF u
  <2>6. Sizes(u, Read(s))
    BY <2>2, <2>5, SizesSame
  <2> QED BY <2>1, <2>5, <2>6 DEF Sizes
<1> QED BY <1>3, <1>4, <1>5, <1>6, FieldTypes

-----------------------------------------------------------------------------
(* The invariant.                                                          *)

\* What the source and the reader keep has its types.
Besides ==
  /\ polite \in BOOLEAN /\ gave \in BOOLEAN /\ made \in 0..MaxChunks
  /\ dropped \in BOOLEAN /\ iter \in [going : BOOLEAN, since : 0..MaxReads]

\* The inductive invariant.
Sized == r.hwm \in 0..MaxHWM /\ Len(r.told) <= MaxReads
RInv == Besides /\ Sized /\ Core(r, made, dropped) /\ (polite => Asked(r, gave))

LEMMA SizedNext == ASSUME RInv, Next PROVE Sized'
<1>0. /\ r \in StreamRec /\ Sized /\ Core(r, made, dropped) /\ made \in Nat
      /\ dropped \in BOOLEAN
  BY DEF RInv, Core, Besides
<1>1. Len(r.told) \in Nat
  BY <1>0, FieldTypes
<1>2. ASSUME NEW z, Sizes(r, z), r' = z PROVE Sized'
  BY <1>0, <1>2 DEF Sizes, Sized
<1>3. CASE SourceActs
  <2>1. CASE PullFails
    <3> DEFINE e == ControllerError(r)
    <3>1. r' = [e EXCEPT !.pulling = FALSE]
      BY <2>1 DEF PullFails
    <3>2. Sizes(r, r')
      BY <1>0, <3>1, SettledLen DEF ControllerError, Sizes, StreamRec
    <3> QED BY <1>2, <3>2
  <2>2. CASE ~PullFails
    <3>1. \/ r' \in {Started(r), ControllerError(r), ControllerClose(r), PullEnded(r)}
          \/ r' = Enqueue(r, made + 1)
      BY <1>3, <2>2 DEF SourceActs, StartEnds, StartFails, Gives, SizeFails, Closes, Fails, PullEnds
    <3> QED BY <1>0, <1>2, <3>1, SizesSame
  <2> QED BY <2>1, <2>2
<1>4. CASE ReaderActs
  <2>1. CASE MakesRead
    BY <1>0, <1>1, <2>1, SizesRead, ReadableAssumption DEF MakesRead, Sized
  <2>2. CASE GetReader \/ ReleaseLock \/ Cancel \/ IterEnds
    <3>1. r' \in {Attach(r), Release(r), StreamCancel(r)}
      BY <2>2 DEF GetReader, ReleaseLock, Cancel, IterEnds
    <3> QED BY <1>0, <1>2, <3>1, SizesSame
  <2>3. CASE IterReturns
    <3>1. r' \in {Release(r), Release(StreamCancel(r))}
      BY <2>3 DEF IterReturns
    <3> DEFINE c == StreamCancel(r)
    <3>2. c \in StreamRec /\ Sizes(r, c)
      BY <1>0, Cancels, SizesSame
    <3> HIDE DEF c
    <3>3. Sizes(c, Release(c)) /\ Sizes(r, Release(r))
      BY <1>0, <3>2, SizesSame
    <3>4. Sizes(r, Release(c))
      BY <3>2, <3>3 DEF Sizes
    <3> QED BY <1>2, <3>1, <3>3, <3>4 DEF c
  <2> QED BY <1>4, <2>1, <2>2, <2>3 DEF ReaderActs
<1> QED BY <1>3, <1>4 DEF Next

LEMMA RInvInit == Init => RInv
<1> SUFFICES ASSUME Init PROVE RInv
  OBVIOUS
<1>1. Besides
  <2>1. 0 \in 0..MaxReads /\ 0 \in 0..MaxChunks
    BY ReadableAssumption
  <2>2. NotIterating \in [going : BOOLEAN, since : 0..MaxReads]
    BY <2>1 DEF NotIterating
  <2> QED BY <2>1, <2>2 DEF Init, Besides
<1>2. PICK hwm \in 0..MaxHWM : r = Fresh(hwm)
  BY DEF Init
<1>3. /\ r \in StreamRec /\ r.told = <<>> /\ r.waits = <<>> /\ r.queue = <<>> /\ r.state = "readable"
      /\ ~r.closing /\ ~r.pulling /\ ~r.started /\ r.hwm = hwm /\ Len(r.told) = 0
  BY <1>2 DEF Fresh, StreamRec
<1>4. made = 0 /\ gave = FALSE /\ dropped = FALSE
  BY DEF Init
<1>5. Passed(<<>>, <<>>, 0, 0, TRUE) /\ ReadersInLine(<<>>, <<>>)
  BY DEF Passed, ReadersInLine
<1>6. InTurn(<<>>, <<>>, 0, TRUE)
  <2>1. 0 \in 0..0
    OBVIOUS
  <2> QED BY <1>5, <2>1 DEF InTurn
<1>7. (r.state # "errored" /\ ~dropped) = TRUE
  BY <1>3, <1>4
<1>8. EndsEmpty(r.state, r.locked, r.waits, r.queue, r.closing, dropped)
  BY <1>3, <1>4 DEF EndsEmpty
<1>9. Readers(r, made, dropped)
  BY <1>3, <1>4, <1>5, <1>6, <1>7, <1>8 DEF Readers
<1>10. Core(r, made, dropped)
  BY <1>3, <1>9, ReadableAssumption DEF Core
<1>11. Asked(r, gave) /\ Sized
  BY <1>2, <1>3, <1>4, ReadableAssumption DEF Asked, AskedFor, Mark, Sized
<1> QED BY <1>1, <1>10, <1>11 DEF RInv

\* A step of the source keeps it, ...
LEMMA SourceKeeps ==
  ASSUME RInv, SourceActs
  PROVE  RInv' /\ Follows(r, r')
<1>0. /\ Besides /\ Core(r, made, dropped) /\ (polite => Asked(r, gave)) /\ made \in Nat
      /\ r \in StreamRec /\ EndsEmpty(r.state, r.locked, r.waits, r.queue, r.closing, dropped)
  BY DEF RInv, Besides, Core, Readers
<1>1. UNCHANGED <<polite, dropped, iter>>
  BY DEF SourceActs, StartEnds, StartFails, Gives, SizeFails, Closes, Fails, PullEnds, PullFails, Source
<1>2. ASSUME gave' \in BOOLEAN, made' \in 0..MaxChunks, Core(r', made', dropped), Follows(r, r'),
             polite => Asked(r', gave')
      PROVE  RInv' /\ Follows(r, r')
  BY <1>0, <1>1, <1>2, SizedNext DEF RInv, Besides, Next
<1>3. r.state = "readable" => dropped = FALSE
  BY <1>0 DEF EndsEmpty, Besides
<1>4. /\ polite => Askable(r, gave)
      /\ polite /\ r.pulling => Askable(r, TRUE)
  BY <1>0 DEF Asked, AskedFor, Askable
<1>5. /\ Core(ControllerError(r), made, dropped) /\ Follows(r, ControllerError(r))
      /\ ControllerError(r) \in StreamRec /\ AsBefore(r, ControllerError(r))
  BY <1>0, StreamFails DEF Besides
<1>6. CASE StartEnds
  <2>1. r' = Started(r) /\ gave' = gave /\ made' = made
    BY <1>6 DEF StartEnds
  <2>2. /\ Core(Started(r), made, dropped) /\ Follows(r, Started(r))
        /\ polite => Asked(Started(r), gave)
    BY <1>0, StreamStarts DEF Besides
  <2> QED BY <1>0, <1>2, <2>1, <2>2 DEF Besides
<1>7. CASE StartFails
  <2>1. r' = ControllerError(r) /\ gave' = gave /\ made' = made
    BY <1>7 DEF StartFails
  <2>2. polite => Asked(ControllerError(r), gave)
    BY <1>0, <1>4, <1>5, StillAskable DEF Besides
  <2> QED BY <1>0, <1>2, <1>5, <2>1, <2>2 DEF Besides
<1>8. CASE Gives
  <2>1. /\ MayGive(r) /\ (polite => r.pulling /\ ~gave) /\ made < MaxChunks
        /\ r' = Enqueue(r, made + 1) /\ gave' = TRUE /\ made' = made + 1
    BY <1>8 DEF Gives, ItsTurn
  <2>2. dropped = FALSE /\ (polite => gave = FALSE) /\ made + 1 \in Nat /\ made + 1 \in 0..MaxChunks
    BY <1>0, <1>3, <2>1, ReadableAssumption DEF MayGive, Besides
  <2>3. /\ Core(Enqueue(r, made + 1), made + 1, FALSE) /\ Follows(r, Enqueue(r, made + 1))
        /\ r.pulling /\ Asked(r, FALSE) => Asked(Enqueue(r, made + 1), TRUE)
    BY <1>0, <2>1, <2>2, Enqueues
  <2> QED BY <1>0, <1>2, <2>1, <2>2, <2>3
<1>9. CASE SizeFails
  <2>1. r' = ControllerError(r) /\ gave' = TRUE /\ made' = made /\ (polite => r.pulling)
    BY <1>9 DEF SizeFails, ItsTurn
  <2>2. polite => Asked(ControllerError(r), TRUE)
    BY <1>0, <1>4, <1>5, <2>1, StillAskable
  <2> QED BY <1>0, <1>2, <1>5, <2>1, <2>2 DEF Besides
<1>10. CASE Closes
  <2>1. /\ MayGive(r) /\ (polite => r.pulling /\ ~gave)
        /\ r' = ControllerClose(r) /\ gave' = TRUE /\ made' = made
    BY <1>10 DEF Closes, ItsTurn
  <2>2. dropped = FALSE /\ (polite => gave = FALSE)
    BY <1>0, <1>3, <2>1 DEF MayGive, Besides
  <2>3. /\ Core(ControllerClose(r), made, FALSE) /\ Follows(r, ControllerClose(r))
        /\ r.pulling /\ Asked(r, FALSE) => Asked(ControllerClose(r), TRUE)
    BY <1>0, <2>1, <2>2, ClosesLater
  <2> QED BY <1>0, <1>2, <2>1, <2>2, <2>3 DEF Besides
<1>11. CASE Fails
  <2>1. r' = ControllerError(r) /\ gave' = TRUE /\ made' = made /\ (polite => r.pulling)
    BY <1>11 DEF Fails, ItsTurn
  <2>2. polite => Asked(ControllerError(r), TRUE)
    BY <1>0, <1>4, <1>5, <2>1, StillAskable
  <2> QED BY <1>0, <1>2, <1>5, <2>1, <2>2 DEF Besides
<1>12. CASE PullEnds
  <2>1. /\ r' = PullEnded(r) /\ gave' = FALSE /\ made' = made
        /\ polite => gave \/ r.state # "readable" \/ r.closing
    BY <1>12 DEF PullEnds
  <2>2. /\ Core(PullEnded(r), made, dropped) /\ Follows(r, PullEnded(r))
        /\ polite => Asked(PullEnded(r), FALSE)
    BY <1>0, <2>1, PullsEnd DEF Besides
  <2> QED BY <1>0, <1>2, <2>1, <2>2 DEF Besides
<1>13. CASE PullFails
  <2> DEFINE e == ControllerError(r)
             z == [e EXCEPT !.pulling = FALSE]
  <2>1. r' = z /\ gave' = FALSE /\ made' = made
    BY <1>13 DEF PullFails
  <2>2. e \in StreamRec /\ e.waits = <<>> /\ Core(e, made, dropped) /\ Follows(r, e)
        /\ (polite => Asked(e, gave))
    BY <1>0, <1>4, <1>5, StillAskable DEF AsBefore, Besides
  <2> HIDE DEF e
  <2>3. /\ z \in StreamRec /\ SameReads(e, z) /\ z.pulling = FALSE /\ z.waits = <<>>
    BY <2>2 DEF StreamRec, SameReads
  <2> HIDE DEF z
  <2>4. Core(z, made, dropped) /\ Follows(e, z)
    BY <2>2, <2>3, SameCore
  <2>5. Follows(r, z)
    BY <2>2, <2>4 DEF Follows
  <2>6. polite => Asked(z, FALSE)
    BY <2>2, <2>3 DEF Asked, AskedFor, SameReads
  <2> QED BY <1>0, <1>2, <2>1, <2>4, <2>5, <2>6 DEF Besides
<1> QED BY <1>6, <1>7, <1>8, <1>9, <1>10, <1>11, <1>12, <1>13 DEF SourceActs

\* ... and one of the reader.
LEMMA ReaderKeeps ==
  ASSUME RInv, ReaderActs
  PROVE  RInv' /\ Follows(r, r')
<1>0. /\ Besides /\ Core(r, made, dropped) /\ (polite => Asked(r, gave)) /\ made \in Nat
      /\ r \in StreamRec /\ EndsEmpty(r.state, r.locked, r.waits, r.queue, r.closing, dropped)
      /\ Len(r.told) \in 0..MaxReads
  BY FieldTypes, ReadableAssumption DEF RInv, Besides, Sized, Core, Readers
<1>1. UNCHANGED <<polite, gave, made>>
  BY DEF ReaderActs, GetReader, MakesRead, ReleaseLock, Cancel, IterEnds, IterReturns, Reader
<1>2. ASSUME dropped' \in BOOLEAN, iter' \in [going : BOOLEAN, since : 0..MaxReads],
             Core(r', made, dropped'), Follows(r, r'), polite => Asked(r', gave)
      PROVE  RInv' /\ Follows(r, r')
  BY <1>0, <1>1, <1>2, SizedNext DEF RInv, Besides, Next
<1>3. NotIterating \in [going : BOOLEAN, since : 0..MaxReads]
  BY ReadableAssumption DEF NotIterating
<1>4. polite => Askable(r, gave)
  BY <1>0 DEF Asked, AskedFor, Askable
<1>5. /\ Core(StreamCancel(r), made, dropped \/ r.state = "readable") /\ Follows(r, StreamCancel(r))
      /\ StreamCancel(r) \in StreamRec /\ AsBefore(r, StreamCancel(r))
  BY <1>0, Cancels DEF Besides
<1>6. /\ Core(Release(r), made, dropped) /\ Follows(r, Release(r))
      /\ Release(r) \in StreamRec /\ AsBefore(r, Release(r))
  BY <1>0, Releases DEF Besides
<1>7. /\ polite => Asked(StreamCancel(r), gave) /\ Askable(StreamCancel(r), gave)
      /\ polite => Asked(Release(r), gave)
  <2>1. /\ polite => Asked(StreamCancel(r), gave)
        /\ polite => Asked(Release(r), gave)
    BY <1>0, <1>4, <1>5, <1>6, StillAskable
  <2> QED BY <2>1 DEF Asked, AskedFor, Askable
<1>8. CASE GetReader
  <2>1. /\ ~r.locked /\ r' = Attach(r) /\ dropped' = dropped
        /\ iter' \in {NotIterating, [going |-> TRUE, since |-> Len(r.told)]}
    BY <1>8 DEF GetReader
  <2>2. r.waits = <<>>
    BY <1>0, <2>1 DEF EndsEmpty
  <2>3. /\ Core(Attach(r), made, dropped) /\ Follows(r, Attach(r)) /\ AsBefore(r, Attach(r))
        /\ Attach(r) \in StreamRec
    BY <1>0, <2>2, Attaches
  <2>4. polite => Asked(Attach(r), gave)
    BY <1>0, <1>4, <2>3, StillAskable
  <2>5. iter' \in [going : BOOLEAN, since : 0..MaxReads]
    <3>1. \A n \in 0..MaxReads : [going |-> TRUE, since |-> n] \in [going : BOOLEAN, since : 0..MaxReads]
      OBVIOUS
    <3> QED BY <1>0, <1>3, <2>1, <3>1
  <2> QED BY <1>0, <1>2, <2>1, <2>3, <2>4, <2>5 DEF Besides
<1>9. CASE MakesRead
  <2>1. r.locked /\ Len(r.told) < MaxReads /\ r' = Read(r) /\ UNCHANGED <<dropped, iter>>
    BY <1>9 DEF MakesRead
  <2>2. /\ Core(Read(r), made, dropped) /\ Follows(r, Read(r))
        /\ polite => Asked(Read(r), gave)
    BY <1>0, <2>1, ReadsAny DEF Besides
  <2> QED BY <1>0, <1>2, <2>1, <2>2 DEF Besides
<1>10. CASE ReleaseLock
  <2>1. r' = Release(r) /\ UNCHANGED <<dropped, iter>>
    BY <1>10 DEF ReleaseLock
  <2> QED BY <1>0, <1>2, <1>6, <1>7, <2>1 DEF Besides
<1>11. CASE Cancel
  <2>1. r' = StreamCancel(r) /\ dropped' = (dropped \/ r.state = "readable") /\ iter' = iter
    BY <1>11 DEF Cancel
  <2> QED BY <1>0, <1>2, <1>5, <1>7, <2>1 DEF Besides
<1>12. CASE IterEnds
  <2>1. r' = Release(r) /\ dropped' = dropped /\ iter' = NotIterating
    BY <1>12 DEF IterEnds
  <2> QED BY <1>0, <1>2, <1>3, <1>6, <1>7, <2>1 DEF Besides
<1>13. CASE IterReturns
  <2>1. PICK preventCancel \in BOOLEAN :
          /\ r' = Release(IF preventCancel THEN r ELSE StreamCancel(r))
          /\ dropped' = (dropped \/ (~preventCancel /\ r.state = "readable"))
    BY <1>13 DEF IterReturns
  <2>2. iter' = NotIterating
    BY <1>13 DEF IterReturns
  <2>3. CASE preventCancel
    <3>1. r' = Release(r) /\ dropped' = dropped
      BY <1>0, <2>1, <2>3 DEF Besides
    <3> QED BY <1>0, <1>2, <1>3, <1>6, <1>7, <2>2, <3>1 DEF Besides
  <2>4. CASE ~preventCancel
    <3> DEFINE c == StreamCancel(r)
    <3>1. r' = Release(c) /\ dropped' = (dropped \/ r.state = "readable") /\ dropped' \in BOOLEAN
      BY <1>0, <2>1, <2>4 DEF Besides
    <3>2. /\ Core(c, made, dropped') /\ Follows(r, c) /\ c \in StreamRec
          /\ polite => Askable(c, gave)
      BY <1>5, <1>7, <3>1
    <3> HIDE DEF c
    <3>3. /\ Core(Release(c), made, dropped') /\ Follows(c, Release(c))
          /\ AsBefore(c, Release(c)) /\ Release(c) \in StreamRec
      BY <1>0, <3>1, <3>2, Releases
    <3>4. polite => Asked(Release(c), gave)
      BY <3>2, <3>3, StillAskable
    <3>5. Follows(r, Release(c))
      BY <3>2, <3>3 DEF Follows
    <3> QED BY <1>2, <1>3, <2>2, <3>1, <3>3, <3>4, <3>5
  <2> QED BY <2>3, <2>4
<1> QED BY <1>8, <1>9, <1>10, <1>11, <1>12, <1>13 DEF ReaderActs

LEMMA RInvNext ==
  ASSUME RInv, [Next]_vars
  PROVE  RInv' /\ Follows(r, r')
<1>1. CASE UNCHANGED vars
  BY <1>1 DEF vars, RInv, Besides, Sized, Follows
<1> QED BY <1>1, SourceKeeps, ReaderKeeps DEF Next

-----------------------------------------------------------------------------
(* The invariant says what the runs check.                                 *)

LEMMA Narrower ==
  ASSUME NEW S, NEW T, NEW q \in Seq(S), \A k \in 1..Len(q) : q[k] \in T PROVE q \in Seq(T)
<1>1. q = [k \in 1..Len(q) |-> q[k]] /\ Len(q) \in Nat
  OBVIOUS
<1> DEFINE n == Len(q)
<1>2. q \in [1..n -> T] /\ n \in Nat
  BY <1>1
<1> HIDE DEF n
<1> QED BY <1>2, SeqDef

LEMMA InvServes == RInv => ReaderServed
<1> SUFFICES ASSUME RInv PROVE ReaderServed
  OBVIOUS
<1>0. /\ Besides /\ Core(r, made, dropped) /\ (polite => Asked(r, gave)) /\ made \in Nat
      /\ r \in StreamRec /\ EndsEmpty(r.state, r.locked, r.waits, r.queue, r.closing, dropped)
      /\ ReadersInLine(r.told, r.waits)
      /\ InTurn(r.told, r.queue, made, r.state # "errored" /\ ~dropped)
  BY DEF RInv, Besides, Core, Readers
<1>1. /\ DOMAIN r.told = 1..Len(r.told) /\ DOMAIN r.waits = 1..Len(r.waits)
      /\ DOMAIN r.queue = 1..Len(r.queue)
  BY <1>0, FieldTypes, LenProperties
<1>2. TypeOK
  <2>1. PICK n \in 0..made : Passed(r.told, r.queue, n, made, r.state # "errored" /\ ~dropped)
    BY <1>0 DEF InTurn
  <2>2. /\ made \in 0..MaxChunks /\ r.hwm \in 0..MaxHWM /\ Len(r.told) <= MaxReads
        /\ Len(r.told) \in Nat /\ Len(r.queue) \in Nat
        /\ r.told \in Seq(Telling) /\ r.waits \in Seq(Nat) /\ r.queue \in Seq(Nat)
    BY <1>0, FieldTypes DEF RInv, Besides, Sized
  <2>3. r.waits \in Seq(1..MaxReads)
    <3>1. \A k \in 1..Len(r.waits) : r.waits[k] \in 1..MaxReads
      BY <1>0, <2>2, ReadableAssumption DEF ReadersInLine
    <3> QED BY <2>2, <3>1, Narrower
  <2>4. r.queue \in Seq(1..MaxChunks)
    <3>1. \A k \in 1..Len(r.queue) : r.queue[k] \in 1..MaxChunks
      BY SMTT(60), <2>1, <2>2, ReadableAssumption DEF Passed
    <3> QED BY <2>2, <3>1, Narrower
  <2>5. r.told \in Seq(Answer)
    <3>1. ASSUME NEW i \in 1..Len(r.told) PROVE r.told[i] \in Answer
      <4>1. /\ r.told[i] \in [is : {"waiting", "done", "failed", "released", "chunk"}, chunk : Nat]
            /\ r.told[i].is # "chunk" => r.told[i].chunk = 0
        BY <2>2 DEF Telling
      <4>2. r.told[i].is = "chunk" => r.told[i].chunk \in 1..n
        BY <2>1 DEF Passed
      <4>3. r.told[i].chunk \in 0..MaxChunks
        BY <2>2, <4>1, <4>2, ReadableAssumption
      <4> DEFINE a == r.told[i]
      <4>4. a = [is |-> a.is, chunk |-> a.chunk] /\ a.is \in {"waiting", "done", "failed", "released", "chunk"}
        BY <4>1
      <4>5. a.chunk \in 0..MaxChunks
        BY <4>3
      <4> HIDE DEF a
      <4>6. a \in Answer
        BY <4>4, <4>5 DEF Answer
      <4> QED BY <4>6 DEF a
    <3> QED BY <2>2, <3>1, Narrower
  <2> QED BY <1>0, <2>2, <2>3, <2>4, <2>5 DEF TypeOK, Besides, StreamRec
<1>3. InOrder
  <2>1. PICK n \in 0..made : Passed(r.told, r.queue, n, made, r.state # "errored" /\ ~dropped)
    BY <1>0 DEF InTurn
  <2> DEFINE got == {i \in Reads(r) : r.told[i].is = "chunk"}
  <2>2. got = {i \in 1..Len(r.told) : r.told[i].is = "chunk"}
    BY <1>1 DEF Reads
  <2> HIDE DEF got
  <2>3. {r.told[i].chunk : i \in got} = 1..n
    <3>1. \A i \in got : r.told[i].chunk \in 1..n
      BY <2>1, <2>2 DEF Passed
    <3>2. \A c \in 1..n : \E i \in got : c = r.told[i].chunk
      BY <2>1, <2>2 DEF Passed
    <3> QED BY <3>1, <3>2
  <2>4. \A i, j \in got : i < j => r.told[i].chunk < r.told[j].chunk
    BY <2>1, <2>2 DEF Passed
  <2>5. /\ \A k \in DOMAIN r.queue : r.queue[k] = n + k
        /\ n + Len(r.queue) <= made
        /\ r.state # "errored" /\ ~dropped => n + Len(r.queue) = made
    BY <1>1, <2>1 DEF Passed
  <2> QED BY <2>3, <2>4, <2>5 DEF InOrder, got
<1>4. WaitsForMore
  <2>1. Waiters(r) = {i \in Reads(r) : Waits(r, i)}
    <3>1. ASSUME NEW i \in Waiters(r) PROVE i \in Reads(r) /\ Waits(r, i)
      <4>1. PICK k \in 1..Len(r.waits) : r.waits[k] = i
        BY <1>1, <3>1 DEF Waiters
      <4> QED BY <1>0, <1>1, <4>1 DEF ReadersInLine, Reads, Waits
    <3>2. ASSUME NEW i \in Reads(r), Waits(r, i) PROVE i \in Waiters(r)
      <4>1. PICK k \in 1..Len(r.waits) : r.waits[k] = i
        BY <1>0, <1>1, <3>2 DEF ReadersInLine, Reads, Waits
      <4> QED BY <1>1, <4>1 DEF Waiters
    <3> QED BY <3>1, <3>2
  <2> QED BY <1>0, <2>1 DEF WaitsForMore, EndsEmpty
<1>5. ClosedIsEmpty
  BY <1>0 DEF ClosedIsEmpty, EndsEmpty
<1>6. WaitIsAsked
  BY <1>0 DEF WaitIsAsked, Asked, AskedFor
<1>7. Backpressure
  BY <1>0 DEF Backpressure, Asked, AskedFor, Mark
<1> QED BY <1>2, <1>3, <1>4, <1>5, <1>6, <1>7 DEF ReaderServed

\* A readable stream on its own: ReaderServed and EndedStays.
THEOREM ReadableStaysServed == Spec => []ReaderServed
  BY RInvInit, RInvNext, InvServes, PTL DEF Spec

Settles == /\ r.state # "readable" => r'.state = r.state
           /\ \A i \in Reads(r) : ~Waits(r, i) => r'.told[i] = r.told[i]

LEMMA StepSettles == ASSUME RInv, [Next]_vars PROVE Settles
<1>1. Follows(r, r')
  BY RInvNext
<1>2. DOMAIN r.told = 1..Len(r.told)
  BY FieldTypes, LenProperties DEF RInv, Core
<1> QED BY <1>1, <1>2 DEF Settles, Follows, Reads, Waits

THEOREM EndedStaysSo == Spec => EndedStays
<1>1. RInv /\ [Next]_vars => [Settles]_vars
  BY StepSettles
<1> QED BY <1>1, RInvInit, RInvNext, PTL DEF Spec, EndedStays, Settles

-----------------------------------------------------------------------------
(* Tee.                                                                    *)

\* The operators of Tee on streams are those above.
LEMMA SameOperators ==
  /\ \A s : Teed!Read(s) = Read(s) /\ Teed!CallPull(s) = CallPull(s)
           /\ Teed!Started(s) = Started(s) /\ Teed!PullEnded(s) = PullEnded(s)
           /\ Teed!ControllerClose(s) = ControllerClose(s)
           /\ Teed!ControllerError(s) = ControllerError(s)
           /\ Teed!StreamCancel(s) = StreamCancel(s) /\ Teed!Attach(s) = Attach(s)
           /\ Teed!Fresh(s) = Fresh(s) /\ Teed!MayGive(s) = MayGive(s)
  /\ \A s, n : Teed!Enqueue(s, n) = Enqueue(s, n)
<1>1. \A s, ids, a : Teed!Settled(s, ids, a) = Settled(s, ids, a)
  BY DEF Teed!Settled, Settled
<1>2. \A s : Teed!Waiters(s) = Waiters(s) /\ Teed!Attach(s) = Attach(s)
           /\ Teed!Fresh(s) = Fresh(s) /\ Teed!MayGive(s) = MayGive(s)
  BY DEF Teed!Waiters, Waiters, Teed!Attach, Attach, Teed!Fresh, Fresh, Teed!MayGive, MayGive
<1>3. \A s : Teed!CallPull(s) = CallPull(s)
  BY DEF Teed!CallPull, CallPull, Teed!ShouldPull, ShouldPull, Teed!Desired, Desired
<1>4. \A s : Teed!StreamClose(s) = StreamClose(s) /\ Teed!ControllerError(s) = ControllerError(s)
  BY <1>1, <1>2 DEF Teed!StreamClose, StreamClose, Teed!ControllerError, ControllerError,
     Teed!Done, Done, Teed!Failed, Failed
<1>5. \A s : /\ Teed!StreamCancel(s) = StreamCancel(s) /\ Teed!ControllerClose(s) = ControllerClose(s)
           /\ Teed!Started(s) = Started(s) /\ Teed!PullEnded(s) = PullEnded(s)
  BY <1>3, <1>4 DEF Teed!StreamCancel, StreamCancel, Teed!ControllerClose, ControllerClose,
     Teed!Started, Started, Teed!PullEnded, PullEnded
<1>6. \A s, n : Teed!Enqueue(s, n) = Enqueue(s, n)
  BY <1>1, <1>3 DEF Teed!Enqueue, Enqueue, Teed!Given, Given
<1>7. \A s, a : Teed!ReadAnswered(s, a) = ReadAnswered(s, a)
  BY DEF Teed!ReadAnswered, ReadAnswered
<1>8. \A s : Teed!ReadQueued(s) = ReadQueued(s)
  BY <1>3, <1>4, <1>7 DEF Teed!ReadQueued, ReadQueued, Teed!Given, Given
<1>9. \A s : Teed!Read(s) = Read(s)
  BY <1>3, <1>7, <1>8 DEF Teed!Read, Read, Teed!Failed, Failed, Teed!Done, Done, Teed!Waiting, Waiting
<1> QED BY <1>2, <1>3, <1>4, <1>5, <1>6, <1>9

\* The stream that is teed, and its branches.
TeeRec ==
  [src : StreamRec, br : [{1, 2} -> StreamRec], pulling : BOOLEAN, closed : BOOLEAN,
   canceled : SUBSET {1, 2}, own : 0..2]

\* How many reads of the stream have been heard: all but the one whose callback
\* is still to come.
HeardReads(s, pull) == IF pull THEN Len(s.told) - 1 ELSE Len(s.told)

\* The first k reads are settled, and had the first h chunks among them.
HeardUpTo(told, k, h) ==
  /\ \A i \in 1..k : told[i].is # "waiting" /\ (told[i].is = "chunk" => told[i].chunk \in 1..h)
  /\ \A c \in 1..h : \E i \in 1..k : told[i].is = "chunk" /\ told[i].chunk = c

\* The stream: it is read once at a time, and closed by its source or by both.
SrcKept(s, m, pull, h, both) ==
  /\ Core(s, m, both) /\ s.locked
  /\ pull => s.told # <<>>
  /\ HeardUpTo(s.told, HeardReads(s, pull), h)
  /\ s.state = "closed" /\ ~s.closing => both

\* A branch: what it was given are the first g chunks, unless it is gone.
BranchKept(s, g, gone, over) ==
  /\ Core(s, g, gone) /\ s.locked
  /\ ~gone /\ ~over => s.state = "readable" /\ ~s.closing

BranchOf(u, y, s, g) == BranchKept(s, g, y \in u.canceled, u.closed)

\* Of h chunks that were heard, the branches have been handed as many as hb says.
TeeKept(u, m, h, hb) ==
  /\ u \in TeeRec /\ h \in 0..m
  /\ SrcKept(u.src, m, u.pulling, h, u.canceled = {1, 2})
  /\ \A y \in {1, 2} : BranchOf(u, y, u.br[y], hb[y])
  /\ u.closed => ~u.pulling

\* Reading, being asked and being given more end a stream only if it is closing.
Onwards(s, z) ==
  /\ z.locked = s.locked /\ z.closing = s.closing
  /\ z.state = s.state \/ (s.closing /\ z.state = "closed")

LEMMA GoesOnwards ==
  ASSUME NEW s \in StreamRec
  PROVE  /\ Onwards(s, CallPull(s)) /\ Onwards(s, PullEnded(s)) /\ Onwards(s, Started(s))
         /\ Onwards(s, Read(s)) /\ \A n : Onwards(s, Enqueue(s, n))
<1>1. ASSUME NEW z \in StreamRec PROVE Onwards(z, CallPull(z))
  BY <1>1 DEF CallPull, Onwards, StreamRec
<1>2. Onwards(s, PullEnded(s)) /\ Onwards(s, Started(s))
  BY DEF PullEnded, Started, CallPull, Onwards, StreamRec
<1>3. \A n : Onwards(s, Enqueue(s, n))
  BY DEF Enqueue, CallPull, Onwards, StreamRec
<1>4. Onwards(s, Read(s))
  <2>1. CASE s.state = "errored"
    BY <2>1 DEF Read, ReadAnswered, Onwards, StreamRec
  <2>2. CASE s.state # "errored" /\ s.queue # <<>>
    <3>1. Read(s) = ReadQueued(s)
      BY <2>2 DEF Read
    <3> QED BY <3>1 DEF ReadQueued, ReadAnswered, StreamClose, CallPull, Onwards, StreamRec
  <2>3. CASE s.state = "closed" /\ s.queue = <<>>
    BY <2>3 DEF Read, ReadAnswered, Onwards, StreamRec
  <2>4. CASE s.state = "readable" /\ s.queue = <<>>
    <3>1. Read(s) = CallPull(Awaiting(s))
      BY <2>4 DEF Read, Awaiting
    <3> QED BY <3>1 DEF Awaiting, ReadAnswered, CallPull, Onwards, StreamRec
  <2> QED BY <2>1, <2>2, <2>3, <2>4, FieldTypes
<1> QED BY <1>1, <1>2, <1>3, <1>4

\* What ends one leaves its lock, and says whether its source did.
LEMMA EndsLocked ==
  ASSUME NEW s \in StreamRec
  PROVE  /\ ControllerClose(s).locked = s.locked /\ ControllerClose(s).closing
         /\ ControllerError(s).locked = s.locked /\ ControllerError(s).closing = s.closing
         /\ s.state = "closed" <=> ControllerError(s).state = "closed"
         /\ StreamCancel(s).locked = s.locked
<1>1. /\ ControllerClose(s).locked = s.locked /\ ControllerClose(s).closing
  BY DEF ControllerClose, StreamClose, StreamRec
<1>2. /\ ControllerError(s).locked = s.locked /\ ControllerError(s).closing = s.closing
      /\ s.state = "closed" <=> ControllerError(s).state = "closed"
  BY DEF ControllerError, StreamRec
<1>3. StreamCancel(s).locked = s.locked
  BY DEF StreamCancel, StreamClose, StreamRec
<1> QED BY <1>1, <1>2, <1>3

\* One that has ended may as well have been cancelled, and one that was may have
\* been made more for.
LEMMA CoreGone ==
  ASSUME NEW s, NEW m \in Nat, NEW dr \in BOOLEAN, Core(s, m, dr), s.state # "readable"
  PROVE  Core(s, m, TRUE)
<1>1. InTurn(s.told, s.queue, m, s.state # "errored" /\ ~dr)
  BY DEF Core, Readers
<1>2. InTurn(s.told, s.queue, m, FALSE)
  BY <1>1 DEF InTurn, Passed
<1> QED BY <1>2 DEF Core, Readers, EndsEmpty

LEMMA CoreMore ==
  ASSUME NEW s, NEW m \in Nat, Core(s, m, TRUE) PROVE Core(s, m + 1, TRUE)
<1>1. InTurn(s.told, s.queue, m, FALSE) /\ Len(s.queue) \in Nat
  BY FieldTypes DEF Core, Readers
<1>2. PICK n \in 0..m : Passed(s.told, s.queue, n, m, FALSE)
  BY <1>1 DEF InTurn
<1>3. n \in 0..m+1 /\ Passed(s.told, s.queue, n, m + 1, FALSE)
  BY <1>1, <1>2 DEF Passed
<1>4. InTurn(s.told, s.queue, m + 1, FALSE)
  BY <1>3 DEF InTurn
<1> QED BY <1>4 DEF Core, Readers

\* The stream goes on, whatever its source does: ...
LEMMA SrcGoes ==
  ASSUME NEW s, NEW m, NEW pull \in BOOLEAN, NEW h, NEW both, SrcKept(s, m, pull, h, both),
         NEW z, NEW n, NEW both2, Core(z, n, both2), Follows(s, z),
         Len(z.told) = Len(s.told), z.locked, z.state = "closed" /\ ~z.closing => both2
  PROVE  SrcKept(z, n, pull, h, both2)
<1> DEFINE k == HeardReads(s, pull)
<1>1. /\ s \in StreamRec /\ z \in StreamRec /\ Len(s.told) \in Nat
      /\ s.told \in Seq(Telling) /\ z.told \in Seq(Telling)
  BY FieldTypes DEF SrcKept, Core
<1>2. HeardReads(z, pull) = k /\ \A i \in 1..k : i \in 1..Len(s.told)
  BY <1>1 DEF HeardReads
<1>3. HeardUpTo(s.told, k, h)
  BY DEF SrcKept
<1> HIDE DEF k
<1>4. \A i \in 1..k : z.told[i] = s.told[i]
  BY <1>2, <1>3 DEF HeardUpTo, Follows
<1>5. HeardUpTo(z.told, k, h)
  BY <1>3, <1>4 DEF HeardUpTo
<1>6. pull => z.told # <<>>
  <2>1. pull => s.told # <<>>
    BY DEF SrcKept
  <2>2. s.told # <<>> => Len(s.told) # 0
    BY <1>1
  <2> QED BY <1>1, <2>1, <2>2
<1> QED BY <1>2, <1>5, <1>6 DEF SrcKept

\* ... it is read, ...
LEMMA SrcReads ==
  ASSUME NEW s, NEW m \in Nat, NEW h, NEW both \in BOOLEAN, SrcKept(s, m, FALSE, h, both)
  PROVE  SrcKept(Read(s), m, TRUE, h, both)
<1> DEFINE z == Read(s)
<1>1. s \in StreamRec /\ Core(s, m, both) /\ s.locked /\ HeardUpTo(s.told, Len(s.told), h)
  BY DEF SrcKept, Core, HeardReads
<1>2. /\ Core(z, m, both) /\ Follows(s, z) /\ Onwards(s, z) /\ Len(z.told) = Len(s.told) + 1
      /\ z \in StreamRec
  BY <1>1, ReadsAny, GoesOnwards, SizesRead DEF Core
<1> HIDE DEF z
<1>3. Len(s.told) \in Nat /\ Len(z.told) \in Nat /\ HeardReads(z, TRUE) = Len(s.told)
  BY <1>1, <1>2, FieldTypes DEF HeardReads
<1>4. \A i \in 1..Len(s.told) : z.told[i] = s.told[i]
  BY <1>1, <1>2 DEF HeardUpTo, Follows
<1>5. HeardUpTo(z.told, Len(s.told), h)
  BY <1>1, <1>4 DEF HeardUpTo
<1>6. z.told # <<>>
  BY <1>2, <1>3
<1>7. z.state = "closed" /\ ~z.closing => both
  BY <1>2 DEF Onwards, SrcKept
<1> QED BY <1>1, <1>2, <1>3, <1>5, <1>6, <1>7 DEF SrcKept, Onwards, z

\* ... and what the read had is heard: the next chunk, ...
LEMMA SrcHears ==
  ASSUME NEW s, NEW m \in Nat, NEW h \in 0..m, NEW both, SrcKept(s, m, TRUE, h, both),
         s.told[Len(s.told)].is = "chunk"
  PROVE  /\ s.told[Len(s.told)].chunk = h + 1 /\ h + 1 \in 0..m
         /\ SrcKept(s, m, FALSE, h + 1, both)
<1> DEFINE told == s.told
           l == Len(s.told)
<1>1. /\ s \in StreamRec /\ l \in Nat /\ told \in Seq(Telling) /\ told # <<>>
      /\ HeardUpTo(told, l - 1, h) /\ InTurn(told, s.queue, m, s.state # "errored" /\ ~both)
      /\ Len(s.queue) \in Nat
  BY FieldTypes DEF SrcKept, Core, Readers, HeardReads
<1>2. l # 0
  BY <1>1
<1>3. PICK n \in 0..m : Passed(told, s.queue, n, m, s.state # "errored" /\ ~both)
  BY <1>1 DEF InTurn
<1> DEFINE c == told[l].chunk
<1>4. told[l].is = "chunk" /\ l \in 1..Len(told) /\ HeardReads(s, FALSE) = l
  BY <1>1, <1>2 DEF HeardReads
<1> HIDE DEF told, l
<1>5. c \in 1..n /\ n <= m
  BY <1>1, <1>3, <1>4 DEF Passed
<1>6. c > h
  <2>1. CASE h = 0
    BY <1>5, <2>1
  <2>2. CASE h # 0
    <3>1. h \in 1..h
      BY <2>2
    <3>2. PICK i \in 1..l-1 : told[i].is = "chunk" /\ told[i].chunk = h
      BY <1>1, <3>1 DEF HeardUpTo
    <3>3. i \in 1..Len(told) /\ i < l
      BY <1>1, <1>4, <3>2
    <3>4. told[i].chunk < c
      BY <1>3, <1>4, <3>2, <3>3 DEF Passed
    <3> QED BY <1>5, <3>2, <3>4
  <2> QED BY <2>1, <2>2
<1>7. c = h + 1
  <2>1. h + 1 \in 1..n
    BY <1>5, <1>6
  <2>2. PICK i \in 1..Len(told) : told[i].is = "chunk" /\ told[i].chunk = h + 1
    BY <1>3, <2>1 DEF Passed
  <2>3. Len(told) = l
    BY DEF told, l
  <2>4. i \notin 1..l-1
    <3>1. ASSUME i \in 1..l-1 PROVE FALSE
      <4>1. told[i].chunk \in 1..h
        BY <1>1, <2>2, <3>1 DEF HeardUpTo
      <4> QED BY <2>2, <4>1
    <3> QED BY <3>1
  <2>5. i = l
    BY <1>1, <2>3, <2>4
  <2> QED BY <2>2, <2>5
<1>8. HeardUpTo(told, l, h + 1)
  <2>1. ASSUME NEW i \in 1..l
        PROVE  told[i].is # "waiting" /\ (told[i].is = "chunk" => told[i].chunk \in 1..h+1)
    <3>1. CASE i = l
      BY <1>4, <1>7, <3>1
    <3>2. CASE i # l
      <4>1. i \in 1..l-1
        BY <1>1, <3>2
      <4>2. told[i].is # "waiting" /\ (told[i].is = "chunk" => told[i].chunk \in 1..h)
        BY <1>1, <4>1 DEF HeardUpTo
      <4> QED BY <4>2
    <3> QED BY <3>1, <3>2
  <2>2. ASSUME NEW d \in 1..h+1 PROVE \E i \in 1..l : told[i].is = "chunk" /\ told[i].chunk = d
    <3>1. CASE d = h + 1
      <4>1. l \in 1..l
        BY <1>1, <1>4 DEF told, l
      <4> QED BY <1>4, <1>7, <3>1, <4>1
    <3>2. CASE d # h + 1
      <4>1. d \in 1..h
        BY <3>2
      <4>2. PICK i \in 1..l-1 : told[i].is = "chunk" /\ told[i].chunk = d
        BY <1>1, <4>1 DEF HeardUpTo
      <4> QED BY <1>1, <4>2
    <3> QED BY <3>1, <3>2
  <2> QED BY <2>1, <2>2 DEF HeardUpTo
<1>9. h + 1 \in 0..m
  BY <1>5, <1>7
<1> QED BY <1>4, <1>7, <1>8, <1>9 DEF SrcKept, told, l

\* ... or no chunk.
LEMMA SrcHearsNone ==
  ASSUME NEW s, NEW m, NEW h, NEW both, SrcKept(s, m, TRUE, h, both),
         s.told[Len(s.told)].is \notin {"waiting", "chunk"}
  PROVE  SrcKept(s, m, FALSE, h, both)
<1>1. s \in StreamRec /\ Len(s.told) \in Nat /\ HeardUpTo(s.told, Len(s.told) - 1, h)
  BY FieldTypes DEF SrcKept, Core, HeardReads
<1>2. \A i \in 1..Len(s.told) : i = Len(s.told) \/ i \in 1..Len(s.told)-1
  BY <1>1
<1>3. \A i \in 1..Len(s.told)-1 : i \in 1..Len(s.told)
  BY <1>1
<1>4. HeardUpTo(s.told, Len(s.told), h)
  BY <1>1, <1>2, <1>3 DEF HeardUpTo
<1> QED BY <1>4 DEF SrcKept, HeardReads

\* One of the branches changes, ...
Put(u, e, s) == [u EXCEPT !.br[e] = s]
Counts == [{1, 2} -> Nat]
Counted(hb, e, g) == [hb EXCEPT ![e] = g]

LEMMA BranchPut ==
  ASSUME NEW m, NEW h, NEW hb \in Counts, NEW u, TeeKept(u, m, h, hb),
         NEW e \in {1, 2}, NEW s, NEW g \in Nat, BranchOf(u, e, s, g)
  PROVE  /\ TeeKept(Put(u, e, s), m, h, Counted(hb, e, g))
         /\ Put(u, e, s).closed = u.closed /\ Put(u, e, s).canceled = u.canceled
<1> USE DEF Put, Counts, Counted
<1> DEFINE v == [u EXCEPT !.br[e] = s]
           gb == [hb EXCEPT ![e] = g]
<1>1. u \in TeeRec /\ s \in StreamRec
  BY DEF TeeKept, BranchOf, BranchKept, Core
<1>2. u.br \in [{1, 2} -> StreamRec]
  BY <1>1 DEF TeeRec
<1>3. v = [u EXCEPT !.br = [u.br EXCEPT ![e] = s]]
  BY <1>1 DEF TeeRec
<1> DEFINE b2 == [u.br EXCEPT ![e] = s]
<1>4. b2 \in [{1, 2} -> StreamRec] /\ \A y \in {1, 2} : b2[y] = IF y = e THEN s ELSE u.br[y]
  BY <1>1, <1>2
<1>5. \A y \in {1, 2} : gb[y] = IF y = e THEN g ELSE hb[y]
  OBVIOUS
<1> HIDE DEF b2, gb, v
<1>6. v = [u EXCEPT !.br = b2]
  BY <1>3 DEF b2
<1>7. /\ v \in TeeRec /\ v.br = b2 /\ v.pulling = u.pulling /\ v.closed = u.closed
      /\ v.canceled = u.canceled /\ v.src = u.src
  BY <1>1, <1>4, <1>6 DEF TeeRec
<1>8. \A y \in {1, 2} : BranchOf(v, y, v.br[y], gb[y])
  BY <1>4, <1>5, <1>7 DEF TeeKept, BranchOf
<1>9. TeeKept(v, m, h, gb)
  BY <1>7, <1>8 DEF TeeKept
<1> QED BY <1>4, <1>7, <1>9 DEF v, gb

\* ... the stream is read, ...
LEMMA TeePulls ==
  ASSUME NEW m \in Nat, NEW h, NEW hb, NEW u, TeeKept(u, m, h, hb), NEW e \in {1, 2}
  PROVE  /\ TeeKept(Teed!TeePull(u, e), m, h, hb)
         /\ LET v == Teed!TeePull(u, e) IN
            v.br = u.br /\ v.canceled = u.canceled /\ v.closed = u.closed
<1>1. CASE u.closed \/ u.pulling
  BY <1>1 DEF Teed!TeePull
<1>2. CASE ~(u.closed \/ u.pulling)
  <2> DEFINE s == Read(u.src)
             v == [u EXCEPT !.pulling = TRUE, !.own = e, !.src = s]
  <2>1. Teed!TeePull(u, e) = v
    BY <1>2, SameOperators DEF Teed!TeePull
  <2>2. u \in TeeRec /\ (u.canceled = {1, 2}) \in BOOLEAN
    BY DEF TeeKept
  <2>3. u.pulling = FALSE /\ u.closed = FALSE
    BY <1>2, <2>2 DEF TeeRec
  <2>4. SrcKept(s, m, TRUE, h, u.canceled = {1, 2})
    BY <2>2, <2>3, SrcReads DEF TeeKept
  <2>5. s \in StreamRec /\ e \in 0..2
    BY <2>4 DEF SrcKept, Core
  <2> HIDE DEF s
  <2>6. /\ v \in TeeRec /\ v.src = s /\ v.pulling = TRUE /\ v.br = u.br /\ v.closed = u.closed
        /\ v.canceled = u.canceled
    BY <2>2, <2>5 DEF TeeRec
  <2> HIDE DEF v
  <2>7. TeeKept(v, m, h, hb)
    BY <2>3, <2>4, <2>6 DEF TeeKept, BranchOf
  <2> QED BY <2>1, <2>6, <2>7
<1> QED BY <1>1, <1>2

\* ... or both.
LEMMA Branches ==
  ASSUME NEW m \in Nat, NEW h, NEW hb \in Counts, NEW u, TeeKept(u, m, h, hb),
         NEW e \in {1, 2}, NEW s, NEW g \in Nat, BranchOf(u, e, s, g)
  PROVE  /\ TeeKept(Teed!Branched(u, e, s), m, h, Counted(hb, e, g))
         /\ Teed!Branched(u, e, s).canceled = u.canceled
         /\ Teed!Branched(u, e, s).closed = u.closed
<1> DEFINE v == Put(u, e, s)
<1>1. TeeKept(v, m, h, Counted(hb, e, g)) /\ v.canceled = u.canceled /\ v.closed = u.closed
  BY BranchPut
<1>2. Teed!Branched(u, e, s) \in {v, Teed!TeePull(v, e)}
  BY DEF Teed!Branched, Put
<1> HIDE DEF v
<1>3. /\ TeeKept(Teed!TeePull(v, e), m, h, Counted(hb, e, g))
      /\ Teed!TeePull(v, e).canceled = v.canceled /\ Teed!TeePull(v, e).closed = v.closed
  BY <1>1, TeePulls
<1> QED BY ONLY <1>1, <1>2, <1>3

\* A branch is handed the next chunk.
LEMMA Hands ==
  ASSUME NEW m \in Nat, NEW h, NEW hb \in Counts, NEW u, TeeKept(u, m, h, hb),
         NEW e \in {1, 2}, ~u.closed, NEW n \in Nat, hb[e] = n - 1, n # 0
  PROVE  /\ TeeKept(Teed!Hand(u, e, n), m, h, Counted(hb, e, n))
         /\ Teed!Hand(u, e, n).canceled = u.canceled /\ Teed!Hand(u, e, n).closed = u.closed
<1> DEFINE s == u.br[e]
           z == Enqueue(s, n)
<1>1. BranchKept(s, n - 1, e \in u.canceled, u.closed) /\ n - 1 \in Nat /\ (n - 1) + 1 = n
  BY DEF TeeKept, BranchOf
<1>2. CASE e \in u.canceled
  <2>1. Teed!Hand(u, e, n) = u
    BY <1>2 DEF Teed!Hand, Teed!Uncanceled
  <2>2. Core(s, n, TRUE)
    BY <1>1, <1>2, CoreMore DEF BranchKept
  <2>3. BranchKept(s, n, TRUE, u.closed)
    BY <1>1, <1>2, <2>2 DEF BranchKept
  <2> DEFINE gb == Counted(hb, e, n)
  <2>4. \A y \in {1, 2} : gb[y] = IF y = e THEN n ELSE hb[y]
    BY DEF Counted, Counts
  <2> HIDE DEF gb
  <2>5. \A y \in {1, 2} : BranchOf(u, y, u.br[y], gb[y])
    BY <1>2, <2>3, <2>4 DEF TeeKept, BranchOf
  <2>6. TeeKept(u, m, h, gb)
    BY <2>5 DEF TeeKept
  <2> QED BY <2>1, <2>6 DEF gb
<1>3. CASE e \notin u.canceled
  <2>1. Teed!Hand(u, e, n) = Teed!Branched(u, e, z)
    BY <1>3, SameOperators DEF Teed!Hand, Teed!Uncanceled
  <2>2. (e \in u.canceled) = FALSE
    BY <1>3
  <2> HIDE DEF s
  <2>3. BranchKept(s, n - 1, FALSE, u.closed)
    BY <1>1, <2>2
  <2>4. Core(s, n - 1, FALSE) /\ MayGive(s) /\ s.locked /\ s \in StreamRec
    BY <2>3 DEF BranchKept, MayGive, Core
  <2>5. Core(z, n, FALSE) /\ Onwards(s, z)
    BY <1>1, <2>4, Enqueues, GoesOnwards
  <2> HIDE DEF z
  <2>6. BranchKept(z, n, FALSE, u.closed)
    BY <2>4, <2>5 DEF BranchKept, Onwards, MayGive
  <2>7. BranchOf(u, e, z, n)
    BY <2>2, <2>6 DEF BranchOf
  <2>8. /\ TeeKept(Teed!Branched(u, e, z), m, h, Counted(hb, e, n))
        /\ Teed!Branched(u, e, z).canceled = u.canceled
        /\ Teed!Branched(u, e, z).closed = u.closed
    BY ONLY <2>7, m \in Nat, hb \in Counts, TeeKept(u, m, h, hb), e \in {1, 2}, n \in Nat, Branches
  <2> QED BY <2>1, <2>8
<1> QED BY <1>2, <1>3

\* Both branches have been handed as many.
Even(h) == [y \in {1, 2} |-> h]
TeeNow(h) == taken \in 0..MaxChunks /\ given \in BOOLEAN /\ h \in Nat /\ TeeKept(t, taken, h, Even(h))

LEMMA EvenCounts ==
  ASSUME NEW h \in Nat
  PROVE  /\ Even(h) \in Counts
         /\ \A e \in {1, 2} : Even(h)[e] = h /\ Counted(Even(h), e, h) = Even(h)
BY DEF Even, Counts, Counted

\* The stream changes.
LEMMA SrcPut ==
  ASSUME NEW m, NEW h, NEW hb, NEW u, TeeKept(u, m, h, hb), NEW n, h \in 0..n, NEW z,
         SrcKept(z, n, u.pulling, h, u.canceled = {1, 2})
  PROVE  TeeKept([u EXCEPT !.src = z], n, h, hb)
<1> DEFINE v == [u EXCEPT !.src = z]
<1>1. u \in TeeRec /\ z \in StreamRec
  BY DEF TeeKept, SrcKept, Core
<1>2. /\ v \in TeeRec /\ v.src = z /\ v.br = u.br /\ v.pulling = u.pulling /\ v.closed = u.closed
      /\ v.canceled = u.canceled
  BY <1>1 DEF TeeRec
<1> HIDE DEF v
<1>3. TeeKept(v, n, h, hb)
  BY <1>2 DEF TeeKept, BranchOf
<1> QED BY <1>3 DEF v

\* The stream goes on without ending.
LEMMA SrcStep ==
  ASSUME NEW s, NEW m, NEW pull \in BOOLEAN, NEW h, NEW both, SrcKept(s, m, pull, h, both),
         NEW z, NEW n, Core(z, n, both), Follows(s, z), Sizes(s, z), Onwards(s, z)
  PROVE  SrcKept(z, n, pull, h, both)
<1>1. Len(z.told) = Len(s.told)
  BY DEF Sizes
<1>2. z.locked /\ (z.state = "closed" /\ ~z.closing => both)
  BY DEF Onwards, SrcKept
<1> QED BY <1>1, <1>2, SrcGoes

\* It is given more.
LEMMA SrcGiven ==
  ASSUME NEW s, NEW m \in Nat, NEW pull \in BOOLEAN, NEW h, SrcKept(s, m, pull, h, FALSE), MayGive(s)
  PROVE  SrcKept(Enqueue(s, m + 1), m + 1, pull, h, FALSE)
<1>1. Core(s, m, FALSE) /\ s \in StreamRec
  BY Zenon DEF SrcKept, Core
<1>0. m + 1 \in Nat
  OBVIOUS
<1> DEFINE z == Enqueue(s, m + 1)
<1>2. Core(z, m + 1, FALSE) /\ Follows(s, z)
  BY <1>0, <1>1, Enqueues
<1>3. Sizes(s, z) /\ Onwards(s, z)
  BY <1>1, SizesSame, GoesOnwards
<1> HIDE DEF z
<1>4. SrcKept(z, m + 1, pull, h, FALSE)
  BY <1>2, <1>3, SrcStep
<1> QED BY <1>4 DEF z

\* What the source does.
LEMMA SourceSteps ==
  ASSUME NEW h, TeeNow(h), Teed!SourceActs
  PROVE  TeeNow(h)'
<1> DEFINE s == t.src
           m == taken
           pull == t.pulling
           both == t.canceled = {1, 2}
<1>0. /\ m \in Nat /\ h \in 0..m /\ pull \in BOOLEAN /\ both \in BOOLEAN /\ SrcKept(s, m, pull, h, both)
      /\ TeeKept(t, m, h, Even(h))
  BY ReadableAssumption DEF TeeNow, TeeKept, TeeRec
<1>1. Core(s, m, both) /\ s \in StreamRec
  BY <1>0 DEF SrcKept, Core
<1> SUFFICES \E z : /\ t' = [t EXCEPT !.src = z] /\ taken' \in m..MaxChunks /\ given' \in BOOLEAN
                    /\ SrcKept(z, taken', pull, h, both)
  <2>1. PICK z : /\ t' = [t EXCEPT !.src = z] /\ taken' \in m..MaxChunks /\ given' \in BOOLEAN
                 /\ SrcKept(z, taken', pull, h, both)
    OBVIOUS
  <2>2. h \in 0..taken' /\ taken' \in 0..MaxChunks
    BY <1>0, <2>1, ReadableAssumption
  <2>3. TeeKept(t', taken', h, Even(h))
    BY <1>0, <2>1, <2>2, SrcPut
  <2> QED BY <2>1, <2>2, <2>3 DEF TeeNow
<1>2. taken \in m..MaxChunks /\ given \in BOOLEAN
  BY ReadableAssumption DEF TeeNow
<1> HIDE DEF s, m, pull, both
<1>3. CASE Teed!SourceStarts
  <2>1. t' = [t EXCEPT !.src = Started(s)] /\ UNCHANGED <<given, taken>>
    BY <1>3, SameOperators DEF Teed!SourceStarts, s
  <2>2. SrcKept(Started(s), m, pull, h, both)
    BY <1>0, <1>1, StreamStarts, SizesSame, GoesOnwards, SrcStep
  <2> QED BY <1>2, <2>1, <2>2 DEF m
<1>4. CASE Teed!SourcePulled
  <2>1. t' = [t EXCEPT !.src = PullEnded(s)] /\ UNCHANGED taken /\ given' = FALSE
    BY <1>4, SameOperators DEF Teed!SourcePulled, s
  <2>2. Core(PullEnded(s), m, both) /\ Follows(s, PullEnded(s))
    BY <1>1, PullsEnd
  <2>3. SrcKept(PullEnded(s), m, pull, h, both)
    BY <1>0, <1>1, <2>2, SizesSame, GoesOnwards, SrcStep
  <2> QED BY <1>2, <2>1, <2>3 DEF m
<1>5. ASSUME Teed!SourceMay PROVE Core(s, m, FALSE) /\ MayGive(s) /\ both = FALSE
  <2>1. MayGive(s)
    BY <1>5, SameOperators DEF Teed!SourceMay, s
  <2>2. both = FALSE
    BY <1>0, <1>1, <2>1 DEF MayGive, Core, Readers, EndsEmpty
  <2> QED BY <1>1, <2>1, <2>2
<1>6. CASE Teed!SourceGives
  <2>1. /\ t' = [t EXCEPT !.src = Enqueue(s, m + 1)] /\ taken' = m + 1 /\ m < MaxChunks /\ given' = TRUE
        /\ Teed!SourceMay
    <3>1. /\ t' = [t EXCEPT !.src = Teed!Enqueue(t.src, taken + 1)]
          /\ taken' = taken + 1 /\ taken < MaxChunks /\ given' = TRUE /\ Teed!SourceMay
      BY <1>6 DEF Teed!SourceGives
    <3>2. \A q, n : Teed!Enqueue(q, n) = Enqueue(q, n)
      BY SameOperators
    <3>3. Teed!Enqueue(t.src, taken + 1) = Enqueue(t.src, taken + 1)
      BY ONLY <3>2
    <3> QED BY ONLY <3>1, <3>3 DEF s, m
  <2>4. SrcKept(Enqueue(s, m + 1), m + 1, pull, h, both)
    BY <1>0, <1>5, <2>1, SrcGiven
  <2>5. taken' \in m..MaxChunks
    BY <1>0, <2>1, ReadableAssumption
  <2> QED BY <2>1, <2>4, <2>5
<1>7. CASE Teed!SourceEnds
  <2>1. /\ \/ t' = [t EXCEPT !.src = ControllerClose(s)]
           \/ t' = [t EXCEPT !.src = ControllerError(s)]
        /\ UNCHANGED taken /\ given' = TRUE /\ Teed!SourceMay
    BY <1>7, SameOperators DEF Teed!SourceEnds, s
  <2>2. SrcKept(ControllerClose(s), m, pull, h, both)
    <3>1. Core(ControllerClose(s), m, FALSE) /\ Follows(s, ControllerClose(s))
      BY <1>0, <1>5, <2>1, ClosesLater
    <3>2. Len(ControllerClose(s).told) = Len(s.told)
      BY <1>1, SizesSame DEF Sizes
    <3>3. ControllerClose(s).locked /\ ControllerClose(s).closing
      BY <1>0, <1>1, EndsLocked DEF SrcKept
    <3> QED BY <1>0, <1>5, <2>1, <3>1, <3>2, <3>3, SrcGoes
  <2>3. SrcKept(ControllerError(s), m, pull, h, both)
    <3>1. Core(ControllerError(s), m, both) /\ Follows(s, ControllerError(s))
      BY <1>0, <1>1, StreamFails
    <3>2. Len(ControllerError(s).told) = Len(s.told)
      BY <1>1, SizesSame DEF Sizes
    <3>3. /\ ControllerError(s).locked
          /\ ControllerError(s).state = "closed" /\ ~ControllerError(s).closing => both
      BY <1>0, <1>1, EndsLocked DEF SrcKept
    <3> QED BY <1>0, <3>1, <3>2, <3>3, SrcGoes
  <2> QED BY <1>2, <2>1, <2>2, <2>3 DEF m
<1> QED BY <1>3, <1>4, <1>6, <1>7 DEF Teed!SourceActs

\* A branch goes on, ...
LEMMA BranchGoes ==
  ASSUME NEW s, NEW g \in Nat, NEW gone \in BOOLEAN, NEW over, BranchKept(s, g, gone, over)
  PROVE  /\ BranchKept(Started(s), g, gone, over) /\ BranchKept(Read(s), g, gone, over)
         /\ \A z \in StreamRec : SameReads(s, z) =>
              BranchKept(z, g, gone, over) /\ BranchKept(CallPull(z), g, gone, over)
<1>1. Core(s, g, gone) /\ s.locked /\ s \in StreamRec
  BY DEF BranchKept, Core
<1>2. ASSUME NEW y, BranchKept(y, g, gone, over), NEW z, Core(z, g, gone), Onwards(y, z)
      PROVE  BranchKept(z, g, gone, over)
  BY <1>2 DEF BranchKept, Onwards
<1>3. BranchKept(Started(s), g, gone, over) /\ BranchKept(Read(s), g, gone, over)
  BY <1>1, <1>2, StreamStarts, ReadsAny, GoesOnwards
<1>4. ASSUME NEW z \in StreamRec, SameReads(s, z)
      PROVE  BranchKept(z, g, gone, over) /\ BranchKept(CallPull(z), g, gone, over)
  <2>1. Core(z, g, gone) /\ Onwards(s, z)
    BY <1>1, <1>4, SameCore DEF SameReads, Onwards
  <2>2. BranchKept(z, g, gone, over)
    BY <1>2, <2>1
  <2> QED BY <1>2, <1>4, <2>1, <2>2, Pulls, GoesOnwards
<1> QED BY <1>3, <1>4

\* ... as it is one of the two.
LEMMA BranchOnwards ==
  ASSUME NEW m, NEW h, NEW g \in Nat, NEW hb, NEW u, TeeKept(u, m, h, hb), NEW e \in {1, 2}, hb[e] = g
  PROVE  /\ BranchOf(u, e, u.br[e], g) /\ u.br[e] \in StreamRec
         /\ BranchOf(u, e, Started(u.br[e]), g) /\ BranchOf(u, e, Read(u.br[e]), g)
         /\ \A z \in StreamRec : SameReads(u.br[e], z) =>
              BranchOf(u, e, z, g) /\ BranchOf(u, e, CallPull(z), g)
<1> DEFINE gone == e \in u.canceled
           s == u.br[e]
<1>1. BranchKept(s, g, gone, u.closed) /\ gone \in BOOLEAN
  BY DEF TeeKept, BranchOf
<1>2. s \in StreamRec
  BY <1>1 DEF BranchKept, Core
<1> HIDE DEF gone, s
<1>3. /\ BranchKept(Started(s), g, gone, u.closed) /\ BranchKept(Read(s), g, gone, u.closed)
      /\ \A z \in StreamRec : SameReads(s, z) =>
           BranchKept(z, g, gone, u.closed) /\ BranchKept(CallPull(z), g, gone, u.closed)
  BY <1>1, BranchGoes
<1> QED BY <1>1, <1>2, <1>3 DEF BranchOf, gone, s

\* A branch is started, read, or asked again.
LEMMA BranchSteps ==
  ASSUME NEW h, TeeNow(h), NEW e \in {1, 2},
         Teed!BranchStarts(e) \/ Teed!BranchRead(e) \/ Teed!BranchPulled(e)
  PROVE  TeeNow(h)'
<1> DEFINE s == t.br[e]
           z == [s EXCEPT !.pulling = FALSE, !.again = FALSE]
           idle == Put(t, e, z)
<1>0. /\ taken \in Nat /\ h \in Nat /\ Even(h) \in Counts /\ Even(h)[e] = h
      /\ Counted(Even(h), e, h) = Even(h) /\ TeeKept(t, taken, h, Even(h))
  BY ReadableAssumption, EvenCounts DEF TeeNow
<1>1. UNCHANGED <<given, taken>>
  BY DEF Teed!BranchStarts, Teed!BranchRead, Teed!BranchPulled
<1> SUFFICES TeeKept(t', taken, h, Even(h))
  BY <1>1 DEF TeeNow
<1>2. /\ BranchOf(t, e, s, h) /\ s \in StreamRec
      /\ BranchOf(t, e, Started(s), h) /\ BranchOf(t, e, Read(s), h)
      /\ \A q \in StreamRec : SameReads(s, q) =>
           BranchOf(t, e, q, h) /\ BranchOf(t, e, CallPull(q), h)
  BY <1>0, BranchOnwards
<1>3. CASE Teed!BranchStarts(e)
  <2>1. t' = Teed!Branched(t, e, Started(s))
    BY <1>3, SameOperators DEF Teed!BranchStarts
  <2> QED BY <1>0, <1>2, <2>1, Branches
<1>4. CASE Teed!BranchRead(e)
  <2>1. t' = Teed!Branched(t, e, Read(s))
    BY <1>4, SameOperators DEF Teed!BranchRead
  <2> QED BY <1>0, <1>2, <2>1, Branches
<1>5. CASE Teed!BranchPulled(e)
  <2>1. t' = IF s.again THEN Teed!Branched(idle, e, CallPull(idle.br[e])) ELSE idle
    BY <1>5, SameOperators DEF Teed!BranchPulled, Put
  <2>2. z \in StreamRec /\ SameReads(s, z)
    BY <1>2 DEF StreamRec, SameReads
  <2>3. idle.br[e] = z
    <3>1. t \in TeeRec
      BY <1>0 DEF TeeKept
    <3>2. t.br \in [{1, 2} -> StreamRec] /\ idle.br = [t.br EXCEPT ![e] = z]
      BY <3>1 DEF TeeRec, Put
    <3> QED BY ONLY <3>2, e \in {1, 2}
  <2> HIDE DEF s, z
  <2>4. BranchOf(t, e, z, h)
    BY <1>2, <2>2
  <2>5. /\ TeeKept(idle, taken, h, Even(h))
        /\ idle.closed = t.closed /\ idle.canceled = t.canceled
    BY <1>0, <2>4, BranchPut
  <2> HIDE DEF idle
  <2>6. BranchOf(idle, e, CallPull(z), h)
    <3>1. BranchOf(t, e, CallPull(z), h)
      BY <1>2, <2>2
    <3> QED BY <2>5, <3>1 DEF BranchOf
  <2>7. TeeKept(Teed!Branched(idle, e, CallPull(z)), taken, h, Even(h))
    BY <1>0, <2>5, <2>6, Branches
  <2> QED BY <2>1, <2>3, <2>5, <2>7
<1> QED BY <1>3, <1>4, <1>5

\* A branch is cancelled, and the stream with the second of them.
LEMMA CancelSteps ==
  ASSUME NEW h, TeeNow(h), NEW e \in {1, 2}, Teed!BranchCancel(e)
  PROVE  TeeNow(h)'
<1> DEFINE s == t.br[e]
           m == taken
           both == t.canceled = {1, 2}
           all == t.canceled \cup {e}
           all2 == all = {1, 2}
           c == StreamCancel(s)
           b2 == [t.br EXCEPT ![e] = c]
           z == IF all = {1, 2} THEN StreamCancel(t.src) ELSE t.src
<1>0. /\ m \in Nat /\ h \in 0..m /\ h \in Nat /\ both \in BOOLEAN /\ t.pulling \in BOOLEAN
      /\ SrcKept(t.src, m, t.pulling, h, both) /\ t \in TeeRec /\ all2 \in BOOLEAN
      /\ \A y \in {1, 2} : BranchKept(t.br[y], h, y \in t.canceled, t.closed)
      /\ t.closed => ~t.pulling
  BY ReadableAssumption, EvenCounts DEF TeeNow, TeeKept, TeeRec, BranchOf
<1>1. /\ t.br \in [{1, 2} -> StreamRec] /\ t.src \in StreamRec /\ Core(t.src, m, both) /\ t.src.locked
  BY <1>0 DEF TeeRec, SrcKept, Core
<1>2. BranchKept(c, h, TRUE, t.closed) /\ c \in StreamRec
  <2> DEFINE gone == e \in t.canceled
  <2>1. Core(s, h, gone) /\ s.locked /\ s \in StreamRec /\ gone \in BOOLEAN
    BY <1>0 DEF BranchKept, Core
  <2>2. s.state = "readable"
    BY DEF Teed!BranchCancel
  <2> HIDE DEF gone, s
  <2>3. Core(StreamCancel(s), h, gone \/ s.state = "readable") /\ StreamCancel(s) \in StreamRec
    BY <1>0, <2>1, Cancels
  <2>4. (gone \/ s.state = "readable") = TRUE
    BY <2>2
  <2>5. StreamCancel(s).locked
    BY <2>1, EndsLocked
  <2> QED BY <2>3, <2>4, <2>5 DEF BranchKept
<1>3. SrcKept(z, m, t.pulling, h, all2)
  <2>1. CASE ~all2
    <3>1. z = t.src /\ all2 = both
      BY <1>0, <2>1 DEF TeeRec
    <3> QED BY <1>0, <3>1
  <2>2. CASE all2
    <3> DEFINE dr == both \/ t.src.state = "readable"
    <3>1. z = StreamCancel(t.src) /\ dr \in BOOLEAN /\ all2 = TRUE
      BY <2>2
    <3> HIDE DEF z
    <3>2. /\ Core(z, m, dr) /\ Follows(t.src, z) /\ z.state # "readable" /\ z \in StreamRec
      BY <1>0, <1>1, <3>1, Cancels
    <3> HIDE DEF dr, all2, both
    <3>3. Core(z, m, TRUE)
      BY <1>0, <3>1, <3>2, CoreGone
    <3>4. Len(z.told) = Len(t.src.told) /\ z.locked
      BY <1>1, <3>1, SizesSame, EndsLocked DEF Sizes
    <3> QED BY <1>0, <3>1, <3>2, <3>3, <3>4, SrcGoes
  <2> QED BY <2>1, <2>2
<1>4. /\ t' = [t EXCEPT !.br = b2, !.canceled = all, !.src = z]
      /\ UNCHANGED <<given, taken>>
  <2>1. /\ t' = [t EXCEPT !.br[e] = StreamCancel(@), !.canceled = all,
                         !.src = IF all = {1, 2} THEN StreamCancel(@) ELSE @]
        /\ UNCHANGED <<given, taken>>
    BY SameOperators DEF Teed!BranchCancel, Teed!Branch
  <2> QED BY <1>0, <2>1 DEF TeeRec
<1>5. b2 \in [{1, 2} -> StreamRec] /\ \A y \in {1, 2} : b2[y] = IF y = e THEN c ELSE t.br[y]
  BY <1>1, <1>2
<1>6. all \in SUBSET {1, 2} /\ e \in all /\ \A y \in {1, 2} : y # e => (y \in all) = (y \in t.canceled)
  BY <1>0 DEF TeeRec
<1>7. z \in StreamRec
  BY <1>3 DEF SrcKept, Core
<1> HIDE DEF b2, z, all2
<1>8. /\ t' \in TeeRec /\ t'.br = b2 /\ t'.canceled = all /\ t'.src = z
      /\ t'.pulling = t.pulling /\ t'.closed = t.closed
  BY <1>0, <1>4, <1>5, <1>6, <1>7 DEF TeeRec
<1>9. ASSUME NEW y \in {1, 2} PROVE BranchKept(b2[y], h, y \in all, t.closed)
  <2>1. CASE y = e
    <3>1. (y \in all) = TRUE /\ b2[y] = c
      BY <1>5, <1>6, <2>1
    <3> QED BY <1>2, <3>1
  <2>2. CASE y # e
    <3>1. (y \in all) = (y \in t.canceled) /\ b2[y] = t.br[y]
      BY <1>5, <1>6, <2>2
    <3> QED BY <1>0, <3>1
  <2> QED BY <2>1, <2>2
<1>10. TeeKept(t', m, h, Even(h))
  <2>1. \A y \in {1, 2} : BranchOf(t', y, t'.br[y], Even(h)[y])
    BY <1>0, <1>8, <1>9, EvenCounts DEF BranchOf
  <2> QED BY <1>0, <1>3, <1>8, <2>1 DEF TeeKept, all2
<1> QED BY <1>4, <1>10 DEF TeeNow

\* What the read had is heard, ...
LEMMA Unpulled ==
  ASSUME NEW m, NEW h, NEW hb, TeeKept(t, m, h, hb), t.pulling, NEW k \in 0..m,
         SrcKept(t.src, m, FALSE, k, t.canceled = {1, 2}),
         NEW u, u = [t EXCEPT !.pulling = FALSE, !.own = 0]
  PROVE  /\ TeeKept(u, m, k, hb) /\ ~u.closed /\ u \in TeeRec /\ u.br = t.br /\ u.src = t.src
         /\ u.canceled = t.canceled /\ u.pulling = FALSE
<1>1. t \in TeeRec /\ t.closed = FALSE
  BY DEF TeeKept, TeeRec
<1>2. /\ u \in TeeRec /\ u.br = t.br /\ u.src = t.src /\ u.pulling = FALSE /\ u.closed = t.closed
      /\ u.canceled = t.canceled
  <2>1. 0 \in 0..2
    OBVIOUS
  <2> QED BY ONLY <1>1, <2>1, u = [t EXCEPT !.pulling = FALSE, !.own = 0] DEF TeeRec
<1>3. TeeKept(u, m, k, hb)
  BY <1>2 DEF TeeKept, BranchOf
<1> QED BY <1>1, <1>2, <1>3

\* ... a chunk, which both are handed, ...
LEMMA BothHanded ==
  ASSUME NEW m \in Nat, NEW h \in Nat, NEW u, TeeKept(u, m, h + 1, Even(h)), ~u.closed
  PROVE  TeeKept(Teed!Hand(Teed!Hand(u, 1, h + 1), 2, h + 1), m, h + 1, Even(h + 1))
<1> DEFINE k == h + 1
           hb == Even(h)
           h1 == Counted(hb, 1, k)
           one == Teed!Hand(u, 1, k)
<1>1. k \in Nat /\ k # 0 /\ h = k - 1
  OBVIOUS
<1>2. hb \in Counts /\ hb[1] = k - 1
  BY EvenCounts, <1>1
<1>3. h1 \in Counts /\ h1[2] = k - 1 /\ Counted(h1, 2, k) = Even(k)
  BY <1>1 DEF Counts, Counted, Even
<1>4. TeeKept(u, m, k, hb)
  OBVIOUS
<1> HIDE DEF k, hb, h1
<1>5. TeeKept(one, m, k, h1) /\ one.closed = u.closed
  BY <1>1, <1>2, <1>4, Hands DEF h1
<1> HIDE DEF one
<1>6. TeeKept(Teed!Hand(one, 2, k), m, k, Counted(h1, 2, k))
  BY <1>1, <1>3, <1>5, Hands
<1> QED BY <1>3, <1>6 DEF k, one

\* ... or the end, which both are told.
LEMMA EndPut ==
  ASSUME NEW u \in TeeRec, NEW e \in {1, 2}, NEW z, e \notin u.canceled => z \in StreamRec
  PROVE  LET v == Teed!End(u, e, z) IN
         /\ v \in TeeRec /\ v.src = u.src /\ v.pulling = u.pulling /\ v.closed = u.closed
         /\ v.canceled = u.canceled
         /\ \A y \in {1, 2} : v.br[y] = IF y = e /\ e \notin u.canceled THEN z ELSE u.br[y]
<1>1. CASE e \in u.canceled
  BY <1>1 DEF Teed!End, Teed!Uncanceled
<1>2. CASE e \notin u.canceled
  <2> DEFINE b2 == [u.br EXCEPT ![e] = z]
             v == [u EXCEPT !.br = b2]
  <2>0. u.br \in [{1, 2} -> StreamRec]
    BY DEF TeeRec
  <2>1. Teed!End(u, e, z) = v
    <3>1. Teed!End(u, e, z) = [u EXCEPT !.br[e] = z]
      BY <1>2 DEF Teed!End, Teed!Uncanceled
    <3> QED BY <3>1 DEF TeeRec
  <2>2. b2 \in [{1, 2} -> StreamRec] /\ \A y \in {1, 2} : b2[y] = IF y = e THEN z ELSE u.br[y]
    BY <1>2, <2>0
  <2> HIDE DEF b2
  <2>3. /\ v \in TeeRec /\ v.src = u.src /\ v.pulling = u.pulling /\ v.closed = u.closed
        /\ v.canceled = u.canceled /\ v.br = b2
    BY <2>2 DEF TeeRec
  <2> QED BY <1>2, <2>1, <2>2, <2>3
<1> QED BY <1>1, <1>2

\* How a branch ends with the stream.
EndsOf(s, fails) == IF fails THEN ControllerError(s) ELSE ControllerClose(s)
BothEnd(u, fails) ==
  Teed!End(Teed!End([u EXCEPT !.closed = TRUE], 1, EndsOf(u.br[1], fails)), 2, EndsOf(u.br[2], fails))

LEMMA BranchEnds ==
  ASSUME NEW s, NEW g \in Nat, BranchKept(s, g, FALSE, FALSE), NEW fails \in BOOLEAN
  PROVE  BranchKept(EndsOf(s, fails), g, FALSE, TRUE)
<1>1. Core(s, g, FALSE) /\ s.locked /\ MayGive(s) /\ s \in StreamRec
  BY Zenon DEF BranchKept, MayGive, Core
<1>2. Core(EndsOf(s, fails), g, FALSE)
  BY <1>1, ClosesLater, StreamFails DEF EndsOf
<1>3. EndsOf(s, fails).locked
  BY <1>1, EndsLocked DEF EndsOf
<1> QED BY <1>2, <1>3 DEF BranchKept

LEMMA EndsIn ==
  ASSUME NEW u \in TeeRec, NEW fails \in BOOLEAN, NEW h \in Nat,
         \A y \in {1, 2} : BranchKept(u.br[y], h, y \in u.canceled, FALSE)
  PROVE  \A y \in {1, 2} : y \notin u.canceled => EndsOf(u.br[y], fails) \in StreamRec
<1> SUFFICES ASSUME NEW y \in {1, 2}, y \notin u.canceled PROVE EndsOf(u.br[y], fails) \in StreamRec
  OBVIOUS
<1>1. (y \in u.canceled) = FALSE
  OBVIOUS
<1>2. BranchKept(u.br[y], h, FALSE, FALSE)
  BY <1>1
<1> QED BY <1>2, BranchEnds DEF BranchKept, Core

LEMMA BothTold ==
  ASSUME NEW m, NEW h \in Nat, NEW u, TeeKept(u, m, h, Even(h)), ~u.closed, u.pulling = FALSE,
         NEW fails \in BOOLEAN
  PROVE  TeeKept(BothEnd(u, fails), m, h, Even(h))
<1> DEFINE over == [u EXCEPT !.closed = TRUE]
           z1 == EndsOf(u.br[1], fails)
           z2 == EndsOf(u.br[2], fails)
           one == Teed!End(over, 1, z1)
           v == Teed!End(one, 2, z2)
<1>1. /\ u \in TeeRec /\ u.closed = FALSE /\ \A y \in {1, 2} : BranchKept(u.br[y], h, y \in u.canceled, FALSE)
  <2>1. u \in TeeRec /\ u.closed = FALSE
    BY DEF TeeKept, TeeRec
  <2> QED BY <2>1, EvenCounts DEF TeeKept, BranchOf
<1>2. /\ over \in TeeRec /\ over.src = u.src /\ over.pulling = FALSE /\ over.closed = TRUE
      /\ over.canceled = u.canceled /\ over.br = u.br
  BY <1>1 DEF TeeRec
<1>3. \A y \in {1, 2} : y \notin u.canceled => EndsOf(u.br[y], fails) \in StreamRec
  BY <1>1, EndsIn
<1>4. /\ one \in TeeRec /\ one.src = u.src /\ one.pulling = FALSE /\ one.closed = TRUE
      /\ one.canceled = u.canceled
      /\ \A y \in {1, 2} : one.br[y] = IF y = 1 /\ 1 \notin u.canceled THEN z1 ELSE u.br[y]
  <2> HIDE DEF over, z1
  <2>1. 1 \notin u.canceled => z1 \in StreamRec
    BY <1>3 DEF z1
  <2> QED BY <1>2, <2>1, EndPut
<1>5. /\ v \in TeeRec /\ v.src = u.src /\ v.pulling = FALSE /\ v.closed = TRUE
      /\ v.canceled = u.canceled
      /\ \A y \in {1, 2} : v.br[y] = IF y = 2 /\ 2 \notin u.canceled THEN z2 ELSE one.br[y]
  <2> HIDE DEF one, z2
  <2>1. 2 \notin u.canceled => z2 \in StreamRec
    BY <1>3 DEF z2
  <2> QED BY <1>4, <2>1, EndPut
<1>6. \A y \in {1, 2} : v.br[y] = IF y \in u.canceled THEN u.br[y] ELSE EndsOf(u.br[y], fails)
  <2> HIDE DEF one, v
  <2> QED BY <1>4, <1>5
<1> HIDE DEF v
<1>7. ASSUME NEW y \in {1, 2} PROVE BranchKept(v.br[y], h, y \in u.canceled, TRUE)
  <2>1. CASE y \in u.canceled
    <3>1. (y \in u.canceled) = TRUE /\ v.br[y] = u.br[y]
      BY <1>6, <2>1
    <3>2. BranchKept(u.br[y], h, TRUE, FALSE)
      BY <1>1, <3>1
    <3>3. BranchKept(u.br[y], h, TRUE, TRUE)
      BY <3>2 DEF BranchKept
    <3> QED BY <3>1, <3>3
  <2>2. CASE y \notin u.canceled
    <3>1. (y \in u.canceled) = FALSE /\ v.br[y] = EndsOf(u.br[y], fails)
      BY <1>6, <2>2
    <3>2. BranchKept(u.br[y], h, FALSE, FALSE)
      BY <1>1, <3>1
    <3> QED BY <3>1, <3>2, BranchEnds
  <2> QED BY <2>1, <2>2
<1>8. TeeKept(v, m, h, Even(h))
  <2>1. \A y \in {1, 2} : BranchOf(v, y, v.br[y], Even(h)[y])
    BY <1>5, <1>7, EvenCounts DEF BranchOf
  <2> QED BY <1>5, <2>1 DEF TeeKept
<1> QED BY <1>8 DEF v, BothEnd

LEMMA HearSteps ==
  ASSUME NEW h, TeeNow(h), Teed!TeeHears
  PROVE  TeeNow(h)' \/ TeeNow(h + 1)'
<1> DEFINE m == taken
           both == t.canceled = {1, 2}
           a == t.src.told[Len(t.src.told)]
           u == [t EXCEPT !.pulling = FALSE, !.own = 0]
<1>0. /\ m \in Nat /\ h \in 0..m /\ h \in Nat /\ t.pulling /\ TeeKept(t, m, h, Even(h))
      /\ SrcKept(t.src, m, TRUE, h, both) /\ a.is # "waiting" /\ UNCHANGED <<given, taken>>
  <2>1. t.pulling /\ a.is # "waiting" /\ UNCHANGED <<given, taken>>
    BY DEF Teed!TeeHears, Teed!Heard
  <2>2. /\ m \in Nat /\ h \in 0..m /\ h \in Nat /\ TeeKept(t, m, h, Even(h))
        /\ SrcKept(t.src, m, t.pulling, h, both) /\ t \in TeeRec
    BY ReadableAssumption DEF TeeNow, TeeKept
  <2>3. t.pulling = TRUE
    BY <2>1, <2>2 DEF TeeRec
  <2> QED BY <2>1, <2>2, <2>3
<1> SUFFICES TeeKept(t', m, h, Even(h)) \/ (h + 1 \in Nat /\ TeeKept(t', m, h + 1, Even(h + 1)))
  BY <1>0 DEF TeeNow
<1>1. \/ a.is = "chunk" /\ t' = Teed!Hand(Teed!Hand(u, 1, a.chunk), 2, a.chunk)
      \/ a.is \in {"done", "failed", "released"} /\ \E fails \in BOOLEAN : t' = BothEnd(u, fails)
  <2> DEFINE over == [u EXCEPT !.closed = TRUE]
  <2>1. \/ a.is = "chunk" /\ t' = Teed!Hand(Teed!Hand(u, 1, a.chunk), 2, a.chunk)
        \/ a.is = "done" /\ t' = Teed!End(Teed!End(over, 1, Teed!ControllerClose(u.br[1])),
                                         2, Teed!ControllerClose(u.br[2]))
        \/ a.is \in {"failed", "released"}
           /\ t' = Teed!End(Teed!End(over, 1, Teed!ControllerError(u.br[1])),
                            2, Teed!ControllerError(u.br[2]))
    BY DEF Teed!TeeHears, Teed!Heard
  <2> HIDE DEF u, a
  <2>2. \A s : Teed!ControllerClose(s) = EndsOf(s, FALSE) /\ Teed!ControllerError(s) = EndsOf(s, TRUE)
    BY SameOperators DEF EndsOf
  <2>3. CASE a.is = "chunk"
    BY <2>1, <2>3
  <2>4. CASE a.is = "done"
    <3>1. t' = BothEnd(u, FALSE)
      BY <2>1, <2>2, <2>4 DEF BothEnd
    <3> QED BY <2>4, <3>1
  <2>5. CASE a.is \in {"failed", "released"}
    <3>1. t' = BothEnd(u, TRUE)
      BY <2>1, <2>2, <2>5 DEF BothEnd
    <3> QED BY <2>5, <3>1
  <2> QED BY <2>1, <2>3, <2>4, <2>5
<1> HIDE DEF u
<1>2. CASE a.is = "chunk"
  <2>1. a.chunk = h + 1 /\ h + 1 \in 0..m /\ SrcKept(t.src, m, FALSE, h + 1, both)
    BY <1>0, <1>2, SrcHears
  <2>2. TeeKept(u, m, h + 1, Even(h)) /\ ~u.closed
    BY <1>0, <2>1, Unpulled DEF u
  <2>3. TeeKept(Teed!Hand(Teed!Hand(u, 1, h + 1), 2, h + 1), m, h + 1, Even(h + 1))
    BY <1>0, <2>2, BothHanded
  <2> QED BY <1>0, <1>1, <1>2, <2>1, <2>3
<1>3. CASE a.is \in {"done", "failed", "released"}
  <2>1. SrcKept(t.src, m, FALSE, h, both)
    BY <1>0, <1>3, SrcHearsNone
  <2>2. TeeKept(u, m, h, Even(h)) /\ ~u.closed /\ u.pulling = FALSE
    BY <1>0, <2>1, Unpulled DEF u
  <2>3. \A fails \in BOOLEAN : TeeKept(BothEnd(u, fails), m, h, Even(h))
    BY <1>0, <2>2, BothTold
  <2> QED BY <1>1, <1>3, <2>3
<1> QED BY <1>1, <1>2, <1>3

LEMMA FreshCore ==
  ASSUME NEW hwm \in Nat
  PROVE  /\ Core(Attach(Fresh(hwm)), 0, FALSE) /\ Attach(Fresh(hwm)).locked
         /\ LET s == Attach(Fresh(hwm)) IN
            s.state = "readable" /\ ~s.closing /\ s.told = <<>> /\ Len(s.told) = 0
<1> DEFINE f == Fresh(hwm)
<1>1. /\ f \in StreamRec /\ f.told = <<>> /\ f.waits = <<>> /\ f.queue = <<>> /\ f.state = "readable"
      /\ ~f.closing /\ Len(f.told) = 0
  BY DEF Fresh, StreamRec
<1>2. Passed(<<>>, <<>>, 0, 0, TRUE) /\ ReadersInLine(<<>>, <<>>) /\ 0 \in 0..0
  BY DEF Passed, ReadersInLine
<1>3. InTurn(<<>>, <<>>, 0, TRUE)
  BY <1>2 DEF InTurn
<1> HIDE DEF f
<1>4. EndsEmpty(f.state, f.locked, f.waits, f.queue, f.closing, FALSE)
  BY <1>1 DEF EndsEmpty
<1>5. (f.state # "errored" /\ ~FALSE) = TRUE
  BY <1>1
<1>6. Core(f, 0, FALSE)
  BY <1>1, <1>2, <1>3, <1>4, <1>5 DEF Core, Readers
<1>7. Core(Attach(f), 0, FALSE)
  BY <1>1, <1>6, Attaches
<1>8. LET s == Attach(f) IN /\ s.locked /\ s.state = "readable" /\ ~s.closing /\ s.told = <<>>
                            /\ Len(s.told) = 0
  BY <1>1 DEF Attach, StreamRec
<1> QED BY <1>7, <1>8 DEF f

LEMMA TeeStarts == ASSUME Teed!Init PROVE TeeNow(0)
<1>1. 0 \in Nat /\ 1 \in Nat /\ 0 \in 0..0 /\ 0 \in 0..MaxChunks
  BY ReadableAssumption
<1>2. PICK hwm \in 0..1 :
        t = [src |-> Teed!Attach(Teed!Fresh(hwm)), br |-> [y \in {1, 2} |-> Teed!Attach(Teed!Fresh(1))],
             pulling |-> FALSE, closed |-> FALSE, canceled |-> {}, own |-> 0]
  BY DEF Teed!Init, Teed!Branch
<1> DEFINE s == Attach(Fresh(hwm))
           z == Attach(Fresh(1))
<1>3. Teed!Attach(Teed!Fresh(hwm)) = s /\ Teed!Attach(Teed!Fresh(1)) = z /\ hwm \in Nat
  BY SameOperators
<1>4. /\ Core(s, 0, FALSE) /\ s.locked /\ s.state = "readable" /\ s.told = <<>> /\ Len(s.told) = 0
      /\ Core(z, 0, FALSE) /\ z.locked /\ z.state = "readable" /\ ~z.closing
  BY <1>1, <1>3, FreshCore
<1> HIDE DEF s, z
<1>5. t = [src |-> s, br |-> [y \in {1, 2} |-> z],
           pulling |-> FALSE, closed |-> FALSE, canceled |-> {}, own |-> 0]
  BY <1>2, <1>3
<1>6. s \in StreamRec /\ z \in StreamRec
  BY <1>4 DEF Core
<1> DEFINE b2 == [y \in {1, 2} |-> z]
<1>7. b2 \in [{1, 2} -> StreamRec] /\ \A y \in {1, 2} : b2[y] = z
  BY <1>6
<1> HIDE DEF b2
<1>8. t = [src |-> s, br |-> b2, pulling |-> FALSE, closed |-> FALSE, canceled |-> {}, own |-> 0]
  BY <1>5 DEF b2
<1>9. /\ t \in TeeRec /\ t.src = s /\ t.br = b2 /\ t.pulling = FALSE /\ t.closed = FALSE
      /\ t.canceled = {}
  BY <1>6, <1>7, <1>8 DEF TeeRec
<1>10. HeardReads(s, FALSE) = 0 /\ HeardUpTo(s.told, 0, 0)
  BY <1>4 DEF HeardReads, HeardUpTo
<1>11. SrcKept(t.src, 0, t.pulling, 0, FALSE)
  BY <1>4, <1>9, <1>10 DEF SrcKept
<1>12. (t.canceled = {1, 2}) = FALSE /\ \A y \in {1, 2} : (y \in t.canceled) = FALSE
  BY <1>9
<1>13. BranchKept(z, 0, FALSE, FALSE)
  BY <1>4 DEF BranchKept
<1>14. \A y \in {1, 2} : BranchOf(t, y, t.br[y], Even(0)[y])
  BY <1>1, <1>7, <1>9, <1>12, <1>13, EvenCounts DEF BranchOf
<1>15. TeeKept(t, 0, 0, Even(0))
  BY <1>1, <1>9, <1>11, <1>12, <1>14 DEF TeeKept
<1> QED BY <1>1, <1>15 DEF TeeNow, Teed!Init

LEMMA TeeGoes ==
  ASSUME NEW h, TeeNow(h), [Teed!Next]_<<t, given, taken>> PROVE TeeNow(h)' \/ TeeNow(h + 1)'
<1>1. CASE UNCHANGED <<t, given, taken>>
  BY <1>1 DEF TeeNow
<1>2. CASE Teed!Next
  BY <1>2, SourceSteps, BranchSteps, CancelSteps, HearSteps DEF Teed!Next, Teed!TeeActs, Teed!Branch
<1> QED BY <1>1, <1>2

\* What both have is what was heard.
Late(s, pull) ==
  IF pull /\ s.told[Len(s.told)].is = "chunk" THEN {s.told[Len(s.told)].chunk} ELSE {}

LEMMA HeardAll ==
  ASSUME NEW s, NEW m \in Nat, NEW pull \in BOOLEAN, NEW h \in 0..m, NEW both, SrcKept(s, m, pull, h, both)
  PROVE  Teed!ToldOf(s) \ Late(s, pull) = 1..h
<1>1. /\ s \in StreamRec /\ Len(s.told) \in Nat /\ DOMAIN s.told = 1..Len(s.told) /\ h \in Nat
  BY FieldTypes, LenProperties DEF SrcKept, Core
<1>2. Teed!ToldOf(s) = {s.told[i].chunk : i \in {j \in 1..Len(s.told) : s.told[j].is = "chunk"}}
  BY <1>1 DEF Teed!ToldOf, Teed!ChunksTold, Teed!Reads
<1> DEFINE last == s.told[Len(s.told)]
<1>3. ASSUME NEW k, HeardUpTo(s.told, Len(s.told), k) PROVE Teed!ToldOf(s) = 1..k
  BY <1>2, <1>3 DEF HeardUpTo
<1>4. CASE ~pull
  <2>1. pull = FALSE
    BY <1>4
  <2>2. HeardUpTo(s.told, Len(s.told), h)
    BY <2>1 DEF SrcKept, HeardReads
  <2> QED BY <1>3, <2>1, <2>2 DEF Late
<1>5. CASE pull
  <2>0. pull = TRUE /\ SrcKept(s, m, TRUE, h, both)
    <3>1. pull = TRUE
      BY <1>5
    <3> QED BY <3>1
  <2>1. CASE last.is = "chunk"
    <3>1. last.chunk = h + 1 /\ SrcKept(s, m, FALSE, h + 1, both)
      BY <2>0, <2>1, SrcHears
    <3>2. HeardUpTo(s.told, Len(s.told), h + 1)
      BY <3>1 DEF SrcKept, HeardReads
    <3>3. Teed!ToldOf(s) = 1..(h + 1)
      BY <1>3, <3>2
    <3>4. (1..(h + 1)) \ {h + 1} = 1..h
      BY <1>1
    <3> QED BY <2>0, <2>1, <3>1, <3>3, <3>4 DEF Late
  <2>2. CASE last.is # "chunk"
    <3>1. ASSUME NEW i \in 1..Len(s.told), s.told[i].is = "chunk" PROVE i \in 1..Len(s.told)-1
      BY <1>1, <2>2, <3>1
    <3>2. HeardUpTo(s.told, Len(s.told) - 1, h)
      BY <2>0 DEF SrcKept, HeardReads
    <3>3. \A i \in 1..Len(s.told)-1 : i \in 1..Len(s.told)
      BY <1>1
    <3>4. Teed!ToldOf(s) = 1..h
      <4>1. \A c \in Teed!ToldOf(s) : c \in 1..h
        BY <1>2, <3>1, <3>2 DEF HeardUpTo
      <4>2. \A c \in 1..h : c \in Teed!ToldOf(s)
        BY <1>2, <3>2, <3>3 DEF HeardUpTo
      <4> QED BY <4>1, <4>2
    <3> QED BY <2>0, <2>2, <3>4 DEF Late
  <2> QED BY <2>1, <2>2
<1> QED BY <1>4, <1>5

LEMMA TeeServes == ASSUME NEW h, TeeNow(h) PROVE Teed!BranchesAgree /\ Teed!CancelTogether
<1> DEFINE both == t.canceled = {1, 2}
<1>0. /\ taken \in Nat /\ h \in 0..taken /\ h \in Nat /\ t \in TeeRec /\ t.pulling \in BOOLEAN
      /\ SrcKept(t.src, taken, t.pulling, h, both)
      /\ \A y \in {1, 2} : BranchKept(t.br[y], h, y \in t.canceled, t.closed)
  BY ReadableAssumption, EvenCounts DEF TeeNow, TeeKept, TeeRec, BranchOf
<1>1. Teed!CancelTogether
  <2>1. EndsEmpty(t.src.state, t.src.locked, t.src.waits, t.src.queue, t.src.closing, both)
        /\ (t.src.state = "closed" /\ ~t.src.closing => both)
    BY <1>0 DEF SrcKept, Core, Readers
  <2> QED BY <2>1 DEF EndsEmpty, Teed!CancelTogether, Teed!Branch
<1>2. Teed!BranchesAgree
  <2> DEFINE late == IF t.pulling /\ Teed!Heard.is = "chunk" THEN {Teed!Heard.chunk} ELSE {}
             had == Teed!ToldOf(t.src) \ late
  <2>1. had = 1..h
    <3>1. Teed!ToldOf(t.src) \ Late(t.src, t.pulling) = 1..h
      BY <1>0, HeardAll
    <3> QED BY <3>1 DEF Late, Teed!Heard
  <2> HIDE DEF had
  <2>2. ASSUME NEW y \in {1, 2}, y \notin t.canceled, t.br[y].state # "errored"
        PROVE  \E n \in 0..taken :
                 /\ Teed!ToldOf(t.br[y]) = 1..n
                 /\ \A i, j \in Teed!ChunksTold(t.br[y]) :
                      i < j => t.br[y].told[i].chunk < t.br[y].told[j].chunk
                 /\ \A k \in DOMAIN t.br[y].queue : t.br[y].queue[k] = n + k
                 /\ had = 1..(n + Len(t.br[y].queue))
    <3> DEFINE s == t.br[y]
    <3>1. (y \in t.canceled) = FALSE /\ s.state # "errored"
      BY <2>2
    <3>2. BranchKept(s, h, FALSE, t.closed)
      BY <1>0, <3>1
    <3> HIDE DEF s
    <3>3. s \in StreamRec /\ InTurn(s.told, s.queue, h, s.state # "errored" /\ ~FALSE)
      BY <3>2 DEF BranchKept, Core, Readers
    <3>4. (s.state # "errored" /\ ~FALSE) = TRUE
      BY <3>1 DEF s
    <3>5. PICK n \in 0..h : Passed(s.told, s.queue, n, h, TRUE)
      BY <3>3, <3>4 DEF InTurn
    <3>6. DOMAIN s.told = 1..Len(s.told) /\ DOMAIN s.queue = 1..Len(s.queue)
      BY <3>3, FieldTypes, LenProperties
    <3>7. Teed!ChunksTold(s) = {j \in 1..Len(s.told) : s.told[j].is = "chunk"}
      BY <3>6 DEF Teed!ChunksTold, Teed!Reads
    <3>8. Teed!ToldOf(s) = 1..n
      <4>1. \A i \in Teed!ChunksTold(s) : s.told[i].chunk \in 1..n
        BY <3>5, <3>7 DEF Passed
      <4>2. \A c \in 1..n : \E i \in Teed!ChunksTold(s) : s.told[i].chunk = c
        BY <3>5, <3>7 DEF Passed
      <4> QED BY <4>1, <4>2 DEF Teed!ToldOf
    <3>9. \A i, j \in Teed!ChunksTold(s) : i < j => s.told[i].chunk < s.told[j].chunk
      BY <3>5, <3>7 DEF Passed
    <3>10. (\A k \in DOMAIN s.queue : s.queue[k] = n + k) /\ n + Len(s.queue) = h
      BY <3>5, <3>6 DEF Passed
    <3>11. n \in 0..taken /\ had = 1..(n + Len(s.queue))
      BY <1>0, <2>1, <3>10
    <3> QED BY <3>8, <3>9, <3>10, <3>11 DEF s
  <2> QED BY <2>2 DEF Teed!BranchesAgree, Teed!Branch, had
<1> QED BY <1>1, <1>2

-----------------------------------------------------------------------------
(* The uses of MCStreams.                                                  *)

WriterKept == ByWriter => Written!WriterInv

LEMMA WriterKeptInit == ASSUME Starts PROVE WriterKept
<1>1. ByWriter => Written!Init
  BY DEF Starts, ByReader, ByBytes, ByTee, ByWriter, ByPipe, ByTransform
<1>2. MaxHWM \in Nat
  BY ReadableAssumption
<1> QED BY <1>1, <1>2, Written!WriterInit DEF WriterKept

LEMMA WriterKeptNext == ASSUME WriterKept, [Goes]_allVars PROVE WriterKept'
<1> SUFFICES ASSUME ByWriter, ByWriter' PROVE Written!WriterInv'
  BY DEF WriterKept, Goes, allVars, ByWriter
<1>1. Written!WriterInv
  BY DEF WriterKept
<1>2. [Written!Next]_<<w, wrote>>
  BY DEF Goes, allVars, others, ByReader, ByBytes, ByTee, ByWriter, ByPipe, ByTransform
<1> QED BY <1>1, <1>2, Written!WriterNext DEF Written!vars

\* SinkServed, for any mark and any number of calls.
THEOREM SinkStaysServed == AllSpec => []SinkServed
<1>1. WriterKept => SinkServed
  BY Written!WriterInvIsServed DEF WriterKept, SinkServed
<1> QED BY <1>1, WriterKeptInit, WriterKeptNext, PTL DEF AllSpec

\* Of a teed stream, both branches have been handed what was heard.
TeeStaysKept == ByTee => \E h \in Nat : TeeNow(h)

LEMMA TeeKeptInit == ASSUME Starts PROVE TeeStaysKept
<1>1. ByTee => Teed!Init
  BY DEF Starts, ByReader, ByBytes, ByTee, ByWriter, ByPipe, ByTransform
<1> QED BY <1>1, TeeStarts DEF TeeStaysKept

LEMMA TeeKeptNext == ASSUME TeeStaysKept, [Goes]_allVars PROVE TeeStaysKept'
<1> SUFFICES ASSUME ByTee, ByTee' PROVE \E h \in Nat : TeeNow(h)'
  BY DEF TeeStaysKept, Goes, allVars, ByTee
<1>1. PICK h \in Nat : TeeNow(h)
  BY DEF TeeStaysKept
<1>2. [Teed!Next]_<<t, given, taken>>
  BY DEF Goes, allVars, others, ByReader, ByBytes, ByTee, ByWriter, ByPipe, ByTransform
<1>3. TeeNow(h)' \/ TeeNow(h + 1)'
  BY <1>1, <1>2, TeeGoes
<1> QED BY <1>3

\* BranchesServed: both branches have what was heard of a teed stream, and it is
\* cancelled when both of them are.
THEOREM BranchesStayServed == AllSpec => []BranchesServed
<1>1. TeeStaysKept => BranchesServed
  BY TeeServes DEF TeeStaysKept, BranchesServed
<1> QED BY <1>1, TeeKeptInit, TeeKeptNext, PTL DEF AllSpec

\* In the other uses the readable stream stays as it began.
LEMMA ReadsInit == Starts => Init
<1>1. 0 \in 0..MaxHWM
  BY ReadableAssumption
<1>2. Unread => Init
  BY <1>1 DEF Unread, Init
<1> QED BY <1>2 DEF Starts

LEMMA ReadsNext == [Goes]_allVars => [Next]_vars
  BY DEF Goes, allVars

\* ReaderServed, for any mark and any number of chunks and reads.
THEOREM ReaderStaysServed == AllSpec => []ReaderServed
  BY ReadsInit, ReadsNext, RInvInit, RInvNext, InvServes, PTL DEF AllSpec

\* What has ended stays so: the invariant of each use says the step is good.
PipeStaysKept == ByPipe => Piped!PipeInv

LEMMA PipeKeptInit == ASSUME Starts PROVE PipeStaysKept
<1>1. ByPipe => Piped!Init
  BY DEF Starts, ByReader, ByBytes, ByTee, ByWriter, ByPipe, ByTransform
<1>2. Piped!Chunks0
  BY DEF Piped!Chunks0
<1> QED BY <1>1, <1>2, Piped!PipeInit DEF PipeStaysKept

\* A step of the pipe's use is one of the pipe.
LEMMA PipeGoes == ASSUME ByPipe, [Goes]_allVars PROVE [Piped!Next]_<<src, w, p, env>>
BY DEF Goes, allVars, others, ByReader, ByBytes, ByTee, ByWriter, ByPipe, ByTransform

LEMMA PipeKeptNext == ASSUME PipeStaysKept, [Goes]_allVars PROVE PipeStaysKept'
<1> SUFFICES ASSUME ByPipe, ByPipe' PROVE Piped!PipeInv'
  BY DEF PipeStaysKept, Goes, allVars, ByPipe
<1>1. Piped!PipeInv /\ Piped!Chunks0
  BY DEF PipeStaysKept, Piped!Chunks0
<1>2. [Piped!Next]_<<src, w, p, env>>
  BY PipeGoes
<1> QED BY <1>1, <1>2, Piped!PipeKept DEF Piped!vars

LEMMA StepEnds ==
  ASSUME WriterKept, PipeStaysKept, [Goes]_allVars
  PROVE  /\ ByWriter => Written!FailedIsLeft
         /\ ByPipe => Piped!BothAreTold
<1>1. ASSUME ByWriter PROVE Written!FailedIsLeft
  <2>1. [Written!Next]_<<w, wrote>>
    BY <1>1 DEF Goes, allVars, others, ByReader, ByBytes, ByTee, ByWriter, ByPipe, ByTransform
  <2>2. ASSUME w.state = "errored" PROVE w'.taken = w.taken /\ w'.over = w.over
    <3>1. CASE Written!Next
      BY <1>1, <2>2, <3>1, Written!FailedLeaves DEF WriterKept, Written!Left
    <3> QED BY <2>1, <3>1
  <2> QED BY <2>2 DEF Written!FailedIsLeft
<1>2. ASSUME ByPipe PROVE Piped!BothAreTold
  BY <1>2, PipeGoes, Piped!StepTells DEF PipeStaysKept, Piped!vars
<1> QED BY <1>1, <1>2

\* EndsAreKept: what has ended stays ended, what has failed begins nothing on its
\* sink, and a pipe that fails leaves neither end waiting.
THEOREM EndsStay == AllSpec => EndsAreKept
<1> DEFINE Kept == RInv /\ WriterKept /\ PipeStaysKept
           Tells == /\ ByWriter => Written!FailedIsLeft
                    /\ ByPipe => Piped!BothAreTold
<1>1. Starts => Kept
  BY ReadsInit, RInvInit, WriterKeptInit, PipeKeptInit
<1>2. Kept /\ [Goes]_allVars => Kept'
  BY ReadsNext, RInvNext, WriterKeptNext, PipeKeptNext
<1>3. Kept /\ [Goes]_allVars => [Settles]_vars
  BY ReadsNext, StepSettles
<1>4. Kept /\ [Goes]_allVars => [Tells]_allVars
  BY StepEnds
<1> HIDE DEF Kept, Tells
<1>5. AllSpec => [][Settles]_vars /\ [][Tells]_allVars
  BY <1>1, <1>2, <1>3, <1>4, PTL DEF AllSpec
<1> QED BY <1>5, PTL DEF EndsAreKept, EndedStays, Settles, Tells
=============================================================================
