----------------------------- MODULE Scheduler ------------------------------
(***************************************************************************)
(* The framebuffer frontend's scheduler: a binary heap of callbacks by due *)
(* time, and of two due together the one asked for first; a hash table on  *)
(* callback and context, so that each pair is scheduled at most once; and  *)
(* rounds that stop after a time.  It implements Agenda.                   *)
(***************************************************************************)
EXTENDS Integers, FiniteSetsExt, SequencesExt

CONSTANTS
  Pair,       \* callbacks with their contexts
  HashOf,     \* their hashes, before the table's size is applied
  Delay,      \* the delays asked for, in milliseconds
  PerMs,      \* units of the clock in a millisecond
  RoundTime,  \* SCHED_ROUND_US
  FirstSize,  \* what the heap and the hash table first make room for
  NoNode,
  MaxClock, MaxSeq   \* bounds: the clock, and how often is asked

ASSUME SchedulerAssumption ==
  /\ IsFiniteSet(Pair) /\ NoNode \notin Pair \cup 1..Cardinality(Pair) + 2
  /\ HashOf \in [Pair -> Nat] /\ Delay \subseteq Nat
  /\ {PerMs, RoundTime, FirstSize} \subseteq Nat \ {0}

VARIABLES
  node,       \* struct nscallback: what, due, seq
  slot,       \* the nodes' places in the heap
  heap,       \* [0 .. heap_n - 1 -> nodes]
  room,       \* heap_alloc
  bucket,     \* the hash table: the nodes of each chain
  nextSeq,
  clock,      \* sched_now_us
  doing,      \* "loop", "round" (inside schedule_run) or "callback"
  running,    \* the node whose callback runs, freed when it returns
  begun       \* when the round began

table == <<node, slot, heap, room, bucket, nextSeq>>
run == <<doing, running, begun>>
vars == <<table, run, clock>>

\* As many nodes as pairs, one running, and one more were a pair there twice.
Node == 1..Cardinality(Pair) + 2
Free == [what |-> NoNode, due |-> 0, seq |-> 0]
heapN == Cardinality(DOMAIN heap)
hashSize == Cardinality(DOMAIN bucket)
Fresh == Min({n \in Node : node[n] = Free})

\* The chain a pair's hash selects in a table of that size.
Chain(p, size) == HashOf[p] % size

Find(p) ==
  LET found == IF hashSize = 0 THEN {}
               ELSE {n \in bucket[Chain(p, hashSize)] : node[n].what = p}
  IN IF found = {} THEN NoNode ELSE CHOOSE n \in found : TRUE

Unlink(n) ==
  [bucket EXCEPT ![Chain(node[n].what, hashSize)] = @ \ {n}]

\* Mutant: the chains are kept when the table grows.
Kept(size) == [i \in 0..size-1 |-> IF i < hashSize THEN bucket[i] ELSE {}]

\* Every node moved to its chain in a table of another size.
Rehashed(size) ==
  [i \in 0..size-1 |->
     {n \in UNION {bucket[j] : j \in DOMAIN bucket} : Chain(node[n].what, size) = i}]

Doubled(n) == IF n = 0 THEN FirstSize ELSE 2 * n

Sooner(nd, a, b) ==
  \/ nd[a].due < nd[b].due
  \/ nd[a].due = nd[b].due /\ nd[a].seq < nd[b].seq

-----------------------------------------------------------------------------
(* The heap as at, the array, and slot, what its nodes say of their place. *)

Parent(i) == (i - 1) \div 2

Place(h, n, i) == [h EXCEPT !.at[i] = n, !.slot[n] = i]

\* Those above the node at i that are not sooner are moved down one.
SiftUp(nd, h, i) ==
  LET n == h.at[i]
      up[k \in DOMAIN h.at] ==
        IF k > 0 /\ Sooner(nd, n, h.at[Parent(k)])
          THEN Place(up[Parent(k)], h.at[Parent(k)], k)
          ELSE Place(h, n, k)
  IN up[i]

\* The sooner of the nodes below it is moved up one while it is sooner.
SiftDown(nd, h, i) ==
  LET n == h.at[i]
      Child(k) == LET c == 2 * k + 1
                  IN IF c + 1 \in DOMAIN h.at /\ Sooner(nd, h.at[c + 1], h.at[c])
                       THEN c + 1 ELSE c
      down[k \in DOMAIN h.at] ==
        IF 2 * k + 1 \in DOMAIN h.at /\ Sooner(nd, h.at[Child(k)], n)
          THEN Place(down[Child(k)], h.at[Child(k)], k)
          ELSE Place(h, n, k)
  IN down[i]

\* The node at i, in whichever direction it belongs.
Sift(nd, h, i) ==
  IF i > 0 /\ Sooner(nd, h.at[i], h.at[Parent(i)])
    THEN SiftUp(nd, h, i) ELSE SiftDown(nd, h, i)

\* Mutant: the node put in another's place only ever goes down.
TookDown(n) ==
  LET h == [at |-> [i \in 0..heapN-2 |-> heap[i]], slot |-> slot]
  IN IF slot[n] = heapN - 1 THEN h
     ELSE SiftDown(node, Place(h, heap[heapN - 1], slot[n]), slot[n])

\* heap_take: the last node takes the place of the one taken.
Took(n) ==
  LET last == heap[heapN - 1]
      h == [at |-> [i \in 0..heapN-2 |-> heap[i]], slot |-> slot]
  IN IF slot[n] = heapN - 1 THEN h
     ELSE Sift(node, Place(h, last, slot[n]), slot[n])

SetHeap(h) == heap' = h.at /\ slot' = h.slot

-----------------------------------------------------------------------------

Init ==
  /\ node = [n \in Node |-> Free] /\ slot = [n \in Node |-> 0]
  /\ heap = <<>> /\ room = 0 /\ bucket = <<>> /\ nextSeq = 0
  /\ clock = 0
  /\ doing = "loop" /\ running = NoNode /\ begun = 0

\* The browser between rounds, or the callback that runs.
Asking == doing \in {"loop", "callback"} /\ UNCHANGED <<run, clock>>

\* Asked again: due then, and after those asked for before.
Reset(n, d) == [node EXCEPT ![n].due = d, ![n].seq = nextSeq]

Due(d) == clock + d * PerMs

\* framebuffer_schedule with a negative time.
Unschedule(p) ==
  LET n == Find(p) IN
  /\ Asking /\ n # NoNode
  /\ heap' = Took(n).at /\ slot' = [Took(n).slot EXCEPT ![n] = 0]
  /\ bucket' = Unlink(n)
  /\ node' = [node EXCEPT ![n] = Free]
  /\ UNCHANGED <<room, nextSeq>>

Move(p, d) ==
  LET n == Find(p) IN
  /\ Asking /\ n # NoNode /\ nextSeq < MaxSeq
  /\ node' = Reset(n, Due(d))
  /\ SetHeap(Sift(node', [at |-> heap, slot |-> slot], slot[n]))
  /\ nextSeq' = nextSeq + 1
  /\ UNCHANGED <<room, bucket>>

\* The allocations a new node may need, and which of them fail.
Grown == IF heapN = room THEN Doubled(room) ELSE room
HashFull == heapN + 1 > hashSize
HeapFails == heapN = room /\ UNCHANGED table
HashFails == HashFull /\ hashSize = 0 /\ room' = Grown
             /\ UNCHANGED <<node, slot, heap, bucket, nextSeq>>
\* A table that cannot be doubled is used as it is, its chains longer.
HashGrows == bucket' = IF HashFull THEN Rehashed(Doubled(hashSize)) ELSE bucket
HashStays == HashFull /\ hashSize # 0 /\ bucket' = bucket

NodeFails ==
  /\ room' = Grown
  /\ HashGrows \/ HashStays
  /\ UNCHANGED <<node, slot, heap, nextSeq>>

NoMem(p) == Asking /\ Find(p) = NoNode /\ (HeapFails \/ HashFails \/ NodeFails)

Linked(b, n, p) == [b EXCEPT ![Chain(p, Cardinality(DOMAIN b))] = @ \cup {n}]

Add(p, d) ==
  LET n == Fresh
      h == [at |-> [i \in 0..heapN |-> IF i = heapN THEN n ELSE heap[i]],
            slot |-> [slot EXCEPT ![n] = heapN]]
  IN /\ Asking /\ Find(p) = NoNode /\ nextSeq < MaxSeq
     /\ node' = [node EXCEPT ![n] = [what |-> p, due |-> Due(d), seq |-> nextSeq]]
     /\ SetHeap(SiftUp(node', h, heapN))
     /\ \/ bucket' = Linked(IF HashFull THEN Rehashed(Doubled(hashSize)) ELSE bucket, n, p)
        \/ HashFull /\ hashSize # 0 /\ bucket' = Linked(bucket, n, p)
     /\ room' = Grown
     /\ nextSeq' = nextSeq + 1

-----------------------------------------------------------------------------
(* schedule_run, called by the main loop, which then waits for input for   *)
(* as long as it returned: input may come at any moment of that.           *)

BeginRound ==
  /\ doing = "loop" /\ heapN > 0
  /\ doing' = "round" /\ begun' = clock
  /\ UNCHANGED <<table, running, clock>>

\* Mutant: what a callback asks for without delay runs in the same round.
DueByNow == heapN > 0 /\ node[heap[0]].due <= begun

DueNow == heapN > 0 /\ node[heap[0]].due < begun

RunOne ==
  /\ doing = "round" /\ DueNow
  /\ SetHeap(Took(heap[0])) /\ bucket' = Unlink(heap[0])
  /\ running' = heap[0]
  /\ doing' = "callback"
  /\ UNCHANGED <<node, room, nextSeq, begun, clock>>

\* The round has had its time: the rest after input and drawing.
OutOfTime == clock - begun >= RoundTime /\ DueNow

CallbackReturns ==
  /\ doing = "callback"
  /\ node' = [node EXCEPT ![running] = Free]
  /\ slot' = [slot EXCEPT ![running] = 0]
  /\ running' = NoNode
  /\ \/ OutOfTime /\ doing' = "loop" /\ begun' = 0
     \/ ~OutOfTime /\ doing' = "round" /\ UNCHANGED begun
  /\ UNCHANGED <<heap, room, bucket, nextSeq, clock>>

RoundEnds ==
  /\ doing = "round" /\ ~DueNow
  /\ doing' = "loop" /\ begun' = 0
  /\ UNCHANGED <<table, running, clock>>

\* The clock goes on between calls and while a callback runs.
Tick ==
  /\ doing # "round" /\ clock < MaxClock
  /\ clock' = clock + 1
  /\ UNCHANGED <<table, run>>

Next ==
  \/ \E p \in Pair : Unschedule(p) \/ NoMem(p) \/ \E d \in Delay : Move(p, d) \/ Add(p, d)
  \/ BeginRound \/ RunOne \/ CallbackReturns \/ RoundEnds
  \/ Tick

Spec == Init /\ [][Next]_vars

-----------------------------------------------------------------------------

TypeOK ==
  /\ node \in [Node -> {Free} \cup [what : Pair, due : Nat, seq : Nat]]
  /\ slot \in [Node -> Nat]
  /\ DOMAIN heap = 0..heapN-1 /\ \A i \in DOMAIN heap : heap[i] \in Node
  /\ DOMAIN bucket = 0..hashSize-1 /\ \A i \in DOMAIN bucket : bucket[i] \subseteq Node
  /\ heapN <= room
  /\ {room, nextSeq, clock, begun} \subseteq Nat
  /\ doing \in {"loop", "round", "callback"}
  /\ running \in Node \cup {NoNode}

\* No node is sooner than the one above it, however the last was put in the
\* place of one taken out of the middle, and one asked again was moved: so the
\* first to come due is at the top.
HeapOrder ==
  \A i \in DOMAIN heap \ {0} : ~Sooner(node, heap[i], heap[Parent(i)])

\* Every scheduled node knows its place in the heap, so that it is that node
\* which is taken out.
SlotsAgree == \A i \in DOMAIN heap : slot[heap[i]] = i

\* Each pair is scheduled once, and what is scheduled is what asking for it
\* again, or -1, finds: through every growth of the table, and its failure.
FoundOnce ==
  /\ \A i \in DOMAIN heap : Find(node[heap[i]].what) = heap[i]
  /\ \A n \in Node : (\E i \in DOMAIN bucket : n \in bucket[i])
                       => \E i \in DOMAIN heap : heap[i] = n

\* What the heap and the table are trusted for.
HeapSound == HeapOrder /\ SlotsAgree
TableSound == TypeOK /\ FoundOnce

\* The scheduler as an agenda: waits are from now, and a turn in the round is
\* what came due before it began.
Scheduled == {heap[i] : i \in DOMAIN heap}
Before(n) == {m \in Scheduled : Sooner(node, m, n)}
Queue == [k \in 1..heapN |-> CHOOSE n \in Scheduled : Cardinality(Before(n)) = k - 1]
Entry(n) == [what |-> node[n].what,
             wait |-> IF node[n].due < clock THEN -1 ELSE node[n].due - clock,
             turn |-> doing # "loop" /\ node[n].due < begun]

Promised == INSTANCE Agenda WITH
  agenda <- [i \in DOMAIN Queue |-> Entry(Queue[i])],
  Delay <- {d * PerMs : d \in Delay}

\* The heap, the table and the rounds do what Agenda says: callbacks run in the
\* order due and asked for, each once, those of a round before what they ask
\* for, and a failure to allocate loses only the callback asked for.
ImplementsAgenda == Promised!Spec

-----------------------------------------------------------------------------
(* TLC's instances.  OwnHash has two of three pairs share a chain in a     *)
(* table of two and not in one of four; OneHash puts all the pairs in one  *)
(* chain, which makes them interchangeable.                                *)

OwnHash == [p \in Pair |-> p]
OneHash == [p \in Pair |-> 0]
AnyOrder == Permutations(Pair)
=============================================================================
