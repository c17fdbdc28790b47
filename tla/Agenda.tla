------------------------------- MODULE Agenda --------------------------------
(***************************************************************************)
(* What NetSurf's scheduler promises the browser: callbacks, each asked    *)
(* for at most once, are run in the order they come due, those due         *)
(* together in the order asked for.  They are run in rounds: a round runs  *)
(* those due when it began, as far as it gets, and what its callbacks ask  *)
(* for waits for the next.  Times are relative to now, so that a behaviour *)
(* may last for ever.                                                      *)
(***************************************************************************)
EXTENDS Integers, SequencesExt, FiniteSetTheorems, SequenceTheorems, WellFoundedInduction, TLAPS

CONSTANTS
  Pair,    \* callbacks with their contexts
  Delay    \* the delays they are asked for with

VARIABLES
  agenda,  \* what is asked for: [what, wait, turn], soonest first
  doing    \* "loop" (input and drawing), "round" or "callback"

vars == <<agenda, doing>>

Past == -1   \* the wait of all that is due
Of(a) == {a[i].what : i \in DOMAIN a}
Places(a, e) == {i \in DOMAIN a : a[i].what = e}
Without(a, e) == IF e \in Of(a) THEN RemoveAt(a, CHOOSE i \in Places(a, e) : TRUE) ELSE a

\* Mutant: what is asked for is put before all the rest.
ToTheFront(d, x) == FALSE

\* Mutant: what a callback asks for has its turn in the round under way.
AtOnce == doing = "callback"

\* Those a callback asked for now with delay d comes after.
NoLater(d, x) == x.wait <= d

\* Whether what is asked for has its turn before the next round.
Turn == FALSE

Insert(a, e, d) ==
  LET before == Cardinality({i \in DOMAIN a : NoLater(d, a[i])})
  IN InsertAt(a, before + 1, [what |-> e, wait |-> d, turn |-> Turn])

Init == agenda = <<>> /\ doing = "loop"

\* From the browser or from a callback; asked again, it is moved.
Ask(e, d) ==
  /\ doing \in {"loop", "callback"}
  /\ agenda' = Insert(Without(agenda, e), e, d)
  /\ UNCHANGED doing

Forget(e) ==
  /\ doing \in {"loop", "callback"}
  /\ agenda' = Without(agenda, e)
  /\ UNCHANGED doing

BeginRound ==
  /\ doing = "loop" /\ agenda # <<>>
  /\ agenda' = [i \in DOMAIN agenda |-> [agenda[i] EXCEPT !.turn = agenda[i].wait = Past]]
  /\ doing' = "round"

HasTurn == agenda # <<>> /\ Head(agenda).turn

RunOne ==
  /\ doing = "round" /\ HasTurn
  /\ agenda' = Tail(agenda)
  /\ doing' = "callback"

Over == [i \in DOMAIN agenda |-> [agenda[i] EXCEPT !.turn = FALSE]]

\* The round goes on, or has taken its time and leaves the rest.
CallbackReturns ==
  /\ doing = "callback"
  /\ \/ doing' = "round" /\ UNCHANGED agenda
     \/ HasTurn /\ doing' = "loop" /\ agenda' = Over

RoundEnds ==
  /\ doing = "round" /\ ~HasTurn
  /\ doing' = "loop" /\ agenda' = Over

Less(w) == IF w = Past THEN Past ELSE w - 1

Tick ==
  /\ \E i \in DOMAIN agenda : agenda[i].wait # Past
  /\ agenda' = [i \in DOMAIN agenda |-> [agenda[i] EXCEPT !.wait = Less(@)]]
  /\ UNCHANGED doing

Next == \/ \E e \in Pair : Forget(e) \/ \E d \in Delay : Ask(e, d)
        \/ BeginRound \/ RunOne \/ CallbackReturns \/ RoundEnds
        \/ Tick

Spec == Init /\ [][Next]_vars

\* The main loop comes round, a callback returns (a script's by its budget),
\* and time passes.
Fairness == /\ WF_vars(BeginRound) /\ WF_vars(RunOne) /\ WF_vars(RoundEnds)
            /\ WF_vars(CallbackReturns)
            /\ WF_vars(Tick)

FairSpec == Spec /\ Fairness

-----------------------------------------------------------------------------

Item == [what : Pair, wait : Nat \cup {Past}, turn : BOOLEAN]

TypeOK == /\ agenda \in Seq(Item)
          /\ doing \in {"loop", "round", "callback"}

\* Each pair is asked for once, soonest first, and those that have their turn
\* in this round are the first: none is run before an earlier one.
InOrder ==
  \A i, j \in DOMAIN agenda : i < j =>
    /\ agenda[i].what # agenda[j].what
    /\ agenda[i].wait <= agenda[j].wait
    /\ agenda[j].turn => agenda[i].turn

\* A round is over in the end, whatever its callbacks ask for: the main loop
\* reads input and draws again (SCHED_ROUND_US, and "waits for the next").
InputIsRead == []<>(doing = "loop")

\* A callback is run in the end unless it is forgotten or asked again without
\* end: however much the others ask for, it is not starved.
NotStarved == \A e \in Pair : []<>(e \notin Of(agenda)) \/ []<><<\E d \in Delay : Ask(e, d)>>_vars

-----------------------------------------------------------------------------
(* Sequences with a member taken out and put in, and the first places.     *)

\* A set of numbers has a least one, if any.
LEMMA Least ==
  ASSUME NEW T, T \subseteq Nat, T # {} PROVE \E n \in T : \A m \in T : n <= m
<1> DEFINE R == OpToRel(<, Nat)
<1>1. IsWellFoundedOn(R, Nat)
  BY NatLessThanWellFounded
<1>2. \A x, y \in Nat : y < x => <<y, x>> \in R
  BY DEF OpToRel
<1> HIDE DEF R
<1>3. PICK x \in T : \A y \in T : ~(<<y, x>> \in R)
  BY <1>1, WFMin
<1>4. \A m \in T : ~(m < x)
  BY ONLY <1>2, <1>3, x \in T, T \subseteq Nat, Zenon
<1> QED BY ONLY <1>4, x \in T, T \subseteq Nat

\* Places with all those before them are the first so many.
LEMMA FirstFew ==
  ASSUME NEW M \in Nat, NEW P, P \subseteq 1..M, \A k \in P : \A j \in 1..M : j < k => j \in P
  PROVE  Cardinality(P) \in 0..M /\ P = 1..Cardinality(P)
<1> DEFINE T == {k \in 1..M+1 : k \notin P}
<1>1. PICK t \in T : \A m \in T : t <= m
  <2>1. T \subseteq Nat /\ M + 1 \in T
    OBVIOUS
  <2> HIDE DEF T
  <2> QED BY <2>1, Least
<1>2. t \in 1..M+1 /\ t \notin P /\ \A m \in 1..M+1 : m \notin P => t <= m
  BY <1>1
<1> HIDE DEF T
<1>3. ASSUME NEW k \in P PROVE k \in 1..t-1
  <2>1. ~(t < k)
    BY <1>2
  <2> QED BY <1>2, <2>1
<1>4. P = 1..t-1
  <2>1. ASSUME NEW k \in 1..t-1 PROVE k \in P
    <3>1. k \in 1..M+1 /\ ~(t <= k)
      BY <1>2
    <3> QED BY <1>2, <3>1
  <2> QED BY <1>3, <2>1
<1>5. Cardinality(1..t-1) = t - 1
  <2>1. 1 \in Int /\ t - 1 \in Int
    BY <1>2
  <2>2. Cardinality(1..t-1) = IF 1 > t - 1 THEN 0 ELSE t - 1 - 1 + 1
    BY ONLY <2>1, FS_Interval
  <2> QED BY <1>2, <2>2
<1> QED BY <1>2, <1>4, <1>5

LEMMA TookFrom ==
  ASSUME NEW S, NEW s \in Seq(S), NEW i \in 1..Len(s)
  PROVE  RemoveAt(s, i) = [k \in 1..Len(s)-1 |-> IF k < i THEN s[k] ELSE s[k+1]]
<1> DEFINE a == SubSeq(s, 1, i - 1)
           b == SubSeq(s, i + 1, Len(s))
<1>1. Len(s) \in Nat /\ i - 1 \in 0..Len(s) /\ i + 1 \in 1..Len(s)+1
  OBVIOUS
<1>2. a \in Seq(S) /\ Len(a) = i - 1 /\ \A k \in 1..i-1 : a[k] = s[k]
  BY <1>1, SubSeqProperties
<1>3. b \in Seq(S) /\ Len(b) = Len(s) - i /\ \A k \in 1..Len(s)-i : b[k] = s[k+i]
  BY <1>1, SubSeqProperties
<1>4. RemoveAt(s, i) = a \o b
  BY DEF RemoveAt
<1> HIDE DEF a, b
<1>5. a \o b \in Seq(S) /\ Len(a \o b) = Len(s) - 1
      /\ \A k \in 1..Len(s)-1 : (a \o b)[k] = IF k < i THEN s[k] ELSE s[k+1]
  <2>1. /\ a \o b \in Seq(S) /\ Len(a \o b) = Len(a) + Len(b)
        /\ \A k \in 1..Len(a)+Len(b) : (a \o b)[k] = IF k <= Len(a) THEN a[k] ELSE b[k - Len(a)]
    BY ONLY <1>2, <1>3, ConcatProperties
  <2>2. Len(a) + Len(b) = Len(s) - 1
    BY <1>1, <1>2, <1>3
  <2>3. ASSUME NEW k \in 1..Len(s)-1 PROVE (a \o b)[k] = IF k < i THEN s[k] ELSE s[k+1]
    <3>1. CASE k < i
      BY <1>1, <1>2, <2>1, <2>2, <3>1
    <3>2. CASE ~(k < i)
      <4>1. k - Len(a) \in 1..Len(s)-i /\ k - Len(a) + i = k + 1 /\ ~(k <= Len(a))
        BY <1>1, <1>2, <3>2
      <4> QED BY <1>3, <2>1, <2>2, <3>2, <4>1
    <3> QED BY <3>1, <3>2
  <2> QED BY <2>1, <2>2, <2>3
<1> DEFINE w == a \o b
<1> HIDE DEF w
<1>6. w \in Seq(S) /\ Len(w) = Len(s) - 1 /\ \A k \in 1..Len(s)-1 : w[k] = IF k < i THEN s[k] ELSE s[k+1]
  BY <1>5 DEF w
<1>7. w \in [1..Len(s)-1 -> S]
  BY <1>6
<1> QED BY <1>4, <1>6, <1>7 DEF w

\* q, of length N, with x put in after its first b members.
Put(N, q, b, x) == [k \in 1..N+1 |-> IF k < b + 1 THEN q[k] ELSE IF k = b + 1 THEN x ELSE q[k-1]]

LEMMA PutIn ==
  ASSUME NEW S, NEW s \in Seq(S), NEW i \in 1..Len(s)+1, NEW e \in S
  PROVE  InsertAt(s, i, e) = Put(Len(s), s, i - 1, e)
<1> DEFINE a == SubSeq(s, 1, i - 1)
           b == SubSeq(s, i, Len(s))
           c == a \o <<e>>
<1>1. Len(s) \in Nat /\ i - 1 \in 0..Len(s) /\ i \in 1..Len(s)+1
  OBVIOUS
<1>2. a \in Seq(S) /\ Len(a) = i - 1 /\ \A k \in 1..i-1 : a[k] = s[k]
  BY <1>1, SubSeqProperties
<1>3. b \in Seq(S) /\ Len(b) = Len(s) - i + 1 /\ \A k \in 1..Len(s)-i+1 : b[k] = s[k+i-1]
  BY <1>1, SubSeqProperties
<1>4. InsertAt(s, i, e) = c \o b
  BY DEF InsertAt
<1> HIDE DEF a, b
<1>5. c \in Seq(S) /\ Len(c) = i /\ \A k \in 1..i : c[k] = IF k < i THEN s[k] ELSE e
  <2>1. <<e>> \in Seq(S) /\ Len(<<e>>) = 1 /\ <<e>>[1] = e
    OBVIOUS
  <2> DEFINE o == <<e>>
  <2> HIDE DEF o
  <2>2. /\ a \o o \in Seq(S) /\ Len(a \o o) = Len(a) + Len(o)
        /\ \A k \in 1..Len(a)+Len(o) : (a \o o)[k] = IF k <= Len(a) THEN a[k] ELSE o[k - Len(a)]
    <3>1. o \in Seq(S)
      BY <2>1 DEF o
    <3> QED BY ONLY <1>2, <3>1, ConcatProperties
  <2>3. Len(o) = 1 /\ o[1] = e /\ c = a \o o
    BY <2>1 DEF o
  <2> HIDE DEF c
  <2>4. ASSUME NEW k \in 1..i PROVE c[k] = IF k < i THEN s[k] ELSE e
    <3>1. CASE k < i
      BY <1>1, <1>2, <2>2, <2>3, <3>1
    <3>2. CASE k = i
      <4>1. k - Len(a) = 1 /\ ~(k <= Len(a)) /\ k \in 1..Len(a)+Len(o)
        BY <1>1, <1>2, <2>3, <3>2
      <4> QED BY <2>2, <2>3, <3>2, <4>1
    <3> QED BY <3>1, <3>2
  <2> QED BY <1>1, <1>2, <2>2, <2>3, <2>4
<1> HIDE DEF c
<1>6. c \o b \in Seq(S) /\ Len(c \o b) = Len(s) + 1
      /\ \A k \in 1..Len(s)+1 : (c \o b)[k] = IF k < i THEN s[k] ELSE IF k = i THEN e ELSE s[k-1]
  <2>1. /\ c \o b \in Seq(S) /\ Len(c \o b) = Len(c) + Len(b)
        /\ \A k \in 1..Len(c)+Len(b) : (c \o b)[k] = IF k <= Len(c) THEN c[k] ELSE b[k - Len(c)]
    BY ONLY <1>3, <1>5, ConcatProperties
  <2>2. Len(c) + Len(b) = Len(s) + 1
    BY <1>1, <1>5, <1>3
  <2>3. ASSUME NEW k \in 1..Len(s)+1 PROVE (c \o b)[k] = IF k < i THEN s[k] ELSE IF k = i THEN e ELSE s[k-1]
    <3>1. CASE k <= i
      BY <1>1, <1>5, <2>1, <2>2, <3>1
    <3>2. CASE ~(k <= i)
      <4>1. k - i \in 1..Len(s)-i+1 /\ k - i + i - 1 = k - 1 /\ ~(k <= Len(c))
        BY <1>1, <1>5, <3>2
      <4>2. (c \o b)[k] = b[k - i]
        BY <1>5, <2>1, <2>2, <4>1
      <4> QED BY <1>3, <3>2, <4>1, <4>2
    <3> QED BY <3>1, <3>2
  <2> QED BY <2>1, <2>2, <2>3
<1> DEFINE w == c \o b
<1> HIDE DEF w
<1>7. w \in Seq(S) /\ Len(w) = Len(s) + 1
      /\ \A k \in 1..Len(s)+1 : w[k] = IF k < i THEN s[k] ELSE IF k = i THEN e ELSE s[k-1]
  BY <1>6 DEF w
<1>8. w \in [1..Len(s)+1 -> S]
  BY <1>7
<1>9. w = [k \in 1..Len(s)+1 |-> IF k < i THEN s[k] ELSE IF k = i THEN e ELSE s[k-1]]
  BY <1>7, <1>8
<1>10. i - 1 + 1 = i
  OBVIOUS
<1> QED BY <1>4, <1>9, <1>10 DEF w, Put

-----------------------------------------------------------------------------
(* Soonest first, always.                                                  *)

\* An agenda in order, in which what has its turn has come due.
Kept(a) ==
  /\ a \in Seq(Item)
  /\ \A i, j \in DOMAIN a : i < j =>
       /\ a[i].what # a[j].what
       /\ a[i].wait <= a[j].wait
       /\ a[j].turn => a[i].turn
  /\ \A i \in DOMAIN a : a[i].turn => a[i].wait = Past

AInv == Kept(agenda) /\ doing \in {"loop", "round", "callback"}

LEMMA ItemsAre ==
  ASSUME NEW a \in Seq(Item)
  PROVE  /\ Len(a) \in Nat /\ DOMAIN a = 1..Len(a)
         /\ \A i \in 1..Len(a) : /\ a[i] \in Item /\ a[i].what \in Pair /\ a[i].turn \in BOOLEAN
                                 /\ a[i].wait \in Int /\ a[i].wait >= -1
<1>1. Len(a) \in Nat /\ DOMAIN a = 1..Len(a) /\ \A i \in 1..Len(a) : a[i] \in Item
  OBVIOUS
<1> QED BY <1>1 DEF Item, Past

LEMMA WithoutKeeps ==
  ASSUME NEW a, Kept(a), NEW p
  PROVE  Kept(Without(a, p)) /\ p \notin Of(Without(a, p))
<1> DEFINE N == Len(a)
<1>1. /\ a \in Seq(Item) /\ N \in Nat /\ DOMAIN a = 1..N
      /\ \A i \in 1..N : a[i] \in Item
  BY ItemsAre DEF Kept
<1>2. CASE p \notin Of(a)
  BY <1>2 DEF Without
<1>3. CASE p \in Of(a)
  <2>1. PICK i \in 1..N : a[i].what = p
    BY <1>1, <1>3 DEF Of
  <2>2. \A j \in 1..N : j # i => a[j].what # p
    BY <1>1, <2>1 DEF Kept
  <2>3. Places(a, p) = {i}
    BY <1>1, <2>1, <2>2 DEF Places
  <2> DEFINE b == Without(a, p)
  <2>4. b = RemoveAt(a, i)
    BY <1>3, <2>3 DEF Without
  <2> HIDE DEF b
  <2>5. b = [k \in 1..N-1 |-> IF k < i THEN a[k] ELSE a[k+1]]
    BY <1>1, <2>1, <2>4, TookFrom
  <2> DEFINE At(k) == IF k < i THEN k ELSE k + 1
  <2>6. \A k \in 1..N-1 : b[k] = a[At(k)] /\ At(k) \in 1..N /\ At(k) # i
    BY <1>1, <2>1, <2>5
  <2>7. \A j, k \in 1..N-1 : j < k => At(j) < At(k)
    BY <1>1, <2>1
  <2> HIDE DEF At
  <2>8. b \in Seq(Item) /\ DOMAIN b = 1..N-1
    <3>1. b \in [1..N-1 -> Item]
      BY <1>1, <2>5, <2>6
    <3>2. N - 1 \in Nat
      BY <1>1, <2>1
    <3> QED BY <3>1, <3>2
  <2>9. Kept(b)
    <3>1. ASSUME NEW j \in 1..N-1, NEW k \in 1..N-1, j < k
          PROVE  b[j].what # b[k].what /\ b[j].wait <= b[k].wait /\ (b[k].turn => b[j].turn)
      <4>1. At(j) < At(k) /\ b[j] = a[At(j)] /\ b[k] = a[At(k)] /\ At(j) \in 1..N /\ At(k) \in 1..N
        BY <2>6, <2>7, <3>1
      <4> QED BY <1>1, <4>1 DEF Kept
    <3>2. \A k \in 1..N-1 : b[k].turn => b[k].wait = Past
      BY <1>1, <2>6 DEF Kept
    <3> QED BY <2>8, <3>1, <3>2 DEF Kept
  <2>10. p \notin Of(b)
    BY <2>2, <2>6, <2>8 DEF Of
  <2> QED BY <2>9, <2>10 DEF b
<1> QED BY <1>2, <1>3

LEMMA InsertKeeps ==
  ASSUME NEW a, Kept(a), NEW p \in Pair, p \notin Of(a), NEW d \in Nat
  PROVE  Kept(Insert(a, p, d))
<1> DEFINE N == Len(a)
           P == {i \in DOMAIN a : NoLater(d, a[i])}
           m == Cardinality(P)
           e == [what |-> p, wait |-> d, turn |-> FALSE]
           r == Insert(a, p, d)
<1>1. /\ a \in Seq(Item) /\ N \in Nat /\ DOMAIN a = 1..N
      /\ \A i \in 1..N : a[i] \in Item /\ a[i].what # p /\ a[i].wait \in Int
  BY ItemsAre DEF Kept, Of
<1>2. /\ \A i, j \in 1..N : i < j => /\ a[i].what # a[j].what
                                     /\ a[i].wait <= a[j].wait
                                     /\ a[j].turn => a[i].turn
      /\ \A i \in 1..N : a[i].turn => a[i].wait = -1
  BY <1>1 DEF Kept, Past
<1>3. e \in Item /\ e.what = p /\ e.wait = d /\ e.turn = FALSE
  BY DEF Item
<1> HIDE DEF e
<1>4. m \in 0..N /\ P = 1..m
  <2>1. P \subseteq 1..N /\ \A k \in P : \A j \in 1..N : j < k => j \in P
    BY <1>1, <1>2 DEF NoLater
  <2> HIDE DEF P
  <2> QED BY <1>1, <2>1, FirstFew
<1>5. \A i \in 1..N : i <= m <=> a[i].wait <= d
  BY <1>1, <1>4 DEF NoLater
<1>6. r = InsertAt(a, m + 1, e)
  BY DEF Insert, Turn, e
<1> HIDE DEF r, P, m
<1>7. r = Put(N, a, m, e)
  <2> DEFINE i == m + 1
  <2>1. i \in 1..Len(a)+1 /\ i - 1 = m
    BY <1>1, <1>4
  <2> HIDE DEF i
  <2>2. InsertAt(a, i, e) = Put(Len(a), a, i - 1, e)
    BY ONLY <1>1, <1>3, <2>1, PutIn
  <2> QED BY <1>6, <2>1, <2>2 DEF i
<1>8. \A k \in 1..N+1 : /\ k < m + 1 => r[k] = a[k] /\ k \in 1..N /\ k <= m
                        /\ k = m + 1 => r[k] = e
                        /\ k > m + 1 => r[k] = a[k-1] /\ k - 1 \in 1..N /\ ~(k - 1 <= m)
  BY <1>1, <1>4, <1>7 DEF Put
<1>9. r \in Seq(Item) /\ DOMAIN r = 1..N+1
  <2>1. \A k \in 1..N+1 : r[k] \in Item
    BY <1>1, <1>3, <1>4, <1>8
  <2>2. r \in [1..N+1 -> Item]
    BY <1>7, <2>1 DEF Put
  <2> QED BY <1>1, <2>2
<1>10. \A i \in 1..N+1 : r[i].turn => r[i].wait = -1
  BY <1>1, <1>2, <1>3, <1>4, <1>8
<1>11. ASSUME NEW i \in 1..N+1, NEW j \in 1..N+1, i < j
       PROVE  /\ r[i].what # r[j].what
              /\ r[i].wait <= r[j].wait
              /\ r[j].turn => r[i].turn
  <2>1. CASE j < m + 1
    BY <1>2, <1>4, <1>8, <1>11, <2>1
  <2>2. CASE j = m + 1
    <3>1. r[i] = a[i] /\ i \in 1..N /\ i <= m /\ r[j] = e
      BY <1>4, <1>8, <1>11, <2>2
    <3> QED BY <1>1, <1>3, <1>5, <3>1
  <2>3. CASE j > m + 1
    <3>1. r[j] = a[j-1] /\ j - 1 \in 1..N /\ ~(j - 1 <= m)
      BY <1>8, <2>3
    <3>2. CASE i < m + 1
      <4>1. r[i] = a[i] /\ i \in 1..N /\ i < j - 1
        BY <1>4, <1>8, <2>3, <3>2
      <4> QED BY <1>2, <3>1, <4>1
    <3>3. CASE i = m + 1
      <4>1. r[i] = e /\ ~(a[j-1].wait <= d)
        BY <1>5, <1>8, <3>1, <3>3
      <4>2. a[j-1].wait # -1
        BY <4>1
      <4>3. ~r[j].turn
        BY <1>2, <3>1, <4>2
      <4> QED BY <1>1, <1>3, <3>1, <4>1, <4>3
    <3>4. CASE i > m + 1
      <4>1. r[i] = a[i-1] /\ i - 1 \in 1..N /\ i - 1 < j - 1
        BY <1>4, <1>8, <1>11, <3>4
      <4> QED BY <1>2, <3>1, <4>1
    <3> QED BY <1>4, <3>2, <3>3, <3>4
  <2> QED BY <1>4, <2>1, <2>2, <2>3
<1>12. Kept(r)
  BY <1>9, <1>10, <1>11 DEF Kept, Past
<1> QED BY <1>12 DEF r

LEMMA AInvInit == Init => AInv
  BY DEF Init, AInv, Kept

\* What a step keeps of the agenda's places, and of what waits there.
LEMMA ChangedKeeps ==
  ASSUME NEW a, Kept(a), NEW b, DOMAIN b = DOMAIN a, b \in Seq(Item),
         \A i \in DOMAIN a : b[i].what = a[i].what,
         \A i, j \in DOMAIN a : a[i].wait <= a[j].wait => b[i].wait <= b[j].wait,
         \A i, j \in DOMAIN a : i < j /\ b[j].turn => b[i].turn,
         \A i \in DOMAIN a : b[i].turn => b[i].wait = Past
  PROVE  Kept(b)
BY DEF Kept

LEMMA TurnChanged ==
  ASSUME NEW x \in Item, NEW v \in BOOLEAN, NEW y, y = [x EXCEPT !.turn = v]
  PROVE  y \in Item /\ y.what = x.what /\ y.wait = x.wait /\ y.turn = v
BY DEF Item

LEMMA WaitChanged ==
  ASSUME NEW x \in Item, NEW w \in Nat \cup {Past}, NEW y, y = [x EXCEPT !.wait = w]
  PROVE  y \in Item /\ y.what = x.what /\ y.wait = w /\ y.turn = x.turn
BY DEF Item

LEMMA AInvNext == ASSUME Delay \subseteq Nat PROVE AInv /\ [Next]_vars => AInv'
<1> SUFFICES ASSUME AInv, [Next]_vars PROVE AInv'
  OBVIOUS
<1> DEFINE a == agenda
           N == Len(a)
<1>1. /\ Kept(agenda) /\ doing \in {"loop", "round", "callback"}
      /\ agenda \in Seq(Item) /\ N \in Nat /\ DOMAIN a = 1..N
      /\ \A i \in 1..N : /\ a[i] \in Item /\ a[i].what \in Pair /\ a[i].turn \in BOOLEAN
                         /\ a[i].wait \in Int /\ a[i].wait >= -1
  BY ItemsAre DEF AInv, Kept
<1>2. ASSUME NEW p \in Pair, Forget(p) PROVE AInv'
  BY <1>1, <1>2, WithoutKeeps DEF Forget, AInv
<1>3. ASSUME NEW p \in Pair, NEW d \in Delay, Ask(p, d) PROVE AInv'
  <2>1. Kept(Without(agenda, p)) /\ p \notin Of(Without(agenda, p))
    BY <1>1, WithoutKeeps
  <2>2. Kept(Insert(Without(agenda, p), p, d))
    BY <2>1, InsertKeeps
  <2> QED BY <1>1, <1>3, <2>2 DEF Ask, AInv
<1>4. CASE BeginRound
  <2> DEFINE b == [i \in DOMAIN agenda |-> [agenda[i] EXCEPT !.turn = agenda[i].wait = Past]]
  <2>1. ASSUME NEW i \in 1..N
        PROVE  /\ b[i] \in Item /\ b[i].what = a[i].what /\ b[i].wait = a[i].wait
               /\ (b[i].turn <=> a[i].wait = -1)
    <3> DEFINE v == (agenda[i].wait = Past)
    <3>1. b[i] = [agenda[i] EXCEPT !.turn = v]
      BY <1>1
    <3>2. v \in BOOLEAN /\ (v <=> agenda[i].wait = -1) /\ agenda[i] \in Item
      BY <1>1 DEF Past
    <3> HIDE DEF b, v
    <3> QED BY ONLY <3>1, <3>2, TurnChanged
  <2>2. b \in Seq(Item) /\ DOMAIN b = DOMAIN a
    <3>1. b = [i \in 1..N |-> b[i]] /\ DOMAIN b = 1..N
      BY <1>1
    <3>2. \A i \in 1..N : b[i] \in Item
      BY <2>1
    <3> HIDE DEF b
    <3>3. b \in [1..N -> Item]
      BY <3>1, <3>2
    <3> QED BY <1>1, <3>3
  <2>3. agenda' = b /\ doing' = "round"
    BY <1>4 DEF BeginRound
  <2> HIDE DEF b
  <2>4. \A i, j \in 1..N : i < j => a[i].wait <= a[j].wait
    BY <1>1 DEF Kept
  <2>5. \A i, j \in 1..N : i < j /\ b[j].turn => b[i].turn
    BY <1>1, <2>1, <2>4
  <2>6. Kept(b)
    BY ZenonT(60), <1>1, <2>1, <2>2, <2>5, ChangedKeeps DEF Past
  <2> QED BY <2>3, <2>6 DEF AInv
<1>5. CASE RunOne
  <2> DEFINE b == Tail(a)
  <2>1. a # <<>>
    BY <1>5 DEF RunOne, HasTurn
  <2> HIDE DEF a
  <2>2. b \in Seq(Item) /\ Len(b) = N - 1 /\ \A i \in 1..Len(b) : b[i] = a[i+1]
    BY <1>1, <2>1, HeadTailProperties DEF a
  <2> HIDE DEF b
  <2>3. DOMAIN b = 1..N-1 /\ \A i \in 1..N-1 : b[i] = a[i+1] /\ i + 1 \in 1..N
    BY <1>1, <2>2
  <2>4. Kept(a)
    BY <1>1 DEF a
  <2>5. Kept(b)
    <3>1. N \in Nat /\ DOMAIN a = 1..N
      BY <1>1 DEF a
    <3>2. ASSUME NEW i \in 1..N-1, NEW j \in 1..N-1, i < j
          PROVE  b[i].what # b[j].what /\ b[i].wait <= b[j].wait /\ (b[j].turn => b[i].turn)
      <4>1. b[i] = a[i+1] /\ b[j] = a[j+1] /\ i + 1 \in 1..N /\ j + 1 \in 1..N /\ i + 1 < j + 1
        BY <2>3, <3>1, <3>2
      <4> QED BY <2>4, <3>1, <4>1 DEF Kept
    <3>3. \A i \in 1..N-1 : b[i].turn => b[i].wait = Past
      BY <2>3, <2>4, <3>1 DEF Kept
    <3> QED BY <2>2, <2>3, <3>2, <3>3 DEF Kept
  <2> QED BY <1>5, <2>5 DEF RunOne, AInv, a, b
<1>6. ASSUME agenda' = Over, doing' = "loop" PROVE AInv'
  <2> DEFINE b == Over
  <2>1. \A i \in 1..N : /\ b[i] \in Item /\ b[i].what = a[i].what /\ b[i].wait = a[i].wait
                        /\ b[i].turn = FALSE
    BY <1>1 DEF Item, Past, Over
  <2>2. b \in Seq(Item) /\ DOMAIN b = DOMAIN a
    <3>1. b = [i \in 1..N |-> b[i]]
      BY <1>1 DEF Over
    <3> QED BY <1>1, <2>1, <3>1
  <2> HIDE DEF b
  <2>3. Kept(b)
    BY <1>1, <2>1, <2>2, ChangedKeeps
  <2> QED BY <1>6, <2>3 DEF AInv, b
<1>7. CASE CallbackReturns
  BY <1>1, <1>6, <1>7 DEF CallbackReturns, AInv
<1>8. CASE RoundEnds
  BY <1>6, <1>8 DEF RoundEnds
<1>9. CASE Tick
  <2> DEFINE b == [i \in DOMAIN agenda |-> [agenda[i] EXCEPT !.wait = Less(@)]]
  <2>1. ASSUME NEW i \in 1..N
        PROVE  /\ b[i] \in Item /\ b[i].what = a[i].what /\ b[i].turn = a[i].turn
               /\ b[i].wait = IF a[i].wait = -1 THEN -1 ELSE a[i].wait - 1
    <3> DEFINE w == Less(agenda[i].wait)
    <3>1. b[i] = [agenda[i] EXCEPT !.wait = w]
      BY <1>1
    <3>2. w \in Nat \cup {Past} /\ w = (IF agenda[i].wait = -1 THEN -1 ELSE agenda[i].wait - 1)
          /\ agenda[i] \in Item
      BY <1>1 DEF Past, Less
    <3> HIDE DEF b, w
    <3> QED BY ONLY <3>1, <3>2, WaitChanged
  <2>2. b \in Seq(Item) /\ DOMAIN b = DOMAIN a
    <3>1. b = [i \in 1..N |-> b[i]] /\ DOMAIN b = 1..N
      BY <1>1
    <3>2. \A i \in 1..N : b[i] \in Item
      BY <2>1
    <3> HIDE DEF b
    <3>3. b \in [1..N -> Item]
      BY <3>1, <3>2
    <3> QED BY <1>1, <3>3
  <2>3. agenda' = b /\ doing' = doing
    BY <1>9 DEF Tick
  <2> HIDE DEF b
  <2>4. \A i, j \in 1..N : a[i].wait <= a[j].wait => b[i].wait <= b[j].wait
    BY <1>1, <2>1
  <2>5. /\ \A i, j \in 1..N : i < j /\ b[j].turn => b[i].turn
        /\ \A i \in 1..N : b[i].turn => b[i].wait = -1
    BY <1>1, <2>1 DEF Kept, Past
  <2>6. Kept(b)
    BY <1>1, <2>1, <2>2, <2>4, <2>5, ChangedKeeps DEF Past
  <2> QED BY <1>1, <2>3, <2>6 DEF AInv
<1>10. CASE UNCHANGED vars
  BY <1>1, <1>10 DEF vars, AInv
<1> QED BY <1>2, <1>3, <1>4, <1>5, <1>7, <1>8, <1>9, <1>10 DEF Next

LEMMA AInvIsSound == AInv => TypeOK /\ InOrder
  BY DEF AInv, Kept, TypeOK, InOrder

\* The agenda is in order, and what has its turn has come due, whatever is
\* asked for, moved and forgotten: for any number of callbacks.
THEOREM StaysInOrder ==
  ASSUME Delay \subseteq Nat PROVE Spec => [](TypeOK /\ InOrder)
<1>1. AInv /\ [Next]_vars => AInv'
  BY AInvNext
<1> QED BY <1>1, AInvInit, AInvIsSound, PTL DEF Spec
=============================================================================
