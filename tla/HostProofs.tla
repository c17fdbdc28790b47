----------------------------- MODULE HostProofs ------------------------------
(***************************************************************************)
(* Theorems about the parts of the host that MCHost instantiates: for      *)
(* every number of connections and messages, what a page hears of a        *)
(* WebSocket connection and what a connection takes of what the page       *)
(* sends; and for any number of callbacks, the order of the agenda.        *)
(***************************************************************************)
EXTENDS MCHost, SequenceTheorems, TLAPS

SockState == {"none", "connecting", "open", "closing", "done", "freed"}
SockRec == [state : SockState, waiting : BOOLEAN, out : Seq(Nat), wire : Seq(Nat),
            sent : Nat, got : Nat, late : BOOLEAN]
HeldRec == [id : Id, event : EventRec]
Looking == {"resolve", "connect", "read", "receive", "late"}
Above == {"script", "close", "failed"}
FrameRec == [at : Above \cup Looking \cup {"held"}, id : 0..MaxId+1]

PageRec == [closed : BOOLEAN, frozen : BOOLEAN, asked : BOOLEAN, ready : [Id -> 0..3],
            held : Seq(HeldRec)]

\* A stack of the thread's: what it is in the middle of, under the handlers that
\* it called; a connection is failing only while it is one of S.
StackOf(st, S) ==
  /\ st \in Seq(FrameRec)
  /\ \A k \in 1..Len(st) :
       /\ st[k].at \notin Above => k = Len(st)
       /\ st[k].at = "failed" => st[k].id \in S
       /\ st[k].at \in {"close", "receive", "late"} => st[k].id \in Id
Begun == {i \in Id : State(i) \notin {"none", "freed"}}
StackSound == StackOf(stack, Begun)

\* What was heard of i, then what is held back of it.
InTurn(before, after) ==
  /\ before.ev # "close" /\ after.ev # "open"
  /\ after.ev = "message" => before.ev = "open" \/ (before.ev = "message" /\ before.n < after.n)
Told(i) ==
  {heard[i][k] : k \in 1..Len(heard[i])}
    \cup {page.held[k].event : k \in {k \in 1..Len(page.held) : page.held[k].id = i}}
HeardThenHeld ==
  /\ \A i \in Id : \A k \in 1..Len(heard[i]) : \A j \in 1..k-1 : InTurn(heard[i][j], heard[i][k])
  /\ \A j \in 1..Len(page.held) : \A k \in 1..Len(heard[page.held[j].id]) :
       InTurn(heard[page.held[j].id][k], page.held[j].event)
  /\ \A k \in 1..Len(page.held) : \A j \in 1..k-1 :
       page.held[j].id = page.held[k].id => InTurn(page.held[j].event, page.held[k].event)

\* An error of i is told in the middle of its failing.
FailingIn(st, i) == \E k \in 1..Len(st) : st[k].at = "failed" /\ st[k].id = i
Failing(i) == FailingIn(stack, i)
ToldSound ==
  \A i \in Id :
    /\ State(i) = "none" => Told(i) = {}
    /\ State(i) = "connecting" => \A e \in Told(i) : e.ev = "error"
    /\ Live(i) => \A e \in Told(i) :
         /\ e.ev # "close"
         /\ e.ev = "error" => Failing(i)
         /\ e.ev = "message" => e.n <= sock[i].got

\* What is queued and taken, before a connection is open too.
SendOf(s) ==
  /\ s.state \in {"none", "connecting"} => s.out = <<>> /\ s.wire = <<>> /\ s.sent = 0
  /\ Len(s.out) <= s.sent
  /\ s.state \in {"open", "closing"} => SentWhole(s)

SockSound == /\ sock \in [Id -> SockRec] /\ made \in 0..MaxId
             /\ \A i \in Id : (State(i) = "none" <=> i > made) /\ SendOf(sock[i])
EarsSound == page \in PageRec /\ heard \in [Id -> Seq(EventRec)] /\ HeardThenHeld

LookUnder(st) == st # <<>> /\ st[Len(st)].at \in Looking
LookAsked == scheduled \in BOOLEAN /\ ((\E i \in Id : Listed(i)) => scheduled \/ LookUnder(stack))

\* The inductive invariant.
WInv == SockSound /\ EarsSound /\ StackSound /\ ToldSound /\ LookAsked

-----------------------------------------------------------------------------
(* The thread's stack.                                                     *)

LEMMA Pushed ==
  ASSUME NEW S, NEW s \in Seq(S), NEW f \in S
  PROVE  /\ <<f>> \o s \in Seq(S) /\ Len(<<f>> \o s) = Len(s) + 1 /\ (<<f>> \o s)[1] = f
         /\ \A k \in 1..Len(s) : (<<f>> \o s)[k + 1] = s[k]
         /\ \A k \in 1..Len(s)+1 : k = 1 \/ (k - 1 \in 1..Len(s) /\ (<<f>> \o s)[k] = s[k - 1])
OBVIOUS

LEMMA Popped ==
  ASSUME NEW S, NEW s \in Seq(S), s # <<>>
  PROVE  /\ Tail(s) \in Seq(S) /\ Len(s) \in Nat \ {0} /\ Len(Tail(s)) = Len(s) - 1
         /\ Head(s) = s[1] /\ Head(s) \in S
         /\ \A k \in 1..Len(s)-1 : Tail(s)[k] = s[k + 1]
OBVIOUS

LEMMA PushOn ==
  ASSUME NEW S, NEW st, StackOf(st, S), NEW f \in FrameRec, f.at \in Above,
         f.at = "failed" => f.id \in S, f.at = "close" => f.id \in Id
  PROVE  /\ StackOf(<<f>> \o st, S) /\ (<<f>> \o st)[Len(<<f>> \o st)] = IF st = <<>> THEN f ELSE st[Len(st)]
         /\ <<f>> \o st # <<>>
         /\ \A i : FailingIn(<<f>> \o st, i) <=> FailingIn(st, i) \/ f = Frame("failed", i)
<1>1. st \in Seq(FrameRec) /\ Len(st) \in Nat /\ (st = <<>> <=> Len(st) = 0)
  BY DEF StackOf
<1> DEFINE t == <<f>> \o st
<1>2. /\ t \in Seq(FrameRec) /\ Len(t) = Len(st) + 1 /\ t[1] = f
      /\ \A k \in 1..Len(st) : t[k + 1] = st[k]
      /\ \A k \in 1..Len(st)+1 : k = 1 \/ (k - 1 \in 1..Len(st) /\ t[k] = st[k - 1])
  BY <1>1, Pushed
<1> HIDE DEF t
<1>3. StackOf(t, S)
  <2> SUFFICES ASSUME NEW k \in 1..Len(t)
               PROVE  /\ t[k].at \notin Above => k = Len(t)
                      /\ t[k].at = "failed" => t[k].id \in S
                      /\ t[k].at \in {"close", "receive", "late"} => t[k].id \in Id
    BY <1>2 DEF StackOf
  <2>1. CASE k = 1
    BY <1>2, <2>1 DEF Above
  <2>2. CASE k # 1
    <3>1. k - 1 \in 1..Len(st) /\ t[k] = st[k - 1]
      BY <1>1, <1>2, <2>2
    <3> QED BY <1>1, <1>2, <3>1 DEF StackOf
  <2> QED BY <2>1, <2>2
<1>4. t[Len(t)] = IF st = <<>> THEN f ELSE st[Len(st)]
  BY <1>1, <1>2
<1>5. \A i : f.at = "failed" /\ f.id = i <=> f = Frame("failed", i)
  BY DEF Frame, FrameRec
<1>6. ASSUME NEW i PROVE FailingIn(t, i) <=> FailingIn(st, i) \/ f = Frame("failed", i)
  <2>1. ASSUME NEW k \in 1..Len(t), t[k].at = "failed", t[k].id = i
        PROVE  FailingIn(st, i) \/ f = Frame("failed", i)
    <3>1. CASE k = 1
      BY <1>2, <1>5, <2>1, <3>1
    <3>2. CASE k # 1
      <4>1. k - 1 \in 1..Len(st) /\ t[k] = st[k - 1]
        BY <1>1, <1>2, <3>2
      <4> QED BY <2>1, <4>1 DEF FailingIn
    <3> QED BY <3>1, <3>2
  <2>2. ASSUME NEW k \in 1..Len(st), st[k].at = "failed", st[k].id = i PROVE FailingIn(t, i)
    <3>1. k + 1 \in 1..Len(t) /\ t[k + 1] = st[k]
      BY <1>1, <1>2
    <3> QED BY <2>2, <3>1 DEF FailingIn
  <2>3. f = Frame("failed", i) => FailingIn(t, i)
    <3>1. 1 \in 1..Len(t)
      BY <1>1, <1>2
    <3> QED BY <1>2, <1>5, <3>1 DEF FailingIn
  <2> QED BY <2>1, <2>2, <2>3 DEF FailingIn
<1>7. t # <<>>
  BY <1>1, <1>2
<1> QED BY <1>3, <1>4, <1>6, <1>7 DEF t

\* The innermost is done with.
LEMMA PopOff ==
  ASSUME NEW S, NEW st, StackOf(st, S), st # <<>>
  PROVE  /\ StackOf(Tail(st), S) /\ Head(st) \in FrameRec
         /\ Tail(st) # <<>> => Tail(st)[Len(Tail(st))] = st[Len(st)]
         /\ Tail(st) = <<>> => st[Len(st)] = Head(st)
         /\ Head(st).at \notin Above => Tail(st) = <<>> /\ \A i : ~FailingIn(st, i)
         /\ \A i : FailingIn(Tail(st), i) => FailingIn(st, i)
         /\ \A i : FailingIn(st, i) => FailingIn(Tail(st), i) \/ (Head(st).at = "failed" /\ Head(st).id = i)
         /\ Head(st).at = "failed" => Head(st).id \in S
         /\ Head(st).at \in {"close", "receive", "late"} => Head(st).id \in Id
<1>1. /\ st \in Seq(FrameRec)
      /\ \A k \in 1..Len(st) :
            /\ st[k].at \notin Above => k = Len(st)
            /\ st[k].at = "failed" => st[k].id \in S
            /\ st[k].at \in {"close", "receive", "late"} => st[k].id \in Id
  BY DEF StackOf
<1> DEFINE t == Tail(st)
<1>2. /\ t \in Seq(FrameRec) /\ Len(st) \in Nat \ {0} /\ Len(t) = Len(st) - 1
      /\ Head(st) = st[1] /\ Head(st) \in FrameRec
      /\ \A k \in 1..Len(st)-1 : t[k] = st[k + 1]
  BY <1>1, Popped
<1> HIDE DEF t
<1>3. StackOf(t, S)
  <2> SUFFICES ASSUME NEW k \in 1..Len(t)
               PROVE  /\ t[k].at \notin Above => k = Len(t)
                      /\ t[k].at = "failed" => t[k].id \in S
                      /\ t[k].at \in {"close", "receive", "late"} => t[k].id \in Id
    BY <1>2 DEF StackOf
  <2>1. k + 1 \in 1..Len(st) /\ t[k] = st[k + 1]
    BY <1>2
  <2> QED BY <1>1, <1>2, <2>1
<1>4. t # <<>> => t[Len(t)] = st[Len(st)]
  BY <1>2
<1>5. ASSUME t = <<>> PROVE st[Len(st)] = Head(st)
  <2>1. Len(t) = 0
    BY <1>5
  <2>2. Len(st) = 1
    BY <1>2, <2>1
  <2> QED BY <1>2, <2>2
<1>6. ASSUME NEW i, NEW k \in 1..Len(t), t[k].at = "failed", t[k].id = i PROVE FailingIn(st, i)
  <2>1. k + 1 \in 1..Len(st) /\ t[k] = st[k + 1]
    BY <1>2
  <2> QED BY <1>6, <2>1 DEF FailingIn
<1>7. \A i : FailingIn(st, i) => FailingIn(t, i) \/ (Head(st).at = "failed" /\ Head(st).id = i)
  <2> SUFFICES ASSUME NEW i, NEW k \in 1..Len(st), st[k].at = "failed", st[k].id = i, k # 1
               PROVE  FailingIn(t, i)
    BY <1>2 DEF FailingIn
  <2>1. k - 1 \in 1..Len(t) /\ t[k - 1] = st[k]
    BY <1>2
  <2> QED BY <2>1 DEF FailingIn
<1>8. ASSUME Head(st).at \notin Above PROVE t = <<>> /\ \A i : ~FailingIn(st, i)
  <2>1. Len(st) = 1
    BY <1>1, <1>2, <1>8
  <2>2. \A k \in 1..Len(st) : k = 1 /\ st[k].at # "failed"
    BY <1>2, <1>8, <2>1 DEF Above
  <2>3. t = <<>>
    BY <1>2, <2>1
  <2> QED BY <2>2, <2>3 DEF FailingIn
<1>9. \A i : FailingIn(t, i) => FailingIn(st, i)
  BY <1>6 DEF FailingIn
<1>10. /\ Head(st).at = "failed" => Head(st).id \in S
       /\ Head(st).at \in {"close", "receive", "late"} => Head(st).id \in Id
  <2>1. 1 \in 1..Len(st)
    BY <1>2
  <2> QED BY <1>1, <1>2, <2>1
<1> QED BY <1>2, <1>3, <1>4, <1>5, <1>7, <1>8, <1>9, <1>10 DEF t

\* What the thread is in the middle of, with no handler above it.
LEMMA BaseOf ==
  ASSUME NEW S, NEW f \in FrameRec, f.at \notin Above,
         f.at \in {"receive", "late"} => f.id \in Id
  PROVE  /\ StackOf(<<f>> \o <<>>, S) /\ <<f>> \o <<>> = <<f>> /\ Len(<<f>>) = 1 /\ <<f>>[1] = f
         /\ \A i : ~FailingIn(<<f>>, i)
<1>1. <<f>> \o <<>> = <<f>> /\ <<f>> \in Seq(FrameRec) /\ Len(<<f>>) = 1 /\ <<f>>[1] = f
  OBVIOUS
<1> DEFINE t == <<f>>
<1>2. t \in Seq(FrameRec) /\ \A k \in 1..Len(t) : k = Len(t) /\ t[k] = f
  BY <1>1
<1> HIDE DEF t
<1>3. StackOf(t, S)
  BY <1>2 DEF StackOf, Above
<1>4. \A i : ~FailingIn(t, i)
  BY <1>2 DEF FailingIn, Above
<1> QED BY <1>1, <1>3, <1>4 DEF t

-----------------------------------------------------------------------------
(* What the page is told.                                                  *)

\* An event is told at the end of what the page heard, or will: after it the
\* page's handlers, or nothing, are above what the thread goes on with.
LEMMA HeardNext ==
  ASSUME EarsSound, NEW i \in Id, NEW e \in EventRec, NEW rest \in Seq(HeldRec),
         heard' = [heard EXCEPT ![i] = Append(@, e)], page' \in PageRec, page'.held = rest,
         \A k \in 1..Len(heard[i]) : InTurn(heard[i][k], e),
         \/ rest = <<>> /\ page.held = <<>>
         \/ page.held # <<>> /\ rest = Tail(page.held) /\ Head(page.held) = [id |-> i, event |-> e]
  PROVE  EarsSound' /\ \A j \in Id : Told(j)' \subseteq Told(j) \cup IF j = i THEN {e} ELSE {}
<1>1. /\ heard \in [Id -> Seq(EventRec)] /\ page.held \in Seq(HeldRec)
      /\ Len(heard[i]) \in Nat /\ Len(page.held) \in Nat
  BY DEF EarsSound, PageRec
<1>2. /\ heard' \in [Id -> Seq(EventRec)] /\ Len(heard'[i]) = Len(heard[i]) + 1
      /\ \A k \in 1..Len(heard'[i]) :
            heard'[i][k] = IF k = Len(heard[i]) + 1 THEN e ELSE heard[i][k]
      /\ \A j \in Id \ {i} : heard'[j] = heard[j]
  <2>1. heard[i] \in Seq(EventRec)
    BY <1>1
  <2>2. /\ Append(heard[i], e) \in Seq(EventRec) /\ Len(Append(heard[i], e)) = Len(heard[i]) + 1
        /\ \A k \in 1..Len(heard[i]) : Append(heard[i], e)[k] = heard[i][k]
        /\ Append(heard[i], e)[Len(heard[i]) + 1] = e
    BY <2>1, AppendProperties
  <2>3. heard'[i] = Append(heard[i], e) /\ heard' \in [Id -> Seq(EventRec)]
        /\ \A j \in Id \ {i} : heard'[j] = heard[j]
    BY <1>1, <2>2
  <2> QED BY <1>1, <2>2, <2>3
<1>3. \A k \in 1..Len(rest) : /\ k + 1 \in 1..Len(page.held) /\ rest[k] = page.held[k + 1]
                             /\ page.held[1] = [id |-> i, event |-> e] /\ rest[k] \in HeldRec
  <2>1. CASE rest = <<>>
    BY <2>1
  <2>2. CASE page.held # <<>> /\ rest = Tail(page.held) /\ Head(page.held) = [id |-> i, event |-> e]
    <3>1. /\ Len(rest) = Len(page.held) - 1 /\ page.held[1] = [id |-> i, event |-> e]
          /\ \A k \in 1..Len(page.held)-1 : rest[k] = page.held[k + 1]
      BY <1>1, <2>2, Popped
    <3> QED BY <1>1, <3>1
  <2> QED BY <2>1, <2>2
<1>4. ASSUME NEW h \in Id, NEW k \in 1..Len(heard'[h]), NEW j \in 1..k-1
      PROVE  InTurn(heard'[h][j], heard'[h][k])
  <2>1. CASE h # i
    BY <1>2, <2>1 DEF EarsSound, HeardThenHeld
  <2>2. CASE h = i
    <3>1. j \in 1..Len(heard[i]) /\ heard'[i][j] = heard[i][j]
      BY <1>1, <1>2, <2>2
    <3>2. CASE k = Len(heard[i]) + 1
      BY <1>2, <2>2, <3>1, <3>2
    <3>3. CASE k # Len(heard[i]) + 1
      <4>1. k \in 1..Len(heard[i]) /\ heard'[i][k] = heard[i][k]
        BY <1>1, <1>2, <2>2, <3>3
      <4> QED BY <2>2, <3>1, <4>1 DEF EarsSound, HeardThenHeld
    <3> QED BY <3>2, <3>3
  <2> QED BY <2>1, <2>2
<1>5. ASSUME NEW j \in 1..Len(rest), NEW k \in 1..Len(heard'[rest[j].id])
      PROVE  InTurn(heard'[rest[j].id][k], rest[j].event)
  <2>1. /\ j + 1 \in 1..Len(page.held) /\ rest[j] = page.held[j + 1] /\ rest[j].id \in Id
        /\ page.held[1].id = i /\ page.held[1].event = e /\ 1 \in 1..(j+1)-1
    BY <1>3 DEF HeldRec
  <2>2. CASE rest[j].id = i /\ k = Len(heard[i]) + 1
    <3>1. InTurn(page.held[1].event, page.held[j + 1].event)
      BY <2>1, <2>2 DEF EarsSound, HeardThenHeld
    <3> QED BY <1>2, <2>1, <2>2, <3>1
  <2>3. CASE rest[j].id # i \/ k # Len(heard[i]) + 1
    <3>1. k \in 1..Len(heard[rest[j].id]) /\ heard'[rest[j].id][k] = heard[rest[j].id][k]
      BY <1>1, <1>2, <2>1, <2>3
    <3> QED BY <2>1, <3>1 DEF EarsSound, HeardThenHeld
  <2> QED BY <2>2, <2>3
<1>6. ASSUME NEW k \in 1..Len(rest), NEW j \in 1..k-1, rest[j].id = rest[k].id
      PROVE  InTurn(rest[j].event, rest[k].event)
  <2>1. /\ j \in 1..Len(rest) /\ k + 1 \in 1..Len(page.held) /\ j + 1 \in 1..(k+1)-1
        /\ rest[j] = page.held[j + 1] /\ rest[k] = page.held[k + 1]
    BY <1>3
  <2> QED BY <1>6, <2>1 DEF EarsSound, HeardThenHeld
<1>7. HeardThenHeld'
  BY <1>4, <1>5, <1>6 DEF HeardThenHeld
<1>8. ASSUME NEW j \in Id, NEW x \in Told(j)' PROVE x \in Told(j) \cup IF j = i THEN {e} ELSE {}
  <2>1. CASE \E k \in 1..Len(heard'[j]) : x = heard'[j][k]
    <3>1. PICK k \in 1..Len(heard'[j]) : x = heard'[j][k]
      BY <2>1
    <3>2. CASE j = i /\ k = Len(heard[i]) + 1
      BY <1>2, <3>1, <3>2
    <3>3. CASE j # i \/ k # Len(heard[i]) + 1
      <4>1. k \in 1..Len(heard[j]) /\ x = heard[j][k]
        BY <1>1, <1>2, <3>1, <3>3
      <4> QED BY <4>1 DEF Told
    <3> QED BY <3>2, <3>3
  <2>2. CASE \E k \in 1..Len(rest) : rest[k].id = j /\ x = rest[k].event
    <3>1. PICK k \in 1..Len(rest) : rest[k].id = j /\ x = rest[k].event
      BY <2>2
    <3>2. k + 1 \in 1..Len(page.held) /\ page.held[k + 1].id = j /\ x = page.held[k + 1].event
      BY <1>3, <3>1
    <3> QED BY <3>2 DEF Told
  <2> QED BY <2>1, <2>2 DEF Told
<1> QED BY <1>2, <1>7, <1>8 DEF EarsSound

\* An event is held back behind those that are.
LEMMA HeldNext ==
  ASSUME EarsSound, NEW i \in Id, NEW e \in EventRec, UNCHANGED heard,
         page' \in PageRec, page'.held = Append(page.held, [id |-> i, event |-> e]),
         \A b \in Told(i) : InTurn(b, e)
  PROVE  EarsSound' /\ \A j \in Id : Told(j)' \subseteq Told(j) \cup IF j = i THEN {e} ELSE {}
<1> DEFINE h == [id |-> i, event |-> e]
           held == page'.held
<1>1. /\ heard \in [Id -> Seq(EventRec)] /\ page.held \in Seq(HeldRec)
      /\ Len(page.held) \in Nat /\ h \in HeldRec
  BY DEF EarsSound, PageRec, HeldRec
<1>2. h.id = i /\ h.event = e
  OBVIOUS
<1> HIDE DEF h
<1>3. /\ held \in Seq(HeldRec) /\ Len(held) = Len(page.held) + 1 /\ held[Len(page.held) + 1] = h
      /\ \A k \in 1..Len(page.held) : held[k] = page.held[k]
  BY <1>1, AppendProperties DEF h
<1> HIDE DEF held
<1>4. \A k \in 1..Len(held) : k \in 1..Len(page.held) \/ k = Len(page.held) + 1
  BY <1>1, <1>3
<1>5. ASSUME NEW j \in 1..Len(held), NEW k \in 1..Len(heard[held[j].id])
      PROVE  InTurn(heard[held[j].id][k], held[j].event)
  <2>1. CASE j \in 1..Len(page.held)
    BY <1>3, <2>1 DEF EarsSound, HeardThenHeld
  <2>2. CASE j = Len(page.held) + 1
    BY <1>2, <1>3, <2>2 DEF Told
  <2> QED BY <1>4, <2>1, <2>2
<1>6. ASSUME NEW k \in 1..Len(held), NEW j \in 1..k-1, held[j].id = held[k].id
      PROVE  InTurn(held[j].event, held[k].event)
  <2>1. j \in 1..Len(page.held)
    BY <1>1, <1>3
  <2>2. CASE k \in 1..Len(page.held)
    BY <1>3, <1>6, <2>1, <2>2 DEF EarsSound, HeardThenHeld
  <2>3. CASE k = Len(page.held) + 1
    BY <1>2, <1>3, <1>6, <2>1, <2>3 DEF Told
  <2> QED BY <1>4, <2>2, <2>3
<1>7. HeardThenHeld'
  BY <1>5, <1>6 DEF HeardThenHeld, EarsSound, held
<1>8. ASSUME NEW j \in Id, NEW x \in Told(j)' PROVE x \in Told(j) \cup IF j = i THEN {e} ELSE {}
  <2>1. CASE \E k \in 1..Len(heard[j]) : x = heard[j][k]
    BY <2>1 DEF Told
  <2>2. CASE \E k \in 1..Len(held) : held[k].id = j /\ x = held[k].event
    <3>1. PICK k \in 1..Len(held) : held[k].id = j /\ x = held[k].event
      BY <2>2
    <3>2. CASE k \in 1..Len(page.held)
      BY <1>3, <3>1, <3>2 DEF Told
    <3>3. CASE k = Len(page.held) + 1
      BY <1>2, <1>3, <3>1, <3>3
    <3> QED BY <1>4, <3>2, <3>3
  <2> QED BY <2>1, <2>2 DEF Told, held
<1> QED BY <1>7, <1>8 DEF EarsSound

\* What is in between is over, and the handlers may be above what follows it.
Calls(under) == stack' = under \/ stack' = <<Frame("script", 0)>> \o under

\* A page's event comes after all it was told, or is held back for it, or lost.
LEMMA TellKeeps ==
  ASSUME EarsSound, NEW i \in Id, NEW e \in EventRec, NEW under, Tell(i, e, under),
         \A b \in Told(i) : InTurn(b, e)
  PROVE  /\ EarsSound' /\ Calls(under)
         /\ \A j \in Id : Told(j)' \subseteq Told(j) \cup IF j = i THEN {e} ELSE {}
<1>1. page \in PageRec /\ page.held \in Seq(HeldRec) /\ ReadyAfter(i, e) \in 0..3
  BY DEF EarsSound, PageRec, ReadyAfter
<1>2. CASE stack' = under /\ UNCHANGED ears
  BY <1>2 DEF ears, EarsSound, HeardThenHeld, Told, Calls
<1>3. CASE Hold(i, e, under)
  <2>1. CASE UNCHANGED page
    BY <1>3, <2>1 DEF Hold, EarsSound, HeardThenHeld, Told, Calls
  <2>2. CASE page' = [page EXCEPT !.held = Append(@, [id |-> i, event |-> e]), !.asked = TRUE]
    <3>1. Append(page.held, [id |-> i, event |-> e]) \in Seq(HeldRec)
      BY <1>1, AppendProperties DEF HeldRec
    <3>2. page' \in PageRec /\ page'.held = Append(page.held, [id |-> i, event |-> e])
      BY <1>1, <2>2, <3>1 DEF PageRec
    <3> QED BY <1>3, <3>2, HeldNext DEF Hold, Calls
  <2> QED BY <1>3, <2>1, <2>2 DEF Hold
<1>4. CASE ~HeldBack /\ Deliver(i, e, page.held, under)
  <2>1. page.held = <<>> /\ page'.held = <<>> /\ page' \in PageRec
        /\ heard' = [heard EXCEPT ![i] = Append(@, e)]
    BY <1>1, <1>4 DEF HeldBack, Deliver, PageRec
  <2>2. \A k \in 1..Len(heard[i]) : InTurn(heard[i][k], e)
    BY DEF Told
  <2>3. <<>> \in Seq(HeldRec)
    OBVIOUS
  <2>4. Calls(under)
    BY <1>4 DEF Deliver, Calls
  <2> QED BY <2>1, <2>2, <2>3, <2>4, HeardNext
<1> QED BY <1>2, <1>3, <1>4 DEF Tell

-----------------------------------------------------------------------------
(* What connections take.                                                  *)

\* The parts of a queue that holds what comes after the n-th message.
LEMMA QueueParts ==
  ASSUME NEW n \in Nat, NEW m \in Nat, NEW q \in Seq(Nat), Len(q) = m, NEW k \in 0..m,
         \A j \in 1..m : q[j] = n + j
  PROVE  /\ SubSeq(q, k + 1, m) \in Seq(Nat) /\ Len(SubSeq(q, k + 1, m)) = m - k
         /\ \A j \in 1..m-k : SubSeq(q, k + 1, m)[j] = n + k + j
         /\ SubSeq(q, 1, k) \in Seq(Nat) /\ Len(SubSeq(q, 1, k)) = k
         /\ \A j \in 1..k : SubSeq(q, 1, k)[j] = n + j
<1> DEFINE r == SubSeq(q, k + 1, m)
           l == SubSeq(q, 1, k)
<1>1. /\ r \in Seq(Nat) /\ Len(r) = IF k + 1 <= m THEN m - (k + 1) + 1 ELSE 0
      /\ \A j \in 1..m-(k+1)+1 : r[j] = q[(k + 1) + j - 1]
  <2>1. k + 1 \in Int /\ m \in Int /\ \A j \in k+1..m : q[j] \in Nat
    OBVIOUS
  <2> QED BY ONLY <2>1, SubSeqProperties
<1>2. /\ l \in Seq(Nat) /\ Len(l) = IF 1 <= k THEN k - 1 + 1 ELSE 0
      /\ \A j \in 1..k-1+1 : l[j] = q[1 + j - 1]
  <2>1. 1 \in Int /\ k \in Int /\ \A j \in 1..k : q[j] \in Nat
    OBVIOUS
  <2> QED BY ONLY <2>1, SubSeqProperties
<1> HIDE DEF r, l
<1>3. /\ m - (k + 1) + 1 = m - k /\ k - 1 + 1 = k
      /\ \A j \in 1..m-k : (k + 1) + j - 1 = k + j /\ k + j \in 1..m /\ n + (k + j) = n + k + j
      /\ \A j \in 1..k : 1 + j - 1 = j /\ j \in 1..m
  OBVIOUS
<1>4. Len(r) = m - k /\ \A j \in 1..m-k : r[j] = n + k + j
  BY <1>1, <1>3
<1>5. Len(l) = k /\ \A j \in 1..k : l[j] = n + j
  BY <1>2, <1>3
<1> QED BY <1>1, <1>2, <1>4, <1>5 DEF r, l

\* What is on the wire with the next k messages behind it.
LEMMA WireGrows ==
  ASSUME NEW n \in Nat, NEW w \in Seq(Nat), NEW l \in Seq(Nat),
         \A j \in 1..Len(l) : l[j] = n + j
  PROVE  /\ w \o l \in Seq(Nat)
         /\ w = Whole(n) => w \o l = Whole(n + Len(l))
         /\ \A p \in 0..n : w = ClosedAfter(p, n) => w \o l = ClosedAfter(p, n + Len(l))
<1> DEFINE v == w \o l
           k == Len(l)
<1>0. k \in Nat
  OBVIOUS
<1> HIDE DEF k
<1>1. /\ v \in Seq(Nat) /\ Len(v) = Len(w) + k /\ Len(w) \in Nat
      /\ \A j \in 1..Len(w)+k : v[j] = IF j <= Len(w) THEN w[j] ELSE l[j - Len(w)]
  <2>1. /\ v \in Seq(Nat) /\ Len(v) = Len(w) + Len(l)
        /\ \A j \in 1..Len(w)+Len(l) : v[j] = IF j <= Len(w) THEN w[j] ELSE l[j - Len(w)]
    BY ConcatProperties
  <2>2. Len(w) \in Nat
    OBVIOUS
  <2> HIDE DEF v
  <2> QED BY <2>1, <2>2 DEF k
<1> HIDE DEF v
<1>01. \A j \in 1..k : l[j] = n + j
  BY DEF k
<1>2. v = [j \in 1..Len(v) |-> v[j]]
  BY <1>0, <1>1
<1>3. ASSUME w = Whole(n) PROVE v = Whole(n + k)
  <2>1. Len(w) = n /\ \A j \in 1..n : w[j] = j
    BY <1>3 DEF Whole
  <2>2. \A j \in 1..n+k : v[j] = j
    <3> TAKE j \in 1..n+k
    <3>1. CASE j <= n
      BY <1>0, <1>1, <2>1, <3>1
    <3>2. CASE ~(j <= n)
      <4>1. j - n \in 1..k /\ n + (j - n) = j
        BY <1>0, <3>2
      <4> QED BY <1>0, <1>1, <2>1, <1>01, <3>2, <4>1
    <3> QED BY <3>1, <3>2
  <2> QED BY <1>0, <1>1, <1>2, <2>1, <2>2 DEF Whole
<1>4. ASSUME NEW p \in 0..n, w = ClosedAfter(p, n) PROVE v = ClosedAfter(p, n + k)
  <2>1. /\ Len(w) = n + 1
        /\ \A j \in 1..n+1 : w[j] = IF j <= p THEN j ELSE IF j = p + 1 THEN CloseFrame ELSE j - 1
    BY <1>4 DEF ClosedAfter
  <2>2. \A j \in 1..n+k+1 : v[j] = IF j <= p THEN j ELSE IF j = p + 1 THEN CloseFrame ELSE j - 1
    <3> TAKE j \in 1..n+k+1
    <3>1. CASE j <= n + 1
      BY <1>0, <1>1, <2>1, <3>1
    <3>2. CASE ~(j <= n + 1)
      <4>1. j - (n + 1) \in 1..k /\ n + (j - (n + 1)) = j - 1 /\ ~(j <= p) /\ j # p + 1
        BY <1>0, <3>2
      <4>2. l[j - (n + 1)] = j - 1
        BY <1>01, <4>1
      <4>3. v[j] = l[j - (n + 1)]
        BY <1>0, <1>1, <2>1, <3>2
      <4> QED BY <4>1, <4>2, <4>3
    <3> QED BY <3>1, <3>2
  <2> QED BY <1>0, <1>1, <1>2, <2>1, <2>2 DEF ClosedAfter
<1> QED BY <1>1, <1>3, <1>4 DEF v, k

LEMMA WireClosed ==
  ASSUME NEW n \in Nat
  PROVE  Whole(n) \o <<CloseFrame>> = ClosedAfter(n, n) /\ ClosedAfter(n, n) \in Seq(Nat)
         /\ Whole(n) \in Seq(Nat)
<1> DEFINE w == Whole(n)
           v == w \o <<CloseFrame>>
<1>1. w \in Seq(Nat) /\ Len(w) = n /\ \A j \in 1..n : w[j] = j
  BY DEF Whole
<1>2. <<CloseFrame>> \in Seq(Nat) /\ Len(<<CloseFrame>>) = 1 /\ <<CloseFrame>>[1] = CloseFrame
  BY DEF CloseFrame
<1> HIDE DEF w
<1>3. /\ v \in Seq(Nat) /\ Len(v) = n + 1
      /\ \A j \in 1..n+1 : v[j] = IF j <= n THEN w[j] ELSE <<CloseFrame>>[j - n]
  BY <1>1, <1>2, ConcatProperties
<1> HIDE DEF v
<1>4. v = [j \in 1..n+1 |-> v[j]]
  BY <1>3
<1>5. \A j \in 1..n+1 : v[j] = IF j <= n THEN j ELSE IF j = n + 1 THEN CloseFrame ELSE j - 1
  BY <1>1, <1>2, <1>3
<1>6. v = ClosedAfter(n, n)
  BY <1>4, <1>5 DEF ClosedAfter
<1> QED BY <1>1, <1>3, <1>6 DEF v, w

\* One more is queued.
LEMMA QueuedKeeps ==
  ASSUME NEW s \in SockRec, SendOf(s), s.state = "open"
  PROVE  /\ Queued(s) \in SockRec /\ SendOf(Queued(s)) /\ Queued(s).state = "open"
         /\ Queued(s).got = s.got /\ Len(Queued(s).out) = Len(s.out) + 1
<1> DEFINE t == Queued(s)
           m == Len(s.out)
           n == s.sent - m
<1>1. s.out \in Seq(Nat) /\ s.sent \in Nat /\ m \in Nat /\ n \in Nat /\ m <= s.sent
  <2>1. s.out \in Seq(Nat) /\ s.sent \in Nat /\ m <= s.sent
    BY DEF SockRec, SendOf
  <2>2. m \in Nat
    BY <2>1
  <2> HIDE DEF m
  <2> QED BY <2>1, <2>2
<1>2. /\ Append(s.out, s.sent + 1) \in Seq(Nat) /\ Len(Append(s.out, s.sent + 1)) = m + 1
      /\ \A j \in 1..m : Append(s.out, s.sent + 1)[j] = s.out[j]
      /\ Append(s.out, s.sent + 1)[m + 1] = s.sent + 1
  <2>1. s.sent + 1 \in Nat
    BY <1>1
  <2> QED BY <1>1, <2>1, AppendProperties
<1>3. /\ t.out = Append(s.out, s.sent + 1) /\ t.sent = s.sent + 1 /\ t.wire = s.wire
      /\ t.state = s.state /\ t.got = s.got /\ t \in SockRec
  <2> DEFINE a == Append(s.out, s.sent + 1)
  <2>1. a \in Seq(Nat) /\ s.sent + 1 \in Nat /\ t = [s EXCEPT !.out = a, !.sent = s.sent + 1]
    BY <1>1, <1>2 DEF Queued
  <2> HIDE DEF a, t
  <2>2. t.out = a /\ t.sent = s.sent + 1 /\ t.wire = s.wire /\ t.state = s.state /\ t.got = s.got
    BY <2>1 DEF SockRec
  <2>3. t \in SockRec
    BY <2>1 DEF SockRec
  <2> QED BY <2>2, <2>3 DEF a
<1> HIDE DEF t
<1>4. /\ s.out = [j \in 1..m |-> n + j]
      /\ s.wire = Whole(n)
  BY DEF SendOf, SentWhole
<1>5. \A j \in 1..m+1 : t.out[j] = n + j
  <2>1. \A j \in 1..m : s.out[j] = n + j
    BY <1>4
  <2>2. n + (m + 1) = s.sent + 1 /\ \A j \in 1..m+1 : j \in 1..m \/ j = m + 1
    BY <1>1
  <2> HIDE DEF m, n
  <2> QED BY <1>2, <1>3, <2>1, <2>2
<1>6. t.out \in Seq(Nat) /\ Len(t.out) = m + 1
  BY <1>2, <1>3
<1>7. t.out = [j \in 1..Len(t.out) |-> n + j]
  BY SMTT(60), <1>5, <1>6
<1>8. t.sent - Len(t.out) = n /\ Len(t.out) <= t.sent
  BY <1>1, <1>3, <1>6
<1>9. SentWhole(t)
  BY <1>3, <1>4, <1>7, <1>8 DEF SentWhole
<1> QED BY <1>3, <1>6, <1>8, <1>9 DEF SendOf, t

\* Of the messages queued the first k are taken, with a close frame behind them
\* when it is the first.
LEMMA FlushParts ==
  ASSUME NEW n \in Nat, NEW q \in Seq(Nat), NEW k \in 0..Len(q),
         \A j \in 1..Len(q) : q[j] = n + j, NEW w \in Seq(Nat), NEW more \in MaybeClose
  PROVE  /\ SubSeq(q, k + 1, Len(q)) \in Seq(Nat)
         /\ Len(SubSeq(q, k + 1, Len(q))) = Len(q) - k
         /\ SubSeq(q, k + 1, Len(q)) = [j \in 1..Len(q)-k |-> n + k + j]
         /\ w = Whole(n) /\ more = <<>> => w \o SubSeq(q, 1, k) \o more = Whole(n + k)
         /\ w = Whole(n) /\ more # <<>> => w \o SubSeq(q, 1, k) \o more = ClosedAfter(n + k, n + k)
         /\ \A p \in 0..n : w = ClosedAfter(p, n) /\ more = <<>> =>
              w \o SubSeq(q, 1, k) \o more = ClosedAfter(p, n + k)
<1> DEFINE m == Len(q)
           r == SubSeq(q, k + 1, m)
           l == SubSeq(q, 1, k)
           v == w \o l
           wire == v \o more
<1>1. /\ r \in Seq(Nat) /\ Len(r) = m - k /\ \A j \in 1..m-k : r[j] = n + k + j
      /\ l \in Seq(Nat) /\ Len(l) = k /\ \A j \in 1..k : l[j] = n + j
  <2>1. m \in Nat
    OBVIOUS
  <2> QED BY <2>1, QueueParts
<1>2. k \in Nat
  OBVIOUS
<1> HIDE DEF m, r, l
<1>3. /\ v \in Seq(Nat)
      /\ w = Whole(n) => v = Whole(n + k)
      /\ \A p \in 0..n : w = ClosedAfter(p, n) => v = ClosedAfter(p, n + k)
  <2>1. \A j \in 1..Len(l) : l[j] = n + j
    BY <1>1
  <2>2. /\ w \o l \in Seq(Nat)
        /\ w = Whole(n) => w \o l = Whole(n + Len(l))
        /\ \A p \in 0..n : w = ClosedAfter(p, n) => w \o l = ClosedAfter(p, n + Len(l))
    BY <1>1, <2>1, WireGrows
  <2> QED BY <1>1, <2>2
<1> HIDE DEF v
<1>4. more = <<>> => wire = v
  BY <1>3, ConcatEmptySeq
<1>5. more # <<>> /\ v = Whole(n + k) => wire = ClosedAfter(n + k, n + k)
  <2>1. n + k \in Nat
    BY <1>2
  <2>2. Whole(n + k) \o <<CloseFrame>> = ClosedAfter(n + k, n + k)
    BY <2>1, WireClosed
  <2> QED BY <2>2 DEF MaybeClose
<1>6. r = [j \in 1..m-k |-> n + k + j]
  BY <1>1
<1> HIDE DEF wire
<1>7. /\ r \in Seq(Nat) /\ Len(r) = m - k /\ r = [j \in 1..m-k |-> n + k + j]
      /\ w = Whole(n) /\ more = <<>> => wire = Whole(n + k)
      /\ w = Whole(n) /\ more # <<>> => wire = ClosedAfter(n + k, n + k)
      /\ \A p \in 0..n : w = ClosedAfter(p, n) /\ more = <<>> => wire = ClosedAfter(p, n + k)
  BY <1>1, <1>3, <1>4, <1>5, <1>6
<1> QED BY <1>7 DEF m, r, l, v, wire

Flushed(s, k, more) ==
  [s EXCEPT !.out = SubSeq(@, k + 1, Len(@)), !.wire = @ \o SubSeq(s.out, 1, k) \o more]
LEMMA FlushKeeps ==
  ASSUME NEW s \in SockRec, SendOf(s), s.state \in {"open", "closing"}, NEW k \in 0..Len(s.out),
         NEW more \in MaybeClose, more # <<>> => s.state = "closing" /\ s.wire = Whole(s.sent - Len(s.out))
  PROVE  LET t == Flushed(s, k, more) IN t \in SockRec /\ SendOf(t) /\ t.state = s.state /\ t.got = s.got
<1> DEFINE t == Flushed(s, k, more)
           m == Len(s.out)
           n == s.sent - m
<1>1. /\ s.out \in Seq(Nat) /\ s.wire \in Seq(Nat) /\ s.sent \in Nat /\ m \in Nat /\ n \in Nat
      /\ s.sent = n + m
  <2>1. s.out \in Seq(Nat) /\ s.wire \in Seq(Nat) /\ s.sent \in Nat /\ m <= s.sent
    BY DEF SockRec, SendOf
  <2>2. m \in Nat
    BY <2>1
  <2> HIDE DEF m
  <2> QED BY <2>1, <2>2
<1>2. /\ t.out = SubSeq(s.out, k + 1, m) /\ t.wire = s.wire \o SubSeq(s.out, 1, k) \o more
      /\ t.state = s.state /\ t.got = s.got /\ t.sent = s.sent
      /\ t.wire \in Seq(Nat) /\ t.out \in Seq(Nat) => t \in SockRec
  BY DEF SockRec, Flushed
<1> HIDE DEF t
<1>3. /\ s.out = [j \in 1..m |-> n + j]
      /\ s.wire = Whole(n) \/ (s.state = "closing" /\ \E p \in 0..n : s.wire = ClosedAfter(p, n))
  BY DEF SendOf, SentWhole
<1>4. /\ t.out \in Seq(Nat) /\ Len(t.out) = m - k /\ t.out = [j \in 1..m-k |-> n + k + j]
      /\ s.wire = Whole(n) /\ more = <<>> => t.wire = Whole(n + k)
      /\ s.wire = Whole(n) /\ more # <<>> => t.wire = ClosedAfter(n + k, n + k)
      /\ \A p \in 0..n : s.wire = ClosedAfter(p, n) /\ more = <<>> => t.wire = ClosedAfter(p, n + k)
  <2>1. \A j \in 1..m : s.out[j] = n + j
    BY <1>1, <1>3
  <2> DEFINE q == s.out
             w == s.wire
  <2>2. q \in Seq(Nat) /\ w \in Seq(Nat) /\ Len(q) = m /\ \A j \in 1..m : q[j] = n + j
    BY <1>1, <2>1
  <2>3. k \in 0..m /\ t.out = SubSeq(q, k + 1, m) /\ t.wire = w \o SubSeq(q, 1, k) \o more
    BY <1>2
  <2> HIDE DEF m, n, q, w
  <2>4. k \in 0..Len(q) /\ \A j \in 1..Len(q) : q[j] = n + j
    BY <2>2, <2>3
  <2>5. n \in Nat /\ q \in Seq(Nat) /\ w \in Seq(Nat)
    BY <1>1, <2>2
  <2>6. /\ SubSeq(q, k + 1, Len(q)) \in Seq(Nat)
        /\ Len(SubSeq(q, k + 1, Len(q))) = Len(q) - k
        /\ SubSeq(q, k + 1, Len(q)) = [j \in 1..Len(q)-k |-> n + k + j]
        /\ w = Whole(n) /\ more = <<>> => w \o SubSeq(q, 1, k) \o more = Whole(n + k)
        /\ w = Whole(n) /\ more # <<>> => w \o SubSeq(q, 1, k) \o more = ClosedAfter(n + k, n + k)
        /\ \A p \in 0..n : w = ClosedAfter(p, n) /\ more = <<>> =>
             w \o SubSeq(q, 1, k) \o more = ClosedAfter(p, n + k)
    BY ONLY ZenonT(60), <2>4, <2>5, more \in MaybeClose, FlushParts
  <2> QED BY <2>2, <2>3, <2>6 DEF w
<1> HIDE DEF m, n
<1>5. k \in Nat /\ k <= m /\ \A p \in 0..n : p \in 0..n+k
  BY <1>1 DEF m
<1>6. t.sent - Len(t.out) = n + k /\ Len(t.out) <= t.sent
  <2>1. t.sent = n + m /\ Len(t.out) = m - k
    BY <1>1, <1>2, <1>4
  <2>2. n + m - (m - k) = n + k /\ m - k <= n + m
    BY <1>1, <1>5
  <2> QED BY <1>1, <1>5, <2>1, <2>2
<1>7. \/ t.wire = Whole(n + k)
      \/ t.state = "closing" /\ \E p \in 0..n+k : t.wire = ClosedAfter(p, n + k)
  <2>1. n + k \in 0..n+k
    BY <1>1, <1>5
  <2>2. more # <<>> => s.state = "closing" /\ s.wire = Whole(n)
    BY DEF m, n
  <2> QED BY <1>2, <1>3, <1>4, <1>5, <2>1, <2>2
<1>8. t.wire \in Seq(Nat)
  <2>1. ASSUME NEW a \in Nat, NEW p \in 0..a PROVE Whole(a) \in Seq(Nat) /\ ClosedAfter(p, a) \in Seq(Nat)
    <3>1. \A j \in 1..a+1 : (IF j <= p THEN j ELSE IF j = p + 1 THEN CloseFrame ELSE j - 1) \in Nat
      BY DEF CloseFrame
    <3>2. ClosedAfter(p, a) \in [1..a+1 -> Nat] /\ a + 1 \in Nat
      BY <3>1 DEF ClosedAfter
    <3>3. Whole(a) \in [1..a -> Nat]
      BY DEF Whole
    <3> QED BY SMTT(60), <3>2, <3>3
  <2>2. n + k \in Nat /\ 0 \in 0..n+k
    BY <1>1, <1>5
  <2> QED BY <1>7, <2>1, <2>2
<1>9. SentWhole(t)
  BY <1>4, <1>6, <1>7 DEF SentWhole
<1> QED BY <1>2, <1>4, <1>6, <1>8, <1>9 DEF SendOf, t

-----------------------------------------------------------------------------
(* The thread's steps.                                                     *)

\* What is at the top of the stack, and what is under it.
LEMMA AtBase ==
  ASSUME StackSound, NEW at \in Looking \cup {"held"}, In(at)
  PROVE  /\ Under = <<>> /\ \A i : ~Failing(i)
         /\ Here \in 0..MaxId+1 /\ (at \in {"receive", "late"} => Here \in Id)
<1>1. StackOf(stack, Begun) /\ stack # <<>> /\ Head(stack).at = at
  BY DEF StackSound, In
<1>2. Head(stack).at \notin Above
  BY <1>1 DEF Looking, Above
<1> QED BY <1>1, <1>2, PopOff DEF Under, Failing, Here, FrameRec

LEMMA AtHandler ==
  ASSUME StackSound, NEW at \in Above, In(at)
  PROVE  /\ StackOf(Under, Begun) /\ (LookUnder(stack) => LookUnder(Under))
         /\ \A i : FailingIn(Under, i) => Failing(i)
         /\ \A i : Failing(i) => FailingIn(Under, i) \/ (at = "failed" /\ i = Here)
         /\ at = "failed" => Here \in Begun
         /\ at = "close" => Here \in Id
<1>1. StackOf(stack, Begun) /\ stack # <<>> /\ Head(stack).at = at
  BY DEF StackSound, In
<1>2. Under = <<>> => ~LookUnder(stack)
  BY <1>1, PopOff DEF Under, LookUnder, Looking, Above
<1>3. Under # <<>> => (LookUnder(stack) => LookUnder(Under))
  BY <1>1, PopOff DEF Under, LookUnder
<1> QED BY <1>1, <1>2, <1>3, PopOff DEF Under, Failing, Here

\* What the thread goes on with when no handler is under way.
LEMMA GoesOn ==
  ASSUME Under = <<>>, NEW at \in Looking, NEW i \in 0..MaxId+1, at \in {"receive", "late"} => i \in Id
  PROVE  /\ \A S : StackOf(Then(at, i), S)
         /\ LookUnder(Then(at, i)) /\ \A j : ~FailingIn(Then(at, i), j)
<1> DEFINE f == Frame(at, i)
<1>1. f \in FrameRec /\ f.at = at /\ f.id = i /\ f.at \notin Above
  BY DEF Frame, FrameRec, Looking, Above
<1>2. Then(at, i) = <<f>> \o <<>>
  BY DEF Then
<1> HIDE DEF f
<1>3. /\ \A S : StackOf(<<f>> \o <<>>, S)
      /\ <<f>> \o <<>> = <<f>> /\ Len(<<f>>) = 1 /\ <<f>>[1] = f /\ \A j : ~FailingIn(<<f>>, j)
  BY <1>1, BaseOf
<1>4. <<f>> # <<>>
  BY <1>3
<1> QED BY <1>1, <1>2, <1>3, <1>4 DEF LookUnder

\* What is above what the thread goes on with leaves it sound.
LEMMA CallsOn ==
  ASSUME NEW S, NEW under, StackOf(under, S), Calls(under)
  PROVE  /\ StackOf(stack', S) /\ (LookUnder(under) => LookUnder(stack'))
         /\ \A i : FailingIn(stack', i) <=> FailingIn(under, i)
<1> DEFINE f == Frame("script", 0)
<1>1. f \in FrameRec /\ f.at = "script" /\ \A i : f # Frame("failed", i)
  <2>1. MaxId \in Nat
    BY SocketAssumption
  <2> QED BY <2>1 DEF Frame, FrameRec, Above
<1> HIDE DEF f
<1>2. CASE stack' = <<f>> \o under
  <2>1. f.at \in Above /\ f.at # "failed" /\ f.at # "close"
    BY <1>1 DEF Above
  <2>2. /\ StackOf(<<f>> \o under, S) /\ <<f>> \o under # <<>>
        /\ (<<f>> \o under)[Len(<<f>> \o under)] = IF under = <<>> THEN f ELSE under[Len(under)]
        /\ \A i : FailingIn(<<f>> \o under, i) <=> FailingIn(under, i) \/ f = Frame("failed", i)
    BY <1>1, <2>1, PushOn
  <2> QED BY <1>1, <1>2, <2>2 DEF LookUnder
<1> QED BY <1>2 DEF Calls, f

\* A connection fails above what the thread goes on with.
LEMMA FailsOn ==
  ASSUME NEW S, NEW st, StackOf(st, S), NEW i \in Id, i \in S
  PROVE  /\ StackOf(<<Frame("failed", i)>> \o st, S)
         /\ LookUnder(st) => LookUnder(<<Frame("failed", i)>> \o st)
         /\ FailingIn(<<Frame("failed", i)>> \o st, i)
         /\ \A j : FailingIn(st, j) => FailingIn(<<Frame("failed", i)>> \o st, j)
<1> DEFINE f == Frame("failed", i)
<1>1. f \in FrameRec /\ f.at = "failed" /\ f.id = i /\ f.at \in Above
  BY SocketAssumption DEF Frame, FrameRec, Above, Id
<1>2. f = Frame("failed", i)
  OBVIOUS
<1> HIDE DEF f
<1>3. /\ StackOf(<<f>> \o st, S) /\ <<f>> \o st # <<>>
      /\ (<<f>> \o st)[Len(<<f>> \o st)] = IF st = <<>> THEN f ELSE st[Len(st)]
      /\ \A j : FailingIn(<<f>> \o st, j) <=> FailingIn(st, j) \/ f = Frame("failed", j)
  BY <1>1, PushOn
<1>4. LookUnder(st) => LookUnder(<<f>> \o st)
  BY <1>3 DEF LookUnder
<1> QED BY <1>2, <1>3, <1>4 DEF f

\* More connections begun.
LEMMA StackWider ==
  ASSUME NEW S, NEW R, S \subseteq R, NEW st, StackOf(st, S) PROVE StackOf(st, R)
BY DEF StackOf

\* One connection changes.
LEMMA OneSock ==
  ASSUME SockSound, NEW i \in Id, NEW s \in SockRec, sock' = [sock EXCEPT ![i] = s],
         UNCHANGED made, SendOf(s), s.state # "none", State(i) # "none"
  PROVE  /\ SockSound' /\ sock'[i] = s /\ \A j \in Id \ {i} : sock'[j] = sock[j]
<1>1. sock'[i] = s /\ \A j \in Id \ {i} : sock'[j] = sock[j]
  BY DEF SockSound
<1> QED BY <1>1 DEF SockSound, State

LEMMA AreEvents ==
  ASSUME EarsSound, NEW i \in Id, NEW x \in Told(i) PROVE x \in EventRec /\ x.n \in Nat
<1>1. /\ heard[i] \in Seq(EventRec) /\ page.held \in Seq(HeldRec)
      /\ \A h \in HeldRec : h.event \in EventRec
  BY DEF EarsSound, PageRec, HeldRec
<1>2. x \in EventRec
  BY <1>1 DEF Told
<1> QED BY <1>2 DEF EventRec

\* A step in which at most i is told e, and each connection goes on as its events
\* and its failing allow.
LEMMA EachGoesOn ==
  ASSUME SockSound, SockSound', EarsSound, ToldSound, NEW i \in Id, NEW e \in EventRec,
         \A j \in Id : Told(j)' \subseteq Told(j) \cup IF j = i THEN {e} ELSE {},
         \A j \in Id : State(j)' = "none" => State(j) = "none",
         \A j \in Id : State(j)' = "connecting" => State(j) \in {"none", "connecting"},
         \A j \in Id : Live(j)' =>
           /\ Live(j) \/ State(j) = "none"
           /\ Failing(j) => Failing(j)'
           /\ State(j) = "none" \/ sock[j].got <= sock'[j].got,
         e \in Told(i)' /\ e \notin Told(i) =>
           /\ State(i)' # "none" /\ (State(i)' = "connecting" => e.ev = "error")
           /\ Live(i)' => /\ e.ev # "close" /\ (e.ev = "error" => Failing(i)')
                          /\ e.ev = "message" => e.n <= sock'[i].got
  PROVE  ToldSound'
<1> SUFFICES ASSUME NEW j \in Id
             PROVE  /\ State(j)' = "none" => Told(j)' = {}
                    /\ State(j)' = "connecting" => \A x \in Told(j)' : x.ev = "error"
                    /\ Live(j)' => \A x \in Told(j)' :
                         /\ x.ev # "close" /\ (x.ev = "error" => Failing(j)')
                         /\ x.ev = "message" => x.n <= sock'[j].got
  BY DEF ToldSound
<1>1. \A x \in Told(j)' : x \in Told(j) \/ (j = i /\ x = e /\ e \in Told(i)' /\ e \notin Told(i))
  OBVIOUS
<1>2. /\ State(j) = "none" => Told(j) = {}
      /\ State(j) = "connecting" => \A x \in Told(j) : x.ev = "error"
      /\ Live(j) => \A x \in Told(j) :
           /\ x.ev # "close" /\ (x.ev = "error" => Failing(j))
           /\ x.ev = "message" => x.n <= sock[j].got
  BY DEF ToldSound
<1>3. ASSUME State(j)' = "none" PROVE Told(j)' = {}
  BY <1>1, <1>2, <1>3
<1>4. ASSUME State(j)' = "connecting" PROVE \A x \in Told(j)' : x.ev = "error"
  BY <1>1, <1>2, <1>4
<1>5. ASSUME Live(j)', NEW x \in Told(j)'
      PROVE  /\ x.ev # "close" /\ (x.ev = "error" => Failing(j)')
             /\ x.ev = "message" => x.n <= sock'[j].got
  <2>1. CASE x \in Told(j)
    <3>1. Live(j) /\ (Failing(j) => Failing(j)') /\ sock[j].got <= sock'[j].got
      BY <1>2, <1>5, <2>1 DEF Live
    <3>2. /\ x.ev # "close" /\ (x.ev = "error" => Failing(j))
          /\ x.ev = "message" => x.n <= sock[j].got
      BY <1>2, <2>1, <3>1
    <3>3. x.n \in Nat /\ sock[j].got \in Nat /\ sock'[j].got \in Nat
      BY <2>1, AreEvents DEF SockSound, SockRec
    <3> QED BY <3>1, <3>2, <3>3
  <2>2. CASE j = i /\ x = e /\ e \in Told(i)' /\ e \notin Told(i)
    BY <1>5, <2>2
  <2> QED BY <1>1, <2>1, <2>2
<1> QED BY <1>3, <1>4, <1>5

\* A step in which the page is told nothing.
LEMMA NoneTold ==
  ASSUME WInv, SockSound', EarsSound', StackSound', LookAsked',
         \A j \in Id : Told(j)' \subseteq Told(j),
         \A j \in Id : State(j)' = "none" => State(j) = "none",
         \A j \in Id : State(j)' = "connecting" => State(j) \in {"none", "connecting"},
         \A j \in Id : Live(j)' =>
           /\ Live(j) \/ State(j) = "none"
           /\ Failing(j) => Failing(j)'
           /\ State(j) = "none" \/ sock[j].got <= sock'[j].got
  PROVE  WInv'
<1>1. CASE Id = {}
  BY <1>1 DEF WInv, ToldSound
<1>2. CASE Id # {}
  <2>1. PICK i \in Id : TRUE
    BY <1>2
  <2>2. PICK e \in EventRec : TRUE
    <3>1. Event("open", 0) \in EventRec
      BY DEF Event, EventRec
    <3> QED BY <3>1
  <2>3. ToldSound'
    BY <2>1, EachGoesOn DEF WInv
  <2> QED BY <2>3 DEF WInv
<1> QED BY <1>1, <1>2

LEMMA HeldSame ==
  ASSUME EarsSound, page' \in PageRec, page'.held = page.held, UNCHANGED heard
  PROVE  EarsSound' /\ \A j \in Id : Told(j)' = Told(j)
BY DEF EarsSound, HeardThenHeld, Told

LEMMA SocksSame ==
  ASSUME SockSound, UNCHANGED <<sock, made>>
  PROVE  /\ SockSound' /\ Begun' = Begun
         /\ \A j \in Id : State(j)' = State(j) /\ (Live(j)' <=> Live(j)) /\ (Listed(j)' <=> Listed(j))
         /\ \A j \in Id : sock[j].got <= sock'[j].got
BY DEF SockSound, SockRec, Begun, State, Live, Listed

\* The thread goes on, and nothing else of what is sound changes.
LEMMA Moves ==
  ASSUME WInv, UNCHANGED <<sock, made, heard>>, page' \in PageRec, page'.held = page.held,
         StackOf(stack', Begun), \A i \in Id : Live(i) /\ Failing(i) => FailingIn(stack', i),
         scheduled' \in BOOLEAN, (\E i \in Id : Listed(i)) => scheduled' \/ LookUnder(stack')
  PROVE  WInv'
<1>1. EarsSound' /\ \A j \in Id : Told(j)' = Told(j)
  BY HeldSame DEF WInv
<1>2. /\ SockSound' /\ Begun' = Begun
      /\ \A j \in Id : State(j)' = State(j) /\ (Live(j)' <=> Live(j)) /\ (Listed(j)' <=> Listed(j))
      /\ \A j \in Id : sock[j].got <= sock'[j].got
  BY SocksSame DEF WInv
<1>3. StackSound' /\ LookAsked'
  BY <1>2 DEF StackSound, LookAsked
<1>4. \A i \in Id : Failing(i)' <=> FailingIn(stack', i)
  BY DEF Failing
<1> QED BY <1>1, <1>2, <1>3, <1>4, NoneTold

LEMMA PageKept == ASSUME WInv PROVE page \in PageRec
BY DEF WInv, EarsSound

\* The look goes on to what comes next.
LEMMA LookMoves ==
  ASSUME WInv, NEW at \in Looking, In(at), NEW to \in Looking, NEW i \in 0..MaxId+1,
         to \in {"receive", "late"} => i \in Id, GoOn(to, i), UNCHANGED <<sock, looks, ears>>
  PROVE  WInv'
<1>1. Under = <<>> /\ \A j : ~Failing(j)
  BY AtBase DEF WInv
<1>2. StackOf(stack', Begun) /\ LookUnder(stack')
  BY <1>1, GoesOn DEF GoOn
<1> QED BY <1>1, <1>2, PageKept, Moves DEF looks, ears, WInv, LookAsked

\* The page is told e of i, and the thread goes on with what is under.
LEMMA TellOn ==
  ASSUME WInv, SockSound', NEW i \in Id, NEW e \in EventRec, NEW under, Tell(i, e, under),
         \A b \in Told(i) : InTurn(b, e),
         StackOf(under, Begun'), scheduled' \in BOOLEAN,
         (\E j \in Id : Listed(j)') => scheduled' \/ LookUnder(under),
         \A j \in Id : State(j)' = "none" => State(j) = "none",
         \A j \in Id : State(j)' = "connecting" => State(j) \in {"none", "connecting"},
         \A j \in Id : Live(j)' =>
           /\ Live(j) \/ State(j) = "none"
           /\ Failing(j) => FailingIn(under, j)
           /\ sock[j].got <= sock'[j].got,
         State(i)' # "none", State(i)' = "connecting" => e.ev = "error",
         Live(i)' => /\ e.ev # "close" /\ (e.ev = "error" => FailingIn(under, i))
                     /\ e.ev = "message" => e.n <= sock'[i].got
  PROVE  WInv'
<1>1. /\ EarsSound' /\ Calls(under)
      /\ \A j \in Id : Told(j)' \subseteq Told(j) \cup IF j = i THEN {e} ELSE {}
  BY TellKeeps DEF WInv
<1>2. /\ StackOf(stack', Begun') /\ (LookUnder(under) => LookUnder(stack'))
      /\ \A j : FailingIn(stack', j) <=> FailingIn(under, j)
  BY <1>1, CallsOn
<1>3. StackSound' /\ LookAsked'
  BY <1>2 DEF StackSound, LookAsked
<1>4. \A j \in Id : Failing(j)' <=> FailingIn(under, j)
  BY <1>2 DEF Failing
<1>5. ToldSound'
  BY <1>1, <1>4, EachGoesOn DEF WInv
<1> QED BY <1>1, <1>3, <1>5 DEF WInv

\* What a connection that is live was told, and may be.
LEMMA ToldOfLive ==
  ASSUME WInv, NEW i \in Id, Live(i), NEW b \in Told(i)
  PROVE  b.ev # "close"
BY DEF WInv, ToldSound

\* A connection fails: its page is told, and it is torn down after that.
LEMMA FailedKeeps ==
  ASSUME WInv, NEW i \in Id, Live(i), NEW under, Failed(i, under), UNCHANGED <<sock, looks>>,
         StackOf(under, Begun), LookUnder(stack) => LookUnder(under),
         \A j \in Id : Live(j) /\ Failing(j) => FailingIn(under, j)
  PROVE  WInv'
<1> DEFINE e == Event("error", 0)
           on == <<Frame("failed", i)>> \o under
<1>1. e \in EventRec /\ e.ev = "error" /\ Tell(i, e, on)
  BY DEF Event, EventRec, Failed
<1>2. /\ SockSound' /\ Begun' = Begun
      /\ \A j \in Id : State(j)' = State(j) /\ (Live(j)' <=> Live(j)) /\ (Listed(j)' <=> Listed(j))
      /\ \A j \in Id : sock[j].got <= sock'[j].got
  BY SocksSame DEF WInv, looks
<1>3. i \in Begun /\ State(i) # "none"
  BY DEF Begun, Live
<1>4. /\ StackOf(on, Begun) /\ (LookUnder(under) => LookUnder(on)) /\ FailingIn(on, i)
      /\ \A j : FailingIn(under, j) => FailingIn(on, j)
  BY <1>3, FailsOn
<1> HIDE DEF e, on
<1>5. \A b \in Told(i) : InTurn(b, e)
  BY <1>1, ToldOfLive DEF InTurn
<1>6. scheduled' \in BOOLEAN /\ ((\E j \in Id : Listed(j)') => scheduled' \/ LookUnder(on))
  BY <1>2, <1>4 DEF WInv, LookAsked, looks
<1> QED BY <1>1, <1>2, <1>3, <1>4, <1>5, <1>6, TellOn

LEMMA Ended == Finished \in SockRec /\ SendOf(Finished) /\ Finished.state = "done"
<1>1. <<>> \in Seq(Nat) /\ Len(<<>>) = 0
  OBVIOUS
<1>2. /\ Finished.out = <<>> /\ Finished.wire = <<>> /\ Finished.sent = 0
      /\ Finished.state = "done" /\ Finished \in SockRec
  BY <1>1 DEF Finished, NotYet, SockRec, SockState
<1> QED BY <1>1, <1>2 DEF SendOf

\* A connection is torn down, and its page is told.
LEMMA ClosedKeeps ==
  ASSUME WInv, NEW i \in Id, Live(i), NEW under, Closed(i, under), UNCHANGED looks,
         StackOf(under, Begun), LookUnder(stack) => LookUnder(under),
         \A j \in Id \ {i} : Live(j) /\ Failing(j) => FailingIn(under, j)
  PROVE  WInv'
<1> DEFINE e == Event("close", 0)
<1>1. e \in EventRec /\ e.ev = "close" /\ Tell(i, e, under)
  BY DEF Event, EventRec, Closed
<1>2. sock' = [sock EXCEPT ![i] = Finished] /\ UNCHANGED made /\ State(i) # "none"
  BY DEF Closed, looks, Live
<1>3. Finished \in SockRec /\ SendOf(Finished) /\ Finished.state = "done"
  BY Ended
<1>4. SockSound' /\ sock'[i] = Finished /\ \A j \in Id \ {i} : sock'[j] = sock[j]
  BY <1>2, <1>3, OneSock DEF WInv
<1>5. Begun' = Begun
  BY <1>3, <1>4 DEF Begun, State, Live
<1>6. \A j \in Id : /\ State(j)' = "none" => State(j) = "none"
                    /\ State(j)' = "connecting" => State(j) \in {"none", "connecting"}
                    /\ Listed(j)' => Listed(j)
                    /\ Live(j)' => j # i /\ Live(j) /\ sock'[j].got = sock[j].got
  BY <1>3, <1>4 DEF State, Live, Listed
<1>7. \A j \in Id : sock[j].got <= sock[j].got
  BY DEF WInv, SockSound, SockRec
<1>8. State(i)' = "done" /\ ~Live(i)'
  BY <1>3, <1>4 DEF State, Live
<1>9. scheduled' \in BOOLEAN /\ ((\E j \in Id : Listed(j)') => scheduled' \/ LookUnder(under))
  BY <1>6 DEF WInv, LookAsked, looks
<1> HIDE DEF e
<1>10. \A b \in Told(i) : InTurn(b, e)
  BY <1>1, ToldOfLive DEF InTurn
<1>11. \A j \in Id : Live(j)' =>
           /\ Live(j) \/ State(j) = "none"
           /\ Failing(j) => FailingIn(under, j)
           /\ sock[j].got <= sock'[j].got
  BY <1>6, <1>7
<1> QED BY <1>1, <1>4, <1>5, <1>6, <1>8, <1>9, <1>10, <1>11, TellOn

\* A live connection goes on, and its page is told nothing.
LEMMA SockGoesOn ==
  ASSUME WInv, NEW i \in Id, Live(i), NEW s \in SockRec, sock' = [sock EXCEPT ![i] = s],
         UNCHANGED <<made, page, heard>>, SendOf(s), sock[i].got <= s.got,
         s.state = State(i) \/ (State(i) = "open" /\ s.state = "closing"),
         StackOf(stack', Begun), \A j \in Id : Live(j) /\ Failing(j) => FailingIn(stack', j),
         scheduled' \in BOOLEAN, (\E j \in Id : Listed(j)) => scheduled' \/ LookUnder(stack')
  PROVE  WInv'
<1>1. s.state \in {"connecting", "open", "closing"} /\ State(i) \in {"connecting", "open", "closing"}
  BY DEF Live
<1>2. SockSound' /\ sock'[i] = s /\ \A j \in Id \ {i} : sock'[j] = sock[j]
  BY <1>1, OneSock DEF WInv
<1>3. \A j \in Id : /\ State(j)' = "none" => State(j) = "none"
                    /\ State(j)' = "connecting" => State(j) \in {"none", "connecting"}
                    /\ (Listed(j)' <=> Listed(j)) /\ (Live(j)' <=> Live(j))
  BY <1>1, <1>2 DEF State, Live, Listed
<1>4. \A j \in Id : sock[j].got <= sock'[j].got
  <2>1. \A j \in Id : sock[j].got <= sock[j].got
    BY DEF WInv, SockSound, SockRec
  <2> QED BY <1>2, <2>1
<1>5. Begun' = Begun
  BY <1>1, <1>2 DEF Begun, State
<1>6. page' \in PageRec /\ page'.held = page.held
  BY PageKept
<1>7. EarsSound' /\ \A j \in Id : Told(j)' = Told(j)
  BY <1>6, HeldSame DEF WInv
<1>8. StackSound' /\ LookAsked'
  BY <1>3, <1>5 DEF StackSound, LookAsked
<1>9. \A j \in Id : Failing(j)' <=> FailingIn(stack', j)
  BY DEF Failing
<1> QED BY <1>2, <1>3, <1>4, <1>7, <1>8, <1>9, NoneTold

\* What a connection has, and what is so of it when it may be sent on.
LEMMA SockOf ==
  ASSUME WInv, NEW i \in Id
  PROVE  /\ sock[i] \in SockRec /\ SendOf(sock[i]) /\ sock[i].state = State(i)
         /\ sock[i].got \in Nat /\ sock[i].got <= sock[i].got
         /\ Live(i) => i \in Begun /\ Listed(i) /\ State(i) # "none"
BY DEF WInv, SockSound, SockRec, State, Live, Begun, Listed

-----------------------------------------------------------------------------
(* The page's scripts.                                                     *)

LEMMA IdleStack ==
  ASSUME WInv, Idle
  PROVE  (\A i : ~Failing(i)) /\ ((\E i \in Id : Listed(i)) => scheduled)
<1>1. stack = <<>> /\ Len(stack) = 0
  BY DEF Idle
<1> QED BY <1>1 DEF Failing, FailingIn, WInv, LookAsked, LookUnder

LEMMA EmptyStack == ASSUME NEW S PROVE StackOf(<<>>, S) /\ \A i : ~FailingIn(<<>>, i)
<1>1. <<>> \in Seq(FrameRec) /\ Len(<<>>) = 0
  OBVIOUS
<1> QED BY <1>1 DEF StackOf, FailingIn

\* A handler is begun above what the thread is in the middle of.
LEMMA Enters ==
  ASSUME WInv, NEW at \in {"script", "close"}, NEW i \in 0..MaxId, at = "close" => i \in Id,
         stack' = <<Frame(at, i)>> \o stack, UNCHANGED <<sock, looks, heard>>,
         page' \in PageRec, page'.held = page.held
  PROVE  WInv'
<1> DEFINE f == Frame(at, i)
<1>1. f \in FrameRec /\ f.at = at /\ f.id = i /\ f.at \in Above /\ f.at # "failed"
  BY SocketAssumption DEF Frame, FrameRec, Above
<1>2. stack' = <<f>> \o stack /\ StackOf(stack, Begun)
  BY DEF WInv, StackSound
<1> HIDE DEF f
<1>3. /\ StackOf(<<f>> \o stack, Begun) /\ <<f>> \o stack # <<>>
      /\ (<<f>> \o stack)[Len(<<f>> \o stack)] = IF stack = <<>> THEN f ELSE stack[Len(stack)]
      /\ \A j : FailingIn(<<f>> \o stack, j) <=> FailingIn(stack, j) \/ f = Frame("failed", j)
  BY <1>1, <1>2, PushOn
<1>4. StackOf(stack', Begun) /\ \A j \in Id : Failing(j) => FailingIn(stack', j)
  BY <1>2, <1>3 DEF Failing
<1>5. LookUnder(stack) => LookUnder(stack')
  BY <1>2, <1>3 DEF LookUnder
<1> QED BY <1>4, <1>5, Moves DEF looks, WInv, LookAsked

LEMMA RunsScript == ASSUME WInv, RunScript PROVE WInv'
<1>1. stack' = <<Frame("script", 0)>> \o stack
  BY DEF RunScript, Idle
<1>2. page' \in PageRec /\ page'.held = page.held /\ 0 \in 0..MaxId
  BY PageKept, SocketAssumption DEF RunScript, ears
<1> QED BY <1>1, <1>2, Enters DEF RunScript, ears

\* A handler is done with, and nothing else of what is sound changes.
LEMMA Leaves ==
  ASSUME WInv, NEW at \in {"script", "close"}, In(at), stack' = Under, UNCHANGED <<sock, looks, ears>>
  PROVE  WInv'
<1>1. /\ StackOf(Under, Begun) /\ (LookUnder(stack) => LookUnder(Under))
      /\ \A i : Failing(i) => FailingIn(Under, i)
  BY AtHandler DEF WInv, Above
<1> QED BY <1>1, PageKept, Moves DEF looks, ears, WInv, LookAsked

LEMMA Opens == ASSUME WInv, Open PROVE WInv'
<1> DEFINE i == made + 1
           s(w) == [NotYet EXCEPT !.state = "connecting", !.waiting = w]
<1>1. /\ i \in Id /\ made' = i /\ i \in 0..MaxId /\ State(i) = "none" /\ State(i) = sock[i].state
      /\ scheduled' = TRUE /\ UNCHANGED <<page, heard, stack>>
  BY SocketAssumption DEF Open, WInv, SockSound, Id, ears, State
<1>2. PICK w \in BOOLEAN : sock' = [sock EXCEPT ![i] = s(w)]
  BY <1>1 DEF Open
<1>3. s(w) \in SockRec /\ SendOf(s(w)) /\ s(w).state = "connecting" /\ s(w).got = 0
  <2>1. <<>> \in Seq(Nat) /\ Len(<<>>) = 0
    OBVIOUS
  <2>2. /\ s(w).out = <<>> /\ s(w).wire = <<>> /\ s(w).sent = 0 /\ s(w).got = 0
        /\ s(w).state = "connecting" /\ s(w) \in SockRec
    BY <2>1 DEF NotYet, SockRec, SockState
  <2> QED BY <2>1, <2>2 DEF SendOf
<1> HIDE DEF s
<1>4. sock'[i] = s(w) /\ (\A j \in Id \ {i} : sock'[j] = sock[j]) /\ sock' \in [Id -> SockRec]
  BY <1>1, <1>2, <1>3 DEF WInv, SockSound
<1>5. SockSound'
  <2>1. \A j \in Id \ {i} : j > made <=> j > i
    BY <1>1 DEF WInv, SockSound, Id
  <2>2. ~(i > i)
    BY <1>1 DEF Id
  <2>3. ASSUME NEW j \in Id PROVE (State(j)' = "none" <=> j > made') /\ SendOf(sock'[j])
    <3>1. CASE j = i
      BY <1>1, <1>3, <1>4, <2>2, <3>1 DEF State
    <3>2. CASE j # i
      BY <1>1, <1>4, <2>1, <3>2 DEF WInv, SockSound, State
    <3> QED BY <3>1, <3>2
  <2> QED BY <1>1, <1>4, <2>3 DEF SockSound
<1>6. Begun \subseteq Begun'
  BY <1>1, <1>4 DEF Begun, State
<1>7. EarsSound' /\ \A j \in Id : Told(j)' = Told(j)
  BY <1>1, PageKept, HeldSame DEF WInv
<1>8. StackSound' /\ LookAsked'
  BY <1>1, <1>6, StackWider DEF WInv, StackSound, LookAsked
<1>9. \A j \in Id : /\ State(j)' = "none" => State(j) = "none"
                    /\ State(j)' = "connecting" => State(j) \in {"none", "connecting"}
                    /\ Live(j)' => Live(j) \/ State(j) = "none"
  BY <1>1, <1>3, <1>4 DEF State, Live
<1>10. ASSUME NEW j \in Id, Live(j)', j # i PROVE sock[j].got <= sock'[j].got
  BY <1>4, <1>10, SockOf
<1>11. \A j \in Id : Failing(j) => Failing(j)'
  BY <1>1 DEF Failing
<1> QED BY <1>1, <1>5, <1>7, <1>8, <1>9, <1>10, <1>11, NoneTold

LEMMA Sends == ASSUME WInv, NEW i \in Id, Send(i) PROVE WInv'
<1> DEFINE s == Queued(sock[i])
<1>1. PICK k \in 0..(IF sock[i].out = <<>> THEN 1 ELSE 0) : Flush(i, k, s, <<>>)
  BY DEF Send
<1>2. State(i) = "open" /\ Live(i) /\ scheduled' = TRUE /\ UNCHANGED <<made, page, heard, stack>>
  BY DEF Send, Live, ears
<1>3. s \in SockRec /\ SendOf(s) /\ s.state = "open" /\ s.got = sock[i].got /\ Len(s.out) = Len(sock[i].out) + 1
  BY <1>2, SockOf, QueuedKeeps
<1>4. k \in 0..Len(s.out)
  <2>1. sock[i].out \in Seq(Nat) /\ Len(sock[i].out) \in Nat
    BY SockOf DEF SockRec
  <2> QED BY <1>3, <2>1
<1>5. Flushed(s, k, <<>>) \in SockRec /\ SendOf(Flushed(s, k, <<>>))
      /\ Flushed(s, k, <<>>).state = "open" /\ Flushed(s, k, <<>>).got = sock[i].got
  BY <1>3, <1>4, FlushKeeps DEF MaybeClose
<1>6. sock' = [sock EXCEPT ![i] = Flushed(s, k, <<>>)]
  BY <1>1 DEF Flush, Flushed
<1> HIDE DEF s
<1>7. StackOf(stack', Begun) /\ \A j : Failing(j) => FailingIn(stack', j)
  BY <1>2 DEF WInv, StackSound, Failing
<1> QED BY <1>2, <1>5, <1>6, <1>7, SockOf, SockGoesOn

LEMMA Closes == ASSUME WInv, NEW i \in Id, Close(i) PROVE WInv'
<1>1. page' \in PageRec /\ page'.held = page.held
  BY SMTT(60), PageKept DEF Close, PageRec
<1>2. i \in 0..MaxId
  BY SocketAssumption DEF Id
<1> QED BY <1>1, <1>2, Enters DEF Close

LEMMA ClosesEarly == ASSUME WInv, CloseEarly \/ CloseFails PROVE WInv'
<1>1. In("close") /\ Failed(Here, Under) /\ UNCHANGED <<sock, looks>> /\ Live(Here)
  BY DEF CloseEarly, CloseFails, Live
<1>2. /\ StackOf(Under, Begun) /\ (LookUnder(stack) => LookUnder(Under)) /\ Here \in Id
      /\ \A j : Failing(j) => FailingIn(Under, j)
  BY <1>1, AtHandler DEF WInv, Above
<1> QED BY <1>1, <1>2, FailedKeeps

LEMMA ClosesOpen == ASSUME WInv, CloseOpen PROVE WInv'
<1> DEFINE s(i) == [sock[i] EXCEPT !.state = "closing"]
<1>1. /\ StackOf(Under, Begun) /\ (LookUnder(stack) => LookUnder(Under)) /\ Here \in Id
      /\ \A j : Failing(j) => FailingIn(Under, j)
  BY AtHandler DEF WInv, Above, CloseOpen
<1>2. PICK i \in Id : i = Here
  BY <1>1
<1>3. /\ State(i) = "open" /\ Live(i) /\ stack' = Under /\ scheduled' = TRUE
      /\ UNCHANGED <<made, page, heard>>
  BY <1>2 DEF CloseOpen, Live, ears
<1>4. PICK k \in Taken(i), c \in MaybeClose : Flush(i, k, s(i), c)
  BY <1>2 DEF CloseOpen
<1>5. /\ s(i) \in SockRec /\ s(i).state = "closing" /\ s(i).got = sock[i].got /\ s(i).out = sock[i].out
      /\ s(i).wire = sock[i].wire /\ s(i).sent = sock[i].sent
  BY SockOf DEF SockRec, SockState
<1> HIDE DEF s
<1>6. SendOf(s(i)) /\ s(i).wire = Whole(s(i).sent - Len(s(i).out))
  BY <1>3, <1>5, SockOf DEF SendOf, SentWhole
<1>7. k \in 0..Len(s(i).out)
  BY <1>4, <1>5 DEF Taken
<1>8. /\ Flushed(s(i), k, c) \in SockRec /\ SendOf(Flushed(s(i), k, c))
      /\ Flushed(s(i), k, c).state = "closing" /\ Flushed(s(i), k, c).got = sock[i].got
  BY <1>5, <1>6, <1>7, FlushKeeps
<1>9. sock' = [sock EXCEPT ![i] = Flushed(s(i), k, c)]
  BY <1>4 DEF Flush, Flushed
<1> QED BY <1>1, <1>3, <1>8, <1>9, SockOf, SockGoesOn

LEMMA PageCloses == ASSUME WInv, ClosePage PROVE WInv'
<1>1. /\ sock' = [i \in Id |-> IF Live(i) THEN Finished ELSE sock[i]]
      /\ page' = [page EXCEPT !.closed = TRUE, !.held = <<>>, !.asked = FALSE]
      /\ scheduled' = (scheduled \/ \E i \in Id : Listed(i))
      /\ UNCHANGED <<made, heard, stack>>
  BY DEF ClosePage
<1>2. \A j \in Id : (sock'[j] = sock[j] /\ ~Live(j)) \/ (sock'[j] = Finished /\ Live(j))
  BY <1>1
<1>3. \A j \in Id : /\ State(j)' = "none" <=> State(j) = "none"
                    /\ ~Live(j)' /\ State(j)' # "connecting" /\ (Listed(j)' <=> Listed(j))
  BY <1>2, Ended DEF State, Live, Listed
<1>4. SockSound'
  <2>1. sock' \in [Id -> SockRec]
    BY <1>1, Ended DEF WInv, SockSound
  <2>2. \A j \in Id : SendOf(sock'[j])
    BY <1>2, Ended DEF WInv, SockSound
  <2> QED BY <1>1, <1>3, <2>1, <2>2 DEF WInv, SockSound
<1>5. Begun' = Begun
  BY <1>2, Ended DEF Begun, State, Live
<1>6. page'.held = <<>> /\ page' \in PageRec
  <2>1. <<>> \in Seq(HeldRec)
    OBVIOUS
  <2> QED BY <1>1, <2>1, PageKept DEF PageRec
<1>7. EarsSound' /\ \A j \in Id : Told(j)' \subseteq Told(j)
  <2>1. Len(page'.held) = 0
    BY <1>6
  <2>2. HeardThenHeld'
    BY <1>1, <2>1 DEF WInv, EarsSound, HeardThenHeld
  <2>3. \A j \in Id : Told(j)' \subseteq Told(j)
    BY <1>1, <2>1 DEF Told
  <2> QED BY <1>1, <1>6, <2>2, <2>3 DEF WInv, EarsSound
<1>8. StackSound' /\ LookAsked'
  BY <1>1, <1>3, <1>5 DEF WInv, StackSound, LookAsked
<1> QED BY <1>3, <1>4, <1>7, <1>8, NoneTold

LEMMA FreezesOrThaws == ASSUME WInv, Freeze \/ Thaw PROVE WInv'
<1>1. page' \in PageRec /\ page'.held = page.held
  BY PageKept DEF Freeze, Thaw, PageRec
<1>2. UNCHANGED <<sock, made, scheduled, heard, stack>>
  BY DEF Freeze, Thaw, looks
<1> QED BY <1>1, <1>2, Moves DEF WInv, StackSound, LookAsked, Failing

-----------------------------------------------------------------------------
(* What was held back is told.                                             *)

LEMMA HeldComes == ASSUME WInv, HeldDue PROVE WInv'
<1> DEFINE f == Frame("held", 0)
<1>1. page' \in PageRec /\ page'.held = page.held
  BY PageKept DEF HeldDue, PageRec
<1>2. f \in FrameRec /\ f.at = "held"
  BY SocketAssumption DEF Frame, FrameRec
<1>3. f.at \notin Above
  BY <1>2 DEF Above
<1> HIDE DEF f
<1>4. StackOf(<<f>> \o <<>>, Begun) /\ <<f>> \o <<>> = <<f>>
  BY <1>2, <1>3, BaseOf
<1>5. stack' = <<f>> /\ UNCHANGED <<sock, made, scheduled, heard>>
  BY DEF HeldDue, looks, f
<1>6. (\A i : ~Failing(i)) /\ ((\E i \in Id : Listed(i)) => scheduled)
  BY IdleStack DEF HeldDue
<1> QED BY <1>1, <1>4, <1>5, <1>6, Moves DEF WInv, LookAsked

LEMMA HeldGoes == ASSUME WInv, HeldGoesOn PROVE WInv'
<1>1. Under = <<>> /\ \A i : ~Failing(i)
  BY AtBase DEF WInv, HeldGoesOn
<1>2. ~LookUnder(stack) /\ StackOf(stack, Begun)
  <2>1. StackOf(stack, Begun) /\ stack # <<>> /\ Head(stack).at = "held"
    BY DEF WInv, StackSound, HeldGoesOn, In
  <2>2. stack[Len(stack)] = Head(stack)
    BY <1>1, <2>1, PopOff DEF Under
  <2> QED BY <2>1, <2>2 DEF LookUnder, Looking
<1>3. (\E i \in Id : Listed(i)) => scheduled
  BY <1>2 DEF WInv, LookAsked
<1>4. UNCHANGED <<sock, made, scheduled>>
  BY DEF HeldGoesOn, looks
<1>5. CASE page'.held = page.held /\ page' \in PageRec /\ stack' = Under /\ UNCHANGED heard
  BY <1>1, <1>3, <1>4, <1>5, EmptyStack, Moves DEF WInv, LookAsked
<1>6. CASE /\ page.held # <<>>
           /\ Deliver(Head(page.held).id, Head(page.held).event, Tail(page.held), stack)
  <2>1. PICK h \in HeldRec : h = Head(page.held) /\ h = page.held[1] /\ Tail(page.held) \in Seq(HeldRec)
                             /\ 1 \in 1..Len(page.held)
    <3>1. page.held \in Seq(HeldRec)
      BY PageKept DEF PageRec
    <3> QED BY <1>6, <3>1, Popped
  <2>2. h.id \in Id /\ h.event \in EventRec /\ h = [id |-> h.id, event |-> h.event]
    BY DEF HeldRec
  <2>3. PICK i \in Id, e \in EventRec : i = h.id /\ e = h.event /\ h = [id |-> i, event |-> e]
    BY <2>2
  <2>4. Deliver(i, e, Tail(page.held), stack)
    BY <1>6, <2>1, <2>3
  <2>5. /\ page' \in PageRec /\ page'.held = Tail(page.held)
        /\ heard' = [heard EXCEPT ![i] = Append(@, e)] /\ Calls(stack)
    <3>1. ReadyAfter(i, e) \in 0..3
      BY PageKept DEF PageRec, ReadyAfter
    <3> QED BY <2>1, <2>4, <3>1, PageKept DEF Deliver, PageRec, Calls
  <2>6. \A k \in 1..Len(heard[i]) : InTurn(heard[i][k], e)
    BY <2>1, <2>3 DEF WInv, EarsSound, HeardThenHeld
  <2>7. EarsSound' /\ \A j \in Id : Told(j)' \subseteq Told(j) \cup IF j = i THEN {e} ELSE {}
    <3>1. Head(page.held) = [id |-> i, event |-> e]
      BY <2>1, <2>3
    <3> QED BY <1>6, <2>1, <2>5, <2>6, <3>1, HeardNext DEF WInv
  <2>8. e \in Told(i)
    BY <2>1, <2>3 DEF Told
  <2>9. StackOf(stack', Begun)
    BY <1>2, <2>5, CallsOn
  <2>10. /\ SockSound' /\ Begun' = Begun
         /\ \A j \in Id : State(j)' = State(j) /\ (Live(j)' <=> Live(j)) /\ (Listed(j)' <=> Listed(j))
         /\ \A j \in Id : sock[j].got <= sock'[j].got
    BY <1>4, SocksSame DEF WInv
  <2>11. StackSound' /\ LookAsked'
    BY <1>3, <1>4, <2>9, <2>10 DEF WInv, StackSound, LookAsked
  <2> QED BY <1>1, <2>7, <2>8, <2>10, <2>11, NoneTold
<1> QED BY <1>5, <1>6, PageKept DEF HeldGoesOn, ears, PageRec

-----------------------------------------------------------------------------
(* The look at every connection.                                           *)

\* What a look is in the middle of, and what may follow.
LEMMA LookAt ==
  ASSUME WInv, NEW at \in Looking, In(at)
  PROVE  /\ Under = <<>> /\ (\A i : ~Failing(i)) /\ StackOf(stack, Begun) /\ LookUnder(stack)
         /\ Here \in 0..MaxId+1 /\ (at \in {"receive", "late"} => Here \in Id)
<1>1. Under = <<>> /\ (\A i : ~Failing(i)) /\ Here \in 0..MaxId+1 /\ (at \in {"receive", "late"} => Here \in Id)
  BY AtBase DEF WInv
<1>2. StackOf(stack, Begun) /\ stack # <<>> /\ Head(stack).at = at
  BY DEF WInv, StackSound, In
<1>3. stack[Len(stack)] = Head(stack)
  BY <1>1, <1>2, PopOff DEF Under
<1> QED BY <1>1, <1>2, <1>3 DEF LookUnder

LEMMA Ids == \A i \in Id : i \in 0..MaxId+1
BY SocketAssumption DEF Id

LEMMA Ends == 0 \in 0..MaxId+1 /\ MaxId + 1 \in 0..MaxId+1
BY SocketAssumption

LEMMA LookComes == ASSUME WInv, PollDue PROVE WInv'
<1> DEFINE f == Frame("resolve", MaxId + 1)
<1>1. f \in FrameRec /\ f.at = "resolve"
  BY Ends DEF Frame, FrameRec, Looking
<1>2. f.at \notin Above /\ f.at \in Looking
  BY <1>1 DEF Above, Looking
<1> HIDE DEF f
<1>3. StackOf(<<f>>, Begun) /\ Len(<<f>>) = 1 /\ <<f>>[1] = f /\ <<f>> # <<>>
  BY <1>1, <1>2, BaseOf
<1>4. stack' = <<f>> /\ scheduled' = FALSE /\ UNCHANGED <<sock, made, page, heard>>
  BY DEF PollDue, ears, f
<1>5. \A i : ~Failing(i)
  BY IdleStack DEF PollDue
<1> QED BY <1>2, <1>3, <1>4, <1>5, PageKept, Moves DEF LookUnder

\* The steps of a look that only go on to the next.
LEMMA LookGoesOn ==
  ASSUME WInv, \/ ResolveEnds \/ ConnectEnds \/ ReceiveGone \/ ReceiveEnds
               \/ \E i \in Id : ResolvePending(i)
  PROVE  WInv'
<1>1. ASSUME NEW i \in Id, ResolvePending(i) PROVE WInv'
  BY <1>1, Ids, LookMoves DEF ResolvePending, Looking
<1>2. CASE ResolveEnds
  BY <1>2, Ends, LookMoves DEF ResolveEnds, Looking
<1>3. CASE ConnectEnds
  BY <1>3, Ends, LookMoves DEF ConnectEnds, Looking
<1>4. CASE ReceiveGone \/ ReceiveEnds
  <2>1. In("receive") /\ "receive" \in Looking /\ UNCHANGED <<sock, looks, ears>>
        /\ (GoOn("read", Here) \/ GoOn("late", Here)) /\ "read" \in Looking /\ "late" \in Looking
    BY <1>4 DEF ReceiveGone, ReceiveEnds, Looking
  <2>2. Here \in Id /\ Here \in 0..MaxId+1
    BY <2>1, LookAt
  <2> QED BY <2>1, <2>2, LookMoves
<1> QED BY <1>1, <1>2, <1>3, <1>4

\* A connection that the look is at fails, and the look goes on.
LEMMA LookFails ==
  ASSUME WInv, NEW at \in Looking, In(at), NEW i \in Id, Live(i), UNCHANGED <<sock, looks>>,
         NEW to \in Looking, NEW j \in 0..MaxId+1, to \in {"receive", "late"} => j \in Id,
         Failed(i, Then(to, j))
  PROVE  WInv'
<1>1. Under = <<>> /\ \A h : ~Failing(h)
  BY LookAt
<1>2. StackOf(Then(to, j), Begun) /\ LookUnder(Then(to, j))
  BY <1>1, GoesOn
<1> QED BY <1>1, <1>2, FailedKeeps

LEMMA LookCloses ==
  ASSUME WInv, NEW at \in Looking, In(at), NEW i \in Id, Live(i), UNCHANGED looks,
         NEW to \in Looking, NEW j \in 0..MaxId+1, to \in {"receive", "late"} => j \in Id,
         Closed(i, Then(to, j))
  PROVE  WInv'
<1>1. Under = <<>> /\ \A h : ~Failing(h)
  BY LookAt
<1>2. StackOf(Then(to, j), Begun) /\ LookUnder(Then(to, j))
  BY <1>1, GoesOn
<1> QED BY <1>1, <1>2, ClosedKeeps

LEMMA Resolves == ASSUME WInv, NEW i \in Id, Resolved(i) PROVE WInv'
<1>1. /\ In("resolve") /\ "resolve" \in Looking /\ UNCHANGED looks
      /\ State(i) = "connecting" /\ Live(i) /\ i \in 0..MaxId+1
  BY Ids DEF Resolved, NextOf, Waiting, Looking, Live
<1>2. CASE Failed(i, Then("resolve", i)) /\ UNCHANGED sock
  BY <1>1, <1>2, LookFails
<1>3. CASE sock' = [sock EXCEPT ![i].waiting = FALSE] /\ GoOn("resolve", i) /\ UNCHANGED ears
  <2> DEFINE s == [sock[i] EXCEPT !.waiting = FALSE]
  <2>1. /\ s \in SockRec /\ s.state = State(i) /\ s.got = sock[i].got /\ s.out = sock[i].out
        /\ s.wire = sock[i].wire /\ s.sent = sock[i].sent
    BY SockOf DEF SockRec
  <2>2. sock' = [sock EXCEPT ![i] = s]
    BY <1>3
  <2> HIDE DEF s
  <2>3. SendOf(s)
    BY <1>1, <2>1, SockOf DEF SendOf
  <2>4. Under = <<>> /\ \A h : ~Failing(h)
    BY <1>1, LookAt
  <2>5. StackOf(stack', Begun) /\ LookUnder(stack')
    BY <1>1, <1>3, <2>4, GoesOn DEF GoOn
  <2>6. UNCHANGED <<made, page, heard>> /\ scheduled' \in BOOLEAN
    BY <1>1, <1>3 DEF looks, ears, WInv, LookAsked
  <2> QED BY <1>1, <2>1, <2>2, <2>3, <2>4, <2>5, <2>6, SockOf, SockGoesOn
<1> QED BY <1>2, <1>3 DEF Resolved

LEMMA Connects == ASSUME WInv, NEW i \in Id, Connected(i) PROVE WInv'
<1>1. /\ In("connect") /\ "connect" \in Looking /\ UNCHANGED looks
      /\ State(i) = "connecting" /\ Live(i)
  BY DEF Connected, Looking, Live
<1>2. /\ \A j : ~Failing(j)
      /\ StackOf(stack, Begun) /\ LookUnder(stack)
  BY <1>1, LookAt
<1>3. CASE Failed(i, stack) /\ UNCHANGED sock
  BY <1>1, <1>2, <1>3, FailedKeeps
<1>4. CASE sock' = [sock EXCEPT ![i].state = "open"] /\ Tell(i, Event("open", 0), stack)
  <2> DEFINE s == [sock[i] EXCEPT !.state = "open"]
             e == Event("open", 0)
  <2>1. /\ s \in SockRec /\ s.state = "open" /\ s.got = sock[i].got /\ s.out = sock[i].out
        /\ s.wire = sock[i].wire /\ s.sent = sock[i].sent
    BY SockOf DEF SockRec, SockState
  <2>2. sock' = [sock EXCEPT ![i] = s]
    BY <1>4
  <2>3. e \in EventRec /\ e.ev = "open" /\ Tell(i, e, stack)
    BY <1>4 DEF Event, EventRec
  <2> HIDE DEF s, e
  <2>4. SendOf(s)
    <3>1. s.out = <<>> /\ s.wire = <<>> /\ s.sent = 0
      BY <1>1, <2>1, SockOf DEF SendOf
    <3>2. Len(<<>>) = 0 /\ <<>> = Whole(0) /\ <<>> = [k \in 1..0 |-> 0 + k]
      BY DEF Whole
    <3>3. s.out = [k \in 1..Len(s.out) |-> (s.sent - Len(s.out)) + k] /\ s.wire = Whole(s.sent - Len(s.out))
      BY <3>1, <3>2
    <3> QED BY <2>1, <3>1, <3>2, <3>3 DEF SendOf, SentWhole
  <2>5. SockSound' /\ sock'[i] = s /\ \A j \in Id \ {i} : sock'[j] = sock[j]
    BY <1>1, <2>1, <2>2, <2>4, OneSock DEF WInv, looks
  <2>6. Begun' = Begun
    BY <1>1, <2>1, <2>5 DEF Begun, State
  <2>7. \A j \in Id : /\ State(j)' = "none" => State(j) = "none"
                      /\ State(j)' = "connecting" => State(j) \in {"none", "connecting"}
                      /\ Live(j)' => Live(j)
                      /\ sock[j].got <= sock'[j].got
    <3>1. ASSUME NEW j \in Id, j # i PROVE sock'[j] = sock[j] /\ sock[j].got <= sock'[j].got
      BY <2>5, <3>1, SockOf
    <3>2. sock[i].got <= sock'[i].got /\ State(i)' = "open"
      BY <2>1, <2>5, SockOf DEF State
    <3> QED BY <1>1, <3>1, <3>2 DEF State, Live
  <2>8. State(i)' = "open"
    BY <2>1, <2>5 DEF State
  <2>9. \A b \in Told(i) : FALSE
    BY <1>1, <1>2 DEF WInv, ToldSound
  <2>10. scheduled' \in BOOLEAN
    BY <1>1 DEF looks, WInv, LookAsked
  <2> QED BY <1>1, <1>2, <2>3, <2>5, <2>6, <2>7, <2>8, <2>9, <2>10, TellOn
<1> QED BY <1>3, <1>4 DEF Connected

LEMMA SendsQueued == ASSUME WInv, NEW i \in Id, SendQueued(i) PROVE WInv'
<1>1. /\ In("read") /\ "read" \in Looking /\ UNCHANGED <<made, scheduled, page, heard>>
      /\ State(i) \in {"open", "closing"} /\ Live(i) /\ i \in 0..MaxId+1
      /\ GoOn("receive", i) /\ "receive" \in Looking
  BY Ids DEF SendQueued, NextOf, Reading, Looking, Live, looks, ears
<1>2. PICK k \in 0..Len(sock[i].out) : sock' = [sock EXCEPT ![i] = Flushed(sock[i], k, <<>>)]
  BY DEF SendQueued, Taken, Flush, Flushed
<1>3. /\ Flushed(sock[i], k, <<>>) \in SockRec /\ SendOf(Flushed(sock[i], k, <<>>))
      /\ Flushed(sock[i], k, <<>>).state = State(i) /\ Flushed(sock[i], k, <<>>).got = sock[i].got
  BY <1>1, SockOf, FlushKeeps DEF MaybeClose
<1>4. Under = <<>> /\ \A h : ~Failing(h)
  BY <1>1, LookAt
<1>5. StackOf(stack', Begun) /\ LookUnder(stack')
  BY <1>1, <1>4, GoesOn DEF GoOn
<1>6. scheduled' \in BOOLEAN
  BY <1>1 DEF WInv, LookAsked
<1> QED BY <1>1, <1>2, <1>3, <1>4, <1>5, <1>6, SockOf, SockGoesOn

LEMMA SendingFails == ASSUME WInv, NEW i \in Id, SendFails(i) PROVE WInv'
<1>1. /\ In("read") /\ "read" \in Looking /\ UNCHANGED <<sock, looks>>
      /\ Live(i) /\ i \in 0..MaxId+1 /\ Failed(i, Then("read", i))
  BY Ids DEF SendFails, NextOf, Reading, Looking, Live
<1> QED BY <1>1, LookFails

LEMMA Receives == ASSUME WInv, Receive PROVE WInv'
<1>1. In("receive") /\ "receive" \in Looking /\ UNCHANGED looks
  BY DEF Receive, Looking
<1>2. /\ \A j : ~Failing(j)
      /\ Under = <<>> /\ Here \in Id
  BY <1>1, LookAt
<1>3. PICK i \in Id : i = Here
  BY <1>2
<1>4. State(i) \in {"open", "closing"} /\ Live(i)
  BY <1>3 DEF Receive, Reading, Live
<1> DEFINE s == [sock[i] EXCEPT !.got = @ + 1]
           e == Event("message", sock[i].got + 1)
<1>5. /\ s \in SockRec /\ s.got = sock[i].got + 1 /\ s.state = State(i) /\ s.out = sock[i].out
      /\ s.wire = sock[i].wire /\ s.sent = sock[i].sent /\ sock[i].got \in Nat /\ sock[i].got <= s.got
  <2>1. sock[i] \in SockRec /\ sock[i].state = State(i) /\ sock[i].got \in Nat
    BY SockOf
  <2>2. sock[i].got + 1 \in Nat /\ sock[i].got <= sock[i].got + 1
    BY <2>1
  <2>3. s = [sock[i] EXCEPT !.got = sock[i].got + 1]
    OBVIOUS
  <2> HIDE DEF s
  <2>4. /\ s.got = sock[i].got + 1 /\ s.state = sock[i].state /\ s.out = sock[i].out
        /\ s.wire = sock[i].wire /\ s.sent = sock[i].sent
    BY <2>1, <2>3 DEF SockRec
  <2>5. s \in SockRec
    BY <2>1, <2>2, <2>3 DEF SockRec
  <2> QED BY <2>1, <2>2, <2>4, <2>5
<1>6. sock' = [sock EXCEPT ![i] = s]
  BY <1>3 DEF Receive
<1> HIDE DEF s
<1>7. SendOf(s)
  BY <1>4, <1>5, SockOf DEF SendOf, SentWhole
<1>8. SockSound' /\ sock'[i] = s /\ \A j \in Id \ {i} : sock'[j] = sock[j]
  BY <1>1, <1>4, <1>5, <1>6, <1>7, OneSock DEF WInv, looks
<1>9. PICK next \in {"receive", "late"} :
        IF State(i) = "open" THEN Tell(i, e, Then(next, i))
                             ELSE GoOn(next, i) /\ UNCHANGED ears
  <2>1. sock'[i].got = sock[i].got + 1
    BY <1>5, <1>8
  <2> QED BY <1>3, <2>1 DEF Receive
<1>10. StackOf(Then(next, i), Begun) /\ LookUnder(Then(next, i))
  BY <1>2, Ids, GoesOn DEF Looking
<1>11. scheduled' \in BOOLEAN
  BY <1>1 DEF looks, WInv, LookAsked
<1>12. CASE State(i) # "open"
  <2>1. stack' = Then(next, i) /\ UNCHANGED <<made, page, heard>>
    BY <1>1, <1>9, <1>12 DEF GoOn, ears, looks
  <2> QED BY <1>2, <1>4, <1>5, <1>6, <1>7, <1>10, <1>11, <2>1, SockGoesOn
<1>13. CASE State(i) = "open"
  <2>1. e \in EventRec /\ e.ev = "message" /\ e.n = sock[i].got + 1 /\ Tell(i, e, Then(next, i))
    BY <1>5, <1>9, <1>13 DEF Event, EventRec
  <2> HIDE DEF e
  <2>2. \A b \in Told(i) : InTurn(b, e)
    <3> TAKE b \in Told(i)
    <3>1. /\ b.ev # "close" /\ b.ev # "error"
          /\ b.ev = "message" => b.n <= sock[i].got
      BY <1>2, <1>4 DEF WInv, ToldSound
    <3>2. b.ev \in {"open", "message", "error", "close"} /\ b.n \in Nat
      BY AreEvents DEF WInv, EventRec
    <3>3. b.ev = "message" => b.n < e.n
      BY <1>5, <2>1, <3>1, <3>2
    <3> QED BY <2>1, <3>1, <3>2, <3>3 DEF InTurn
  <2>3. State(i)' = "open" /\ e.n <= sock'[i].got
    BY <1>5, <1>8, <1>13, <2>1 DEF State
  <2>4. Begun' = Begun
    BY <1>8, <1>13, <2>3 DEF Begun, State
  <2>5. \A j \in Id : /\ State(j)' = "none" => State(j) = "none"
                      /\ State(j)' = "connecting" => State(j) \in {"none", "connecting"}
                      /\ Live(j)' => Live(j)
                      /\ sock[j].got <= sock'[j].got
    <3>1. ASSUME NEW j \in Id, j # i PROVE sock'[j] = sock[j] /\ sock[j].got <= sock'[j].got
      BY <1>8, <3>1, SockOf
    <3>2. sock[i].got <= sock'[i].got
      BY <1>5, <1>8
    <3> QED BY <1>4, <2>3, <3>1, <3>2 DEF State, Live
  <2> QED BY <1>2, <1>8, <1>10, <1>11, <2>1, <2>2, <2>3, <2>4, <2>5, TellOn
<1> QED BY <1>12, <1>13

LEMMA Ending == ASSUME WInv, ServerCloses \/ ReceiveFails \/ GiveUpClosing PROVE WInv'
<1>1. /\ In("receive") \/ In("late")
      /\ UNCHANGED looks /\ "receive" \in Looking /\ "late" \in Looking /\ "read" \in Looking
  BY DEF ServerCloses, ReceiveFails, GiveUpClosing, Looking
<1>2. PICK i \in Id : i = Here /\ i \in 0..MaxId+1
  BY <1>1, LookAt, Ids
<1>3. CASE ServerCloses
  <2>1. In("receive") /\ Live(i) /\ Closed(i, Then("read", i))
    BY <1>2, <1>3 DEF ServerCloses, Reading, Live
  <2> QED BY <1>1, <1>2, <2>1, LookCloses
<1>4. CASE ReceiveFails
  <2>1. In("receive") /\ Live(i) /\ Failed(i, Then("read", i)) /\ UNCHANGED sock
    BY <1>2, <1>4 DEF ReceiveFails, Reading, Live
  <2> QED BY <1>1, <1>2, <2>1, LookFails
<1>5. CASE GiveUpClosing
  <2>1. In("late")
    BY <1>5 DEF GiveUpClosing
  <2>2. CASE Overdue(i) /\ Closed(i, Then("read", i))
    <3>1. Live(i)
      BY <2>2 DEF Overdue, Live
    <3> QED BY <1>1, <1>2, <2>1, <2>2, <3>1, LookCloses
  <2>3. CASE GoOn("read", i) /\ UNCHANGED <<sock, ears>>
    BY <1>1, <1>2, <2>1, <2>3, LookMoves
  <2> QED BY <1>2, <1>5, <2>2, <2>3 DEF GiveUpClosing
<1> QED BY <1>3, <1>4, <1>5

LEMMA FailingGoesOn == ASSUME WInv, FailedGoesOn PROVE WInv'
<1>1. In("failed") /\ UNCHANGED looks
  BY DEF FailedGoesOn
<1>2. /\ StackOf(Under, Begun) /\ (LookUnder(stack) => LookUnder(Under)) /\ Here \in Begun
      /\ \A j : Failing(j) => FailingIn(Under, j) \/ j = Here
  BY <1>1, AtHandler DEF WInv, Above
<1>3. PICK i \in Id : i = Here /\ State(i) \notin {"none", "freed"} /\ State(i) \in SockState
  BY <1>2, SockOf DEF Begun, SockRec
<1>4. CASE State(i) # "done" /\ Closed(i, Under)
  <2>1. Live(i)
    BY <1>3, <1>4 DEF SockState, Live
  <2> QED BY <1>1, <1>2, <1>3, <1>4, <2>1, ClosedKeeps
<1>5. CASE State(i) = "done" /\ stack' = Under /\ UNCHANGED <<sock, ears>>
  <2>1. \A j \in Id : Live(j) /\ Failing(j) => FailingIn(Under, j)
    BY <1>2, <1>3, <1>5 DEF Live
  <2>2. UNCHANGED <<sock, made, page, heard, scheduled>>
    BY <1>1, <1>5 DEF looks, ears
  <2> QED BY <1>2, <1>5, <2>1, <2>2, PageKept, Moves DEF WInv, LookAsked
<1> QED BY <1>3, <1>4, <1>5 DEF FailedGoesOn

LEMMA LookIsOver == ASSUME WInv, PollEnds PROVE WInv'
<1>1. /\ In("read") /\ "read" \in Looking /\ UNCHANGED <<made, page, heard>>
      /\ sock' = [i \in Id |-> IF Done(i) THEN [sock[i] EXCEPT !.state = "freed"] ELSE sock[i]]
      /\ scheduled' = (scheduled \/ \E i \in Id : Live(i)) /\ stack' = Under
  BY DEF PollEnds, Looking, ears, LookAgain
<1>2. Under = <<>> /\ \A h : ~Failing(h)
  BY <1>1, LookAt
<1>3. ASSUME NEW j \in Id
      PROVE  /\ sock'[j] \in SockRec /\ SendOf(sock'[j]) /\ sock'[j].got = sock[j].got
             /\ (State(j)' = State(j) /\ State(j) # "done") \/ (State(j)' = "freed" /\ State(j) = "done")
  <2>1. CASE ~Done(j)
    BY <1>1, <2>1, SockOf DEF State, Done
  <2>2. CASE Done(j)
    <3> DEFINE s == [sock[j] EXCEPT !.state = "freed"]
    <3>1. /\ s \in SockRec /\ s.state = "freed" /\ s.got = sock[j].got /\ s.out = sock[j].out
          /\ s.wire = sock[j].wire /\ s.sent = sock[j].sent
      BY SockOf DEF SockRec, SockState
    <3>2. sock'[j] = s
      BY <1>1, <2>2
    <3> HIDE DEF s
    <3>3. SendOf(s)
      BY <3>1, SockOf DEF SendOf
    <3> QED BY <2>2, <3>1, <3>2, <3>3 DEF State, Done
  <2> QED BY <2>1, <2>2
<1>4. SockSound'
  <2>1. sock' \in [Id -> SockRec]
    BY <1>1, <1>3
  <2>2. \A j \in Id : State(j)' = "none" <=> State(j) = "none"
    BY <1>3
  <2> QED BY <1>1, <1>3, <2>1, <2>2 DEF WInv, SockSound
<1>5. EarsSound' /\ \A j \in Id : Told(j)' = Told(j)
  BY <1>1, PageKept, HeldSame DEF WInv
<1>6. StackSound'
  BY <1>1, <1>2, EmptyStack DEF StackSound
<1>7. LookAsked'
  <2>1. ASSUME NEW j \in Id, Listed(j)' PROVE Live(j)
    <3>1. State(j) \in SockState
      BY SockOf DEF SockRec
    <3> QED BY <1>3, <2>1, <3>1 DEF Listed, Live, SockState
  <2> QED BY <1>1, <2>1 DEF WInv, LookAsked
<1>8. \A j \in Id : /\ State(j)' = "none" => State(j) = "none"
                    /\ State(j)' = "connecting" => State(j) \in {"none", "connecting"}
                    /\ Live(j)' => Live(j)
                    /\ sock[j].got <= sock'[j].got
  BY <1>3, SockOf DEF Live
<1> QED BY <1>2, <1>4, <1>5, <1>6, <1>7, <1>8, NoneTold

LEMMA BecomesLate == ASSUME WInv, NEW i \in Id, TimePasses(i) PROVE WInv'
<1> DEFINE s == [sock[i] EXCEPT !.late = TRUE]
<1>1. /\ s \in SockRec /\ s.state = State(i) /\ s.got = sock[i].got /\ s.out = sock[i].out
      /\ s.wire = sock[i].wire /\ s.sent = sock[i].sent
  BY SockOf DEF SockRec
<1>2. /\ sock' = [sock EXCEPT ![i] = s] /\ State(i) = "closing" /\ Live(i)
      /\ UNCHANGED <<made, scheduled, page, heard, stack>>
  BY DEF TimePasses, looks, ears, Live
<1> HIDE DEF s
<1>3. SendOf(s)
  BY <1>1, <1>2, SockOf DEF SendOf, SentWhole
<1> QED BY <1>1, <1>2, <1>3, SockOf, SockGoesOn DEF WInv, StackSound, LookAsked, Failing

-----------------------------------------------------------------------------
(* What follows.                                                           *)

LEMMA WBegins == ASSUME Init PROVE WInv
<1>1. <<>> \in Seq(Nat) /\ <<>> \in Seq(HeldRec) /\ <<>> \in Seq(EventRec) /\ Len(<<>>) = 0
  OBVIOUS
<1>2. NotYet \in SockRec /\ NotYet.state = "none" /\ SendOf(NotYet)
  <2>1. /\ NotYet \in SockRec /\ NotYet.state = "none"
        /\ NotYet.out = <<>> /\ NotYet.wire = <<>> /\ NotYet.sent = 0
    BY <1>1 DEF NotYet, SockRec, SockState
  <2> QED BY <1>1, <2>1 DEF SendOf
<1>3. SockSound /\ \A i \in Id : State(i) = "none"
  <2>1. \A i \in Id : i > 0
    BY DEF Id
  <2>2. 0 \in 0..MaxId
    BY SocketAssumption
  <2> QED BY <1>2, <2>1, <2>2 DEF Init, SockSound, State
<1>4. page \in PageRec /\ page.held = <<>> /\ heard \in [Id -> Seq(EventRec)]
      /\ \A i \in Id : heard[i] = <<>>
  BY <1>1 DEF Init, PageRec
<1>5. EarsSound
  BY <1>1, <1>4 DEF EarsSound, HeardThenHeld
<1>6. \A i \in Id : Told(i) = {}
  BY <1>1, <1>4 DEF Told
<1>7. StackSound
  BY EmptyStack DEF StackSound, Init
<1> QED BY <1>3, <1>5, <1>6, <1>7 DEF WInv, ToldSound, Live, LookAsked, Listed, Init

LEMMA WGoesOn == ASSUME WInv, [Next]_vars PROVE WInv'
<1>1. CASE RunScript \/ ScriptEnds \/ Open \/ CloseEarly \/ CloseNothing \/ CloseOpen \/ CloseFails
  <2>1. CASE ScriptEnds \/ CloseNothing
    BY <2>1, Leaves DEF ScriptEnds, CloseNothing
  <2> QED BY <1>1, <2>1, RunsScript, Opens, ClosesEarly, ClosesOpen
<1>2. ASSUME NEW i \in Id, \/ Send(i) \/ Close(i) \/ Resolved(i) \/ Connected(i) \/ TimePasses(i)
                           \/ SendQueued(i) \/ SendFails(i) \/ ResolvePending(i)
      PROVE  WInv'
  BY <1>2, Sends, Closes, Resolves, Connects, BecomesLate, SendsQueued, SendingFails, LookGoesOn
<1>3. CASE ClosePage \/ Freeze \/ Thaw \/ HeldDue \/ HeldGoesOn \/ PollDue
  BY <1>3, PageCloses, FreezesOrThaws, HeldComes, HeldGoes, LookComes
<1>4. CASE \/ ResolveEnds \/ ConnectEnds \/ FailedGoesOn \/ Receive \/ ReceiveGone \/ ReceiveEnds
           \/ ServerCloses \/ ReceiveFails \/ GiveUpClosing \/ PollEnds
  BY <1>4, LookGoesOn, FailingGoesOn, Receives, Ending, LookIsOver
<1>5. CASE UNCHANGED vars
  <2>1. UNCHANGED <<sock, made, scheduled, page, heard, stack>>
    BY <1>5 DEF vars, looks, ears
  <2> QED BY <2>1, PageKept, Moves DEF WInv, StackSound, LookAsked, Failing
<1> QED BY <1>1, <1>2, <1>3, <1>4, <1>5 DEF Next, PollStep

LEMMA WThroughout == Spec => []WInv
<1>1. Init => WInv
  BY WBegins
<1>2. WInv /\ [Next]_vars => WInv'
  BY WGoesOn
<1> QED BY <1>1, <1>2, PTL DEF Spec

LEMMA WTypes == ASSUME WInv PROVE TypeOK
<1>1. sock \in [Id -> SockRec] /\ made \in 0..MaxId /\ \A i \in Id : State(i) = "none" <=> i > made
  BY DEF WInv, SockSound
<1>2. page \in PageRec /\ heard \in [Id -> Seq(EventRec)] /\ scheduled \in BOOLEAN
  BY DEF WInv, EarsSound, LookAsked
<1>3. stack \in Seq(FrameRec)
  BY DEF WInv, StackSound, StackOf
<1>4. Above \cup Looking \cup {"held"}
        = {"script", "close", "failed", "held", "resolve", "connect", "read", "receive", "late"}
  BY DEF Above, Looking
<1> QED BY <1>1, <1>2, <1>3, <1>4 DEF TypeOK, SockRec, SockState, PageRec, HeldRec, FrameRec

\* A page's connections are sound for any number of them and of messages: a page
\* hears of each in order, whatever is held back while it is frozen and whatever
\* its handlers do in between; what it sends is taken in order or still queued,
\* with one close frame at most; and while there is a connection a look at it is
\* asked for or under way.
THEOREM SocketsStaySound == Spec => []SocketsSound
<1>1. ASSUME WInv PROVE SocketsSound
  <2>1. ASSUME NEW i \in Id, NEW k \in DOMAIN heard[i], NEW j \in 1..k-1
        PROVE  InTurn(heard[i][j], heard[i][k])
    <3>1. heard[i] \in Seq(EventRec)
      BY <1>1 DEF WInv, EarsSound
    <3>2. k \in 1..Len(heard[i])
      BY <3>1
    <3> QED BY <1>1, <3>2 DEF WInv, EarsSound, HeardThenHeld
  <2>2. HeardInOrder
    BY <2>1 DEF HeardInOrder, InTurn
  <2>3. NothingLost
    BY <1>1 DEF WInv, SockSound, SendOf, NothingLost, State
  <2>4. PollAsked
    BY <1>1 DEF WInv, LookAsked, LookUnder, Looking, PollAsked
  <2> QED BY <1>1, <2>2, <2>3, <2>4, WTypes DEF SocketsSound
<1>2. WInv => SocketsSound
  BY <1>1
<1> QED BY <1>2, WThroughout, PTL

-----------------------------------------------------------------------------

\* The agenda is in order, soonest first and each callback once, and those that
\* have their turn in the round come before all others (schedule_run).
THEOREM AgendaStaysSound == HostSpec => []AgendaSound
<1>1. HostInit => Promised!AInv
  BY Promised!AInvInit DEF HostInit
<1>2. Promised!AInv /\ [HostNext]_hostVars => Promised!AInv'
  <2> SUFFICES ASSUME Promised!AInv, [HostNext]_hostVars PROVE Promised!AInv'
    OBVIOUS
  <2>1. [Promised!Next]_(Promised!vars)
    BY DEF HostNext, hostVars, Promised!vars
  <2> QED BY <2>1, Promised!AInvNext, DelayAssumption
<1>3. Promised!AInv => AgendaSound
  BY Promised!AInvIsSound DEF AgendaSound
<1> QED BY <1>1, <1>2, <1>3, PTL DEF HostSpec
=============================================================================
