---------------------------- MODULE ResolveProofs ----------------------------
(***************************************************************************)
(* Theorems about Resolve, for every number of slots, threads and hosts,   *)
(* and about FetchResolve, for every set of fetches and of hosts they      *)
(* want: the list of those that wait, who finishes them, and that all of   *)
(* it is a behaviour of Resolve, whose theorems hold of it too.            *)
(***************************************************************************)
EXTENDS FetchResolve, FiniteSetTheorems, SequenceTheorems, TLAPS

\* What a step of the main thread inside vita_resolve_fini, and a thread's
\* step, take for granted about the slot they are at.
AtASlot ==
  /\ main.pc \in {"read rid", "abort"} => main.slot \in Slot
  /\ \A t \in Tid : Live(t) => thread[t].slot \in Slot

\* The clock's reading is a stamp.
LEMMA NowType == ASSUME elapsed \in 0..MaxElapsed PROVE now \in Stamp
  BY ClockAssumption DEF now, Stamp

\* The address of a slot without one is an address.
LEMMA NoAddrType == NoAddr \in Found
  BY HostAssumption DEF NoAddr, Found

\* A record stays one of its type when fields of theirs are written.
LEMMA SlotFields ==
  ASSUME NEW r \in SlotRec
  PROVE  /\ \A x \in Found : [r EXCEPT !.found = x] \in SlotRec
         /\ \A f \in Fail : [r EXCEPT !.fail = f] \in SlotRec
         /\ \A b \in BOOLEAN : [r EXCEPT !.rid = b] \in SlotRec
         /\ \A n \in Stamp : [r EXCEPT !.done = n] \in SlotRec
         /\ \A n \in Stamp : [r EXCEPT !.used = n] \in SlotRec
         /\ \A st \in {"empty"} \cup Unsettled \cup Settled : [r EXCEPT !.state = st] \in SlotRec
  BY DEF SlotRec

\* The same of a thread's record, which keeps its slot.
LEMMA ThreadFields ==
  ASSUME NEW r \in ThreadRec
  PROVE  /\ \A pc \in {"create", "ask", "stamp", "publish"} :
              [r EXCEPT !.pc = pc] \in ThreadRec /\ [r EXCEPT !.pc = pc].slot = r.slot
         /\ \A g \in Settled : LET q == [r EXCEPT !.pc = "destroy", !.got = g]
                                 IN q \in ThreadRec /\ q.slot = r.slot
         /\ [r EXCEPT !.aborted = TRUE] \in ThreadRec
         /\ [r EXCEPT !.aborted = TRUE].slot = r.slot /\ [r EXCEPT !.aborted = TRUE].pc = r.pc
         /\ r.host \in Host \cup {NoHost} /\ r.slot \in Slot \cup {None}
  BY DEF ThreadRec

\* The same of the main thread's, as vita_resolve starts and returns at once.
LEMMA MainFields ==
  ASSUME NEW m \in MainRec, NEW h \in Host, NEW s \in Slot \cup {None}
  PROVE  /\ LET q == [m EXCEPT !.pc = "count", !.host = h, !.slot = s]
            IN q \in MainRec /\ q.pc = "count"
         /\ \A a \in RetRec : LET q == [m EXCEPT !.pc = "return", !.host = h, !.slot = s, !.ret = a]
                              IN q \in MainRec /\ q.pc = "return"
  BY DEF MainRec

\* The same of its count of the lookups running.
LEMMA Counted ==
  ASSUME NEW m \in MainRec, NEW n \in Nat
  PROVE  /\ LET q == [m EXCEPT !.pc = "start", !.running = n] IN q \in MainRec /\ q.pc = "start"
         /\ LET q == [m EXCEPT !.running = n] IN q \in MainRec /\ q.pc = m.pc
  BY DEF MainRec

\* The tables are finite.
LEMMA SlotsFinite == IsFiniteSet(Slot) /\ IsFiniteSet(Tid)
  BY SlotsAssumption, FS_Interval DEF Slot, Tid

\* A thread that has ended is a thread record.
LEMMA DeadType == Dead \in ThreadRec /\ Dead.pc = "dead"
  BY DEF Dead, ThreadRec

\* What a thread's step owes the invariant when only its record, which keeps
\* its slot, and that slot are written.
LEMMA ThreadStep ==
  ASSUME TypeOK, AtASlot, NEW t \in Tid, Live(t),
         NEW r \in SlotRec, slot' = slot \/ slot' = [slot EXCEPT ![thread[t].slot] = r],
         NEW q \in ThreadRec, thread' = [thread EXCEPT ![t] = q],
         q.slot = thread[t].slot \/ q.pc = "dead",
         UNCHANGED <<askedAt, main, elapsed>>
  PROVE  TypeOK' /\ AtASlot'
<1>1. slot' \in [Slot -> SlotRec]
  BY DEF TypeOK, AtASlot
<1>2. thread' \in [Tid -> ThreadRec]
  BY DEF TypeOK
<1>3. \A u \in Tid : Live(u)' => thread'[u].slot \in Slot
  BY DEF TypeOK, AtASlot, Live
<1> QED BY <1>1, <1>2, <1>3 DEF TypeOK, AtASlot

\* Every variable keeps its type, and no step is at a slot that is not there.
THEOREM TypeCorrect == Spec => [](TypeOK /\ AtASlot)
<1> DEFINE TInv == TypeOK /\ AtASlot
<1>1. Init => TInv
  BY SlotsAssumption, HostAssumption, ClockAssumption, NoAddrType
  DEF Init, TypeOK, AtASlot, SlotRec, ThreadRec, MainRec, RetRec, Idle, Dead, Live,
      Pending, Found, Stamp, Slot, None, Settled, Unsettled, Fail, Tid
<1>2. TInv /\ [Next]_vars => TInv'
  <2> SUFFICES ASSUME TypeOK, AtASlot, [Next]_vars PROVE TypeOK' /\ AtASlot'
    OBVIOUS
  <2>0. now \in Stamp
    BY NowType DEF TypeOK
  <2>1. ASSUME NEW h \in Host, Call(h) PROVE TypeOK' /\ AtASlot'
    <3>1. ASSUME NEW s \in Slot, Ask(s, h)
          PROVE  /\ slot' \in [Slot -> SlotRec] /\ askedAt' \in [Slot -> 0..MaxElapsed]
                 /\ main' \in MainRec /\ main'.pc = "count"
      <4>1. slot[s] \in SlotRec
        BY DEF TypeOK
      <4>2. Asked(s, h) \in SlotRec
        BY <2>0, <4>1, NoAddrType DEF Asked, SlotRec, Unsettled
      <4>3. slot' \in [Slot -> SlotRec]
        BY <3>1, <4>2 DEF Ask, TypeOK
      <4>4. askedAt' \in [Slot -> 0..MaxElapsed]
        <5>1. askedAt' = [askedAt EXCEPT ![s] = elapsed]
          BY <3>1 DEF Ask
        <5>2. askedAt \in [Slot -> 0..MaxElapsed] /\ elapsed \in 0..MaxElapsed
          BY DEF TypeOK
        <5> QED BY <5>1, <5>2
      <4>5. main \in MainRec
        BY DEF TypeOK
      <4>6. main' \in MainRec /\ main'.pc = "count"
        BY <3>1, <4>5 DEF Ask, MainRec
      <4> QED BY <4>3, <4>4, <4>6
    <3>2. ASSUME NEW s \in Slot, Ask(s, h) PROVE TypeOK' /\ AtASlot'
      BY <2>1, <3>1, <3>2 DEF Call, TypeOK, AtASlot, Live
    <3>3. CASE CallNew(h)
      <4>1. ASSUME main' = [main EXCEPT !.pc = "count", !.host = h, !.slot = None],
                   UNCHANGED <<slot, askedAt>>
            PROVE  TypeOK' /\ AtASlot'
        BY <2>1, <4>1, MainFields DEF Call, TypeOK, AtASlot, Live
      <4> QED BY <3>2, <3>3, <4>1 DEF CallNew
    <3>4. ASSUME NEW s \in Slot, CallHeld(h, s), ~Stale(s) PROVE TypeOK' /\ AtASlot'
      <4>1. slot[s] \in SlotRec
        BY DEF TypeOK
      <4>2. [slot[s] EXCEPT !.used = now] \in SlotRec
        BY <2>0, <4>1, SlotFields
      <4>3. slot' \in [Slot -> SlotRec]
        BY <3>4, <4>2 DEF CallHeld, TypeOK
      <4>4. slot[s].state \notin Unsettled => Answer(s) \in RetRec
        BY <3>4, <4>1 DEF CallHeld, Holds, Answer, SlotRec, RetRec
      <4>5. main \in MainRec
        BY DEF TypeOK
      <4>6. main' \in MainRec /\ main'.pc \in {"count", "return"}
        <5>1. CASE slot[s].state \in Unsettled
          BY ZenonT(60), <3>4, <4>5, <5>1 DEF CallHeld, MainRec
        <5>2. CASE slot[s].state \notin Unsettled
          <6> DEFINE a == Answer(s)
          <6>1. a \in RetRec
            BY <4>4, <5>2
          <6>2. main' = [main EXCEPT !.pc = "return", !.host = h, !.slot = s, !.ret = a]
            BY <3>4, <5>2 DEF CallHeld
          <6> HIDE DEF a
          <6> QED BY <4>5, <6>1, <6>2 DEF MainRec
        <5> QED BY <5>1, <5>2
      <4> QED BY <2>1, <3>4, <4>3, <4>6 DEF Call, CallHeld, TypeOK, AtASlot, Live
    <3>5. ASSUME NEW s \in Slot, CallHeld(h, s) PROVE TypeOK' /\ AtASlot'
      BY <3>2, <3>4, <3>5 DEF CallHeld
    <3> QED BY <2>1, <3>3, <3>5 DEF Call
  <2>2. CASE Count
    <3>1. Cardinality(State("running")) \in Nat
      BY SlotsFinite, FS_Subset, FS_CardinalityType DEF State
    <3>2. main' \in MainRec /\ main'.pc = "start"
      BY <2>2, <3>1, Counted DEF Count, TypeOK
    <3> QED BY <2>2, <3>2 DEF Count, TypeOK, AtASlot, Live
  <2>3. CASE StartLookup
    <3>1. PICK s \in Slot, t \in Tid :
             /\ ~Live(t)
             /\ slot' = [slot EXCEPT ![s].state = "running"]
             /\ thread' = [thread EXCEPT ![t] = [Dead EXCEPT !.pc = "own", !.slot = s,
                                                        !.host = slot[s].host]]
      BY <2>3 DEF StartLookup
    <3>2. slot[s] \in SlotRec
      BY DEF TypeOK
    <3>3. [slot[s] EXCEPT !.state = "running"] \in SlotRec
      BY <3>2, SlotFields DEF Unsettled
    <3>4. slot' \in [Slot -> SlotRec]
      BY <3>1, <3>3 DEF TypeOK
    <3> DEFINE new == [Dead EXCEPT !.pc = "own", !.slot = s, !.host = slot[s].host]
    <3>5. new \in ThreadRec /\ new.slot = s
      BY <3>2 DEF Dead, ThreadRec, SlotRec
    <3> HIDE DEF new
    <3>6. /\ thread' \in [Tid -> ThreadRec]
          /\ \A u \in Tid : Live(u)' => thread'[u].slot \in Slot
      BY <3>1, <3>5 DEF TypeOK, AtASlot, Live, new
    <3>7. main' \in MainRec /\ main'.pc = "start"
      <4>1. main' = [main EXCEPT !.running = main.running + 1]
        BY <2>3 DEF StartLookup
      <4>2. main.pc = "start"
        BY <2>3 DEF StartLookup, MayStart
      <4>3. main \in MainRec
        BY DEF TypeOK
      <4>4. main.running \in Nat
        BY <4>3 DEF MainRec
      <4> DEFINE n == main.running + 1
      <4>5. n \in Nat
        BY <4>4
      <4>6. main' = [main EXCEPT !.running = n]
        BY <4>1
      <4> HIDE DEF n
      <4> QED BY <4>2, <4>3, <4>5, <4>6, Counted
    <3> QED BY <2>3, <3>4, <3>6, <3>7 DEF StartLookup, TypeOK, AtASlot
  <2>4. CASE StartFails
    <3>1. PICK s \in Slot : slot' = [slot EXCEPT ![s].state = "failed", ![s].fail = "thread",
                                                 ![s].done = now]
      BY <2>4 DEF StartFails
    <3> DEFINE r == [slot[s] EXCEPT !.state = "failed", !.fail = "thread", !.done = now]
    <3>2. slot[s] \in SlotRec
      BY DEF TypeOK
    <3>3. r \in SlotRec
      BY <2>0, <3>2 DEF SlotRec, Settled, Fail
    <3>4. slot' = [slot EXCEPT ![s] = r]
      BY <3>1 DEF TypeOK
    <3> HIDE DEF r
    <3> QED BY <2>4, <3>3, <3>4 DEF StartFails, TypeOK, AtASlot, Live
  <2>5. CASE StartDone
    BY <2>5, NoAddrType DEF StartDone, TypeOK, AtASlot, Live, SlotRec, MainRec, RetRec, Settled,
       Unsettled, None, Idle, Pending, Answer
  <2>6. CASE Recheck
    BY <2>6, NoAddrType DEF Recheck, TypeOK, AtASlot, Live, SlotRec, MainRec, RetRec, Settled,
       Unsettled, None, Idle, Pending, Answer
  <2>7. CASE Return
    BY <2>7, NoAddrType DEF Return, TypeOK, AtASlot, Live, SlotRec, MainRec, RetRec, Settled,
       Unsettled, None, Idle, Pending, Answer
  <2>8. CASE FiniDrop
    <3>1. \A s \in Slot : slot[s] \in SlotRec /\ [slot[s] EXCEPT !.state = "empty"] \in SlotRec
      BY SlotFields DEF TypeOK
    <3>2. slot' \in [Slot -> SlotRec]
      BY <2>8, <3>1 DEF FiniDrop
    <3>3. main' = [main EXCEPT !.pc = "read rid", !.slot = 1] /\ 1 \in Slot /\ main \in MainRec
      BY <2>8, SlotsAssumption DEF FiniDrop, TypeOK, Slot
    <3>4. main' \in MainRec /\ main'.slot \in Slot
      BY <3>3 DEF MainRec
    <3> QED BY <2>8, <3>2, <3>4 DEF FiniDrop, TypeOK, AtASlot, Live
  <2>9. CASE FiniReadRid
    <3>1. slot[main.slot] \in SlotRec /\ main.slot \in Slot
      BY <2>9 DEF FiniReadRid, TypeOK, AtASlot
    <3>2. main' \in MainRec /\ main'.slot = main.slot
      BY <2>9, <3>1 DEF FiniReadRid, TypeOK, MainRec, SlotRec
    <3> QED BY <2>9, <3>1, <3>2 DEF FiniReadRid, TypeOK, AtASlot, Live
  <2>10. CASE FiniAbort
    <3>1. \A t \in Tid : LET q == [thread[t] EXCEPT !.aborted = TRUE]
                         IN thread[t] \in ThreadRec /\ q \in ThreadRec
                            /\ q.slot = thread[t].slot /\ q.pc = thread[t].pc
      BY ThreadFields DEF TypeOK
    <3>2. /\ thread' \in [Tid -> ThreadRec]
          /\ \A t \in Tid : thread'[t].slot = thread[t].slot /\ thread'[t].pc = thread[t].pc
      BY <2>10, <3>1 DEF FiniAbort
    <3>3. main.slot \in Slot
      BY <2>10 DEF FiniAbort, AtASlot
    <3>4. main' \in MainRec /\ (main'.pc = "wait" \/ main'.slot \in Slot)
      <4>1. CASE main.slot = NSlots
        BY <2>10, <4>1, NoAddrType DEF FiniAbort, Idle, Pending, RetRec, MainRec
      <4>2. CASE main.slot # NSlots
        <5>1. main.slot + 1 \in Slot
          BY <3>3, <4>2, SlotsAssumption DEF Slot
        <5> QED BY <2>10, <4>2, <5>1 DEF FiniAbort, TypeOK, MainRec
      <4> QED BY <4>1, <4>2
    <3> QED BY <2>10, <3>2, <3>4 DEF FiniAbort, TypeOK, AtASlot, Live
  <2>11. CASE FiniDone
    BY <2>11 DEF FiniDone, TypeOK, AtASlot, Live, MainRec
  <2>12. CASE FiniGivesUp
    BY <2>12 DEF FiniGivesUp, TypeOK, AtASlot, Live, MainRec
  <2>13. CASE Tick
    <3>1. elapsed' \in 0..MaxElapsed
      BY <2>13, ClockAssumption DEF Tick, TypeOK
    <3> QED BY <2>13, <3>1 DEF Tick, TypeOK, AtASlot, Live
  <2>14. ASSUME NEW t \in Tid, Thread(t) PROVE TypeOK' /\ AtASlot'
    <3> DEFINE s == thread[t].slot
               Gone(pc) == [thread[t] EXCEPT !.pc = pc]
    <3>1. Live(t) /\ thread[t] \in ThreadRec /\ s \in Slot
      BY <2>14 DEF Thread, OwnQuery, CreateResolver, ResolverReturns, DestroyResolver,
                  StampDone, Publish, AtASlot, Live, TypeOK
    <3>2. slot[s] \in SlotRec
      BY <3>1 DEF TypeOK
    <3>3. \A pc \in {"create", "ask", "stamp", "publish"} :
             Gone(pc) \in ThreadRec /\ Gone(pc).slot = s
      BY <3>1, ThreadFields
    <3>4. CASE OwnQuery(t)
      <4>1. \A a \in Addr : [of |-> thread[t].host, addr |-> a] \in Found
        BY <3>1, ThreadFields DEF Found
      <4>2. ASSUME Goto(t, "stamp"), NEW r \in SlotRec, slot' = [slot EXCEPT ![s] = r]
            PROVE  TypeOK' /\ AtASlot'
        BY <3>1, <3>3, <3>4, <4>2, ThreadStep DEF Goto, OwnQuery
      <4>3. ASSUME NEW a \in Addr, Goto(t, "stamp"),
                   slot' = [slot EXCEPT ![s].found = [of |-> thread[t].host, addr |-> a]]
            PROVE  TypeOK' /\ AtASlot'
        BY <3>2, <4>1, <4>2, <4>3, SlotFields
      <4>4. ASSUME slot' = [slot EXCEPT ![s].fail = "dns"], Goto(t, "stamp")
            PROVE  TypeOK' /\ AtASlot'
        BY <3>2, <4>2, <4>4, SlotFields DEF Fail
      <4>5. ASSUME Goto(t, "create"), UNCHANGED slot
            PROVE  TypeOK' /\ AtASlot'
        BY <3>1, <3>2, <3>3, <3>4, <4>5, ThreadStep DEF Goto, OwnQuery
      <4> QED BY <3>4, <4>3, <4>4, <4>5 DEF OwnQuery
    <3>5. CASE CreateResolver(t)
      <4>1. ASSUME slot' = [slot EXCEPT ![s].fail = "create"], Goto(t, "stamp")
            PROVE  TypeOK' /\ AtASlot'
        <5>1. [slot[s] EXCEPT !.fail = "create"] \in SlotRec
          BY <3>2, SlotFields DEF Fail
        <5> QED BY <3>1, <3>3, <3>5, <4>1, <5>1, ThreadStep DEF Goto, CreateResolver
      <4>2. ASSUME slot' = [slot EXCEPT ![s].rid = TRUE], Goto(t, "ask")
            PROVE  TypeOK' /\ AtASlot'
        <5>1. [slot[s] EXCEPT !.rid = TRUE] \in SlotRec
          BY <3>2, SlotFields
        <5> QED BY <3>1, <3>3, <3>5, <4>2, <5>1, ThreadStep DEF Goto, CreateResolver
      <4> QED BY <3>5, <4>1, <4>2 DEF CreateResolver
    <3>6. CASE ResolverReturns(t)
      <4>1. PICK got \in Settled : thread' = [thread EXCEPT ![t].pc = "destroy", ![t].got = got]
        BY <3>6 DEF ResolverReturns, Settled
      <4> DEFINE q == [thread[t] EXCEPT !.pc = "destroy", !.got = got]
      <4>2. q \in ThreadRec /\ q.slot = s
        BY <3>1, ThreadFields
      <4>3. thread' = [thread EXCEPT ![t] = q]
        BY <3>1, <4>1 DEF TypeOK
      <4>4. [slot[s] EXCEPT !.rid = FALSE] \in SlotRec
        BY <3>2, SlotFields
      <4> HIDE DEF q
      <4> QED BY <3>1, <3>6, <4>2, <4>3, <4>4, ThreadStep DEF ResolverReturns
    <3>7. CASE DestroyResolver(t)
      <4>1. ASSUME NEW a \in Addr, slot' = [slot EXCEPT ![s].found = [of |-> thread[t].host, addr |-> a]]
            PROVE  TypeOK' /\ AtASlot'
        <5>1. [of |-> thread[t].host, addr |-> a] \in Found
          BY <3>1, ThreadFields DEF Found
        <5>2. [slot[s] EXCEPT !.found = [of |-> thread[t].host, addr |-> a]] \in SlotRec
          BY <3>2, <5>1, SlotFields
        <5> QED BY <3>1, <3>3, <3>7, <4>1, <5>2, ThreadStep DEF Goto, DestroyResolver
      <4>2. ASSUME slot' = [slot EXCEPT ![s].fail = "lookup"]
            PROVE  TypeOK' /\ AtASlot'
        <5>1. [slot[s] EXCEPT !.fail = "lookup"] \in SlotRec
          BY <3>2, SlotFields DEF Fail
        <5> QED BY <3>1, <3>3, <3>7, <4>2, <5>1, ThreadStep DEF Goto, DestroyResolver
      <4> QED BY <3>7, <4>1, <4>2 DEF DestroyResolver
    <3>8. CASE StampDone(t)
      <4>1. [slot[s] EXCEPT !.done = now] \in SlotRec
        BY <2>0, <3>2, SlotFields
      <4> QED BY <3>1, <3>3, <3>8, <4>1, ThreadStep DEF Goto, StampDone
    <3>9. CASE Publish(t)
      <4> DEFINE st == IF slot[s].fail = "none" THEN "ok" ELSE "failed"
      <4>1. [slot[s] EXCEPT !.state = st] \in SlotRec
        BY <3>2, SlotFields DEF Settled
      <4> QED BY <3>1, <3>9, <4>1, DeadType, ThreadStep DEF Publish
    <3> QED BY <2>14, <3>4, <3>5, <3>6, <3>7, <3>8, <3>9 DEF Thread
  <2>15. CASE UNCHANGED vars
    BY <2>15 DEF vars, TypeOK, AtASlot, Live
  <2> QED BY <2>1, <2>2, <2>3, <2>4, <2>5, <2>6, <2>7, <2>8, <2>9, <2>10, <2>11, <2>12, <2>13,
             <2>14, <2>15 DEF Next, Resolving, Fini, Halted
<1> QED BY <1>1, <1>2, PTL DEF Spec

-----------------------------------------------------------------------------
(* What a step does to the states and hosts of the slots, to the threads   *)
(* that live and their slots, and to the count of those running.  Every    *)
(* step of the specification is one of these seven.                        *)

Same(s) == slot'[s].state = slot[s].state /\ slot'[s].host = slot[s].host
SameThread(t) == Live(t)' = Live(t) /\ (Live(t) => thread'[t].slot = thread[t].slot)
Uncounted == main'.pc \notin {"start", "ended"}

Quiet ==
  /\ \A s \in Slot : Same(s)
  /\ \A t \in Tid : SameThread(t)
  /\ main'.pc = "start" => main.pc = "start" /\ main'.running = main.running
  /\ main'.pc = "ended" => main.pc = "ended" \/ State("running") = {}
Counting ==
  /\ \A s \in Slot : Same(s)
  /\ \A t \in Tid : SameThread(t)
  /\ main'.pc = "start" /\ main'.running = Cardinality(State("running"))
Asking ==
  /\ \E s \in Slot, h \in Host :
       /\ slot[s].state \notin Unsettled
       /\ slot'[s].state = "queued" /\ slot'[s].host = h
       /\ \A r \in Slot : Holds(r, h) => r = s
       /\ \A r \in Slot \ {s} : Same(r)
  /\ \A t \in Tid : SameThread(t)
  /\ Uncounted
Starting ==
  /\ \E s \in Slot, t \in Tid :
       /\ slot[s].state = "queued" /\ slot'[s].state = "running" /\ slot'[s].host = slot[s].host
       /\ \A r \in Slot \ {s} : Same(r)
       /\ ~Live(t) /\ Live(t)' /\ thread'[t].slot = s
       /\ \A u \in Tid \ {t} : SameThread(u)
  /\ main'.pc = "start" /\ main.pc = "start"
  /\ main.running < NThreads /\ main'.running = main.running + 1
Failing ==
  /\ \E s \in Slot :
       /\ slot[s].state = "queued" /\ slot'[s].state = "failed" /\ slot'[s].host = slot[s].host
       /\ \A r \in Slot \ {s} : Same(r)
  /\ \A t \in Tid : SameThread(t)
  /\ main' = main
Dropping ==
  /\ \A s \in Slot : \/ Same(s)
                     \/ slot[s].state = "queued" /\ slot'[s].state = "empty"
  /\ \A t \in Tid : SameThread(t)
  /\ Uncounted
Ending ==
  /\ \E t \in Tid :
       /\ Live(t) /\ ~Live(t)'
       /\ slot'[thread[t].slot].state \in Settled
       /\ slot'[thread[t].slot].host = slot[thread[t].slot].host
       /\ \A r \in Slot \ {thread[t].slot} : Same(r)
       /\ \A u \in Tid \ {t} : SameThread(u)
  /\ main' = main

\* A thread that writes its record and its slot, not the slot's state or host.
LEMMA ThreadQuiet ==
  ASSUME TypeOK, AtASlot, NEW t \in Tid, Live(t),
         NEW r, r.state = slot[thread[t].slot].state, r.host = slot[thread[t].slot].host,
         slot' = slot \/ slot' = [slot EXCEPT ![thread[t].slot] = r],
         NEW q, q.slot = thread[t].slot, q.pc # "dead",
         thread' = [thread EXCEPT ![t] = q],
         main' = main
  PROVE  Quiet
<1>1. \A s \in Slot : Same(s)
  BY DEF TypeOK, Same
<1>2. \A u \in Tid : SameThread(u)
  BY DEF TypeOK, SameThread, Live
<1> QED BY <1>1, <1>2 DEF Quiet

\* Which fields of a slot a write to another field leaves.
LEMMA SlotFieldsKept ==
  ASSUME NEW r \in SlotRec
  PROVE  /\ \A x \in Found : LET q == [r EXCEPT !.found = x] IN q.state = r.state /\ q.host = r.host
         /\ \A f \in Fail : LET q == [r EXCEPT !.fail = f] IN q.state = r.state /\ q.host = r.host
         /\ \A b \in BOOLEAN : LET q == [r EXCEPT !.rid = b] IN q.state = r.state /\ q.host = r.host
         /\ \A n \in Stamp : LET q == [r EXCEPT !.done = n] IN q.state = r.state /\ q.host = r.host
         /\ \A n \in Stamp : LET q == [r EXCEPT !.used = n] IN q.state = r.state /\ q.host = r.host
         /\ \A st \in {"empty"} \cup Unsettled \cup Settled :
              LET q == [r EXCEPT !.state = st] IN q.state = st /\ q.host = r.host
  BY DEF SlotRec

\* A thread's steps but the last keep it alive and at its slot.
LEMMA ThreadFieldsKept ==
  ASSUME NEW r \in ThreadRec
  PROVE  /\ \A pc \in {"create", "ask", "stamp", "publish"} :
              LET q == [r EXCEPT !.pc = pc] IN q.slot = r.slot /\ q.pc # "dead"
         /\ \A g \in Settled : LET q == [r EXCEPT !.pc = "destroy", !.got = g]
                                 IN q.slot = r.slot /\ q.pc # "dead"
  BY DEF ThreadRec

\* A thread's step publishes its answer or changes nothing of this.
LEMMA ThreadEffect ==
  ASSUME TypeOK, AtASlot, NEW t \in Tid, Thread(t)
  PROVE  Quiet \/ Ending
<1> DEFINE s == thread[t].slot
           Gone(pc) == [thread[t] EXCEPT !.pc = pc]
<1>0. now \in Stamp
  BY NowType DEF TypeOK
<1>1. Live(t) /\ thread[t] \in ThreadRec /\ s \in Slot
  BY DEF Thread, OwnQuery, CreateResolver, ResolverReturns, DestroyResolver,
         StampDone, Publish, AtASlot, Live, TypeOK
<1>2. slot[s] \in SlotRec
  BY <1>1 DEF TypeOK
<1>3. \A pc \in {"create", "ask", "stamp", "publish"} : Gone(pc).slot = s /\ Gone(pc).pc # "dead"
  BY <1>1, ThreadFieldsKept
<1>4. \A a \in Addr : [of |-> thread[t].host, addr |-> a] \in Found
  BY <1>1, ThreadFields DEF Found
<1>5. ASSUME NEW pc \in {"create", "ask", "stamp", "publish"}, Goto(t, pc), main' = main,
             NEW r, r.state = slot[s].state, r.host = slot[s].host,
             slot' = slot \/ slot' = [slot EXCEPT ![s] = r]
      PROVE  Quiet
  BY <1>1, <1>3, <1>5, ThreadQuiet DEF Goto
<1>6. CASE OwnQuery(t)
  <2>1. ASSUME NEW a \in Addr, Goto(t, "stamp"),
               slot' = [slot EXCEPT ![s].found = [of |-> thread[t].host, addr |-> a]]
        PROVE  Quiet
    BY ZenonT(60), <1>2, <1>4, <1>5, <1>6, <2>1, SlotFieldsKept DEF OwnQuery
  <2>2. ASSUME slot' = [slot EXCEPT ![s].fail = "dns"], Goto(t, "stamp") PROVE Quiet
    BY <1>2, <1>5, <1>6, <2>2, SlotFieldsKept DEF OwnQuery, Fail
  <2>3. ASSUME Goto(t, "create"), UNCHANGED slot PROVE Quiet
    BY <1>2, <1>5, <1>6, <2>3 DEF OwnQuery
  <2> QED BY <1>6, <2>1, <2>2, <2>3 DEF OwnQuery
<1>7. CASE CreateResolver(t)
  <2>1. ASSUME slot' = [slot EXCEPT ![s].fail = "create"], Goto(t, "stamp") PROVE Quiet
    BY <1>2, <1>5, <1>7, <2>1, SlotFieldsKept DEF CreateResolver, Fail
  <2>2. ASSUME slot' = [slot EXCEPT ![s].rid = TRUE], Goto(t, "ask") PROVE Quiet
    BY <1>2, <1>5, <1>7, <2>2, SlotFieldsKept DEF CreateResolver
  <2> QED BY <1>7, <2>1, <2>2 DEF CreateResolver
<1>8. CASE ResolverReturns(t)
  <2>1. PICK got \in Settled : thread' = [thread EXCEPT ![t].pc = "destroy", ![t].got = got]
    BY <1>8 DEF ResolverReturns, Settled
  <2> DEFINE q == [thread[t] EXCEPT !.pc = "destroy", !.got = got]
             r == [slot[s] EXCEPT !.rid = FALSE]
  <2>2. q.slot = s /\ q.pc # "dead"
    BY <1>1, ThreadFieldsKept
  <2>3. thread' = [thread EXCEPT ![t] = q]
    BY <1>1, <2>1 DEF TypeOK
  <2>4. r.state = slot[s].state /\ r.host = slot[s].host
    BY <1>2, SlotFieldsKept
  <2>5. slot' = [slot EXCEPT ![s] = r] /\ main' = main
    BY <1>8 DEF ResolverReturns
  <2> HIDE DEF q, r
  <2> QED BY <1>1, <2>2, <2>3, <2>4, <2>5, ThreadQuiet
<1>9. CASE DestroyResolver(t)
  <2>1. ASSUME NEW a \in Addr,
               slot' = [slot EXCEPT ![s].found = [of |-> thread[t].host, addr |-> a]]
        PROVE  Quiet
    BY <1>2, <1>4, <1>5, <1>9, <2>1, SlotFieldsKept DEF DestroyResolver
  <2>2. ASSUME slot' = [slot EXCEPT ![s].fail = "lookup"] PROVE Quiet
    BY <1>2, <1>5, <1>9, <2>2, SlotFieldsKept DEF DestroyResolver, Fail
  <2> QED BY <1>9, <2>1, <2>2 DEF DestroyResolver
<1>10. CASE StampDone(t)
  BY <1>0, <1>2, <1>5, <1>10, SlotFieldsKept DEF StampDone
<1>11. CASE Publish(t)
  <2> DEFINE st == IF slot[s].fail = "none" THEN "ok" ELSE "failed"
             r == [slot[s] EXCEPT !.state = st]
  <2>1. r.state \in Settled /\ r.host = slot[s].host
    BY <1>2, SlotFieldsKept DEF Settled
  <2>2. slot' = [slot EXCEPT ![s] = r] /\ thread' = [thread EXCEPT ![t] = Dead] /\ main' = main
    BY <1>11 DEF Publish
  <2> HIDE DEF r
  <2>3. ~Live(t)' /\ \A u \in Tid \ {t} : SameThread(u)
    BY <2>2, DeadType DEF Live, SameThread, TypeOK
  <2>4. slot'[s] = r /\ \A u \in Slot \ {s} : Same(u)
    BY <1>1, <2>2 DEF Same, TypeOK
  <2> QED BY <1>1, <2>1, <2>2, <2>3, <2>4 DEF Ending
<1> QED BY <1>6, <1>7, <1>8, <1>9, <1>10, <1>11 DEF Thread

\* A call asks one slot that is not a lookup's, the host's own if it has one.
LEMMA CallEffect ==
  ASSUME TypeOK, OneSlotPerHost, NEW h \in Host, Call(h)
  PROVE  Quiet \/ Asking
<1>0. now \in Stamp
  BY NowType DEF TypeOK
<1>1. \A t \in Tid : SameThread(t)
  BY DEF Call, SameThread, Live
<1>2. main \in MainRec
  BY DEF TypeOK
<1>3. ASSUME NEW s \in Slot, Ask(s, h), slot[s].state \notin Unsettled,
             \A r \in Slot : Holds(r, h) => r = s
      PROVE  Asking
  <2>1. Asked(s, h).state = "queued" /\ Asked(s, h).host = h
    BY DEF Asked
  <2>2. slot' = [slot EXCEPT ![s] = Asked(s, h)]
    BY <1>3 DEF Ask
  <2>3. slot'[s] = Asked(s, h) /\ \A r \in Slot \ {s} : Same(r)
    BY <2>2 DEF Same, TypeOK
  <2>4. Uncounted
    BY <1>2, <1>3 DEF Ask, Uncounted, MainRec
  <2> QED BY <1>1, <1>3, <2>1, <2>3, <2>4 DEF Asking
<1>4. CASE CallNew(h)
  <2>1. ASSUME NEW s \in Slot, SpareFor(s), Ask(s, h) PROVE Asking
    <3>1. slot[s].state \notin Unsettled
      BY <2>1 DEF SpareFor, Settled, Unsettled
    <3> QED BY <1>3, <1>4, <2>1, <3>1 DEF CallNew
  <2>2. ASSUME main' = [main EXCEPT !.pc = "count", !.host = h, !.slot = None],
               UNCHANGED <<slot, askedAt>>
        PROVE  Quiet
    <3>1. main'.pc = "count"
      BY <1>2, <2>2 DEF MainRec
    <3> QED BY <1>1, <2>2, <3>1 DEF Quiet, Same
  <2> QED BY <1>4, <2>1, <2>2 DEF CallNew
<1>5. ASSUME NEW s \in Slot, CallHeld(h, s), Stale(s) PROVE Asking
  <2>1. slot[s].state \notin Unsettled
    BY <1>5 DEF Stale, Unsettled
  <2>2. \A r \in Slot : Holds(r, h) => r = s
    BY <1>5 DEF CallHeld, Holds, OneSlotPerHost
  <2> QED BY <1>3, <1>5, <2>1, <2>2 DEF CallHeld
<1>6. ASSUME NEW s \in Slot, CallHeld(h, s), ~Stale(s) PROVE Quiet
  <2>1. slot[s] \in SlotRec
    BY DEF TypeOK
  <2> DEFINE r == [slot[s] EXCEPT !.used = now]
  <2>2. r.state = slot[s].state /\ r.host = slot[s].host
    BY <1>0, <2>1, SlotFieldsKept
  <2>3. slot' = [slot EXCEPT ![s] = r]
    BY <1>6 DEF CallHeld
  <2> HIDE DEF r
  <2>4. \A u \in Slot : Same(u)
    BY <2>2, <2>3 DEF Same, TypeOK
  <2>5. main'.pc \in {"count", "return"}
    <3>1. CASE slot[s].state \in Unsettled
      BY <1>2, <1>6, <3>1 DEF CallHeld, MainRec
    <3>2. CASE slot[s].state \notin Unsettled
      <4> DEFINE a == Answer(s)
      <4>1. main' = [main EXCEPT !.pc = "return", !.host = h, !.slot = s, !.ret = a]
        BY <1>6, <3>2 DEF CallHeld
      <4> HIDE DEF a
      <4> QED BY <1>2, <4>1 DEF MainRec
    <3> QED BY <3>1, <3>2
  <2> QED BY <1>1, <2>4, <2>5 DEF Quiet
<1> QED BY <1>4, <1>5, <1>6 DEF Call

\* Every step is one of the seven.
LEMMA Effect ==
  ASSUME TypeOK, AtASlot, OneSlotPerHost, [Next]_vars
  PROVE  Quiet \/ Counting \/ Asking \/ Starting \/ Failing \/ Dropping \/ Ending
<1>0. now \in Stamp /\ main \in MainRec /\ \A s \in Slot : slot[s] \in SlotRec
  BY NowType DEF TypeOK
<1>1. ASSUME NEW h \in Host, Call(h) PROVE Quiet \/ Asking
  BY <1>1, CallEffect
<1>2. CASE Count
  <2>1. Cardinality(State("running")) \in Nat
    BY SlotsFinite, FS_Subset, FS_CardinalityType DEF State
  <2> DEFINE n == Cardinality(State("running"))
  <2>2. main' = [main EXCEPT !.pc = "start", !.running = n]
    BY <1>2 DEF Count
  <2>3. n \in Nat
    BY <2>1
  <2> HIDE DEF n
  <2>4. main'.pc = "start" /\ main'.running = n
    BY <1>0, <2>2, <2>3 DEF MainRec
  <2> QED BY <1>2, <2>4 DEF Count, Counting, Same, SameThread, Live, n
<1>3. CASE StartLookup
  <2>1. PICK s \in Slot, t \in Tid :
           /\ Oldest(s) /\ ~Live(t)
           /\ slot' = [slot EXCEPT ![s].state = "running"]
           /\ thread' = [thread EXCEPT ![t] = [Dead EXCEPT !.pc = "own", !.slot = s,
                                                      !.host = slot[s].host]]
    BY <1>3 DEF StartLookup
  <2> DEFINE r == [slot[s] EXCEPT !.state = "running"]
             q == [Dead EXCEPT !.pc = "own", !.slot = s, !.host = slot[s].host]
             n == main.running + 1
  <2>2. r.state = "running" /\ r.host = slot[s].host
    BY <1>0, SlotFieldsKept DEF Unsettled
  <2>3. q.pc = "own" /\ q.slot = s
    BY DEF Dead
  <2>4. main' = [main EXCEPT !.running = n]
    BY <1>3 DEF StartLookup
  <2>5. slot' = [slot EXCEPT ![s] = r] /\ thread' = [thread EXCEPT ![t] = q]
    BY <2>1
  <2>6. main.pc = "start" /\ main.running < NThreads
    BY <1>3 DEF StartLookup, MayStart
  <2>7. main.running \in Nat
    BY <1>0 DEF MainRec
  <2>8. n \in Nat
    BY <2>7
  <2> HIDE DEF r, q
  <2>9. slot'[s] = r /\ \A u \in Slot \ {s} : Same(u)
    BY <2>5 DEF Same, TypeOK
  <2>10. Live(t)' /\ thread'[t].slot = s /\ \A u \in Tid \ {t} : SameThread(u)
    BY <2>3, <2>5 DEF SameThread, TypeOK, Live
  <2>11. main'.pc = "start" /\ main'.running = n
    <3> HIDE DEF n
    <3> QED BY <1>0, <2>4, <2>6, <2>8 DEF MainRec
  <2>12. slot[s].state = "queued"
    BY <2>1 DEF Oldest
  <2> QED BY <2>1, <2>2, <2>6, <2>9, <2>10, <2>11, <2>12 DEF Starting
<1>4. CASE StartFails
  <2>1. PICK s \in Slot : /\ Oldest(s)
                          /\ slot' = [slot EXCEPT ![s].state = "failed", ![s].fail = "thread",
                                                  ![s].done = now]
    BY <1>4 DEF StartFails
  <2> DEFINE r == [slot[s] EXCEPT !.state = "failed", !.fail = "thread", !.done = now]
  <2>2. r.state = "failed" /\ r.host = slot[s].host
    BY <1>0 DEF SlotRec
  <2>3. slot' = [slot EXCEPT ![s] = r]
    BY <2>1 DEF TypeOK
  <2> HIDE DEF r
  <2>4. slot'[s] = r /\ \A u \in Slot \ {s} : Same(u)
    BY <2>3 DEF Same, TypeOK
  <2>5. slot[s].state = "queued" /\ main' = main /\ \A t \in Tid : SameThread(t)
    BY <1>4, <2>1 DEF StartFails, Oldest, SameThread, Live
  <2> QED BY <2>2, <2>4, <2>5 DEF Failing
<1>5. CASE StartDone
  BY <1>0, <1>5 DEF StartDone, Quiet, Same, SameThread, Live, MainRec
<1>6. CASE Recheck
  <2> DEFINE a == IF main.slot # None /\ slot[main.slot].state \in Settled
                  THEN Answer(main.slot) ELSE Pending
  <2>1. main' = [main EXCEPT !.pc = "return", !.ret = a]
    BY <1>6 DEF Recheck
  <2> HIDE DEF a
  <2>2. main'.pc = "return"
    BY <1>0, <2>1 DEF MainRec
  <2> QED BY <1>6, <2>2 DEF Recheck, Quiet, Same, SameThread, Live
<1>7. CASE Return
  BY <1>7 DEF Return, Idle, Quiet, Same, SameThread, Live
<1>8. CASE FiniDrop
  <2>1. \A s \in Slot : LET r == [slot[s] EXCEPT !.state = "empty"]
                       IN r.state = "empty" /\ r.host = slot[s].host
    BY <1>0, SlotFieldsKept
  <2>2. \A s \in Slot : Same(s) \/ (slot[s].state = "queued" /\ slot'[s].state = "empty")
    BY <1>8, <2>1 DEF FiniDrop, Same
  <2>3. Uncounted
    BY <1>0, <1>8 DEF FiniDrop, Uncounted, MainRec
  <2> QED BY <1>8, <2>2, <2>3 DEF FiniDrop, Dropping, SameThread, Live
<1>9. CASE FiniReadRid
  <2>1. main'.pc = "abort"
    BY <1>0, <1>9 DEF FiniReadRid, MainRec
  <2> QED BY <1>9, <2>1 DEF FiniReadRid, Quiet, Same, SameThread, Live
<1>10. CASE FiniAbort
  <2>1. \A t \in Tid : LET q == [thread[t] EXCEPT !.aborted = TRUE]
                      IN q.slot = thread[t].slot /\ q.pc = thread[t].pc
    BY ThreadFields DEF TypeOK
  <2>2. \A t \in Tid : SameThread(t)
    BY <1>10, <2>1 DEF FiniAbort, SameThread, Live
  <2>3. main'.pc \in {"wait", "read rid"}
    <3>1. CASE main.slot = NSlots
      BY <1>10, <3>1 DEF FiniAbort, Idle
    <3>2. CASE main.slot # NSlots
      BY <1>0, <1>10, <3>2 DEF FiniAbort, MainRec
    <3> QED BY <3>1, <3>2
  <2> QED BY <1>10, <2>2, <2>3 DEF FiniAbort, Quiet, Same
<1>11. CASE FiniDone
  <2>1. main'.pc = "ended"
    BY <1>0, <1>11 DEF FiniDone, MainRec
  <2> QED BY <1>11, <2>1 DEF FiniDone, Quiet, Same, SameThread, Live
<1>12. CASE FiniGivesUp
  <2>1. main'.pc = "gave up"
    BY <1>0, <1>12 DEF FiniGivesUp, MainRec
  <2> QED BY <1>12, <2>1 DEF FiniGivesUp, Quiet, Same, SameThread, Live
<1>13. ASSUME NEW t \in Tid, Thread(t) PROVE Quiet \/ Ending
  BY <1>13, ThreadEffect
<1>14. CASE Tick
  BY <1>14 DEF Tick, Quiet, Same, SameThread, Live
<1>15. CASE UNCHANGED vars
  BY <1>15 DEF vars, Quiet, Same, SameThread, Live
<1> QED BY <1>1, <1>2, <1>3, <1>4, <1>5, <1>6, <1>7, <1>8, <1>9, <1>10, <1>11, <1>12, <1>13,
           <1>14, <1>15 DEF Next, Resolving, Fini, Halted

-----------------------------------------------------------------------------
(* The hand-over, the uniqueness of a host's slot and the bound on threads. *)

LiveSet == {t \in Tid : Live(t)}

\* The count in start_queued never falls behind the threads alive: threads end
\* while it goes on, and only it starts them.
CountIsEnough ==
  /\ Cardinality(LiveSet) <= NThreads
  /\ main.pc = "start" => Cardinality(LiveSet) <= main.running

\* The inductive invariant.
HInv == OneSlotPerHost /\ HandOver /\ CountIsEnough /\ FiniQuiet

\* The threads alive can be counted.
LEMMA LiveFinite == IsFiniteSet(LiveSet) /\ Cardinality(LiveSet) \in Nat
  BY SlotsFinite, FS_Subset, FS_CardinalityType DEF LiveSet

\* The live threads are as many as the slots marked running, at most.
LEMMA LiveRunning ==
  ASSUME AtASlot, HandOver
  PROVE  Cardinality(LiveSet) <= Cardinality(State("running"))
<1> DEFINE f == [t \in LiveSet |-> thread[t].slot]
<1>1. f \in Injection(LiveSet, State("running"))
  BY DEF HandOver, AtASlot, LiveSet, State, Injection, IsInjective
<1>2. IsFiniteSet(State("running"))
  BY SlotsFinite, FS_Subset DEF State
<1> QED BY <1>1, <1>2, FS_Injection

\* Each part of the invariant is kept by each of the seven.
LEMMA OneSlotStep ==
  ASSUME OneSlotPerHost, HandOver, AtASlot,
         Quiet \/ Counting \/ Asking \/ Starting \/ Failing \/ Dropping \/ Ending
  PROVE  OneSlotPerHost'
<1>1. CASE \A s \in Slot : /\ slot'[s].host = slot[s].host
                           /\ slot'[s].state # "empty" => slot[s].state # "empty"
  BY <1>1 DEF OneSlotPerHost
<1>2. CASE Asking
  BY <1>2 DEF Asking, OneSlotPerHost, Holds, Same
<1>3. CASE Quiet \/ Counting \/ Starting \/ Failing
  BY <1>1, <1>3 DEF Quiet, Counting, Starting, Failing, Same
<1>4. CASE Ending
  BY <1>1, <1>4 DEF Ending, HandOver, AtASlot, Same
<1>5. CASE Dropping
  BY <1>5 DEF Dropping, OneSlotPerHost, Same
<1> QED BY <1>2, <1>3, <1>4, <1>5

LEMMA HandOverStep ==
  ASSUME HandOver, AtASlot,
         Quiet \/ Counting \/ Asking \/ Starting \/ Failing \/ Dropping \/ Ending
  PROVE  HandOver'
<1>1. ASSUME \A t \in Tid : SameThread(t),
             \A s \in Slot : slot'[s].state = "running" <=> slot[s].state = "running"
      PROVE  HandOver'
  <2>1. \A t \in Tid : Live(t)' => slot'[thread'[t].slot].state = "running"
    BY <1>1 DEF SameThread, HandOver, AtASlot
  <2>2. \A t, u \in Tid : Live(t)' /\ Live(u)' /\ t # u => thread'[t].slot # thread'[u].slot
    BY <1>1 DEF SameThread, HandOver
  <2>3. \A s \in State("running")' : \E t \in Tid : Live(t)' /\ thread'[t].slot = s
    <3>1. State("running")' = State("running")
      BY <1>1 DEF State
    <3> QED BY <1>1, <3>1 DEF SameThread, HandOver
  <2> QED BY <2>1, <2>2, <2>3 DEF HandOver
<1>2. CASE Quiet \/ Counting \/ Failing \/ Dropping
  BY <1>1, <1>2 DEF Quiet, Counting, Failing, Dropping, Same
<1>3. CASE Asking
  BY <1>1, <1>3 DEF Asking, Same, Unsettled
<1>4. CASE Starting
  <2>1. PICK s \in Slot, t \in Tid :
           /\ slot[s].state = "queued" /\ slot'[s].state = "running"
           /\ \A r \in Slot \ {s} : Same(r)
           /\ ~Live(t) /\ Live(t)' /\ thread'[t].slot = s
           /\ \A u \in Tid \ {t} : SameThread(u)
    BY <1>4 DEF Starting
  <2>2. \A u \in Tid : Live(u) => thread[u].slot # s
    BY <2>1 DEF HandOver
  <2>3. ASSUME NEW u \in Tid, Live(u)' PROVE slot'[thread'[u].slot].state = "running"
    <3>1. CASE u = t
      BY <2>1, <3>1
    <3>2. CASE u # t
      <4>1. Live(u) /\ thread'[u].slot = thread[u].slot
        BY <2>1, <2>3, <3>2 DEF SameThread
      <4>2. thread[u].slot \in Slot \ {s} /\ slot[thread[u].slot].state = "running"
        BY <2>2, <4>1 DEF HandOver, AtASlot
      <4> QED BY <2>1, <4>1, <4>2 DEF Same
    <3> QED BY <3>1, <3>2
  <2>4. \A u, v \in Tid : Live(u)' /\ Live(v)' /\ u # v => thread'[u].slot # thread'[v].slot
    BY <2>1, <2>2 DEF SameThread, HandOver
  <2>5. \A r \in State("running")' : \E u \in Tid : Live(u)' /\ thread'[u].slot = r
    <3>1. State("running")' = State("running") \cup {s}
      BY <2>1 DEF State, Same
    <3> QED BY <2>1, <3>1 DEF SameThread, HandOver
  <2> QED BY <2>3, <2>4, <2>5 DEF HandOver
<1>5. CASE Ending
  <2>1. PICK t \in Tid :
           /\ Live(t) /\ ~Live(t)'
           /\ slot'[thread[t].slot].state \in Settled
           /\ \A r \in Slot \ {thread[t].slot} : Same(r)
           /\ \A u \in Tid \ {t} : SameThread(u)
    BY <1>5 DEF Ending
  <2>2. \A u \in Tid \ {t} : Live(u) => thread[u].slot # thread[t].slot
    BY <2>1 DEF HandOver
  <2>3. ASSUME NEW u \in Tid, Live(u)' PROVE slot'[thread'[u].slot].state = "running"
    <3>1. u # t /\ Live(u) /\ thread'[u].slot = thread[u].slot
      BY <2>1, <2>3 DEF SameThread
    <3>2. thread[u].slot \in Slot \ {thread[t].slot} /\ slot[thread[u].slot].state = "running"
      BY <2>2, <3>1 DEF HandOver, AtASlot
    <3> QED BY <2>1, <3>1, <3>2 DEF Same
  <2>4. \A u, v \in Tid : Live(u)' /\ Live(v)' /\ u # v => thread'[u].slot # thread'[v].slot
    BY <2>1 DEF SameThread, HandOver
  <2>5. \A r \in State("running")' : \E u \in Tid : Live(u)' /\ thread'[u].slot = r
    <3>1. State("running")' \subseteq State("running") \ {thread[t].slot}
      BY <2>1 DEF State, Same, Settled
    <3> QED BY <2>1, <3>1 DEF SameThread, HandOver
  <2> QED BY <2>3, <2>4, <2>5 DEF HandOver
<1> QED BY <1>2, <1>3, <1>4, <1>5

LEMMA CountStep ==
  ASSUME TypeOK, HandOver, AtASlot, CountIsEnough,
         Quiet \/ Counting \/ Asking \/ Starting \/ Failing \/ Dropping \/ Ending
  PROVE  CountIsEnough'
<1>1. ASSUME \A t \in Tid : SameThread(t) PROVE LiveSet' = LiveSet
  BY <1>1 DEF LiveSet, SameThread
<1>2. CASE Quiet
  BY <1>1, <1>2 DEF Quiet, CountIsEnough
<1>3. CASE Counting
  BY <1>1, <1>3, LiveRunning DEF Counting, CountIsEnough
<1>4. CASE Asking \/ Dropping
  BY <1>1, <1>4 DEF Asking, Dropping, Uncounted, CountIsEnough
<1>5. CASE Failing
  BY <1>1, <1>5 DEF Failing, CountIsEnough
<1>6. CASE Starting
  <2>1. PICK t \in Tid : ~Live(t) /\ Live(t)' /\ \A u \in Tid \ {t} : SameThread(u)
    BY <1>6 DEF Starting
  <2>2. LiveSet' = LiveSet \cup {t} /\ t \notin LiveSet
    BY <2>1 DEF LiveSet, SameThread
  <2>3. Cardinality(LiveSet') = Cardinality(LiveSet) + 1
    BY <2>2, LiveFinite, FS_AddElement
  <2>4. main.running \in Nat
    BY DEF TypeOK, MainRec
  <2> QED BY <1>6, <2>3, <2>4, LiveFinite, SlotsAssumption DEF Starting, CountIsEnough
<1>7. CASE Ending
  <2>1. PICK t \in Tid : Live(t) /\ ~Live(t)' /\ \A u \in Tid \ {t} : SameThread(u)
    BY <1>7 DEF Ending
  <2>2. LiveSet' = LiveSet \ {t} /\ t \in LiveSet
    BY <2>1 DEF LiveSet, SameThread
  <2>3. Cardinality(LiveSet') = Cardinality(LiveSet) - 1
    BY <2>2, LiveFinite, FS_RemoveElement
  <2>4. main.running \in Nat /\ main' = main
    BY <1>7 DEF TypeOK, MainRec, Ending
  <2> QED BY <2>3, <2>4, LiveFinite, SlotsAssumption DEF CountIsEnough
<1> QED BY <1>2, <1>3, <1>4, <1>5, <1>6, <1>7

LEMMA FiniQuietStep ==
  ASSUME HandOver, AtASlot, FiniQuiet,
         Quiet \/ Counting \/ Asking \/ Starting \/ Failing \/ Dropping \/ Ending
  PROVE  FiniQuiet'
<1>1. CASE Quiet
  <2>1. State("running") = {} => \A t \in Tid : ~Live(t)
    BY DEF HandOver, AtASlot, State
  <2> QED BY <1>1, <2>1 DEF Quiet, FiniQuiet, SameThread
<1>2. CASE Counting \/ Asking \/ Starting \/ Dropping
  BY <1>2 DEF Counting, Asking, Starting, Dropping, Uncounted, FiniQuiet
<1>3. CASE Failing \/ Ending
  BY <1>3 DEF Failing, Ending, FiniQuiet, SameThread
<1> QED BY <1>1, <1>2, <1>3

\* The inductive invariant holds in every state.
LEMMA HoldsThroughout == Spec => []HInv
<1> DEFINE TInv == TypeOK /\ AtASlot
<1>1. Init => HInv
  <2> SUFFICES ASSUME Init PROVE HInv
    OBVIOUS
  <2>1. /\ \A t \in Tid : ~Live(t)
        /\ \A s \in Slot : slot[s].state = "empty"
        /\ main.pc = "idle"
    BY DEF Init, Live, Dead, Idle
  <2>2. LiveSet = {}
    BY <2>1 DEF LiveSet
  <2>3. CountIsEnough
    BY <2>1, <2>2, FS_EmptySet, SlotsAssumption DEF CountIsEnough
  <2> QED BY <2>1, <2>3 DEF HInv, OneSlotPerHost, HandOver, FiniQuiet, State
<1>2. TInv /\ HInv /\ [Next]_vars => HInv'
  BY Effect, OneSlotStep, HandOverStep, CountStep, FiniQuietStep DEF HInv
<1>3. Spec => []TInv
  BY TypeCorrect
<1> QED BY <1>1, <1>2, <1>3, PTL DEF Spec

\* A host never has two slots in use, whatever is given up, asked again or lost
\* while lookups run (slot_for, slot_ask).
THEOREM OneSlot == Spec => []OneSlotPerHost
<1>1. HInv => OneSlotPerHost
  BY DEF HInv
<1> QED BY <1>1, HoldsThroughout, PTL

\* A live lookup has a slot of its own, marked running, and a slot marked
\* running has its live lookup: the hand-over by the state alone is sound.
THEOREM HandedOver == Spec => []HandOver
<1>1. HInv => HandOver
  BY DEF HInv
<1> QED BY <1>1, HoldsThroughout, PTL

\* start_queued keeps to RESOLVE_THREADS for any number of slots and threads.
THEOREM Bounded == Spec => []ThreadsBounded
<1>1. HInv => ThreadsBounded
  BY DEF HInv, CountIsEnough, LiveSet, ThreadsBounded
<1> QED BY <1>1, HoldsThroughout, PTL

\* vita_resolve_fini that has seen no slot running has left no thread alive.
THEOREM EndedQuiet == Spec => []FiniQuiet
<1>1. HInv => FiniQuiet
  BY DEF HInv
<1> QED BY <1>1, HoldsThroughout, PTL

\* All of it together, as the runs check it: the slots stay sound for any number
\* of slots, threads and hosts.
THEOREM SlotsStaySound == Spec => []SlotsSound
<1>1. OneSlotPerHost /\ HandOver /\ ThreadsBounded /\ FiniQuiet => SlotsSound
  BY DEF SlotsSound
<1> QED BY <1>1, OneSlot, HandedOver, Bounded, EndedQuiet, PTL

-----------------------------------------------------------------------------
(* What the slots say, and to whom, for every number of slots, threads,    *)
(* hosts and addresses.                                                    *)

\* What a slot's record may hold: nothing yet, the address found for its host,
\* or why there is none.
Unwritten(r) == r.fail = "none" /\ r.found = NoAddr
Good(r) == r.fail = "none" /\ r.found.of = r.host
Bad(r) == r.fail # "none" /\ r.found = NoAddr

\* A slot that is not its thread's says nothing while queued, and its answer
\* once settled.
Says(r) ==
  /\ r.state = "queued" => Unwritten(r)
  /\ r.state = "ok" => Good(r)
  /\ r.state = "failed" => Bad(r)

\* A lookup works for its slot's host, and has written the slot's answer, whole,
\* when it comes to stamp and publish it.
Knows(q, r) ==
  /\ q.host = r.host
  /\ q.pc \in {"own", "create", "ask", "destroy"} => Unwritten(r)
  /\ q.pc \in {"stamp", "publish"} => Good(r) \/ Bad(r)

SlotsSay == \A s \in Slot : Says(slot[s])
LookupsKnow == \A t \in Tid : Live(t) => Knows(thread[t], slot[thread[t].slot])

\* The slot a caller waits for stays its host's, and what is returned is of it.
CallerWaits ==
  main.pc \in {"count", "start", "recheck"} /\ main.slot # None => slot[main.slot].host = main.host
CallerTold ==
  main.pc = "return" /\ main.ret.kind = "ok" =>
    main.ret.host = main.host /\ main.ret.found.of = main.host

\* The inductive invariant.
AInv == SlotsSay /\ LookupsKnow /\ CallerWaits /\ CallerTold

\* What is established before: types, and that a live lookup's slot is its own.
Known == TypeOK /\ AtASlot /\ HandOver

\* A slot's words are kept when its host, its answer and why there is none are.
SameWords(s) ==
  /\ slot'[s].host = slot[s].host
  /\ slot'[s].found = slot[s].found /\ slot'[s].fail = slot[s].fail
SameLookup(t) ==
  Live(t)' => Live(t) /\ \/ thread'[t] = thread[t]
                         \/ /\ thread'[t].slot = thread[t].slot
                            /\ thread'[t].host = thread[t].host
                            /\ thread'[t].pc = thread[t].pc

\* Which of the words a write to another field of the record leaves.
LEMMA WordsKept ==
  ASSUME NEW r \in SlotRec
  PROVE  /\ \A x \in Found : LET q == [r EXCEPT !.found = x]
                             IN q.host = r.host /\ q.state = r.state /\ q.found = x /\ q.fail = r.fail
         /\ \A f \in Fail : LET q == [r EXCEPT !.fail = f]
                            IN q.host = r.host /\ q.state = r.state /\ q.found = r.found /\ q.fail = f
         /\ \A b \in BOOLEAN : LET q == [r EXCEPT !.rid = b]
                               IN q.host = r.host /\ q.state = r.state /\ q.found = r.found /\ q.fail = r.fail
         /\ \A n \in Stamp : LET q == [r EXCEPT !.done = n]
                             IN q.host = r.host /\ q.state = r.state /\ q.found = r.found /\ q.fail = r.fail
         /\ \A n \in Stamp : LET q == [r EXCEPT !.used = n]
                             IN q.host = r.host /\ q.state = r.state /\ q.found = r.found /\ q.fail = r.fail
         /\ \A st \in {"empty"} \cup Unsettled \cup Settled :
              LET q == [r EXCEPT !.state = st]
              IN q.host = r.host /\ q.state = st /\ q.found = r.found /\ q.fail = r.fail
  BY DEF SlotRec

\* What a lookup's step keeps of its record.
LEMMA LookupKept ==
  ASSUME NEW q \in ThreadRec
  PROVE  /\ \A pc \in {"create", "ask", "stamp", "publish"} :
              LET p == [q EXCEPT !.pc = pc] IN p.pc = pc /\ p.slot = q.slot /\ p.host = q.host
         /\ \A g \in Settled : LET p == [q EXCEPT !.pc = "destroy", !.got = g]
                               IN p.pc = "destroy" /\ p.slot = q.slot /\ p.host = q.host
         /\ LET p == [q EXCEPT !.aborted = TRUE]
            IN p.pc = q.pc /\ p.slot = q.slot /\ p.host = q.host
  BY DEF ThreadRec

\* The lookups know what they knew when no word changes and none begins.
LEMMA LookupsStill ==
  ASSUME LookupsKnow, AtASlot,
         \A t \in Tid : SameLookup(t),
         \A t \in Tid : Live(t) => SameWords(thread[t].slot)
  PROVE  LookupsKnow'
<1> SUFFICES ASSUME NEW t \in Tid, Live(t)'
             PROVE  Knows(thread[t], slot[thread[t].slot])'
  BY DEF LookupsKnow
<1>1. /\ Live(t) /\ thread'[t].slot = thread[t].slot /\ thread'[t].host = thread[t].host
      /\ thread'[t].pc = thread[t].pc
  BY DEF SameLookup
<1> DEFINE s == thread[t].slot
<1>2. Knows(thread[t], slot[s])
  BY <1>1 DEF LookupsKnow
<1>3. SameWords(s)
  BY <1>1
<1> QED BY <1>1, <1>2, <1>3 DEF Knows, SameWords, Unwritten, Good, Bad

\* The slots say what they said when no word changes and none settles.
LEMMA SlotsStill ==
  ASSUME SlotsSay,
         \A s \in Slot : SameWords(s)
                         /\ (slot'[s].state = slot[s].state
                             \/ slot'[s].state \notin {"queued", "ok", "failed"})
  PROVE  SlotsSay'
  BY DEF SlotsSay, Says, SameWords, Unwritten, Good, Bad

\* The slot a caller waits for is its host's when no slot's host changes.
LEMMA CallerStill ==
  ASSUME CallerWaits, CallerTold, TypeOK, \A s \in Slot : slot'[s].host = slot[s].host,
         \/ main'.pc \in {"idle", "read rid", "abort", "wait", "ended", "gave up"}
         \/ main' = main
         \/ /\ main.pc \in {"count", "start", "recheck"} /\ main'.pc \in {"start", "recheck"}
            /\ main'.slot = main.slot /\ main'.host = main.host
  PROVE  CallerWaits' /\ CallerTold'
<1>1. main.slot \in Slot \cup {None}
  BY DEF TypeOK, MainRec
<1> QED BY <1>1 DEF CallerWaits, CallerTold

\* What a lookup's step owes: its own slot, which no other has, may be written.
LEMMA LookupStep ==
  ASSUME Known, AInv, NEW t \in Tid, Live(t), main' = main,
         slot'[thread[t].slot].host = slot[thread[t].slot].host,
         Says(slot'[thread[t].slot]),
         \A s \in Slot \ {thread[t].slot} : slot'[s] = slot[s],
         Live(t)' => thread'[t].slot = thread[t].slot
                     /\ Knows(thread'[t], slot'[thread[t].slot]),
         \A u \in Tid \ {t} : thread'[u] = thread[u]
  PROVE  AInv'
<1> DEFINE s == thread[t].slot
<1>1. SlotsSay'
  BY DEF AInv, SlotsSay
<1>2. LookupsKnow'
  <2> SUFFICES ASSUME NEW u \in Tid, Live(u)'
               PROVE  Knows(thread[u], slot[thread[u].slot])'
    BY DEF LookupsKnow
  <2>1. CASE u = t
    BY <2>1
  <2>2. CASE u # t
    <3>1. Live(u) /\ thread'[u] = thread[u]
      BY <2>2 DEF Live
    <3>2. thread[u].slot \in Slot \ {s}
      BY <2>2, <3>1 DEF Known, HandOver, AtASlot
    <3>3. slot'[thread[u].slot] = slot[thread[u].slot]
      BY <3>2
    <3>4. Knows(thread[u], slot[thread[u].slot])
      BY <3>1 DEF AInv, LookupsKnow
    <3> QED BY <3>1, <3>3, <3>4
  <2> QED BY <2>1, <2>2
<1>3. CallerWaits' /\ CallerTold'
  <2>1. \A r \in Slot : slot'[r].host = slot[r].host
    OBVIOUS
  <2> QED BY <2>1, CallerStill DEF AInv, Known
<1> QED BY <1>1, <1>2, <1>3 DEF AInv

\* A lookup's step: it writes its slot's answer once, before it publishes it.
LEMMA ThreadSays ==
  ASSUME Known, AInv, NEW t \in Tid, Thread(t)
  PROVE  AInv'
<1> DEFINE s == thread[t].slot
           Gone(pc) == [thread[t] EXCEPT !.pc = pc]
<1>0. now \in Stamp
  BY NowType DEF Known, TypeOK
<1>1. Live(t) /\ thread[t] \in ThreadRec /\ s \in Slot /\ slot[s].state = "running"
  BY DEF Thread, OwnQuery, CreateResolver, ResolverReturns, DestroyResolver,
         StampDone, Publish, AtASlot, Live, Known, TypeOK, HandOver
<1>2. slot[s] \in SlotRec
  BY <1>1 DEF Known, TypeOK
<1>3. Knows(thread[t], slot[s])
  BY <1>1 DEF AInv, LookupsKnow
<1>4. \A pc \in {"create", "ask", "stamp", "publish"} :
         Gone(pc).pc = pc /\ Gone(pc).slot = s /\ Gone(pc).host = thread[t].host
  BY <1>1, LookupKept
<1>5. \A a \in Addr : [of |-> thread[t].host, addr |-> a] \in Found
  BY <1>1, ThreadFields DEF Found
<1>6. ASSUME NEW q, thread' = [thread EXCEPT ![t] = q], q.slot = s, q.pc # "dead",
             NEW r, slot' = [slot EXCEPT ![s] = r], main' = main,
             r.host = slot[s].host, r.state = "running", Knows(q, r)
      PROVE  AInv'
  <2>1. /\ slot'[s] = r /\ thread'[t] = q
        /\ \A u \in Slot \ {s} : slot'[u] = slot[u]
        /\ \A u \in Tid \ {t} : thread'[u] = thread[u]
    BY <1>1, <1>6 DEF Known, TypeOK
  <2>2. Says(r)
    BY <1>6 DEF Says
  <2> QED BY <1>1, <1>6, <2>1, <2>2, LookupStep
<1>7. slot = [slot EXCEPT ![s] = slot[s]]
  BY <1>1 DEF Known, TypeOK
<1>8. CASE OwnQuery(t)
  <2>1. thread[t].pc = "own" /\ main' = main /\ Unwritten(slot[s])
    BY <1>3, <1>8 DEF OwnQuery, Knows
  <2>2. ASSUME NEW a \in Addr, Goto(t, "stamp"),
               slot' = [slot EXCEPT ![s].found = [of |-> thread[t].host, addr |-> a]]
        PROVE  AInv'
    <3> DEFINE x == [of |-> thread[t].host, addr |-> a]
               r == [slot[s] EXCEPT !.found = x]
    <3>1. x \in Found /\ x.of = thread[t].host
      BY <1>5
    <3> HIDE DEF x
    <3>2. r.host = slot[s].host /\ r.state = "running" /\ r.found = x /\ r.fail = "none"
      BY <1>1, <1>2, <2>1, <3>1, WordsKept DEF Unwritten
    <3>3. slot' = [slot EXCEPT ![s] = r]
      BY <2>2 DEF x
    <3> HIDE DEF r
    <3>4. Knows(Gone("stamp"), r)
      BY <1>3, <1>4, <3>1, <3>2 DEF Knows, Good
    <3> QED BY <1>4, <1>6, <2>1, <2>2, <3>2, <3>3, <3>4 DEF Goto
  <2>3. ASSUME slot' = [slot EXCEPT ![s].fail = "dns"], Goto(t, "stamp") PROVE AInv'
    <3> DEFINE r == [slot[s] EXCEPT !.fail = "dns"]
    <3>1. /\ r.host = slot[s].host /\ r.state = "running" /\ r.found = slot[s].found
          /\ r.fail = "dns"
      BY <1>1, <1>2, WordsKept DEF Fail
    <3>2. slot' = [slot EXCEPT ![s] = r]
      BY <2>3
    <3> HIDE DEF r
    <3>3. Knows(Gone("stamp"), r)
      BY <1>3, <1>4, <2>1, <3>1 DEF Knows, Bad, Unwritten
    <3> QED BY <1>4, <1>6, <2>1, <2>3, <3>1, <3>2, <3>3 DEF Goto
  <2>4. ASSUME Goto(t, "create"), UNCHANGED slot PROVE AInv'
    <3>1. Knows(Gone("create"), slot[s])
      BY <1>3, <1>4, <2>1 DEF Knows
    <3> QED BY <1>1, <1>4, <1>6, <1>7, <2>1, <2>4, <3>1 DEF Goto
  <2> QED BY <1>8, <2>2, <2>3, <2>4 DEF OwnQuery
<1>9. CASE CreateResolver(t)
  <2>1. thread[t].pc = "create" /\ main' = main /\ Unwritten(slot[s])
    BY <1>3, <1>9 DEF CreateResolver, Knows
  <2>2. ASSUME slot' = [slot EXCEPT ![s].fail = "create"], Goto(t, "stamp") PROVE AInv'
    <3> DEFINE r == [slot[s] EXCEPT !.fail = "create"]
    <3>1. /\ r.host = slot[s].host /\ r.state = "running" /\ r.found = slot[s].found
          /\ r.fail = "create"
      BY <1>1, <1>2, WordsKept DEF Fail
    <3>2. slot' = [slot EXCEPT ![s] = r]
      BY <2>2
    <3> HIDE DEF r
    <3>3. Knows(Gone("stamp"), r)
      BY <1>3, <1>4, <2>1, <3>1 DEF Knows, Bad, Unwritten
    <3> QED BY <1>4, <1>6, <2>1, <2>2, <3>1, <3>2, <3>3 DEF Goto
  <2>3. ASSUME slot' = [slot EXCEPT ![s].rid = TRUE], Goto(t, "ask") PROVE AInv'
    <3> DEFINE r == [slot[s] EXCEPT !.rid = TRUE]
    <3>1. /\ r.host = slot[s].host /\ r.state = "running" /\ r.found = slot[s].found
          /\ r.fail = slot[s].fail
      BY <1>1, <1>2, WordsKept
    <3>2. slot' = [slot EXCEPT ![s] = r]
      BY <2>3
    <3> HIDE DEF r
    <3>3. Knows(Gone("ask"), r)
      BY <1>3, <1>4, <2>1, <3>1 DEF Knows, Unwritten
    <3> QED BY <1>4, <1>6, <2>1, <2>3, <3>1, <3>2, <3>3 DEF Goto
  <2> QED BY <1>9, <2>2, <2>3 DEF CreateResolver
<1>10. CASE ResolverReturns(t)
  <2>1. PICK got \in Settled : thread' = [thread EXCEPT ![t].pc = "destroy", ![t].got = got]
    BY <1>10 DEF ResolverReturns, Settled
  <2> DEFINE q == [thread[t] EXCEPT !.pc = "destroy", !.got = got]
             r == [slot[s] EXCEPT !.rid = FALSE]
  <2>2. q.pc = "destroy" /\ q.slot = s /\ q.host = thread[t].host
    BY <1>1, LookupKept
  <2>3. thread' = [thread EXCEPT ![t] = q]
    BY <1>1, <2>1 DEF Known, TypeOK
  <2>4. /\ r.host = slot[s].host /\ r.state = "running" /\ r.found = slot[s].found
        /\ r.fail = slot[s].fail
    BY <1>1, <1>2, WordsKept
  <2>5. slot' = [slot EXCEPT ![s] = r] /\ main' = main
    BY <1>10 DEF ResolverReturns
  <2> HIDE DEF q, r
  <2>6. Knows(q, r)
    BY <1>3, <1>10, <2>2, <2>4 DEF Knows, Unwritten, ResolverReturns
  <2> QED BY <1>6, <2>2, <2>3, <2>4, <2>5, <2>6
<1>11. CASE DestroyResolver(t)
  <2>1. thread[t].pc = "destroy" /\ main' = main /\ Goto(t, "stamp") /\ Unwritten(slot[s])
    BY <1>3, <1>11 DEF DestroyResolver, Knows
  <2>2. ASSUME NEW a \in Addr,
               slot' = [slot EXCEPT ![s].found = [of |-> thread[t].host, addr |-> a]]
        PROVE  AInv'
    <3> DEFINE x == [of |-> thread[t].host, addr |-> a]
               r == [slot[s] EXCEPT !.found = x]
    <3>1. x \in Found /\ x.of = thread[t].host
      BY <1>5
    <3> HIDE DEF x
    <3>2. r.host = slot[s].host /\ r.state = "running" /\ r.found = x /\ r.fail = "none"
      BY <1>1, <1>2, <2>1, <3>1, WordsKept DEF Unwritten
    <3>3. slot' = [slot EXCEPT ![s] = r]
      BY <2>2 DEF x
    <3> HIDE DEF r
    <3>4. Knows(Gone("stamp"), r)
      BY <1>3, <1>4, <3>1, <3>2 DEF Knows, Good
    <3> QED BY <1>4, <1>6, <2>1, <3>2, <3>3, <3>4 DEF Goto
  <2>3. ASSUME slot' = [slot EXCEPT ![s].fail = "lookup"] PROVE AInv'
    <3> DEFINE r == [slot[s] EXCEPT !.fail = "lookup"]
    <3>1. /\ r.host = slot[s].host /\ r.state = "running" /\ r.found = slot[s].found
          /\ r.fail = "lookup"
      BY <1>1, <1>2, WordsKept DEF Fail
    <3>2. slot' = [slot EXCEPT ![s] = r]
      BY <2>3
    <3> HIDE DEF r
    <3>3. Knows(Gone("stamp"), r)
      BY <1>3, <1>4, <2>1, <3>1 DEF Knows, Bad, Unwritten
    <3> QED BY <1>4, <1>6, <2>1, <3>1, <3>2, <3>3 DEF Goto
  <2> QED BY <1>11, <2>2, <2>3 DEF DestroyResolver
<1>12. CASE StampDone(t)
  <2> DEFINE r == [slot[s] EXCEPT !.done = now]
  <2>1. /\ r.host = slot[s].host /\ r.state = "running" /\ r.found = slot[s].found
        /\ r.fail = slot[s].fail
    BY <1>0, <1>1, <1>2, WordsKept
  <2>2. slot' = [slot EXCEPT ![s] = r] /\ main' = main /\ Goto(t, "publish")
    BY <1>12 DEF StampDone
  <2> HIDE DEF r
  <2>3. Knows(Gone("publish"), r)
    BY <1>3, <1>4, <1>12, <2>1 DEF Knows, Good, Bad, StampDone
  <2> QED BY <1>4, <1>6, <2>1, <2>2, <2>3 DEF Goto
<1>13. CASE Publish(t)
  <2> DEFINE st == IF slot[s].fail = "none" THEN "ok" ELSE "failed"
             r == [slot[s] EXCEPT !.state = st]
  <2>1. /\ r.host = slot[s].host /\ r.state = st /\ r.found = slot[s].found
        /\ r.fail = slot[s].fail
    BY <1>2, WordsKept DEF Settled
  <2>2. slot' = [slot EXCEPT ![s] = r] /\ thread' = [thread EXCEPT ![t] = Dead] /\ main' = main
    BY <1>13 DEF Publish
  <2> HIDE DEF r
  <2>3. Good(slot[s]) \/ Bad(slot[s])
    BY <1>3, <1>13 DEF Knows, Publish
  <2>4. Says(r)
    BY <2>1, <2>3 DEF Says, Good, Bad
  <2>5. /\ slot'[s] = r /\ ~Live(t)'
        /\ \A u \in Slot \ {s} : slot'[u] = slot[u]
        /\ \A u \in Tid \ {t} : thread'[u] = thread[u]
    BY <1>1, <2>2, DeadType DEF Known, TypeOK, Live
  <2> QED BY <1>1, <2>1, <2>2, <2>4, <2>5, LookupStep
<1> QED BY <1>8, <1>9, <1>10, <1>11, <1>12, <1>13 DEF Thread

\* A call asks a slot anew for its host, or is told what the host's slot says.
LEMMA CallSays ==
  ASSUME Known, AInv, NEW h \in Host, Call(h)
  PROVE  AInv'
<1>0. now \in Stamp /\ main \in MainRec /\ \A s \in Slot : slot[s] \in SlotRec
  BY NowType DEF Known, TypeOK
<1>1. \A t \in Tid : SameLookup(t)
  BY DEF Call, SameLookup, Live
<1>2. ASSUME NEW s \in Slot, Ask(s, h), slot[s].state \notin Unsettled PROVE AInv'
  <2> DEFINE r == Asked(s, h)
  <2>1. r.host = h /\ r.state = "queued" /\ r.found = NoAddr /\ r.fail = "none"
    BY DEF Asked
  <2>2. slot' = [slot EXCEPT ![s] = r]
    BY <1>2 DEF Ask
  <2> HIDE DEF r
  <2>3. slot'[s] = r /\ \A u \in Slot \ {s} : slot'[u] = slot[u]
    BY <2>2 DEF Known, TypeOK
  <2>4. SlotsSay'
    BY <2>1, <2>3 DEF AInv, SlotsSay, Says, Unwritten
  <2>5. \A t \in Tid : Live(t) => thread[t].slot \in Slot \ {s}
    BY <1>2 DEF Known, HandOver, AtASlot, Unsettled
  <2>6. LookupsKnow'
    <3>1. \A t \in Tid : Live(t) => SameWords(thread[t].slot)
      BY <2>3, <2>5 DEF SameWords
    <3> QED BY <1>1, <3>1, LookupsStill DEF AInv, Known
  <2>7. main'.pc = "count" /\ main'.slot = s /\ main'.host = h
    BY <1>0, <1>2 DEF Ask, MainRec
  <2>8. CallerWaits' /\ CallerTold'
    BY <2>1, <2>3, <2>7 DEF CallerWaits, CallerTold
  <2> QED BY <2>4, <2>6, <2>8 DEF AInv
<1>3. CASE CallNew(h)
  <2>1. ASSUME NEW s \in Slot, SpareFor(s), Ask(s, h) PROVE AInv'
    <3>1. slot[s].state \notin Unsettled
      BY <2>1 DEF SpareFor, Settled, Unsettled
    <3> QED BY <1>2, <2>1, <3>1
  <2>2. ASSUME main' = [main EXCEPT !.pc = "count", !.host = h, !.slot = None],
               UNCHANGED <<slot, askedAt>>
        PROVE  AInv'
    <3>1. main'.pc = "count" /\ main'.slot = None
      BY <1>0, <2>2 DEF MainRec
    <3>2. CallerWaits' /\ CallerTold'
      BY <3>1 DEF CallerWaits, CallerTold
    <3>3. SlotsSay'
      BY <2>2 DEF AInv, SlotsSay
    <3>4. LookupsKnow'
      BY <1>1, <2>2, LookupsStill DEF AInv, Known, SameWords
    <3> QED BY <3>2, <3>3, <3>4 DEF AInv
  <2> QED BY <1>3, <2>1, <2>2 DEF CallNew
<1>4. ASSUME NEW s \in Slot, CallHeld(h, s), Stale(s) PROVE AInv'
  <2>1. slot[s].state \notin Unsettled
    BY <1>4 DEF Stale, Unsettled
  <2> QED BY <1>2, <1>4, <2>1 DEF CallHeld
<1>5. ASSUME NEW s \in Slot, CallHeld(h, s), ~Stale(s) PROVE AInv'
  <2> DEFINE r == [slot[s] EXCEPT !.used = now]
  <2>1. /\ r.host = slot[s].host /\ r.state = slot[s].state /\ r.found = slot[s].found
        /\ r.fail = slot[s].fail
    BY <1>0, WordsKept
  <2>2. slot' = [slot EXCEPT ![s] = r]
    BY <1>5 DEF CallHeld
  <2> HIDE DEF r
  <2>3. \A u \in Slot : SameWords(u) /\ slot'[u].state = slot[u].state
    BY <2>1, <2>2 DEF SameWords, Known, TypeOK
  <2>4. SlotsSay'
    BY <2>3, SlotsStill DEF AInv
  <2>5. LookupsKnow'
    BY <1>1, <2>3, LookupsStill DEF AInv, Known, AtASlot
  <2>6. slot[s].host = h
    BY <1>5 DEF CallHeld, Holds
  <2>7. CallerWaits' /\ CallerTold'
    <3>1. CASE slot[s].state \in Unsettled
      <4>1. main'.pc = "count" /\ main'.slot = s /\ main'.host = h
        BY <1>0, <1>5, <3>1 DEF CallHeld, MainRec
      <4> QED BY <2>3, <2>6, <4>1 DEF CallerWaits, CallerTold, SameWords
    <3>2. CASE slot[s].state \notin Unsettled
      <4> DEFINE a == Answer(s)
      <4>1. main' = [main EXCEPT !.pc = "return", !.host = h, !.slot = s, !.ret = a]
        BY <1>5, <3>2 DEF CallHeld
      <4>2. a.kind = slot[s].state /\ a.host = slot[s].host /\ a.found = slot[s].found
        BY DEF Answer
      <4> HIDE DEF a
      <4>3. main'.pc = "return" /\ main'.host = h /\ main'.ret = a
        BY <1>0, <4>1 DEF MainRec
      <4>4. slot[s].state = "ok" => slot[s].found.of = slot[s].host
        BY DEF AInv, SlotsSay, Says, Good
      <4> QED BY <2>6, <4>2, <4>3, <4>4 DEF CallerWaits, CallerTold
    <3> QED BY <3>1, <3>2
  <2> QED BY <2>4, <2>5, <2>7 DEF AInv
<1> QED BY <1>3, <1>4, <1>5 DEF Call

\* What is left of the slots' words by the steps of the main thread that do not
\* call: none of them is written but by a start that fails.
LEMMA MainSays ==
  ASSUME Known, AInv, Resolving \/ Return \/ Fini \/ Tick
  PROVE  AInv'
<1>0. now \in Stamp /\ main \in MainRec /\ \A s \in Slot : slot[s] \in SlotRec
  BY NowType DEF Known, TypeOK
<1>1. ASSUME slot' = slot, \A t \in Tid : SameLookup(t) PROVE SlotsSay' /\ LookupsKnow'
  <2>1. SlotsSay'
    BY <1>1 DEF AInv, SlotsSay
  <2>2. LookupsKnow'
    BY <1>1, LookupsStill DEF AInv, Known, SameWords
  <2> QED BY <2>1, <2>2
<1>2. ASSUME UNCHANGED <<slot, thread>> PROVE SlotsSay' /\ LookupsKnow'
  BY <1>1, <1>2 DEF SameLookup, Live
<1>3. CASE Count
  <2>1. main'.pc = "start" /\ main'.slot = main.slot /\ main'.host = main.host
    <3> DEFINE n == Cardinality(State("running"))
    <3>1. main' = [main EXCEPT !.pc = "start", !.running = n]
      BY <1>3 DEF Count
    <3> HIDE DEF n
    <3> QED BY <1>0, <3>1 DEF MainRec
  <2>2. CallerWaits' /\ CallerTold'
    BY <1>3, <2>1, CallerStill DEF Count, AInv, Known
  <2> QED BY <1>2, <1>3, <2>2 DEF Count, AInv
<1>4. CASE StartLookup
  <2>1. PICK s \in Slot, t \in Tid :
           /\ Oldest(s) /\ ~Live(t)
           /\ slot' = [slot EXCEPT ![s].state = "running"]
           /\ thread' = [thread EXCEPT ![t] = [Dead EXCEPT !.pc = "own", !.slot = s,
                                                      !.host = slot[s].host]]
    BY <1>4 DEF StartLookup
  <2> DEFINE r == [slot[s] EXCEPT !.state = "running"]
             q == [Dead EXCEPT !.pc = "own", !.slot = s, !.host = slot[s].host]
             n == main.running + 1
  <2>2. /\ r.host = slot[s].host /\ r.state = "running" /\ r.found = slot[s].found
        /\ r.fail = slot[s].fail
    BY <1>0, WordsKept DEF Unsettled
  <2>3. q.pc = "own" /\ q.slot = s /\ q.host = slot[s].host
    BY DEF Dead
  <2>4. slot' = [slot EXCEPT ![s] = r] /\ thread' = [thread EXCEPT ![t] = q]
    BY <2>1
  <2>5. main' = [main EXCEPT !.running = n] /\ main.pc = "start"
    BY <1>4 DEF StartLookup, MayStart
  <2> HIDE DEF r, q, n
  <2>6. /\ \A u \in Slot : SameWords(u)
        /\ \A u \in Slot \ {s} : slot'[u] = slot[u]
        /\ slot'[s] = r /\ thread'[t] = q
        /\ \A u \in Tid \ {t} : thread'[u] = thread[u]
    BY <2>2, <2>4 DEF SameWords, Known, TypeOK
  <2>7. SlotsSay'
    BY <2>2, <2>6, SlotsStill DEF AInv
  <2>8. Unwritten(slot[s])
    BY <2>1 DEF Oldest, AInv, SlotsSay, Says
  <2>9. ASSUME NEW u \in Tid, Live(u)' PROVE Knows(thread[u], slot[thread[u].slot])'
    <3>1. CASE u = t
      BY <2>2, <2>3, <2>6, <2>8, <3>1 DEF Knows, Unwritten
    <3>2. CASE u # t
      <4>1. Live(u) /\ thread'[u] = thread[u]
        BY <2>6, <2>9, <3>2 DEF Live
      <4>2. Knows(thread[u], slot[thread[u].slot]) /\ thread[u].slot \in Slot
        BY <4>1 DEF AInv, LookupsKnow, Known, AtASlot
      <4>3. SameWords(thread[u].slot)
        BY <2>6, <4>2
      <4> QED BY <4>1, <4>2, <4>3 DEF Knows, SameWords, Unwritten, Good, Bad
    <3> QED BY <3>1, <3>2
  <2>10. LookupsKnow'
    BY <2>9 DEF LookupsKnow
  <2>11. main'.pc = "start" /\ main'.slot = main.slot /\ main'.host = main.host
    BY <1>0, <2>5 DEF MainRec
  <2>12. CallerWaits' /\ CallerTold'
    BY <2>5, <2>6, <2>11, CallerStill DEF AInv, Known, SameWords
  <2> QED BY <2>7, <2>10, <2>12 DEF AInv
<1>5. CASE StartFails
  <2>1. PICK s \in Slot : /\ Oldest(s)
                          /\ slot' = [slot EXCEPT ![s].state = "failed", ![s].fail = "thread",
                                                  ![s].done = now]
    BY <1>5 DEF StartFails
  <2> DEFINE r == [slot[s] EXCEPT !.state = "failed", !.fail = "thread", !.done = now]
  <2>2. r.state = "failed" /\ r.host = slot[s].host /\ r.found = slot[s].found /\ r.fail = "thread"
    BY <1>0 DEF SlotRec
  <2>3. slot' = [slot EXCEPT ![s] = r]
    BY <2>1 DEF Known, TypeOK
  <2> HIDE DEF r
  <2>4. slot'[s] = r /\ \A u \in Slot \ {s} : slot'[u] = slot[u]
    BY <2>3 DEF Known, TypeOK
  <2>5. slot[s].state = "queued" /\ Unwritten(slot[s])
    BY <2>1 DEF Oldest, AInv, SlotsSay, Says
  <2>6. SlotsSay'
    BY <2>2, <2>4, <2>5 DEF AInv, SlotsSay, Says, Bad, Unwritten
  <2>7. \A t \in Tid : Live(t) => thread[t].slot \in Slot \ {s}
    BY <2>5 DEF Known, HandOver, AtASlot
  <2>8. LookupsKnow'
    <3>1. \A t \in Tid : SameLookup(t)
      BY <1>5 DEF StartFails, SameLookup, Live
    <3>2. \A t \in Tid : Live(t) => SameWords(thread[t].slot)
      BY <2>4, <2>7 DEF SameWords
    <3> QED BY <3>1, <3>2, LookupsStill DEF AInv, Known
  <2>9. CallerWaits' /\ CallerTold'
    BY <1>5, <2>2, <2>4, CallerStill DEF StartFails, AInv, Known
  <2> QED BY <2>6, <2>8, <2>9 DEF AInv
<1>6. CASE StartDone
  <2>1. main'.pc = "recheck" /\ main.pc = "start" /\ main'.slot = main.slot /\ main'.host = main.host
    BY <1>0, <1>6 DEF StartDone, MainRec
  <2>2. CallerWaits' /\ CallerTold'
    BY <1>6, <2>1, CallerStill DEF StartDone, AInv, Known
  <2> QED BY <1>2, <1>6, <2>2 DEF StartDone, AInv
<1>7. CASE Recheck
  <2> DEFINE a == IF main.slot # None /\ slot[main.slot].state \in Settled
                  THEN Answer(main.slot) ELSE Pending
  <2>1. main' = [main EXCEPT !.pc = "return", !.ret = a]
    BY <1>7 DEF Recheck
  <2>2. a.kind = "ok" => a.host = main.host /\ a.found.of = main.host
    <3> SUFFICES ASSUME a.kind = "ok" PROVE a.host = main.host /\ a.found.of = main.host
      OBVIOUS
    <3>1. main.slot # None /\ a = Answer(main.slot)
      BY DEF Pending
    <3>2. main.slot \in Slot
      BY <1>0, <3>1 DEF MainRec
    <3>3. slot[main.slot].state = "ok" /\ a.host = slot[main.slot].host
          /\ a.found = slot[main.slot].found
      BY <3>1 DEF Answer
    <3>4. slot[main.slot].found.of = slot[main.slot].host
      BY <3>2, <3>3 DEF AInv, SlotsSay, Says, Good
    <3>5. slot[main.slot].host = main.host
      BY <1>7, <3>1 DEF Recheck, AInv, CallerWaits
    <3> QED BY <3>3, <3>4, <3>5
  <2> HIDE DEF a
  <2>3. main'.pc = "return" /\ main'.ret = a /\ main'.host = main.host
    BY <1>0, <2>1 DEF MainRec
  <2>4. CallerWaits' /\ CallerTold'
    BY <2>2, <2>3 DEF CallerWaits, CallerTold
  <2> QED BY <1>2, <1>7, <2>4 DEF Recheck, AInv
<1>8. CASE Return
  <2>1. CallerWaits' /\ CallerTold'
    BY <1>8 DEF Return, Idle, CallerWaits, CallerTold
  <2> QED BY <1>2, <1>8, <2>1 DEF Return, AInv
<1>9. CASE FiniDrop
  <2>1. main'.pc = "read rid"
    BY <1>0, <1>9 DEF FiniDrop, MainRec
  <2>2. CallerWaits' /\ CallerTold'
    BY <2>1 DEF CallerWaits, CallerTold
  <2>3. \A s \in Slot : LET r == [slot[s] EXCEPT !.state = "empty"]
                        IN /\ r.host = slot[s].host /\ r.state = "empty"
                           /\ r.found = slot[s].found /\ r.fail = slot[s].fail
    BY <1>0, WordsKept
  <2>4. \A s \in Slot : SameWords(s) /\ (slot'[s].state = slot[s].state \/ slot'[s].state = "empty")
    BY <1>9, <2>3 DEF FiniDrop, SameWords
  <2>5. SlotsSay'
    BY <2>4, SlotsStill DEF AInv
  <2>6. LookupsKnow'
    <3>1. \A t \in Tid : SameLookup(t)
      BY <1>9 DEF FiniDrop, SameLookup, Live
    <3> QED BY <2>4, <3>1, LookupsStill DEF AInv, Known, AtASlot
  <2> QED BY <2>2, <2>5, <2>6 DEF AInv
<1>10. CASE FiniReadRid
  <2>1. main'.pc = "abort"
    BY <1>0, <1>10 DEF FiniReadRid, MainRec
  <2>2. CallerWaits' /\ CallerTold'
    BY <2>1 DEF CallerWaits, CallerTold
  <2> QED BY <1>2, <1>10, <2>2 DEF FiniReadRid, AInv
<1>11. CASE FiniAbort
  <2>1. \A t \in Tid : LET q == [thread[t] EXCEPT !.aborted = TRUE]
                       IN q.pc = thread[t].pc /\ q.slot = thread[t].slot /\ q.host = thread[t].host
    BY LookupKept DEF Known, TypeOK
  <2>2. \A t \in Tid : SameLookup(t)
    BY <1>11, <2>1 DEF FiniAbort, SameLookup, Live
  <2>3. main'.pc \in {"wait", "read rid"}
    <3>1. CASE main.slot = NSlots
      BY <1>11, <3>1 DEF FiniAbort, Idle
    <3>2. CASE main.slot # NSlots
      BY <1>0, <1>11, <3>2 DEF FiniAbort, MainRec
    <3> QED BY <3>1, <3>2
  <2>4. CallerWaits' /\ CallerTold'
    BY <2>3 DEF CallerWaits, CallerTold
  <2> QED BY <1>1, <1>11, <2>2, <2>4 DEF FiniAbort, AInv
<1>12. CASE FiniDone \/ FiniGivesUp
  <2>1. main'.pc \in {"ended", "gave up"}
    BY <1>0, <1>12 DEF FiniDone, FiniGivesUp, MainRec
  <2>2. CallerWaits' /\ CallerTold'
    BY <2>1 DEF CallerWaits, CallerTold
  <2> QED BY <1>2, <1>12, <2>2 DEF FiniDone, FiniGivesUp, AInv
<1>13. CASE Tick
  <2>1. CallerWaits' /\ CallerTold'
    BY <1>13, CallerStill DEF Tick, AInv, Known
  <2> QED BY <1>2, <1>13, <2>1 DEF Tick, AInv
<1> QED BY <1>3, <1>4, <1>5, <1>6, <1>7, <1>8, <1>9, <1>10, <1>11, <1>12, <1>13
        DEF Resolving, Fini

\* Types, and that a live lookup's slot is its own, hold in every state.
LEMMA KnownThroughout == Spec => []Known
<1>1. TypeOK /\ AtASlot /\ HandOver => Known
  BY DEF Known
<1> QED BY <1>1, TypeCorrect, HandedOver, PTL

\* The inductive invariant holds in every state.
LEMMA AnswersThroughout == Spec => []AInv
<1>1. Init => AInv
  BY DEF Init, AInv, SlotsSay, LookupsKnow, CallerWaits, CallerTold, Says, Live, Dead, Idle
<1>2. Known /\ AInv /\ [Next]_vars => AInv'
  <2> SUFFICES ASSUME Known, AInv, [Next]_vars PROVE AInv'
    OBVIOUS
  <2>1. CASE UNCHANGED vars
    BY <2>1 DEF vars, AInv, SlotsSay, LookupsKnow, CallerWaits, CallerTold, Live
  <2> QED BY <2>1, CallSays, MainSays, ThreadSays DEF Next, Halted
<1> QED BY <1>1, <1>2, KnownThroughout, PTL DEF Spec

\* What a settled slot says is what the last lookup of the host it holds found,
\* and a caller told an address is told one found for its host: for any number of
\* slots that are evicted, asked again and reused while lookups run.
THEOREM AnswersAreTheLookups == Spec => []AnswerIsTheLookups
<1>1. AInv => AnswerIsTheLookups
  BY DEF AInv, SlotsSay, Says, Good, Bad, CallerTold, AnswerIsTheLookups
<1> QED BY <1>1, AnswersThroughout, PTL

-----------------------------------------------------------------------------
(* What no step does to a slot.  The clock's stamps are compared by their  *)
(* signed difference, which tells which is earlier only while the two are  *)
(* less than half the clock's range apart.                                 *)

\* The clock's reading when e has elapsed.
Clock(e) == (StartMs + e) % Wrap

\* The stamps of a slot in use were read from the clock.
Stamped ==
  \A s \in Slot : slot[s].state # "empty" =>
    /\ slot[s].asked = Clock(askedAt[s])
    /\ \E e \in 0..elapsed : slot[s].used = Clock(e)

\* A program that has run for less than half the clock's range.
Early == MaxElapsed < Wrap \div 2

\* Stamps tell the order they were taken in, also when the clock wraps between.
LEMMA ClockOrder ==
  ASSUME Early, NEW d \in 0..MaxElapsed, NEW e \in 0..MaxElapsed
  PROVE  /\ Before(Clock(d), Clock(e)) => d < e
         /\ Clock(d) = Clock(e) => d = e
<1> DEFINE x == StartMs + d
           y == StartMs + e
<1>1. /\ Wrap \in Nat \ {0} /\ MaxElapsed \in Nat /\ StartMs \in 0..Wrap-1
      /\ Wrap \div 2 \in Nat /\ 2 * (Wrap \div 2) <= Wrap
  BY ClockAssumption
<1>2. x \in 0..2*Wrap-1 /\ y \in 0..2*Wrap-1
  BY <1>1 DEF Early
<1>3. \A z \in 0..2*Wrap-1 : z % Wrap = IF z < Wrap THEN z ELSE z - Wrap
  <2> TAKE z \in 0..2*Wrap-1
  <2>1. CASE z < Wrap
    BY <1>1, <2>1
  <2>2. CASE ~(z < Wrap)
    BY <1>1, <2>2
  <2> QED BY <2>1, <2>2
<1>4. \A z \in -Wrap..Wrap-1 : z % Wrap = IF z >= 0 THEN z ELSE z + Wrap
  <2> TAKE z \in -Wrap..Wrap-1
  <2>1. CASE z >= 0
    BY <1>1, <2>1
  <2>2. CASE ~(z >= 0)
    BY <1>1, <2>2
  <2> QED BY <2>1, <2>2
<1>5. Clock(d) = (IF x < Wrap THEN x ELSE x - Wrap) /\ Clock(e) = (IF y < Wrap THEN y ELSE y - Wrap)
  BY <1>2, <1>3 DEF Clock
<1>6. Clock(d) - Clock(e) \in -Wrap..Wrap-1
  BY <1>1, <1>2, <1>5
<1>7. Clock(d) = Clock(e) => d = e
  BY <1>1, <1>5 DEF Early
<1>8. ASSUME d >= e PROVE ~Before(Clock(d), Clock(e))
  <2>1. d - e \in 0..MaxElapsed
    BY <1>8, <1>1
  <2>2. Clock(d) - Clock(e) = d - e \/ Clock(d) - Clock(e) = d - e - Wrap
    BY <1>1, <1>2, <1>5, <2>1 DEF Early
  <2>3. (Clock(d) - Clock(e)) % Wrap = d - e
    BY <1>1, <1>4, <1>6, <2>1, <2>2 DEF Early
  <2> QED BY <1>1, <2>1, <2>3 DEF Before, Early
<1> QED BY <1>7, <1>8

\* What a lookup's step touches: its own record, always, and its own slot.
LEMMA ThreadTouches ==
  ASSUME Known, NEW t \in Tid, Thread(t)
  PROVE  /\ thread[t].slot \in State("running") /\ thread'[t] # thread[t]
         /\ \A s \in Slot \ {thread[t].slot} : slot'[s] = slot[s]
         /\ LET own == thread[t].slot
            IN  /\ slot'[own].asked = slot[own].asked /\ slot'[own].used = slot[own].used
         /\ UNCHANGED <<askedAt, elapsed>>
<1> DEFINE s == thread[t].slot
<1>0. now \in Stamp
  BY NowType DEF Known, TypeOK
<1>1. Live(t) /\ thread[t] \in ThreadRec /\ s \in Slot /\ slot[s].state = "running"
  BY DEF Thread, OwnQuery, CreateResolver, ResolverReturns, DestroyResolver,
         StampDone, Publish, AtASlot, Live, Known, TypeOK, HandOver
<1>2. slot[s] \in SlotRec /\ thread \in [Tid -> ThreadRec] /\ slot \in [Slot -> SlotRec]
  BY <1>1 DEF Known, TypeOK
<1>3. thread'[t].pc # thread[t].pc
  BY <1>1, <1>2 DEF Thread, OwnQuery, CreateResolver, ResolverReturns, DestroyResolver,
                    StampDone, Publish, Goto, Dead, ThreadRec
<1>4. \A u \in Slot \ {s} : slot'[u] = slot[u]
  BY <1>1, <1>2 DEF Thread, OwnQuery, CreateResolver, ResolverReturns, DestroyResolver,
                    StampDone, Publish
<1>5. slot'[s].asked = slot[s].asked /\ slot'[s].used = slot[s].used
  <2>1. CASE OwnQuery(t) \/ DestroyResolver(t)
    <3>1. ASSUME NEW x, slot' = [slot EXCEPT ![s].found = x]
          PROVE  slot'[s].asked = slot[s].asked /\ slot'[s].used = slot[s].used
      BY <1>1, <1>2, <3>1 DEF SlotRec
    <3>2. ASSUME NEW f, slot' = [slot EXCEPT ![s].fail = f]
          PROVE  slot'[s].asked = slot[s].asked /\ slot'[s].used = slot[s].used
      BY <1>1, <1>2, <3>2 DEF SlotRec
    <3> QED BY <2>1, <3>1, <3>2 DEF OwnQuery, DestroyResolver
  <2>2. CASE CreateResolver(t) \/ ResolverReturns(t)
    BY <1>1, <1>2, <2>2 DEF CreateResolver, ResolverReturns, SlotRec
  <2>3. CASE StampDone(t)
    BY <1>1, <1>2, <2>3 DEF StampDone, SlotRec
  <2>4. CASE Publish(t)
    <3> DEFINE st == IF slot[s].fail = "none" THEN "ok" ELSE "failed"
    <3>1. slot' = [slot EXCEPT ![s].state = st]
      BY <2>4 DEF Publish
    <3> HIDE DEF st
    <3> QED BY <1>1, <1>2, <3>1 DEF SlotRec
  <2> QED BY <2>1, <2>2, <2>3, <2>4 DEF Thread
<1>6. UNCHANGED <<askedAt, elapsed>>
  BY DEF Thread, OwnQuery, CreateResolver, ResolverReturns, DestroyResolver, StampDone, Publish
<1> QED BY <1>1, <1>3, <1>4, <1>5, <1>6 DEF State

\* What the main thread's steps but a call touch: slots that are queued, whose
\* lookup is started, has failed to start, or is abandoned.
Left(s) == slot'[s] = slot[s]
Taken(s) ==
  /\ slot[s].state = "queued"
  /\ slot'[s].asked = slot[s].asked /\ slot'[s].used = slot[s].used
  /\ \/ slot'[s].state = "empty"
     \/ slot'[s].state \in {"running", "failed"} /\ Oldest(s)
LEMMA MainTouches ==
  ASSUME Known, Resolving \/ Return \/ Fini \/ Tick \/ UNCHANGED vars
  PROVE  /\ \A s \in Slot : Left(s) \/ Taken(s)
         /\ UNCHANGED askedAt /\ elapsed' \in Int /\ elapsed <= elapsed'
<1>1. slot \in [Slot -> SlotRec] /\ elapsed \in Nat
  BY ClockAssumption DEF Known, TypeOK
<1>2. CASE StartLookup
  <2>1. PICK s \in Slot : Oldest(s) /\ slot' = [slot EXCEPT ![s].state = "running"]
    BY <1>2 DEF StartLookup
  <2>2. Taken(s)
    BY <1>1, <2>1 DEF Taken, SlotRec, Oldest
  <2>3. \A r \in Slot \ {s} : Left(r)
    BY <1>1, <2>1 DEF Left
  <2> QED BY <1>1, <1>2, <2>2, <2>3 DEF StartLookup
<1>3. CASE StartFails
  <2>1. PICK s \in Slot : /\ Oldest(s)
                          /\ slot' = [slot EXCEPT ![s].state = "failed", ![s].fail = "thread",
                                                  ![s].done = now]
    BY <1>3 DEF StartFails
  <2> DEFINE r == [slot[s] EXCEPT !.state = "failed", !.fail = "thread", !.done = now]
  <2>2. r.state = "failed" /\ r.asked = slot[s].asked /\ r.used = slot[s].used
    BY <1>1 DEF SlotRec
  <2>3. slot' = [slot EXCEPT ![s] = r]
    BY <1>1, <2>1
  <2> HIDE DEF r
  <2>4. Taken(s)
    BY <1>1, <2>1, <2>2, <2>3 DEF Taken, Oldest
  <2>5. \A u \in Slot \ {s} : Left(u)
    BY <1>1, <2>3 DEF Left
  <2> QED BY <1>1, <1>3, <2>4, <2>5 DEF StartFails
<1>4. CASE FiniDrop
  <2>1. \A s \in Slot : Left(s) \/ Taken(s)
    BY <1>1, <1>4 DEF FiniDrop, Left, Taken, SlotRec
  <2> QED BY <1>1, <1>4, <2>1 DEF FiniDrop
<1>5. CASE Count \/ StartDone \/ Recheck \/ Return \/ FiniReadRid \/ FiniAbort \/ FiniDone
           \/ FiniGivesUp \/ UNCHANGED vars
  <2>1. UNCHANGED <<slot, askedAt, elapsed>>
    BY <1>5 DEF Count, StartDone, Recheck, Return, FiniReadRid, FiniAbort, FiniDone,
                FiniGivesUp, vars
  <2> QED BY <1>1, <2>1 DEF Left
<1>6. CASE Tick
  BY <1>1, <1>6 DEF Tick, Left
<1> QED BY <1>2, <1>3, <1>4, <1>5, <1>6 DEF Resolving, Fini

\* What a call touches: at most one slot, whose last use it stamps, or which it
\* asks again for the same host or for one that no slot holds.
Used(s) == slot'[s] = [slot[s] EXCEPT !.used = now] /\ UNCHANGED askedAt
AskedNow(s, h) ==
  /\ slot'[s] = Asked(s, h)
  /\ askedAt' = [askedAt EXCEPT ![s] = elapsed]
  /\ slot[s].state \notin Unsettled
  /\ \/ Stale(s) /\ h = slot[s].host
     \/ SpareFor(s) /\ ~Holds(s, h)
LEMMA CallTouches ==
  ASSUME Known, NEW h \in Host, Call(h)
  PROVE  /\ UNCHANGED elapsed
         /\ \E s \in Slot : /\ \A r \in Slot \ {s} : slot'[r] = slot[r]
                            /\ \/ slot'[s] = slot[s] /\ UNCHANGED askedAt
                               \/ Used(s) \/ AskedNow(s, h)
<1>1. slot \in [Slot -> SlotRec] /\ 1 \in Slot
  BY SlotsAssumption DEF Known, TypeOK, Slot
<1>2. UNCHANGED elapsed
  BY DEF Call
<1>3. CASE CallNew(h)
  <2>1. ASSUME NEW s \in Slot, SpareFor(s), Ask(s, h)
        PROVE  AskedNow(s, h) /\ \A r \in Slot \ {s} : slot'[r] = slot[r]
    <3>1. slot[s].state \notin Unsettled
      BY <2>1 DEF SpareFor, Settled, Unsettled
    <3> QED BY <1>1, <1>3, <2>1, <3>1 DEF Ask, AskedNow, CallNew
  <2>2. ASSUME UNCHANGED <<slot, askedAt>>
        PROVE  slot'[1] = slot[1] /\ UNCHANGED askedAt /\ \A r \in Slot \ {1} : slot'[r] = slot[r]
    BY <2>2
  <2> QED BY <1>1, <1>2, <1>3, <2>1, <2>2 DEF CallNew
<1>4. ASSUME NEW s \in Slot, CallHeld(h, s)
      PROVE  (Used(s) \/ AskedNow(s, h)) /\ \A r \in Slot \ {s} : slot'[r] = slot[r]
  <2>1. CASE Stale(s)
    <3>1. slot[s].state \notin Unsettled /\ h = slot[s].host
      BY <1>4, <2>1 DEF Stale, Unsettled, CallHeld, Holds
    <3> QED BY <1>1, <1>4, <2>1, <3>1 DEF CallHeld, Ask, AskedNow
  <2>2. CASE ~Stale(s)
    BY <1>1, <1>4, <2>2 DEF CallHeld, Used
  <2> QED BY <2>1, <2>2
<1> QED BY <1>2, <1>3, <1>4 DEF Call

\* Every step, of these three kinds.
LEMMA Touches ==
  ASSUME Known, [Next]_vars
  PROVE  \/ \E t \in Tid : Thread(t)
         \/ Resolving \/ Return \/ Fini \/ Tick \/ UNCHANGED vars
         \/ \E h \in Host : Call(h)
  BY DEF Next, Halted

\* The stamps are the clock's in every state.
LEMMA StampedThroughout == Spec => []Stamped
<1>1. Init => Stamped
  BY DEF Init, Stamped
<1>2. Known /\ Stamped /\ [Next]_vars => Stamped'
  <2> SUFFICES ASSUME Known, Stamped, [Next]_vars PROVE Stamped'
    OBVIOUS
  <2>0. /\ elapsed \in 0..MaxElapsed /\ MaxElapsed \in Nat /\ now = Clock(elapsed)
        /\ slot \in [Slot -> SlotRec] /\ askedAt \in [Slot -> 0..MaxElapsed]
    BY ClockAssumption DEF Known, TypeOK, now, Clock
  <2>1. ASSUME UNCHANGED askedAt, elapsed' \in Int, elapsed <= elapsed',
               \A s \in Slot : /\ slot'[s].state # "empty" => slot[s].state # "empty"
                               /\ slot'[s].asked = slot[s].asked /\ slot'[s].used = slot[s].used
        PROVE  Stamped'
    <3> SUFFICES ASSUME NEW s \in Slot, slot'[s].state # "empty"
                 PROVE  /\ slot'[s].asked = Clock(askedAt'[s])
                        /\ \E e \in 0..elapsed' : slot'[s].used = Clock(e)
      BY DEF Stamped, Clock
    <3>1. slot'[s].asked = Clock(askedAt'[s])
      BY <2>1 DEF Stamped
    <3>2. PICK e \in 0..elapsed : slot[s].used = Clock(e)
      BY <2>1 DEF Stamped
    <3>3. e \in 0..elapsed' /\ slot'[s].used = Clock(e)
      BY <2>0, <2>1, <3>2
    <3> QED BY <3>1, <3>3
  <2>2. ASSUME NEW t \in Tid, Thread(t) PROVE Stamped'
    <3> DEFINE own == thread[t].slot
    <3>1. own \in State("running") /\ slot'[own].asked = slot[own].asked
          /\ slot'[own].used = slot[own].used
          /\ (\A s \in Slot \ {own} : slot'[s] = slot[s]) /\ UNCHANGED <<askedAt, elapsed>>
      BY <2>2, ThreadTouches
    <3>2. \A s \in Slot : /\ slot'[s].state # "empty" => slot[s].state # "empty"
                          /\ slot'[s].asked = slot[s].asked /\ slot'[s].used = slot[s].used
      BY <3>1 DEF State
    <3> QED BY <2>0, <2>1, <3>1, <3>2
  <2>3. CASE Resolving \/ Return \/ Fini \/ Tick \/ UNCHANGED vars
    <3>1. /\ \A s \in Slot : Left(s) \/ Taken(s)
          /\ UNCHANGED askedAt /\ elapsed' \in Int /\ elapsed <= elapsed'
      BY <2>3, MainTouches
    <3>2. \A s \in Slot : /\ slot'[s].state # "empty" => slot[s].state # "empty"
                          /\ slot'[s].asked = slot[s].asked /\ slot'[s].used = slot[s].used
      BY <3>1 DEF Left, Taken
    <3> QED BY <2>1, <3>1, <3>2
  <2>4. ASSUME NEW h \in Host, Call(h) PROVE Stamped'
    <3>1. PICK s \in Slot : /\ \A r \in Slot \ {s} : slot'[r] = slot[r]
                            /\ \/ slot'[s] = slot[s] /\ UNCHANGED askedAt
                               \/ Used(s) \/ AskedNow(s, h)
      BY <2>4, CallTouches
    <3>2. UNCHANGED elapsed
      BY <2>4, CallTouches
    <3>3. CASE slot'[s] = slot[s] /\ UNCHANGED askedAt
      BY <2>0, <2>1, <3>1, <3>2, <3>3
    <3>4. CASE Used(s) \/ AskedNow(s, h)
      <4> SUFFICES ASSUME NEW r \in Slot, slot'[r].state # "empty"
                   PROVE  /\ slot'[r].asked = Clock(askedAt'[r])
                          /\ \E e \in 0..elapsed' : slot'[r].used = Clock(e)
        BY DEF Stamped, Clock
      <4>1. CASE r # s
        <5>1. slot'[r] = slot[r] /\ askedAt'[r] = askedAt[r]
          BY <2>0, <3>1, <3>4, <4>1 DEF Used, AskedNow
        <5> QED BY <3>2, <5>1 DEF Stamped
      <4>2. CASE r = s /\ Used(s)
        <5>1. /\ slot'[s].used = Clock(elapsed) /\ slot'[s].asked = slot[s].asked
              /\ slot'[s].state = slot[s].state /\ askedAt' = askedAt
          BY <2>0, <4>2 DEF Used, SlotRec
        <5> QED BY <2>0, <3>2, <4>2, <5>1 DEF Stamped
      <4>3. CASE r = s /\ AskedNow(s, h)
        <5>1. slot'[s].used = Clock(elapsed) /\ slot'[s].asked = Clock(elapsed)
          BY <2>0, <4>3 DEF AskedNow, Asked
        <5>2. askedAt'[s] = elapsed
          BY <2>0, <4>3 DEF AskedNow
        <5> QED BY <2>0, <3>2, <4>3, <5>1, <5>2
      <4> QED BY <3>4, <4>1, <4>2, <4>3
    <3> QED BY <3>1, <3>3, <3>4
  <2> QED BY <2>2, <2>3, <2>4, Touches
<1> QED BY <1>1, <1>2, KnownThroughout, PTL DEF Spec

\* While a lookup runs no step but its own writes its slot.
LEMMA OthersKeepOff ==
  ASSUME Known, [Next]_vars PROVE SlotIsItsThreads
<1> SUFFICES ASSUME NEW s \in State("running"),
                    [slot'[s] EXCEPT !.used = 0] # [slot[s] EXCEPT !.used = 0]
             PROVE  \E t \in Tid : thread[t].slot = s /\ thread'[t] # thread[t]
  BY DEF SlotIsItsThreads
<1>0. s \in Slot /\ slot[s].state = "running" /\ slot[s] \in SlotRec /\ slot'[s] # slot[s]
  BY DEF State, Known, TypeOK
<1>1. ASSUME NEW t \in Tid, Thread(t) PROVE thread[t].slot = s /\ thread'[t] # thread[t]
  BY <1>0, <1>1, ThreadTouches
<1>2. CASE Resolving \/ Return \/ Fini \/ Tick \/ UNCHANGED vars
  BY <1>0, <1>2, MainTouches DEF Left, Taken
<1>3. ASSUME NEW h \in Host, Call(h) PROVE FALSE
  <2>1. PICK r \in Slot : /\ \A u \in Slot \ {r} : slot'[u] = slot[u]
                          /\ \/ slot'[r] = slot[r] /\ UNCHANGED askedAt
                             \/ Used(r) \/ AskedNow(r, h)
    BY <1>3, CallTouches
  <2>2. r = s /\ Used(s)
    BY <1>0, <2>1 DEF AskedNow, Unsettled
  <2> QED BY <1>0, <2>2 DEF Used, SlotRec
<1> QED BY <1>1, <1>2, <1>3, Touches

\* An answer is given up when its time is over, or for another host, and then
\* none has gone unasked for longer.
LEMMA AnswersAreKept ==
  ASSUME Early, Known, Stamped, [Next]_vars PROVE AnswerKept
<1> SUFFICES ASSUME NEW s \in Slot, slot[s].state \in Settled,
                    <<slot'[s].state, slot'[s].host>> # <<slot[s].state, slot[s].host>>
             PROVE  \/ Stale(s) /\ slot'[s].host = slot[s].host
                    \/ /\ State("empty") = {} /\ slot'[s].host # slot[s].host
                       /\ \A r \in State("ok") \cup State("failed") :
                            ~Before(slot[r].used, slot[s].used)
  BY DEF AnswerKept
<1>0. slot[s] \in SlotRec /\ slot'[s] # slot[s] /\ slot[s].state \notin {"running", "queued", "empty"}
  BY DEF Known, TypeOK, Settled
<1>1. ASSUME NEW t \in Tid, Thread(t) PROVE FALSE
  BY <1>0, <1>1, ThreadTouches DEF State
<1>2. CASE Resolving \/ Return \/ Fini \/ Tick \/ UNCHANGED vars
  BY <1>0, <1>2, MainTouches DEF Left, Taken
<1>3. ASSUME NEW h \in Host, Call(h)
      PROVE  \/ Stale(s) /\ slot'[s].host = slot[s].host
             \/ /\ State("empty") = {} /\ slot'[s].host # slot[s].host
                /\ \A r \in State("ok") \cup State("failed") :
                     ~Before(slot[r].used, slot[s].used)
  <2>1. PICK r \in Slot : /\ \A u \in Slot \ {r} : slot'[u] = slot[u]
                          /\ \/ slot'[r] = slot[r] /\ UNCHANGED askedAt
                             \/ Used(r) \/ AskedNow(r, h)
    BY <1>3, CallTouches
  <2>2. r = s
    BY <1>0, <2>1
  <2>3. ~Used(s)
    BY <1>0 DEF Used, SlotRec
  <2>4. AskedNow(s, h) /\ slot'[s].host = h
    BY <1>0, <2>1, <2>2, <2>3 DEF AskedNow, Asked
  <2>5. CASE SpareFor(s) /\ ~Holds(s, h)
    <3>1. /\ State("empty") = {} /\ slot[s].host # h
          /\ \A u \in State("ok") \cup State("failed") :
               Before(slot[s].used, slot[u].used) \/ slot[s].used = slot[u].used
      BY <1>0, <2>5 DEF SpareFor, Holds
    <3>2. ASSUME NEW u \in State("ok") \cup State("failed")
          PROVE  ~Before(slot[u].used, slot[s].used)
      <4>1. u \in Slot /\ slot[u].state # "empty"
        BY DEF State
      <4>2. PICK d \in 0..elapsed : slot[u].used = Clock(d)
        BY <4>1 DEF Stamped
      <4>3. PICK e \in 0..elapsed : slot[s].used = Clock(e)
        BY <1>0 DEF Stamped
      <4>4. d \in 0..MaxElapsed /\ e \in 0..MaxElapsed
        BY ClockAssumption DEF Known, TypeOK
      <4>5. e <= d
        BY <3>1, <4>2, <4>3, <4>4, ClockOrder
      <4> QED BY <4>2, <4>3, <4>4, <4>5, ClockOrder
    <3> QED BY <2>4, <3>1, <3>2
  <2> QED BY <2>4, <2>5 DEF AskedNow
<1> QED BY <1>1, <1>2, <1>3, Touches

\* The lookup started is the one that was asked for first.
LEMMA OldestGoesFirst ==
  ASSUME Early, Known, Stamped, [Next]_vars PROVE OldestFirst
<1> SUFFICES ASSUME NEW s \in State("queued"), slot'[s].state \in {"running", "failed"},
                    NEW r \in State("queued")
             PROVE  askedAt[s] <= askedAt[r]
  BY DEF OldestFirst
<1>0. /\ s \in Slot /\ slot[s].state = "queued" /\ slot'[s].state # slot[s].state
      /\ r \in Slot /\ slot[r].state = "queued" /\ slot[s] \in SlotRec
  BY DEF State, Known, TypeOK
<1>1. Oldest(s)
  <2>1. ASSUME NEW t \in Tid, Thread(t) PROVE FALSE
    BY <1>0, <2>1, ThreadTouches DEF State
  <2>2. CASE Resolving \/ Return \/ Fini \/ Tick \/ UNCHANGED vars
    BY <1>0, <2>2, MainTouches DEF Left, Taken
  <2>3. ASSUME NEW h \in Host, Call(h) PROVE FALSE
    BY ZenonT(60), <1>0, <2>3, CallTouches DEF Used, AskedNow, SlotRec, Unsettled
  <2> QED BY <2>1, <2>2, <2>3, Touches
<1>2. Before(slot[s].asked, slot[r].asked) \/ slot[s].asked = slot[r].asked
  BY <1>1 DEF Oldest
<1>3. slot[s].asked = Clock(askedAt[s]) /\ slot[r].asked = Clock(askedAt[r])
  BY <1>0 DEF Stamped
<1>4. askedAt[s] \in 0..MaxElapsed /\ askedAt[r] \in 0..MaxElapsed
  BY <1>0 DEF Known, TypeOK
<1> QED BY <1>2, <1>3, <1>4, ClockOrder, ClockAssumption

\* While a lookup runs no step but its own writes its slot, for any number of
\* slots and threads and however the clock wraps.
THEOREM SlotsAreTheirThreads == Spec => [][SlotIsItsThreads]_vars
<1>1. Known /\ [Next]_vars => [SlotIsItsThreads]_vars
  BY OthersKeepOff
<1> QED BY <1>1, KnownThroughout, PTL DEF Spec

\* In a program that has run for less than half the clock's range, answers are
\* kept for their time and lookups start in the order asked, too, also when the
\* clock wraps meanwhile.
THEOREM SlotsAreKept ==
  ASSUME Early PROVE Spec => SlotsKept
<1>1. Known /\ Stamped /\ [Next]_vars
        => [SlotIsItsThreads /\ AnswerKept /\ OldestFirst]_vars
  BY OthersKeepOff, AnswersAreKept, OldestGoesFirst
<1>2. Spec => [][SlotIsItsThreads /\ AnswerKept /\ OldestFirst]_vars
  BY <1>1, KnownThroughout, StampedThroughout, PTL DEF Spec
<1> QED BY <1>2 DEF SlotsKept

-----------------------------------------------------------------------------
(* FetchResolve.                                                            *)

FetchState == {"new", "waiting", "curl", "failed", "freed"}
Walker == {"nobody", "start", "nested", "poll", "pump", "callback"}
Walks == [by : Walker, at : Nat \ {0}, next : {"walk", "done"}]

\* Types of what the fetcher keeps.
FTypeOK ==
  /\ fetch \in [Fetch -> FetchState]
  /\ abort \subseteq Fetch
  /\ list \in Seq(Fetch)
  /\ walk \in Walks

\* Where the walk is, by who walks: in the list while its fetch is asked for,
\* behind it no fetch that was aborted.
WalkSound ==
  /\ walk.by \in {"nobody", "start", "callback", "nested"} => walk.at = 1
  /\ walk.by \in {"poll", "pump"} => walk.at <= Len(list) + 1
  /\ walk.by \in {"poll", "pump"} /\ main.pc # "idle" => walk.at <= Len(list) /\ Here \notin abort
  /\ walk.by \in {"poll", "pump"} => \A i \in 1..Len(list) : i < walk.at => list[i] \notin abort
  /\ walk.by \in {"nobody", "callback"} => main.pc = "idle"
  /\ walk.by \in {"start", "nested"} => starting \in Fetch /\ fetch[starting] = "new"

\* The list's elements, once each: as ListIsWaiting has it, without the walk.
Listed == (\A f \in Fetch : fetch[f] = "waiting" <=> \E i \in 1..Len(list) : list[i] = f)
Once == \A i, j \in 1..Len(list) : list[i] = list[j] => i = j
AbortWaits == \A f \in abort : fetch[f] = "waiting"

\* The inductive invariant.
FInv == FTypeOK /\ Listed /\ Once /\ AbortWaits /\ WalkSound

\* A sequence with one element taken out.
LEMMA TakenOut ==
  ASSUME NEW S, NEW s \in Seq(S), NEW i \in 1..Len(s)
  PROVE  /\ RemoveAt(s, i) \in Seq(S) /\ Len(RemoveAt(s, i)) = Len(s) - 1
         /\ \A j \in 1..Len(s)-1 : RemoveAt(s, i)[j] = IF j < i THEN s[j] ELSE s[j + 1]
<1> DEFINE l == SubSeq(s, 1, i-1)
           r == SubSeq(s, i+1, Len(s))
<1>1. l \in Seq(S) /\ Len(l) = i - 1 /\ \A j \in 1..i-1 : l[j] = s[j]
  OBVIOUS
<1>2. r \in Seq(S) /\ Len(r) = Len(s) - i /\ \A j \in 1..Len(s)-i : r[j] = s[i + j]
  <2>1. /\ r \in Seq(S) /\ Len(r) = Len(s) - i
        /\ \A j \in 1..Len(s)-(i+1)+1 : r[j] = s[(i + 1) + j - 1]
    BY SubSeqProperties
  <2>2. Len(s)-(i+1)+1 = Len(s)-i /\ \A j \in 1..Len(s)-i : (i + 1) + j - 1 = i + j
    OBVIOUS
  <2> QED BY <2>1, <2>2
<1> HIDE DEF l, r
<1>3. l \o r \in Seq(S) /\ Len(l \o r) = Len(s) - 1
  <2>1. Len(l) + Len(r) = Len(s) - 1
    BY <1>1, <1>2
  <2> QED BY <1>1, <1>2, <2>1, ConcatProperties
<1>4. \A j \in 1..Len(s)-1 : (l \o r)[j] = IF j < i THEN s[j] ELSE s[j + 1]
  <2> TAKE j \in 1..Len(s)-1
  <2>1. CASE j < i
    BY <1>1, <1>2, <2>1
  <2>2. CASE ~(j < i)
    <3>1. (l \o r)[j] = r[j - (i - 1)]
      BY <1>1, <1>2, <2>2
    <3>2. j - (i - 1) \in 1..Len(s)-i
      BY <2>2
    <3> QED BY <1>2, <2>2, <3>1, <3>2
  <2> QED BY <2>1, <2>2
<1> QED BY <1>3, <1>4 DEF RemoveAt, l, r

\* The list without one of its fetches: the others, once each, in their order.
LEMMA UnlinkKeeps ==
  ASSUME FTypeOK, Listed, Once, NEW i \in 1..Len(list), list' = Unlinked(i),
         NEW st \in FetchState \ {"waiting"}, fetch' = [fetch EXCEPT ![list[i]] = st]
  PROVE  /\ list' \in Seq(Fetch) /\ Len(list') = Len(list) - 1
         /\ fetch' \in [Fetch -> FetchState]
         /\ \A j \in 1..Len(list') : list'[j] = IF j < i THEN list[j] ELSE list[j + 1]
         /\ Listed' /\ Once'
<1>1. /\ list' \in Seq(Fetch) /\ Len(list') = Len(list) - 1
      /\ \A j \in 1..Len(list)-1 : list'[j] = IF j < i THEN list[j] ELSE list[j + 1]
  BY TakenOut DEF FTypeOK, Unlinked
<1>2. list[i] \in Fetch /\ Len(list) \in Nat
  BY DEF FTypeOK
<1>3. fetch' \in [Fetch -> FetchState]
  BY <1>2 DEF FTypeOK
<1>4. Once'
  BY <1>1, <1>2 DEF Once
<1>5. Listed'
  <2> SUFFICES ASSUME NEW f \in Fetch
               PROVE  fetch'[f] = "waiting" <=> \E j \in 1..Len(list') : list'[j] = f
    BY DEF Listed
  <2>1. CASE f = list[i]
    <3>1. fetch'[f] = st
      BY <1>2, <2>1 DEF FTypeOK
    <3>2. ASSUME NEW j \in 1..Len(list'), list'[j] = f PROVE FALSE
      BY <1>1, <1>2, <2>1, <3>2 DEF Once
    <3> QED BY <3>1, <3>2
  <2>2. CASE f # list[i]
    <3>1. fetch'[f] = fetch[f]
      BY <1>2, <2>2 DEF FTypeOK
    <3>2. ASSUME NEW j \in 1..Len(list), list[j] = f PROVE \E k \in 1..Len(list') : list'[k] = f
      <4>1. CASE j < i
        BY <1>1, <1>2, <3>2, <4>1
      <4>2. CASE j > i
        <5>1. j - 1 \in 1..Len(list)-1 /\ ~(j - 1 < i)
          BY <1>2, <4>2
        <5>2. list'[j - 1] = list[j]
          BY <1>1, <5>1
        <5> QED BY <1>1, <3>2, <5>1, <5>2
      <4> QED BY <1>2, <2>2, <3>2, <4>1, <4>2
    <3>3. ASSUME NEW k \in 1..Len(list'), list'[k] = f PROVE \E j \in 1..Len(list) : list[j] = f
      BY <1>1, <1>2, <3>3
    <3> QED BY <3>1, <3>2, <3>3 DEF Listed
  <2> QED BY <2>1, <2>2
<1> QED BY <1>1, <1>3, <1>4, <1>5

\* The list with a fetch before it that was not in it.
LEMMA JoinsFront ==
  ASSUME FTypeOK, Listed, Once, NEW f \in Fetch, fetch[f] = "new",
         list' = <<f>> \o list, fetch' = [fetch EXCEPT ![f] = "waiting"]
  PROVE  list' \in Seq(Fetch) /\ fetch' \in [Fetch -> FetchState] /\ Listed' /\ Once'
<1>1. /\ list' \in Seq(Fetch) /\ Len(list') = Len(list) + 1 /\ list'[1] = f
      /\ \A j \in 1..Len(list) : list'[j + 1] = list[j]
      /\ Len(list) \in Nat
  BY DEF FTypeOK
<1>2. \A j \in 2..Len(list') : j - 1 \in 1..Len(list) /\ list'[j] = list[j - 1]
  BY <1>1
<1>3. \A j \in 1..Len(list) : list[j] # f
  BY DEF Listed
<1>4. Once'
  <2> SUFFICES ASSUME NEW i \in 1..Len(list'), NEW j \in 1..Len(list'), list'[i] = list'[j]
               PROVE  i = j
    BY DEF Once
  <2>1. CASE i = 1 \/ j = 1
    BY <1>1, <1>2, <1>3, <2>1
  <2>2. CASE i # 1 /\ j # 1
    <3>1. i \in 2..Len(list') /\ j \in 2..Len(list')
      BY <2>2
    <3>2. list[i - 1] = list[j - 1] /\ i - 1 \in 1..Len(list) /\ j - 1 \in 1..Len(list)
      BY <1>2, <3>1
    <3> QED BY <3>1, <3>2 DEF Once
  <2> QED BY <2>1, <2>2
<1>5. fetch' \in [Fetch -> FetchState] /\ fetch'[f] = "waiting"
      /\ \A g \in Fetch \ {f} : fetch'[g] = fetch[g]
  BY DEF FTypeOK, FetchState
<1>6. Listed'
  <2> SUFFICES ASSUME NEW g \in Fetch
               PROVE  fetch'[g] = "waiting" <=> \E j \in 1..Len(list') : list'[j] = g
    BY DEF Listed
  <2>1. CASE g = f
    BY <1>1, <1>5, <2>1
  <2>2. CASE g # f
    <3>1. (\E j \in 1..Len(list) : list[j] = g) => \E j \in 1..Len(list') : list'[j] = g
      BY <1>1
    <3>2. (\E j \in 1..Len(list') : list'[j] = g) => \E j \in 1..Len(list) : list[j] = g
      BY <1>1, <1>2, <2>2
    <3> QED BY <1>5, <2>2, <3>1, <3>2 DEF Listed
  <2> QED BY <2>1, <2>2
<1> QED BY <1>1, <1>4, <1>5, <1>6

\* The walk, given to another, and at another place.
LEMMA WalkTo ==
  ASSUME walk \in Walks, NEW b \in Walker, walk' = [walk EXCEPT !.by = b]
  PROVE  walk' \in Walks /\ walk'.by = b /\ walk'.at = walk.at
  BY DEF Walks
LEMMA WalkAnew ==
  ASSUME walk \in Walks, NEW b \in Walker, walk' = [walk EXCEPT !.by = b, !.at = 1]
  PROVE  walk' \in Walks /\ walk'.by = b /\ walk'.at = 1
<1>1. walk' = [by |-> b, at |-> 1, next |-> walk.next]
  BY DEF Walks
<1>2. 1 \in Nat \ {0}
  OBVIOUS
<1> QED BY <1>1, <1>2 DEF Walks

\* A step that leaves the fetches, the list and the aborted alone.
LEMMA ListStays ==
  ASSUME FInv, UNCHANGED <<fetch, abort, list>>,
         walk' \in Walks, WalkSound'
  PROVE  FInv'
  BY DEF FInv, FTypeOK, Listed, Once, AbortWaits

\* The steps of a lookup's thread, of vita_resolve once called, and of time.
LEMMA BelowStep ==
  ASSUME FInv, UNCHANGED fetchVars, main'.pc # "idle" => main.pc # "idle"
  PROVE  FInv'
<1>1. UNCHANGED <<fetch, abort, list, walk, starting>>
  BY DEF fetchVars
<1>2. WalkSound'
  BY <1>1 DEF FInv, WalkSound, Here
<1> QED BY <1>1, <1>2, ListStays DEF FInv, FTypeOK

\* The steps of the walk, as WalkSound splits them.
LEMMA WalkSteps ==
  ASSUME FInv, Poll \/ Pump \/ WalkAsk \/ WalkEnds \/ CallbackEnds PROVE FInv'
<1>1. /\ walk \in Walks /\ Len(list) \in Nat /\ list \in Seq(Fetch)
  BY DEF FInv, FTypeOK
<1>2. ASSUME NEW by \in {"callback", "pump"}, NEW next \in {"walk", "done"}, Begin(by, next)
      PROVE  FInv'
  <2>1. walk = Nobody /\ walk' = [Nobody EXCEPT !.by = by, !.next = next]
        /\ main' = main /\ main.pc = "idle" /\ UNCHANGED <<fetch, abort, list, starting>>
    BY <1>2 DEF Begin, vars
  <2>2. walk'.by = by /\ walk'.at = 1 /\ walk' \in Walks
    <3>1. walk' = [by |-> by, at |-> 1, next |-> next]
      BY <2>1 DEF Nobody
    <3>2. by \in Walker /\ 1 \in Nat \ {0}
      BY DEF Walker
    <3> QED BY <3>1, <3>2 DEF Walks
  <2>3. WalkSound'
    BY <1>1, <2>1, <2>2 DEF WalkSound
  <2> QED BY <2>1, <2>2, <2>3, ListStays
<1>3. CASE WalkAsk
  <2>1. /\ UNCHANGED <<fetch, abort, list, walk, starting>>
        /\ walk.by \in {"poll", "pump"} /\ ~AtEnd /\ Here \notin abort
    BY <1>3 DEF WalkAsk, fetchVars, Walking
  <2>2. walk.at <= Len(list)
    BY <1>1, <2>1 DEF AtEnd, Walks
  <2>3. WalkSound'
    BY <2>1, <2>2 DEF FInv, WalkSound, Here
  <2> QED BY <1>1, <2>1, <2>3, ListStays
<1>4. CASE WalkEnds
  <2>1. /\ UNCHANGED <<fetch, abort, list, starting>> /\ main' = main /\ main.pc = "idle"
        /\ walk' = IF walk.by = "poll" THEN [Nobody EXCEPT !.by = "callback"] ELSE Nobody
    BY <1>4 DEF WalkEnds, Walking, vars
  <2>2. walk'.by \in {"nobody", "callback"} /\ walk'.at = 1 /\ walk' \in Walks
    BY <2>1 DEF Nobody, Walker, Walks
  <2>3. WalkSound'
    BY <2>1, <2>2 DEF WalkSound
  <2> QED BY <2>1, <2>2, <2>3, ListStays
<1>5. CASE CallbackEnds
  <2>1. UNCHANGED <<fetch, abort, list, starting>> /\ walk.by = "callback" /\ main' = main
        /\ walk' = IF walk.next = "walk" THEN [walk EXCEPT !.by = "poll"] ELSE Nobody
    BY <1>5 DEF CallbackEnds, vars
  <2>2. walk.at = 1 /\ main.pc = "idle"
    BY <2>1 DEF FInv, WalkSound
  <2>3. walk'.by \in {"poll", "nobody"} /\ walk'.at = 1 /\ walk' \in Walks
    BY <1>1, <2>1, <2>2 DEF Nobody, Walker, Walks
  <2>4. WalkSound'
    BY <1>1, <2>1, <2>2, <2>3 DEF WalkSound
  <2> QED BY <2>1, <2>3, <2>4, ListStays
<1> QED BY <1>2, <1>3, <1>4, <1>5 DEF Poll, Pump

\* A fetch is begun, of those that are new.
LEMMA InitiateStep ==
  ASSUME FInv, NEW f \in Fetch, Initiate(f) PROVE FInv'
<1>1. /\ UNCHANGED <<fetch, abort, list>> /\ fetch[f] = "new" /\ starting' = f
      /\ walk.by \in {"nobody", "callback"}
      /\ walk' = [walk EXCEPT !.by = IF walk.by = "callback" THEN "nested" ELSE "start"]
  BY DEF Initiate
<1>2. walk \in Walks
  BY DEF FInv, FTypeOK
<1>3. /\ \/ walk'.by = "nested" /\ walk.by = "callback"
         \/ walk'.by = "start" /\ walk.by = "nobody"
      /\ walk'.at = 1 /\ walk' \in Walks
  <2>1. walk.at = 1
    BY <1>1 DEF FInv, WalkSound
  <2>2. CASE walk.by = "callback"
    <3>1. walk' = [walk EXCEPT !.by = "nested"] /\ "nested" \in Walker
      BY <1>1, <2>2 DEF Walker
    <3>2. walk' \in Walks /\ walk'.by = "nested" /\ walk'.at = 1
      BY <1>2, <2>1, <3>1, WalkTo
    <3> QED BY <2>2, <3>2
  <2>3. CASE walk.by = "nobody"
    <3>1. walk' = [walk EXCEPT !.by = "start"] /\ "start" \in Walker
      BY <1>1, <2>3 DEF Walker
    <3>2. walk' \in Walks /\ walk'.by = "start" /\ walk'.at = 1
      BY <1>2, <2>1, <3>1, WalkTo
    <3> QED BY <2>3, <3>2
  <2> QED BY <1>1, <2>2, <2>3
<1>4. WalkSound'
  BY <1>1, <1>3 DEF FInv, WalkSound
<1> QED BY <1>1, <1>3, <1>4, ListStays

\* An aborted fetch is taken off by the walk, which goes on behind it.
LEMMA AbortedStep ==
  ASSUME FInv, WalkAborted PROVE FInv'
<1>1. /\ walk.by \in {"poll", "pump"} /\ main.pc = "idle" /\ main' = main
      /\ Here \in abort /\ list' = Unlinked(walk.at)
      /\ fetch' = [fetch EXCEPT ![Here] = "freed"] /\ abort' = abort \ {Here}
      /\ UNCHANGED <<walk, starting>>
  BY DEF WalkAborted, Walking, vars
<1>2. walk.at \in 1..Len(list) /\ Len(list) \in Nat /\ walk \in Walks
  BY DEF FInv, FTypeOK, WalkAborted, AtEnd, Walks
<1>3. /\ list' \in Seq(Fetch) /\ Len(list') = Len(list) - 1 /\ fetch' \in [Fetch -> FetchState]
      /\ \A j \in 1..Len(list') : list'[j] = IF j < walk.at THEN list[j] ELSE list[j + 1]
      /\ Listed' /\ Once'
  BY <1>1, <1>2, UnlinkKeeps DEF FInv, Here, FetchState
<1>4. AbortWaits'
  BY <1>1 DEF FInv, AbortWaits, FTypeOK
<1>5. FTypeOK'
  BY <1>1, <1>2, <1>3 DEF FInv, FTypeOK
<1>6. WalkSound'
  BY <1>1, <1>2, <1>3 DEF FInv, WalkSound
<1> QED BY <1>3, <1>4, <1>5, <1>6 DEF FInv

\* A fetch is given its address, or joins the list's front.
LEMMA StartStep ==
  ASSUME FInv, StartReturns PROVE FInv'
<1>1. /\ walk.by \in {"start", "nested"} /\ main' = Idle /\ UNCHANGED abort
      /\ walk' = IF walk.by = "nested" THEN [walk EXCEPT !.by = "callback"] ELSE Nobody
  BY DEF StartReturns, Return
<1>2. /\ starting \in Fetch /\ fetch[starting] = "new" /\ walk.at = 1
      /\ walk \in Walks
  BY <1>1 DEF FInv, FTypeOK, WalkSound
<1>3. /\ walk' \in Walks /\ walk'.at = 1 /\ main'.pc = "idle"
      /\ walk'.by = "callback" \/ (walk'.by = "nobody" /\ walk.by = "start")
  <2>1. main'.pc = "idle"
    BY <1>1 DEF Idle
  <2>2. CASE walk.by = "nested"
    <3>1. walk' = [walk EXCEPT !.by = "callback"] /\ "callback" \in Walker
      BY <1>1, <2>2 DEF Walker
    <3>2. walk' \in Walks /\ walk'.by = "callback" /\ walk'.at = walk.at
      BY <1>2, <3>1, WalkTo
    <3> QED BY <1>2, <2>1, <3>2
  <2>3. CASE walk.by = "start"
    BY <1>1, <2>1, <2>3 DEF Nobody, Walker, Walks
  <2> QED BY <1>1, <2>2, <2>3
<1>4. WalkSound'
  BY <1>1, <1>3 DEF FInv, WalkSound
<1>5. list' \in Seq(Fetch) /\ fetch' \in [Fetch -> FetchState] /\ Listed' /\ Once'
  <2>1. CASE main.ret.kind = "ok"
    <3>1. fetch' = [fetch EXCEPT ![starting] = "curl"] /\ list' = list
      BY <2>1 DEF StartReturns, Hear
    <3> QED BY <1>2, <3>1 DEF FInv, FTypeOK, FetchState, Listed, Once
  <2>2. CASE main.ret.kind # "ok"
    BY <1>2, <2>2, JoinsFront DEF StartReturns, FInv
  <2> QED BY <2>1, <2>2
<1>6. AbortWaits'
  <2>1. \A f \in abort : f # starting /\ fetch'[f] = fetch[f]
    BY <1>2 DEF FInv, FTypeOK, AbortWaits, StartReturns, Hear
  <2> QED BY <1>1, <2>1 DEF FInv, AbortWaits
<1>7. FTypeOK'
  BY <1>1, <1>3, <1>5 DEF FInv, FTypeOK
<1> QED BY <1>4, <1>5, <1>6, <1>7 DEF FInv

\* The walk has its answer: it goes on, or takes the fetch off and, when it has
\* failed, begins again behind the callbacks.
LEMMA AnswerStep ==
  ASSUME FInv, WalkReturns PROVE FInv'
<1>1. walk.by \in {"poll", "pump"} /\ main' = Idle /\ main.pc = "return"
      /\ UNCHANGED <<abort, starting>>
  BY DEF WalkReturns, Return
<1>2. /\ walk.at \in 1..Len(list) /\ Here \notin abort /\ Len(list) \in Nat
      /\ walk \in Walks /\ Here \in Fetch
  BY <1>1 DEF FInv, FTypeOK, WalkSound, Here, Walks
<1>3. main'.pc = "idle"
  BY <1>1 DEF Idle
<1>4. CASE Stay
  <2>1. walk' = [walk EXCEPT !.at = walk.at + 1] /\ UNCHANGED <<fetch, list>>
    BY <1>4 DEF WalkReturns
  <2>2. walk'.by = walk.by /\ walk'.at = walk.at + 1 /\ walk' \in Walks
    BY <1>2, <2>1 DEF Walks
  <2>3. \A i \in 1..Len(list) : i < walk.at + 1 => i < walk.at \/ list[i] = Here
    BY <1>2 DEF Here
  <2>4. WalkSound'
    BY <1>1, <1>2, <1>3, <2>1, <2>2, <2>3 DEF FInv, WalkSound
  <2> QED BY <1>1, <2>1, <2>2, <2>4, ListStays
<1>5. CASE ~Stay
  <2>1. PICK st \in {"curl", "failed"} :
          /\ fetch' = [fetch EXCEPT ![Here] = st] /\ list' = Unlinked(walk.at)
          /\ \/ walk' = walk
             \/ st = "failed" /\ main.ret.kind # "ok"
                /\ walk' = [walk EXCEPT !.by = "callback", !.at = Again]
    BY <1>5 DEF WalkReturns, Hear
  <2>2. /\ list' \in Seq(Fetch) /\ Len(list') = Len(list) - 1 /\ fetch' \in [Fetch -> FetchState]
        /\ \A j \in 1..Len(list') : list'[j] = IF j < walk.at THEN list[j] ELSE list[j + 1]
        /\ Listed' /\ Once'
    BY <1>2, <2>1, UnlinkKeeps DEF FInv, Here, FetchState
  <2>3. AbortWaits'
    BY <1>1, <1>2, <2>1 DEF FInv, AbortWaits, FTypeOK
  <2>4. /\ walk' \in Walks
        /\ walk' = walk \/ (walk'.by = "callback" /\ walk'.at = 1)
    <3>1. CASE walk' = [walk EXCEPT !.by = "callback", !.at = Again]
      <4>1. walk' = [walk EXCEPT !.by = "callback", !.at = 1] /\ "callback" \in Walker
        BY <3>1 DEF Walker, Again
      <4>2. walk' \in Walks /\ walk'.by = "callback" /\ walk'.at = 1
        BY <1>2, <4>1, WalkAnew
      <4> QED BY <4>2
    <3> QED BY <1>2, <2>1, <3>1
  <2>5. FTypeOK'
    BY <1>1, <2>2, <2>4 DEF FInv, FTypeOK
  <2>6. WalkSound'
    BY <1>1, <1>2, <1>3, <2>2, <2>4 DEF FInv, WalkSound
  <2> QED BY <2>2, <2>3, <2>5, <2>6 DEF FInv
<1> QED BY <1>4, <1>5

\* A fetch is aborted: marked in a poll's callback, else taken off at once,
\* whether or not others are still marked from the poll before.
LEMMA AbortStep ==
  ASSUME FInv, NEW f \in Fetch, Abort(f) PROVE FInv'
<1>1. /\ fetch[f] = "waiting" /\ f \notin abort /\ main' = main /\ UNCHANGED <<walk, starting>>
      /\ fetch \in [Fetch -> FetchState]
  BY DEF Abort, Waiting, vars, FInv, FTypeOK
<1>2. CASE walk.by = "callback" /\ abort' = abort \cup {f} /\ UNCHANGED <<fetch, list>>
  BY <1>1, <1>2 DEF FInv, FTypeOK, Listed, Once, AbortWaits, WalkSound
<1>3. CASE walk = Nobody /\ UNCHANGED abort
           /\ fetch' = [fetch EXCEPT ![f] = "freed"]
           /\ \E i \in DOMAIN list : list[i] = f /\ list' = Unlinked(i)
  <2>1. PICK i \in 1..Len(list) : list[i] = f /\ list' = Unlinked(i)
    BY <1>3 DEF FInv, FTypeOK
  <2>2. /\ list' \in Seq(Fetch) /\ fetch' \in [Fetch -> FetchState] /\ Listed' /\ Once'
    BY <1>3, <2>1, UnlinkKeeps DEF FInv, FetchState
  <2>3. walk.by = "nobody"
    BY <1>3 DEF Nobody
  <2>4. WalkSound'
    BY <1>1, <1>3, <2>3 DEF FInv, WalkSound
  <2>5. \A g \in abort : fetch'[g] = fetch[g]
    BY <1>1, <1>3 DEF FInv, FTypeOK
  <2>6. FTypeOK' /\ AbortWaits'
    BY <1>1, <1>3, <2>2, <2>5 DEF FInv, FTypeOK, AbortWaits
  <2> QED BY <2>2, <2>4, <2>6 DEF FInv
<1> QED BY <1>2, <1>3 DEF Abort

\* The steps of Resolve that the composition takes by themselves begin nothing.
LEMMA BelowIsBelow ==
  ASSUME Resolving \/ Lookup \/ Tick PROVE main'.pc # "idle" => main.pc # "idle"
<1>1. ASSUME NEW t \in Tid, Thread(t) PROVE main' = main
  BY <1>1 DEF Thread, OwnQuery, CreateResolver, ResolverReturns, DestroyResolver, StampDone, Publish
<1> QED BY <1>1 DEF Resolving, Lookup, Tick, Count, StartLookup, StartFails, StartDone, Recheck,
                    MayStart

\* The inductive invariant holds in every state.
LEMMA ListThroughout == FSpec => []FInv
<1>1. FInit => FInv
  <2> SUFFICES ASSUME FInit PROVE FInv
    OBVIOUS
  <2>1. /\ list = <<>> /\ abort = {} /\ walk.by = "nobody" /\ walk.at = 1 /\ main.pc = "idle"
        /\ fetch \in [Fetch -> FetchState] /\ \A f \in Fetch : fetch[f] = "new"
        /\ walk \in Walks
    BY DEF FInit, Init, Idle, Nobody, Walker, FetchState, Walks
  <2>2. list \in Seq(Fetch) /\ Len(list) = 0
    BY <2>1
  <2> QED BY <2>1, <2>2 DEF FInv, FTypeOK, Listed, Once, AbortWaits, WalkSound
<1>2. FInv /\ [FNext]_allVars => FInv'
  <2> SUFFICES ASSUME FInv, [FNext]_allVars PROVE FInv'
    OBVIOUS
  <2>1. CASE UNCHANGED allVars
    BY <2>1, BelowStep DEF allVars, vars
  <2>2. CASE (Resolving \/ Lookup \/ Tick) /\ UNCHANGED fetchVars
    BY <2>2, BelowStep, BelowIsBelow
  <2> QED BY <2>1, <2>2, InitiateStep, AbortStep, WalkSteps, AbortedStep, StartStep, AnswerStep
          DEF FNext, Driver
<1> QED BY <1>1, <1>2, PTL DEF FSpec

-----------------------------------------------------------------------------
(* What follows.                                                           *)

\* What the fetcher makes of vita_resolve is what Resolve says it is: it calls
\* it only when it is not being called, for a fetch that is there.  So all that
\* is proved of Resolve holds with fetches, polls and aborts above it.
THEOREM FetcherImplementsResolve == FSpec => Spec
<1>1. FInit => Init
  BY DEF FInit
<1>2. FInv /\ [FNext]_allVars => [Next]_vars
  <2> SUFFICES ASSUME FInv, [FNext]_allVars PROVE [Next]_vars
    OBVIOUS
  <2>1. ASSUME NEW f \in Fetch, Initiate(f) PROVE Next
    BY <2>1, HostOfAssumption DEF Initiate, Next
  <2>2. CASE WalkAsk
    <3>1. Here \in Fetch
      BY <2>2 DEF WalkAsk, AtEnd, Here, FInv, FTypeOK, Walks
    <3> QED BY <2>2, <3>1, HostOfAssumption DEF WalkAsk, Next
  <2>3. CASE Resolving \/ StartReturns \/ WalkReturns \/ Lookup \/ Tick
    BY <2>3 DEF StartReturns, WalkReturns, Lookup, Next
  <2>4. CASE \/ \E f \in Fetch : Abort(f)
             \/ Poll \/ Pump \/ WalkAborted \/ WalkEnds \/ CallbackEnds \/ UNCHANGED allVars
    BY <2>4 DEF Abort, Poll, Pump, Begin, WalkAborted, WalkEnds, CallbackEnds, allVars
  <2> QED BY <2>1, <2>2, <2>3, <2>4 DEF FNext, Driver
<1> QED BY <1>1, <1>2, ListThroughout, PTL DEF FSpec, Spec

\* What vita_resolve returns has its type, and an address it returns was found
\* for the host asked about.
Returned == TypeOK /\ AnswerIsTheLookups
LEMMA ReturnedThroughout == FSpec => []Returned
<1>1. TypeOK /\ AtASlot /\ AnswerIsTheLookups => Returned
  BY DEF Returned
<1> QED BY <1>1, FetcherImplementsResolve, TypeCorrect, AnswersAreTheLookups, PTL

-----------------------------------------------------------------------------
(* What the fetches are told.                                              *)

\* Who is asked about while vita_resolve is being called, and what was heard.
AsksHere ==
  /\ main.pc \in {"idle", "count", "start", "recheck", "return"}
  /\ walk.by \in {"start", "nested"} => main.pc # "idle" /\ main.host = HostOf[starting]
  /\ walk.by \in {"poll", "pump"} /\ main.pc # "idle" => main.host = HostOf[Here]
HeardInv == heard \in [Fetch -> RetRec] /\ AsksHere /\ ToldOfTheirHosts

\* A call asks about its host, and what it does below stays with that host.
LEMMA CallAsks ==
  ASSUME TypeOK, NEW h \in Host, Call(h)
  PROVE  main.pc = "idle" /\ main'.pc \in {"count", "return"} /\ main'.host = h
BY DEF Call, CallNew, CallHeld, Ask, TypeOK, MainRec
LEMMA BelowStays ==
  ASSUME TypeOK, Resolving \/ Lookup \/ Tick
  PROVE  \/ main' = main
         \/ /\ main.pc # "idle" /\ main'.host = main.host
            /\ main'.pc \in {"start", "recheck", "return"}
<1>1. ASSUME NEW t \in Tid, Thread(t) PROVE main' = main
  BY <1>1 DEF Thread, OwnQuery, CreateResolver, ResolverReturns, DestroyResolver, StampDone, Publish
<1>2. CASE Resolving
  BY <1>2 DEF Resolving, Count, StartLookup, StartFails, StartDone, Recheck, MayStart, TypeOK, MainRec
<1> QED BY <1>1, <1>2 DEF Lookup, Tick

\* One fetch hears what the call returned: for its host, when that is whose the
\* call was.
LEMMA HearsItsOwn ==
  ASSUME FInv, Returned, HeardInv, NEW f \in Fetch, NEW st \in {"curl", "failed"}, Hear(f, st),
         main.pc = "return", main.host = HostOf[f],
         main.ret.kind = IF st = "curl" THEN "ok" ELSE "failed"
  PROVE  heard' \in [Fetch -> RetRec] /\ ToldOfTheirHosts'
<1>1. /\ fetch \in [Fetch -> FetchState] /\ heard \in [Fetch -> RetRec] /\ main.ret \in RetRec
      /\ fetch' = [fetch EXCEPT ![f] = st] /\ heard' = [heard EXCEPT ![f] = main.ret]
  BY DEF FInv, FTypeOK, HeardInv, Returned, TypeOK, MainRec, Hear
<1>2. main.ret.kind = "ok" => main.ret.host = HostOf[f] /\ main.ret.found.of = HostOf[f]
  BY DEF Returned, AnswerIsTheLookups
<1>3. heard'[f] = main.ret /\ fetch'[f] = st
  BY <1>1
<1>4. \A g \in Fetch \ {f} : heard'[g] = heard[g] /\ fetch'[g] = fetch[g]
  BY <1>1
<1> QED BY <1>1, <1>2, <1>3, <1>4 DEF ToldOfTheirHosts, HeardInv

\* No fetch is told anything, and none is given to curl or has failed anew.
LEMMA NoneHears ==
  ASSUME FInv, HeardInv, UNCHANGED heard,
         \A g \in Fetch : fetch'[g] = fetch[g] \/ fetch'[g] \in {"waiting", "freed"}
  PROVE  heard' \in [Fetch -> RetRec] /\ ToldOfTheirHosts'
BY DEF HeardInv, ToldOfTheirHosts

LEMMA HeardStep ==
  ASSUME FInv, Returned, HeardInv, [FNext]_allVars PROVE HeardInv'
<1>0. /\ fetch \in [Fetch -> FetchState] /\ TypeOK /\ AsksHere
      /\ walk \in Walks /\ Len(list) \in Nat /\ main.ret.kind \in {"ok", "failed", "pending"}
  <2>1. list \in Seq(Fetch) /\ TypeOK
    BY DEF FInv, FTypeOK, Returned
  <2>2. main.ret.kind \in {"ok", "failed", "pending"}
    BY <2>1 DEF TypeOK, MainRec, RetRec, Settled
  <2> QED BY <2>1, <2>2 DEF FInv, FTypeOK, HeardInv
<1>1. CASE UNCHANGED allVars
  BY <1>1 DEF allVars, vars, fetchVars, HeardInv, AsksHere, ToldOfTheirHosts, Here
<1>2. CASE (Resolving \/ Lookup \/ Tick) /\ UNCHANGED fetchVars
  <2>1. UNCHANGED <<fetch, heard, list, walk, starting>>
    BY <1>2 DEF fetchVars
  <2>2. AsksHere'
    BY <1>0, <1>2, <2>1, BelowStays DEF AsksHere, Here
  <2> QED BY <2>1, <2>2, NoneHears DEF HeardInv
<1>3. ASSUME NEW f \in Fetch, Initiate(f) PROVE HeardInv'
  <2>1. /\ UNCHANGED <<fetch, heard>> /\ starting' = f /\ Call(HostOf[f])
        /\ walk.by \in {"nobody", "callback"}
        /\ walk' = [walk EXCEPT !.by = IF walk.by = "callback" THEN "nested" ELSE "start"]
    BY <1>3 DEF Initiate
  <2>2. walk'.by \in {"start", "nested"}
    BY <1>0, <2>1 DEF Walks
  <2>3. AsksHere'
    BY <1>0, <2>1, <2>2, HostOfAssumption, CallAsks DEF AsksHere
  <2> QED BY <2>1, <2>3, NoneHears DEF HeardInv
<1>4. CASE WalkAsk
  <2>1. /\ UNCHANGED <<fetch, heard, list, walk, starting>> /\ Call(HostOf[Here]) /\ Here \in Fetch
        /\ walk.by \in {"poll", "pump"}
    BY <1>4 DEF WalkAsk, fetchVars, Walking, AtEnd, Here, FInv, FTypeOK, Walks
  <2>2. AsksHere'
    BY <1>0, <2>1, HostOfAssumption, CallAsks DEF AsksHere, Here
  <2> QED BY <2>1, <2>2, NoneHears DEF HeardInv
<1>5. CASE StartReturns
  <2>1. /\ walk.by \in {"start", "nested"} /\ main' = Idle /\ main.pc = "return"
        /\ main.host = HostOf[starting] /\ starting \in Fetch /\ fetch[starting] = "new"
        /\ walk' = IF walk.by = "nested" THEN [walk EXCEPT !.by = "callback"] ELSE Nobody
    BY <1>0, <1>5 DEF StartReturns, Return, AsksHere, FInv, WalkSound
  <2>2. walk'.by \in {"callback", "nobody"} /\ main'.pc = "idle"
    BY <1>0, <2>1 DEF Walks, Nobody, Idle
  <2>3. AsksHere'
    BY <2>2 DEF AsksHere
  <2>4. heard' \in [Fetch -> RetRec] /\ ToldOfTheirHosts'
    <3>1. CASE main.ret.kind = "ok"
      BY <1>5, <2>1, <3>1, HearsItsOwn DEF StartReturns
    <3>2. CASE main.ret.kind # "ok"
      BY <1>0, <1>5, <2>1, <3>2, NoneHears DEF StartReturns
    <3> QED BY <3>1, <3>2
  <2> QED BY <2>3, <2>4 DEF HeardInv
<1>6. CASE WalkReturns
  <2>1. /\ walk.by \in {"poll", "pump"} /\ main' = Idle /\ main.pc = "return"
        /\ main.host = HostOf[Here] /\ Here \in Fetch
    BY <1>0, <1>6 DEF WalkReturns, Return, AsksHere, FInv, FTypeOK, WalkSound, Here, Walks
  <2>2. main'.pc = "idle" /\ walk'.by \notin {"start", "nested"}
    BY <1>0, <1>6, <2>1 DEF WalkReturns, Walks, Idle
  <2>3. AsksHere'
    BY <2>2 DEF AsksHere
  <2>4. heard' \in [Fetch -> RetRec] /\ ToldOfTheirHosts'
    <3>1. CASE Stay
      BY <1>6, <3>1, NoneHears DEF WalkReturns
    <3>2. CASE ~Stay /\ main.ret.kind = "ok"
      BY <1>6, <2>1, <3>2, HearsItsOwn DEF WalkReturns
    <3>3. CASE ~Stay /\ main.ret.kind # "ok"
      <4>1. main.ret.kind = "failed" /\ Hear(Here, "failed")
        BY <1>0, <1>6, <3>3 DEF WalkReturns, Stay
      <4> QED BY <2>1, <4>1, HearsItsOwn
    <3> QED BY <3>1, <3>2, <3>3
  <2> QED BY <2>3, <2>4 DEF HeardInv
<1>7. CASE WalkAborted \/ \E f \in Fetch : Abort(f)
  <2>1. /\ UNCHANGED <<main, heard, walk, starting>>
        /\ \A g \in Fetch : fetch'[g] = fetch[g] \/ fetch'[g] \in {"waiting", "freed"}
    BY <1>0, <1>7 DEF WalkAborted, Abort, vars
  <2>2. walk.by \in {"poll", "pump"} => main.pc = "idle"
    BY <1>7 DEF WalkAborted, Abort, Walking, Nobody
  <2>3. AsksHere'
    BY <1>0, <2>1, <2>2 DEF AsksHere
  <2> QED BY <2>1, <2>3, NoneHears DEF HeardInv
<1>8. CASE Poll \/ Pump \/ WalkEnds \/ CallbackEnds
  <2>1. UNCHANGED <<main, fetch, heard, list, starting>> /\ main.pc = "idle"
    BY <1>8 DEF Poll, Pump, Begin, WalkEnds, CallbackEnds, Walking, vars, FInv, WalkSound
  <2>2. \/ walk'.by \in {"callback", "pump", "nobody"}
        \/ walk' = [walk EXCEPT !.by = "poll"]
    <3>1. CASE Poll \/ Pump
      BY <3>1 DEF Poll, Pump, Begin, Nobody
    <3>2. CASE WalkEnds
      BY <3>2 DEF WalkEnds, Nobody
    <3>3. CASE CallbackEnds
      BY <3>3 DEF CallbackEnds, Nobody
    <3> QED BY <1>8, <3>1, <3>2, <3>3
  <2>3. walk'.by \notin {"start", "nested"}
    BY <1>0, <2>2 DEF Walks
  <2>4. AsksHere'
    BY <1>0, <2>1, <2>3 DEF AsksHere
  <2> QED BY <2>1, <2>4, NoneHears DEF HeardInv
<1> QED BY <1>1, <1>2, <1>3, <1>4, <1>5, <1>6, <1>7, <1>8 DEF FNext, Driver

\* What every fetch heard is an answer, in every state.
LEMMA HeardThroughout == FSpec => []HeardInv
<1>1. FInit => HeardInv
  <2> SUFFICES ASSUME FInit PROVE HeardInv
    OBVIOUS
  <2>1. Pending \in RetRec
    BY HostAssumption DEF RetRec, Pending, Settled, Found, NoAddr
  <2> QED BY <2>1 DEF FInit, Init, Idle, Nobody, HeardInv, AsksHere, ToldOfTheirHosts
<1>2. FInv /\ Returned /\ HeardInv /\ [FNext]_allVars => HeardInv'
  BY HeardStep
<1> QED BY <1>1, <1>2, ListThroughout, ReturnedThroughout, PTL DEF FSpec

\* Only the poll finishes a fetch whose host has no address, for any number of
\* fetches: never the pump inside a page's script, nor the start of another.  And
\* one that is marked as aborted hears nothing: it waits until it is freed.
THEOREM OnlyThePollFinishes == FSpec => OnlyPollFinishes
<1> DEFINE Said == \A f \in Fetch :
                     /\ fetch[f] # "failed" /\ fetch'[f] = "failed" => walk.by = "poll"
                     /\ f \in abort => fetch'[f] \in {"waiting", "freed"} /\ heard'[f] = heard[f]
<1>1. FInv /\ Returned /\ HeardInv /\ [FNext]_allVars => [Said]_allVars
  <2> SUFFICES ASSUME FInv, Returned, HeardInv, FNext PROVE Said
    OBVIOUS
  <2>0. /\ fetch \in [Fetch -> FetchState] /\ heard \in [Fetch -> RetRec]
        /\ \A f \in abort : fetch[f] = "waiting"
        /\ main.ret.kind \in {"ok", "failed", "pending"}
    BY DEF FInv, FTypeOK, AbortWaits, Returned, TypeOK, MainRec, RetRec, Settled, HeardInv
  <2>1. CASE WalkReturns
    <3>1. walk.by \in {"poll", "pump"} /\ main.pc = "return"
      BY <2>1 DEF WalkReturns, Return
    <3>2. Here \notin abort
      BY <3>1 DEF FInv, WalkSound
    <3>3. CASE Stay
      BY <2>0, <2>1, <3>3 DEF WalkReturns
    <3>4. CASE ~Stay
      <4>1. main.ret.kind # "ok" => walk.by = "poll"
        BY <2>0, <3>1, <3>4 DEF Stay
      <4>2. \/ Hear(Here, "curl")
            \/ Hear(Here, "failed") /\ walk.by = "poll"
        BY <2>1, <3>4, <4>1 DEF WalkReturns
      <4>3. \A g \in Fetch \ {Here} : fetch'[g] = fetch[g] /\ heard'[g] = heard[g]
        BY <2>0, <4>2 DEF Hear
      <4>4. fetch'[Here] = "failed" /\ Here \in Fetch => walk.by = "poll"
        BY <2>0, <4>2 DEF Hear
      <4> QED BY <2>0, <3>2, <4>3, <4>4
    <3> QED BY <3>3, <3>4
  <2>2. CASE StartReturns
    <3>1. starting \notin abort /\ starting \in Fetch
      BY <2>0, <2>2 DEF StartReturns, FInv, WalkSound
    <3>2. /\ \A g \in Fetch \ {starting} : fetch'[g] = fetch[g] /\ heard'[g] = heard[g]
          /\ fetch'[starting] \in {"curl", "waiting"}
      BY <2>0, <2>2, <3>1 DEF StartReturns, Hear
    <3> QED BY <2>0, <3>1, <3>2
  <2>3. CASE WalkAborted \/ \E g \in Fetch : Abort(g)
    <3>1. heard' = heard /\ \A f \in Fetch : fetch'[f] = fetch[f] \/ fetch'[f] = "freed"
      BY <2>0, <2>3 DEF WalkAborted, Abort
    <3> QED BY <2>0, <3>1
  <2>4. CASE UNCHANGED <<fetch, heard>>
    BY <2>0, <2>4
  <2> QED BY <2>1, <2>2, <2>3, <2>4 DEF FNext, Driver, Initiate, Poll, Pump, Begin, WalkAsk, WalkEnds,
             CallbackEnds, fetchVars
<1> QED BY <1>1, ListThroughout, ReturnedThroughout, HeardThroughout, PTL DEF FSpec, OnlyPollFinishes

\* The list of waiting fetches is sound for any number of fetches and hosts,
\* through polls, pumps, callbacks that start and abort fetches, and answers:
\* each fetch that waits is in it once, no walk passes one that is marked as
\* aborted, wherever in a poll that was, and each fetch is told of its own host.
THEOREM ListStaysSound == FSpec => []ListSound
<1>1. FInv /\ HeardInv => ListSound
  <2> SUFFICES ASSUME FInv, HeardInv PROVE ListSound
    OBVIOUS
  <2>1. Len(list) \in Nat /\ DOMAIN list = 1..Len(list) /\ walk \in Walks
    BY DEF FInv, FTypeOK
  <2>2. ToSet(list) = Waiting
    <3>1. \A f : f \in ToSet(list) <=> \E i \in 1..Len(list) : list[i] = f
      BY <2>1 DEF ToSet
    <3>2. \A i \in 1..Len(list) : list[i] \in Fetch
      BY <2>1 DEF FInv, FTypeOK
    <3> QED BY <3>1, <3>2 DEF FInv, Listed, Waiting
  <2>3. IsInjective(list)
    BY <2>1 DEF FInv, Once, IsInjective
  <2>4. abort \subseteq Waiting
    BY DEF FInv, FTypeOK, AbortWaits, Waiting
  <2>5. walk.by \in {"poll", "pump"} => walk.at \in 1..Len(list)+1
    BY <2>1 DEF FInv, WalkSound, Walks
  <2>6. AbortedAreFreed
    BY <2>1 DEF FInv, WalkSound, AbortedAreFreed
  <2> QED BY <2>2, <2>3, <2>4, <2>5, <2>6 DEF ListSound, ListIsWaiting, HeardInv
<1> QED BY <1>1, ListThroughout, HeardThroughout, PTL
=============================================================================
