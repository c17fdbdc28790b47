------------------------------- MODULE Resolve -------------------------------
(***************************************************************************)
(* Host name lookups away from the main thread: vita_resolve.c.            *)
(*                                                                         *)
(* The main thread asks for a host's address (Call) and is told PENDING,   *)
(* OK or FAILED (main.ret).  A fixed table of slots holds the lookups and  *)
(* the answers; a queued slot is run by a thread of its own, at most       *)
(* NThreads at once.  A slot belongs to the main thread except while its   *)
(* lookup runs: its state, written atomically, is the hand-over.           *)
(***************************************************************************)
EXTENDS Integers, FiniteSets

CONSTANTS
  Host,        \* the host names asked for
  Dotless,     \* those with no dot, which only the system resolver may know
  NoHost,      \* the empty host of a slot given up
  Addr,        \* the addresses a lookup may find
  NSlots,      \* RESOLVE_SLOTS
  NThreads,    \* RESOLVE_THREADS
  KeepMs,      \* RESOLVE_KEEP_MS
  FailKeepMs,  \* RESOLVE_FAIL_KEEP_MS
  Wrap,        \* the millisecond clock counts modulo Wrap (2^32)
  StartMs,     \* the clock when the program starts
  MaxElapsed   \* bound: the time a behaviour may take

ASSUME SlotsAssumption == NSlots \in Nat \ {0} /\ NThreads \in Nat \ {0}
ASSUME HostAssumption == NoHost \notin Host /\ Dotless \subseteq Host /\ Addr # {}
ASSUME ClockAssumption == /\ Wrap \in Nat \ {0} /\ StartMs \in 0..Wrap-1
                          /\ MaxElapsed \in Nat
                          /\ KeepMs \in Nat /\ FailKeepMs \in Nat

VARIABLES
  slot,     \* the slots
  askedAt,  \* history: the time, unwrapped, each slot was last asked for
  thread,   \* the lookups' threads
  main,     \* where the main thread is inside vita_resolve or its fini
  elapsed   \* time since the start; the clock is now

vars == <<slot, askedAt, thread, main, elapsed>>

Slot == 1..NSlots
None == 0
Fail == {"create", "lookup", "thread", "dns"}
Settled == {"ok", "failed"}
Unsettled == {"queued", "running"}
\* An address, and the host name the lookup that found it was given.
Found == [of : Host \cup {NoHost}, addr : Addr]
NoAddr == [of |-> NoHost, addr |-> CHOOSE a \in Addr : TRUE]
Stamp == 0..Wrap-1

\* One more thread than may run, so that the limit is the code's to keep.
Tid == 1..NThreads+1
Dead == [pc |-> "dead", slot |-> None, host |-> NoHost, got |-> "none", aborted |-> FALSE]

Pending == [kind |-> "pending", host |-> NoHost, found |-> NoAddr]
Idle == [pc |-> "idle", host |-> NoHost, slot |-> None, running |-> 0,
         rid |-> FALSE, ret |-> Pending]

\* Mutant: the clock is not kept in 32 bits.
nowWide == StartMs + elapsed

now == (StartMs + elapsed) % Wrap
Age(t) == (now - t) % Wrap
\* Mutant: stamps compared without the wrap.
BeforeUnwrapped(a, b) == a < b

\* (int32_t)(a - b) < 0
Before(a, b) == (a - b) % Wrap >= Wrap \div 2 /\ a # b

State(st) == {s \in Slot : slot[s].state = st}
Live(t) == thread[t].pc # "dead"

Init ==
  /\ slot = [s \in Slot |-> [host |-> NoHost, state |-> "empty", rid |-> FALSE,
                             found |-> NoAddr, fail |-> "none",
                             done |-> 0, asked |-> 0, used |-> 0]]
  /\ askedAt = [s \in Slot |-> 0]
  /\ thread = [t \in Tid |-> Dead]
  /\ main = Idle
  /\ elapsed = 0

-----------------------------------------------------------------------------
(* The main thread: vita_resolve.                                          *)

\* The slot that holds host's lookup or answer.
Holds(s, h) == slot[s].state # "empty" /\ slot[s].host = h

\* No slot holds the host: a free slot, else the answer asked for least
\* recently, the first such in the table.
SpareFor(s) ==
  \/ /\ slot[s].state = "empty"
     /\ \A r \in State("empty") : s <= r
  \/ /\ State("empty") = {}
     /\ slot[s].state \in Settled
     /\ \A r \in State("ok") \cup State("failed") :
          \/ Before(slot[s].used, slot[r].used)
          \/ slot[s].used = slot[r].used /\ s <= r

Stale(s) ==
  \/ slot[s].state = "ok" /\ Age(slot[s].done) >= KeepMs
  \/ slot[s].state = "failed" /\ Age(slot[s].done) >= FailKeepMs

\* Mutant: the last lookup's failure is left in the slot.
AskedAgain(s, h) == [slot[s] EXCEPT !.host = h, !.state = "queued",
                                    !.asked = now, !.used = now]

\* slot_ask: from scratch, but for when the last lookup ended.
Asked(s, h) == [host |-> h, state |-> "queued", rid |-> FALSE, found |-> NoAddr,
                fail |-> "none", done |-> slot[s].done, asked |-> now, used |-> now]

Answer(s) == [kind |-> slot[s].state, host |-> slot[s].host, found |-> slot[s].found]

Ask(s, h) ==
  /\ slot' = [slot EXCEPT ![s] = Asked(s, h)]
  /\ askedAt' = [askedAt EXCEPT ![s] = elapsed]
  /\ main' = [main EXCEPT !.pc = "count", !.host = h, !.slot = s]

\* The slot found is asked again when its answer is too old, waited for when
\* it has none, and answers at once otherwise.
CallHeld(h, s) ==
  /\ Holds(s, h)
  /\ IF Stale(s) THEN Ask(s, h) ELSE
       /\ slot' = [slot EXCEPT ![s].used = now]
       /\ main' = IF slot[s].state \in Unsettled
                  THEN [main EXCEPT !.pc = "count", !.host = h, !.slot = s]
                  ELSE [main EXCEPT !.pc = "return", !.host = h, !.slot = s,
                                    !.ret = Answer(s)]
       /\ UNCHANGED askedAt

\* The spare is emptied and asked; with every slot a lookup in progress, the
\* caller is only told to ask again.
CallNew(h) ==
  /\ \A s \in Slot : ~Holds(s, h)
  /\ \/ \E s \in Slot : SpareFor(s) /\ Ask(s, h)
     \/ /\ \A s \in Slot : slot[s].state \in Unsettled
        /\ main' = [main EXCEPT !.pc = "count", !.host = h, !.slot = None]
        /\ UNCHANGED <<slot, askedAt>>

Call(h) ==
  /\ main.pc = "idle"
  /\ CallNew(h) \/ \E s \in Slot : CallHeld(h, s)
  /\ UNCHANGED <<thread, elapsed>>

\* start_queued counts what runs, then starts the oldest while threads are free.
Count ==
  /\ main.pc = "count"
  /\ main' = [main EXCEPT !.pc = "start", !.running = Cardinality(State("running"))]
  /\ UNCHANGED <<slot, askedAt, thread, elapsed>>

Oldest(s) ==
  /\ slot[s].state = "queued"
  /\ \A r \in State("queued") : \/ Before(slot[s].asked, slot[r].asked)
                                \/ slot[s].asked = slot[r].asked /\ s <= r

MayStart == main.pc = "start" /\ main.running < NThreads

StartLookup ==
  /\ MayStart
  /\ \E s \in Slot, t \in Tid :
       /\ Oldest(s)
       /\ ~Live(t) /\ \A u \in Tid : u < t => Live(u)
       /\ slot' = [slot EXCEPT ![s].state = "running"]
       /\ thread' = [thread EXCEPT ![t] = [Dead EXCEPT !.pc = "own", !.slot = s,
                                            !.host = slot[s].host]]
  /\ main' = [main EXCEPT !.running = main.running + 1]
  /\ UNCHANGED <<askedAt, elapsed>>

\* Mutant: a lookup whose thread did not start is left marked running.
StartFailsRunning ==
  /\ MayStart
  /\ \E s \in Slot :
       /\ Oldest(s)
       /\ slot' = [slot EXCEPT ![s].state = "running", ![s].fail = "thread",
                               ![s].done = now]
  /\ UNCHANGED <<askedAt, thread, main, elapsed>>

\* No thread could be made or started: the lookup has failed.
StartFails ==
  /\ MayStart
  /\ \E s \in Slot :
       /\ Oldest(s)
       /\ slot' = [slot EXCEPT ![s].state = "failed", ![s].fail = "thread",
                               ![s].done = now]
  /\ UNCHANGED <<askedAt, thread, main, elapsed>>

StartDone ==
  /\ main.pc = "start"
  /\ main.running >= NThreads \/ State("queued") = {}
  /\ main' = [main EXCEPT !.pc = "recheck"]
  /\ UNCHANGED <<slot, askedAt, thread, elapsed>>

\* The state is read again: a start that failed, or a lookup that has ended in
\* the meantime, is answered now.
Recheck ==
  /\ main.pc = "recheck"
  /\ main' = [main EXCEPT !.pc = "return",
                !.ret = IF main.slot # None /\ slot[main.slot].state \in Settled
                        THEN Answer(main.slot) ELSE Pending]
  /\ UNCHANGED <<slot, askedAt, thread, elapsed>>

\* The caller has the answer (external: what it does with it).
Return ==
  /\ main.pc = "return"
  /\ main' = Idle
  /\ UNCHANGED <<slot, askedAt, thread, elapsed>>

-----------------------------------------------------------------------------
(* vita_resolve_fini: queued lookups are abandoned, those running aborted  *)
(* and waited for, briefly.                                                *)

FiniDrop ==
  /\ main.pc = "idle"
  /\ slot' = [s \in Slot |-> IF slot[s].state = "queued"
                             THEN [slot[s] EXCEPT !.state = "empty"] ELSE slot[s]]
  /\ main' = [main EXCEPT !.pc = "read rid", !.slot = 1]
  /\ UNCHANGED <<askedAt, thread, elapsed>>

FiniReadRid ==
  /\ main.pc = "read rid"
  /\ main' = [main EXCEPT !.pc = "abort", !.rid = slot[main.slot].rid]
  /\ UNCHANGED <<slot, askedAt, thread, elapsed>>

\* The resolver read may be gone by now: then the abort does nothing.
FiniAbort ==
  /\ main.pc = "abort"
  /\ thread' = [t \in Tid |->
       IF /\ main.rid /\ slot[main.slot].state = "running"
          /\ thread[t].slot = main.slot /\ thread[t].pc = "ask"
       THEN [thread[t] EXCEPT !.aborted = TRUE] ELSE thread[t]]
  /\ main' = IF main.slot = NSlots
             THEN [Idle EXCEPT !.pc = "wait"]
             ELSE [main EXCEPT !.pc = "read rid", !.slot = main.slot + 1]
  /\ UNCHANGED <<slot, askedAt, elapsed>>

FiniDone ==
  /\ main.pc = "wait" /\ State("running") = {}
  /\ main' = [main EXCEPT !.pc = "ended"]
  /\ UNCHANGED <<slot, askedAt, thread, elapsed>>

\* The 500 ms are over.
FiniGivesUp ==
  /\ main.pc = "wait" /\ State("running") # {}
  /\ main' = [main EXCEPT !.pc = "gave up"]
  /\ UNCHANGED <<slot, askedAt, thread, elapsed>>

Halted == main.pc \in {"ended", "gave up"} /\ UNCHANGED vars

-----------------------------------------------------------------------------
(* A lookup's thread.                                                      *)

Goto(t, pc) == thread' = [thread EXCEPT ![t].pc = pc]

\* lookup_own: VitaSurf's own query settles it, with an address or with a
\* server's answer that there is none, or leaves it to the system resolver.
OwnQuery(t) ==
  LET s == thread[t].slot IN
  /\ thread[t].pc = "own"
  /\ \/ /\ thread[t].host \notin Dotless
        /\ \/ \E a \in Addr :
                slot' = [slot EXCEPT ![s].found = [of |-> thread[t].host, addr |-> a]]
           \/ slot' = [slot EXCEPT ![s].fail = "dns"]
        /\ Goto(t, "stamp")
     \/ Goto(t, "create") /\ UNCHANGED slot
  /\ UNCHANGED <<askedAt, main, elapsed>>

CreateResolver(t) ==
  LET s == thread[t].slot IN
  /\ thread[t].pc = "create"
  /\ \/ slot' = [slot EXCEPT ![s].fail = "create"] /\ Goto(t, "stamp")
     \/ slot' = [slot EXCEPT ![s].rid = TRUE] /\ Goto(t, "ask")
  /\ UNCHANGED <<askedAt, main, elapsed>>

\* The blocking call returns, and the resolver's id is taken back.
ResolverReturns(t) ==
  LET s == thread[t].slot IN
  /\ thread[t].pc = "ask"
  /\ slot' = [slot EXCEPT ![s].rid = FALSE]
  /\ \E got \in {"ok", "failed"} :
       /\ thread[t].aborted => got = "failed"
       /\ thread' = [thread EXCEPT ![t].pc = "destroy", ![t].got = got]
  /\ UNCHANGED <<askedAt, main, elapsed>>

DestroyResolver(t) ==
  LET s == thread[t].slot IN
  /\ thread[t].pc = "destroy"
  /\ \/ /\ thread[t].got = "ok"
        /\ \E a \in Addr :
             slot' = [slot EXCEPT ![s].found = [of |-> thread[t].host, addr |-> a]]
     \/ /\ thread[t].got = "failed"
        /\ slot' = [slot EXCEPT ![s].fail = "lookup"]
  /\ Goto(t, "stamp")
  /\ UNCHANGED <<askedAt, main, elapsed>>

StampDone(t) ==
  /\ thread[t].pc = "stamp"
  /\ slot' = [slot EXCEPT ![thread[t].slot].done = now]
  /\ Goto(t, "publish")
  /\ UNCHANGED <<askedAt, main, elapsed>>

\* The slot goes back to the main thread, and the thread ends.
Publish(t) ==
  LET s == thread[t].slot IN
  /\ thread[t].pc = "publish"
  /\ slot' = [slot EXCEPT ![s].state = IF slot[s].fail = "none" THEN "ok" ELSE "failed"]
  /\ thread' = [thread EXCEPT ![t] = Dead]
  /\ UNCHANGED <<askedAt, main, elapsed>>

Thread(t) == \/ OwnQuery(t) \/ CreateResolver(t) \/ ResolverReturns(t)
             \/ DestroyResolver(t) \/ StampDone(t) \/ Publish(t)

-----------------------------------------------------------------------------

Tick == elapsed < MaxElapsed /\ elapsed' = elapsed + 1
        /\ UNCHANGED <<slot, askedAt, thread, main>>

\* Inside vita_resolve, once called.
Resolving == Count \/ StartLookup \/ StartFails \/ StartDone \/ Recheck

Fini == FiniDrop \/ FiniReadRid \/ FiniAbort \/ FiniDone \/ FiniGivesUp

Next == \/ \E h \in Host : Call(h)
        \/ Resolving
        \/ Return
        \/ Fini
        \/ Halted
        \/ \E t \in Tid : Thread(t)
        \/ Tick

Spec == Init /\ [][Next]_vars

-----------------------------------------------------------------------------
(* Properties.                                                             *)

SlotRec == [host : Host \cup {NoHost}, state : {"empty"} \cup Unsettled \cup Settled,
            rid : BOOLEAN, found : Found, fail : Fail \cup {"none"},
            done : Stamp, asked : Stamp, used : Stamp]
ThreadRec == [pc : {"dead", "own", "create", "ask", "destroy", "stamp", "publish"},
              slot : Slot \cup {None}, host : Host \cup {NoHost},
              got : Settled \cup {"none"}, aborted : BOOLEAN]
RetRec == [kind : Settled \cup {"pending"}, host : Host \cup {NoHost}, found : Found]
MainRec == [pc : {"idle", "count", "start", "recheck", "return", "read rid",
                  "abort", "wait", "ended", "gave up"},
            host : Host \cup {NoHost}, slot : Slot \cup {None},
            running : Nat, rid : BOOLEAN, ret : RetRec]

\* Every variable has its type.
TypeOK == /\ slot \in [Slot -> SlotRec]
          /\ askedAt \in [Slot -> 0..MaxElapsed]
          /\ thread \in [Tid -> ThreadRec]
          /\ main \in MainRec
          /\ elapsed \in 0..MaxElapsed

\* A host is never looked up twice at once, nor has two answers: whatever the
\* evictions and expiries, at most one slot in use is for a host (slot_for).
OneSlotPerHost ==
  \A r, s \in Slot : r # s /\ slot[r].state # "empty" /\ slot[s].state # "empty"
                      => slot[r].host # slot[s].host

\* The hand-over: a live lookup's slot is marked running and is no other
\* lookup's, and a slot marked running has its lookup (vita_resolve.c:15).
HandOver ==
  /\ \A t \in Tid : Live(t) => slot[thread[t].slot].state = "running"
  /\ \A t, u \in Tid : Live(t) /\ Live(u) /\ t # u => thread[t].slot # thread[u].slot
  /\ \A s \in State("running") : \E t \in Tid : Live(t) /\ thread[t].slot = s

\* No more threads than RESOLVE_THREADS are ever alive, though they end and are
\* started while the main thread counts (start_queued).
ThreadsBounded == Cardinality({t \in Tid : Live(t)}) <= NThreads

\* What a settled slot says is what its last lookup found, for the host it now
\* holds: nothing of a lookup before it, or of another host's, shows through
\* the slot's reuse; and what a caller is told is for the host it asked about.
AnswerIsTheLookups ==
  /\ \A s \in Slot :
       /\ slot[s].state = "ok" => slot[s].fail = "none" /\ slot[s].found.of = slot[s].host
       /\ slot[s].state = "failed" => slot[s].fail # "none" /\ slot[s].found = NoAddr
  /\ main.pc = "return" /\ main.ret.kind = "ok" =>
       main.ret.host = main.host /\ main.ret.found.of = main.host

\* When vita_resolve_fini has seen no lookup running, no thread is left to use
\* the network that is about to be shut down.
FiniQuiet == main.pc = "ended" => \A t \in Tid : ~Live(t)

\* While a lookup runs only its thread writes its slot; the main thread
\* touches nothing of it but when it was last asked for (vita_resolve.c:15).
SlotIsItsThreads ==
  \A s \in State("running") :
    [slot'[s] EXCEPT !.used = 0] # [slot[s] EXCEPT !.used = 0]
      => \E t \in Tid : thread[t].slot = s /\ thread'[t] # thread[t]

\* An answer is given up only when its time is over, or for another host when
\* no slot is free and none has gone unasked for longer.
AnswerKept ==
  \A s \in Slot :
    slot[s].state \in Settled /\ <<slot'[s].state, slot'[s].host>> # <<slot[s].state, slot[s].host>>
      => \/ Stale(s) /\ slot'[s].host = slot[s].host
         \/ /\ State("empty") = {} /\ slot'[s].host # slot[s].host
            /\ \A r \in State("ok") \cup State("failed") :
                 ~Before(slot[r].used, slot[s].used)

\* Lookups are started in the order they were asked for, also when the clock
\* wraps between two of them (start_queued's signed difference).
OldestFirst ==
  \A s \in State("queued") :
    slot'[s].state \in {"running", "failed"}
      => \A r \in State("queued") : askedAt[s] <= askedAt[r]

\* What no step does to a slot, in all interleavings of the threads with the
\* main one: write another's lookup, give up an answer, or pass over the oldest.
SlotsKept == [][SlotIsItsThreads /\ AnswerKept /\ OldestFirst]_vars

\* The slots are sound however lookups end, are evicted and are shut down: one
\* for a host, handed over by its state alone, no more threads than there may
\* be, and none left at the end.
SlotsSound == OneSlotPerHost /\ HandOver /\ ThreadsBounded /\ FiniQuiet
=============================================================================
