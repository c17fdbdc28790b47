----------------------------- MODULE IndexedDB ------------------------------
(***************************************************************************)
(* One database of IndexedDB (idb.js) on the store of its origin           *)
(* (storage.js): opens and upgrades, transactions and their requests, the  *)
(* microtasks all of it runs in, the write to the card that is put off,    *)
(* what is left when a script is killed (its budget, or Circle), and of    *)
(* the memory when the page or the console goes.                           *)
(*                                                                         *)
(* A record is known by the request that wrote it, which is also its       *)
(* value: records are replaced, never changed.  Stores and databases are   *)
(* objects: what holds one goes on holding it when its name is another's.  *)
(***************************************************************************)
EXTENDS Naturals, Sequences, FiniteSets, FiniteSetsExt

CONSTANTS
  Names,        \* of object stores
  MaxKey, MaxVersion,
  Ops,          \* the requests asked
  MaxCalls, MaxRestarts   \* bounds: what pages call; the ends and kills they meet

VARIABLES
  heap,     \* the store objects: records by key, and the next key
  data,     \* the database objects: version and stores
  all,      \* the database the name stands for, 0 when there is none
  opens, tx, req,
  micro,    \* the microtasks, in order
  stack,    \* what is running: scripts, and drains of transactions
  card, dirty,
  calls, restarts,
  stopped   \* the microtasks are left where they are until the next task

vars == <<heap, data, all, opens, tx, req, micro, stack, card, dirty, calls, restarts, stopped>>
memory == <<heap, data, all>>
disk == <<card, dirty, restarts, stopped>>
Calls == calls < MaxCalls /\ calls' = calls + 1

Empty == <<>>
NoStore == [recs |-> Empty, next |-> 1]
(* What an earlier page left: a record, written by none of the requests.  *)
Kept == [recs |-> [k \in {1} |-> 0], next |-> 2]
NoCard == [version |-> 0, stores |-> Empty]
Put(f, a, b) == [x \in DOMAIN f \cup {a} |-> IF x = a THEN b ELSE f[x]]
Cut(f, S) == [x \in DOMAIN f \ S |-> f[x]]

Opening(version) ==
  [want |-> version, told |-> "pending", data |-> 0, existed |-> FALSE,
   upgrade |-> 0, before |-> NoCard]

(* A first visit, a later one, and one that has the database open.         *)
Init ==
  /\ \/ heap = <<>> /\ data = <<>> /\ all = 0 /\ card = NoCard
     \/ /\ heap = <<Kept>> /\ all = 1
        /\ data = <<[version |-> 1, stores |-> [n \in {Min(Names)} |-> 1]]>>
        /\ card = [version |-> 1, stores |-> [n \in {Min(Names)} |-> Kept]]
  /\ \/ opens = <<>>
     \/ all # 0 /\ opens = <<[Opening(0) EXCEPT !.told = "success", !.data = all]>>
  /\ tx = <<>> /\ req = <<>>
  /\ micro = <<>> /\ stack = <<>>
  /\ dirty = FALSE /\ calls = 0 /\ restarts = 0 /\ stopped = FALSE

-----------------------------------------------------------------------------
(* What is running.  A script is a task of the page, a handler or what     *)
(* goes on after an await.                                                 *)

Top == stack[Len(stack)]
Under == SubSeq(stack, 1, Len(stack) - 1)
InScript == stack # <<>> /\ Top.is # "drain"
Script(is, n) == [is |-> is, n |-> n]
Drain(t) == [is |-> "drain", n |-> t]
Job(do, n) == [do |-> do, n |-> n]
Later(jobs) == micro' = micro \o jobs

(* The values of stores: what a snapshot, a copy of the lists and the card *)
(* have of them.                                                           *)
Values(d) == [n \in DOMAIN data[d].stores |-> heap[data[d].stores[n]]]
StoreNumber(f, n) == 1 + Cardinality({m \in DOMAIN f : m < n})
StoreObjects(f) == [n \in DOMAIN f |-> Len(heap) + StoreNumber(f, n)]
Objects(f) ==
  [i \in 1..Cardinality(DOMAIN f) |->
     f[CHOOSE n \in DOMAIN f : StoreNumber(f, n) = i]]

Image == IF all = 0 THEN NoCard ELSE [version |-> data[all].version, stores |-> Values(all)]

Live(t) == tx[t].state # "done"
Writes(t) == tx[t].mode # "readonly"

(* Ghosts.  alone: no other transaction that writes was there meanwhile.   *)
(* cut: it was under way when a script was killed; torn: what it was doing *)
(* was what was killed.                                                    *)
NewTx(d, names, mode, open) ==
  [data |-> d, mode |-> mode, names |-> names, state |-> "active", queue |-> <<>>,
   had |-> IF mode = "readonly" THEN Empty ELSE [n \in names |-> Values(d)[n]],
   got |-> Empty, scheduled |-> FALSE, ended |-> "no", open |-> open,
   cut |-> FALSE, torn |-> FALSE,
   alone |-> \A u \in DOMAIN tx : Live(u) /\ Writes(u) => tx[u].data # d]
Started(new) ==
  Append([u \in DOMAIN tx |->
            IF tx[u].data = new.data /\ Live(u) /\ new.mode # "readonly"
            THEN [tx[u] EXCEPT !.alone = FALSE] ELSE tx[u]], new)

-----------------------------------------------------------------------------
(* The page.                                                               *)

(* A task begins when the microtasks are done: a timer, an event.  It is   *)
(* its end that has those run which a kill left.                           *)
BetweenJobs == stack = <<>>
Idle == stack = <<>> /\ (micro = <<>> \/ stopped)
TaskBegins ==
  /\ Idle
  /\ calls < MaxCalls
  /\ stack' = <<Script("task", 0)>>
  /\ stopped' = FALSE
  /\ UNCHANGED <<memory, opens, tx, req, micro, card, dirty, restarts, calls>>

OpenDb(version) ==
  /\ InScript /\ Calls
  /\ opens' = Append(opens, Opening(version))
  /\ Later(<<Job("open", Len(opens) + 1)>>)
  /\ UNCHANGED <<memory, tx, req, stack, disk>>

DeleteDb ==
  /\ InScript /\ all # 0 /\ Calls
  /\ opens' = Append(opens, Opening(0))
  /\ Later(<<Job("delete", Len(opens) + 1)>>)
  /\ UNCHANGED <<memory, tx, req, stack, disk>>

(* By whoever has the database: also the handler of its upgrade.           *)
Begin(o, names, mode) ==
  /\ InScript /\ opens[o].data # 0
  /\ Calls
  /\ names # {} /\ names \subseteq DOMAIN data[opens[o].data].stores
  /\ tx' = Started(NewTx(opens[o].data, names, mode, 0))
  /\ Later(<<Job("drain", Len(tx) + 1)>>)
  /\ UNCHANGED <<memory, opens, req, stack, disk>>

HasStore(t, n) == n \in DOMAIN tx[t].got \cup DOMAIN data[tx[t].data].stores

(* A store asked for once is kept: one made again under its name is not    *)
(* seen.                                                                   *)
Handle(t, n) ==
  IF n \in DOMAIN tx[t].got THEN tx[t].got[n] ELSE data[tx[t].data].stores[n]

Queued(q, r) == Append(q, r)

Ask(t, op, n, k) ==
  /\ InScript /\ Live(t) /\ Calls
  /\ n \in tx[t].names /\ HasStore(t, n)
  /\ op # "get" => Writes(t)
  /\ req' = Append(req, [tx |-> t, op |-> op, at |-> Handle(t, n), key |-> k,
                         told |-> "pending"])
  /\ tx' = [tx EXCEPT ![t].queue = Queued(@, Len(req) + 1), ![t].scheduled = TRUE,
                      ![t].got = Put(@, n, Handle(t, n))]
  /\ Later(IF tx[t].scheduled THEN <<>> ELSE <<Job("pushed", t)>>)
  /\ UNCHANGED <<memory, opens, stack, disk>>

(* Abandoned: what it found is put back, under the names there are now.    *)
Aborted(t, T) ==
  [T EXCEPT ![t].state = "done", ![t].queue = <<>>, ![t].ended = "aborting"]
RecordsOnly(now, was) == [now EXCEPT !.recs = was.recs]
WasBefore(now, was) == was
PutBack(t) ==
  IF tx[t].mode = "versionchange"
  THEN /\ heap' = heap \o Objects(tx[t].had)
       /\ data' = [data EXCEPT ![tx[t].data].stores = StoreObjects(tx[t].had)]
  ELSE /\ heap' = [i \in DOMAIN heap |->
                     LET hit == {n \in DOMAIN tx[t].had \cap DOMAIN data[tx[t].data].stores :
                                   data[tx[t].data].stores[n] = i}
                     IN  IF hit = {} THEN heap[i]
                         ELSE WasBefore(heap[i], tx[t].had[CHOOSE n \in hit : TRUE])]
       /\ UNCHANGED data
Abandon(t, rest) ==
  /\ tx' = Aborted(t, tx)
  /\ PutBack(t)
  /\ dirty' = (dirty \/ Writes(t))
  /\ Later(<<Job("aborted", t)>>)
  /\ stack' = rest
  /\ UNCHANGED <<all, opens, req, card, restarts, stopped>>

Abort(t) == InScript /\ Calls /\ Live(t) /\ Abandon(t, stack)

(* commit() drains at once; what called it goes on after.                  *)
Commit(t) ==
  /\ InScript /\ Live(t) /\ Calls
  /\ stack' = Append(stack, Drain(t))
  /\ UNCHANGED <<memory, opens, tx, req, micro, disk>>

CreateStore(o, n) ==
  /\ InScript /\ opens[o].upgrade # 0 /\ Calls
  /\ n \notin DOMAIN data[opens[o].data].stores
  /\ heap' = Append(heap, NoStore)
  /\ data' = [data EXCEPT ![opens[o].data].stores = Put(@, n, Len(heap) + 1)]
  /\ LET t == opens[o].upgrade
         has == ~Live(t) \/ n \in DOMAIN tx[t].got
     IN  tx' = [tx EXCEPT ![t].names = @ \cup {n},
                          ![t].got = IF has THEN @ ELSE Put(@, n, Len(heap) + 1)]
  /\ UNCHANGED <<all, opens, req, micro, stack, disk>>

DeleteStore(o, n) ==
  /\ InScript /\ opens[o].upgrade # 0 /\ Calls
  /\ n \in DOMAIN data[opens[o].data].stores
  /\ data' = [data EXCEPT ![opens[o].data].stores = Cut(@, {n})]
  /\ UNCHANGED <<heap, all, opens, tx, req, micro, stack, disk>>

(* localStorage is in the same store: setItem has it all written.          *)
SetItem ==
  /\ InScript /\ ~dirty /\ dirty' = TRUE /\ Calls
  /\ UNCHANGED <<memory, opens, tx, req, micro, stack, card, restarts, stopped>>

(* flush hears pagehide, beforeunload and unload, which the page may       *)
(* dispatch itself wherever it is.                                         *)
FlushByPage ==
  /\ InScript /\ dirty /\ Calls
  /\ card' = Image /\ dirty' = FALSE
  /\ UNCHANGED <<memory, opens, tx, req, micro, stack, restarts, stopped>>

(* The page goes on where it waited for a request, once the handlers of    *)
(* this turn are done.                                                     *)
GoOn ==
  /\ InScript /\ Top.is \in {"handler", "complete", "abort"} /\ Calls
  /\ \A i \in DOMAIN micro : micro[i].do # "go"
  /\ Later(<<Job("go", 0)>>)
  /\ UNCHANGED <<memory, opens, tx, req, stack, disk>>

(* The open has heard of its upgrade's end, after the page has.            *)
Answers(t) ==
  LET o == tx[t].open
      worked == tx[t].ended = "complete"
  IN  /\ opens' = [opens EXCEPT ![o].told = IF worked THEN "success" ELSE "error", ![o].upgrade = 0]
      /\ all' = IF worked \/ opens[o].existed THEN all ELSE 0
      /\ dirty' = (dirty \/ worked)
      /\ stack' = Append(Under, Script("handler", 0))
      /\ UNCHANGED <<heap, data, tx, req, micro, card, restarts, stopped, calls>>

(* A script is done.  A request that failed takes its transaction along;   *)
(* an upgrade that was heard of is drained.                                *)
Takes == Top.is = "failed" /\ Live(req[Top.n].tx)
Hears == Top.is \in {"complete", "abort"} /\ tx[Top.n].open # 0
Returns ==
  /\ InScript
  /\ \/ Takes /\ Abandon(req[Top.n].tx, Under) /\ UNCHANGED calls
     \/ Hears /\ Answers(Top.n)
     \/ /\ ~Takes /\ ~Hears
        /\ stack' = IF Top.is = "upgrade" THEN Append(Under, Drain(opens[Top.n].upgrade))
                    ELSE Under
        /\ UNCHANGED <<memory, opens, tx, req, micro, disk, calls>>

Script1 ==
  \/ \E v \in 0..MaxVersion : OpenDb(v)
  \/ DeleteDb
  \/ \E o \in DOMAIN opens, S \in SUBSET Names, m \in {"readonly", "readwrite"} : Begin(o, S, m)
  \/ \E t \in DOMAIN tx : Abort(t) \/ Commit(t)
  \/ \E t \in DOMAIN tx, n \in Names :
       \E op \in Ops, k \in 1..MaxKey : Ask(t, op, n, k)
  \/ \E o \in DOMAIN opens, n \in Names : CreateStore(o, n) \/ DeleteStore(o, n)
  \/ SetItem
  \/ FlushByPage
  \/ GoOn

-----------------------------------------------------------------------------
(* Transactions.                                                           *)

(* A request is carried out: whether it fails, and the store after it.     *)
KeyOf(r) == IF req[r].op = "auto" THEN heap[req[r].at].next ELSE req[r].key
Fails(r) == req[r].op = "add" /\ req[r].key \in DOMAIN heap[req[r].at].recs
NextKey(r, next) == IF KeyOf(r) >= next THEN KeyOf(r) + 1 ELSE next
Stored(r) ==
  LET s == heap[req[r].at]
  IN  CASE req[r].op \in {"put", "add", "auto"} ->
             [recs |-> IF Fails(r) THEN s.recs ELSE Put(s.recs, KeyOf(r), r),
              next |-> NextKey(r, s.next)]
        [] req[r].op = "delete" -> [s EXCEPT !.recs = Cut(@, {req[r].key})]
        [] req[r].op = "clear" -> [s EXCEPT !.recs = Empty]
        [] OTHER -> s

(* One turn of the loop in _drain, and the event it sends.                 *)
Runs(t) ==
  /\ stack # <<>> /\ Top = Drain(t) /\ Live(t) /\ tx[t].queue # <<>>
  /\ LET r == Head(tx[t].queue)
     IN  /\ heap' = [heap EXCEPT ![req[r].at] = Stored(r)]
         /\ req' = [req EXCEPT ![r].told = IF Fails(r) THEN "error" ELSE "success"]
         /\ stack' = Append(stack, Script(IF Fails(r) THEN "failed" ELSE "handler", r))
  /\ tx' = [tx EXCEPT ![t].queue = Tail(@)]
  /\ UNCHANGED <<data, all, opens, micro, disk, calls>>

(* Its end: the script has one more turn to ask for something.             *)
Drained(t) ==
  /\ stack # <<>> /\ Top = Drain(t) /\ (~Live(t) \/ tx[t].queue = <<>>)
  /\ tx' = IF tx[t].state = "active" THEN [tx EXCEPT ![t].state = "finishing"] ELSE tx
  /\ Later(IF tx[t].state = "active" THEN <<Job("finish", t)>> ELSE <<>>)
  /\ stack' = Under
  /\ UNCHANGED <<memory, opens, req, disk, calls>>

-----------------------------------------------------------------------------
(* Microtasks.                                                             *)

Job1(do) == stack = <<>> /\ ~stopped /\ micro # <<>> /\ Head(micro).do = do
Rest == micro' = Tail(micro)

DrainJob ==
  /\ Job1("drain") \/ Job1("pushed")
  /\ Rest
  /\ LET t == Head(micro).n
     IN  /\ tx' = IF Job1("pushed") THEN [tx EXCEPT ![t].scheduled = FALSE] ELSE tx
         /\ stack' = IF Live(t) THEN <<Drain(t)>> ELSE <<>>
  /\ UNCHANGED <<memory, opens, req, disk, calls>>

Complete(t) == tx[t].queue = <<>>
StillFinishing(t) == tx
Again(t) == [tx EXCEPT ![t].state = "active"]
FinishJob ==
  /\ Job1("finish") /\ Rest
  /\ LET t == Head(micro).n
     IN  \/ /\ tx[t].state # "finishing"
            /\ UNCHANGED <<tx, stack, dirty>>
         \/ /\ tx[t].state = "finishing" /\ ~Complete(t)
            /\ tx' = Again(t)
            /\ stack' = <<Drain(t)>>
            /\ UNCHANGED dirty
         \/ /\ tx[t].state = "finishing" /\ Complete(t)
            /\ tx' = [tx EXCEPT ![t].state = "done", ![t].ended = "complete"]
            /\ dirty' = (dirty \/ Writes(t))
            /\ stack' = <<Script("complete", t)>>
  /\ UNCHANGED <<memory, opens, req, card, restarts, stopped, calls>>

AbortedJob ==
  /\ Job1("aborted") /\ Rest
  /\ tx' = [tx EXCEPT ![Head(micro).n].ended = "abort"]
  /\ stack' = <<Script("abort", Head(micro).n)>>
  /\ UNCHANGED <<memory, opens, req, disk, calls>>

GoJob ==
  /\ Job1("go") /\ Rest
  /\ stack' = <<Script("goes", 0)>>
  /\ UNCHANGED <<memory, opens, tx, req, disk, calls>>

DeleteJob ==
  /\ Job1("delete") /\ Rest
  /\ all' = 0
  /\ dirty' = TRUE
  /\ opens' = [opens EXCEPT ![Head(micro).n].told = "success"]
  /\ stack' = <<Script("handler", 0)>>
  /\ UNCHANGED <<heap, data, tx, req, card, restarts, stopped, calls>>

(* A database with no stores is one whose upgrade never finished: opened   *)
(* without a version it is as if it were not there.                        *)
Existed(o) == all # 0 /\ ~(opens[o].want = 0 /\ data[all].stores = Empty)
Old(o) == IF Existed(o) THEN data[all].version ELSE 0
Want(o) ==
  IF opens[o].want # 0 THEN opens[o].want ELSE IF Existed(o) THEN Old(o) ELSE 1

OpenTooOld(o) ==
  /\ Want(o) < Old(o)
  /\ opens' = [opens EXCEPT ![o].told = "error"]
  /\ stack' = <<Script("handler", 0)>>
  /\ micro' = Tail(micro)
  /\ UNCHANGED <<data, all, tx>>
OpenAsItIs(o) ==
  /\ Existed(o) /\ Want(o) = Old(o)
  /\ opens' = [opens EXCEPT ![o].told = "success", ![o].data = all]
  /\ stack' = <<Script("handler", 0)>>
  /\ micro' = Tail(micro)
  /\ UNCHANGED <<data, all, tx>>
(* In the store while its upgrade runs, for others that open it.           *)
OpenUpgrades(o) ==
  /\ Want(o) > Old(o)
  /\ LET d == IF Existed(o) THEN all ELSE Len(data) + 1
         objects == IF Existed(o) THEN data ELSE Append(data, NoCard)
     IN  /\ all' = d
         /\ data' = [objects EXCEPT ![d].version = Want(o)]
         /\ opens' = [opens EXCEPT ![o].data = d, ![o].existed = Existed(o),
                                   ![o].upgrade = Len(tx) + 1, ![o].before = Image]
         /\ tx' = Started([NewTx(d, {}, "versionchange", o) EXCEPT
                             !.names = IF Existed(o) THEN DOMAIN data[d].stores ELSE {},
                             !.had = IF Existed(o) THEN Values(d) ELSE Empty])
  /\ micro' = Append(Tail(micro), Job("drain", Len(tx) + 1))
  /\ stack' = <<Script("upgrade", o)>>
OpenJob ==
  /\ Job1("open")
  /\ LET o == Head(micro).n IN OpenTooOld(o) \/ OpenAsItIs(o) \/ OpenUpgrades(o)
  /\ UNCHANGED <<heap, req, disk, calls>>

(* The handler of an upgrade throws.                                       *)
UpgradeThrows ==
  /\ InScript /\ Top.is = "upgrade"
  /\ all' = IF opens[Top.n].existed THEN all ELSE 0
  /\ opens' = [opens EXCEPT ![Top.n].told = "error", ![Top.n].upgrade = 0]
  /\ tx' = [tx EXCEPT ![opens[Top.n].upgrade].open = 0]
  /\ stack' = Append(Under, Script("handler", 0))
  /\ UNCHANGED <<heap, data, req, micro, disk, calls>>

-----------------------------------------------------------------------------
(* The card, and the end of the page.                                      *)

(* The timer of the put-off write: a task.                                 *)
Flush ==
  /\ Idle /\ dirty
  /\ card' = Image /\ dirty' = FALSE
  /\ stopped' = FALSE
  /\ UNCHANGED <<memory, opens, tx, req, micro, stack, restarts, calls>>

(* A page that is left is closed without a write, as when the power goes;  *)
(* where in a turn it goes is all the same.  In a write it goes with the   *)
(* old file in place, the new one, or none (StorageArea).                  *)
Restarts(image) ==
  /\ restarts < MaxRestarts /\ restarts' = restarts + 1
  /\ card' = image /\ dirty' = FALSE
  /\ heap' = Objects(image.stores)
  /\ data' = IF image = NoCard THEN <<>>
             ELSE <<[version |-> image.version,
                     stores |-> [n \in DOMAIN image.stores |->
                                   StoreNumber(image.stores, n)]]>>
  /\ all' = IF image = NoCard THEN 0 ELSE 1
  /\ opens' = <<>> /\ tx' = <<>> /\ req' = <<>>
  /\ micro' = <<>> /\ stack' = <<>> /\ stopped' = FALSE
  /\ UNCHANGED calls
PageLeft == Idle /\ Restarts(card)
PowerLost == Idle /\ dirty /\ \E image \in {Image, NoCard} : Restarts(image)

(* What runs is killed, with all that called it: handlers, the requests    *)
(* that were not carried out or not told yet, listeners that were still to *)
(* be added.  When it was a microtask the others may stay where they are.  *)
Tears(t) ==
  \E i \in DOMAIN stack :
    \/ stack[i] \in {Drain(t), Script("complete", t), Script("abort", t)}
    \/ stack[i].is = "upgrade" /\ opens[stack[i].n].upgrade = t
Deafens(t) == \E i \in DOMAIN stack : stack[i].is = "upgrade" /\ opens[stack[i].n].upgrade = t
Carried == IF Top.is = "drain" /\ Live(Top.n) THEN {q \in DOMAIN tx[Top.n].queue : q = 1} ELSE {}
Kill ==
  /\ stack # <<>>
  /\ restarts < MaxRestarts /\ restarts' = restarts + 1 /\ Calls
  /\ \E q \in {0} \cup Carried :
       LET r == tx[Top.n].queue[q]
       IN  /\ req' = IF q = 0 THEN req ELSE [req EXCEPT ![r].told = "killed"]
           /\ heap' \in {heap} \cup (IF q = 0 THEN {} ELSE {[heap EXCEPT ![req[r].at] = Stored(r)]})
           /\ tx' = [t \in DOMAIN tx |->
                       [tx[t] EXCEPT !.cut = @ \/ Live(t), !.torn = @ \/ Tears(t),
                                     !.open = IF Deafens(t) THEN 0 ELSE @,
                                     !.queue = IF q # 0 /\ t = Top.n THEN Tail(@) ELSE @]]
  /\ stack' = <<>>
  /\ stopped' \in {FALSE, stack[1].is # "task" /\ micro # <<>>}
  /\ UNCHANGED <<data, all, opens, micro, card, dirty>>

Engine ==
  \/ Returns \/ \E t \in DOMAIN tx : Runs(t) \/ Drained(t)
  \/ DrainJob \/ FinishJob \/ AbortedJob \/ GoJob \/ DeleteJob \/ OpenJob

Next ==
  TaskBegins \/ Script1 \/ UpgradeThrows \/ Engine \/ Flush \/ Kill \/ PageLeft \/ PowerLost

Spec == Init /\ [][Next]_vars

-----------------------------------------------------------------------------
(* Properties.                                                             *)

\* Types: what every variable holds (idb.js, storage.js).
TypeOK ==
  /\ \A i \in DOMAIN heap : heap[i].next \in Nat /\ DOMAIN heap[i].recs \subseteq Nat
  /\ \A d \in DOMAIN data : data[d].version \in 0..MaxVersion /\ DOMAIN data[d].stores \subseteq Names
  /\ all \in 0..Len(data)
  /\ \A o \in DOMAIN opens : opens[o].told \in {"pending", "success", "error"}
  /\ \A t \in DOMAIN tx : tx[t].state \in {"active", "finishing", "done"}
  /\ \A r \in DOMAIN req : req[r].tx \in DOMAIN tx /\ req[r].at \in DOMAIN heap
  /\ dirty \in BOOLEAN

\* The requests of a transaction are answered in the order they were made in,
\* whoever has its queue drained: its own job, a push, commit() in a handler.
AnsweredInOrder == \A r, q \in DOMAIN req :
  r < q /\ req[r].tx = req[q].tx /\ req[q].told # "pending" => req[r].told # "pending"

\* A transaction completes when all it was asked for is done, and well: nothing
\* is dropped by the turn it is given to ask for more.  Only one in the midst of
\* which a script was killed may lack the request that met with it.
CompleteIsAll == \A r \in DOMAIN req :
  tx[req[r].tx].ended = "complete" => req[r].told = "success" \/ tx[req[r].tx].torn

\* A transaction that was the only one to write leaves, when it is abandoned, its
\* stores as it found them: records, and the next key.
AloneStays ==
  \A t \in DOMAIN tx :
    tx[t].alone /\ Writes(t) /\ Live(t) /\ tx[t].mode = "readwrite"
    /\ t \in DOMAIN tx' /\ tx'[t].ended = "aborting" =>
      \A n \in tx[t].names \cap DOMAIN data[tx[t].data].stores :
        heap'[data'[tx[t].data].stores[n]] = tx[t].had[n]

\* What the put-off write saves of a transaction, the power going in the midst of
\* it or not, is never half of it, unless a script was killed while it was under
\* way: its microtasks then wait for the next task, and the write may be that
\* task.  (A page that dispatches pagehide itself has what there is written where
\* it stands.)
CardStays ==
  card' # card /\ stack = <<>> =>
    \A t \in DOMAIN tx : Live(t) /\ Writes(t) => tx[t].cut

\* When a turn is over nothing is left hanging in it: every open is answered, every
\* transaction has ended in an event, and every request of one that was not
\* abandoned is answered; but for the one transaction, and the open it upgrades,
\* whose own work was killed.  Those that only waited meanwhile end all the same.
NothingLeftHanging ==
  stack = <<>> /\ micro = <<>> =>
    /\ \A o \in DOMAIN opens :
         opens[o].told = "pending" => opens[o].upgrade # 0 /\ tx[opens[o].upgrade].torn
    /\ \A t \in DOMAIN tx : tx[t].ended \in {"complete", "abort"} \/ tx[t].torn
    /\ \A r \in DOMAIN req :
         req[r].told = "pending" => tx[req[r].tx].ended = "abort" \/ tx[req[r].tx].torn

\* So what is asked is answered: the requests in order, all of them, and the
\* transaction after them.
Answered == TypeOK /\ AnsweredInOrder /\ CompleteIsAll /\ NothingLeftHanging

\* (Does not hold.)  "An upgrade that fails should leave nothing": the version and
\* the stores are what they were.
FailedUpgradeLeavesNothing ==
  [][\A o \in DOMAIN opens :
       opens[o].upgrade # 0 /\ opens[o].told = "pending"
       /\ o \in DOMAIN opens' /\ opens'[o].told = "error" => Image' = opens[o].before]_vars
=============================================================================
