------------------------------- MODULE Cursors -------------------------------
(***************************************************************************)
(* A store of IndexedDB and its index while a transaction's requests are   *)
(* answered one after the other (idb.js): records put, added and deleted,  *)
(* keys the store makes, cursors that walk what was found when they were   *)
(* opened while others, and requests, change what they walk over, and the  *)
(* transaction abandoned in their midst.                                   *)
(*                                                                         *)
(* Records are those of StoredValues, with a number: what the store holds  *)
(* are objects, and a cursor knows one from another with the same key.     *)
(* v is the index's key in the value.  The index is of keyPath v.  The     *)
(* page asks in the handlers of what was answered, or before any was.      *)
(***************************************************************************)
EXTENDS StoredValues

CONSTANTS
  MaxKey, MaxValue,   \* keys and index keys are numbers up to these
  Unique,             \* of the index
  Directions,         \* those the page opens cursors with
  MaxAsks, MaxCursors \* bounds: what is asked, and the cursors

VARIABLES
  records, nextKey,   \* of the store
  before,             \* both of them as they were: what the transaction keeps
  was,                \* ghost: what they were
  cursors, queue,
  made, asks

vars == <<records, nextKey, before, was, cursors, queue, made, asks>>

KeysAsked == {N(i) : i \in 1..MaxKey}
ValuesPut == {None} \cup {N(i) : i \in 1..MaxValue}
Record(k, v, n) == [k |-> k, v |-> v, n |-> n]
Image(recs) == {<<r.k, r.v>> : r \in ToSet(recs)}

Init ==
  /\ records \in {<<>>, <<Record(N(1), None, 1), Record(N(2), N(1), 2)>>}
  /\ made = Len(records) /\ nextKey = made + 1
  /\ before = [records |-> records, nextKey |-> nextKey] /\ was = [image |-> Image(records), nextKey |-> nextKey]
  /\ cursors = <<>> /\ queue = <<>> /\ asks = 0

-----------------------------------------------------------------------------
(* What is read of the store, and of the index.                            *)

HitsOf(source, range, desc) ==
  IF source = "store" THEN StoreHits(records, range, desc)
  ELSE IndexHits(records, FALSE, range, desc)
First(hits, Of(_)) == IF hits = <<>> THEN None ELSE Of(hits[1])
Get(source, range) == First(HitsOf(source, range, FALSE), LAMBDA h : h.rec)
\* Mutant: the index's own key is answered.
GetKeyOfIndex(source, range) == First(HitsOf(source, range, FALSE), LAMBDA h : h.key)
GetKey(source, range) == First(HitsOf(source, range, FALSE), LAMBDA h : h.primary)
Listed(source, range, desc, count) == Counted(HitsOf(source, range, desc), count)
Told(hits, Of(_)) == [i \in DOMAIN hits |-> Of(hits[i])]
GetAll(source, range, count) == Told(Listed(source, range, FALSE, count), LAMBDA h : h.rec)
GetAllKeys(source, range, count) == Told(Listed(source, range, FALSE, count), LAMBDA h : h.primary)
GetAllRecords(source, range, desc, count) ==
  Told(Listed(source, range, desc, count), LAMBDA h : <<h.key, h.primary, h.rec>>)
Count(source, range) == Len(HitsOf(source, range, FALSE))

-----------------------------------------------------------------------------
(* What the page asks.  A cursor's change is of where it is when it is     *)
(* asked.                                                                  *)

Ask(request) ==
  /\ asks < MaxAsks /\ asks' = asks + 1
  /\ queue' = Append(queue, request)
  /\ UNCHANGED <<records, nextKey, before, was, cursors, made>>

NoKey == <<"no key">>
AskPut == \E op \in {"put", "add"}, k \in KeysAsked \cup {NoKey}, v \in ValuesPut : Ask(<<op, k, v>>)
AskDelete == \E range \in {All0} \cup {Only(k) : k \in KeysAsked} : Ask(<<"delete", range>>)
AskClear == Ask(<<"clear">>)
AskCursor ==
  /\ Len(cursors) + Cardinality({i \in DOMAIN queue : queue[i][1] = "open"}) < MaxCursors
  /\ \E source \in {"store", "index"}, direction \in Directions, range \in {All0, LowerBound(N(2), FALSE)} :
       Ask(<<"open", source, range, direction>>)
AskOn ==
  \E c \in DOMAIN cursors :
    \/ \E key \in {None} \cup KeysAsked : Ask(<<"continue", c, key>>)
    \/ Ask(<<"advance", c, 2>>)
    \/ \E key, primary \in KeysAsked : Ask(<<"continuePrimaryKey", c, key, primary>>)
AskChange ==
  \E c \in DOMAIN cursors :
    \/ \E v \in ValuesPut : Ask(<<"update", c, cursors[c].at, v>>)
    \/ Ask(<<"erase", c, cursors[c].at>>)

-----------------------------------------------------------------------------
(* The transaction.  What fails takes it with it.                          *)

Anew(recs, next) ==
  /\ before' = [records |-> recs, nextKey |-> next] /\ was' = [image |-> Image(recs), nextKey |-> next]
  /\ cursors' = <<>> /\ queue' = <<>>
Abandoned ==
  /\ records' = before.records /\ nextKey' = before.nextKey
  /\ Anew(before.records, before.nextKey)
  /\ UNCHANGED <<made, asks>>

(* There is nothing left to do, and another transaction begins.            *)
Complete ==
  /\ queue = <<>> /\ (cursors # <<>> \/ before.records # records)
  /\ Anew(records, nextKey)
  /\ UNCHANGED <<records, nextKey, made, asks>>
Abort == (queue # <<>> \/ cursors # <<>>) /\ Abandoned

(* The first in the queue.                                                 *)
Turn(ops) == queue # <<>> /\ Head(queue)[1] \in ops
Answered == queue' = Tail(queue) /\ UNCHANGED <<was, asks>>
KeepsStore == UNCHANGED <<records, nextKey, before, made>>

(* A number no less than the next key the store makes moves that on.       *)
\* Mutant: a key that is given does not count.
NotRaised(k, next) == next
Raised(k, next) == IF k[2] >= next THEN k[2] + 1 ELSE next
(* What is there under the key gives way.                                  *)
\* Mutant: what is there under the key stays.
PutBeside(rec) == LET at == FindAt(records, rec.k) IN InsertAt(records, Spot(at), rec)
PutIn(rec) == Stored(records, rec)
RunPut ==
  /\ Turn({"put", "add"})
  /\ LET op == Head(queue)[1]
         k == IF Head(queue)[2] = NoKey THEN N(nextKey) ELSE Head(queue)[2]
         rec == Record(k, Head(queue)[3], made + 1)
     IN  IF (op = "add" /\ Taken(records, rec)) \/ (Unique /\ SpoilsUnique(records, rec))
         THEN Abandoned
         ELSE /\ records' = PutIn(rec)
              /\ nextKey' = IF Head(queue)[2] = NoKey THEN nextKey + 1 ELSE Raised(k, nextKey)
              /\ made' = made + 1
              /\ Answered /\ UNCHANGED <<before, cursors>>
RunDelete ==
  /\ Turn({"delete", "clear"})
  /\ records' = IF Head(queue)[1] = "clear" THEN <<>> ELSE Deleted(records, Head(queue)[2])
  /\ Answered /\ UNCHANGED <<nextKey, before, cursors, made>>

(* own: ghost, the records it found or has put in their place.             *)
OpenCursor ==
  /\ Turn({"open"}) /\ Answered /\ KeepsStore
  /\ LET direction == Head(queue)[4]
         hits == HitsOf(Head(queue)[2], Head(queue)[3], direction \in {"prev", "prevunique"})
         cur == Opened(hits, direction \in {"nextunique", "prevunique"})
     IN  IF Ended(cur) THEN UNCHANGED cursors
         ELSE cursors' = Append(cursors, [hits |-> cur.hits, at |-> cur.at, own |-> {h.rec.n : h \in ToSet(cur.hits)}])
GoOn ==
  /\ Turn({"continue", "advance", "continuePrimaryKey"}) /\ Answered /\ KeepsStore
  /\ LET request == Head(queue)
         step(cur) == CASE request[1] = "advance" -> Advance(cur, request[3])
                        [] request[1] = "continuePrimaryKey" -> ContinuePrimaryKey(cur, request[3], request[4])
                        [] request[3] = None -> Stepped(cur, 1)
                        [] OTHER -> ContinueKey(cur, request[3])
     IN  cursors' = [cursors EXCEPT ![request[2]] = step(@)]

(* The place of the record a hit is of.  It is looked for itself: one that *)
(* was put since in its place is another.                                  *)
\* Mutant: the record is known by its key.
PlaceOfKey(rec) == {i \in DOMAIN records : records[i].k = rec.k}
PlaceOf(rec) == {i \in DOMAIN records : records[i] = rec}
IsGone(request) == request[3] > Len(cursors[request[2]].hits)

(* A new record takes its place: what the transaction keeps has the old.   *)
\* Mutant: the record itself is changed.
ChangedInPlace(rec, new) == [before EXCEPT !.records = [i \in DOMAIN @ |-> IF @[i] = rec THEN new ELSE @[i]]]
KeptBefore(rec, new) == before
Update ==
  /\ Turn({"update"})
  /\ IF IsGone(Head(queue)) THEN Abandoned
     ELSE LET c == Head(queue)[2]
              at == Head(queue)[3]
              old == cursors[c].hits[at].rec
              new == Record(old.k, Head(queue)[4], made + 1)
          IN  /\ records' = [i \in DOMAIN records |-> IF i \in PlaceOf(old) THEN new ELSE records[i]]
              /\ before' = KeptBefore(old, new)
              /\ cursors' = [cursors EXCEPT ![c].hits[at].rec = new, ![c].own = @ \cup {new.n}]
              /\ made' = made + 1
              /\ Answered /\ UNCHANGED nextKey
Erase ==
  /\ Turn({"erase"})
  /\ IF IsGone(Head(queue)) THEN Abandoned
     ELSE LET old == cursors[Head(queue)[2]].hits[Head(queue)[3]].rec
              places == PlaceOf(old)
          IN  /\ records' = SelectSeq(records, LAMBDA r : \A i \in places : records[i] # r)
              /\ Answered /\ UNCHANGED <<nextKey, before, cursors, made>>

Asks == AskPut \/ AskDelete \/ AskClear \/ AskCursor \/ AskOn \/ AskChange
Next ==
  \/ Asks \/ Complete \/ Abort
  \/ RunPut \/ RunDelete \/ OpenCursor \/ GoOn \/ Update \/ Erase

Spec == Init /\ [][Next]_vars

-----------------------------------------------------------------------------
(* Properties.                                                             *)

\* Types: records are in the order of their keys, each once, and a cursor's hits
\* are of records (idb.js).
TypeOK ==
  /\ Sorted(records) /\ Sorted(before.records)
  /\ \A i, j \in DOMAIN records : records[i].n = records[j].n => i = j
  /\ \A r \in ToSet(records) : r.k[1] = "number" /\ r.v \in ValuesPut /\ r.n \in 1..made
  /\ \A c \in DOMAIN cursors : cursors[c].at \in Nat /\ \A h \in ToSet(cursors[c].hits) : h.rec.k = h.primary

\* "Records are replaced, never changed in place, so a copy of the list is enough
\* to put back" (IDBTransaction): what the transaction keeps is what there was,
\* whatever puts, deletes and cursors have done since.
CopyIsEnough == Image(before.records) = was.image /\ before.nextKey = was.nextKey

\* A key the store makes is of no record, however keys were given, records
\* deleted and transactions abandoned before (_key, _store).
MadeKeyIsFree == \A r \in ToSet(records) \cup ToSet(before.records) : r.k[2] < nextKey

\* What a cursor changes or deletes is what it found, or has itself put there since:
\* never a record that was put in its place, by a request or by another cursor
\* (IDBCursor.update, delete).
KeepsToItsOwn ==
  (Update \/ Erase) /\ ~IsGone(Head(queue)) =>
    \A r \in ToSet(records) : r.n \notin cursors[Head(queue)[2]].own => r \in ToSet(records')

\* What each other way of asking answers, where all are the records.
OtherWays(source, range, all) ==
  LET n == Len(all)
      keyOf(r) == IF source = "store" THEN r.k ELSE r.v
  IN  /\ ToSet(all) = {r \in ToSet(records) : keyOf(r) # None /\ Includes(range, keyOf(r))}
      /\ Count(source, range) = n /\ n = Cardinality(ToSet(all))
      /\ GetAllKeys(source, range, 0) = [i \in 1..n |-> all[i].k]
      /\ GetAll(source, range, 1) = SubSeq(all, 1, IF n > 0 THEN 1 ELSE 0)
      /\ GetKey(source, range) = IF n = 0 THEN None ELSE all[1].k
      /\ Get(source, range) = IF n = 0 THEN None ELSE all[1]
      /\ Reverse(GetAllRecords(source, range, TRUE, 0)) = [i \in 1..n |-> <<keyOf(all[i]), all[i].k, all[i]>>]

\* What is asked of the store or of the index one way is what it answers another
\* way, and what there is: each record in the range once, by key; the first of
\* them; its own key, and not the index's; no more than were asked for; and back
\* to front for those who ask so (get, getKey, getAll, getAllKeys, count,
\* getAllRecords).
ReadsAgree ==
  \A source \in {"store", "index"} : \A range \in {All0, LowerBound(N(2), FALSE)} \cup {Only(k) : k \in KeysAsked} :
    OtherWays(source, range, GetAll(source, range, 0))
=============================================================================
