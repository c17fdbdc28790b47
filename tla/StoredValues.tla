--------------------------- MODULE StoredValues ----------------------------
(***************************************************************************)
(* What IndexedDB and the stores of storage.js keep.  Records: the order of*)
(* keys, the records kept in it and found by halving, ranges, what an index*)
(* sees of a store, and how a cursor steps over what it was opened on.  A key*)
(* is <<type, value>>: numbers and dates have a number, strings and binaries a*)
(* sequence of units, arrays a sequence of keys.                           *)
(*                                                                         *)
(* The two copies storage.js makes of a value: the stored form, a table of *)
(* tagged entries that refer to each other by number (encode, decode), and *)
(* the copy of structuredClone and postMessage (clone).  A value is a      *)
(* primitive, or <<"ref", n>> to object n of a graph; an object has a kind,*)
(* and what it holds in order.  A view holds its buffer.  What cannot be   *)
(* carried is of kind "function" or "node".                                *)
(***************************************************************************)
EXTENDS Integers, Sequences, FiniteSets, SequencesExt

CONSTANTS MaxRecords

Types == <<"number", "date", "string", "binary", "array">>
TypeIndex(k) == CHOOSE i \in DOMAIN Types : Types[i] = k[1]
Signum(i, j) == IF i < j THEN -1 ELSE IF i > j THEN 1 ELSE 0

RECURSIVE CmpKeys(_, _), CmpUnits(_, _), CmpParts(_, _)
(* Units one by one, then the shorter first.                               *)
CmpUnits(x, y) ==
  IF x = <<>> \/ y = <<>> THEN Signum(Len(x), Len(y))
  ELSE IF x[1] # y[1] THEN Signum(x[1], y[1]) ELSE CmpUnits(Tail(x), Tail(y))
CmpParts(x, y) ==
  IF x = <<>> \/ y = <<>> THEN Signum(Len(x), Len(y))
  ELSE LET c == CmpKeys(x[1], y[1]) IN IF c # 0 THEN c ELSE CmpParts(Tail(x), Tail(y))
CmpKeys(a, b) ==
  IF TypeIndex(a) # TypeIndex(b) THEN Signum(TypeIndex(a), TypeIndex(b))
  ELSE CASE a[1] \in {"number", "date"} -> Signum(a[2], b[2])
         [] a[1] \in {"string", "binary"} -> CmpUnits(a[2], b[2])
         [] OTHER -> CmpParts(a[2], b[2])

-----------------------------------------------------------------------------
(* Ranges.  A bound that is not there is None.                             *)

None == <<"undefined">>
Range0(lower, upper, lowerOpen, upperOpen) ==
  [lower |-> lower, upper |-> upper, lowerOpen |-> lowerOpen, upperOpen |-> upperOpen]
Only(k) == Range0(k, k, FALSE, FALSE)
LowerBound(k, open) == Range0(k, None, open, TRUE)
UpperBound(k, open) == Range0(None, k, TRUE, open)
Bounds(l, u, lo, uo) == Range0(l, u, lo, uo)
MayBound(l, u) == CmpKeys(l, u) <= 0
All0 == Range0(None, None, FALSE, FALSE)

AboveLower(range, k) ==
  range.lower # None =>
    LET c == CmpKeys(k, range.lower) IN c > 0 \/ (c = 0 /\ ~range.lowerOpen)
BelowUpper(range, k) ==
  range.upper # None =>
    LET c == CmpKeys(k, range.upper) IN c < 0 \/ (c = 0 /\ ~range.upperOpen)
Includes(range, k) == AboveLower(range, k) /\ BelowUpper(range, k)

-----------------------------------------------------------------------------
(* The records of a store, [k, v], by key.                                 *)

RECURSIVE Halve(_, _, _, _), HalveLower(_, _, _, _, _)
(* The position of a key counted from 0, or -(where it belongs + 1).       *)
Halve(recs, key, lo, hi) ==
  IF lo > hi THEN -(lo + 1)
  ELSE LET mid == (lo + hi) \div 2
           c == CmpKeys(recs[mid + 1].k, key)
       IN  IF c = 0 THEN mid
           ELSE IF c < 0 THEN Halve(recs, key, mid + 1, hi) ELSE Halve(recs, key, lo, mid - 1)
FindAt(recs, key) == Halve(recs, key, 0, Len(recs) - 1)

GoesRight(c, open) == c < 0 \/ (c = 0 /\ open)
HalveLower(recs, key, open, lo, hi) ==
  IF lo >= hi THEN lo
  ELSE LET mid == (lo + hi) \div 2
       IN  IF GoesRight(CmpKeys(recs[mid + 1].k, key), open)
           THEN HalveLower(recs, key, open, mid + 1, hi)
           ELSE HalveLower(recs, key, open, lo, mid)
LowerAt(recs, key, open) == HalveLower(recs, key, open, 0, Len(recs))

(* From the lower end, found by halving, on to the first above the upper.  *)
InRange(recs, range, desc) ==
  LET first == IF range.lower = None THEN 0 ELSE LowerAt(recs, range.lower, range.lowerOpen)
      past == {i \in first..(Len(recs) - 1) : ~BelowUpper(range, recs[i + 1].k)}
      last == IF past = {} THEN Len(recs) ELSE CHOOSE i \in past : \A j \in past : i <= j
      out == SubSeq(recs, first + 1, last)
  IN  IF desc THEN Reverse(out) ELSE out

(* A record is put where its key belongs; added, the key must be free, and *)
(* so must its value in every index that is unique.                        *)
Spot(at) == IF at >= 0 THEN at + 1 ELSE -at
Stored(recs, rec) ==
  LET at == FindAt(recs, rec.k)
  IN  IF at >= 0 THEN [recs EXCEPT ![at + 1] = rec] ELSE InsertAt(recs, Spot(at), rec)
Taken(recs, rec) == FindAt(recs, rec.k) >= 0
SpoilsUnique(recs, rec) ==
  rec.v # None /\ \E i \in DOMAIN recs :
    i # FindAt(recs, rec.k) + 1 /\ recs[i].v # None /\ CmpKeys(recs[i].v, rec.v) = 0
Deleted(recs, range) ==
  LET hits == ToSet(InRange(recs, range, FALSE)) IN SelectSeq(recs, LAMBDA r : r \notin hits)
Counted(hits, count) == IF count > 0 THEN SubSeq(hits, 1, IF count < Len(hits) THEN count ELSE Len(hits)) ELSE hits

-----------------------------------------------------------------------------
(* An index: what it is told of each record, in the order of its own keys. *)
(* v is the index's key of a record.                                       *)

EntriesOf(rec, multi) ==
  IF rec.v = None THEN <<>>
  ELSE IF multi /\ rec.v[1] = "array"
       THEN [i \in DOMAIN rec.v[2] |-> [key |-> rec.v[2][i], primary |-> rec.k, rec |-> rec]]
       ELSE <<[key |-> rec.v, primary |-> rec.k, rec |-> rec]>>
Before(a, b) ==
  LET c == CmpKeys(a.key, b.key) IN c < 0 \/ (c = 0 /\ CmpKeys(a.primary, b.primary) < 0)
IndexHits(recs, multi, range, desc) ==
  LET all == FlattenSeq([i \in DOMAIN recs |-> EntriesOf(recs[i], multi)])
      out == SortSeq(SelectSeq(all, LAMBDA h : Includes(range, h.key)), Before)
  IN  IF desc THEN Reverse(out) ELSE out
StoreHits(recs, range, desc) ==
  LET out == InRange(recs, range, desc)
  IN  [i \in DOMAIN out |-> [key |-> out[i].k, primary |-> out[i].k, rec |-> out[i]]]

(* A cursor: its hits, fixed when it was opened, and where in them it is.  *)
(* One that goes down has them the other way round, but asks for keys no   *)
(* less than one all the same.                                             *)
FirstOfEach(hits) ==
  LET first == {i \in DOMAIN hits : \A j \in 1..(i - 1) : CmpKeys(hits[j].key, hits[i].key) # 0}
  IN  [n \in 1..Cardinality(first) |-> hits[CHOOSE i \in first : Cardinality({j \in first : j <= i}) = n]]
Stepped(cur, n) == [cur EXCEPT !.at = @ + n]
Opened(hits, unique) == [hits |-> IF unique THEN FirstOfEach(hits) ELSE hits, at |-> 1]
Ended(cur) == cur.at > Len(cur.hits)
Advance(cur, n) == Stepped(cur, n)
SkipTo(cur, Reached(_)) ==
  LET on == {i \in (cur.at + 1)..Len(cur.hits) : Reached(cur.hits[i])}
  IN  IF on = {} THEN Stepped([cur EXCEPT !.at = IF Ended(cur) THEN @ ELSE Len(cur.hits)], 1)
      ELSE [cur EXCEPT !.at = CHOOSE i \in on : \A j \in on : i <= j]
ContinueKey(cur, key) == SkipTo(cur, LAMBDA h : CmpKeys(h.key, key) >= 0)
ContinueBeyond(cur, key, primary) ==
  SkipTo(cur, LAMBDA h : LET c == CmpKeys(h.key, key)
                         IN  c > 0 \/ (c = 0 /\ CmpKeys(h.primary, primary) > 0))
ContinuePrimaryKey(cur, key, primary) ==
  SkipTo(cur, LAMBDA h : LET c == CmpKeys(h.key, key)
                         IN  c > 0 \/ (c = 0 /\ CmpKeys(h.primary, primary) >= 0))

-----------------------------------------------------------------------------
(* Key paths: the members of a value, one inside the other, that lead to   *)
(* its key; or several paths, whose keys are parts of one.  A value here   *)
(* is an object with its members, null, or a key.  In an object that has   *)
(* none a key is set, with the objects that are missing on the way.        *)

Null == <<"null">>
ObjectOf(members) == <<"object", members>>
Member(value, name) == IF name \in DOMAIN value[2] THEN value[2][name] ELSE None
WithMember(value, name, new) ==
  ObjectOf([m \in DOMAIN value[2] \cup {name} |-> IF m = name THEN new ELSE value[2][m]])

RECURSIVE KeyFromPath(_, _), SetKeyPath(_, _, _)
KeyFromPath(value, path) ==
  IF path = <<>> THEN value
  ELSE IF value[1] # "object" THEN None
  ELSE KeyFromPath(Member(value, Head(path)), Tail(path))
KeyFromPaths(value, paths) ==
  LET parts == [i \in DOMAIN paths |-> KeyFromPath(value, paths[i])]
  IN  IF None \in ToSet(parts) THEN None ELSE <<"array", parts>>

(* What is no object has no members to set, and the put fails.             *)
Blocked == <<"TypeError">>
SetKeyPath(value, path, key) ==
  IF value[1] # "object" THEN Blocked
  ELSE LET next == Member(value, Head(path))
           inner == IF Len(path) = 1 THEN key
                    ELSE SetKeyPath(IF next \in {None, Null} THEN ObjectOf(<<>>) ELSE next, Tail(path), key)
       IN  IF inner = Blocked THEN Blocked ELSE WithMember(value, Head(path), inner)

-----------------------------------------------------------------------------
(* The cases checked.                                                      *)

N(i) == <<"number", i>>
Parts == {<<>>, <<N(1)>>, <<N(1), N(2)>>, <<N(2)>>, <<<<"array", <<N(1)>>>>>>}
Keys == {N(i) : i \in {-1, 1, 2}} \cup {<<"date", i>> : i \in {0, 1}}
        \cup {<<t, s>> : t \in {"string", "binary"}, s \in {<<>>, <<1>>, <<1, 0>>, <<2>>}}
        \cup {<<"array", p>> : p \in Parts}
KeyCases == Keys \X Keys

Few == {N(1), N(2), <<"string", <<1>>>>, <<"array", <<N(1), N(2)>>>>}
Ordered(S) == SortSeq(SetToSeq(S), LAMBDA a, b : CmpKeys(a, b) < 0)
IndexKeys == {None, N(1), <<"array", <<N(2), N(1)>>>>}
SmallStores ==
  UNION {{[i \in 1..Cardinality(S) |-> [k |-> Ordered(S)[i], v |-> v[i]]] :
            v \in [1..Cardinality(S) -> IndexKeys]} :
         S \in {T \in SUBSET Few : Cardinality(T) <= MaxRecords}}
Ranges ==
  {All0} \cup {Only(k) : k \in Few}
  \cup {LowerBound(k, o) : k \in Few, o \in BOOLEAN} \cup {UpperBound(k, o) : k \in Few, o \in BOOLEAN}
  \cup {Bounds(l, u, o, p) : l \in {x \in Few : x # N(2)}, u \in Few, o \in BOOLEAN, p \in BOOLEAN}
LegalRanges == {r \in Ranges : r.lower = None \/ r.upper = None \/ MayBound(r.lower, r.upper)}
RecordCases == SmallStores \X LegalRanges

Names == {"a", "b"}
Paths == {<<n>> : n \in Names} \cup {<<n, m>> : n, m \in Names}
WithMembers(values) == {ObjectOf(f) : f \in UNION {[S -> values] : S \in SUBSET Names}}
PathCases == ({Null, N(1)} \cup WithMembers({Null, N(1)} \cup WithMembers({Null, N(1)}))) \X Paths

-----------------------------------------------------------------------------
(* What must be true of a case.                                            *)

\* Keys of every type and of both together are in one order: of two one is first
\* or they are the same key, and the order is that of a line (cmpKeys).
OneOrder(x) ==
  LET a == x[1]
      b == x[2]
  IN  /\ CmpKeys(a, b) = -CmpKeys(b, a)
      /\ (CmpKeys(a, b) = 0) = (a = b)
      /\ \A c \in Keys : CmpKeys(a, b) < 0 /\ CmpKeys(b, c) < 0 => CmpKeys(a, c) < 0

Sorted(recs) == \A i, j \in DOMAIN recs : i < j => CmpKeys(recs[i].k, recs[j].k) < 0

\* A range cut out by halving holds what looking at every record would have found,
\* in order, and in the other order when it is asked for (inRange).
RangeIsAll(x) ==
  LET hits == InRange(x[1], x[2], FALSE)
  IN  /\ ToSet(hits) = {r \in ToSet(x[1]) : Includes(x[2], r.k)}
      /\ Sorted(hits)
      /\ InRange(x[1], x[2], TRUE) = Reverse(hits)

\* However records are put, added and deleted, they stay in order with each key
\* once, and the others are left as they were (_store, findAt, delete).
StaysOrdered(x) ==
  /\ \A k \in Few :
       LET rec == [k |-> k, v |-> None]
           now == Stored(x[1], rec)
       IN  /\ Sorted(now)
           /\ ToSet(now) = {r \in ToSet(x[1]) : r.k # k} \cup {rec}
           /\ Taken(x[1], rec) = (\E r \in ToSet(x[1]) : r.k = k)
  /\ ToSet(Deleted(x[1], x[2])) = {r \in ToSet(x[1]) : ~Includes(x[2], r.k)}
  /\ Sorted(Deleted(x[1], x[2]))

\* An index answers with the records that have a key in the range, by that key and
\* then by their own, once for each item of an array (indexHits).
IndexIsTheStore(x) ==
  \A multi \in BOOLEAN :
    LET hits == IndexHits(x[1], multi, x[2], FALSE)
    IN  /\ ToSet(hits) = {h \in UNION {ToSet(EntriesOf(r, multi)) : r \in ToSet(x[1])} :
                            Includes(x[2], h.key)}
        /\ \A i \in 1..(Len(hits) - 1) :
             LET c == CmpKeys(hits[i].key, hits[i + 1].key)
             IN  c < 0 \/ (c = 0 /\ CmpKeys(hits[i].primary, hits[i + 1].primary) <= 0)

\* A store whose unique index was checked at every put never holds two records with
\* one index key (checkUnique).
UniqueStays(x) ==
  LET unique == \A r, q \in ToSet(x[1]) : r # q /\ r.v # None => r.v # q.v
  IN  unique => \A k \in Few, v \in IndexKeys :
        LET rec == [k |-> k, v |-> v]
        IN  SpoilsUnique(x[1], rec) =
              ~(\A r, q \in ToSet(Stored(x[1], rec)) : r # q /\ r.v # None => r.v # q.v)

\* Cursors, over a store or an index, each way.
Cursors(x, desc) == {Opened(StoreHits(x[1], x[2], desc), FALSE),
                     Opened(IndexHits(x[1], TRUE, x[2], desc), FALSE)}
Places(cur) == {[cur EXCEPT !.at = i] : i \in DOMAIN cur.hits}

\* Where a cursor goes when it is told two keys that it has, or one: at or past
\* there, past where it is, and over none that it could have gone to.
GoesTo(x) ==
  \A all \in Cursors(x, FALSE) : \A cur \in Places(all) : \A h \in ToSet(cur.hits) :
    LET c == ContinuePrimaryKey(cur, h.key, h.primary)
    IN  /\ ~Ended(c) => ~Before(c.hits[c.at], h)
        /\ \A i \in (cur.at + 1)..(c.at - 1) : i \in DOMAIN cur.hits => Before(cur.hits[i], h)
GoesToKey(x) ==
  \A all \in Cursors(x, FALSE) : \A cur \in Places(all) : \A k \in Few :
    LET c == ContinueKey(cur, k)
    IN  /\ ~Ended(c) => CmpKeys(k, c.hits[c.at].key) <= 0
        /\ \A i \in (cur.at + 1)..(c.at - 1) : i \in DOMAIN cur.hits => CmpKeys(k, cur.hits[i].key) > 0

\* A cursor that goes up, told where to go on, steps to the first of its hits at or
\* past there.  Each way it never goes back nor stays, and a unique one meets each
\* key once (continue, continuePrimaryKey, openCursor).  One that goes down looks,
\* as one that goes up does, for the first of the hits to come that is not below
\* the key it is told, and so stops at its next hit instead of going on to the key:
\* what its comment says of it, "skip to the first one at or past both keys", is
\* said here only of the cursors that go up.
CursorGoesOn(x) ==
  /\ GoesTo(x) /\ GoesToKey(x)
  /\ \A desc \in BOOLEAN :
       /\ \A all \in Cursors(x, desc) : \A cur \in Places(all) : \A h \in ToSet(cur.hits) :
            /\ ContinuePrimaryKey(cur, h.key, h.primary).at > cur.at
            /\ ContinueKey(cur, h.key).at > cur.at
       /\ LET hits == IndexHits(x[1], TRUE, x[2], desc)
              one == Opened(hits, TRUE).hits
          IN  /\ \A i, j \in DOMAIN one : i # j => one[i].key # one[j].key
              /\ {h.key : h \in ToSet(one)} = {h.key : h \in ToSet(hits)}

\* A key the store makes for a value that has none is read back from where it is
\* set, and is all that is set: what the value has elsewhere is what it had, and
\* several paths lead to what each leads to.  Or nothing is stored, where something
\* that is no object is in the way (keyFromPath, setKeyPath, _key).
MadeKeyIsRead(x) ==
  LET value == x[1]
      path == x[2]
      set == SetKeyPath(value, path, N(2))
      apart(q) == ~IsPrefix(q, path) /\ ~IsPrefix(path, q)
      blocking == {value} \cup {KeyFromPath(value, SubSeq(path, 1, n)) : n \in 1..(Len(path) - 1)}
  IN  KeyFromPath(value, path) = None =>
        IF value # Null /\ \A b \in blocking : b \in {None, Null} \/ b[1] = "object"
        THEN /\ KeyFromPath(set, path) = N(2)
             /\ \A q \in Paths : apart(q) => KeyFromPath(set, q) = KeyFromPath(value, q)
             /\ \A q \in Paths : KeyFromPath(value, q) # None =>
                  KeyFromPaths(set, <<path, q>>) = <<"array", <<N(2), KeyFromPath(set, q)>>>>
        ELSE set = Blocked

-----------------------------------------------------------------------------
Ref(n) == <<"ref", n>>
IsRef(v) == v[1] = "ref"
Refused == [root |-> <<"DataCloneError">>, table |-> <<>>]

-----------------------------------------------------------------------------
(* encode: objects are numbered as they are met, and met once.  The state  *)
(* of the walk is the objects seen, by number, and the table so far.       *)

Packed(seen, table, v, bad) == [seen |-> seen, table |-> table, v |-> v, bad |-> bad]
At(seen, n) == IF \E i \in DOMAIN seen : seen[i] = n
               THEN CHOOSE i \in DOMAIN seen : seen[i] = n ELSE 0

(* What is walked of an object: a view is stored as its bytes alone.       *)
Walked(o) == IF o.kind = "view" THEN <<>> ELSE o.holds
Kept(o) == IF o.kind = "view" THEN "bytes" ELSE o.kind

RECURSIVE Pack(_, _, _, _), PackAll(_, _, _, _, _)
Pack(g, v, seen, table) ==
  IF ~IsRef(v) THEN Packed(seen, table, v, FALSE)
  ELSE LET n == v[2]
           at == At(seen, n)
           slot == Len(table) + 1
       IN  IF g[n].kind = "function" THEN Packed(seen, table, v, TRUE)
           ELSE IF at # 0 THEN Packed(seen, table, Ref(at), FALSE)
           ELSE LET r == PackAll(g, Walked(g[n]), Append(seen, n), Append(table, <<>>), <<>>)
                IN  Packed(r.seen, [r.table EXCEPT ![slot] = [kind |-> Kept(g[n]), holds |-> r.v]],
                           Ref(slot), r.bad)
PackAll(g, vs, seen, table, done) ==
  IF vs = <<>> THEN Packed(seen, table, done, FALSE)
  ELSE LET r == Pack(g, vs[1], seen, table)
       IN  IF r.bad THEN r ELSE PackAll(g, Tail(vs), r.seen, r.table, Append(done, r.v))
Encode(g, root) ==
  LET r == Pack(g, root, <<>>, <<>>)
  IN  IF r.bad THEN Refused ELSE [root |-> r.v, table |-> r.table]

(* decode: an entry is built when it is first referred to, and what was    *)
(* built is kept before what it holds is rebuilt.                          *)
Rebuilt(built, heap, v) == [built |-> built, heap |-> heap, v |-> v]
RECURSIVE Take(_, _, _, _), TakeAll(_, _, _, _, _)
Take(table, v, built, heap) ==
  IF ~IsRef(v) THEN Rebuilt(built, heap, v)
  ELSE IF built[v[2]] # 0 THEN Rebuilt(built, heap, Ref(built[v[2]]))
  ELSE LET e == table[v[2]]
           new == Len(heap) + 1
           r == TakeAll(table, e.holds, [built EXCEPT ![v[2]] = new],
                        Append(heap, [kind |-> e.kind, holds |-> <<>>]), <<>>)
       IN  Rebuilt(r.built, [r.heap EXCEPT ![new].holds = r.v], Ref(new))
TakeAll(table, vs, built, heap, done) ==
  IF vs = <<>> THEN Rebuilt(built, heap, done)
  ELSE LET r == Take(table, vs[1], built, heap)
       IN  TakeAll(table, Tail(vs), r.built, r.heap, Append(done, r.v))
Decode(p) ==
  LET r == Take(p.table, p.root, [i \in DOMAIN p.table |-> 0], <<>>)
  IN  [root |-> r.v, graph |-> r.heap]

-----------------------------------------------------------------------------
(* clone: straight from one graph to another.  What a copy of an object is *)
(* is noted before what it holds is walked, or a value that refers to      *)
(* itself would be walked for ever; a view's buffer is copied once.        *)

UncloneableCode == {"function"}
Uncloneable == {"function", "node"}
CopyOf(map, n) == IF n \in DOMAIN map THEN map[n] ELSE 0
Noted(map, n, new) == [x \in DOMAIN map \cup {n} |-> IF x = n THEN new ELSE map[x]]

RECURSIVE Walk(_, _, _, _), WalkAll(_, _, _, _, _)
Walk(g, v, map, heap) ==
  IF ~IsRef(v) THEN [map |-> map, heap |-> heap, v |-> v, bad |-> FALSE]
  ELSE IF CopyOf(map, v[2]) # 0 THEN [map |-> map, heap |-> heap, v |-> Ref(CopyOf(map, v[2])), bad |-> FALSE]
  ELSE LET o == g[v[2]]
           new == Len(heap) + 1
           r == WalkAll(g, o.holds, Noted(map, v[2], new),
                        Append(heap, [kind |-> o.kind, holds |-> <<>>]), <<>>)
       IN  IF o.kind \in Uncloneable THEN [map |-> map, heap |-> heap, v |-> v, bad |-> TRUE]
           ELSE [map |-> r.map, heap |-> [r.heap EXCEPT ![new].holds = r.v], v |-> Ref(new), bad |-> r.bad]
WalkAll(g, vs, map, heap, done) ==
  IF vs = <<>> THEN [map |-> map, heap |-> heap, v |-> done, bad |-> FALSE]
  ELSE LET r == Walk(g, vs[1], map, heap)
       IN  IF r.bad THEN r ELSE WalkAll(g, Tail(vs), r.map, r.heap, Append(done, r.v))
Clone(g, root) ==
  LET r == Walk(g, root, <<>>, <<>>)
  IN  IF r.bad THEN [root |-> <<"DataCloneError">>, graph |-> <<>>]
      ELSE [root |-> r.v, graph |-> r.heap]

-----------------------------------------------------------------------------
(* The cases: graphs of three objects that refer to each other and to      *)
(* themselves.                                                             *)

Values == {<<"null">>, Ref(1), Ref(2), Ref(3)}
Holds == {<<>>} \cup {<<v>> : v \in Values} \cup {<<v, w>> : v \in {<<"null">>, Ref(1), Ref(2)}, w \in {Ref(2), Ref(3)}}
Objects == [kind : {"obj", "map"}, holds : Holds]
           \cup [kind : {"buffer", "function", "node"}, holds : {<<>>}]
           \cup [kind : {"view"}, holds : {<<Ref(3)>>}]
Wellformed(g) == \A i \in DOMAIN g : g[i].kind = "view" => g[3].kind = "buffer"
Graphs == {g \in {<<a, b, c>> : a \in {o \in Objects : o.kind = "obj" \/ o.kind = "map"},
                                b \in Objects,
                                c \in {o \in Objects : Len(o.holds) < 2}} : Wellformed(g)}

RECURSIVE Reaches(_, _)
Reaches(g, S) ==
  LET T == S \cup UNION {{v[2] : v \in {w \in ToSet(g[n].holds) : IsRef(w)}} : n \in S}
  IN  IF T = S THEN S ELSE Reaches(g, T)
Reached(g) == Reaches(g, {1})
Carries(g, bad) == \A n \in Reached(g) : g[n].kind \notin bad

(* One graph is the other with its objects under other numbers.            *)
SameShape(g, a, h, b) ==
  LET m == Reaches(g, {a[2]})
      k == Reaches(h, {b[2]})
  IN  \E f \in [m -> k] :
        /\ f[a[2]] = b[2]
        /\ \A x, y \in m : x # y => f[x] # f[y]
        /\ \A x \in m :
             /\ h[f[x]].kind = g[x].kind
             /\ Len(h[f[x]].holds) = Len(g[x].holds)
             /\ \A i \in DOMAIN g[x].holds :
                  h[f[x]].holds[i] = IF IsRef(g[x].holds[i]) THEN Ref(f[g[x].holds[i][2]])
                                     ELSE g[x].holds[i]

\* structuredClone gives a value of the same shape, cycles, shared objects and the
\* buffers views share included, or refuses it when some of it cannot be copied.
CloneIsSame(g) ==
  LET c == Clone(g, Ref(1))
  IN  IF Carries(g, {"function", "node"}) THEN SameShape(g, Ref(1), c.graph, c.root)
      ELSE c.root = <<"DataCloneError">>

\* What IndexedDB stores and reads back has the shape of what was put, but that
\* views come back each on a buffer of its own (encode, decode).
StoredIsSame(g) ==
  LET e == Encode(g, Ref(1))
      d == Decode(e)
      plain == [n \in DOMAIN g |-> [kind |-> Kept(g[n]), holds |-> Walked(g[n])]]
  IN  IF \E n \in Reaches(plain, {1}) : g[n].kind = "function" THEN e = Refused
      ELSE SameShape(plain, Ref(1), d.graph, d.root)
=============================================================================
