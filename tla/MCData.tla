------------------------------- MODULE MCData -------------------------------
(***************************************************************************)
(* What a page keeps on the card and what is computed for it, one at a     *)
(* time: `using' says which, and what the others are made of is not there. *)
(***************************************************************************)
EXTENDS Naturals

CONSTANTS Databases, MaxKey, MaxVersion, Ops, MaxCalls, MaxRestarts, Pages,
          AreaKeys, AreaValues, Areas, MaxStores, MaxEnds, MaxRecords,
          MaxMade, MaxValue, Unique, Directions, MaxAsks, MaxCursors

VARIABLES
  using,   \* whose turn it is
  v1, v2, v3, v4, v5, v6, v7, v8, v9, v10, v11, v12, v13   \* its variables, in its order, and Gone

vars == <<using, v1, v2, v3, v4, v5, v6, v7, v8, v9, v10, v11, v12, v13>>

Database == INSTANCE IndexedDB WITH
  Names <- Databases, heap <- v1, data <- v2, all <- v3, opens <- v4,
  tx <- v5, req <- v6, micro <- v7, stack <- v8, card <- v9, dirty <- v10,
  calls <- v11, restarts <- v12, stopped <- v13
Storage == INSTANCE StorageArea WITH
  MaxCalls <- MaxStores, Keys <- AreaKeys, Values <- AreaValues, page <- v1,
  stack <- v2, card <- v3, latest <- v4, behind <- v5, calls <- v6, ends <- v7
Walked == INSTANCE Cursors WITH
  MaxKey <- MaxMade, records <- v1, nextKey <- v2, before <- v3, was <- v4,
  cursors <- v5, queue <- v6, made <- v7, asks <- v8

Gone == "not there"

(* The variables from one of them on are not there; they stay so.          *)
None9 == v9 = Gone /\ v10 = Gone /\ v11 = Gone /\ v12 = Gone /\ v13 = Gone
None8 == v8 = Gone /\ None9
None2 == v2 = Gone /\ v3 = Gone /\ v4 = Gone /\ v5 = Gone /\ v6 = Gone /\
  v7 = Gone /\ None8
None1 == v1 = Gone /\ None2
Same1 == UNCHANGED <<v1, v2, v3, v4, v5, v6, v7, v8, v9, v10, v11, v12, v13>>
Same2 == UNCHANGED <<v2, v3, v4, v5, v6, v7, v8, v9, v10, v11, v12, v13>>
Same8 == UNCHANGED <<v8, v9, v10, v11, v12, v13>>
Same9 == UNCHANGED <<v9, v10, v11, v12, v13>>

-----------------------------------------------------------------------------
(* Cases: what keeps nothing, on every case of a bounded set.              *)

Stored == INSTANCE StoredValues
Dates == INSTANCE Calendars
Figures == INSTANCE Numbers

Of(family) == using = "cases" /\ v1[1] = family

CaseInit == v1 \in {"none"} \X {"keys", "records", "paths", "graph", "dates",
    "zones", "offsets", "written", "ranges", "hash", "patterns", "lists",
    "units", "durations", "rounding", "digits", "shown", "spans", "signs",
    "operands", "groups"}
CaseNext ==
  /\ v1[1] = "none"
  /\ LET is(family, cases) == v1[2] = family /\ \E x \in cases : v1' = <<family, x>>
     IN  \/ is("keys", Stored!KeyCases)
         \/ is("records", Stored!RecordCases)
         \/ is("paths", Stored!PathCases)
         \/ is("graph", Stored!Graphs)
         \/ is("dates", Dates!Cases)
         \/ is("zones", Dates!ZoneCases)
         \/ is("offsets", Dates!OffsetCases)
         \/ is("written", Dates!WrittenCases)
         \/ is("ranges", Dates!RangeCases)
         \/ is("hash", Dates!HashCases)
         \/ is("patterns", Dates!PatternCases)
         \/ is("lists", Figures!ListCases)
         \/ is("units", Figures!OptionCases)
         \/ is("durations", Figures!DurationCases)
         \/ is("rounding", Figures!RoundCases)
         \/ is("digits", Figures!DigitCases)
         \/ is("shown", Figures!ShownCases)
         \/ is("spans", Figures!RangeCases)
         \/ is("signs", Figures!Patterns)
         \/ is("operands", Figures!OperandCases)
         \/ is("groups", Figures!GroupCases)

Init ==
  \/ using = "database" /\ Database!Init
  \/ using = "area" /\ Storage!Init /\ None8
  \/ using = "cursor" /\ Walked!Init /\ None9
  \/ using = "cases" /\ CaseInit /\ None2

Next ==
  /\ UNCHANGED using
  /\ \/ using = "database" /\ Database!Next
     \/ using = "area" /\ Storage!Next /\ Same8
     \/ using = "cursor" /\ Walked!Next /\ Same9
     \/ using = "cases" /\ CaseNext /\ Same2

Spec == Init /\ [][Next]_vars

-----------------------------------------------------------------------------
(* The properties are those of the modules, each of its own use.           *)

\* StoredValues: keys are in one order; a range cut out by halving is what it
\* takes in; records stay in the order of their keys, each once; an index
\* answers what looking through the store would, and a put to a unique one is
\* refused when it would not stay so; a cursor that goes up goes on to where
\* it is told, and none goes back; a key the store makes is read back from
\* the value.  Cursors: what a transaction keeps of a store is what there
\* was; a key the store makes is of no record; what is asked of a store one
\* way is what it answers another.
RecordsFound ==
  /\ using = "cursor" => Walked!TypeOK /\ Walked!CopyIsEnough /\
       Walked!MadeKeyIsFree /\ Walked!ReadsAgree
  /\ Of("keys") => Stored!OneOrder(v1[2])
  /\ Of("records") => Stored!RangeIsAll(v1[2]) /\ Stored!StaysOrdered(v1[2])
       /\ Stored!IndexIsTheStore(v1[2]) /\ Stored!UniqueStays(v1[2]) /\
       Stored!CursorGoesOn(v1[2])
  /\ Of("paths") => Stored!MadeKeyIsRead(v1[2])
\* StoredValues: a copy has the shape of its value, or is refused; so has
\* what is stored and read back.  Calendars: days, months and years follow
\* on, in every calendar; a week is in one year; and a year is related to the
\* Gregorian one it is of. Zones: each change of offset is found from both
\* sides, and an offset is read as written. Ranges: two dates are told apart
\* wherever the formatter tells dates apart. Patterns: one shows what was
\* asked for, each field once, and nothing else. Numbers: a list holds all it
\* is made of, and a duration is written whole, once.  Rounding is what its
\* name says; the digits kept are those asked for; the exponent a compact
\* number is written with is the one its digits are of; a range reads as its
\* two numbers; no number reads as one of another sign, and the plural chosen
\* is that of what is shown.
ValuesRight ==
  /\ Of("graph") => Stored!CloneIsSame(v1[2]) /\ Stored!StoredIsSame(v1[2])
  /\ Of("dates") => Dates!CalendarsAgree(v1[2])
  /\ Of("zones") => Dates!ZonesAgree(v1[2])
  /\ Of("offsets") => Dates!CustomReadsBack(v1[2])
  /\ Of("written") => Dates!WrittenWhole(v1[2])
  /\ Of("ranges") => Dates!RangesTold(v1[2])
  /\ Of("hash") => Dates!AllFound(v1[2])
  /\ Of("patterns") => Dates!AllShown(v1[2])
  /\ Of("lists") => Figures!ListedInOrder(v1[2])
  /\ Of("units") => Figures!OptionsAgree(v1[2])
  /\ Of("durations") => Figures!WrittenOnce(v1[2])
  /\ Of("rounding") => Figures!RoundsRight(v1[2])
  /\ Of("digits") => Figures!OptionsSettle(v1[2])
  /\ Of("shown") => Figures!ExponentsAgree(v1[2])
  /\ Of("spans") => Figures!RangesRead(v1[2])
  /\ Of("signs") => Figures!SignsDiffer(v1[2])
  /\ Of("operands") => Figures!OperandsAgree(v1[2]) /\
       Figures!CategoryFits(v1[2])
  /\ Of("groups") => Figures!GroupsWhole(v1[2])
\* IndexedDB: what is asked of a database is answered, the requests of a
\* transaction in order and the transaction after them; one completes only
\* when all it was asked for is done; and nothing hangs but what a killed
\* script was in the midst of.
Answered ==
  /\ using = "database" => Database!Answered
\* StorageArea: no put-off write is forgotten; when none is put off the card
\* has what was stored; a view kept by the events of localStorage alone is in
\* step.
StorageKept ==
  /\ using = "area" => Storage!TypeOK /\ Storage!NoWriteForgotten /\
       Storage!CardCatchesUp /\ Storage!ViewsInStep
\* IndexedDB: a transaction that was the only one to write leaves, when it is
\* abandoned, its stores as it found them.
AloneIsAtomic ==
  [][/\ using = "database" => Database!AloneStays]_vars
\* IndexedDB: what the put-off write saves is never half of a transaction,
\* unless a script was killed while it was under way.
CardIsWhole ==
  [][/\ using = "database" => Database!CardStays]_vars
\* Cursors: a cursor changes and deletes what it found, and never what was
\* put in its place.
CursorKeepsToItsOwn ==
  [][/\ using = "cursor" => Walked!KeepsToItsOwn]_vars
=============================================================================
