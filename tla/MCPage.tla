------------------------------- MODULE MCPage -------------------------------
(***************************************************************************)
(* The objects through which a page talks to the world and to itself, and  *)
(* what reads texts for it, one at a time: `using' says which, and what    *)
(* the others are made of is not there.                                    *)
(***************************************************************************)
EXTENDS Naturals

CONSTANTS MaxPorts, MaxTasks, MaxPosted, Names, MaxChannels, MaxPosts,
          MaxNumbered, MaxTries, MaxCalls, MaxEvents, MaxSends, Elements,
          MaxMoves, MaxRestarts, MaxEdits, MaxBytes, Tokens, MaxSet, MaxShows

VARIABLES
  using,   \* whose turn it is
  v1, v2, v3, v4, v5, v6, v7, v8, v9, v10, v11, v12, v13, v14, v15, v16, v17,
  v18, v19, v20, v21, v22   \* its variables, in its order, and Gone

vars == <<using, v1, v2, v3, v4, v5, v6, v7, v8, v9, v10, v11, v12, v13, v14,
        v15, v16, v17, v18, v19, v20, v21, v22>>

Entangled == INSTANCE Ports WITH
  MaxMessages <- MaxPosted, peer <- v1, queue <- v2, started <- v3,
  made <- v4, held <- v5, tasks <- v6, running <- v7, posted <- v8,
  heard <- v9
Broadcasts == INSTANCE Broadcast WITH
  channels <- v1, open <- v2, tasks <- v3, posts <- v4, heard <- v5
Sources == INSTANCE EventSource WITH
  MaxEvents <- MaxNumbered, state <- v1, request <- v2, refused <- v3,
  timer <- v4, ending <- v5, try <- v6, lastId <- v7, sending <- v8,
  tries <- v9, heard <- v10
Asked == INSTANCE Requests WITH
  use <- v1, ready <- v2, id <- v3, network <- v4, local <- v5, todo <- v6,
  calls <- v7, sends <- v8, ends <- v9, promise <- v10, signal <- v11,
  crossed <- v12
Sockets == INSTANCE SocketObject WITH
  state <- v1, conn <- v2, failure <- v3, blobs <- v4, sent <- v5,
  sends <- v6, extra <- v7, closing <- v8, messages <- v9, heard <- v10
Custom == INSTANCE CustomElements WITH
  MaxCalls <- MaxMoves, kids <- v1, shadow <- v2, CEn <- v3, defined <- v4,
  ceState <- v5, ceConn <- v6, pending <- v7, todo <- v8, acting <- v9,
  calls <- v10, made <- v11, last <- v12, twice <- v13, crossed <- v14
Doms == INSTANCE Dom WITH
  scene <- v1, kids <- v2, attr <- v3, manual <- v4, taken <- v5,
  chosen <- v6, watch <- v7, dirty <- v8, seen <- v9, drawn <- v10,
  passed <- v11, observers <- v12, watches <- v13, records <- v14,
  queued <- v15, todo <- v16, acting <- v17, edits <- v18, known <- v19,
  untold <- v20, lost <- v21, start <- v22
Working == INSTANCE Workers WITH
  MaxWords <- MaxTasks, kind <- v1, dead <- v2, port <- v3, realm <- v4,
  loading <- v5, page <- v6, tasks <- v7, started <- v8, queue <- v9,
  closing <- v10, turn <- v11, obj <- v12, said <- v13, heard <- v14,
  answers <- v15, got <- v16, told <- v17
Addressed == INSTANCE Addresses WITH
  MaxSteps <- MaxNumbered, stack <- v1, at <- v2, state <- v3, vitaHref <- v4,
  real <- v5, tasks <- v6, events <- v7, leaving <- v8, walks <- v9,
  steps <- v10
Formed == INSTANCE Forms WITH
  MaxClicks <- MaxPosted, MaxChanges <- MaxRestarts, checked <- v1,
  default <- v2, disabled <- v3, inDoc <- v4, dialog <- v5, building <- v6,
  firing <- v7, stack <- v8, owed <- v9, sent <- v10, clicks <- v11,
  changes <- v12, told <- v13, forced <- v14, crossed <- v15
Viewed == INSTANCE Intersections WITH
  MaxShifts <- MaxEdits, MaxWatches <- MaxPosts, visible <- v1, stale <- v2,
  now <- v3, last <- v4, timer <- v5, observers <- v6, seen <- v7,
  firsts <- v8, walk <- v9, calling <- v10, watches <- v11, missed <- v12
Listed == INSTANCE TokenLists WITH
  MaxCalls <- MaxSet, attr <- v1, ks <- v2, kt <- v3, indices <- v4, v <- v5,
  writing <- v6, read <- v7, mixed <- v8, last <- v9, calls <- v10
Toggled == INSTANCE Popovers WITH
  MaxCalls <- MaxShows, attribute <- v1, fit <- v2, shown <- v3, under <- v4,
  pending <- v5, told <- v6, calls <- v7
Timed == INSTANCE Timeline WITH

  MaxMade <- MaxEvents, MAX_ENTRIES <- MaxEdits, MaxWatches <- MaxRestarts, MaxTime <- MaxRestarts,
  now <- v1, entries <- v2, made <- v3, observers <- v4, types <- v5,
  buffer <- v6, jobs <- v7, telling <- v8, calling <- v9, heard <- v10,
  owed <- v11, cleared <- v12, TV <- v13, watches <- v14, fired <- v15

Gone == "not there"

(* The variables from one of them on are not there; they stay so.          *)
None18 == v18 = Gone /\ v19 = Gone /\ v20 = Gone /\ v21 = Gone /\
  v22 = Gone
None16 == v16 = Gone /\ v17 = Gone /\ None18
None15 == v15 = Gone /\ None16
None13 == v13 = Gone /\ v14 = Gone /\ None15
None11 == v11 = Gone /\ v12 = Gone /\ None13
None10 == v10 = Gone /\ None11
None8 == v8 = Gone /\ v9 = Gone /\ None10
None6 == v6 = Gone /\ v7 = Gone /\ None8
None2 == v2 = Gone /\ v3 = Gone /\ v4 = Gone /\ v5 = Gone /\ None6
None1 == v1 = Gone /\ None2
Same1 == UNCHANGED <<v1, v2, v3, v4, v5, v6, v7, v8, v9, v10, v11, v12, v13,
  v14, v15, v16, v17, v18, v19, v20, v21, v22>>
Same2 == UNCHANGED <<v2, v3, v4, v5, v6, v7, v8, v9, v10, v11, v12, v13, v14,
  v15, v16, v17, v18, v19, v20, v21, v22>>
Same6 == UNCHANGED <<v6, v7, v8, v9, v10, v11, v12, v13, v14, v15, v16, v17,
  v18, v19, v20, v21, v22>>
Same8 == UNCHANGED <<v8, v9, v10, v11, v12, v13, v14, v15, v16, v17, v18,
  v19, v20, v21, v22>>
Same10 == UNCHANGED <<v10, v11, v12, v13, v14, v15, v16, v17, v18, v19, v20,
  v21, v22>>
Same11 == UNCHANGED <<v11, v12, v13, v14, v15, v16, v17, v18, v19, v20, v21,
  v22>>
Same13 == UNCHANGED <<v13, v14, v15, v16, v17, v18, v19, v20, v21, v22>>
Same15 == UNCHANGED <<v15, v16, v17, v18, v19, v20, v21, v22>>
Same16 == UNCHANGED <<v16, v17, v18, v19, v20, v21, v22>>
Same18 == UNCHANGED <<v18, v19, v20, v21, v22>>

-----------------------------------------------------------------------------
(* Cases: what keeps nothing, on every case of a bounded set.              *)

Segmented == INSTANCE Segments
Tags == INSTANCE Locales
Sorted == INSTANCE Collation
Chosen == INSTANCE Selectors

Of(family) == using = "cases" /\ v1[1] = family

CaseInit == v1 \in {"none"} \X {"bytes", "dictionary", "rules", "thai",
    "han", "mixed", "tags", "parse", "likely", "locales", "resolving",
    "contractions", "numerals", "reorder", "collators", "sort_keys", "sets",
    "lines", "expressions", "machines", "rule_texts", "orders",
    "selector_texts", "places", "nth", "matches"}
CaseNext ==
  /\ v1[1] = "none"
  /\ LET is(family, cases) == v1[2] = family /\ \E x \in cases : v1' = <<family, x>>
     IN  \/ is("bytes", Sources!Cases)
         \/ is("dictionary", Segmented!DictCases)
         \/ is("rules", Segmented!RuleCases)
         \/ is("thai", Segmented!ThaiCases)
         \/ is("han", Segmented!HanCases)
         \/ is("mixed", Segmented!MixedCases)
         \/ is("tags", Tags!TagCases)
         \/ is("parse", Tags!ParseCases)
         \/ is("likely", Tags!Ids)
         \/ is("locales", Tags!LocaleCases)
         \/ is("resolving", Tags!ResolveCases)
         \/ is("contractions", Sorted!ContractCases)
         \/ is("numerals", Sorted!NumberCases)
         \/ is("reorder", Sorted!OrderCases)
         \/ is("collators", Sorted!CollatorCases)
         \/ is("sort_keys", Sorted!KeyCases)
         \/ is("sets", Segmented!SetItemCases)
         \/ is("lines", Segmented!UcdCases)
         \/ is("expressions", Segmented!ExprCases)
         \/ is("machines", Segmented!CompileCases)
         \/ is("rule_texts", Sorted!ReadCases)
         \/ is("orders", Sorted!RulingCases)
         \/ is("selector_texts", Chosen!TextCases)
         \/ is("places", Chosen!PlaceCases)
         \/ is("nth", Chosen!NthCases)
         \/ is("matches", Chosen!MatchCases)

Init ==
  \/ using = "ports" /\ Entangled!Init /\ None10
  \/ using = "channels" /\ Broadcasts!Init /\ None6
  \/ using = "events" /\ Sources!Init /\ None11
  \/ using = "request" /\ Asked!Init /\ None13
  \/ using = "socket" /\ Sockets!Init /\ None11
  \/ using = "elements" /\ Custom!Init /\ None15
  \/ using = "tree" /\ Doms!Init
  \/ using = "cases" /\ CaseInit /\ None2
  \/ using = "worker" /\ Working!Init /\ None18
  \/ using = "address" /\ Addressed!Init /\ None11
  \/ using = "form" /\ Formed!Init /\ None16
  \/ using = "view" /\ Viewed!Init /\ None13
  \/ using = "tokens" /\ Listed!Init /\ None11
  \/ using = "popover" /\ Toggled!Init /\ None8
  \/ using = "timeline" /\ Timed!Init /\ None16

Next ==
  /\ UNCHANGED using
  /\ \/ using = "ports" /\ Entangled!Next /\ Same10
     \/ using = "channels" /\ Broadcasts!Next /\ Same6
     \/ using = "events" /\ Sources!Next /\ Same11
     \/ using = "request" /\ Asked!Next /\ Same13
     \/ using = "socket" /\ Sockets!Next /\ Same11
     \/ using = "elements" /\ Custom!Next /\ Same15
     \/ using = "tree" /\ Doms!Next
     \/ using = "cases" /\ CaseNext /\ Same2
     \/ using = "worker" /\ Working!Next /\ Same18
     \/ using = "address" /\ Addressed!Next /\ Same11
     \/ using = "form" /\ Formed!Next /\ Same16
     \/ using = "view" /\ Viewed!Next /\ Same13
     \/ using = "tokens" /\ Listed!Next /\ Same11
     \/ using = "popover" /\ Toggled!Next /\ Same8
     \/ using = "timeline" /\ Timed!Next /\ Same16

Spec == Init /\ [][Next]_vars

-----------------------------------------------------------------------------
(* The properties are those of the modules, each of its own use.           *)

\* Ports and Broadcast: no port posts to one that has gone over to another,
\* what waits at a started port has a task to come for it, and no message is
\* heard twice or out of its turn; every other open channel of a name hears
\* all, in order.  Workers: the worker and its page hear all the other says
\* while it lives, as it was said, and a worker runs or the page is told why
\* not.
MessagesHeard ==
  /\ using = "ports" => Entangled!PeersAgree /\ Entangled!NothingLeftWaiting
       /\ Entangled!HeardOnceInOrder
  /\ using = "channels" => Broadcasts!EveryoneHears
  /\ using = "worker" => Working!WorkerHearsAll /\ Working!HeardAsSaid /\
       Working!PageHearsAll /\ Working!RunsOrTold
\* EventSource: every event is heard once, in order and whole, through all
\* reconnections, and until it is closed one thing and one only is to happen
\* next.  Forms: what a click checks is told and undone whole.
\* Intersections: every observer is told what there is to see of all it
\* watches.  Timeline: an observer of entries is told of all of them, the
\* last are kept, every load heard at the window makes one navigation entry,
\* and the document comes to its milestones in order unless the page
\* dispatches those events itself.
EventsHeard ==
  /\ using = "events" => Sources!NoEventMissed /\ Sources!OneThingNext
  /\ using = "form" => Formed!OneOfAGroup /\ Formed!ChangesAreTold
  /\ using = "view" => Viewed!AllIsSeen /\ Viewed!ListedAreWatching
  /\ using = "timeline" => Timed!AllIsTold /\ Timed!LastAreKept /\
       Timed!StagesInOrder
\* Requests and SocketObject: every send hears one loadend, what fetch()
\* returned is settled, and a fetch aborted while pending ends in that only;
\* a socket opens, gets messages, fails and closes in that order.  Addresses:
\* what a page hears of where it is leads to where it is.  Forms: no call
\* sends a form twice.
RequestsEnd ==
  /\ using = "request" => Asked!OneEndEach /\ Asked!EveryFetchSettles /\
       Asked!AbortIsLast
  /\ using = "socket" => Sockets!HeardInTurn
  /\ using = "address" => Addressed!HashesFollow /\ Addressed!PopsAreTrue /\
       Addressed!EntryIsHere
  /\ using = "form" => Formed!OneAtATime
\* CustomElements: an element is made once, told it is connected and
\* disconnected by turns (but for a move out of its own
\* attributeChangedCallback while it is made), and knows where it is when all
\* calls have returned.
ElementsTold ==
  /\ using = "elements" => Custom!MadeOnce /\ Custom!TurnAbout /\
       Custom!ToldWhereTheyAre
\* Broadcast, EventSource, SocketObject and Workers: what is closed says
\* nothing more and asks for nothing.
AfterTheEnd ==
  [][/\ using = "channels" => Broadcasts!ClosedHearsNothing
     /\ using = "events" => Sources!ClosedIsClosed
     /\ using = "socket" => Sockets!ClosingIsQuiet
     /\ using = "worker" => Working!EndedIsQuiet]_vars
\* Dom: the tree of nodes stays one, each in one place; what observers of it
\* are told leads from what they knew to what is; every slot is looked at
\* with the nodes it has.  Selectors: a text is cut into the compounds it is
\* made of, and what is found by it is what it means, whatever was asked
\* before.  TokenLists: a method of a class list works on the tokens of the
\* text there is, and leaves what was asked for, in order and each once; its
\* indices are the tokens while the page changes them by the list alone.
TreesHold ==
  /\ using = "tree" => Doms!TreesSound /\ Doms!RecordsLead /\ Doms!SlotsTold
  /\ using = "tokens" => Listed!KeptAreTheTexts /\ Listed!TokensAsAsked /\
       Listed!IndicesFresh
  /\ Of("selector_texts") => Chosen!ReadAsMeant(v1[2])
  /\ Of("places") => Chosen!Places(v1[2])
  /\ Of("nth") => Chosen!NthRight(v1[2])
  /\ Of("matches") => Chosen!FoundAll(v1[2])
\* Popovers: one is shown only while it may be, whatever the listeners of
\* beforetoggle do to it; each toggle event goes on from what the one before
\* it said, and the last says what is.
PopoversTell ==
  [][/\ using = "popover" => Toggled!ShownIsFit /\ Toggled!TogglesTell']_vars
\* EventSource: how a stream is cut into pieces does not show in its lines.
\* Segments: a text is divided once and in order, as the rules and the
\* cheapest words divide it, whichever boundary is asked for first. Locales:
\* a canonical tag is canonical, whatever order it was written in; likely
\* subtags go in and out; a tag reads back, and resolves to what there is.
\* Collation: a contraction takes the marks that are not blocked and no
\* other; numbers sort by value; a key compares as its levels do. Of their
\* compilers: sets and rules are read as written, the database a line at a
\* time; the machine made of rules divides a text where they do; and texts
\* sort as their rules order them, by the strength they say.
TextRight ==
  /\ Of("bytes") => Sources!CutsDontShow(v1[2])
  /\ Of("dictionary") => Segmented!MatchesAll(v1[2])
  /\ Of("rules") => Segmented!RulesFollowed(v1[2])
  /\ Of("thai") => Segmented!ThaiDivided(v1[2])
  /\ Of("han") => Segmented!HanDivided(v1[2])
  /\ Of("mixed") => Segmented!TextDivided(v1[2])
  /\ Of("tags") => Tags!CanonicalOnce(v1[2])
  /\ Of("parse") => Tags!ReadsBack(v1[2])
  /\ Of("likely") => Tags!LikelyAgrees(v1[2])
  /\ Of("locales") => Tags!OptionsTaken(v1[2])
  /\ Of("resolving") => Tags!ResolvedRight(v1[2])
  /\ Of("contractions") => Sorted!ContractsRight(v1[2])
  /\ Of("numerals") => Sorted!NumbersInOrder(v1[2])
  /\ Of("reorder") => Sorted!OrderWhole(v1[2])
  /\ Of("collators") => Sorted!CollatorSettles(v1[2])
  /\ Of("sort_keys") => Sorted!KeysInOrder(v1[2])
  /\ Of("sets") => Segmented!SetsRead(v1[2])
  /\ Of("lines") => Segmented!DataHolds(v1[2])
  /\ Of("expressions") => Segmented!RulesRead(v1[2])
  /\ Of("machines") => Segmented!MachineDoes(v1[2])
  /\ Of("rule_texts") => Sorted!RulesAsWritten(v1[2])
  /\ Of("orders") => Sorted!RulesOrder(v1[2])
=============================================================================
