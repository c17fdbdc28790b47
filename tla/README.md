# VitaSurf: models, checks and proofs

VitaSurf is NetSurf ported to the PlayStation Vita: a single main thread runs
NetSurf's scheduler, its fetchers, the layout and the page's scripts (QuickJS),
and a few helper threads look host names up, decode images and draw the busy
panel while a script holds the main thread. The port's own code is `src/vita`
and the 442 patches of `src/patches`; much of what a page sees as the browser is
JavaScript of the port's, in `src/vita/js`. The models are translated from these.

What is hard in it is between the parts. Almost everything happens on one
thread, but not one after another: a script is interrupted to let transfers
move, a walk over a list calls handlers that change the list, a callback
schedules, moves and removes the callbacks of the round it is run in, and a page
that is being left is frozen half way through what it was told. The script
library has the same trouble with promises and listeners: the page's code runs
in the midst of nearly every method and may call it again. Where there are
threads, most of what they share has no lock: a state, a beat or a flag hands
things over.

## Inventory

Each part with its state, its operations, where it is hard and what makes it
correct. The last column names the module, or where the plan has it.

The host, in C:

| Part (source) | State | Operations | Hard because | Correct when | Module |
|---|---|---|---|---|---|
| Host name lookups (`vita_resolve.c`) | 32 slots: host, state, answer, stamps; threads | `vita_resolve`, `lookup_thread`, `start_queued`, `vita_resolve_fini` | lock-free hand-over, slots reused, wrapping clock, shut-down under way | an answer is that of its host; one slot a host; bounded threads; quiet after fini | Resolve |
| Fetches waiting for addresses (patch 0392) | the `resolving` list, a walk's cursor | initiate, start, abort, poll, pump | callbacks of the walk and of the poll around it start and abort fetches; the pump may not report | the list is the waiting fetches; no walk passes an aborted one; every fetch ends | FetchResolve |
| Scheduler (patch 0436) | heap and hash table over nodes | `schedule`, `schedule_run`, the heap's moves, growth | callbacks change the round they are in; failed allocations; long rounds | order asked for; found once; input is read; nobody starved | Agenda, Scheduler |
| Busy overlay (`surface/vita.c`) | beat, texture, GPU lock, press of Circle | main: put up, update, input, resumed; overlay: look, draw, cancel | only the texture has a lock; clocks read by two threads | no torn texture; the panel leaves; one press stops one script | Overlay |
| WebSockets (`websocket.c`, `qjs.c`) | connections and their queues, held events | open, send, close, the look, fail, drop, hold | handlers inside the walk open, close and fail connections; freezing | events in order, close once and last; nothing sent lost; every close heard | WebSocket |
| Image decode threads (patches 0222, 0225, 0333) | queue, a hand for each of two threads, finished list | queue, drop oldest, forget, collect, stop | an entry freed while its content is decoded | no content used after its entry; no job in two places; every image drawn | plan: Decoder |
| Fetch pump, transfer slots (patches 0231, 0324) | held data, ended transfers, three rings | pump, hold, flush, done, dispatch, free | data and ends arrive where nobody may be told | told in order, end after data; slots never leak; held memory bounded | plan: Pump |
| Page timers and tasks (`qjs.c`) | a realm's timers, closed and closing | set, clear, call back, freeze, close, destroy | cleared, closed and frozen from inside the callback | nothing runs after its clear or close; let go once; order kept | plan: Timers |
| Script entry and budget (`qjs.c`) | depth, deadline, the heap's interrupt thread | begin, end, interrupt, drain | realms enter each other and are destroyed inside | the innermost has the handler; an outer deadline survives; jobs drained once | plan: Entry |
| Navigation, freezing (patches 0427, 0434, 0435) | current, loading and frozen content of nested windows | load, commit, ready, stop, error | loads replace loads; a page may be kept after all | a page left for good never runs again; one kept carries on | plan: Navigate |
| Ring of the scrolled view (`surface/vita.c`) | view, offsets, shadow, texture, event queue | scroll, blit, pieces, aim, unring | two copies in one shifted order | a pixel read is the pixel written | plan: Ring |
| DNS client (`vita_dns.c`) | tries, ids, servers, aliases | lookup, ask, parse, TCP | late answers, refusals, alias loops | an answer is to the question asked; bounded work | plan: Dns |
| Script allocator (`qjs_alloc.c`) | table of pages, batches, classes | malloc, free, realloc, batch | open addressing with removal | a live block's page is found; batches freed only when empty | plan: Pool |

The script library, in JavaScript:

| Part (source) | State | Hard because | Correct when | Module |
|---|---|---|---|---|
| Streams (`streams.js`) | queues, readers, pending reads and writes, the jobs of promises | sources and sinks answer when they like; two promises of each step | chunks in order, none lost; ends told once and kept; no more asked than the mark | ReadableStream, ByteStream, Tee, WritableStream, Pipe, Transform |
| IndexedDB (`idb.js`) | databases, transactions, requests, records, what cursors found | handlers, microtasks, aborts, scripts killed in the midst and the put-off write meet; cursors walk what others change | requests answered in order; an abandoned transaction leaves nothing; the card never has half of one that was left to run | IndexedDB, Cursors, StoredValues |
| Storage (`storage.js`) | a page's copy, what waits to be written, the events under way | listeners store again inside the call; pages of one origin each write the whole | no put-off write is forgotten; the card catches up; a view kept by events is in step | StorageArea, StoredValues |
| Ports and channels (`prelude.js`) | peers, queues, tasks | a port goes to another owner inside a message | heard once, in order, by whom it was for | Ports, Broadcast |
| Requests, event streams, sockets' objects (`prelude.js`) | where a request stands; the last event; the socket's state | handlers inside `open`, `send`, `abort` call them again; connections end anywhere | one end to each send; no event missed or twice; nothing after close | Requests, EventSource, SocketObject |
| Custom elements (`prelude.js`) | definitions, states, the pending list | constructors and callbacks move elements | made once; told by turns; told where they are | CustomElements |
| Workers (`prelude.js`) | two realms, tasks of each | ends from either side at any time | all is heard while it lives, as it was said | Workers |
| DOM tree, selectors, class lists (`prelude.js`) | nodes, shadow roots, observers, slots; the tokens kept of a class | records and slots are told in a later microtask; a list is read in the midst of a write | a tree; records lead to what is; what matches is found; a method works on the class there is | Dom, Selectors, TokenLists |
| Popovers (`prelude.js`) | shown, the toggle event to come | listeners of beforetoggle show and hide again | what is told agrees with what is; shown only while it may be | Popovers |
| Clicks and forms (`prelude.js`) | checked, events under way | listeners change what is being clicked or sent | one of a group; sent once; undone whole | Forms |
| Intersections, timeline (`prelude.js`, `performance.js`) | observers, entries, milestones | observers change under the walk | every observer is told of everything | Intersections, Timeline |
| Addresses and history (`prelude.js`) | entries, where in them, tasks | a page moves while events of it wait | what a page hears of where it is, is so | Addresses |
| Intl (`intl_*.js`, and `scripts/gen-intl-*.mjs`) | none but caches | the algorithms of ICU and of CLDR, written again | what the algorithm is meant to compute | Calendars, Numbers, Segments, Locales, Collation |

Not modelled and not planned, because they are data in and out of one call with
no state two parts could disagree about: layout, styles and drawing (most
patches), the bindings of the DOM to the engine's tree, the rest of the script
library (URL, WebCrypto, canvas, the WebAssembly bindings, the shapes of
interfaces), the engine's speed patches, cookies, downloads, focus and menus,
the site test, start-up and files, TLS set-up, deferred relayout, FlareSolverr,
the generators of tables, the build and its tests. PROJECT.json lists each part
with its state and the reason, and for the parts modelled in part what is left out.

## How the parts fit

    script  --interrupt-->  pump ---> FetchResolve ---> Resolve <--- lookup threads
      |  ^                              ^ poll
      |  +--- callbacks --- Scheduler --+--- WebSocket look, held events
      |                        |
      +--Circle-- Overlay      +--- input and drawing <--- Overlay's panel

- The scheduler calls everything, so its promise is stated by itself, as
  **Agenda**, and what the other modules assume of being called is what Agenda
  promises: a due callback is called in the end (its `NotStarved`), whatever the
  others ask for. That is where the fairness of WebSocket's and FetchResolve's
  polls comes from.
- **FetchResolve** extends Resolve: the main thread's calls of `vita_resolve` are
  made by its walk and by nothing else, and the threads of Resolve go on in
  between. That it is a behaviour of Resolve is a theorem.
- **Overlay** takes the script's side as a main thread that now and then comes
  to an interrupt; **WebSocket** takes freezing as something that may come and
  go whenever no script runs. **SocketObject** is the page's side of WebSocket.
- **Pipe**, **Tee** and **Transform** are composed of the streams of
  ReadableStream and WritableStream, through the operators of **StreamRecords**.
- **IndexedDB** keeps the values and keys of **StoredValues**; **Cursors** extends that with a store
  whose records change while its requests and cursors go on. **StorageArea** is the other writer
  of the same file.

What does not share state is checked a part at a time in one run: **MCStreams**
has the six uses of a stream (`use`), **MCPage** the fourteen objects of a page and the
cases of what reads texts for it (`using`), **MCData** the database, the storage area and the
store with its cursors, and the cases of what is computed of values, **MCHost** the sockets
or the agenda. What the others are made of is then not
there, so their state spaces add and do not multiply.

## Modules

**Resolve** (`vita_resolve.c`). `slot` is the table, `thread` the lookups with
where each stands, `main` where the main thread is inside `vita_resolve` or its
fini. A call is several steps, because the threads go on during it: Call (find
or take a slot), Count (how many run), then StartLookup, StartFails and
StartDone for each queued one, Recheck (read the slot again) and Return. A
thread copies its query, makes its resolver, looks up, destroys it, stamps the
slot and last of all publishes the state. Fini drops, aborts resolvers and waits
or gives up. `slot_for`'s scan and `start_queued`'s count are one step each: a
slot's state changes at most once under either, and from running to settled,
which the next read of it sees. Left out: the early return for names that are
no host names, what is logged or told of timings.

**FetchResolve** (patch 0392, `curl.c`). `fetch` is where each fetch stands,
`list` the resolving list, `walk` who is asking (a fetch being started, the poll,
the pump, a callback of the poll) and where in the list, `abort` the fetches
aborted while curl was entered. A fetch that fails in the poll's walk has callbacks, which
may start and abort fetches before the walk goes on; so have the transfers the
poll tells of before its walk, of what came while a script ran, and after it, of those that
ended (patch 0231, `inside_curl`). An abort in any of these only marks the fetch: after
the last of them it stays marked in the list until the walk of the next poll or pump frees it.
That is why `AbortedAreFreed` is about what a walk has passed and not about the time
between walks. What those transfers were is not part of this module, only that they have callbacks.

**Agenda** is the abstract scheduler: what is asked for, soonest first, with a
turn that says in which round it may be called. **Scheduler** (patch 0436) is
the heap, the hash table that finds a callback to move or remove it, their
growth and their failures. It implements Agenda: `ImplementsAgenda` is the
refinement under the mapping that forgets heap and table and keeps
who is due in which order. `list_schedule` only logs and is left out.

**Overlay** (`surface/vita.c`). `main` and `over` are the two threads, each
access to something both can see a step of its own; `now` and `beat` are
compared modulo 2^32 (Wrap); `gpu` is whether the GPU reads the texture,
which ends by itself (GpuDone). Left out: the events polled, the ring (one texture
stands for both orders), starting and stopping.

**WebSocket** (`websocket.c`; `ws_deliver`, `ws_hold` and `ws_event` of `qjs.c`;
the object's state of `prelude.js`). One thread, so `stack` is its C stack:
the look at all connections, the handler it is in, the close that handler
calls. A connection's id is its age, which makes the list, newest first, the
walk from the greatest id down. curl is nondeterministic: an address comes, is
late or fails; a handshake succeeds or fails; a send takes some messages, none
or fails; the server sends, closes or is gone. Left out: failing allocations,
what frames contain, messages sent or received in parts, the limit of open sockets.

**StreamRecords** has the algorithms of `streams.js` as operators on the record
of a stream: what each call does to the queue, the promises and the job in
flight. **ReadableStream** drives a stream by a source that answers what it is
asked (`polite`) or pushes, readers that take and leave the lock, `cancel` and
the async iterator. **ByteStream** fills views from chunks of other lengths;
`FillViews` is the loop that answers waiting views. **WritableStream** has the page
write ahead, close and abort while its sink takes one chunk at a time and may
fail. **Tee** shares one read between two branches, **Pipe** is `pipeTo` with each
of its waits a place of its own, **Transform** ties a writable to a readable end.

**IndexedDB** has opens, upgrades, deletions, transactions and their requests, the
microtasks they run in (`micro`), the handlers under way (`stack`), the put-off
write (`card`, `dirty`) and the page or console that goes between any two turns. A script
may be killed by its budget or by Circle at any point (Kill): the handlers under way are
gone, and the drain of microtasks stops where it is (`stopped`), so that a task, the put-off write
among them, runs before the rest (`qjs.c:8814-8876`). A page may dispatch `pagehide`,
`beforeunload` or `unload` itself, in the midst of a transaction, and has the store
written there (FlushByPage). A page that is left writes nothing (PageLeft): its timers
are dropped, and nothing in `src` dispatches those events.

**StorageArea** has pages of one origin, each with its `localStorage` as first read and its
`sessionStorage`, the timeout of the put-off write and the variable that stands for it, frozen pages,
the storage events as a stack, since they are dispatched inside the call, and a file that is removed before
the new one takes its name. **Cursors** has one store with an index, requests, cursors and the copy a
transaction keeps. Keys and values are what they are converted to; the conversion runs no script.
**StoredValues** has keys, key paths, records, indexes, cursors that go up and the two copies of a
value, as functions of their cases.

**Ports**, **Broadcast**, **EventSource**, **Requests**, **SocketObject**, **CustomElements**,
**Workers**, **Dom**, **Forms**, **Intersections**, **Addresses**, **Timeline**, **TokenLists**,
**Popovers**: one object of the page each. What the page's code may do in a handler is any call of the
object; what is left of the method it interrupted is a stack, innermost first.
Tasks of the event loop are a sequence; where two parts of the browser answer by
themselves the order is open. In CustomElements an upgrade calls the element's
attributeChangedCallback between its constructor and its connectedCallback, with all the page may do
there, and `createElement` upgrades what it makes. In Timeline the page may stop the
document's own events on their way and dispatch `DOMContentLoaded` and `load` itself: the code's
listeners hear those too, the stamps are of the first, and each load makes an entry.
EventSource has at its end how the bytes of a stream are cut, as cases.

**Selectors**, **Calendars** (with the patterns of dates), **Numbers**, **Segments**,
**Locales**, **Collation**: algorithms, held against definitions of what
they are meant to compute (the arithmetic of the digits, the calendar's own rules
counted day by day, boundaries by what the rules say of every place). Tables of
CLDR and ICU are excerpts, the moon and the sun go round evenly.

**ResolveProofs**, **SchedulerProofs**, **HostProofs**, **OverlayProofs**, **StreamProofs**:
theorems, below. Agenda, WritableStream and Pipe have theirs at their end.

The `map` of PROJECT.json names the definitions that carry the code, with their
lines; a small helper whose lines lie within those of the definition that uses it has no entry
of its own.

## Runs

Every passing run is exhaustive. Deadlock is checked where the part can always go
on (resolve); elsewhere the system may really stop: every bound of time
or of calls is used up, and what should still have happened is what the liveness
properties say.

| Run | Bounds | Shows |
|---|---|---|
| resolve | 2 slots, 1 thread, 3 hosts, a clock that starts one tick before it wraps, 2 ticks | the slots are sound through every interleaving and shut-down (`SlotsSound`), answers are those of the host they are for (`AnswerIsTheLookups`), written by their thread only, kept until too old or least wanted, looked up in the order asked (`SlotsKept`) |
| fetch_resolve | 2 fetches of 2 hosts, answers that expire | the list is the waiting fetches, once each, and a walk leaves no aborted one behind it (`ListSound`), only the poll finishes a fetch and an aborted one is told nothing (`OnlyPollFinishes`), each ends (`EveryFetchEnds`) |
| scheduler | 3 callbacks colliding in a table that grows from 1, 3 ms, 4 requests | found once (`TableSound`), and `ImplementsAgenda` |
| scheduler_heap | 6 callbacks, one chain, 6 requests | `HeapSound`: six is the least at which the last node can be sooner than the parent of one removed |
| host | 2 connections, 2 messages out, 1 in; or an agenda of 3 callbacks | connections are sound (`SocketsSound`) and closes heard (`EveryCloseIsHeard`); the agenda is in order (`AgendaSound`), rounds end and nobody is starved (`RoundsEnd`) |
| overlay | a clock of 2 readings, away at most 1, a press, a dialog, held progress | `NoTear`; a press stops one script at most (`OnePressOneStop`); panel and Circle are given back (`ScreenIsGivenBack`) |
| overlay_away | a clock of 4 readings | *violated*: a beat between two reads makes a busy main thread look away |
| websocket_handshake | as host | *violated*: a close frame not taken at once is never sent |
| streams | mark 2, 3 chunks, 3 reads, 5 bytes in views of 3, 4 calls | chunks reach reads (`ReaderServed`), views (`ViewsServed`), both branches (`BranchesServed`), the sink (`SinkServed`) and the far end (`PassedOn`); ends stay (`EndsAreKept`); all hear (`EveryoneHears`) |
| idb_upgrade | one store, version 2 | *violated*: an upgrade that throws leaves its version and stores |
| script | 4 ports, 3 messages, 3 channels, 4 events, 6 calls of a request, 2 elements, 5 moves, 2 edits of a tree, 2 tokens and 4 changes of a class, 7 calls of a popover, 5 bytes, and the case sets of the modules that read texts | `MessagesHeard`, `EventsHeard`, `RequestsEnd`, `ElementsTold`, `TreesHold`, `TextRight`, `AfterTheEnd`, `PopoversTell`, each of the objects its comment names |
| computed | one store with 4 turns and 2 restarts or kills; 5 changes of an area and 2 losses; 3 records, 3 requests, 2 cursors; and the case sets of the modules | `Answered`, `AloneIsAtomic` and `CardIsWhole` of the database, `StorageKept` of the area, `RecordsFound` and `CursorKeepsToItsOwn` of records and cursors, `ValuesRight` of clones, dates and numbers |

Why the bounds are enough. Slots: two are the least at which one is given up for
another. The hazards of lists are in a node, its
neighbour and one behind; two connections with a handler that may open the second, or
end either, meet all of them, and messages on both would only multiply orders
that do not interact. A clock that wraps once shows what wrapping does; the
models keep the main thread away for less than the clock's whole range
(`MaxAway < Wrap`: 49 days). A mark of 0, 1 and 2 are the three cases of
backpressure (nothing ahead, one, and one behind another), three reads have one
answered, one waiting and one made after. Four turns of a page are open, write,
abort and open again; one restart separates what the card has from what the
memory had, and two are a script killed before it. Three requests have one answered, one queued and one
asked in a handler; two cursors are one that walks and one that takes away what it found. The case sets of `computed` contain each branch of the algorithm they
are for, and its neighbours. MaxElapsed, MaxClock, MaxSeq, MaxPress, MaxAway, MaxId,
MaxSend, MaxRecv, MaxChunks, MaxReads, MaxCalls and the like are bounds of the
runs, not of the code; the theorems hold for every value of theirs.

Fairness. Agenda: the loop goes on, callbacks return, time passes. FetchResolve:
the driver and the threads go on; the poll is strongly fair because it is a
callback that is due again and again, interrupted by scripts that pump (Agenda's
`NotStarved`). Overlay: both threads go on, the mutex is strongly fair (the kernel
hands it to a waiter), and a script that does not end is interrupted (the engine
counts down to its handler). It is never assumed that a script ends.
WebSocket: the look and the held events are called when due (strongly, as the
poll's), a script called by the browser ends (its budget stops it), a freeze ends
(the next page replaces this one or its load is given up). Streams: callbacks
of settled promises run, and sources and sinks settle what they were asked.
Nothing is assumed of a server, of curl or of a page.

## What does not hold

Three runs show it:

- `AwayIsAway`: `vita.c:1248` subtracts a beat read after the clock; one written
  in between makes the unsigned difference about 49 days, and the panel is drawn
  over a main thread that has just been in its loop.
- `HandshakeStarts`: `send_close_frame` ignores what curl says. When the
  connection takes nothing at that moment the server is never told, and the page
  hears 1006 three seconds later.
- `FailedUpgradeLeavesNothing`: `idb.js:837` says an upgrade that fails should
  leave nothing; one that throws on a database there was before leaves the raised
  version and the stores made.

The rest was met while modelling. The models do what the code does in each of
these, and the properties say what holds nevertheless.

- Host: a failure kept for five seconds can expire before every fetch that waits
  for it had its turn (`vita_resolve.h:20`); a close in CONNECTING tells its events
  from inside `close()`, which `websocket.h:26` says never happens; a worker told
  to close still runs the timers due before, though `qjs.c:6119` says they stop at
  once; the stamps of lookups order times less than 2^31 ms apart.
- Streams: a transform that throws errors only the writable end; a write after
  close is taken; an errored writable stream becomes closed when a close under way
  ends; views pending at a close, an error or a cancel are never answered, and wait to
  be full; `pipeTo` aborted with `preventAbort` closes its destination; branches
  of a tee learn of an error at the next pull; a transform has no backpressure.
- IndexedDB: two transactions that write the same store are not isolated; an update
  or delete by a cursor of a record that was replaced is lost; a transaction ends
  one microtask after its last request; nobody is told `versionchange` or
  `blocked`. The stored form of a value loses what is shared by views, -0 and holes.
  A descending cursor told to continue to a key compares as an ascending one does (`>=`,
  `idb.js:710`, `736`, against the comment at 723), so `CursorGoesOn` is about those that go up, and of the
  others only that none goes back. `update` of a cursor does not look whether an index is
  unique (`idb.js:742`), so `IndexIsTheStore` and `UniqueStays` are about puts.
- A script that is killed leaves the transaction it was in the midst of with microtasks still to run: it may be
  written by half, lack a request, or hang. So `CardIsWhole`, `CompleteIsAll` and `NothingLeftHanging` except those,
  and a store written from inside by an event the page dispatched itself.
- Storage: `storage.js:60` says a page being left must not lose the last few hundred milliseconds, and
  nothing fires the events it listens for; the write comes half a second after the first change and not of quiet
  (`DIRTY_DELAY`); a same-origin frame has its own copy, and each writes the whole; a store that cannot
  be read is taken for empty and then written over; one over 4 MB is not written, and nobody is told; a
  rename that fails has removed the old file first; a storage event names `localStorage` whichever area it is
  of, and a listener that stores again is told of before the change it heard of reaches the next
  listener, though `storage.js:461` is for views kept in step. `StorageKept` excepts each by name
  (`behind`, `mixed`), and is checked of one page.
- Class lists: the indices of `classList` may be stale (`prelude.js:4876` says no staler than a fresh list's) when the page
  sets the attribute itself, and back to what it was on the last read. `IndicesFresh` is about changes by the list.
- Messages: a byte order mark is dropped at the head of any piece; an XHR's `abort`
  takes back neither the answer of a `data:` URL nor one being told, and `abort`
  inside `loadstart` still sends; a Blob sent before a text arrives after it; a port
  transferred to itself still hears; words a worker posts just before it closes are lost.
- Elements and trees: an element whose attributeChangedCallback puts it into the page during its upgrade is told twice
  that it is connected (`prelude.js:3434`); an element moved by `appendChild` is not told it was disconnected;
  elements of shadow trees made before any definition are never upgraded; `replaceChild(x, x)`
  records half of itself; slots assigned by hand are looked at late;
  the selector reader takes simple selectors in one order only and passes over the
  leading combinator of `:has`.
- Forms and views: `submit()` in a submit handler sends twice; `checked` set by
  script does not clear the group; an observer that stops watching inside a callback makes
  the walk pass over the next one.
- Addresses: a fragment makes no entry, and `replaceState` without an address loses one;
  `reload()` at a fragment does nothing.
- Timeline: the end of `load` is taken before the page's own listeners
  (`performance.js:442`), and observing again repeats what is buffered; each `load` a page dispatches at its
  window makes one more navigation entry, and one before the document's own dates the milestones
  out of order (`performance.js:460`), so `StagesInOrder` asks for order of the document's own only.
- Intl: a tag with a lettered extension after `-u-` loses its keywords; three look-ahead
  rules of a segmenter may share a state; an anchor without a primary weight sorts
  near the front.

## Proofs

Checked by TLAPS for every value of the constants that the named assumptions of
their modules allow. An assumption says only what the code's own constants do: there
is at least one slot and one thread, a clock has some length, a heap's nodes are
finitely many, a delay is a number, a mark is a number.

**ResolveProofs** (any number of slots, threads and hosts).
- `TypeCorrect`: types, and that a step under way is at a slot there is.
- `SlotsStaySound`. Its parts are not inductive each by itself: that threads are
  bounded needs that the count the main thread carries is at least the number
  alive (`CountIsEnough`), which needs that the live are exactly the running
  (`HandOver`), which needs that a host being asked has no second slot. The
  inductive invariant `HInv` is their conjunction. Every step is first shown to
  have one of seven effects on what the invariant reads (`Effect`), then each part to be
  kept by each effect; numbers are compared by the injection from live threads to
  running slots.
- `AnswersAreTheLookups`, by `AInv`: what a slot says is what a lookup of its host
  found (`SlotsSay`), a lookup that has not published knows what it found
  (`LookupsKnow`), the main thread, between its steps, waits at a slot that is still of
  the host it asks for (`CallerWaits`), and what it was told is so (`CallerTold`).
- `SlotsAreTheirThreads`, unconditionally, and `SlotsAreKept`, under `Early`: the program
  has run for less than half of the clock's range, 24.8 days. The hypothesis is the
  code's, whose stamps are compared by the sign of a 32-bit difference; the run has a
  clock that wraps within it.
- `FetcherImplementsResolve`: the fetcher's specification implies that of Resolve, so
  all of the above holds of the lookups while fetches use them.
- `OnlyThePollFinishes` and `ListStaysSound`. `FInv` says the list is in order at
  every point of a walk (`Once`, `Listed`, and `WalkSound` for where the walk stands after
  its callbacks took what they liked from the list, with none that is marked behind it); that a
  marked one hears nothing follows from the same; that each was told of its own host
  goes back to `AnswersAreTheLookups` through the refinement.

**SchedulerProofs** (any pairs, hash, delays and growth).
- `HeapStaysSound`, `TableStaysSound` by `SInv`: order and places of the heap, what is in
  use, the chains of the table exactly the scheduled of their hash, nothing twice. The
  sifts are recursive functions; what they return is shown for all heaps by
  induction over the place they are at, as the absence of a least counterexample.
- `SchedulerImplementsAgenda`: the refinement, step by step. Initial states map to
  Agenda's; a request, a move, a removal, a call, the beginning and the end of a round and
  the tick each map to Agenda's step of that name, shown by the line of callbacks that
  the heap, read off in order, is before and after; allocations that fail and ticks when all
  is past due are stutters. It needs, besides `SInv`, that those that have their turn
  are due before all that have not (`InTurn`).
- `QueueStaysInOrder`, by the refinement and Agenda's own `StaysInOrder`.

**Agenda**: `StaysInOrder`. Order by wait alone is not inductive: a tick keeps
it, but that turns come first needs that whatever has its turn is due.
**HostProofs** states it of the run as `AgendaStaysSound`.

**HostProofs** (any number of connections and messages): `SocketsStaySound`, by
`WInv`. What a page heard and what is held back are one sequence in turn (`EarsSound`);
what it has been told is what the connection's state allows (`ToldSound`), which
needs the stack's shape, since a state changes before its handler has heard
of it (`StackSound`: a look under handlers, a failure only of a connection under way, closes
on top of what called them); what was taken and what is queued follow each other with
one close frame at most (`SockSound`); and while there is a connection a look is asked
for or at the bottom of the stack (`LookAsked`).

**OverlayProofs** (any intervals, any clock longer than the main thread is away).
- `NeverTorn` and `TypeCorrect` by `ScreenInvariant`. `NoTear` alone is not inductive: a step
  that starts writing has to know that no draw of the other thread is
  still unannounced. The invariant adds that the lock is held by whoever stands
  between taking it and giving it back, and by nobody else (`LockHeld`), what the main
  thread uses the GPU for (`MainUse`), and that a reading texture is known of, or is
  about to be by the thread that holds the lock (`ReadingIsKnown`).
- `OnePressStopsOne`, an action property, by `StopInv`: the overlay has seen no press later
  than the last (`SeenBefore`), a request that stands has stopped nothing yet (`RequestIsNew`),
  and neither has a press not yet seen (`PressIsNew`).

**WritableStream**: `SinkStaysServed` (any mark and number of calls), by `WriterInv`: what
the sink had, then what is in its hands, then what is queued are the chunks in the order
written; none is missing but by an error; what each call was told agrees with where its chunk
is; the size kept is the queue's; `ready` is pending exactly without room. From it
`FailedIsLeftAlone`, an action property: a stream that has failed begins nothing more on its sink.

**Pipe**: `BothEndsAreTold` (any marks and number of chunks), an action property, by
`PipeInv`. That a pipe which fails leaves neither end waiting needs to know, at each
place where the pipe waits, which end has failed: a read told of an end is one
of a source that has one (`Truly`), a write or a wait for room told of a failure is one of a
destination that takes no more (`Honest`), the source has ended when the pipe closes, and both ends
are told when a signal has aborted it (`Under`). Each operator of StreamRecords keeps these, a
lemma each (`SourceKept`, `SinkKept`); the sink's need besides that a job in flight is
in the queue, or an error emptied it (`Orderly`).

**StreamProofs** (any mark, chunks, reads, pushing and polite sources).
- `ReadableStaysServed`: `InTurn` says that for some n the chunks had are the first n and
  the queue is the next ones; `ReadersInLine` that the waiting reads are the
  list, ascending, and after all that had a chunk; `EndsEmpty` that a read waits only at an empty
  queue of a stream that may go on; `AskedFor` that a source which answers when asked is
  asked while a read waits, again if it has answered already, and only while there
  is room. Without `again` the last is not inductive: an answer and its promise are two steps.
- `EndedStaysSo`: no call, answer or callback moves a stream from how it ended, nor changes what a
  read was told.
- `BranchesStayServed`, by `TeeNow`: h chunks of the teed stream have been heard, and
  each branch, as a stream of its own, was given the first h. Between the two that
  are handed a chunk this does not hold, and handing the first may start the next read, so the step is
  shown over how many each has been handed (`Even`, `Counted`). Of the teed
  stream, all reads but the one whose callback is to come have been heard (`HeardUpTo`), and it is
  closed by its source or because both branches were cancelled (`SrcKept`); a branch
  that was not cancelled can be given more as long as the stream has not ended (`BranchKept`).
- `ReaderStaysServed`, `SinkStaysServed`, `EndsStay`: the same in the uses that the run checks, the
  last with the action properties of WritableStream and Pipe.

Only model-checked:
- Liveness, and whatever needs ENABLED, which the prover cannot reach: `EveryFetchEnds`,
  `RoundsEnd`, `EveryCloseIsHeard`, `ScreenIsGivenBack`, `EveryoneHears`.
- `ViewsServed`, `PassedOn`, and the properties of the objects, the database and the storage area in the runs
  `script` and `computed`: no inductive invariant of theirs has been written yet.
- What the same runs check on cases, and TreesHold where it is about selectors: the algorithms are
  RECURSIVE operators (Calendars, Collation, Dom, EventSource,
  Numbers, Segments, Selectors, StoredValues), of which the prover can say nothing, and
  the tables they read are excerpts, so a theorem for all values would be about no table
  there is.

## Plan

Proofs first, from what is checked:

1. `PassedOn`, from the invariants of ReadableStream and WritableStream for the two ends of Pipe and
   what `PipeInv` says of the pipe between them; `ViewsServed`, over `FillViews`.
2. Of the page: `PeersAgree` and `HeardOnceInOrder` of Ports, `OneEndEach` of Requests,
   `EndedIsQuiet` of Workers, which are small machines each, in a module of their own.

Then the modules not yet written, the most important first:

3. **Decoder** (patches 0222, 0225, 0333). `Queue`, `Take`, `Decoded`,
   `Forget`, `Collect`, `Stop`, two threads, one lock, two conditions. Runs: 3 entries,
   2 threads, a queue of 1 or 2. Properties: a job is in one place only, no
   thread decodes a freed entry's content, Forget and Stop end, an image still
   shown is decoded in the end. Theorem: no content is used after its entry.
4. **Timers** over Agenda's operations (`qjs.c`): set, clear, callback, freeze,
   close, destroy. Properties: no callback after clear or close, let go once, order
   kept across a freeze. Theorem: no use after free.
5. **Pump** (patches 0231, 0324): held data, ended transfers, the three rings.
   Abstract specification: a transfer as the page would see it with no script
   in the way; Pump implements it. Theorem: a fetch is in exactly one ring, and
   the ring it says.
6. **Entry** (`begin_script`, `end_script`, the interrupt) with two realms that
   enter each other and go; **Navigate** with a window and a frame, composed
   with Timers to replace the freeze that comes and goes.
7. **Ring** (the surface): an abstract screen that is scrolled and drawn,
   implemented by shadow, texture and offsets; **Dns**; **Pool** (the table
   against a set of pages).

Hazards that wait for these modules, besides those PROJECT.json lists: the queue
of decode jobs drops its oldest (0222:342) and is stopped while threads decode
(0222:304); the pump stops at 2 MB held (0231:305); a fetch moves between three
rings (0324:37); frozen timers are set again one by one and may change places
when the page carries on between two of them (`qjs.c:10369`); closing workers do
not count against WORKER_CAP (6038); a realm goes while one it entered runs
(19301); a request ends inside its own callback (10601); a late answer to an
earlier DNS try (`vita_dns.c:694`), and nine questions of three tries each
(755); removal from the table of pages (`qjs_alloc.c:180`) and its growth failing
half way through a batch (233); the ring's offsets (`vita.c:1711`), the event
queue that drops a key's release when full (324); held socket messages dropped
one by one past WS_HELD_MAX (9891), and a held close for which malloc fails (9901).
