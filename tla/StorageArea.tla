---------------------------- MODULE StorageArea -----------------------------
(***************************************************************************)
(* localStorage and sessionStorage (storage.js): the pages of one origin,  *)
(* each with what it read of the card when it first asked, the write that  *)
(* is put off until a timeout, the storage events, which the page hears    *)
(* inside the call, and the card, where the file of the origin is written  *)
(* beside its name and put in its place (qjs.c).                           *)
(*                                                                         *)
(* A page's calls come from its tasks and from its storage listeners.  It  *)
(* has two: one that may call, and after it one that keeps a view of       *)
(* localStorage in step by what the events say.  Keys and values are       *)
(* strings, whose conversion runs no script.                               *)
(***************************************************************************)
EXTENDS Naturals, Sequences

CONSTANTS
  Pages,       \* of the origin: documents, frames and those that follow them
  Keys, Values,
  Areas,       \* "local", "session": what the pages use
  MaxCalls, MaxEnds   \* bounds: what the pages call and leave; the power, writes and reads lost

VARIABLES
  page,     \* what each page has
  stack,    \* the storage events under way, the innermost last
  card,     \* the file of the origin
  latest,   \* ghost: localStorage as the calls have made it
  behind,   \* ghost: the card lost what was on it, or a write or read failed
  calls, ends

vars == <<page, stack, card, latest, behind, calls, ends>>

(* What an area and the file have: a missing file is as an empty one.      *)
Items == UNION {[K -> Values] : K \in SUBSET Keys}
NoItems == <<>>
Without(items, K) == [i \in DOMAIN items \ K |-> items[i]]
With(items, k, v) == [i \in DOMAIN items \cup {k} |-> IF i = k THEN v ELSE items[i]]

(* timer: the variable; timeouts: those set and not run yet.  asked: what  *)
(* was last read, or given to be written.  mixed: it has changed an area   *)
(* in a storage event, or its sessionStorage.                              *)
NewPage ==
  [read |-> FALSE, local |-> NoItems, session |-> NoItems, dirty |-> FALSE, timer |-> FALSE,
   timeouts |-> 0, frozen |-> FALSE, asked |-> NoItems, view |-> NoItems,
   mixed |-> FALSE]

Init ==
  /\ page = [p \in Pages |-> NewPage]
  /\ card \in {NoItems} \cup {[k \in Keys |-> v] : v \in Values}
  /\ latest = card /\ behind = FALSE
  /\ stack = <<>> /\ calls = 0 /\ ends = 0

Has(p, a) == IF a = "local" THEN page[p].local ELSE page[p].session
Calls == calls < MaxCalls /\ calls' = calls + 1
Ends == ends < MaxEnds /\ ends' = ends + 1

(* Whose script runs: any page's in a task, the listener's in an event.    *)
Runs(p) == IF stack = <<>> THEN TRUE ELSE stack[Len(stack)].page = p

-----------------------------------------------------------------------------
(* What a page calls.                                                      *)

(* The page's first use has the card read.  What cannot be read is as      *)
(* nothing, to the page and to what it then writes.                        *)
ReadStore(p) ==
  /\ Runs(p) /\ ~page[p].read /\ Calls
  /\ \E read \in {card, NoItems} :
       /\ page' = [page EXCEPT ![p].read = TRUE, ![p].local = read, ![p].asked = read, ![p].view = read]
       /\ \/ read = card /\ UNCHANGED <<latest, behind, ends>>
          \/ /\ read # card /\ Ends
             /\ latest' = read /\ behind' = TRUE
  /\ UNCHANGED <<stack, card>>

(* The write is put off, unless it is already.                             *)
\* Mutant: a write is put off only when no timeout is set.
TouchIdle(was) ==
  IF was.timeouts > 0 THEN was ELSE [was EXCEPT !.dirty = TRUE, !.timer = TRUE, !.timeouts = @ + 1]
Touch(was) ==
  [was EXCEPT !.dirty = TRUE, !.timer = TRUE,
              !.timeouts = IF was.timer THEN @ ELSE @ + 1]

(* A change of an area, and the event that tells of it.  The event says    *)
(* localStorage whichever area it is of (fireStorage).                     *)
Changed(p, a, to, all) ==
  /\ page' = [page EXCEPT ![p] =
       LET now == [@ EXCEPT !.mixed = @ \/ stack # <<>> \/ a = "session"]
       IN  IF a = "local" THEN Touch([now EXCEPT !.local = to]) ELSE [now EXCEPT !.session = to]]
  /\ latest' = IF a = "local" THEN all ELSE latest
  /\ UNCHANGED <<card, behind, ends>>
FireStorage(p, key, new) == stack' = Append(stack, [page |-> p, key |-> key, new |-> new])

Uses(p, a) == Runs(p) /\ (a = "local" => page[p].read) /\ Calls

SetItem(p, a, k, v) ==
  /\ Uses(p, a)
  /\ Changed(p, a, With(Has(p, a), k, v), With(latest, k, v))
  /\ FireStorage(p, k, v)

(* localStorage.k = v, and defineProperty.                                 *)
SetProperty(p, a, k, v) == SetItem(p, a, k, v)

(* To remove an absent key is a change to be written, and no event.        *)
Removed(p, a, K) == Changed(p, a, Without(Has(p, a), K), Without(latest, K \cap DOMAIN Has(p, a)))
RemoveItem(p, a, k) ==
  /\ Uses(p, a) /\ Removed(p, a, {k})
  /\ IF k \in DOMAIN Has(p, a) THEN FireStorage(p, k, "null") ELSE UNCHANGED stack

Clear(p, a) ==
  /\ Uses(p, a) /\ Removed(p, a, Keys)
  /\ FireStorage(p, "null", "null")

(* delete localStorage.k: nothing at all when there is none.               *)
DeleteProperty(p, a, k) == k \in DOMAIN Has(p, a) /\ RemoveItem(p, a, k)

(* The first listener is done, and the second hears.                       *)
\* Mutant: an item that is removed is kept, without a value.
HeardKey(view, e) == With(view, e.key, e.new)
Heard(view, e) ==
  IF e.key = "null" THEN NoItems
  ELSE IF e.new = "null" THEN Without(view, {e.key}) ELSE With(view, e.key, e.new)
Returns ==
  /\ stack # <<>>
  /\ LET e == stack[Len(stack)]
     IN  page' = [page EXCEPT ![e.page].view = Heard(@, e)]
  /\ stack' = SubSeq(stack, 1, Len(stack) - 1)
  /\ UNCHANGED <<card, latest, behind, calls, ends>>

-----------------------------------------------------------------------------
(* The card.                                                               *)

(* The whole store is written beside the file, the file is removed and the *)
(* new one takes its name.  It may be too much for one site or for the     *)
(* card, which leaves the old file, and taking the name may fail, which    *)
(* leaves none.  The page is not told.                                     *)
Saved(image) == {image, card, NoItems}
\* Mutant: the timer is still believed in.
WrittenTimed(p) == [page[p] EXCEPT !.dirty = FALSE, !.asked = page[p].local]
Written(p) == [page[p] EXCEPT !.timer = FALSE, !.dirty = FALSE, !.asked = page[p].local]
Flush(p, was) ==
  IF ~page[p].dirty
  THEN /\ page' = [page EXCEPT ![p] = [was EXCEPT !.timer = FALSE]]
       /\ UNCHANGED <<card, behind, ends>>
  ELSE \E file \in Saved(page[p].local) :
         /\ page' = [page EXCEPT ![p] = [Written(p) EXCEPT !.timeouts = was.timeouts]]
         /\ card' = file
         /\ \/ file = page[p].local /\ behind' = FALSE /\ UNCHANGED ends
            \/ file # page[p].local /\ behind' = TRUE /\ Ends

TimeoutRuns(p) ==
  /\ stack = <<>> /\ page[p].timeouts > 0 /\ ~page[p].frozen
  /\ Flush(p, [page[p] EXCEPT !.timeouts = @ - 1])
  /\ UNCHANGED <<stack, latest, calls>>

(* flush hears pagehide, beforeunload and unload, which a page may         *)
(* dispatch itself.  Nothing else here does.                               *)
FlushByPage(p) ==
  /\ Runs(p) /\ page[p].read /\ Calls
  /\ Flush(p, page[p])
  /\ UNCHANGED <<stack, latest>>

(* A navigation away from the page commits: its timeouts wait, and go on   *)
(* when it is given up.                                                    *)
Freeze(p) ==
  /\ stack = <<>> /\ ~page[p].frozen /\ Calls
  /\ page' = [page EXCEPT ![p].frozen = TRUE]
  /\ UNCHANGED <<stack, card, latest, behind, ends>>
GivenUp(p) ==
  /\ stack = <<>> /\ page[p].frozen
  /\ page' = [page EXCEPT ![p].frozen = FALSE]
  /\ UNCHANGED <<stack, card, latest, behind, calls, ends>>

(* The page is closed: its timeouts are dropped, no event is fired.  When  *)
(* no page has the store any more it is what the card has.                 *)
PageLeft(p) ==
  /\ stack = <<>> /\ page[p].read /\ Calls
  /\ page' = [page EXCEPT ![p] = NewPage]
  /\ IF \E q \in Pages \ {p} : page[q].read
     THEN behind' = (behind \/ page[p].dirty) /\ UNCHANGED latest
     ELSE latest' = card /\ behind' = FALSE
  /\ UNCHANGED <<stack, card, ends>>

(* The power goes, maybe in a write: before the file is removed, after it, *)
(* or when the new one has its name.                                       *)
PowerLost ==
  /\ Ends
  /\ \/ UNCHANGED card
     \/ \E p \in Pages : page[p].dirty /\ card' \in Saved(page[p].local)
  /\ page' = [p \in Pages |-> NewPage]
  /\ latest' = card' /\ behind' = FALSE
  /\ stack' = <<>>
  /\ UNCHANGED calls

(* The store of another origin needs the room on the card.                 *)
Dropped ==
  /\ stack = <<>> /\ card # NoItems /\ Ends
  /\ card' = NoItems
  /\ IF \E p \in Pages : page[p].read THEN behind' = TRUE /\ UNCHANGED latest
     ELSE latest' = NoItems /\ UNCHANGED behind
  /\ UNCHANGED <<page, stack, calls>>

Script ==
  \E p \in Pages :
    \/ ReadStore(p) \/ FlushByPage(p)
    \/ \E a \in Areas :
         \/ \E k \in Keys : \E v \in Values : SetItem(p, a, k, v) \/ SetProperty(p, a, k, v)
         \/ \E k \in Keys : RemoveItem(p, a, k) \/ DeleteProperty(p, a, k)
         \/ Clear(p, a)

Next ==
  \/ Script \/ Returns \/ PowerLost \/ Dropped
  \/ \E p \in Pages : TimeoutRuns(p) \/ Freeze(p) \/ GivenUp(p) \/ PageLeft(p)

Spec == Init /\ [][Next]_vars

-----------------------------------------------------------------------------
(* Properties.                                                             *)

\* Types: what every variable holds (storage.js).
TypeOK ==
  /\ page \in [Pages -> [read : BOOLEAN, local : Items, session : Items, dirty : BOOLEAN,
                         timer : BOOLEAN, timeouts : 0..MaxCalls, frozen : BOOLEAN,
                         asked : Items, view : Items, mixed : BOOLEAN]]
  /\ card \in Items
  /\ latest \in Items /\ behind \in BOOLEAN

\* No write is forgotten (touch and flush, storage.js): while a page has what
\* it has not given to be written, it knows and a timeout is set that writes
\* it, however timeouts, flushes the page fires itself and calls from inside
\* events come one after the other; and a timer it believes in is set.
NoWriteForgotten ==
  \A p \in Pages :
    /\ page[p].local # page[p].asked => page[p].dirty
    /\ page[p].dirty => page[p].timer
    /\ page[p].timer => page[p].timeouts > 0

\* The card catches up (storage.js): when no page has a write put off, and the
\* card has not lost or refused any since, what a page reads of it is what all
\* the calls made of localStorage.  This is of a page that has the origin to
\* itself: of two each writes its own copy, and takes away what the other stored.
CardCatchesUp ==
  (~behind /\ \A p \in Pages : ~page[p].dirty) => card = latest

\* A page that keeps a view of localStorage by the storage events, as those at
\* fireStorage are for, has it in step between tasks as long as it stores from
\* tasks and in localStorage only: of two changes that nest the outer one is
\* told last, and the event of another area does not say so (fireStorage).
ViewsInStep ==
  stack = <<>> => \A p \in Pages : page[p].mixed \/ page[p].view = page[p].local
=============================================================================
