------------------------------ MODULE Popovers ------------------------------
(***************************************************************************)
(* A popover (prelude.js): shown and hidden by the page's calls and by the *)
(* buttons that name it, with a beforetoggle event in the midst of each,   *)
(* in whose listeners the page may do all of it again, and a toggle event  *)
(* that comes in a later task and tells of what has been since.            *)
(*                                                                         *)
(* Whether it is shown is the element's own state (qjs.c).  It stays so    *)
(* when the element is taken out of the document or loses its attribute.   *)
(***************************************************************************)
EXTENDS Naturals, Sequences, SequencesExt

CONSTANTS MaxCalls   \* a bound: what the page calls and changes

VARIABLES
  attribute,   \* it has one that says popover
  fit,         \* it is in the document, and no dialog that is open as one
  shown,
  under,       \* the beforetoggle events under way, the innermost last
  pending,     \* the toggle event to come
  told,        \* ghost: what the last toggle event said it is
  calls

vars == <<attribute, fit, shown, under, pending, told, calls>>

State == IF shown THEN "open" ELSE "closed"
None == [old |-> "none", new |-> "none"]

Init ==
  /\ attribute \in BOOLEAN /\ fit \in BOOLEAN /\ shown = FALSE
  /\ under = <<>> /\ pending = None /\ told = "closed" /\ calls = 0

Calls == calls < MaxCalls /\ calls' = calls + 1

(* What makes the call do nothing, or throw.                               *)
Valid(showing) == attribute /\ shown # showing /\ fit

\* Mutant: the event to come says what it was to say.
KeepPending(old, new) == pending' = IF pending # None THEN pending ELSE [old |-> old, new |-> new]
(* One event tells of all there has been since the last.                   *)
QueueToggle(old, new) ==
  pending' = IF pending # None THEN [pending EXCEPT !.new = new] ELSE [old |-> old, new |-> new]

(* showPopover, hidePopover, togglePopover, and a button's activation.     *)
ShowPopover ==
  /\ Calls /\ Valid(TRUE)
  /\ under' = Append(under, "show")
  /\ UNCHANGED <<attribute, fit, shown, pending, told>>
HidePopover ==
  /\ Calls /\ Valid(FALSE)
  /\ under' = Append(under, "hide")
  /\ UNCHANGED <<attribute, fit, shown, pending, told>>

(* The listeners of beforetoggle are done.  They may cancel the showing,   *)
(* and have changed things.                                                *)
\* Mutant: what they have changed is not looked at.
ShowAnyway == ~shown
StillValid == Valid(TRUE)
ShowGoesOn ==
  /\ under # <<>> /\ Last(under) = "show"
  /\ under' = Front(under)
  /\ \/ StillValid /\ shown' = TRUE /\ QueueToggle("closed", "open")
     \/ UNCHANGED <<shown, pending>>   \* cancelled, or not valid any more
  /\ UNCHANGED <<attribute, fit, told, calls>>
HideGoesOn ==
  /\ under # <<>> /\ Last(under) = "hide"
  /\ under' = Front(under)
  /\ IF shown THEN shown' = FALSE /\ QueueToggle("open", "closed") ELSE UNCHANGED <<shown, pending>>
  /\ UNCHANGED <<attribute, fit, told, calls>>

(* The task of the toggle event.                                           *)
ToggleFires ==
  /\ under = <<>> /\ pending # None
  /\ told' = pending.new /\ pending' = None
  /\ UNCHANGED <<attribute, fit, shown, under, calls>>

(* The page takes the element out, puts it back, or changes its attribute. *)
PageChanges ==
  /\ Calls
  /\ \/ attribute' = ~attribute /\ UNCHANGED fit
     \/ fit' = ~fit /\ UNCHANGED attribute
  /\ UNCHANGED <<shown, under, pending, told>>

Next == ShowPopover \/ HidePopover \/ ShowGoesOn \/ HideGoesOn \/ ToggleFires \/ PageChanges

Spec == Init /\ [][Next]_vars

-----------------------------------------------------------------------------
(* Properties.                                                             *)

\* Toggle events tell the truth (popQueueToggle): each goes on from what the one
\* before it said, and says what the popover is when there is none after it,
\* however showing and hiding met in the listeners of beforetoggle and however
\* many of them one event stands for.
TogglesTell ==
  IF pending = None THEN told = State
  ELSE pending.old = told /\ pending.new = State

\* A popover is shown only while it may be (popValid): what a listener of
\* beforetoggle did to it, the show that went on around it has seen.
ShownIsFit == ~shown /\ shown' => attribute /\ fit
=============================================================================
