------------------------------- MODULE Forms -------------------------------
(***************************************************************************)
(* Clicks and forms (vita/js/prelude.js): what a click that script makes   *)
(* does to a control before its listeners run and after, and how a form is *)
(* submitted and reset.  All of it runs the page's listeners in its midst, *)
(* and these may click, submit, disable or take away what it works on: the *)
(* events being dispatched are a stack, innermost first, and what follows  *)
(* each is done when it is taken off.                                      *)
(*                                                                         *)
(* The form, all of it in a fieldset, has a checkbox, two radio buttons of *)
(* one name, a label that holds the checkbox, a button that submits it and *)
(* one that resets it.  It is sent, or closes its dialog.                  *)
(***************************************************************************)
EXTENDS Naturals, Sequences, TLC

CONSTANTS MaxClicks,  \* clicks and calls of the page and its user
          MaxChanges  \* controls it disables, checks or enables, and moves of the form

Radios == {"left", "right"}
Checkables == Radios \cup {"box"}
Clickable == Checkables \cup {"send", "clear", "label"}

VARIABLES checked,   \* the controls that are checked
          default,   \* those the document checks
          disabled,  \* controls, and the fieldset
          inDoc,     \* the form is in the document
          dialog,    \* its method is dialog
          building,  \* form.__vsBuilding
          firing,    \* form.__vsFiring
          stack,     \* the events being dispatched
          owed,      \* entry lists whose sending waits for a task
          sent,      \* those sent, and dialogs closed
          clicks, changes,
          told,      \* what was checked as far as changes and resets tell
          forced,    \* script checked a control itself
          crossed    \* a click was undone after others had been made in it

vars == <<checked, default, disabled, inDoc, dialog, building, firing, stack, owed, sent,
          clicks, changes, told, forced, crossed>>

form == <<building, firing>>
page == <<default, disabled, inDoc, dialog, changes, forced>>

Init ==
  /\ default \in {{}, {"left"}} /\ checked = default /\ told = default
  /\ disabled = {} /\ inDoc = TRUE /\ dialog \in BOOLEAN
  /\ building = FALSE /\ firing = FALSE
  /\ stack = <<>> /\ owed = <<>> /\ sent = <<>>
  /\ clicks = 0 /\ changes = 0
  /\ forced = FALSE /\ crossed = FALSE

-----------------------------------------------------------------------------
\* Dispatching an event: its listeners are to run, and whatever `rest' is of
\* the stack waits.
Fire(e, rest) == stack' = <<e>> \o rest
Event(type) == [type |-> type]

Return(rest) == stack' = rest

controlDisabled(c) == {c, "fieldset"} \cap disabled # {}

\* otherActivation and preActivate: what a click at c is to do, after the
\* control has been changed.
Activation(c) ==
  CASE c = "label" -> "label"
    [] c = "send" -> IF c \in disabled THEN "none" ELSE "submit"
    [] c = "clear" -> IF c \in disabled THEN "none" ELSE "reset"
    [] c = "box" -> "checkbox"
    [] c \in Radios -> IF c \in checked THEN "checked radio" ELSE "radio"

Activated(c) ==
  CASE c = "box" -> IF c \in checked THEN checked \ {c} ELSE checked \cup {c}
    [] c \in Radios -> IF c \in checked THEN checked ELSE (checked \ Radios) \cup {c}
    [] OTHER -> checked

\* dispatchEvent of a click.
Clicked(c, rest) ==
  /\ checked' = Activated(c)
  /\ Fire(Event("click") @@ [at |-> c, act |-> Activation(c), before |-> checked,
                             clicks |-> clicks'], rest)

\* formEntryList, as far as the formdata event.
Entries(by) ==
  {c \in checked : ~controlDisabled(c)}
    \cup {c \in {"send"} : by = c /\ ~controlDisabled(c)}

Build(by, sends, rest) ==
  IF building THEN Return(rest) /\ UNCHANGED building
  ELSE /\ building' = TRUE
       /\ Fire(Event("formdata") @@ [entries |-> Entries(by), sends |-> sends], rest)

\* formSubmit once it is to go on: the dialog is closed, or the list is built.
Goes(by, rest) ==
  IF dialog THEN Return(rest) /\ sent' = Append(sent, {"closed"}) /\ UNCHANGED building
            ELSE Build(by, TRUE, rest) /\ UNCHANGED sent

formSubmit(by, fromMethod, rest) ==
  IF ~inDoc \/ building \/ (~fromMethod /\ firing)
    THEN Return(rest) /\ UNCHANGED <<building, firing, sent>>
  ELSE IF fromMethod THEN Goes(by, rest) /\ UNCHANGED firing
  ELSE /\ firing' = TRUE
       /\ Fire(Event("submit") @@ [by |-> by], rest)
       /\ UNCHANGED <<building, sent>>

-----------------------------------------------------------------------------
(* What the page's code does, in a task or in the listeners of the event   *)
(* on top.                                                                 *)

Call == clicks + changes < MaxClicks /\ clicks' = clicks + 1

\* c.click(), which does nothing at a disabled control, or a click event that
\* the page dispatches itself.
Click(c) ==
  /\ Call
  /\ Clicked(c, stack)
  /\ UNCHANGED <<page, form, owed, sent, told, crossed>>

requestSubmit(by) ==
  /\ Call
  /\ formSubmit(by, FALSE, stack)
  /\ UNCHANGED <<page, checked, owed, told, crossed>>

submit ==
  /\ Call
  /\ formSubmit("none", TRUE, stack)
  /\ UNCHANGED <<page, checked, owed, told, crossed>>

reset ==
  /\ Call
  /\ Fire(Event("reset"), stack)
  /\ UNCHANGED <<page, checked, form, owed, sent, told, crossed>>

\* new FormData(form), which throws while a list is being built.
FormData(by) ==
  /\ Call /\ ~building
  /\ Build(by, FALSE, stack)
  /\ UNCHANGED <<page, checked, firing, owed, sent, told, crossed>>

\* Enter in a field, __vitaImplicitSubmit.  A tap on the button, __vitaSubmit,
\* is requestSubmit of the user's.
Enter ==
  /\ stack = <<>> /\ Call /\ ~controlDisabled("send")
  /\ Clicked("send", stack)
  /\ UNCHANGED <<page, form, owed, sent, told, crossed>>

Change ==
  /\ changes < MaxChanges /\ clicks + changes < MaxClicks /\ changes' = changes + 1
  /\ \/ \E c \in {"box", "send", "clear", "fieldset"} :
          /\ disabled' = IF c \in disabled THEN disabled \ {c} ELSE disabled \cup {c}
          /\ UNCHANGED <<checked, inDoc, forced>>
     \/ \E c \in Checkables :
          /\ checked' = IF c \in checked THEN checked \ {c} ELSE checked \cup {c}
          /\ forced' = TRUE
          /\ UNCHANGED <<disabled, inDoc>>
     \/ inDoc' = ~inDoc /\ UNCHANGED <<checked, disabled, forced>>
  /\ UNCHANGED <<default, dialog, form, stack, owed, sent, clicks, told, crossed>>

-----------------------------------------------------------------------------
(* What is done when the listeners of the event on top have run: they may  *)
(* have prevented it, or have added an entry to a formdata event's list.   *)

Done(type) == stack # <<>> /\ Head(stack).type = type
Rest == Tail(stack)

\* dispatchEvent, after the listeners of a click.
ClickDone ==
  /\ Done("click")
  /\ UNCHANGED clicks
  /\ \E prevented \in BOOLEAN : LET e == Head(stack) IN
     \/ /\ prevented
        /\ LET undone == CASE e.act = "checkbox" -> {"box"}
                           [] e.act \in {"radio", "checked radio"} -> Radios
                           [] OTHER -> {}
           IN  /\ checked' = (checked \ undone) \cup (e.before \cap undone)
               /\ crossed' = (crossed \/ (undone # {} /\ clicks > e.clicks))
        /\ Return(Rest)
        /\ UNCHANGED <<form, sent>>
     \/ /\ ~prevented /\ e.act \in {"checkbox", "radio"}
        /\ Fire(Event("input") @@ [at |-> e.at], Rest)
        /\ UNCHANGED <<checked, form, sent, crossed>>
     \/ /\ ~prevented /\ e.act = "label"
        /\ IF "box" \in disabled THEN Return(Rest) /\ UNCHANGED checked
                                 ELSE Clicked("box", Rest)
        /\ UNCHANGED <<form, sent, crossed>>
     \/ /\ ~prevented /\ e.act = "submit"
        /\ IF "send" \in disabled \/ ~inDoc THEN Return(Rest) /\ UNCHANGED <<form, sent>>
                                            ELSE formSubmit("send", FALSE, Rest)
        /\ UNCHANGED <<checked, crossed>>
     \/ /\ ~prevented /\ e.act = "reset"
        /\ IF "clear" \in disabled THEN Return(Rest) ELSE Fire(Event("reset"), Rest)
        /\ UNCHANGED <<checked, form, sent, crossed>>
     \/ /\ ~prevented /\ e.act \in {"none", "checked radio"}
        /\ Return(Rest)
        /\ UNCHANGED <<checked, form, sent, crossed>>
  /\ UNCHANGED <<page, owed, told>>

\* fireAfterActivate: input and then change.
InputDone ==
  /\ Done("input")
  /\ Fire(Event("change") @@ [at |-> Head(stack).at], Rest)
  /\ LET shown == IF Head(stack).at = "box" THEN {"box"} ELSE Radios
     IN  told' = (told \ shown) \cup (checked \cap shown)
  /\ UNCHANGED <<page, checked, form, owed, sent, clicks, crossed>>

ChangeDone ==
  /\ Done("change")
  /\ Return(Rest)
  /\ UNCHANGED <<page, checked, form, owed, sent, clicks, told, crossed>>

SubmitDone ==
  /\ Done("submit")
  /\ firing' = FALSE
  /\ \/ Return(Rest) /\ UNCHANGED <<building, sent>>
     \/ Goes(Head(stack).by, Rest)
  /\ UNCHANGED <<page, checked, owed, clicks, told, crossed>>

\* The list is there: it is sent, later, if the form is still in the document.
FormdataDone ==
  /\ Done("formdata")
  /\ building' = FALSE
  /\ \E more \in SUBSET {"more"} :
       owed' = IF Head(stack).sends /\ inDoc THEN Append(owed, Head(stack).entries \cup more)
                                            ELSE owed
  /\ Return(Rest)
  /\ UNCHANGED <<page, checked, firing, sent, clicks, told, crossed>>

ResetDone ==
  /\ Done("reset")
  /\ \/ UNCHANGED <<checked, told>>
     \/ checked' = default /\ told' = default
  /\ Return(Rest)
  /\ UNCHANGED <<page, form, owed, sent, clicks, crossed>>

\* The task that goes where the form is sent.
Send ==
  /\ stack = <<>> /\ owed # <<>>
  /\ sent' = Append(sent, Head(owed))
  /\ owed' = Tail(owed)
  /\ UNCHANGED <<page, checked, form, stack, clicks, told, crossed>>

Next ==
  \/ \E c \in Clickable : Click(c)
  \/ \E by \in {"none", "send"} : requestSubmit(by) \/ FormData(by)
  \/ submit
  \/ reset
  \/ Enter
  \/ Change
  \/ ClickDone
  \/ InputDone
  \/ ChangeDone
  \/ SubmitDone
  \/ FormdataDone
  \/ ResetDone
  \/ Send

-----------------------------------------------------------------------------
\* Of the radio buttons of a group no two are checked, whatever listeners click
\* in the midst of a click that is undone after, as long as script checks none
\* itself (preActivate, cancelActivate).
OneOfAGroup == forced \/ ~(Radios \subseteq checked)

\* A submit event and the building of a list run once at a time, whatever their
\* listeners ask for, and leave their mark on the form while they run and no
\* longer, also when they are prevented or the form is taken out
\* (formSubmit, formEntryList); and no click or call sends the form twice.
OneAtATime ==
  LET Now(type) == SelectSeq(stack, LAMBDA e : e.type = type)
  IN  /\ Len(Now("formdata")) = (IF building THEN 1 ELSE 0)
      /\ Len(Now("submit")) = (IF firing THEN 1 ELSE 0)
      /\ Len(owed) + Len(sent) <= clicks

\* When all has returned, the page was told of all that was checked or is not
\* any more, by the last change of each or by a reset, unless a click was
\* undone in which others had been made (fireAfterActivate).
ChangesAreTold == stack = <<>> /\ ~forced /\ ~crossed => told = checked
=============================================================================
