----------------------------- MODULE TokenLists -----------------------------
(***************************************************************************)
(* The token list of an element's class (DOMTokenList of prelude.js): the  *)
(* ordered set its methods make of the attribute, which is kept with the   *)
(* text it was made of; the one list every read of classList answers with, *)
(* whose indices are brought up to date on the way; and what the page does *)
(* in the callback an observed attribute has inside setAttribute.          *)
(*                                                                         *)
(* The attribute is the sequence of tokens its text is split into.         *)
(***************************************************************************)
EXTENDS Naturals, Sequences, SequencesExt

CONSTANTS Tokens, MaxCalls   \* a bound: what the page calls

VARIABLES
  attr,
  ks, kt,    \* the text the kept tokens are of, and the tokens
  indices,   \* list[0], list[1], ...
  v,         \* the text when classList was last read
  writing,   \* the writes whose callback runs: their tokens, the innermost last
  read,      \* ghost: the page has just read classList
  mixed,     \* ghost: it has set the attribute after a method, or written in a callback
  last,      \* ghost: the last method, what it was called with and found, and did
  calls

vars == <<attr, ks, kt, indices, v, writing, read, mixed, last, calls>>

Missing == <<"missing">>
Unread == <<"unread">>
Split(text) == IF text \in {Missing, Unread} THEN <<>> ELSE text
(* Of each token the first.                                                *)
Distinct(text) ==
  FoldLeft(LAMBDA out, t : IF Contains(out, t) THEN out ELSE Append(out, t), <<>>, Split(text))
Texts == {Missing, <<>>} \cup {<<t>> : t \in Tokens} \cup {<<t, u>> : t, u \in Tokens}

(* The page has read classList once, or it would have no list.             *)
Init ==
  /\ attr \in Texts
  /\ ks = attr /\ kt = Distinct(attr)
  /\ indices = kt /\ v = attr
  /\ writing = <<>> /\ read = TRUE /\ mixed = FALSE /\ last = <<>> /\ calls = 0

Calls == calls < MaxCalls /\ calls' = calls + 1

-----------------------------------------------------------------------------
(* The tokens (_tok, _t): those kept when they are of this text.           *)
Tok == IF ks = attr THEN kt ELSE Distinct(attr)

KeptNow(t) == ks' = attr /\ kt' = Tok
\* Mutant: _t() is no copy, and what the caller changes is kept.
KeptChanged(t) == ks' = attr /\ kt' = t
Keeps(t) == KeptNow(t)

(* _w: a class that is not there stays so for no tokens.                   *)
Write(t) ==
  IF attr = Missing /\ t = <<>> THEN UNCHANGED <<attr, writing>>
  ELSE attr' = t /\ writing' = Append(writing, t)

Method(op, args, t) ==
  /\ Calls /\ Keeps(t) /\ Write(t)
  /\ last' = <<op, args, Distinct(attr), t>>
  /\ read' = FALSE /\ mixed' = (mixed \/ writing # <<>>)
  /\ UNCHANGED <<indices, v>>
(* A method that writes nothing.                                           *)
NoWrite == Calls /\ Keeps(Tok) /\ read' = FALSE /\ UNCHANGED <<attr, writing, indices, v, mixed, last>>

Added(t, c) == IF Contains(t, c) THEN t ELSE Append(t, c)
Without(t, drop) == SelectSeq(t, LAMBDA c : c \notin drop)
AddTokens(c, d) == Method("add", <<c, d>>, Added(Added(Tok, c), d))
RemoveTokens(c, d) == Method("remove", <<c, d>>, Without(Tok, {c, d}))

(* force: none, or what is wanted.                                         *)
Toggle(c, force) ==
  LET has == Contains(Tok, c)
      wanted == IF force = "none" THEN ~has ELSE force = "on"
  IN  IF has = wanted THEN NoWrite
      ELSE Method(IF has THEN "remove" ELSE "add", <<c, c>>,
                  IF has THEN Without(Tok, {c}) ELSE Added(Tok, c))

(* b in the place of a, and nowhere else; of the two the first stays.      *)
SwappedIn(t, a, b) == [i \in DOMAIN t |-> IF t[i] = a THEN b ELSE t[i]]
\* Mutant: the other of two stays.
SwappedOnly(t, a, b) == SwappedIn(t, a, b)
Swapped(t, a, b) == Distinct(SwappedIn(t, a, b))
Replace(a, b) ==
  IF Contains(Tok, a) THEN Method("replace", <<a, b>>, Swapped(Tok, a, b)) ELSE NoWrite

(* The callback of a write is done: the indices are those of what was      *)
(* written, whatever it has done to the class since.                       *)
WriteEnds ==
  /\ writing # <<>>
  /\ indices' = Last(writing)
  /\ writing' = Front(writing)
  /\ read' = FALSE
  /\ UNCHANGED <<attr, ks, kt, v, mixed, last, calls>>

(* setAttribute, className, and the list's value.                          *)
SetAttribute(text) ==
  /\ Calls
  /\ attr' = text /\ read' = FALSE
  /\ mixed' = (mixed \/ writing # <<>> \/ last # <<>>)
  /\ UNCHANGED <<ks, kt, indices, v, writing, last>>

(* el.classList: the text is looked at, and when it is another than it was *)
(* on the last read the indices are made anew.                             *)
ReadClassList ==
  /\ Calls
  /\ IF v = attr THEN UNCHANGED <<ks, kt, indices, v>>
     ELSE Keeps(Tok) /\ indices' = Tok /\ v' = attr
  /\ read' = TRUE
  /\ UNCHANGED <<attr, writing, mixed, last>>

Next ==
  \/ \E c, d \in Tokens : AddTokens(c, d) \/ RemoveTokens(c, d) \/ Replace(c, d)
  \/ \E c \in Tokens, force \in {"none", "on", "off"} : Toggle(c, force)
  \/ \E text \in Texts : SetAttribute(text)
  \/ WriteEnds \/ ReadClassList

Spec == Init /\ [][Next]_vars

-----------------------------------------------------------------------------
(* Properties.                                                             *)

\* The tokens that are kept are those of the text they are kept with, so that a
\* method never works on another set than the attribute's, whatever was called in
\* the callbacks of others (_tok).
KeptAreTheTexts == kt = Distinct(ks) /\ (ks = attr => Tok = Distinct(attr))

\* What a method leaves is what was asked of the set there was: each token once,
\* those that were not named where they were in the order, one that was added
\* last, and one that replaces another where the first of the two was (add,
\* remove, toggle, replace).
Precedes(t, c, d) == \E i, j \in DOMAIN t : i < j /\ t[i] = c /\ t[j] = d
TokensAsAsked ==
  last # <<>> =>
    LET named == {last[2][1], last[2][2]}
        was == last[3]
        now == last[4]
        kept == ToSet(was) \ (IF last[1] = "add" THEN {} ELSE named)
        place == CHOOSE i \in 1..(Len(was) + 1) :
                   (i > Len(was) \/ was[i] \in named) /\ \A j \in 1..(i - 1) : was[j] \notin named
    IN  /\ IsInjective(now)
        /\ ToSet(now) = CASE last[1] = "add" -> ToSet(was) \cup named
                          [] last[1] = "remove" -> kept
                          [] OTHER -> kept \cup {last[2][2]}
        /\ \A c, d \in kept : Precedes(was, c, d) => Precedes(now, c, d)
        /\ last[1] = "add" => SubSeq(now, 1, Len(was)) = was
        /\ last[1] = "replace" => now[place] = last[2][2]

\* The indices of the list are the tokens when the page reads it (_sync, _w), as
\* long as it changes the class by the list alone, and not inside the callback of
\* another change.  Where it sets the attribute too, and back to what it was on
\* the last read, they stay those of what was written in between.
IndicesFresh == read /\ writing = <<>> /\ ~mixed => indices = Distinct(attr)
=============================================================================
