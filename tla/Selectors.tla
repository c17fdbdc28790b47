------------------------------- MODULE Selectors -------------------------------
(***************************************************************************)
(* The selector engine (vita/js/prelude.js): the text of a selector cut    *)
(* into groups, compounds and simple selectors, and these matched, from    *)
(* the right, against a tree of elements.  A text is a sequence of         *)
(* characters; a word of letters and hyphens counts as one.                *)
(***************************************************************************)
EXTENDS Integers, Sequences, FiniteSets
LOCAL INSTANCE SequencesExt
LOCAL INSTANCE FiniteSetsExt

None == "none"
At(t, i) == IF i \in DOMAIN t THEN t[i] ELSE "end"
Blank == {" "}
Hex == {"3", "0", "2", "1"}
Words == {"p", "q", "not", "is", "has", "first-child", "last-of-type", "scope", "nth-child", "empty", "n", "+1", "odd", "-", "-1"}
\* ICH: a character of an identifier, but for the escapes.
Plain(c) == c \in Words \cup Hex

-----------------------------------------------------------------------------
(* Cutting a text.                                                         *)
\* escLen: the hexadecimal digits of an escape and one blank, or one character.
EscLen(t, i) ==
  LET digits == {n \in 1..6 : \A k \in 1..n : At(t, i + k) \in Hex}
      n == IF digits = {} THEN 0 ELSE Max(digits)
  IN  IF n = 0 THEN 2 ELSE n + 1 + (IF At(t, i + n + 1) \in Blank THEN 1 ELSE 0)
\* What a character is, after what went before it: brackets deepen, a quote lasts to its
\* like, and an escape is passed over.  It counts if it is outside of all of them.
Marks == {"'", "\"", "[", "(", "]", ")"}
Step(t, i, s, meant) ==
  [open |-> Append(s.open, meant /\ s.depth = 0 /\ t[i] \notin Marks),
   skip |-> IF s.skip > 0 THEN s.skip - 1 ELSE IF t[i] = "\\" THEN EscLen(t, i) - 1 ELSE 0,
   quote |-> IF meant /\ t[i] \in {"'", "\""} THEN t[i] ELSE IF s.skip = 0 /\ t[i] = s.quote THEN None ELSE s.quote,
   depth |-> s.depth + (CASE meant /\ t[i] \in {"[", "("} -> 1 [] meant /\ t[i] \in {"]", ")"} -> -1 [] OTHER -> 0)]
Counts(t, i, s) == s.skip = 0 /\ t[i] # "\\" /\ s.quote = None
\* The places of a text where a character means what it is.
Open(t) ==
  LET s[i \in 0..Len(t)] ==
        IF i = 0 THEN [skip |-> 0, quote |-> None, depth |-> 0, open |-> <<>>]
        ELSE LET before == s[i - 1] IN Step(t, i, before, Counts(t, i, before))
  IN  s[Len(t)].open
Trim(t) == LET ends == {i \in DOMAIN t : t[i] \notin Blank}
           IN  IF ends = {} THEN <<>> ELSE SubSeq(t, Min(ends), Max(ends))
\* splitTop: what lies between the characters, and with keep they too, but for blanks.
Ends(t, open, chars) == SelectSeq([i \in DOMAIN t |-> i], LAMBDA i : open[i] /\ t[i] \in chars)
Pieces(t, ends, keep) ==
  SelectSeq(FlattenSeq([n \in 1..Len(ends) + 1 |->
      <<Trim(SubSeq(t, IF n = 1 THEN 1 ELSE ends[n - 1] + 1, IF n > Len(ends) THEN Len(t) ELSE ends[n] - 1))>>
      \o IF keep /\ n <= Len(ends) /\ t[ends[n]] \notin Blank THEN <<<<t[ends[n]]>>>> ELSE <<>>]), LAMBDA x : x # <<>>)
SplitTop(t, chars, keep) == Pieces(t, Ends(t, Open(t), chars), keep)
\* pseudoStart
PseudoStart(t) == Head(Append(Ends(t, Open(t), {":"}), Len(t) + 1))
\* unescapeIdent
Letter(hex) == CASE hex = <<"3", "0">> -> "0" [] hex = <<"2", "3">> -> "#" [] OTHER -> "?"
Escaped(t, i, n) == IF At(t, i + 1) \in Hex THEN Letter(Trim(SubSeq(t, i + 1, i + n - 1))) ELSE At(t, i + 1)
RECURSIVE UnescapeFrom(_, _)
UnescapeFrom(t, i) == CASE i > Len(t) -> <<>>
                        [] At(t, i) = "\\" -> <<Escaped(t, i, EscLen(t, i))>> \o UnescapeFrom(t, i + EscLen(t, i))
                        [] OTHER -> <<t[i]>> \o UnescapeFrom(t, i + 1)
Unescape(t) == UnescapeFrom(t, 1)

-----------------------------------------------------------------------------
(* A compound: SIMPLE_RE takes a tag, one id, classes and attributes in    *)
(* that order, and nothing else; what comes after the first colon is read  *)
(* for its pseudos only.                                                   *)
RECURSIVE IdentEnd(_, _)
IdentEnd(t, i) == CASE At(t, i) = "\\" /\ i < Len(t) -> IdentEnd(t, i + EscLen(t, i))
                    [] Plain(At(t, i)) -> IdentEnd(t, i + 1)
                    [] OTHER -> i
\* Names with a mark before each, and where they end.
Marked(t, i, mark) == IF At(t, i) = mark THEN IdentEnd(t, i + 1) ELSE i
RECURSIVE Named(_, _, _, _)
Named(t, i, j, found) == IF j <= i + 1 THEN [names |-> found, end |-> i]
                         ELSE Named(t, j, Marked(t, j, "."), Append(found, Unescape(SubSeq(t, i + 1, j - 1))))
\* ATTR_RE: a name, or a name, an operator and a value with or without its quotes.
Operators == {"=", "^=", "$=", "*=", "~=", "|="}
Bare(value) == IF At(value, 1) \in {"'", "\""} THEN SubSeq(value, 2, Len(value) - 1) ELSE value
Attribute(body, op) == IF op > Len(body) THEN [name |-> Trim(body), op |-> None, val |-> <<>>]
                       ELSE [name |-> Trim(SubSeq(body, 1, op - 1)), op |-> body[op],
                             val |-> Unescape(Bare(Trim(SubSeq(body, op + 1, Len(body)))))]
NextOf(t, i, chars) == Min({j \in i..Len(t) : t[j] \in chars} \cup {Len(t) + 1})
RECURSIVE Attributes(_, _, _, _)
Attributes(t, i, j, found) ==
  IF At(t, i) # "[" \/ j > Len(t) THEN [attrs |-> found, end |-> i]
  ELSE Attributes(t, j + 1, NextOf(t, j + 1, {"]"}), Append(found, Attribute(SubSeq(t, i + 1, j - 1), NextOf(SubSeq(t, i + 1, j - 1), 1, Operators))))
\* PSEUDO_RE: a colon, a word, and what is in parentheses if no parenthesis is in that; one
\* in the argument of another is read with it.
Argument(t, i) == LET j == NextOf(t, i + 3, {"(", ")"})
                  IN  IF At(t, i + 2) = "(" /\ At(t, j) = ")" THEN SubSeq(t, i + 3, j - 1) ELSE <<>>
Colons(t) == SelectSeq([i \in DOMAIN t |-> i], LAMBDA i : t[i] = ":" /\ At(t, i + 1) \in Words)
Outer(t, colons) == SelectSeq(colons, LAMBDA i : \A k \in ToSet(colons) : k < i => k + 2 + Len(Argument(t, k)) < i)
RECURSIVE Compile(_)
PseudoOf(name, arg) == [name |-> name, arg |-> arg, sub |-> IF name \in {"not", "is", "has"} THEN Compile(arg) ELSE <<>>]
Pseudos(t, at) == [n \in DOMAIN at |-> PseudoOf(t[at[n] + 1], Argument(t, at[n]))]
\* parseSimple: `of' says whether the head is of that form.
Simple(h, tag, id, classes, attrs, pseudos) ==
  [of |-> attrs.end > Len(h),
   sel |-> [tag |-> IF At(h, 1) = "*" THEN <<>> ELSE Unescape(SubSeq(h, 1, tag - 1)), id |-> Unescape(SubSeq(h, tag + 1, id - 1)),
            classes |-> classes.names, attrs |-> attrs.attrs, pseudos |-> pseudos]]
AfterClasses(h, tag, id, classes, pseudos) == Simple(h, tag, id, classes, Attributes(h, classes.end, NextOf(h, classes.end, {"]"}), <<>>), pseudos)
AfterId(h, tag, id, pseudos) == AfterClasses(h, tag, id, Named(h, id, Marked(h, id, "."), <<>>), pseudos)
AfterTag(h, tag, pseudos) == AfterId(h, tag, IF Marked(h, tag, "#") > tag + 1 THEN Marked(h, tag, "#") ELSE tag, pseudos)
Cut(t, cut) == AfterTag(SubSeq(t, 1, cut - 1), IF At(t, 1) = "*" THEN 2 ELSE IF At(t, 1) \in Words THEN IdentEnd(SubSeq(t, 1, cut - 1), 1) ELSE 1,
                        Pseudos(SubSeq(t, cut, Len(t)), Outer(SubSeq(t, cut, Len(t)), Colons(SubSeq(t, cut, Len(t))))))
ParseSimple(t) == Cut(t, PseudoStart(t))
\* compileUncached: groups of compounds, each with what joins it to the one before; a
\* group with a compound of another form is left out.
Combs == {<<">">>, <<"+">>, <<"~">>}
Group(tokens, simple, at) ==
  IF \E i \in ToSet(at) : ~simple[i].of THEN <<>>
  ELSE [n \in DOMAIN at |-> [sel |-> simple[at[n]].sel, comb |-> IF at[n] > 1 /\ tokens[at[n] - 1] \in Combs THEN tokens[at[n] - 1][1] ELSE " "]]
GroupOf(tokens) == Group(tokens, [i \in {k \in DOMAIN tokens : tokens[k] \notin Combs} |-> ParseSimple(tokens[i])],
                         SelectSeq([i \in DOMAIN tokens |-> i], LAMBDA i : tokens[i] \notin Combs))
Groups(texts) == SelectSeq([i \in DOMAIN texts |-> GroupOf(SplitTop(texts[i], {">", "+", "~", " "}, TRUE))], LAMBDA g : g # <<>>)
Compile(t) == Groups(SplitTop(t, {","}, FALSE))

-----------------------------------------------------------------------------
(* Matching.  A tree has its elements in tree order, 0 the node above the  *)
(* first: the document, or with `fragment' a fragment or shadow root.      *)
Els(t) == 1..Len(t.up)
Like(t, e) == {f \in Els(t) : t.up[f] = t.up[e]}
Above(t, e) == {f \in 1..e - 1 : \A g \in f + 1..e : t.up[g] >= f}
PrevEl(t, e) == Max({f \in Like(t, e) : f < e} \cup {0})
NextEl(t, e) == Min({f \in Like(t, e) : f > e} \cup {Len(t.up) + 1})
\* placeOf: counted from the nearest like sibling that has its place in the map; all on
\* the way get theirs.
StepsTo(t, map, e, back, type) ==
  LET like == {f \in Like(t, e) : (~type \/ t.tag[f] = t.tag[e]) /\ IF back THEN f >= e ELSE f <= e}
      placed == {f \in like : map[f] > 0}
      near == IF placed = {} THEN {} ELSE {IF back THEN Min(placed) ELSE Max(placed)}
  IN  [path |-> {f \in like : \A p \in near : IF back THEN f < p ELSE f > p},
       from |-> IF near = {} THEN 0 ELSE map[CHOOSE p \in near : TRUE]]
PlaceOf(t, map, e, back, type) ==
  LET way == StepsTo(t, map, e, back, type)
  IN  [f \in Els(t) |-> IF f \notin way.path THEN map[f]
                        ELSE way.from + Cardinality({g \in way.path : IF back THEN g >= f ELSE g <= f})]
Unplaced(t) == [e \in Els(t) |-> 0]
Place(t, e, back, type) == PlaceOf(t, Unplaced(t), e, back, type)[e]
\* nthOk: an + b, odd, or a number.
Number(c) == CASE c = "0" -> 0 [] c = "1" -> 1 [] c = "2" -> 2 [] c = "3" -> 3 [] c = "+1" -> 1 [] c = "-1" -> -1 [] c = "-" -> -1
NthOk(arg, i) ==
  LET n == Max({k \in DOMAIN arg : arg[k] = "n"} \cup {0})
      a == IF n = 1 THEN 1 ELSE Number(arg[1])
      b == IF n < Len(arg) THEN Number(arg[n + 1]) ELSE 0
  IN  CASE arg = <<"odd">> -> i % 2 = 1
        [] arg # <<"odd">> /\ n = 0 -> Number(arg[1]) = i
        [] n > 0 /\ a = 0 -> i = b
        [] n > 0 /\ a > 0 -> i >= b /\ (i - b) % a = 0
        [] OTHER -> i <= b /\ (b - i) % (0 - a) = 0
\* attrOk
Holds(v, x) == \E i \in 0..Len(v) - Len(x) : SubSeq(v, i + 1, i + Len(x)) = x
AttrOk(vals, q) ==
  \E v \in vals :
    CASE q.op = None -> TRUE
      [] q.op = "=" -> v = q.val
      [] q.op = "^=" -> IsPrefix(q.val, v)
      [] q.op = "$=" -> IsSuffix(q.val, v)
      [] q.op = "*=" -> Holds(v, q.val)
      [] q.op = "~=" -> Holds(<<" ">> \o v \o <<" ">>, <<" ">> \o q.val \o <<" ">>)
      [] q.op = "|=" -> v = q.val \/ IsPrefix(Append(q.val, "-"), v)
\* matchSimple, pseudoOk, matchAt: a step that matches the nearest is not always the one
\* from which the rest does, so each is tried.
ScopeOnly(q) == q.tag = <<>> /\ q.id = <<>> /\ q.classes = <<>> /\ q.attrs = <<>> /\ [i \in DOMAIN q.pseudos |-> q.pseudos[i].name] = <<"scope">>
RECURSIVE MatchAt(_, _, _, _, _)
AnyGroup(t, scope, e, groups) == \E g \in DOMAIN groups : MatchAt(t, scope, e, groups[g], Len(groups[g]))
PseudoOk(t, scope, e, p) ==
  CASE p.name = "not" -> ~AnyGroup(t, scope, e, p.sub)
    [] p.name = "is" -> AnyGroup(t, scope, e, p.sub)
    [] p.name = "has" -> \E f \in Els(t) : e \in Above(t, f) /\ AnyGroup(t, scope, f, p.sub)
    [] p.name = "first-child" -> PrevEl(t, e) = 0
    [] p.name = "last-of-type" -> Place(t, e, TRUE, TRUE) = 1
    [] p.name = "nth-child" -> NthOk(p.arg, Place(t, e, FALSE, FALSE))
    [] p.name = "empty" -> ~\E f \in Els(t) : t.up[f] = e
    [] p.name = "scope" -> e = scope
MatchSimple(t, scope, e, q) ==
  IF e = 0 THEN scope = 0 /\ ScopeOnly(q)
  ELSE /\ q.tag = <<>> \/ t.tag[e] = q.tag
       /\ q.id = <<>> \/ t.id[e] = q.id
       /\ ToSet(q.classes) \subseteq t.classes[e]
       /\ \A i \in DOMAIN q.attrs : AttrOk(t.attr[e], q.attrs[i])
       /\ \A i \in DOMAIN q.pseudos : PseudoOk(t, scope, e, q.pseudos[i])
Nearest(t, scope, e) == IF t.up[e] > 0 \/ scope = 0 THEN {t.up[e]} ELSE {}
\* Mutant: only the nearest step is tried.
NearestSteps(t, scope, e, comb) ==
  CASE comb \in {">", " "} -> Nearest(t, scope, e)
    [] OTHER -> {PrevEl(t, e)} \ {0}
\* Where a step of a combinator may lead.
Steps(t, scope, e, comb) ==
  CASE comb = ">" -> Nearest(t, scope, e)
    [] comb = "+" -> {PrevEl(t, e)} \ {0}
    [] comb = "~" -> {f \in Like(t, e) : f < e}
    [] comb = " " -> Above(t, e) \cup (IF scope = 0 THEN {0} ELSE {})
MatchAt(t, scope, e, parts, i) ==
  /\ MatchSimple(t, scope, e, parts[i].sel)
  /\ i = 1 \/ (e # 0 /\ \E f \in Steps(t, scope, e, parts[i].comb) : MatchAt(t, scope, f, parts, i - 1))

-----------------------------------------------------------------------------
(* Asking.                                                                 *)
\* select: one group that ends in an id asks the document for that; else every element
\* below in turn, up to the first one that matches unless all are wanted.
ScopeOf(t, root) == IF root = 0 /\ ~t.fragment THEN 1 ELSE root
Inside(t, root) == SelectSeq([e \in Els(t) |-> e], LAMBDA e : root = 0 \/ root \in Above(t, e))
ById(t, id) == {Min({e \in Els(t) : t.id[e] = id} \cup {Len(t.up) + 1})} \cap Els(t)
Select(t, root, groups, all) ==
  LET scope == ScopeOf(t, root)
      key == Last(groups[1]).sel
      byId == ~t.fragment /\ Len(groups) = 1 /\ key.id # <<>> /\ key.classes = <<>> /\ key.pseudos = <<>>
      among == IF byId THEN SelectSeq(Inside(t, root), LAMBDA e : e \in ById(t, key.id)) ELSE Inside(t, root)
      found == SelectSeq(among, LAMBDA e : AnyGroup(t, scope, e, groups))
  IN  IF groups = <<>> THEN <<>> ELSE IF all THEN found ELSE SubSeq(found, 1, Min({1, Len(found)}))
\* closest: it, or the nearest above it, with it for scope.
Closest(t, e, groups) == Max({f \in Above(t, e) \cup {e} : AnyGroup(t, e, f, groups)} \cup {0})

-----------------------------------------------------------------------------
(* Cases: compounds with what they mean, joined in groups.                 *)
Anything == [tag |-> <<>>, id |-> <<>>, classes |-> <<>>, attrs |-> <<>>, pseudos |-> <<>>]
Pseudo(name, arg, sub) == [Anything EXCEPT !.pseudos = <<[name |-> name, arg |-> arg, sub |-> sub]>>]
Only(name, of, comb) == [sel |-> [Anything EXCEPT ![name] = of], comb |-> comb]
HasAttr(op, val) == [Anything EXCEPT !.attrs = <<[name |-> <<"p">>, op |-> op, val |-> val]>>]
Compounds == <<
  <<<<"p">>, [Anything EXCEPT !.tag = <<"p">>]>>,
  <<<<"q">>, [Anything EXCEPT !.tag = <<"q">>]>>,
  <<<<"*">>, Anything>>,
  <<<<"#", "p">>, [Anything EXCEPT !.id = <<"p">>]>>,
  <<<<"p", "#", "q", ".", "p", ".", "q">>, [Anything EXCEPT !.tag = <<"p">>, !.id = <<"q">>, !.classes = <<<<"p">>, <<"q">>>>]>>,
  <<<<".", "p", "\\", ":", "q">>, [Anything EXCEPT !.classes = <<<<"p", ":", "q">>>>]>>,
  <<<<".", "\\", "3", "0", " ", "p">>, [Anything EXCEPT !.classes = <<<<"0", "p">>>>]>>,
  <<<<"[", "p", "]">>, HasAttr(None, <<>>)>>,
  <<<<"[", "p", "~=", "\"", "p", "\"", "]">>, HasAttr("~=", <<"p">>)>>,
  <<<<"q", "[", "p", "|=", "'", ",", " ", ">", "'", "]">>, [HasAttr("|=", <<",", " ", ">">>) EXCEPT !.tag = <<"q">>]>>,
  <<<<".", "p", "[", "p", "^=", "p", "]", "[", "p", "$=", "q", "]">>,
    [Anything EXCEPT !.classes = <<<<"p">>>>, !.attrs = <<[name |-> <<"p">>, op |-> "^=", val |-> <<"p">>], [name |-> <<"p">>, op |-> "$=", val |-> <<"q">>]>>]>>,
  <<<<":", "first-child">>, Pseudo("first-child", <<>>, <<>>)>>,
  <<<<":", "last-of-type">>, Pseudo("last-of-type", <<>>, <<>>)>>,
  <<<<"p", ":", "not", "(", ".", "p", ",", "#", "q", ")">>, [Pseudo("not", <<".", "p", ",", "#", "q">>, <<<<Only("classes", <<<<"p">>>>, " ")>>, <<Only("id", <<"q">>, " ")>>>>) EXCEPT !.tag = <<"p">>]>>,
  <<<<":", "has", "(", "p", " ", "q", ")">>, Pseudo("has", <<"p", " ", "q">>, <<<<Only("tag", <<"p">>, " "), Only("tag", <<"q">>, " ")>>>>)>>,
  <<<<":", "is", "(", "p", ">", "q", ")", ":", "empty">>,
    [Anything EXCEPT !.pseudos = <<[name |-> "is", arg |-> <<"p", ">", "q">>, sub |-> <<<<Only("tag", <<"p">>, " "), Only("tag", <<"q">>, ">")>>>>],
                              [name |-> "empty", arg |-> <<>>, sub |-> <<>>]>>]>>,
  <<<<":", "nth-child", "(", "2", "n", "+1", ")">>, Pseudo("nth-child", <<"2", "n", "+1">>, <<>>)>>,
  <<<<":", "nth-child", "(", "-", "n", "2", ")">>, Pseudo("nth-child", <<"-", "n", "2">>, <<>>)>>,
  <<<<":", "scope">>, Pseudo("scope", <<>>, <<>>)>>>>
Joins == <<<<<<" ">>, " ">>, <<<<" ", ">", " ">>, ">">>, <<<<"+">>, "+">>, <<<<" ", "~">>, "~">>>>
Text(xs, joins) == Compounds[xs[1]][1] \o FlattenSeq([i \in DOMAIN joins |-> Joins[joins[i]][1] \o Compounds[xs[i + 1]][1]])
Meant(xs, joins) == [i \in DOMAIN xs |-> [sel |-> Compounds[xs[i]][2], comb |-> IF i = 1 THEN " " ELSE Joins[joins[i - 1]][2]]]
Cs == DOMAIN Compounds
TextCases == {<<<<<<x, y>>, <<j>>>>, <<<<z>>, <<>>>>>> : x \in Cs, y \in Cs, j \in DOMAIN Joins, z \in {3, 10, 14}}
\* compile: a text made of compounds and what joins them is cut into these again.
ReadAsMeant(c) == Compile(Text(c[1][1], c[1][2]) \o <<",", " ">> \o Text(c[2][1], c[2][2])) = [i \in DOMAIN c |-> Meant(c[i][1], c[i][2])]

\* The shapes of a tree of four under its first, and what its elements are.
Ups == {u \in [1..4 -> 0..3] : u[1] = 0 /\ u[2] = 1 /\ u[3] \in {1, 2} /\ u[4] \in {1, 3, u[3]}}
TagNames == {"p", "q"}
Trees == {[up |-> u, tag |-> [e \in 1..4 |-> <<tags[e]>>], id |-> [e \in 1..4 |-> IF e = at THEN <<"p">> ELSE <<>>],
           classes |-> [e \in 1..4 |-> IF e % 2 = at % 2 THEN {<<"p">>, <<"0", "p">>} ELSE {<<"p", ":", "q">>}],
           attr |-> [e \in 1..4 |-> IF e = at THEN {<<"p", " ", "q">>} ELSE IF e > at THEN {} ELSE {<<",", " ", ">", "-">>}],
           fragment |-> fragment]
           : u \in Ups, tags \in {x \in [1..4 -> TagNames] : x[1] = "p"}, at \in {2, 4}, fragment \in BOOLEAN}
MatchCases == {<<<<x, y, z>>, <<i, j>>>> : x \in {1, 19}, y \in {2, 13}, z \in {3, 4, 14, 16, 18}, i \in DOMAIN Joins, j \in DOMAIN Joins}

\* matchAt: an element matches if there are elements for all compounds of the group, as
\* they are joined; found here from the left, and asked at the document, a fragment or
\* one of the elements.
Joined(t, comb, f, e) ==
  CASE comb = " " -> f = 0 \/ f \in Above(t, e)
    [] comb = ">" -> t.up[e] = f
    [] comb = "+" -> f # 0 /\ f < e /\ t.up[f] = t.up[e] /\ \A g \in f + 1..e - 1 : t.up[g] # t.up[e]
    [] comb = "~" -> f # 0 /\ f < e /\ t.up[f] = t.up[e]
FromLeft(t, scope, parts) ==
  LET fit(i) == {e \in Els(t) \cup ({0} \cap {scope}) : MatchSimple(t, scope, e, parts[i].sel)}
      next(s, i) == {e \in fit(i) \ {0} : \E f \in s : Joined(t, parts[i].comb, f, e)}
  IN  FoldLeft(next, fit(1), [i \in 1..Len(parts) - 1 |-> i + 1])
FoundAll(c) ==
  \A t \in Trees : \A parts \in {Meant(c[1], c[2])} : \A root \in 0..1 :
    \A found \in {FromLeft(t, ScopeOf(t, root), parts)} :
      /\ Select(t, root, <<parts>>, TRUE) = SelectSeq(Inside(t, root), LAMBDA e : e \in found)
      /\ Select(t, root, <<parts>>, FALSE) = SubSeq(Select(t, root, <<parts>>, TRUE), 1, Min({1, Cardinality(found \cap ToSet(Inside(t, root)))}))

\* placeOf: whatever was asked before, in any order, a place is the number of its like
\* up to there; nthOk: a place is one that an + b gives for some n.
PlaceCases == {[tree |-> t, asked |-> o] : t \in {x \in Trees : ~x.fragment /\ x.id[2] # <<>>}, o \in [1..3 -> 1..4]}
Places(c) ==
  \A back \in BOOLEAN, type \in BOOLEAN :
    \A map \in {FoldLeft(LAMBDA m, e : PlaceOf(c.tree, m, e, back, type), Unplaced(c.tree), c.asked)} :
      \A e \in Els(c.tree) : map[e] \in {0, Cardinality({f \in Like(c.tree, e) : (~type \/ c.tree.tag[f] = c.tree.tag[e]) /\ IF back THEN f >= e ELSE f <= e})}
                             /\ (e \in ToSet(c.asked) => map[e] > 0)
NthCases == {"2", "3", "-", "0"} \X {"2", "+1", "-1"} \X (1..7)
NthRight(c) == NthOk(<<c[1], "n", c[2]>>, c[3]) <=> \E n \in 0..8 : Number(c[1]) * n + Number(c[2]) = c[3]
=============================================================================
