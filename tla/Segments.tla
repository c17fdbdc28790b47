----------------------------- MODULE Segments ------------------------------
(***************************************************************************)
(* Intl.Segmenter (vita/js/intl_segmenter.js): the rules as a machine of   *)
(* states, the runs they leave whole divided by a dictionary, Thai's way or*)
(* Chinese's, and the list of boundaries that grows as it is asked of; and *)
(* how rules become that machine (scripts/gen-intl-segmenter.mjs): the lines*)
(* of the character database applied, sets of characters read, rules read, *)
(* characters put in categories, the rules made one expression and that a  *)
(* machine by what may follow each place in it.                            *)
(*                                                                         *)
(* A character is a number; each is one code unit.  Positions are between  *)
(* characters, from 0.  A text of rules is a sequence of tokens; a set of  *)
(* characters is a token where a rule is read, and read by its own items   *)
(* before.                                                                 *)
(***************************************************************************)
EXTENDS Integers, Sequences, FiniteSets
LOCAL INSTANCE SequencesExt

Least(S) == CHOOSE x \in S : \A y \in S : x <= y
Greatest(S) == CHOOSE x \in S : \A y \in S : x >= y
At(s, i) == IF i < Len(s) THEN s[i + 1] ELSE -1

\* Bisections: whether c is in [start, end, start, end, ...]; the last run that
\* does not start after it.
InSet(set, c) ==
  LET find[lo \in 0..Len(set), hi \in 0..Len(set)] ==
        LET m == (lo + hi) \div 2
        IN  IF lo >= hi THEN lo ELSE IF set[m + 1] <= c THEN find[m + 1, hi] ELSE find[lo, m]
  IN  c >= 0 /\ find[0, Len(set)] % 2 = 1
RunValue(starts, values, c) ==
  LET find[lo \in DOMAIN starts, hi \in DOMAIN starts] ==
        LET m == (lo + hi + 1) \div 2
        IN  IF lo >= hi THEN values[lo] ELSE IF starts[m] <= c THEN find[m, hi] ELSE find[lo, m - 1]
  IN  find[1, Len(starts)]

-----------------------------------------------------------------------------
(* handleNext: the boundary after pos.  A state may accept where it is, or *)
(* mark a place, and one reached later accept that place.                  *)
EOF == 1
BOF == 2
Here(t, m, state, accept, dict, slots) ==
  [m EXCEPT !.state = state, !.dict = dict, !.slots = slots,
            !.result = IF accept = 1 /\ m.mode # "start" THEN m.i ELSE @,
            !.tag = IF accept = 1 THEN t.tag[state] ELSE @]
ReadOn(s, m, state, here) ==
  CASE state = 0 \/ m.mode = "end" -> [here EXCEPT !.done = TRUE]
    [] state # 0 /\ m.mode = "start" -> [here EXCEPT !.mode = "run"]
    [] OTHER -> IF m.i < Len(s) THEN [here EXCEPT !.c = s[m.i + 1], !.i = m.i + 1] ELSE [here EXCEPT !.mode = "end"]
Entered(t, s, m, state, accept, dict) ==
  IF accept > 1 /\ m.slots[accept] >= 0
  THEN [m EXCEPT !.done = TRUE, !.result = m.slots[accept], !.tag = t.tag[state], !.dict = dict]
  ELSE ReadOn(s, m, state, Here(t, m, state, accept, dict,
                                IF t.la[state] > 1 THEN [m.slots EXCEPT ![t.la[state]] = m.i] ELSE m.slots))
Into(t, s, m, state, dict) == Entered(t, s, m, state, t.acc[state], dict)
By(t, s, m, cat) == Into(t, s, m, t.next[m.state][cat], m.dict + (IF m.mode = "run" /\ cat >= t.dict THEN 1 ELSE 0))
RECURSIVE Running(_, _, _)
Running(t, s, m) ==
  IF m.done THEN m
  ELSE Running(t, s, By(t, s, m, CASE m.mode = "start" -> BOF [] m.mode = "end" -> EOF [] OTHER -> t.cat[m.c]))
AtLeastOne(m, pos) == IF m.result = pos THEN [m EXCEPT !.result = pos + 1, !.tag = 0] ELSE m
HandleNext(t, s, pos) ==
  AtLeastOne(Running(t, s, [state |-> 1, c |-> s[pos + 1], i |-> pos + 1, mode |-> IF t.bof THEN "start" ELSE "run",
                            slots |-> [k \in 2..t.slots |-> -1], result |-> pos, tag |-> 0, dict |-> 0, done |-> FALSE]), pos)

-----------------------------------------------------------------------------
(* A dictionary's words that start in one block: sorted, a line each, with *)
(* a cost before each if it has costs.                                     *)
Newline == 0
Block(c) == c \div 4
Before(a, b) ==
  LET diff == {k \in DOMAIN a \cap DOMAIN b : a[k] # b[k]}
  IN  IF diff = {} THEN Len(a) < Len(b) ELSE a[Least(diff)] < b[Least(diff)]
Chunk(dict, block) ==
  LET words == SetToSortSeq({w \in DOMAIN dict.words : Block(w[1]) = block}, Before)
      line(w) == (IF dict.skip = 1 THEN <<dict.words[w]>> ELSE <<>>) \o w \o <<Newline>>
  IN  [text |-> FlattenSeq([i \in DOMAIN words |-> line(words[i])]), skip |-> dict.skip]

\* Where the first word not before key starts, from a place on: the text is
\* halved, and the line the middle is in compared.
LineStart(text, lo, mid) ==
  LET ends == {k \in 1..mid : text[k] = Newline}
      at == IF mid > lo /\ ends # {} THEN Greatest(ends) ELSE IF mid > lo THEN 0 ELSE lo
  IN  IF at < lo THEN lo ELSE at
LineEnd(text, at) == Least({k \in at..Len(text) - 1 : text[k + 1] = Newline})
LowerBound(ch, key, from) ==
  LET word(ls, le) == SubSeq(ch.text, ls + ch.skip + 1, le)
      find[lo \in 0..Len(ch.text), hi \in 0..Len(ch.text)] ==
        LET halved(ls, le) == IF Before(word(ls, le), key) THEN find[le + 1, hi] ELSE find[lo, ls]
            at(ls) == halved(ls, LineEnd(ch.text, ls))
        IN  IF lo >= hi THEN lo ELSE at(LineStart(ch.text, lo, (lo + hi) \div 2))
  IN  find[from, Len(ch.text)]
\* The word at p and the place after it; whether it starts with key.
WordAt(ch, p) ==
  IF p >= Len(ch.text) THEN [word |-> <<>>, end |-> p, cost |-> 0]
  ELSE LET le == LineEnd(ch.text, p)
       IN  [word |-> SubSeq(ch.text, p + ch.skip + 1, le), end |-> le + 1,
            cost |-> IF ch.skip = 1 THEN ch.text[p + 1] ELSE 0]
StartsWith(w, key) == Len(w.word) >= Len(key) /\ SubSeq(w.word, 1, Len(key)) = key

\* DictionaryMatcher.matches: the words that start s at start, shortest first,
\* and how many characters were read, the one that failed with them.
Matches(dict, s, start, maxLength, limit) ==
  LET taken(m, key, w) == IF w.word = key /\ Len(m.lengths) < limit
                          THEN [m EXCEPT !.lengths = Append(@, Len(key)), !.costs = Append(@, w.cost)] ELSE m
      looked(m, key, w, next) == CASE ~StartsWith(w, key) -> [m EXCEPT !.done = TRUE]
                                   [] OTHER -> [taken(m, key, w) EXCEPT !.done = (w.word = key /\ ~StartsWith(next, key))
                                                                                \/ Len(key) >= maxLength]
      at(m, ch, key, w) == looked(m, key, w, WordAt(ch, w.end))
      from(m, ch, key, lb) == at([m EXCEPT !.lb = lb, !.prefix = Len(key)], ch, key, WordAt(ch, lb))
      read(m, ch, key) == from(m, ch, key, LowerBound(ch, key, m.lb))
      step(m, n) == IF m.done \/ start + n > Len(s) THEN m ELSE read(m, Chunk(dict, Block(s[start + 1])), SubSeq(s, start + 1, start + n))
  IN  FoldLeft(step, [lengths |-> <<>>, costs |-> <<>>, prefix |-> 0, lb |-> 0, done |-> FALSE], [n \in 1..Len(s) |-> n])

-----------------------------------------------------------------------------
(* Thai, Lao, Khmer and Burmese: SeaEngine.divide.                         *)
PossibleWordListMax == 20
RootCombineThreshold == 3
PrefixCombineThreshold == 3
MinWordSpan == 4
Paiyannoi == 6
Maiyamok == 7
\* The words there may be at a place.
Candidates(e, s, i, end) == Matches(e.dict, s, i, end - i, PossibleWordListMax)
\* Of the words at i, the longest that two more words follow, or one to the end;
\* else the shortest one more follows; else the longest.
Mark(at, i, end) ==
  LET n == at[i].lengths
      followed(k) == at[i + n[k]].lengths
      well(k) == /\ followed(k) # <<>>
                 /\ \/ i + n[k] + Last(followed(k)) >= end
                    \/ \E j \in DOMAIN followed(k) : at[i + n[k] + followed(k)[j]].lengths # <<>>
      best == {k \in DOMAIN n : well(k)}
      some == {k \in DOMAIN n : followed(k) # <<>>}
  IN  CASE Len(n) = 1 \/ i + Last(n) >= end -> Last(n)
        [] best # {} /\ Len(n) > 1 /\ i + Last(n) < end -> n[Greatest(best)]
        [] best = {} /\ some # {} /\ Len(n) > 1 /\ i + Last(n) < end -> n[Least(some)]
        [] OTHER -> Last(n)
\* What is no word goes to the one before it if that is short, up to where a word
\* may begin again.
Combined(e, s, at, i, cu, cp, end) ==
  LET chars == {k \in 1..end - (i + cu) :
                  \/ k = end - (i + cu)
                  \/ /\ At(s, i + cu + k - 1) \in e.end /\ At(s, i + cu + k) \in e.begin
                     /\ at[i + cu + k].lengths # <<>>}
  IN  IF i + cu < end /\ cp < RootCombineThreshold /\ at[i + cu].lengths = <<>>
         /\ (cu = 0 \/ at[i + cu].prefix < PrefixCombineThreshold)
      THEN cu + Least(chars) ELSE cu
\* Mutant: one mark is taken along.
OneMark(e, s, i, end) == IF i < end /\ At(s, i) \in e.mark THEN i + 1 ELSE i
Marks(e, s, i, end) == Least({k \in i..end : k = end \/ At(s, k) \notin e.mark})
Suffixed(e, s, at, i, end) ==
  LET notAfter(k, suffixes) == At(s, k - 1) \notin suffixes
      abbreviated == IF At(s, i) = Paiyannoi /\ notAfter(i, {Paiyannoi, Maiyamok}) THEN i + 1 ELSE i
  IN  IF ~e.thai \/ i >= end THEN i
      ELSE IF at[i].lengths # <<>> \/ At(s, i) \notin {Paiyannoi, Maiyamok} THEN i
      ELSE IF At(s, abbreviated) = Maiyamok /\ notAfter(abbreviated, {Maiyamok}) THEN abbreviated + 1 ELSE abbreviated
SeaDivide(e, s, start, end) ==
  LET next(at, i) ==
        LET cu == IF at[i].lengths = <<>> THEN 0 ELSE Mark(at, i, end)
            word == i + Combined(e, s, at, i, cu, cu, end)
        IN  Suffixed(e, s, at, Marks(e, s, word, end), end)
      all(at) == LET f[i \in start..Len(s)] == IF i >= end THEN <<>> ELSE <<next(at, i)>> \o f[next(at, i)] IN f[start]
      kept(found) == IF found # <<>> /\ Last(found) >= end THEN Front(found) ELSE found
  IN  IF (e.thai /\ start + MinWordSpan >= end) \/ end - start < MinWordSpan THEN <<>>
      ELSE kept(all([i \in start..end |-> Candidates(e, s, i, end)]))

-----------------------------------------------------------------------------
(* Chinese and Japanese: CjEngine.divide, the cheapest way through.        *)
KatakanaCost == <<984, 408, 240, 204, 252, 300, 372, 480>>
MaxKatakanaGroup == 20
MaxSnlp == 255
Never == 1000000
Katakana == {10, 11}
Hangul == {13}
\* The text in compatible characters, and where each is in the text: a character
\* and those that go with it are one fragment.
Nfkc(fragment) == CASE fragment = <<12>> -> <<8, 9>> [] fragment = <<10, 14>> -> <<11>> [] OTHER -> fragment
NoBoundary == {14}
Normal(str) ==
  LET starts == {i \in 0..Len(str) - 1 : i = 0 \/ At(str, i) \notin NoBoundary}
      fragment(i) == SubSeq(str, i + 1, Least({k \in i + 1..Len(str) : k = Len(str) \/ k \in starts}))
      order == SetToSortSeq(starts, <)
      norms == [k \in DOMAIN order |-> Nfkc(fragment(order[k]))]
  IN  [str |-> FlattenSeq(norms),
       map |-> FlattenSeq([k \in DOMAIN order |-> [j \in DOMAIN norms[k] |-> order[k]]]) \o <<Len(str)>>]
\* The words at a place with what they cost; the character alone, unless it is a
\* word or Hangul; a run of katakana from where it starts.
Arcs(dict, str, i, prevKatakana) ==
  LET words(m) == {<<m.lengths[k], m.costs[k]>> : k \in DOMAIN m.lengths}
                    \cup (IF (m.lengths = <<>> \/ m.lengths[1] # 1) /\ At(str, i) \notin Hangul THEN {<<1, MaxSnlp>>} ELSE {})
      group(run) == IF ~prevKatakana /\ At(str, i) \in Katakana /\ run < MaxKatakanaGroup
                    THEN {<<run, IF run > 8 THEN 8192 ELSE KatakanaCost[run]>>} ELSE {}
  IN  words(Matches(dict, str, i, 20, Len(str)))
        \cup group(Least({k \in 1..Len(str) - i : k = Len(str) - i \/ k = MaxKatakanaGroup \/ At(str, i + k) \notin Katakana}))
Cheapest(dict, str) ==
  LET n == Len(str)
      relaxed(b, i, cost) == [best |-> cost, prev |-> [j \in 0..n |-> IF cost[j] < b.best[j] THEN i ELSE b.prev[j]],
                              katakana |-> At(str, i) \in Katakana]
      by(b, i, arcs) == relaxed(b, i, [j \in 0..n |-> Least({b.best[j]} \cup {b.best[i] + a[2] : a \in {x \in arcs : i + x[1] = j}})])
      step(b, i) == IF b.best[i] = Never THEN b ELSE by(b, i, Arcs(dict, str, i, b.katakana))
  IN  FoldLeft(step, [best |-> [j \in 0..n |-> IF j = 0 THEN 0 ELSE Never], prev |-> [j \in 0..n |-> -1], katakana |-> FALSE],
               [i \in 1..n |-> i - 1])
Path(b, n) == LET f[i \in 0..n] == IF i = 0 THEN <<>> ELSE f[b.prev[i]] \o <<i>> IN IF b.best[n] = Never THEN <<n>> ELSE f[n]
CjDivide(e, s, start, end) ==
  LET placed(norm, path) ==
        LET at == {start + norm.map[path[k] + 1] : k \in DOMAIN path} IN SetToSortSeq(at \ {start, end}, <)
      of(norm) == placed(norm, Path(Cheapest(e.dict, norm.str), Len(norm.str)))
  IN  IF start >= end THEN <<>> ELSE of(Normal(SubSeq(s, start + 1, end)))

-----------------------------------------------------------------------------
(* Which engine a character is for, and the boundaries of a text: those of *)
(* the rules, and those the engines find where they read a character of a  *)
(* dictionary.                                                             *)
\* engineFor: the engine made last that takes it, one not made yet, or the one
\* that leaves whole scripts alone.
EngineFor(z, have, c) ==
  LET takes(i) == c \in z.engines[have.made[i]].set
      made == {i \in DOMAIN have.made : takes(i)}
      other == {i \in DOMAIN z.engines : c \in z.engines[i].set}
  IN  CASE made # {} -> [have |-> have, engine |-> have.made[Greatest(made)]]
        [] made = {} /\ z.script[c] \in have.unhandled -> [have |-> have, engine |-> 0]
        [] made = {} /\ z.script[c] \notin have.unhandled /\ other # {} ->
             [have |-> [have EXCEPT !.made = Append(@, Least(other))], engine |-> Least(other)]
        [] OTHER -> [have |-> [have EXCEPT !.unhandled = @ \cup {z.script[c]}], engine |-> 0]
\* findBreaks: the run of its characters, divided.
FindBreaks(z, have, engine, s, i, end) ==
  LET mine(k) == IF engine = 0 THEN z.script[At(s, k)] \in have.unhandled ELSE At(s, k) \in z.engines[engine].set
      to == Least({k \in i..end : k = end \/ ~mine(k)})
  IN  [to |-> to,
       breaks |-> IF engine = 0 THEN <<>>
                  ELSE IF z.engines[engine].cj THEN CjDivide(z.engines[engine], s, i, to)
                  ELSE SeaDivide(z.engines[engine], s, i, to)]
\* populate: the runs of a segment, the ends of the segment put round them.
Populate(z, have, s, start, end) ==
  LET dictionary(k) == z.table.cat[At(s, k)] >= z.table.dict
      found(p, now, r) == [i |-> r.to, b |-> p.b \o r.breaks, have |-> now]
      given(p, i, g) == found(p, g.have, FindBreaks(z, g.have, g.engine, s, i, end))
      step(p, i) == IF i = end THEN p ELSE given(p, i, EngineFor(z, p.have, At(s, i)))
      ends(b) == (IF start < b[1] THEN <<start>> ELSE <<>>) \o b \o (IF end > Last(b) THEN <<end>> ELSE <<>>)
      whole(p) == [have |-> p.have, b |-> IF p.b = <<>> THEN <<>> ELSE ends(p.b)]
  IN  IF end - start <= 1 THEN [have |-> have, b |-> <<>>]
      ELSE whole(FoldLeft(LAMBDA p, k : step(p, Least({j \in p.i..end : j = end \/ dictionary(j)})),
                          [i |-> start, b |-> <<>>, have |-> have], [k \in 1..end - start |-> k]))
\* Breaks: what has been found of a text, the last of the dictionary's kept.
\* more: the next boundary, the dictionary's or the rules'.
NewBreaks == [pos |-> <<0>>, tags |-> <<0>>, dc |-> <<>>, other |-> 0, have |-> [made |-> <<>>, unhandled |-> {}]]
DictFollowing(b, from) ==
  IF b.dc = <<>> \/ from >= Last(b.dc) \/ from < b.dc[1] THEN -1
  ELSE b.dc[Least({i \in DOMAIN b.dc : b.dc[i] > from})]
Added(b, pos, tag) == [b EXCEPT !.pos = Append(@, pos), !.tags = Append(@, tag)]
NextOf(b, d, r) == IF d >= 0 THEN Added(b, d, b.other) ELSE Added(b, r.result, r.tag)
Followed(b, from, r) == NextOf(b, DictFollowing(b, from), r)
Divided(b, p, r) == [b EXCEPT !.dc = p.b, !.have = p.have, !.other = r.tag]
Ruled(z, s, b, from, r) ==
  IF r.dict > 0 THEN Followed(Divided(b, Populate(z, b.have, s, from, r.result), r), from, r) ELSE Added(b, r.result, r.tag)
Known(z, s, b, from, d) == IF d >= 0 THEN Added(b, d, b.other) ELSE Ruled(z, s, b, from, HandleNext(z.table, s, from))
More(z, s, b) == LET from == Last(b.pos) IN IF from >= Len(s) THEN b ELSE Known(z, s, b, from, DictFollowing(b, from))
\* after: the index of the first boundary after n, the list grown to it.
Grown(z, s, b, n) == FoldLeft(LAMBDA c, k : IF Last(c.pos) <= n /\ Last(c.pos) < Len(s) THEN More(z, s, c) ELSE c,
                              b, [k \in 1..Len(s) |-> k])
After(b, n) ==
  LET find[lo \in DOMAIN b.pos, hi \in DOMAIN b.pos] ==
        LET m == (lo + hi) \div 2 IN IF lo >= hi THEN lo ELSE IF b.pos[m] <= n THEN find[m + 1, hi] ELSE find[lo, m]
  IN  find[1, Len(b.pos)]

\* segmentData: the k-th segment; containing: the one a character is in, and next:
\* the one after the k-th, in the list grown for them.
WordLike(tag) == 100 <= tag /\ tag < 500
SegmentData(b, k) == [from |-> b.pos[k - 1], to |-> b.pos[k], word |-> WordLike(b.tags[k])]
Containing(s, b, n) == IF n < 0 \/ n >= Len(s) THEN <<>> ELSE <<SegmentData(b, After(b, n))>>
NextSegment(s, b, k) == IF b.pos[k] >= Len(s) THEN <<>> ELSE <<SegmentData(b, k + 1)>>

-----------------------------------------------------------------------------
(* The cases.  1 is a letter, 2 a space, 3 and 4 Thai letters, 5 a mark on *)
(* them, 6 and 7 suffixes, 8 and 9 Chinese characters, 10 and 11 katakana, *)
(* 12 one that stands for two, 13 Hangul, 14 goes with what is before it,  *)
(* 15 of a script without a dictionary.                                    *)
Texts(letters, n) == UNION {[1..k -> letters] : k \in 0..n}
Costs(words) == [w \in words |-> 1]
ThaiWords == {<<3>>, <<3, 4>>, <<4, 3, 4>>, <<4, 5, 3>>, <<3, 3, 4, 4>>}
Thai(words) == [set |-> 3..7, mark |-> {5}, end |-> {3, 4}, begin |-> {3, 4}, thai |-> TRUE, cj |-> FALSE,
                dict |-> [words |-> Costs(words), skip |-> 0]]
Han(words) == [set |-> 8..14, cj |-> TRUE, dict |-> [words |-> words, skip |-> 1]]
HanWords == [w \in {<<8>>, <<8, 9>>, <<9, 8, 9>>, <<9, 10>>, <<13, 10>>} |-> CASE Len(w) = 1 -> 200 [] Len(w) = 2 -> 300 [] OTHER -> 240]
Word == [cat |-> [c \in 1..15 |-> IF c = 1 THEN 3 ELSE IF c = 2 THEN 4 ELSE 5], dict |-> 5, bof |-> FALSE, slots |-> 2,
         next |-> [q \in 0..4 |-> [cat \in 1..5 |->
                     CASE q = 1 /\ cat = 3 -> 2 [] q = 1 /\ cat = 5 -> 3 [] q = 1 /\ cat = 4 -> 4 [] q = 2 /\ cat = 3 -> 2
                       [] q = 3 /\ cat = 5 -> 3 [] OTHER -> 0]],
         acc |-> [q \in 0..4 |-> IF q \in {2, 3, 4} THEN 1 ELSE 0], la |-> [q \in 0..4 |-> 0],
         tag |-> [q \in 0..4 |-> CASE q = 2 -> 200 [] q = 3 -> 400 [] OTHER -> 0]]
\* Letters; or letters and a space, if a letter of Thai follows them.
Sentence == [cat |-> [c \in 1..3 |-> c + 2], dict |-> 9, bof |-> TRUE, slots |-> 2,
             next |-> [q \in 0..5 |-> [cat \in 1..5 |->
                         CASE q = 1 /\ cat = 2 -> 2 [] q \in {2, 3} /\ cat = 3 -> 3 [] q = 3 /\ cat = 4 -> 4 [] q = 4 /\ cat = 5 -> 5
                           [] OTHER -> 0]],
             acc |-> [q \in 0..5 |-> CASE q = 3 -> 1 [] q = 5 -> 2 [] OTHER -> 0], la |-> [q \in 0..5 |-> IF q = 4 THEN 2 ELSE 0],
             tag |-> [q \in 0..5 |-> IF q = 3 THEN 100 ELSE 0]]
Z == [table |-> Word, engines |-> <<Thai(ThaiWords), Han(HanWords)>>, script |-> [c \in 1..15 |-> IF c >= 14 THEN 1 ELSE c]]

DictCases == [text : Texts({3, 4}, 4), words : {ThaiWords, {<<4, 4>>}, {<<3>>, <<4>>, <<3, 4, 4>>, <<3, 4, 4, 4>>, <<4, 3>>}}]
RuleCases == Texts({1, 2, 3}, 5) \ {<<>>}
ThaiCases == [1..5 -> 3..7] \cup [1..6 -> 3..5]
HanCases == Texts({8, 9, 10, 12, 13, 14}, 3) \cup [1..4 -> {8, 9, 10, 14}]
MixedCases == UNION {[1..k -> {1, 2, 3, 4, 8, 9, 15}] : k \in 0..4} \cup {<<3, 4, 3, 3, 4, c, d>> : c, d \in {1, 3, 4, 8, 14, 15}}

\* The dictionary's words that a text starts with are found, all of them and in
\* order, wherever they are in their lines.
MatchesAll(c) ==
  \A i \in 0..Len(c.text), max \in 1..3 :
    LET m == Matches([words |-> Costs(c.words), skip |-> max % 2], c.text, i, max, 20)
    IN  m.lengths = SetToSortSeq({n \in 1..max : i + n <= Len(c.text) /\ SubSeq(c.text, i + 1, i + n) \in c.words}, <)
\* The machine finds what its rules say: the longest letters, and the space after
\* them where a letter of another script follows.
RulesFollowed(s) ==
  LET letters == Least({k \in 0..Len(s) : k = Len(s) \/ s[k + 1] # 1})
      r == HandleNext(Sentence, s, 0)
  IN  r.result = CASE letters = 0 -> 1
                   [] letters > 0 /\ At(s, letters) = 2 /\ At(s, letters + 1) = 3 -> letters + 1
                   [] OTHER -> letters
\* A text is divided: each boundary after the one before it, inside the text and
\* never before a mark, if the mark is not on a suffix.
ThaiDivided(s) ==
  LET of(b) == /\ \A i \in DOMAIN b : 0 < b[i] /\ b[i] < Len(s) /\ (i > 1 => b[i - 1] < b[i])
               /\ \A i \in DOMAIN b : At(s, b[i]) = 5 => At(s, b[i] - 1) \in {Paiyannoi, Maiyamok}
  IN  of(SeaDivide(Thai(ThaiWords), s, 0, Len(s)))
\* No way through the text is cheaper than the one taken.
HanDivided(s) ==
  LET arcs(str, b) == [i \in 0..Len(str) - 1 |->
                         Arcs(Han(HanWords).dict, str, i, i > 0 /\ b.best[i - 1] # Never /\ At(str, i - 1) \in Katakana)]
      least(str, from) ==
        LET cost[j \in 0..Len(str)] ==
              IF j = 0 THEN 0
              ELSE Least({Never} \cup UNION {{cost[i] + a[2] : a \in {x \in from[i] : i + x[1] = j}} : i \in {k \in 0..j - 1 : cost[k] # Never}})
        IN  cost[Len(str)]
      cheapest(str, b) == b.best[Len(str)] = least(str, arcs(str, b))
      divided(d) == \A i \in DOMAIN d : 0 < d[i] /\ d[i] < Len(s) /\ (i > 1 => d[i - 1] < d[i])
      of(str) == cheapest(str, Cheapest(Han(HanWords).dict, str))
  IN  of(Normal(s).str) /\ divided(CjDivide(Han(HanWords), s, 0, Len(s)))
\* Boundaries go on to the end of the text; those of the rules are all among
\* them; and what is asked in the middle first is what going through finds.
TextDivided(s) ==
  LET rules == LET f[i \in 0..Len(s)] == IF i = Len(s) THEN {i} ELSE {i} \cup f[HandleNext(Word, s, i).result] IN f[0]
      through(b, list) == FoldLeft(LAMBDA g, k : g \o NextSegment(s, list[b.pos[k]], k), <<>>, [k \in DOMAIN b.pos |-> k])
      in(n, r) == r # <<>> /\ r[1].from <= n /\ n < r[1].to
  IN  \A list \in {[n \in 0..Len(s) |-> Grown(Z, s, NewBreaks, n)]} : \A b \in {list[Len(s)]} :
        \A g \in {through(b, list)} :
          /\ Last(b.pos) = Len(s) /\ rules \subseteq ToSet(b.pos)
          /\ IF s = <<>> THEN g = <<>> ELSE g[1].from = 0 /\ Last(g).to = Len(s)
          /\ \A i \in DOMAIN g : g[i].from < g[i].to /\ (i > 1 => g[i].from = g[i - 1].to)
          /\ \A n \in -1..Len(s) : \A r \in {Containing(s, list[IF n < 0 THEN 0 ELSE n], n)} :
               IF n \in 0..Len(s) - 1 THEN in(n, r) /\ r[1] \in ToSet(g) ELSE r = <<>>

-----------------------------------------------------------------------------
Chars == 0..3

-----------------------------------------------------------------------------
(* Sets.                                                                   *)

\* setOp, of a set's characters and of the strings in it.
setOp(acc, op, s) ==
  CASE op = "-" -> [acc EXCEPT !.bits = @ \ s.bits, !.strings = @ \ s.strings]
    [] op = "&" -> [acc EXCEPT !.bits = @ \cap s.bits, !.strings = @ \cap s.strings]
    [] OTHER -> [acc EXCEPT !.bits = @ \cup s.bits, !.strings = @ \cup s.strings]

\* parseSet: a character, two with - between, a string, a set, and - or & before
\* the set it is for.  The complement is of the characters alone.
NewSet == [bits |-> {}, strings |-> {}]
RECURSIVE parseSet(_), SetItems(_, _, _)
SetItems(p, items, i) ==
  IF i > Len(items) THEN p.set
  ELSE LET it == items[i] IN
       SetItems(CASE it.k = "[" -> [set |-> setOp(p.set, p.op, parseSet(it.of)), op |-> "|", last |-> -1, to |-> FALSE]
                  [] it.k = "{" -> [p EXCEPT !.set.strings = @ \cup {it.of}]
                  [] it.k = "-" /\ p.last >= 0 -> [p EXCEPT !.to = TRUE]
                  [] it.k \in {"-", "&"} /\ p.last < 0 -> [p EXCEPT !.op = it.k]
                  [] it.k = "char" /\ p.to -> [p EXCEPT !.set.bits = @ \cup p.last..it.of, !.last = -1, !.to = FALSE]
                  [] it.k = "char" /\ ~p.to -> [p EXCEPT !.set.bits = @ \cup {it.of}, !.last = it.of],
                items, i + 1)
parseSet(s) ==
  LET read == SetItems([set |-> NewSet, op |-> "|", last |-> -1, to |-> FALSE], s.items, 1)
  IN  IF s.neg THEN [read EXCEPT !.bits = Chars \ @] ELSE read

\* The sets the rules here are written with, as they are written.
Char(c) == [k |-> "char", of |-> c]
Op(k) == [k |-> k, of |-> 0]
Str(s) == [k |-> "{", of |-> s]
Set(s) == [k |-> "[", of |-> s]
Items(items) == [neg |-> FALSE, items |-> items]
Not(items) == [neg |-> TRUE, items |-> items]
SetKeys == {"a", "b", "x", "B", "E", "D", "."}
SetOf == [key \in SetKeys |->
            parseSet(CASE key = "a" -> Items(<<Char(1)>>)
                       [] key = "b" -> Items(<<Char(2)>>)
                       [] key = "x" -> Items(<<Char(1), Op("-"), Char(2)>>)
                       [] key = "B" -> Items(<<Str("bof"), Char(3)>>)
                       [] key = "E" -> Items(<<Char(2), Str("eof")>>)
                       [] key = "D" -> Not(<<Char(0), Op("-"), Char(1)>>)
                       [] OTHER -> Not(<<>>))]

\* ranges: the starts and ends of a set's runs.
ranges(bits) ==
  SetToSortSeq({c \in Chars : (c \in bits) # (c - 1 \in bits)} \cup {c + 1 : c \in bits \cap {3}}, <)

-----------------------------------------------------------------------------
(* Rules.                                                                  *)

VarNames == {"$v", "$dictionary"}
TagOf == [t \in {"{1}", "{2}"} |-> IF t = "{1}" THEN 1 ELSE 2]
Repeats == [c \in {"*", "+", "?"} |-> CASE c = "*" -> "star" [] c = "+" -> "plus" [] OTHER -> "q"]

\* parseExpr, of the num-th statement's tokens from the i-th: what was read, and
\* the place after it.
Read(e, i) == [e |-> e, i |-> i]
RECURSIVE Primary(_, _, _), Repeated(_, _), CatRest(_, _, _), AltRest(_, _, _)
Postfix(s, i, num) == Repeated(Primary(s, i, num), s)
Alt(s, i, num) == AltRest(CatRest(Postfix(s, i, num), s, num), s, num)
Closed(r) == Read(r.e, r.i + 1)
Primary(s, i, num) ==
  CASE s[i] = "(" -> Closed(Alt(s, i + 1, num))
    [] s[i] \in SetKeys -> Read(<<"set", s[i]>>, i + 1)
    [] s[i] \in VarNames -> Read(<<"var", s[i]>>, i + 1)
    [] s[i] \in DOMAIN TagOf -> Read(<<"tag", TagOf[s[i]]>>, i + 1)
    [] s[i] = "/" -> Read(<<"la", num>>, i + 1)
Repeated(r, s) ==
  IF r.i <= Len(s) /\ s[r.i] \in DOMAIN Repeats THEN Repeated(Read(<<Repeats[s[r.i]], r.e>>, r.i + 1), s) ELSE r
With(op, r, n) == Read(<<op, r.e, n.e>>, n.i)
CatRest(r, s, num) ==
  IF r.i > Len(s) \/ s[r.i] \in {"|", ")"} THEN r ELSE CatRest(With("cat", r, Postfix(s, r.i, num)), s, num)
AltRest(r, s, num) ==
  IF r.i > Len(s) \/ s[r.i] # "|" THEN r
  ELSE AltRest(With("or", r, CatRest(Postfix(s, r.i + 1, num), s, num)), s, num)
parseExpr(s, num) == Alt(s, 1, num).e

RECURSIVE hasNode(_, _, _)
hasNode(n, t, vars) ==
  \/ n[1] = t
  \/ n[1] = "var" /\ hasNode(vars[n[2]], t, vars)
  \/ n[1] \in {"star", "plus", "q", "cat", "or"} /\ hasNode(n[2], t, vars)
  \/ n[1] \in {"cat", "or"} /\ hasNode(n[3], t, vars)

\* parseRuleFile: the statements one after another, each set a term stands for
\* once, named by the first variable that is that set if that is where it is first.
RECURSIVE Usets(_, _, _)
Usets(usets, s, name) ==
  IF s = <<>> THEN usets
  ELSE Usets(IF Head(s) \in SetKeys /\ \A i \in DOMAIN usets : usets[i].key # Head(s)
             THEN Append(usets, [key |-> Head(s), name |-> name]) ELSE usets, Tail(s), name)
Statement(p, st) ==
  IF st.k = "!!chain" THEN [p EXCEPT !.chain = TRUE]
  ELSE LET num == p.num + 1
           ast == parseExpr(st.text, num)
           read == [p EXCEPT !.num = num, !.usets = Usets(@, st.text, IF st.k = "=" /\ Len(st.text) = 1 THEN st.name ELSE "")]
       IN  IF st.k = "=" THEN [read EXCEPT !.vars[st.name] = ast]
           ELSE [read EXCEPT !.rules = Append(@, [ast |-> ast, chainIn |-> p.chain /\ st.k # "^", num |-> num,
                                                  lookahead |-> hasNode(ast, "la", p.vars)])]
parseRuleFile(src) ==
  FoldLeft(Statement, [vars |-> [v \in VarNames |-> <<>>], usets |-> <<>>, rules |-> <<>>, chain |-> FALSE, num |-> 0], src)

-----------------------------------------------------------------------------
(* Categories: characters of the same sets are one.                        *)

Member(usets, c) == {i \in DOMAIN usets : c \in SetOf[usets[i].key].bits}
\* From 3 up, each at its first character, the dictionary's after the rest; 1 and 2
\* are the text's end and beginning.
FirstLike(member, c) == CHOOSE d \in Chars : member[d] = member[c] /\ \A e \in Chars : member[e] = member[c] => d <= e
Numbered(first, dict) ==
  LET before(d, e) == IF (d \in dict) = (e \in dict) THEN d < e ELSE d \notin dict
  IN  [c \in Chars |-> 3 + Cardinality({d \in ToSet(first) : before(d, first[c + 1])})]
CatsOf(key, cat) ==
  LET has(s) == s \in SetOf[key].strings
  IN  SetToSortSeq({cat[c] : c \in SetOf[key].bits} \cup (IF has("eof") THEN {EOF} ELSE {})
                     \cup (IF has("bof") THEN {BOF} ELSE {}), <)
Categories(usets, firsts, dict, cat) ==
  [ofCp |-> cat, count |-> 3 + Cardinality(firsts), dictStart |-> 3 + Cardinality(firsts \ dict),
   cats |-> [key \in {usets[i].key : i \in DOMAIN usets} |-> CatsOf(key, cat)]]
Grouped(usets, first, dict) == Categories(usets, ToSet(first), dict, Numbered(first, dict))
Firsts(usets, member) ==
  Grouped(usets, [i \in 1..4 |-> FirstLike(member, i - 1)],
          {c \in Chars : \E i \in member[c] : usets[i].name = "$dictionary"})
categories(usets) == Firsts(usets, [c \in Chars |-> Member(usets, c)])

-----------------------------------------------------------------------------
(* Places.  A part of the expression has those after the k-th; what it     *)
(* may start and end with, and what may follow each.                       *)

Leaf(k, label) == [nullable |-> FALSE, first |-> {k + 1}, last |-> {k + 1}, pos |-> <<label>>, follow |-> {}]
Or(m, n) == [nullable |-> m.nullable \/ n.nullable, first |-> m.first \cup n.first, last |-> m.last \cup n.last,
             pos |-> m.pos \o n.pos, follow |-> m.follow \cup n.follow]
Cat(m, n) ==
  [nullable |-> m.nullable /\ n.nullable,
   first |-> IF m.nullable THEN m.first \cup n.first ELSE m.first,
   last |-> IF n.nullable THEN n.last \cup m.last ELSE n.last,
   pos |-> m.pos \o n.pos, follow |-> m.follow \cup n.follow \cup (m.last \X n.first)]
Repeat(op, m) == [m EXCEPT !.nullable = op # "plus", !.follow = IF op = "q" THEN @ ELSE @ \cup (m.last \X m.first)]
SetLeaves(k, cats) ==
  [nullable |-> FALSE, first |-> k + 1..k + Len(cats), last |-> k + 1..k + Len(cats),
   pos |-> [i \in DOMAIN cats |-> <<"leaf", cats[i]>>], follow |-> {}]

RECURSIVE Part(_, _, _, _), Joined(_, _, _, _)
Behind(m, n, k, vars, cats) == Cat(m, Part(n, k + Len(m.pos), vars, cats))
Beside(m, n, k, vars, cats) == Or(m, Part(n, k + Len(m.pos), vars, cats))
Part(n, k, vars, cats) ==
  CASE n[1] = "var" -> Part(vars[n[2]], k, vars, cats)
    [] n[1] = "set" -> SetLeaves(k, cats[n[2]])
    [] n[1] \in {"tag", "la"} -> [Leaf(k, n) EXCEPT !.nullable = TRUE]
    [] n[1] \in {"star", "plus", "q"} -> Repeat(n[1], Part(n[2], k, vars, cats))
    [] n[1] = "cat" -> Behind(Part(n[2], k, vars, cats), n[3], k, vars, cats)
    [] n[1] = "or" -> Beside(Part(n[2], k, vars, cats), n[3], k, vars, cats)

\* The rules side by side; starts are the places those begin at that another may go
\* on into, which a rule that is a set and nothing else is not.
RECURSIVE IsSet(_, _)
IsSet(n, vars) == n[1] = "set" \/ (n[1] = "var" /\ IsSet(vars[n[2]], vars))
Marked(r, m, k) == IF r.lookahead THEN Cat(m, Leaf(k + Len(m.pos), <<"end", r.num>>)) ELSE m
Joined(t, rules, vars, cats) ==
  IF rules = <<>> THEN t
  ELSE LET r == Head(rules)
           k == IF t.any THEN Len(t.tree.pos) ELSE 0
           m == Marked(r, Part(r.ast, k, vars, cats), k)
           in == r.chainIn /\ (r.lookahead \/ ~IsSet(r.ast, vars))
       IN  Joined([any |-> TRUE, tree |-> IF t.any THEN Or(t.tree, m) ELSE m, starts |-> t.starts \cup (IF in THEN m.first ELSE {})],
                  Tail(rules), vars, cats)

\* The whole: with the text's beginning before it if a rule asks for that, and a
\* mark at its end.  A rule that ends with a character goes on into those that
\* start with one of its category, which it was.
IsLeaf(l) == l[1] = "leaf"
Follows(pairs, n) == [p \in 1..n |-> {q \in 1..n : <<p, q>> \in pairs}]
Chained(f, labels, end, starts) ==
  [p \in DOMAIN f |-> IF IsLeaf(labels[p]) /\ end \in f[p]
                      THEN f[p] \cup UNION {f[st] : st \in {q \in starts : labels[q] = labels[p]}} ELSE f[p]]
Whole(t, chain) ==
  LET n == Len(t.tree.pos)
      end == n + 1
      bof == n + 2
      labels == t.tree.pos \o <<<<"end", 0>>, <<"leaf", BOF>>>>
      bofUsed == \E i \in 1..n : labels[i] = labels[bof]
      begun == IF bofUsed THEN Cat([Leaf(0, labels[bof]) EXCEPT !.first = {bof}, !.last = {bof}], t.tree) ELSE t.tree
      f == Follows(begun.follow \cup (begun.last \X {end}), bof)
      chained == IF chain THEN Chained(f, labels, end, t.starts) ELSE f
      again == UNION {chained[st] : st \in {q \in t.tree.first : labels[q] = labels[bof]}}
  IN  [labels |-> labels, bof |-> bofUsed,
       first |-> IF begun.nullable THEN begun.first \cup {end} ELSE begun.first,
       follow |-> IF bofUsed THEN [chained EXCEPT ![bof] = @ \cup again] ELSE chained]

-----------------------------------------------------------------------------
(* States: sets of places, the first with none, in the order they are      *)
(* come to.                                                                *)

To(w, T, cat) == UNION {w.follow[p] : p \in {q \in T : w.labels[q] = <<"leaf", cat>>}}
IndexIn(list, U) == IF U = {} THEN 0 ELSE CHOOSE i \in DOMAIN list : list[i] = U
RECURSIVE From(_, _, _, _, _), States(_, _, _, _)
From(w, list, T, cat, count) ==
  IF cat = count THEN list
  ELSE LET U == To(w, T, cat)
       IN  From(w, IF U = {} \/ U \in ToSet(list) THEN list ELSE Append(list, U), T, cat + 1, count)
States(w, list, s, count) == IF s > Len(list) THEN list ELSE States(w, From(w, list, list[s], 1, count), s + 1, count)

\* Each rule with a / has a slot for the place of it, which rules share that come
\* to theirs in one state.
LookAheads(w, T) == {w.labels[p][2] : p \in {q \in T : w.labels[q][1] = "la"}}
Slots(w, list) ==
  FoldLeft(LAMBDA m, T :
             LET las == LookAheads(w, T)
                 had == {m.of[r] : r \in las} \ {0}
                 slot == IF had # {} THEN Least(had) ELSE m.slots + 1
             IN  IF las = {} THEN m
                 ELSE [slots |-> IF had = {} THEN slot ELSE m.slots, of |-> [r \in DOMAIN m.of |-> IF r \in las THEN slot ELSE m.of[r]]],
           [slots |-> 1, of |-> [r \in 1..6 |-> 0]], list)
Ends(w, T) == {w.labels[p][2] : p \in {q \in T : w.labels[q][1] = "end"}}
Accepts(w, T, slotOf) ==
  LET rules == Ends(w, T) \ {0}
  IN  CASE rules # {} -> slotOf[Least(rules)]
        [] rules = {} /\ 0 \in Ends(w, T) -> 1
        [] OTHER -> 0
TagIn(w, T) == Greatest({0} \cup {w.labels[p][2] : p \in {q \in T : w.labels[q][1] = "tag"}})
LookAheadIn(w, T, slotOf) == Greatest({0} \cup {slotOf[r] : r \in LookAheads(w, T)})

\* What Segments has of it: state 0 has no places.
Table(w, list, slots, cats) ==
  LET state(s) == IF s = 0 THEN {} ELSE list[s] IN
  [cat |-> cats.ofCp, dict |-> cats.dictStart, bof |-> w.bof, slots |-> slots.slots + 1,
   next |-> [s \in 0..Len(list) |-> [cat \in 1..cats.count - 1 |-> IndexIn(list, To(w, state(s), cat))]],
   acc |-> [s \in 0..Len(list) |-> Accepts(w, state(s), slots.of)],
   la |-> [s \in 0..Len(list) |-> LookAheadIn(w, state(s), slots.of)],
   tag |-> [s \in 0..Len(list) |-> TagIn(w, state(s))]]
Tabled(w, list, cats) == Table(w, list, Slots(w, list), cats)
Machined(w, cats) == Tabled(w, States(w, <<w.first>>, 1, cats.count), cats)
compile(p, cats) ==
  Machined(Whole(Joined([any |-> FALSE, tree |-> <<>>, starts |-> {}], p.rules, p.vars, cats.cats), p.chain), cats)
\* Its characters, as runs of one category.
runs(cats) ==
  LET starts == SetToSortSeq({c \in Chars : c = 0 \/ cats.ofCp[c] # cats.ofCp[c - 1]}, <)
  IN  [starts |-> starts, values |-> [i \in DOMAIN starts |-> cats.ofCp[starts[i]]]]

-----------------------------------------------------------------------------
(* The character database: a line gives a run of characters values of      *)
(* properties.                                                             *)

\* loadUcd.  A block, or a run not assigned, starts again from the defaults, which
\* do not say what has no other value than no and 0.
Scripts == {"Thai", "Hani", "Zyyy"}
apply(db, lo, hi, items) ==
  [c \in Chars |-> IF c \in lo..hi THEN [p \in DOMAIN db[c] |-> IF p \in DOMAIN items THEN items[p] ELSE db[c][p]] ELSE db[c]]
UcdLine(p, line) ==
  LET cleared == [c \in Chars |-> IF c \in line.lo..line.hi THEN [p.db[c] EXCEPT !.Ideo = FALSE, !.ccc = 0] ELSE p.db[c]]
      fresh == apply(cleared, line.lo, line.hi, p.defaults)
  IN  [defaults |-> IF line.k = "defaults" THEN line.items ELSE p.defaults,
       db |-> apply(IF line.k \in {"block", "unassigned"} THEN fresh ELSE p.db, line.lo, line.hi, line.items)]
loadUcd(lines) ==
  FoldLeft(UcdLine, [defaults |-> [p \in {} |-> 0], db |-> [c \in Chars |-> [sc |-> "Zyyy", lb |-> "XX", Ideo |-> FALSE, ccc |-> 0]]],
           lines).db
propertySet(db, p, values) == {c \in Chars : db[c][p] \in values}

\* segmenterEntries: the sets of an engine for a script's words, with the characters
\* they begin with and those they do not end with; and those of Chinese and Japanese,
\* which takes one more that has no script of its own.
Complex(db, script) == propertySet(db, "sc", {script}) \cap propertySet(db, "lb", {"SA"})
engine(db, script, begin, end) ==
  LET word == Complex(db, script)
  IN  [set |-> ranges(word), mark |-> ranges((word \ propertySet(db, "ccc", {0})) \cup {0}),
       end |-> ranges(word \ end), begin |-> ranges(begin)]
Prolonged == 3
cj(db) == propertySet(db, "sc", {"Hani"}) \cup {Prolonged}
\* The scripts of what the rules leave to a dictionary and no engine is made for,
\* as runs of them and of none.
DictChars(cats, r) == {c \in Chars : RunValue(r.starts, r.values, c) >= cats.dictStart}
Unhandled(db, dict) ==
  {db[c].sc : c \in dict \ (Complex(db, "Thai") \cup (cj(db) \cap propertySet(db, "sc", {"Hani"})))}
scriptRuns(db, scripts) ==
  LET script(c) == IF db[c].sc \in scripts THEN db[c].sc ELSE "none"
      starts == SetToSortSeq({c \in Chars : c = 0 \/ script(c) # script(c - 1)}, <)
  IN  [starts |-> starts, values |-> [i \in DOMAIN starts |-> script(starts[i])]]

-----------------------------------------------------------------------------
(* What the rules mean, by themselves.  A text is read between BOF and EOF *)
(* as -2 and -1; the places of a text are before, between and after them.  *)

In(key, c) == CASE c = -2 -> "bof" \in SetOf[key].strings
                [] c = -1 -> "eof" \in SetOf[key].strings
                [] OTHER -> c \in SetOf[key].bits
\* Where what starts at i and matches e ends.
RECURSIVE Matched(_, _, _, _), Many(_, _, _, _)
FromAll(e, vars, w, S) == UNION {Matched(e, vars, w, i) : i \in S}
Many(e, vars, w, S) == LET more == S \cup FromAll(e, vars, w, S) IN IF more = S THEN S ELSE Many(e, vars, w, more)
Matched(e, vars, w, i) ==
  CASE e[1] = "var" -> Matched(vars[e[2]], vars, w, i)
    [] e[1] = "set" -> IF i < Len(w) /\ In(e[2], w[i + 1]) THEN {i + 1} ELSE {}
    [] e[1] \in {"tag", "la"} -> {i}
    [] e[1] = "cat" -> FromAll(e[3], vars, w, Matched(e[2], vars, w, i))
    [] e[1] = "or" -> Matched(e[2], vars, w, i) \cup Matched(e[3], vars, w, i)
    [] e[1] = "q" -> {i} \cup Matched(e[2], vars, w, i)
    [] e[1] = "star" -> Many(e[2], vars, w, {i})
    [] e[1] = "plus" -> Many(e[2], vars, w, Matched(e[2], vars, w, i))

\* A rule of a case: a body, with its tag after it, or a part before / and one
\* after it.  Ends of bodies, of a text and of those gone on into from there.
Body(c, r, w, i) == Matched(c.rules[r].body, c.vars, w, i)
AheadOf(c, r, w, i) == IF c.rules[r].after = <<>> THEN {} ELSE Body(c, r, w, i)
EndOf(c, r, w, i) ==
  LET body == Body(c, r, w, i) IN IF c.rules[r].after = <<>> THEN body ELSE FromAll(c.rules[r].after, c.vars, w, body)
Goes(c, r) == c.rules[r].chain /\ ~(c.rules[r].after = <<>> /\ c.rules[r].tag = 0 /\ IsSet(c.rules[r].body, c.vars))
Begun(c, S) == {y \in (DOMAIN c.rules) \X (S.any \cup S.on) : y[2] \in S.any \/ Goes(c, y[1])}
Reached(c, w, S) == UNION {{<<j, y[1]>> : j \in EndOf(c, y[1], w, y[2]) \ (0..y[2])} : y \in Begun(c, S)}
AheadAt(c, w, S) == UNION {{<<j, y[1]>> : j \in AheadOf(c, y[1], w, y[2]) \ (0..y[2])} : y \in Begun(c, S)}
RECURSIVE Starts(_, _, _)
Starts(c, w, S) ==
  LET on == {e[1] - 1 : e \in {x \in Reached(c, w, S) : c.rules[x[2]].after = <<>>}}
  IN  IF on \subseteq S.on THEN S ELSE Starts(c, w, [S EXCEPT !.on = @ \cup on])
\* The boundary after the text's beginning and its tag: where a rule with a / is
\* first met, the last place of its /; else the longest match; else one character.
Meant(c, w, ends, marks) ==
  LET max(S) == Greatest(S)
      place(j) == IF j > Len(w) - 1 THEN Len(w) - 2 ELSE j - 1
      tag(j) == max({0} \cup {c.rules[e[2]].tag : e \in {x \in ends : x[1] = j}})
      ahead == {e[1] : e \in {x \in ends : c.rules[x[2]].after # <<>>}}
      met == Least(ahead)
      plain == {e[1] : e \in {x \in ends : x[1] >= 2}}
  IN  CASE ahead # {} -> <<place(max({m[1] : m \in {x \in marks : x[1] < met}})), tag(met)>>
        [] ahead = {} /\ plain # {} -> <<place(max(plain)), tag(max(plain))>>
        [] OTHER -> <<1, 0>>
Asked(c, w, S) == Meant(c, w, Reached(c, w, S), AheadAt(c, w, S))
Meaning(c, text) ==
  LET w == <<-2>> \o text \o <<-1>> IN Asked(c, w, Starts(c, w, [any |-> {0, 1}, on |-> {}]))

-----------------------------------------------------------------------------
(* The cases.                                                              *)

Unary == {<<op, <<"set", s>>>> : op \in {"star", "plus", "q"}, s \in {"a", "x"}}
Sets(keys) == {<<"set", s>> : s \in keys}
Exprs1 == Sets({"a", "x"}) \cup Unary
Exprs2 == {<<op, m, n>> : op \in {"cat", "or"}, m, n \in Exprs1}
Exprs3 == {<<op, m>> : op \in {"star", "plus", "q"}, m \in Exprs2}
            \cup {<<op, m, n>> : op \in {"cat", "or"}, m \in Exprs2, n \in Sets({"a"})}
            \cup {<<op, n, m>> : op \in {"cat", "or"}, m \in Exprs2, n \in Sets({"a"})}

\* An expression as it is written, with no more parentheses than it needs.
Rank(e) == CASE e[1] = "or" -> 1 [] e[1] = "cat" -> 2 [] OTHER -> 3
Sign(op) == CHOOSE c \in DOMAIN Repeats : Repeats[c] = op
RECURSIVE Shown(_, _)
Shown(e, rank) ==
  LET in(text) == IF Rank(e) < rank THEN <<"(">> \o text \o <<")">> ELSE text IN
  CASE e[1] \in {"set", "var"} -> <<e[2]>>
    [] e[1] = "or" -> in(Shown(e[2], 1) \o <<"|">> \o Shown(e[3], 2))
    [] e[1] = "cat" -> in(Shown(e[2], 2) \o Shown(e[3], 3))
    [] OTHER -> Shown(e[2], 3) \o <<Sign(e[1])>>

Rule(body, after, tag, chain) == [body |-> body, after |-> after, tag |-> tag, chain |-> chain]
TextOf(r) == Shown(r.body, 2) \o (IF r.after = <<>> THEN <<>> ELSE <<"/">> \o Shown(r.after, 2))
               \o (IF r.tag = 0 THEN <<>> ELSE IF r.tag = 1 THEN <<"{1}">> ELSE <<"{2}">>)
\* The file of a case: its variable, its rules, and where it says that rules go on.
Written(c) ==
  <<[k |-> "=", name |-> "$dictionary", text |-> <<c.dictionary>>], [k |-> "=", name |-> "$v", text |-> Shown(c.vars["$v"], 1)]>>
    \o (IF \E r \in DOMAIN c.rules : c.rules[r].chain THEN <<[k |-> "!!chain"]>> ELSE <<>>)
    \o [r \in DOMAIN c.rules |-> [k |-> IF c.rules[r].chain THEN "" ELSE "^", text |-> TextOf(c.rules[r])]]

SetItemCases ==
  LET one == {<<Set(Items(<<Char(0), Op("-"), Char(2)>>))>>, <<Set(Not(<<Char(1)>>))>>, <<Char(2), Op("-"), Char(3)>>, <<Char(1)>>, <<Str("eof")>>}
      set == {x \in one : x[1].k = "["} \cup {<<Set(Items(<<Str("eof"), Char(3)>>))>>}
  IN  [neg : BOOLEAN, first : one \cup {<<>>}, op : {"|", "-", "&"}, set : set, op2 : {"-", "&"}, set2 : set]
ExprCases == Exprs1 \cup Exprs2 \cup Exprs3
Vars(e) == [v \in VarNames |-> IF v = "$v" THEN e ELSE <<"set", "D">>]
V == <<"var", "$v">>
Seconds == {Rule(<<"set", "b">>, <<>>, 2, TRUE), Rule(<<"cat", <<"set", "b">>, <<"plus", <<"set", "a">>>>>>, <<>>, 0, TRUE),
            Rule(<<"cat", <<"set", "B">>, <<"set", "x">>>>, <<>>, 2, FALSE), Rule(<<"cat", <<"set", "x">>, <<"set", "E">>>>, <<>>, 1, TRUE),
            Rule(<<"cat", <<"set", "a">>, <<"set", ".">>>>, <<"set", "b">>, 0, TRUE),
            Rule(<<"plus", <<"set", "x">>>>, <<"set", "D">>, 2, FALSE),
            Rule(V, <<>>, 0, TRUE)}
CompileCases ==
  {[rules |-> <<Rule(body, <<>>, tag, tag = 1), second>>, vars |-> Vars(<<"set", "x">>), dictionary |-> "D"] :
     body \in Exprs1 \cup {<<op, m, n>> : op \in {"cat", "or"}, m \in Exprs1, n \in Sets({"a", "b"})}
                \cup {<<op, <<"or", <<"set", "a">>, <<"cat", V, V>>>>>> : op \in {"star", "q"}}, tag \in {0, 1}, second \in Seconds}
\* Lines of the database, after one with the defaults.
Line(k, lo, hi, items) == [k |-> k, lo |-> lo, hi |-> hi, items |-> items]
Lines == {Line("block", 0, 2, [sc |-> "Thai"]), Line("block", 1, 3, [Ideo |-> TRUE]), Line("cp", 1, 2, [lb |-> "SA"]),
          Line("cp", 2, 3, [sc |-> "Hani", Ideo |-> TRUE]), Line("cp", 1, 1, [sc |-> "Thai", ccc |-> 9]),
          Line("unassigned", 2, 3, [lb |-> "XX"]), Line("cp", 3, 3, [Ideo |-> FALSE, lb |-> "SA"])}
Defaults == [sc |-> "Zyyy", lb |-> "AL"]
UcdCases == [1..3 -> Lines]
RuledTexts == UNION {[1..n -> 1..3] : n \in 1..3} \cup {<<1, 1, 2, 1>>, <<1, 2, 1, 1>>, <<2, 1, 2, 1>>, <<1, 1, 1, 2>>}

-----------------------------------------------------------------------------
\* A set is what its operations from the left make of it; the runs of it are it
\* (parseSet, ranges).
SetsRead(c) ==
  LET bits(s) == parseSet([neg |-> FALSE, items |-> s]).bits
      with(S, op, T) == CASE op = "|" -> S \cup T [] op = "-" -> S \ T [] OTHER -> S \cap T
      plain == c.first = <<>> \/ c.first[Len(c.first)].k = "[" \/ Len(c.first) = 3
      items == c.first \o (IF c.op = "|" THEN <<>> ELSE <<Op(c.op)>>) \o c.set \o <<Op(c.op2)>> \o c.set2
      read == parseSet([neg |-> c.neg, items |-> items])
      meant == with(with(bits(c.first), c.op, bits(c.set)), c.op2, bits(c.set2))
  IN  plain => /\ read.bits = IF c.neg THEN Chars \ meant ELSE meant
               /\ \A x \in -1..3 : InSet(ranges(read.bits), x) = (x \in read.bits)

\* A character has of each property what the last line says that gives it to it or
\* makes it begin again; every character that is left to a dictionary has an engine
\* made for it or is passed by with those of its script (loadUcd,
\* segmenterEntries).
DataHolds(lines) ==
  LET at(c) == {i \in DOMAIN lines : c \in lines[i].lo..lines[i].hi}
      says(c, p) == {i \in at(c) : p \in DOMAIN lines[i].items \/ lines[i].k # "cp"}
      unsaid(p) == CASE p = "Ideo" -> FALSE [] p = "ccc" -> 0 [] OTHER -> Defaults[p]
      value(c, p, is) == IF is = {} \/ p \notin DOMAIN lines[Greatest(is)].items THEN unsaid(p)
                         ELSE lines[Greatest(is)].items[p]
      passed(db, cats, r) ==
        \A c \in Chars :
          LET script == RunValue(r.starts, r.values, c)
          IN  /\ script \in {"none", db[c].sc}
              /\ cats.ofCp[c] >= cats.dictStart =>
                   script # "none" \/ InSet(engine(db, "Thai", {1}, {2}).set, c) \/ c \in cj(db)
      of(db) == /\ \A c \in Chars : \A p \in DOMAIN db[c] : db[c][p] = value(c, p, says(c, p))
                /\ \A cats \in {categories(<<[key |-> "a", name |-> ""], [key |-> "D", name |-> "$dictionary"]>>)} :
                     \A scripts \in {Unhandled(db, DictChars(cats, runs(cats)))} : passed(db, cats, scriptRuns(db, scripts))
  IN  of(loadUcd(<<Line("defaults", 0, 3, Defaults)>> \o lines))

\* A rule is read as it is written (parseExpr).
RulesRead(e) == parseExpr(Shown(e, 1), 1) = e

\* The machine made of the rules divides every text where the rules do, with the
\* tag of the rules that end there; the characters of a category are of the same
\* sets, in runs that say so of each, those of the dictionary last.
MachineDoes(c) ==
  LET means(t) == \A text \in RuledTexts : \A r \in {HandleNext(t, text, 0)} : <<r.result, r.tag>> = Meaning(c, text)
      apart(p, cats, r) ==
        /\ \A x, y \in Chars : cats.ofCp[x] = cats.ofCp[y] <=> Member(p.usets, x) = Member(p.usets, y)
        /\ \A x \in Chars :
             /\ RunValue(r.starts, r.values, x) = cats.ofCp[x]
             /\ (cats.ofCp[x] >= cats.dictStart) = (x \in SetOf[c.dictionary].bits)
      with(p, cats) == means(compile(p, cats)) /\ apart(p, cats, runs(cats))
      of(p) == with(p, categories(p.usets))
  IN  of(parseRuleFile(Written(c)))
=============================================================================
