----------------------------- MODULE Collation -----------------------------
(***************************************************************************)
(* Intl.Collator (vita/js/intl_collator.js): a text's collation elements,  *)
(* with contractions that reach over marks and digits taken by value, the  *)
(* sort key made of them, the order of scripts a tailoring asks for, and the*)
(* settings a collator is made with; and how a locale's rules become those *)
(* elements (scripts/gen-intl-collation.mjs): the rules read as operations,*)
(* and the Builder, which gives what a rule orders a weight between those  *)
(* there are, as a place in a list of weights after or before one of the   *)
(* root.  A character is a number; a text is in NFD.                       *)
(*                                                                         *)
(* A weight is a unit of the root and one a tailoring orders by: for Collator*)
(* a number, Sub times the first and the second; for the Builder <<v, n>>, *)
(* node n of the lists, or n = 0, in a root where each character has an    *)
(* element of its own.                                                     *)
(***************************************************************************)
EXTENDS Integers, Sequences, FiniteSets
LOCAL INSTANCE SequencesExt
LOCAL INSTANCE FiniteSetsExt

Least(S) == CHOOSE x \in S : \A y \in S : x <= y
Larger(a, b) == IF a > b THEN a ELSE b
Lexical(a, b) ==
  LET diff == {k \in DOMAIN a \cap DOMAIN b : a[k] # b[k]}
  IN  IF diff = {} THEN Len(a) < Len(b) ELSE LET k == Least(diff) IN a[k] < b[k]
Undefined == "undefined"

-----------------------------------------------------------------------------
(* Elements: sequences of <<primary, secondary, tertiary>>.                *)
Sub == 4
Mid == 2
Common == 5 * Sub + Mid

\* implicit: Han by its rank, what has none after those; what is not assigned by
\* number, after all of them.
HanRank(runs, cp) ==
  LET at == {k \in DOMAIN runs : runs[k].start <= cp /\ cp < runs[k].start + runs[k].len}
      before(k) == FoldLeft(LAMBDA n, r : n + r.len, 0, SubSeq(runs, 1, k - 1))
  IN  IF at = {} THEN -1 ELSE LET k == Least(at) IN before(k) + cp - runs[k].start
HanBase == 1000
HanRest == 100
Unassigned == 2000
Implicit(han, runs, cp) ==
  LET in == {k \in DOMAIN han : han[k][1] <= cp /\ cp <= han[k][2]}
      before(k) == FoldLeft(LAMBDA n, r : n + r[2] - r[1] + 1, 0, SubSeq(han, 1, k - 1))
      rank(k, h) == IF h >= 0 THEN h ELSE HanRest + before(k) + cp - han[k][1]
      primary == IF in = {} THEN Unassigned + cp ELSE HanBase + rank(Least(in), HanRank(runs, cp))
  IN  <<primary * Sub + Mid, Common, Common>>

\* numericCEs: digits by their value, two bytes of it, then three, then pairs.
NumericBase == 268435456
NumericCEs(all) ==
  LET start == Least({k \in DOMAIN all : k = Len(all) \/ all[k] # 0})
      value(d) == FoldLeft(LAMBDA v, x : v * 10 + x, 0, d)
      two(v) == NumericBase + (76 + v \div 254) * 65536 + (2 + (v % 254)) * 256
      three(v) == NumericBase + 2 + (v % 254) + (2 + ((v \div 254) % 254)) * 256 + (116 + ((v \div 64516) % 254)) * 65536
      short(v) == CASE v < 74 -> NumericBase + (2 + v) * 65536
                    [] v >= 74 /\ v < 10234 -> two(v - 74)
                    [] OTHER -> three(v - 10234)
      \* Noughts at the end, in pairs, are not written.
      kept(d) == Least({n \in 1..Len(d) : n % 2 = Len(d) % 2 /\ \A k \in n + 1..Len(d) : d[k] = 0})
      pairs(d, n) == LET odd == n % 2
                     IN  [k \in 1..(n + 1) \div 2 |->
                            11 + 2 * (IF odd = 1 /\ k = 1 THEN d[1] ELSE d[2 * k - 1 - odd] * 10 + d[2 * k - odd])]
      shifted(p, pair, shift) == p + pair * 2 ^ shift
      step(m, pair) == IF m.shift = 0 THEN [out |-> Append(m.out, m.p + pair), p |-> NumericBase, shift |-> 16]
                       ELSE [m EXCEPT !.p = shifted(@, pair, m.shift), !.shift = @ - 8]
      last(m, pair) == Append(m.out, shifted(m.p, pair - 1, m.shift))
      written(n, list) == last(FoldLeft(step, [out |-> <<>>, p |-> NumericBase + (128 + (n + 1) \div 2) * 65536, shift |-> 8], Front(list)),
                               Last(list))
      long(d) == written(Len(d), pairs(d, kept(d)))
      of(d) == IF Len(d) <= 7 /\ value(d) < 1042490 THEN <<short(value(d))>> ELSE long(d)
  IN  of(SubSeq(all, start, Len(all)))

\* contractions: those of the tailoring, then those of the root, unless it
\* suppresses them; each list has its longest first.
\* Mutant: the first that matches is taken.
AsListed(list) == list
LongestFirst(list) ==
  LET order == SetToSortSeq(DOMAIN list, LAMBDA i, j : Len(list[i][1]) > Len(list[j][1]) \/ (Len(list[i][1]) = Len(list[j][1]) /\ i < j))
  IN  [k \in DOMAIN list |-> list[order[k]]]
Contractions(d, cp) ==
  LET own == d.tail.c[cp]
      root == SelectSeq(d.root.c[cp], LAMBDA e : \A i \in DOMAIN own : own[i][1] # e[1])
  IN  LongestFirst(IF cp \in d.tail.sup THEN own ELSE own \o root)
StartsAt(s, i, key) == i + Len(key) <= Len(s) /\ SubSeq(s, i + 1, i + Len(key)) = key
\* contract: the longest that follows, then the marks after it that make it longer
\* still, if no mark between has their class or a higher one.
Contract(d, list, s, at) ==
  LET first == {j \in DOMAIN list : StartsAt(s, at, list[j][1])}
      begin == IF first = {} THEN [ok |-> FALSE, key |-> <<>>, ces |-> <<>>]
               ELSE LET e == list[Least(first)] IN [ok |-> TRUE, key |-> e[1], ces |-> e[2]]
      longer(m, c) == {j \in DOMAIN list : list[j][1] = m.key \o <<c>>}
      with(m, k, more) == IF more = {} THEN [m EXCEPT !.max = Larger(@, d.ccc[s[k]])]
                          ELSE [m EXCEPT !.ok = TRUE, !.key = list[Least(more)][1], !.ces = list[Least(more)][2], !.skipped = @ \cup {k - 1}]
      step(m, k) == IF m.done \/ d.ccc[s[k]] = 0 THEN [m EXCEPT !.done = TRUE]
                    ELSE with(m, k, IF d.ccc[s[k]] > m.max THEN longer(m, s[k]) ELSE {})
      over(b) == FoldLeft(step, [ok |-> b.ok, key |-> b.key, ces |-> b.ces, max |-> 0, done |-> FALSE, skipped |-> {}, end |-> at + Len(b.key)],
                          [k \in 1..Len(s) - at - Len(b.key) |-> at + Len(b.key) + k])
  IN  over(begin)
SingleCEs(d, cp) == CASE d.tail.s[cp] # <<>> -> d.tail.s[cp]
                      [] d.tail.s[cp] = <<>> /\ d.root.s[cp] # <<>> -> d.root.s[cp]
                      [] OTHER -> <<Implicit(d.han, d.runs, cp)>>
\* ces: a segment of elements for each character, contraction or number; of a
\* character with a prefix before it, the elements it has there.
MaxDigits == 254
Prefixed(d, s, i) ==
  LET contexts == LongestFirst(IF d.tail.x[s[i + 1]] # <<>> THEN d.tail.x[s[i + 1]] ELSE d.root.x[s[i + 1]])
  IN  SelectSeq(contexts, LAMBDA e : i >= Len(e[1]) /\ SubSeq(s, i - Len(e[1]) + 1, i) = e[1])
DigitsAt(d, s, i) ==
  LET end == Least({k \in i..Len(s) : k = Len(s) \/ d.digit[s[k + 1]] < 0 \/ k - i = MaxDigits})
  IN  [k \in 1..end - i |-> d.digit[s[i + k]]]
Ces(d, s, numeric) ==
  LET put(m, seg, to) == [m EXCEPT !.out = Append(@, seg), !.i = to]
      alone(m) == LET digits == DigitsAt(d, s, m.i)
                  IN  IF numeric /\ digits # <<>>
                      THEN put(m, [k \in DOMAIN NumericCEs(digits) |-> <<NumericCEs(digits)[k] , Common, Common>>], m.i + Len(digits))
                      ELSE put(m, SingleCEs(d, s[m.i + 1]), m.i + 1)
      joined(m, c) == IF c.ok THEN [put(m, c.ces, c.end) EXCEPT !.skip = @ \cup c.skipped] ELSE alone(m)
      unprefixed(m, list) == IF list = <<>> THEN alone(m) ELSE joined(m, Contract(d, list, s, m.i + 1))
      at(m, pre) == IF pre # <<>> THEN put(m, pre[1][2], m.i + 1) ELSE unprefixed(m, Contractions(d, s[m.i + 1]))
      step(m, k) == CASE m.i >= Len(s) -> m
                      [] m.i < Len(s) /\ m.i \in m.skip -> [m EXCEPT !.i = @ + 1]
                      [] OTHER -> at(m, Prefixed(d, s, m.i))
  IN  FoldLeft(step, [i |-> 0, out |-> <<>>, skip |-> {}], [k \in 1..Len(s) |-> k]).out

-----------------------------------------------------------------------------
(* Sort keys.                                                              *)
\* tertiary: the weight with the bits that tell its case, Case times over.
Case == 16
TertiaryWeight(t, notTertiary, o) ==
  LET low == t % Case
      case == t \div Case
      upper == IF 3 - case < 3 THEN 3 - case - 1 ELSE 3
  IN  CASE o.caseFirst = "" \/ o.caseLevel -> low
        [] o.caseFirst = "lower" /\ ~o.caseLevel -> t
        [] OTHER -> (IF notTertiary THEN upper ELSE 3) * Case + low
RankOf(order, p) ==
  LET find[lo \in DOMAIN order.starts, hi \in DOMAIN order.starts] ==
        LET m == (lo + hi + 1) \div 2
        IN  IF lo >= hi THEN order.rank[lo] ELSE IF order.starts[m] <= p THEN find[m, hi] ELSE find[lo, m - 1]
  IN  find[1, Len(order.starts)]
\* levels: what a list of elements has at each level.  What is shifted goes, and
\* the marks after it.
Visible(list, o) ==
  LET step(m, e) ==
        LET p == e[1] \div Sub
        IN  CASE o.shifted /\ p # 0 /\ p <= o.vt -> [m EXCEPT !.after = TRUE]
              [] o.shifted /\ p = 0 /\ m.after -> m
              [] OTHER -> [out |-> Append(m.out, e), after |-> IF o.shifted /\ p # 0 THEN FALSE ELSE m.after]
  IN  FoldLeft(step, [out |-> <<>>, after |-> FALSE], list).out
Levels(list, o) ==
  LET p(e) == IF e[1] = 0 THEN <<>>
              ELSE (IF o.order = <<>> THEN <<>> ELSE <<RankOf(o.order[1], e[1] \div Sub)>>) \o <<e[1] \div Sub, e[1] % Sub>>
      s(e) == IF o.strength >= 2 /\ e[2] # 0 THEN <<<<e[2] \div Sub, e[2] % Sub>>>> ELSE <<>>
      cased(e) == IF o.strength = 1 THEN e[1] \div Sub # 0 ELSE e[2] \div Sub # 0 \/ e[1] \div Sub # 0
      bits(e) == ((e[3] \div Sub) \div Case) % 4
      c(e) == IF o.caseLevel /\ cased(e) THEN <<IF o.caseFirst = "upper" THEN 4 - bits(e) ELSE 2 + bits(e)>> ELSE <<>>
      t(e) == IF o.strength >= 3 /\ e[3] # 0
              THEN <<TertiaryWeight(e[3] \div Sub, e[1] \div Sub # 0 \/ e[2] >= Sub, o), e[3] % Sub>> ELSE <<>>
      of(v) == LET seconds == FlattenSeq([i \in DOMAIN v |-> s(v[i])])
               IN  <<FlattenSeq([i \in DOMAIN v |-> p(v[i])]), FlattenSeq(IF o.backwards THEN Reverse(seconds) ELSE seconds),
                     FlattenSeq([i \in DOMAIN v |-> c(v[i])]), FlattenSeq([i \in DOMAIN v |-> t(v[i])])>>
  IN  of(Visible(list, o))
\* key: segment by segment, but where a level looks across them.
Key(segs, o) ==
  LET parts == IF o.shifted \/ o.backwards THEN <<Levels(FlattenSeq(segs), o)>> ELSE [i \in DOMAIN segs |-> Levels(segs[i], o)]
      level(all, n) == FlattenSeq([i \in DOMAIN all |-> all[i][n]])
      of(all) == level(all, 1) \o (IF o.strength >= 2 THEN <<1>> \o level(all, 2) ELSE <<>>)
                 \o (IF o.caseLevel THEN <<1>> \o level(all, 3) ELSE <<>>) \o (IF o.strength >= 3 THEN <<1>> \o level(all, 4) ELSE <<>>)
  IN  of(parts)
CompareWith(x, y) == CASE Lexical(x, y) -> -1 [] Lexical(y, x) -> 1 [] OTHER -> 0

-----------------------------------------------------------------------------
(* buildOrder: the ranks of the groups, special ones not listed first, then *)
(* the listed, the rest, and those listed after Zzzz.                       *)
Special == <<"space", "digit">>
BuildOrder(groups, codes) ==
  LET n == Len(groups)
      zzzz == {i \in DOMAIN codes : codes[i] = "zzzz"}
      end == IF zzzz = {} THEN <<>> ELSE SubSeq(codes, Least(zzzz) + 1, Len(codes))
      front == IF zzzz = {} THEN codes ELSE SubSeq(codes, 1, Least(zzzz) - 1)
      take(r, which) == r \o SetToSortSeq(which \ ToSet(r), <)
      give(r, code) == take(r, {i \in 1..n : code \in groups[i].codes})
      begin == take(<<>>, {i \in 1..n : groups[i].start = 0})
      special == FoldLeft(give, begin, SelectSeq(Special, LAMBDA c : c \notin ToSet(codes)))
      rest(r) == take(r, {i \in 1..n : ~groups[i].end /\ groups[i].codes \cap ToSet(end) = {}})
      order == take(FoldLeft(give, rest(FoldLeft(give, special, front)), end), 1..n)
      place(r) == [starts |-> [i \in 1..n |-> groups[i].start], rank |-> [i \in 1..n |-> 2 + CHOOSE k \in 1..n : r[k] = i]]
  IN  place(order)

-----------------------------------------------------------------------------
(* Collator: options, then the keys of the locale, then the locale's own.  *)
\* A locale is its keys; ld its collations, the one it has by default, and what
\* the tailoring of each sets.
IsTrue(v) == v \in {"", "true"}
Collation(ld, kw, co) ==
  LET good(v) == v \notin {Undefined, "standard", "search", ld.default} /\ v \in ld.types
  IN  IF good(co) THEN co ELSE IF good(kw.co) THEN kw.co ELSE Undefined
Collator(ld, kw, o) ==
  LET type == Collation(ld, kw, o.collation)
      used == IF o.usage = "search" THEN "search" ELSE IF type = Undefined THEN ld.default ELSE type
      set == ld.set[used]
      co == IF type # Undefined /\ kw.co = type THEN type ELSE Undefined
      true(v) == IF IsTrue(v) THEN "true" ELSE v
      kn == CASE o.numeric # Undefined -> [value |-> o.numeric, key |-> IF kw.kn # Undefined /\ true(kw.kn) = o.numeric THEN true(kw.kn) ELSE Undefined]
              [] o.numeric = Undefined /\ (IsTrue(kw.kn) \/ kw.kn = "false") -> [value |-> true(kw.kn), key |-> true(kw.kn)]
              [] OTHER -> [value |-> set.numeric, key |-> Undefined]
      kf == CASE o.caseFirst # Undefined -> [value |-> o.caseFirst, key |-> IF kw.kf = o.caseFirst THEN kw.kf ELSE Undefined]
              [] o.caseFirst = Undefined /\ kw.kf \in {"upper", "lower", "false"} -> [value |-> kw.kf, key |-> kw.kf]
              [] OTHER -> [value |-> set.caseFirst, key |-> Undefined]
  IN  [locale |-> [co |-> co, kn |-> kn.key, kf |-> kf.key], usage |-> o.usage, used |-> used,
       sensitivity |-> IF o.sensitivity = Undefined THEN "variant" ELSE o.sensitivity,
       ignorePunctuation |-> IF o.ignorePunctuation = Undefined THEN set.shifted ELSE o.ignorePunctuation,
       collation |-> IF type = Undefined THEN "default" ELSE type, numeric |-> kn.value, caseFirst |-> kf.value]

-----------------------------------------------------------------------------
(* The cases.  0 and 1 are letters, the second of them above; 2 to 4 marks, *)
(* two of one class; 5 a space, 6 a Han character, 7 one not assigned, 8 a *)
(* digit.                                                                  *)
Nothing == [c \in 0..8 |-> <<>>]
CE(p, s, t) == <<p * Sub + (IF p = 0 THEN 0 ELSE Mid), s * Sub + (IF s = 0 THEN 0 ELSE Mid), t * Sub + Mid>>
Root == [s |-> [c \in 0..8 |-> CASE c = 0 -> <<CE(20, 5, 5)>> [] c = 1 -> <<CE(20, 5, 5 + 2 * Case)>> [] c = 2 -> <<CE(0, 8, 5)>>
                                 [] c = 3 -> <<CE(0, 9, 5)>> [] c = 4 -> <<CE(0, 0, 7)>> [] c = 5 -> <<CE(3, 5, 5)>> [] c = 8 -> <<CE(12, 5, 5)>>
                                 [] OTHER -> <<>>],
         c |-> [Nothing EXCEPT ![0] = <<<<<<3>>, <<CE(30, 5, 5)>>>>, <<<<2, 4>>, <<CE(31, 5, 5)>>>>, <<<<1>>, <<CE(32, 5, 5), CE(0, 8, 5)>>>>>>],
         x |-> [Nothing EXCEPT ![5] = <<<<<<1, 0>>, <<CE(40, 5, 5)>>>>>>]]
Tails == {[s |-> Nothing, c |-> Nothing, x |-> Nothing, sup |-> {}],
          [s |-> [Nothing EXCEPT ![1] = <<CE(21, 5, 5)>>], c |-> [Nothing EXCEPT ![0] = <<<<<<3>>, <<CE(19, 5, 5)>>>>, <<<<3, 4>>, <<CE(22, 6, 5)>>>>>>],
           x |-> Nothing, sup |-> {}],
          [s |-> Nothing, c |-> [Nothing EXCEPT ![0] = <<<<<<1, 2>>, <<CE(22, 6, 5)>>>>>>], x |-> Nothing, sup |-> {0}]}
Data(tail) == [root |-> Root, tail |-> tail, ccc |-> [c \in 0..8 |-> CASE c \in {2, 3} -> 1 [] c = 4 -> 2 [] OTHER -> 0],
               digit |-> [c \in 0..8 |-> IF c = 8 THEN 3 ELSE -1], han |-> <<<<6, 6>>>>, runs |-> <<[start |-> 6, len |-> 1]>>]
Order == BuildOrder(<<[start |-> 0, codes |-> {}, end |-> FALSE], [start |-> 2, codes |-> {"space"}, end |-> FALSE],
                      [start |-> 10, codes |-> {"digit"}, end |-> FALSE], [start |-> 15, codes |-> {"latn"}, end |-> FALSE],
                      [start |-> 500, codes |-> {"hani"}, end |-> FALSE], [start |-> 2000, codes |-> {}, end |-> TRUE]>>, <<"hani">>)
Options == [strength : {1, 2, 3}, caseLevel : {FALSE}, caseFirst : {"", "upper"}, shifted : {FALSE}, backwards : {FALSE}, order : {<<>>}, vt : {4}]
           \cup [strength : {1, 3}, caseLevel : {TRUE}, caseFirst : {"lower"}, shifted : {TRUE}, backwards : BOOLEAN, order : {<<Order>>}, vt : {4}]
Canonically(s) == \A i \in 2..Len(s) : LET ccc == Data(CHOOSE t \in Tails : TRUE).ccc IN ccc[s[i]] = 0 \/ ccc[s[i - 1]] <= ccc[s[i]]
TextsOf(letters, n) == {s \in UNION {[1..k -> letters] : k \in 0..n} : Canonically(s)}
ContractCases == [text : TextsOf(1..5, 4), tail : Tails]
KeyCases == [a : TextsOf({0, 1, 2, 4, 5, 6}, 2) \cup TextsOf({0, 3, 4}, 3), b : TextsOf({0, 1, 5, 8}, 2) \cup {<<7>>, <<3>>, <<0, 3>>}, tail : Tails]
Bounds == {0, 7, 9, 10, 73, 74, 75, 99, 327, 328, 329, 1000, 10233, 10234, 10235, 10487, 10488, 74749, 74750, 74751, 1042489, 1042490,
           1042491, 9999999}
Decimal(n) == LET of[k \in 0..9999999] == IF k < 10 THEN <<k>> ELSE Append(of[k \div 10], k % 10) IN of[n]
Longer == {<<1, 0, 4, 2, 4, 9, 0>> \o d : d \in {<<0>>, <<5>>, <<0, 0>>, <<0, 1>>, <<9, 9, 0, 0>>}} \cup
          {<<9, 9>> \o [i \in 1..n |-> 0] \o <<d>> : n \in {6, 9, 10, 15}, d \in {0, 1}} \cup {<<1>> \o [i \in 1..n |-> 0] : n \in {7, 8, 11, 12}}
Numbers == {Decimal(n) : n \in Bounds} \cup Longer \cup {<<0, 0>> \o Decimal(n) : n \in {0, 10, 10234}}
NumberCases == Numbers \X Numbers
Groups == {<<[start |-> 0, codes |-> {}, end |-> FALSE], [start |-> 3, codes |-> {"space"}, end |-> FALSE], [start |-> 5, codes |-> {"digit"}, end |-> FALSE],
             [start |-> 7, codes |-> {"latn"}, end |-> FALSE], [start |-> 9, codes |-> {"grek"}, end |-> FALSE],
             [start |-> 11, codes |-> {"hira", "kana"}, end |-> FALSE], [start |-> 20, codes |-> {}, end |-> TRUE]>>}
OrderCases == Groups \X {s \in UNION {[1..k -> {"space", "latn", "grek", "kana", "zzzz"}] : k \in 1..4} : \A i, j \in DOMAIN s : i # j => s[i] # s[j]}
CollatorCases == [ld : {[types |-> {"phonebk", "search", "trad"}, default |-> d,
                         set |-> [t \in {"standard", "search", "phonebk", "trad"} |->
                                    [numeric |-> IF t = "trad" THEN "true" ELSE "false", caseFirst |-> IF t = "phonebk" THEN "upper" ELSE "false",
                                     shifted |-> IF t = "search" THEN "true" ELSE "false"]]] : d \in {"standard", "trad"}},
                  kw : [co : {Undefined, "phonebk", "trad", "search"}, kn : {Undefined, "", "false", "other"}, kf : {Undefined, "upper", "other"}],
                  o : [usage : {"sort", "search"}, collation : {Undefined, "default", "phonebk"}, numeric : {Undefined, "true", "false"},
                       caseFirst : {Undefined, "upper", "false"}, sensitivity : {Undefined, "base"}, ignorePunctuation : {Undefined, "true"}]]

\* A contraction takes the longest that follows, and of the marks after that those
\* that make it longer and have no mark left before them of their class or above.
ContractsRight(c) ==
  LET d == Data(c.tail)
      right(s, list, r) ==
        LET at == r.end - 1
            straight == SubSeq(s, 2, r.end)
            marks == {k \in r.end..Len(s) - 1 : \A j \in r.end..k : d.ccc[s[j + 1]] # 0}
            free(k) == \A j \in marks \ r.skipped : j < k => d.ccc[s[j + 1]] < d.ccc[s[k + 1]]
            taken(n) == LET order == SetToSortSeq({k \in r.skipped : k < n}, <) IN straight \o [i \in DOMAIN order |-> s[order[i] + 1]]
            keys == {list[i][1] : i \in DOMAIN list}
        IN  /\ r.ok => /\ <<r.key, r.ces>> \in ToSet(list) /\ r.key = taken(Len(s))
                       /\ r.skipped \subseteq marks /\ \A k \in r.skipped : free(k)
            /\ \A k \in marks \ r.skipped : free(k) => Append(taken(k), s[k + 1]) \notin keys
            /\ \A n \in r.end + 1..Len(s) : SubSeq(s, 2, n) \notin keys
            /\ ~r.ok => \A n \in 2..Len(s) : SubSeq(s, 2, n) \notin keys
      of(s, list) == right(s, list, Contract(d, list, s, 1))
  IN  of(<<0>> \o c.text, Contractions(d, 0))
\* A number sorts by its value, however it is written.
NumbersInOrder(c) ==
  LET bare(d) == LET start == Least({k \in DOMAIN d : k = Len(d) \/ d[k] # 0}) IN SubSeq(d, start, Len(d))
      less(a, b) == Len(a) < Len(b) \/ (Len(a) = Len(b) /\ Lexical(a, b))
      agree(a, b, x, y) == Lexical(x, y) = less(a, b) /\ (x = y) = (a = b)
  IN  agree(bare(c[1]), bare(c[2]), NumericCEs(c[1]), NumericCEs(c[2]))
\* Every group has a rank of its own; what is listed is in the order listed, after
\* the special groups that are not, before all that is not and is not at the end.
OrderWhole(c) ==
  LET groups == c[1]
      codes == c[2]
      of(b) == LET place(code) == LET i == CHOOSE k \in DOMAIN groups : code \in groups[k].codes IN b.rank[i]
                   listed == {i \in DOMAIN codes : codes[i] # "zzzz"}
               IN  /\ {b.rank[i] : i \in DOMAIN groups} = 3..Len(groups) + 2
                   /\ b.rank[1] = 3
                   /\ \A i, j \in listed : i < j => place(codes[i]) < place(codes[j])
                   /\ \A i \in listed, k \in {"space", "digit"} : k \notin ToSet(codes) => place(k) < place(codes[i])
                   /\ ("zzzz" \notin ToSet(codes)) => \A i \in listed, k \in {"latn", "grek", "kana"} \ ToSet(codes) : place(codes[i]) < place(k)
  IN  of(BuildOrder(groups, codes))
\* Made again of what it says it is, a collator says the same.
CollatorSettles(c) ==
  LET again(r) == Collator(c.ld, r.locale, [usage |-> r.usage, collation |-> r.collation, numeric |-> r.numeric, caseFirst |-> r.caseFirst,
                                            sensitivity |-> r.sensitivity, ignorePunctuation |-> r.ignorePunctuation]) = r
  IN  again(Collator(c.ld, c.kw, c.o))
\* Texts compare as their levels do, one after the other; what a strength holds
\* equal a weaker one does too; and no two ways round are both before.
KeysInOrder(c) ==
  LET d == Data(c.tail)
      first(seq) == LET diff == {n \in 1..4 : seq[n] # 0} IN IF diff = {} THEN 0 ELSE seq[Least(diff)]
      by(a, b) == first([n \in 1..4 |-> CompareWith(a[n], b[n])])
      agree(a, b) == \A o \in Options : CompareWith(Key(a, o), Key(b, o)) = by(Levels(FlattenSeq(a), o), Levels(FlattenSeq(b), o))
  IN  agree(Ces(d, c.a, TRUE), Ces(d, c.b, TRUE))

-----------------------------------------------------------------------------
-----------------------------------------------------------------------------
(* parseRules.  A token is a mark of the rules' own or a text.             *)

Mark(k) == [k |-> k, s |-> <<>>]
Text(s) == [k |-> "text", s |-> s]
Strengths == [k \in {"<", "<<", "<<<", "<<<<", "="} |->
                CASE k = "<" -> 1 [] k = "<<" -> 2 [] k = "<<<" -> 3 [] k = "<<<<" -> 4 [] OTHER -> 0]
Befores == [k \in {"[before 1]", "[before 2]", "[before 3]"} |->
              CASE k = "[before 1]" -> 1 [] k = "[before 2]" -> 2 [] OTHER -> 3]
Reset(str, before) == [op |-> "reset", str |-> str, before |-> before]
Relation(strength, str, prefix, ext) == [op |-> "rel", strength |-> strength, str |-> str, prefix |-> prefix, ext |-> ext]

KindAt(s, i) == IF i <= Len(s) THEN s[i].k ELSE "end"
\* A text, which may be none, and the place after it.
StringAt(s, i) == IF KindAt(s, i) = "text" THEN s[i].s ELSE <<>>
AfterString(s, i) == IF KindAt(s, i) = "text" THEN i + 1 ELSE i

RECURSIVE parseRules(_, _, _), ListRead(_, _, _, _, _)
ResetRead(s, i, before, ops) ==
  parseRules(s, AfterString(s, i), Append(ops, Reset(StringAt(s, i), before)))
\* Each character of a list, and those of a range up to the one after the -.
Each(list, strength) == [k \in DOMAIN list |-> Relation(strength, <<list[k]>>, <<>>, <<>>)]
ListRead(s, i, list, strength, ops) ==
  IF KindAt(s, i) = "-"
  THEN LET to == StringAt(s, i + 1)
           between == [k \in 1..(IF to[1] > Last(list) THEN to[1] - Last(list) ELSE 0) |-> Last(list) + k]
       IN  ListRead(s, AfterString(s, i + 1), list \o between \o Tail(to), strength, ops)
  ELSE parseRules(s, i, ops \o Each(list, strength))
RelationRead(s, i, strength, ops) ==
  LET first == StringAt(s, i)
      j == AfterString(s, i)
      prefixed == KindAt(s, j) = "|"
      str == IF prefixed THEN StringAt(s, j + 1) ELSE first
      k == IF prefixed THEN AfterString(s, j + 1) ELSE j
      extended == KindAt(s, k) = "/"
  IN  parseRules(s, IF extended THEN AfterString(s, k + 1) ELSE k,
                 Append(ops, Relation(strength, str, IF prefixed THEN first ELSE <<>>,
                                      IF extended THEN StringAt(s, k + 1) ELSE <<>>)))
parseRules(s, i, ops) ==
  CASE i > Len(s) -> ops
    [] KindAt(s, i) = "&" ->
         IF KindAt(s, i + 1) \in DOMAIN Befores THEN ResetRead(s, i + 2, Befores[s[i + 1].k], ops) ELSE ResetRead(s, i + 1, 0, ops)
    [] KindAt(s, i) \in DOMAIN Strengths ->
         IF KindAt(s, i + 1) = "*"
         THEN ListRead(s, AfterString(s, i + 2), StringAt(s, i + 2), Strengths[s[i].k], ops)
         ELSE RelationRead(s, i + 1, Strengths[s[i].k], ops)

-----------------------------------------------------------------------------
(* Weights.  One of the root is <<value, 0>>, and one between them <<value *)
(* of the root's, number>>; the weights under a key that are after, or     *)
(* before, one of the root are a list.                                     *)

Rooted(v) == <<v, 0>>
CommonNode == Rooted(5)
None == Rooted(0)
\* listFor, insert: builder b with a weight numbered n.
ListKey(key, base, dir) == <<key, base, dir>>
HasNode(list, w) == \E i \in DOMAIN list.items : list.items[i] = w[2]
InsertedAt(list, i, n) == [list EXCEPT !.items = SubSeq(@, 1, i) \o <<n>> \o SubSeq(@, i + 1, Len(@))]
insert(lists, key, w, before, n) ==
  LET k == ListKey(key, w[1], IF before THEN -1 ELSE 1)
      had == {L \in lists : L.key = k}
      list == IF w[2] = 0 THEN IF had = {} THEN [key |-> k, items |-> <<>>] ELSE CHOOSE L \in had : TRUE
              ELSE CHOOSE L \in lists : HasNode(L, w)
      at == IF w[2] = 0 THEN IF before THEN Len(list.items) ELSE 0
            ELSE (CHOOSE i \in DOMAIN list.items : list.items[i] = w[2]) - (IF before THEN 1 ELSE 0)
  IN  (lists \ {list}) \cup {InsertedAt(list, at, n)}
\* resolve: the weight with its place, those before one of the root under it.
Middle == 100
resolve(lists, w) ==
  IF w[2] = 0 THEN w[1] * 2 * Middle + Middle
  ELSE LET L == CHOOSE l \in lists : HasNode(l, w)
           k == CHOOSE i \in DOMAIN L.items : L.items[i] = w[2]
       IN  w[1] * 2 * Middle + Middle + (IF L.key[3] > 0 THEN k ELSE k - 1 - Len(L.items))

-----------------------------------------------------------------------------
(* The builder: map is of texts, prefixed of those with a prefix.          *)

Element(p, s, t) == [p |-> p, s |-> s, t |-> t]
Ignorable == 4
RootElement(c) == IF c = Ignorable THEN Element(None, Rooted(8), CommonNode) ELSE Element(Rooted(10 * c), CommonNode, CommonNode)

NewBuilder == [map |-> <<>>, prefixed |-> <<>>, lists |-> {}, n |-> 0, anchor |-> <<>>, before |-> 0]
\* ces: of a text; the first of those with a prefix that is before it, or the
\* longest text there is a rule for.
KeyAt(text, i, key) == i + Len(key) - 1 <= Len(text) /\ SubSeq(text, i, i + Len(key) - 1) = key
EndsBefore(text, i, key) == i > Len(key) /\ SubSeq(text, i - Len(key), i - 1) = key
RECURSIVE cesFrom(_, _, _)
cesFrom(b, text, i) ==
  LET pre == {k \in DOMAIN b.prefixed : KeyAt(text, i, b.prefixed[k].str) /\ EndsBefore(text, i, b.prefixed[k].prefix)}
      own == {k \in DOMAIN b.map : KeyAt(text, i, b.map[k].str)}
      longest == CHOOSE k \in own : \A j \in own : Len(b.map[j].str) <= Len(b.map[k].str)
      with(e) == e.ces \o cesFrom(b, text, i + Len(e.str))
  IN  CASE i > Len(text) -> <<>>
        [] i <= Len(text) /\ pre # {} -> with(b.prefixed[Min(pre)])
        [] i <= Len(text) /\ pre = {} /\ own # {} -> with(b.map[longest])
        [] OTHER -> <<RootElement(text[i])>> \o cesFrom(b, text, i + 1)
ces(b, text) == cesFrom(b, text, 1)

reset(b, op) ==
  LET anchor == ces(b, op.str)
  IN  [b EXCEPT !.anchor = IF anchor = <<>> THEN <<Element(None, None, None)>> ELSE anchor, !.before = op.before]

\* relation: the last element of the anchor with a new weight of the strength; the
\* text has those elements from now on, and the next relation is to them.
Weighed(b, op) ==
  LET last == Last(b.anchor)
      n == b.n + 1
      before == b.before = op.strength
      key == CASE op.strength = 1 -> <<"p", None, None>>
               [] op.strength = 2 -> <<"s", last.p, None>>
               [] OTHER -> <<"t", last.p, last.s>>
      w == CASE op.strength = 1 -> last.p [] op.strength = 2 -> last.s [] OTHER -> last.t
      new == <<w[1], n>>
      element == CASE op.strength = 1 -> Element(new, CommonNode, CommonNode)
                   [] op.strength = 2 -> Element(last.p, new, CommonNode)
                   [] OTHER -> Element(last.p, last.s, new)
  IN  [b EXCEPT !.lists = insert(@, key, w, before, n), !.n = n, !.anchor = Append(Front(b.anchor), element)]
Mapped(b, op, elements) ==
  IF op.prefix # <<>>
  THEN [b EXCEPT !.prefixed = Append(@, [str |-> op.str, prefix |-> op.prefix, ces |-> elements])]
  ELSE [b EXCEPT !.map = Append(SelectSeq(@, LAMBDA e : e.str # op.str), [str |-> op.str, ces |-> elements])]
relation(b, op) ==
  LET placed == IF op.strength \in {0, 4} THEN b ELSE Weighed(b, op)
      ext == IF op.ext = <<>> THEN <<>> ELSE ces(b, op.ext)
  IN  [Mapped(placed, op, placed.anchor \o ext) EXCEPT !.before = 0]

Step(b, op) == IF op.op = "reset" THEN reset(b, op) ELSE relation(b, op)
RECURSIVE Ran(_, _)
Ran(b, ops) == IF ops = <<>> THEN b ELSE Ran(Step(b, Head(ops)), Tail(ops))
run(text) == Ran(NewBuilder, parseRules(text, 1, <<>>))

-----------------------------------------------------------------------------
(* What rules mean: an order of texts, each with how it differs from the   *)
(* one before it, 4 not at all.                                            *)

Entry(str, rel) == [str |-> str, rel |-> rel]
PlaceOf(order, str) == CHOOSE i \in DOMAIN order : order[i].str = str
\* Without a text, what was after it differs from what was before it by the larger.
Without(order, str) ==
  IF \A i \in DOMAIN order : order[i].str # str THEN order
  ELSE LET i == PlaceOf(order, str)
           rest == SubSeq(order, i + 1, Len(order))
           less == IF rest = <<>> THEN rest ELSE <<[rest[1] EXCEPT !.rel = Min({@, order[i].rel})]>> \o Tail(rest)
       IN  SubSeq(order, 1, i - 1) \o less
\* A text goes before all that differs from another by less, or after it.
PutAfter(order, anchor, rel, str) ==
  LET i == PlaceOf(order, anchor)
      j == Min({k \in i + 1..Len(order) + 1 : k = Len(order) + 1 \/ order[k].rel <= rel})
  IN  SubSeq(order, 1, j - 1) \o <<Entry(str, rel)>> \o SubSeq(order, j, Len(order))
PutBefore(order, anchor, rel, str) ==
  LET j == Max({k \in 1..PlaceOf(order, anchor) : order[k].rel <= rel})
  IN  SubSeq(order, 1, j - 1) \o <<Entry(str, order[j].rel), [order[j] EXCEPT !.rel = rel]>> \o SubSeq(order, j + 1, Len(order))
RelOf(op) == IF op.strength \in {0, 4} THEN 4 ELSE op.strength
Ordered(o, op) ==
  LET others == Without(o.order, op.str) IN
  IF op.op = "reset" THEN [o EXCEPT !.anchor = op.str, !.before = op.before]
  ELSE [order |-> IF op.strength # 0 /\ o.before = op.strength THEN PutBefore(others, o.anchor, op.strength, op.str)
                  ELSE PutAfter(others, o.anchor, RelOf(op), op.str),
        anchor |-> op.str, before |-> 0]
RootOrder == [c \in 1..6 |-> Entry(<<IF c <= 3 THEN c ELSE c + 1>>, 1)]
RECURSIVE Meant(_, _)
Meant(o, ops) == IF ops = <<>> THEN o.order ELSE Meant(Ordered(o, Head(ops)), Tail(ops))

\* How the elements of two texts differ: at the first of the levels at which they
\* do, without what has no weight there.
Level(b, elements, level) ==
  LET w(e) == CASE level = 1 -> e.p [] level = 2 -> e.s [] OTHER -> e.t
      has == SelectSeq(elements, LAMBDA e : w(e) # None)
  IN  [i \in DOMAIN has |-> resolve(b.lists, w(has[i]))]
Less(s, t) == \E i \in 1..Len(s) + 1 : /\ i <= Len(t) /\ SubSeq(s, 1, i - 1) = SubSeq(t, 1, i - 1)
                                        /\ (i <= Len(s) => s[i] < t[i])
LessAt(b, x, y, level) ==
  /\ \A l \in 1..level - 1 : Level(b, x, l) = Level(b, y, l)
  /\ IF level > 3 THEN TRUE ELSE Less(Level(b, x, level), Level(b, y, level))

-----------------------------------------------------------------------------
(* The cases.  1 to 3 are letters, 4 a mark, 5 to 7 letters after them.    *)

SignOf(strength) == CHOOSE k \in DOMAIN Strengths : Strengths[k] = strength
BeforeOf(before) == CHOOSE k \in DOMAIN Befores : Befores[k] = before
Written(op) ==
  IF op.op = "reset"
  THEN <<Mark("&")>> \o (IF op.before = 0 THEN <<>> ELSE <<Mark(BeforeOf(op.before))>>) \o <<Text(op.str)>>
  ELSE <<Mark(SignOf(op.strength))>> \o (IF op.prefix = <<>> THEN <<>> ELSE <<Text(op.prefix), Mark("|")>>) \o <<Text(op.str)>>
         \o (IF op.ext = <<>> THEN <<>> ELSE <<Mark("/"), Text(op.ext)>>)
Plain(strength, str) == Relation(strength, str, <<>>, <<>>)
Strings == {<<5>>, <<6>>, <<1, 2>>}
First == {Reset(<<1>>, 0), Reset(<<2>>, 0), Reset(<<2>>, 1), Reset(<<1>>, 2)}
Second == {Reset(<<1>>, 0), Reset(<<5>>, 0), Reset(<<5>>, 1), Reset(<<5>>, 3), Reset(<<2>>, 1)}
Relations == {Plain(s, str) : s \in 1..3, str \in Strings} \cup {Plain(0, <<6>>)}
Proper(ops) ==
  \A i \in 2..Len(ops) : ops[i].op = "rel" =>
    /\ ops[i].str # ops[i - 1].str
    /\ ops[i - 1].op = "reset" /\ ops[i - 1].before # 0 => ops[i].strength = ops[i - 1].before
Later == {Plain(1, <<5>>), Plain(2, <<6>>), Plain(3, <<7>>)}
RulingCases ==
  {ops \in {<<r, x, y, q, z, w>> : r \in First, x, y \in Relations, q \in Second, z \in Relations, w \in Later} : Proper(ops)}
ReadCases ==
  {[reset |-> r, op |-> Relation(s, str, prefix, ext), list |-> list, to |-> to] :
     r \in First, s \in 0..4, str \in {<<5>>, <<5, 6>>}, prefix \in {<<>>, <<1>>}, ext \in {<<>>, <<1, 2>>}, list \in {<<1>>, <<5, 2>>},
     to \in {<<>>, <<3>>, <<4, 1>>}}

-----------------------------------------------------------------------------
\* Rules are read as they are written, a list as a rule of each of its characters
\* (parseRules); a prefix is asked for where the text is, and an extension comes
\* after the text's own elements (relation, ces).
RulesAsWritten(c) ==
  LET range == IF c.to = <<>> THEN <<>> ELSE <<Mark("-"), Text(c.to)>>
      text == Written(c.reset) \o Written(c.op) \o <<Mark("<<"), Mark("*"), Text(c.list)>> \o range
      last == Last(c.list)
      chars == c.list \o (IF c.to = <<>> THEN <<>> ELSE [k \in 1..Max({0, c.to[1] - last}) |-> last + k] \o Tail(c.to))
      read == parseRules(text, 1, <<>>)
      built(b) == /\ c.op.prefix # <<>> => /\ ces(b, c.op.prefix \o c.op.str) = ces(b, c.op.prefix) \o b.prefixed[1].ces
                                           /\ ces(b, c.op.str) = [i \in DOMAIN c.op.str |-> RootElement(c.op.str[i])]
                  /\ c.op.prefix = <<>> => ces(b, c.op.str) = b.anchor \o [i \in DOMAIN c.op.ext |-> RootElement(c.op.ext[i])]
  IN  /\ read = <<c.reset, c.op>> \o [k \in DOMAIN chars |-> Plain(2, <<chars[k]>>)]
      /\ built(Ran(NewBuilder, <<c.reset, c.op>>))

\* Texts sort as the rules order them: each after the one before it, by exactly the
\* strength of its rule, whatever was put between, before or anew (insert,
\* relation, resolve).
RulesOrder(ops) ==
  LET holds(b, order) ==
        \A i \in DOMAIN order : i > 1 => LessAt(b, ces(b, order[i - 1].str), ces(b, order[i].str), order[i].rel)
  IN  holds(run(FlattenSeq([i \in DOMAIN ops |-> Written(ops[i])])),
            Meant([order |-> RootOrder, anchor |-> <<>>, before |-> 0], ops))
=============================================================================
