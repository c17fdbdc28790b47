------------------------------ MODULE Numbers ------------------------------
(***************************************************************************)
(* Intl.NumberFormat and Intl.PluralRules (vita/js/intl_number.js): how a  *)
(* number is rounded, what is shown of it, how it is put in its pattern, and*)
(* what plural rules read of it.  A number is its digits, a sequence of them,*)
(* and the power of ten they stand for; the code never makes a double of   *)
(* them.  What it comes to is held against the arithmetic the digits mean. *)
(*                                                                         *)
(* Intl.ListFormat and Intl.DurationFormat (vita/js/intl_list.js): a list put*)
(* together with a locale's patterns, how each unit of a duration is to be *)
(* written, and the duration written so, its small units as decimals of a  *)
(* larger one where they are asked for as numbers.  There a pattern is a   *)
(* sequence of 0, 1 and what stands between; the number of a part is kept as*)
(* it is read: its minus, its whole, and its decimals in thousandths of    *)
(* thousandths.                                                            *)
(***************************************************************************)
EXTENDS Integers, Sequences, FiniteSets
LOCAL INSTANCE SequencesExt
LOCAL INSTANCE TLC

NoNumber == -1                                  \* undefined

Greatest(S) == CHOOSE x \in S : \A y \in S : y <= x
Least(S) == CHOOSE x \in S : \A y \in S : x <= y
Digits(n) == LET f[k \in 0..n] == IF k = 0 THEN <<>> ELSE f[k \div 10] \o <<k % 10>> IN f[n]
Value(d) == FoldLeft(LAMBDA v, c : 10 * v + c, 0, d)
Zeros(n) == [i \in 1..n |-> 0]
Trimmed(d, q) ==
  LET used == {i \in DOMAIN d : d[i] # 0}
  IN  IF used = {} THEN [d |-> <<>>, q |-> 0]
      ELSE [d |-> SubSeq(d, Least(used), Greatest(used)), q |-> q + Len(d) - Greatest(used)]
Decimal(n, q, neg) ==
  LET t == Trimmed(Digits(n), q) IN [neg |-> neg, d |-> t.d, q |-> t.q]

-----------------------------------------------------------------------------
(* Rounding.                                                               *)
Modes == {"ceil", "floor", "expand", "trunc", "halfCeil", "halfFloor",
          "halfExpand", "halfTrunc", "halfEven"}
\* Mutant: a negative number is rounded as the positive one of its digits.
UnsignedModeOfDigits(mode, neg) ==
  CASE mode \in {"ceil", "expand"} -> "infinity" [] mode \in {"floor", "trunc"} -> "zero"
    [] mode \in {"halfCeil", "halfExpand"} -> "half-infinity"
    [] mode \in {"halfFloor", "halfTrunc"} -> "half-zero" [] OTHER -> "half-even"
UnsignedMode(mode, neg) ==
  CASE mode = "expand" \/ mode = (IF neg THEN "floor" ELSE "ceil") -> "infinity"
    [] mode = "trunc" \/ mode = (IF neg THEN "ceil" ELSE "floor") -> "zero"
    [] mode = "halfExpand" \/ mode = (IF neg THEN "halfFloor" ELSE "halfCeil") -> "half-infinity"
    [] mode = "halfTrunc" \/ mode = (IF neg THEN "halfCeil" ELSE "halfFloor") -> "half-zero"
    [] OTHER -> "half-even"
RoundUp(um, cmp, odd) ==
  \/ um = "infinity"
  \/ um = "half-zero" /\ cmp > 0
  \/ um = "half-infinity" /\ cmp >= 0
  \/ um = "half-even" /\ (cmp > 0 \/ (cmp = 0 /\ odd))
AddOne(s) ==
  LET i == Greatest({0} \cup {k \in DOMAIN s : s[k] # 9})
  IN  IF i = 0 THEN <<1>> \o Zeros(Len(s))
      ELSE [k \in DOMAIN s |-> IF k < i THEN s[k] ELSE IF k = i THEN s[k] + 1 ELSE 0]
Compared(a, b) == IF a > b THEN 1 ELSE IF a < b THEN -1 ELSE 0

\* To a power of ten, on the digits themselves.
RoundAtPower(x, r, um) ==
  LET keep == Len(x.d) - (r - x.q)
      kept == SubSeq(x.d, 1, keep)
      cmp == IF keep < 0 THEN -1
             ELSE IF x.d[keep + 1] # 5 THEN Compared(x.d[keep + 1], 5)
             ELSE IF Len(x.d) > keep + 1 THEN 1 ELSE 0
      odd == kept # <<>> /\ kept[Len(kept)] % 2 = 1
  IN  IF x.q >= r THEN [d |-> x.d, q |-> x.q]
      ELSE Trimmed(IF RoundUp(um, cmp, odd) THEN AddOne(kept) ELSE kept, r)
\* To a multiple of inc, on the integers.
RoundAtStep(x, r, inc, um) ==
  LET m == Least({x.q, r})
      v == Value(x.d) * 10 ^ (x.q - m)
      step == inc * 10 ^ (r - m)
      n == v \div step
      up == v % step # 0 /\ RoundUp(um, Compared(2 * (v % step), step), n % 2 = 1)
  IN  Trimmed(Digits((n + (IF up THEN 1 ELSE 0)) * inc), r)
RoundAt(x, r, inc, um) ==
  IF x.d = <<>> THEN [d |-> <<>>, q |-> 0]
  ELSE IF inc = 1 THEN RoundAtPower(x, r, um) ELSE RoundAtStep(x, r, inc, um)

-----------------------------------------------------------------------------
(* What is shown: s says how many digits, and which of the two ways to     *)
(* count them has its way.                                                 *)
Magnitude(y) == IF y.d = <<>> THEN 0 ELSE Len(y.d) - 1 + y.q

\* Mutant: the places of significant digits are counted before rounding.
ByFirstMagnitude(s, x, um) ==
  LET p == s.maximumSignificantDigits
      e == Magnitude(x)
      y == RoundAt(x, e - p + 1, 1, um)
  IN  [y |-> y, last |-> Least({y.q, e - s.minimumSignificantDigits + 1}), at |-> e - p + 1]
BySignificantDigits(s, x, um) ==
  LET p == s.maximumSignificantDigits
      y == RoundAt(x, Magnitude(x) - p + 1, 1, um)
      e == Magnitude(y)
  IN  [y |-> y, last |-> Least({y.q, e - s.minimumSignificantDigits + 1}), at |-> e - p + 1]
ByFractionDigits(s, x, um) ==
  LET at == -s.maximumFractionDigits
      y == RoundAt(x, at, s.roundingIncrement, um)
  IN  [y |-> y, last |-> Least({y.q, -s.minimumFractionDigits}), at |-> at]
\* More precision is the places further to the right, whichever they are of.
Rounded(s, sy, fy) ==
  CASE s.roundingType = "significantDigits" -> sy
    [] s.roundingType = "fractionDigits" -> fy
    [] OTHER -> IF (sy.at <= fy.at) = (s.roundingType = "morePrecision") THEN sy ELSE fy
Shown(s, y, last) ==
  LET nf == IF y.q >= 0 THEN 0 ELSE -y.q
      all == Zeros(Greatest({0, nf + 1 - Len(y.d)})) \o y.d \o Zeros(IF y.d = <<>> THEN 0 ELSE y.q + nf)
      whole == SubSeq(all, 1, Len(all) - nf)
      strip == s.trailingZeroDisplay = "stripIfInteger" /\ y.q >= 0
  IN  [y |-> y,
       frac |-> SubSeq(all, Len(all) - nf + 1, Len(all)) \o Zeros(IF strip THEN 0 ELSE Greatest({0, -last - nf})),
       int |-> Zeros(Greatest({0, s.minimumIntegerDigits - Len(whole)})) \o whole]
ToDigits(s, x) ==
  LET um == UnsignedMode(s.roundingMode, x.neg)
      none == [y |-> [d |-> <<>>, q |-> 0], last |-> 0, at |-> 0]
      shown(r) == Shown(s, r.y, r.last)
  IN  shown(Rounded(s, IF s.roundingType = "fractionDigits" THEN none ELSE BySignificantDigits(s, x, um),
                       IF s.roundingType = "significantDigits" THEN none ELSE ByFractionDigits(s, x, um)))

\* How many powers of ten the notation takes out of a number of magnitude mag.
\* The table of a compact notation has, from some magnitudes on, how many
\* digits are left before its letter; none when it has no letter.
CompactKey(table, mag) == Greatest({NoNumber} \cup {k \in DOMAIN table : k <= mag})
ExponentFor(s, mag) ==
  LET key == CompactKey(s.table, mag)
  IN  CASE s.notation = "scientific" -> mag
        [] s.notation = "engineering" -> (mag \div 3) * 3
        [] s.notation = "compact" /\ key # NoNumber /\ s.table[key] # 0 -> key - (s.table[key] - 1)
        [] OTHER -> 0
Less(x, exp) == [x EXCEPT !.q = x.q - exp]
\* Mutant: what rounding up makes one digit longer keeps its exponent.
ComputeExponentOnce(s, x) ==
  LET exp == IF x.d = <<>> THEN 0 ELSE ExponentFor(s, Magnitude(x))
  IN  [exp |-> exp, r |-> ToDigits(s, IF x.d = <<>> THEN x ELSE Less(x, exp))]
ComputeExponent(s, x) ==
  LET again(exp, r, more) ==
        IF r.y.d = <<>> \/ Magnitude(r.y) = Magnitude(x) - exp THEN [exp |-> exp, r |-> r]
        ELSE [exp |-> more, r |-> ToDigits(s, Less(x, more))]
      first(exp) == again(exp, ToDigits(s, Less(x, exp)), ExponentFor(s, Magnitude(x) + 1))
  IN  IF x.d = <<>> THEN [exp |-> 0, r |-> ToDigits(s, x)] ELSE first(ExponentFor(s, Magnitude(x)))

-----------------------------------------------------------------------------
(* SetNumberFormatDigitOptions: o has what the page asked for, the least   *)
(* and most digits by default are the style's.  A RangeError or TypeError  *)
(* is "refused".                                                           *)
Within(v, min, max) == v = NoNumber \/ (min <= v /\ v <= max)
Or(v, default) == IF v = NoNumber THEN default ELSE v
DigitOptions(o, least, most0, notation) ==
  LET inc == Or(o.inc, 1)
      most == IF inc # 1 THEN least ELSE most0
      hasSd == o.mnsd # NoNumber \/ o.mxsd # NoNumber
      hasFd == o.mnfd # NoNumber \/ o.mxfd # NoNumber
      needSd == o.prio # "auto" \/ hasSd
      needFd == o.prio # "auto" \/ (~hasSd /\ (hasFd \/ notation # "compact"))
      neither == ~needSd /\ ~needFd
      mnsd == Or(o.mnsd, 1)
      mnfd == IF o.mnfd # NoNumber THEN o.mnfd
              ELSE IF o.mxfd # NoNumber THEN Least({least, o.mxfd}) ELSE least
      mxfd == IF o.mxfd # NoNumber THEN o.mxfd
              ELSE IF o.mnfd # NoNumber THEN Greatest({most, o.mnfd}) ELSE most
      type == CASE neither -> "morePrecision"
                [] ~neither /\ o.prio # "auto" -> o.prio
                [] OTHER -> IF hasSd THEN "significantDigits" ELSE "fractionDigits"
      refused ==
        \/ needSd /\ ~(Within(o.mnsd, 1, 21) /\ Within(o.mxsd, mnsd, 21))
        \/ needFd /\ ~(Within(o.mnfd, 0, 100) /\ Within(o.mxfd, 0, 100))
        \/ needFd /\ o.mnfd # NoNumber /\ o.mxfd # NoNumber /\ o.mnfd > o.mxfd
        \/ inc # 1 /\ (type # "fractionDigits" \/ mnfd # mxfd)
  IN  IF refused THEN [roundingType |-> "refused"]
      ELSE [minimumIntegerDigits |-> Or(o.mnid, 1), roundingIncrement |-> inc,
            roundingMode |-> o.mode, trailingZeroDisplay |-> o.tzd, roundingType |-> type,
            minimumSignificantDigits |-> IF needSd THEN mnsd ELSE IF neither THEN 1 ELSE NoNumber,
            maximumSignificantDigits |-> IF needSd THEN Or(o.mxsd, 21) ELSE IF neither THEN 2 ELSE NoNumber,
            minimumFractionDigits |-> IF needFd THEN mnfd ELSE IF neither THEN 0 ELSE NoNumber,
            maximumFractionDigits |-> IF needFd THEN mxfd ELSE IF neither THEN 0 ELSE NoNumber,
            notation |-> notation]

-----------------------------------------------------------------------------
(* The pattern.  One has a prefix and a suffix of tokens, and may have     *)
(* others for negative numbers.                                            *)
SignOf(display, v, isZero) ==
  LET minus == v.neg /\ v.kind # "nan"
      sign == IF minus THEN "NEG" ELSE "PLUS"
  IN  CASE display = "never" -> "POS"
        [] display = "always" -> sign
        [] display = "exceptZero" -> IF v.kind = "nan" \/ isZero THEN "POS" ELSE sign
        [] display = "negative" -> IF minus /\ ~isZero THEN "NEG" ELSE "POS"
        [] OTHER -> IF minus THEN "NEG" ELSE "POS"
Has(sub, t) == t \in ToSet(sub.pre) \cup ToSet(sub.suf)
Affixes(pat, sign, approx) ==
  LET plusForMinus == sign = "PLUS" /\ ~Has(pat.pos, "+")
      useNeg == pat.hasNeg /\ (sign = "NEG" \/ (Has(pat.neg, "-") /\ (plusForMinus \/ approx)))
      sub == IF useNeg THEN pat.neg ELSE pat.pos
      pre == IF ~useNeg /\ (sign = "NEG" \/ plusForMinus \/ approx) THEN <<"-">> \o sub.pre ELSE sub.pre
      signs == (IF approx THEN <<"~">> ELSE <<>>)
               \o (IF plusForMinus THEN <<"+">> ELSE IF sign = "NEG" \/ ~approx THEN <<"-">> ELSE <<>>)
      swap(list) == FlattenSeq([i \in DOMAIN list |-> IF list[i] = "-" THEN signs ELSE <<list[i]>>])
  IN  [pre |-> swap(pre), suf |-> swap(sub.suf)]

\* The integer digits in groups: the last of g1, the others of g2, and none
\* unless the first would have min digits.
GroupSizes(useGrouping, g1, g2, least) ==
  [g1 |-> IF useGrouping = "false" THEN 0 ELSE g1, g2 |-> g2,
   min |-> CASE useGrouping = "always" -> 1 [] useGrouping = "min2" -> 2 [] OTHER -> least]
Groups(int, g) ==
  LET f[n \in 0..Len(int)] ==
        IF n > g.g2 THEN f[n - g.g2] \o <<SubSeq(int, n - g.g2 + 1, n)>> ELSE <<SubSeq(int, 1, n)>>
      left == Len(int) - g.g1
  IN  IF g.g1 # 0 /\ Len(int) >= g.g1 + g.min
      THEN f[left] \o <<SubSeq(int, left + 1, Len(int))>> ELSE <<int>>

Part(type, value, source) == [type |-> type, value |-> value, source |-> source]
Tokens(list) == [i \in DOMAIN list |-> Part(IF list[i] = " " THEN "literal" ELSE list[i], list[i], "")]
PiecesOf(v, r, sign, aff) ==
  LET finite == v.kind = "number"
  IN  [pre |-> Tokens(aff.pre), suf |-> Tokens(aff.suf), sign |-> sign,
       num |-> IF ~finite THEN <<Part(v.kind, v.kind, "")>>
               ELSE <<Part("integer", r.int, "")>>
                    \o (IF r.frac = <<>> THEN <<>> ELSE <<Part("fraction", r.frac, "")>>),
       rounded |-> <<v.kind, v.neg, r.y>>]
Pieces(s, v, approx) ==
  LET signed(r, sign) == PiecesOf(v, r, sign, Affixes(s.pat, sign, approx))
      shown(r) == signed(r, SignOf(s.signDisplay, v, v.kind = "number" /\ r.y.d = <<>>))
  IN  shown(ToDigits(s, v))

\* Mutant: the suffixes alone are compared.
CollapseOnSuffix(a, b) == a.suf = b.suf /\ Len(a.pre \o a.suf) > 1
Collapse(a, b) == a.pre = b.pre /\ a.suf = b.suf /\ Len(a.pre \o a.suf) > 1
\* Adjacent literals are one part, shared when they are of different sources.
Joined(parts) ==
  FoldLeft(LAMBDA out, p :
    IF p.value = "" THEN out
    ELSE IF out # <<>> /\ Last(out).type = "literal" /\ p.type = "literal"
    THEN Front(out) \o <<Part("literal", " ", IF Last(out).source = p.source THEN p.source ELSE "shared")>>
    ELSE Append(out, p), <<>>, parts)
RangeParts(a, b, near) ==
  LET from(list, source) == [i \in DOMAIN list |-> [list[i] EXCEPT !.source = source]]
      repeat == ~Collapse(a, b) /\ a.pre \o a.suf # <<>>
      mid == (IF repeat THEN <<Part("literal", " ", "shared")>> ELSE <<>>)
             \o <<Part("literal", "-", "shared")>>
  IN  IF a.rounded = b.rounded THEN from(near.pre \o near.num \o near.suf, "shared")
      ELSE IF Collapse(a, b)
      THEN Joined(from(a.pre, "shared") \o from(a.num, "start") \o mid \o from(b.num, "end") \o from(a.suf, "shared"))
      ELSE Joined(from(a.pre \o a.num \o a.suf, "start") \o mid \o from(b.pre \o b.num \o b.suf, "end"))

-----------------------------------------------------------------------------
(* What plural rules are asked of the digits shown, ten to the c of them.  *)
\* Mutant: the point is not moved for the exponent.
OperandsUnmoved(int, frac, c) ==
  LET w == Len(Trimmed(<<1>> \o frac, 0).d) - 1
  IN  [i |-> Value(int), v |-> Len(frac), w |-> w, f |-> Value(frac), t |-> Value(SubSeq(frac, 1, w)), c |-> c]
Operands(int, frac, c) ==
  LET all == int \o frac
      point == Len(int) + c
      whole == IF c = 0 THEN int
               ELSE IF point >= Len(all) THEN all \o Zeros(point - Len(all)) ELSE SubSeq(all, 1, point)
      part == IF c = 0 THEN frac ELSE IF point >= Len(all) THEN <<>> ELSE SubSeq(all, point + 1, Len(all))
      w == Len(Trimmed(<<1>> \o part, 0).d) - 1
  IN  [i |-> Value(whole), v |-> Len(part), w |-> w, f |-> Value(part), t |-> Value(SubSeq(part, 1, w)), c |-> c]

\* A rule is a disjunction of conjunctions of relations, each an operand, a
\* modulus or none, and whether it is or is not in one of some ranges.
OperandMod(o, rel) == IF rel.mod = 0 THEN o[rel.op] ELSE o[rel.op] % rel.mod
Matches(rule, o) ==
  \/ rule = <<>>
  \/ \E or \in DOMAIN rule : \A and \in DOMAIN rule[or] :
       LET rel == rule[or][and]
       IN  (\E range \in rel.ranges : OperandMod(o, rel) \in range[1]..range[2]) # rel.not
Category(rules, o) ==
  LET hit == {k \in DOMAIN rules : Matches(rules[k][2], o)}
  IN  IF hit = {} THEN "other" ELSE rules[Least(hit)][1]
\* Of a language's rules, by name as the resource has them, other last.
Order == <<"few", "many", "one", "two", "zero", "other">>
RulesFor(r) ==
  LET named == SelectSeq(Order, LAMBDA k : k \in DOMAIN r /\ k # "other")
  IN  [i \in DOMAIN named |-> <<named[i], r[named[i]]>>] \o << <<"other", <<>> >> >>

-----------------------------------------------------------------------------
(* The cases.                                                              *)
Some == {0, 1, 4, 5, 9, 15, 25, 45, 55, 95, 99, 149, 150, 250, 251, 499, 500, 949, 995, 999}
RoundCases ==
  {[x |-> Decimal(n, q, neg), r |-> r, inc |-> inc, mode |-> mode] :
     n \in Some, q \in {-3, -1, 0, 1}, neg \in BOOLEAN, r \in {-2, 0, 1}, inc \in {1, 5, 25}, mode \in Modes}

Asked == [mnid : {NoNumber, 2}, mnfd : {NoNumber, 0, 1, 3}, mxfd : {NoNumber, 0, 2}, mnsd : {NoNumber, 1, 3},
          mxsd : {NoNumber, 2}, inc : {NoNumber, 5}, prio : {"auto", "morePrecision", "lessPrecision"},
          tzd : {"auto", "stripIfInteger"}, mode : {"halfExpand"}]
\* K, M by three; and a table that has no letter at 3 and one each four digits.
Tables == {[m \in 3..6 |-> IF m = 6 THEN 1 ELSE m - 2], [m \in 3..6 |-> IF m = 3 THEN 0 ELSE m - 3]}
DigitCases == {[o |-> o, least |-> d[1], most |-> d[2], notation |-> notation] :
                 o \in Asked, d \in {<<0, 3>>, <<2, 2>>, <<0, 0>>}, notation \in {"standard", "compact"}}
Settings == [minimumIntegerDigits : {1, 2}, roundingIncrement : {1}, trailingZeroDisplay : {"auto"},
             roundingMode : {"halfExpand", "ceil", "halfEven"}, roundingType : {"fractionDigits", "morePrecision", "lessPrecision"},
             minimumSignificantDigits : {1}, maximumSignificantDigits : {1, 3}, minimumFractionDigits : {0, 1},
             maximumFractionDigits : {1, 2}, notation : {"standard", "scientific", "engineering", "compact"}, table : Tables]
ShownCases == {[s |-> s, n |-> n, q |-> q, neg |-> neg] :
                 s \in Settings, n \in {0, 1, 45, 95, 499, 999, 9995}, q \in {-4, -2, 0, 1}, neg \in BOOLEAN}

Sub(pre, suf) == [pre |-> pre, suf |-> suf]
Bare == Sub(<<>>, <<>>)
\* -1, -$1, ($1), 1 $ and -1 $, +1: of a percent or a currency the sign stands where it may.
Patterns == {[pos |-> Bare, hasNeg |-> FALSE, neg |-> Bare],
             [pos |-> Sub(<<"$">>, <<>>), hasNeg |-> TRUE, neg |-> Sub(<<"$", "-">>, <<>>)],
             [pos |-> Sub(<<"$">>, <<>>), hasNeg |-> TRUE, neg |-> Sub(<<"(", "$">>, <<")">>)],
             [pos |-> Sub(<<>>, <<" ", "$">>), hasNeg |-> FALSE, neg |-> Bare],
             [pos |-> Sub(<<>>, <<" ", "%">>), hasNeg |-> TRUE, neg |-> Sub(<<>>, <<"-", " ", "%">>)],
             [pos |-> Sub(<<"+">>, <<>>), hasNeg |-> FALSE, neg |-> Bare]}
Displays == {"auto", "never", "always", "exceptZero", "negative"}
Small == {[kind |-> "number", neg |-> neg, d |-> d, q |-> q] : neg \in BOOLEAN, d \in {<<>>, <<4>>, <<5>>, <<2>>}, q \in {0, -1}}
         \cup {[kind |-> "inf", neg |-> neg, d |-> <<>>, q |-> 0] : neg \in BOOLEAN}
Ends == {x \in Small : x.d = <<>> => x.q = 0}
RangeCases == {[x |-> x, y |-> y, pat |-> pat, display |-> display, most |-> most] :
                 x \in Ends, y \in Ends, pat \in Patterns, display \in Displays, most \in {0, 1}}
OperandCases == {[int |-> IF i = 0 THEN <<0>> ELSE Digits(i), frac |-> frac, c |-> c] :
                   i \in {0, 1, 2, 10, 21, 105}, frac \in UNION {[1..n -> {0, 3}] : n \in 0..3}, c \in 0..4}
GroupCases == {[n |-> n, g |-> GroupSizes(u, g[1], g[2], least)] :
                 n \in 1..9, u \in {"auto", "false", "always", "min2"}, g \in {<<0, 0>>, <<3, 3>>, <<3, 2>>}, least \in {1, 2}}

-----------------------------------------------------------------------------
(* What the digits come to, in units of a power of ten.                    *)
Scaled(y, unit) == IF y.d = <<>> THEN 0 ELSE Value(y.d) * 10 ^ (y.q - unit)

\* Rounding gives a multiple of the increment on the side the mode says, by its
\* sign, or the nearest one; and what is one already is left alone.  One by one
\* on the digits or by division, it is the same.
RoundsRight(c) ==
  LET x == c.x
      r == c.r
      inc == c.inc
      mode == c.mode
      unit == Least({x.q, r})
      y == RoundAt(x, r, inc, UnsignedMode(mode, x.neg))
      sign == IF x.neg THEN -1 ELSE 1
      was == sign * Scaled(x, unit)
      step == inc * 10 ^ (r - unit)
      check(is) ==
        /\ is % step = 0 /\ is - was \in -step..step
        /\ was % step = 0 => is = was
        /\ mode = "ceil" => is >= was
        /\ mode = "floor" => is <= was
        /\ mode = "expand" => is * sign >= was * sign
        /\ mode = "trunc" => is * sign <= was * sign
        /\ mode \notin {"ceil", "floor", "expand", "trunc"} => 2 * (is - was) \in -step..step
        /\ 2 * (is - was) = step => mode = "halfCeil" \/ (mode = "halfExpand" /\ ~x.neg) \/ (mode = "halfTrunc" /\ x.neg)
             \/ (mode = "halfEven" /\ (is \div step) % 2 = 0) \/ mode \in {"ceil", "expand", "trunc"}
        /\ 2 * (was - is) = step => mode = "halfFloor" \/ (mode = "halfExpand" /\ x.neg) \/ (mode = "halfTrunc" /\ ~x.neg)
             \/ (mode = "halfEven" /\ (is \div step) % 2 = 0) \/ mode \in {"floor", "expand", "trunc"}
  IN  /\ check(sign * (IF y.d = <<>> THEN 0 ELSE Value(y.d) * 10 ^ (y.q - unit)))
      /\ y = Trimmed(y.d, y.q)
      /\ inc = 1 /\ x.d # <<>> =>
           RoundAtStep(x, r, 1, UnsignedMode(mode, x.neg)) = Trimmed(y.d, y.q)

\* Options that are taken settle on digits that there are: no more least than
\* most, both of each of the two kinds the rounding goes by, and for an
\* increment fraction digits alone, as many least as most.
OptionsSettle(c) ==
  LET s == DigitOptions(c.o, c.least, c.most, c.notation)
      bySd(t) == t.minimumSignificantDigits \in 1..t.maximumSignificantDigits
      byFd(t) == t.maximumFractionDigits # NoNumber /\ t.minimumFractionDigits \in 0..t.maximumFractionDigits
      settled(t) == t.roundingType # "refused" =>
        /\ t.roundingType # "fractionDigits" => bySd(t)
        /\ t.roundingType # "significantDigits" => byFd(t)
        /\ t.roundingIncrement # 1 => t.roundingType = "fractionDigits" /\ t.minimumFractionDigits = t.maximumFractionDigits
  IN  settled(s)

\* The digits shown are those of the rounded number; scientific notation has one digit before the point and engineering three at most; and
\* the letter of a compact number is the one of the power that was taken out.
ExponentsAgree(c) ==
  LET x == Decimal(c.n, c.q, c.neg)
      shown(ce) ==
        LET int == Value(ce.r.int)
            used == Trimmed(ce.r.int, 0)
        IN  /\ Trimmed(ce.r.int \o ce.r.frac, -Len(ce.r.frac)) = [d |-> ce.r.y.d, q |-> ce.r.y.q]
            /\ Len(ce.r.int) >= c.s.minimumIntegerDigits
            /\ ce.r.y.d # <<>> =>
                 /\ c.s.notation = "scientific" => int \in 1..9
                 /\ c.s.notation = "engineering" => int \in 1..999 /\ ce.exp % 3 = 0
                 /\ ExponentFor(c.s, Magnitude(ce.r.y) + ce.exp) = ce.exp
            /\ c.s.roundingType = "fractionDigits" => Len(ce.r.frac) \in c.s.minimumFractionDigits..c.s.maximumFractionDigits
  IN  shown(ComputeExponent(c.s, x))

\* In a range each end can be read off whole: what is its own and what is
\* shared, in their order, are all the signs and digits it has alone, but for
\* the approximately sign of two that are the same; and no two literals stand
\* side by side.
RangesRead(c) ==
  LET s == [minimumIntegerDigits |-> 1, roundingIncrement |-> 1, roundingMode |-> "halfExpand",
            trailingZeroDisplay |-> "auto", roundingType |-> "fractionDigits", minimumFractionDigits |-> 0,
            maximumFractionDigits |-> c.most, signDisplay |-> c.display, pat |-> c.pat]
      signs(parts, sources) == SelectSeq([i \in DOMAIN parts |-> <<parts[i].type, parts[i].value, parts[i].source>>],
                                         LAMBDA p : p[1] \notin {"literal", "~"} /\ p[3] \in sources)
      bare(seq) == [i \in DOMAIN seq |-> <<seq[i][1], seq[i][2]>>]
      alone(p) == bare(signs(p.pre \o p.num \o p.suf, {""}))
      reads(parts, a, b) ==
        /\ bare(signs(parts, {"start", "shared"})) = alone(a)
        /\ bare(signs(parts, {"end", "shared"})) = alone(b)
        /\ \A i \in 2..Len(parts) : (\A j \in DOMAIN parts : parts[j].type # "~") =>
              ~(parts[i].type = "literal" /\ parts[i - 1].type = "literal")
      of(a, b, near) == reads(RangeParts(a, b, near), a, b)
  IN  of(Pieces(s, c.x, FALSE), Pieces(s, c.y, FALSE), Pieces(s, c.x, TRUE))

\* The sign of a number can be told from its pattern: no two of the three signs
\* look alike, but a plus that is in the pattern anyway.
SignsDiffer(pat) ==
  LET of(sign) == Affixes(pat, sign, FALSE)
  IN  of("NEG") # of("POS") /\ of("NEG") # of("PLUS") /\ (of("PLUS") = of("POS") => Has(pat.pos, "+"))

\* The operands are of the number shown, wherever its exponent moves the point.
OperandsAgree(c) ==
  LET agree(o) ==
        /\ o.f = o.t * 10 ^ (o.v - o.w) /\ o.f < 10 ^ o.v /\ (o.w > 0 => o.t % 10 # 0)
        /\ (o.i * 10 ^ o.v + o.f) * 10 ^ Len(c.frac) = Value(c.int \o c.frac) * 10 ^ (o.v + c.c)
        /\ o.v = Greatest({0, Len(c.frac) - c.c})
  IN  agree(Operands(c.int, c.frac, c.c))
\* Where the rules are Russian's, one, few and many go by the last digits of a
\* number that has no fraction, in whatever order the rules are asked.
Is(op, mod, ranges) == [op |-> op, mod |-> mod, not |-> FALSE, ranges |-> ranges]
Not(rel) == [rel EXCEPT !.not = TRUE]
Whole == Is("v", 0, {<<0, 0>>})
Russian == ("one" :> << <<Whole, Is("i", 10, {<<1, 1>>}), Not(Is("i", 100, {<<11, 11>>}))>> >>)
        @@ ("few" :> << <<Whole, Is("i", 10, {<<2, 4>>}), Not(Is("i", 100, {<<12, 14>>}))>> >>)
        @@ ("many" :> << <<Whole, Is("i", 10, {<<0, 0>>})>>, <<Whole, Is("i", 10, {<<5, 9>>})>>,
                         <<Whole, Is("i", 100, {<<11, 14>>})>> >>)
CategoryFits(c) ==
  LET of(o) == LET tens == (o.i \div 10) % 10
                   ones == o.i % 10
               IN  Category(RulesFor(Russian), o) =
                     CASE o.v # 0 -> "other"
                       [] o.v = 0 /\ tens # 1 /\ ones = 1 -> "one"
                       [] o.v = 0 /\ tens # 1 /\ ones \in 2..4 -> "few"
                       [] OTHER -> "many"
  IN  of(Operands(c.int, c.frac, c.c))

\* The groups are the digits, all but the first of their size, and the first
\* no longer than the others nor empty, nor shorter than is asked where it is
\* the only one before the last.
GroupsWhole(c) ==
  LET int == [i \in 1..c.n |-> i]
      whole(gs) ==
        /\ FlattenSeq(gs) = int /\ gs[1] # <<>>
        /\ Len(gs) > 1 => /\ Len(gs[Len(gs)]) = c.g.g1 /\ Len(gs[1]) <= c.g.g2
                          /\ \A i \in 2..Len(gs) - 1 : Len(gs[i]) = c.g.g2
                          /\ Len(gs) = 2 => Len(gs[1]) >= c.g.min
        /\ Len(gs) = 1 => c.g.g1 = 0 \/ c.n < c.g.g1 + c.g.min
  IN  whole(Groups(int, c.g))

-----------------------------------------------------------------------------
None == "undefined"

-----------------------------------------------------------------------------
(* Lists.                                                                  *)

Literal(x) == <<"literal", x>>
Element(x) == <<"element", x>>

\* applyPattern.
RECURSIVE applyPattern(_, _, _)
applyPattern(pattern, first, second) ==
  IF pattern = <<>> THEN <<>>
  ELSE (CASE Head(pattern) = "0" -> first
          [] Head(pattern) = "1" -> second
          [] OTHER -> <<Literal(Head(pattern))>>) \o applyPattern(Tail(pattern), first, second)

\* patternsFor: those of the width asked for, or of the next wider there are.
Widths(style) ==
  CASE style = "narrow" -> <<"narrow", "short", "long">>
    [] style = "short" -> <<"short", "long">>
    [] OTHER -> <<"long">>
Commas == << <<"0", ", ", "1">>, <<"0", ", ", "1">>, <<"0", ", ", "1">>, <<"0", ", ", "1">> >>
RECURSIVE FirstOf(_, _)
FirstOf(data, widths) ==
  IF widths = <<>> THEN Commas
  ELSE IF Head(widths) \in DOMAIN data THEN data[Head(widths)] ELSE FirstOf(data, Tail(widths))
patternsFor(data, style) == FirstOf(data, Widths(style))

\* contextual: Spanish y and o before their own sounds.
contextual(pattern, next) ==
  CASE pattern = <<"0", " y ", "1">> /\ next = "igual" -> <<"0", " e ", "1">>
    [] pattern = <<"0", " o ", "1">> /\ next = "otro" -> <<"0", " u ", "1">>
    [] OTHER -> pattern

\* partsFromList, from its end.
RECURSIVE ListJoined(_, _, _, _)
ListJoined(p, list, i, rest) ==
  IF i = 1 THEN applyPattern(p[1], <<Element(list[1])>>, rest)
  ELSE ListJoined(p, list, i - 1, applyPattern(p[2], <<Element(list[i])>>, rest))
LastTwo(pattern, list, n) ==
  applyPattern(contextual(pattern, list[n]), <<Element(list[n - 1])>>, <<Element(list[n])>>)
partsFromList(p, list) ==
  CASE list = <<>> -> <<>>
    [] Len(list) = 1 -> <<Element(list[1])>>
    [] Len(list) = 2 -> LastTwo(p[4], list, 2)
    [] OTHER -> ListJoined(p, list, Len(list) - 2, LastTwo(p[3], list, Len(list)))

Spanish == << <<"0", ", ", "1">>, <<"0", "; ", "1">>, <<"0", " y ", "1">>, <<"0", " y ", "1">> >>
Choice == << <<"0", ", ", "1">>, <<"0", ", ", "1">>, <<"0", " o ", "1">>, <<"0", " o ", "1">> >>
Narrow == << <<"0", " ", "1">>, <<"0", " ", "1">>, <<"0", " ", "1">>, <<"0", " ", "1">> >>
Datas == {<<>>, [long |-> Spanish], [long |-> Choice, narrow |-> Narrow], [long |-> Narrow, short |-> Spanish]}
Given == {"uno", "igual", "otro"}
ListCases ==
  {[data |-> d, style |-> s, list |-> l] : d \in Datas, s \in {"long", "short", "narrow"},
   l \in UNION {[1..n -> Given] : n \in 0..3} \cup {<<"uno", "igual", "otro", "igual", "uno">>}}

\* What stands between the i-th and the next of n.
Between(p, list, i) ==
  LET n == Len(list)
      which == CASE n = 2 -> 4 [] n > 2 /\ i = n - 1 -> 3 [] n > 2 /\ i = 1 -> 1 [] OTHER -> 2
      word == p[which][2]
  IN  CASE i = n - 1 /\ word = " y " /\ list[n] = "igual" -> " e "
        [] i = n - 1 /\ word = " o " /\ list[n] = "otro" -> " u "
        [] OTHER -> word

\* All of a list is there, once and in its order, and what joins two of it is the
\* pattern's for where they are, in the width asked for or the next wider one.
ListedInOrder(c) ==
  \A p \in {patternsFor(c.data, c.style)} : \A parts \in {partsFromList(p, c.list)} :
    /\ Len(parts) = IF c.list = <<>> THEN 0 ELSE 2 * Len(c.list) - 1
    /\ \A k \in DOMAIN parts :
         parts[k] = IF k % 2 = 1 THEN Element(c.list[(k + 1) \div 2])
                                 ELSE Literal(Between(p, c.list, k \div 2))

-----------------------------------------------------------------------------
(* The units, how each is written, and what a duration is.                 *)

UNITS == <<"years", "months", "weeks", "days", "hours", "minutes", "seconds",
           "milliseconds", "microseconds", "nanoseconds">>
Words == {"long", "short", "narrow"}
STYLES(i) == CASE i <= 4 -> Words
               [] i \in 5..7 -> Words \cup {"numeric", "2-digit"}
               [] OTHER -> Words \cup {"numeric"}
Digital(i) == IF i <= 4 THEN "short" ELSE "numeric"
Numerals == {"numeric", "2-digit"}

\* unitOptions: `o' is what was asked for the unit, `prev' the style of the
\* one before.
StyleGiven(i, o, base, prev) ==
  CASE o.style # None -> [style |-> o.style, display |-> "always"]
    [] o.style = None /\ base = "digital" ->
         [style |-> Digital(i), display |-> IF i \in 5..7 THEN "always" ELSE "auto"]
    [] o.style = None /\ base # "digital" /\ prev \in Numerals \cup {"fractional"} ->
         [style |-> "numeric", display |-> IF i \in 6..7 THEN "always" ELSE "auto"]
    [] OTHER -> [style |-> base, display |-> "auto"]
Fractional(i, s) ==
  IF s.style = "numeric" /\ i >= 8 THEN [style |-> "fractional", display |-> "auto"] ELSE s
Displayed(o, s) == [s EXCEPT !.display = IF o.display = None THEN @ ELSE o.display]
Refused(i, o, s, prev) ==
  \/ o.style # None /\ o.style \notin STYLES(i)
  \/ s.display = "always" /\ s.style = "fractional"
  \/ prev = "fractional" /\ s.style # "fractional"
  \/ prev \in Numerals /\ s.style \notin Numerals \cup {"fractional"}
TwoDigits(i, s, prev) == IF prev \in Numerals /\ i \in 6..7 THEN [s EXCEPT !.style = "2-digit"] ELSE s
unitOptions(i, o, base, prev) ==
  Displayed(o, Fractional(i, StyleGiven(i, o, base, prev)))

\* The constructor goes through them in order; only the hours and what follows
\* them look at the one before.
Refusal == << >>
RECURSIVE Units(_, _, _, _, _)
UnitNext(o, base, i, prev, done, s) ==
  IF Refused(i, o[i], s, prev) THEN Refusal
  ELSE Units(o, base, i + 1, IF i >= 5 THEN TwoDigits(i, s, prev).style ELSE prev,
             Append(done, TwoDigits(i, s, prev)))
Units(o, base, i, prev, done) ==
  IF i > 10 THEN done ELSE UnitNext(o, base, i, prev, done, unitOptions(i, o[i], base, prev))
Resolved(o, base) == Units(o, base, 1, "", <<>>)

\* resolvedOptions, given to the constructor again.
Again(units) == [i \in 1..10 |-> [style |-> IF units[i].style = "fractional" THEN "numeric" ELSE units[i].style,
                                  display |-> units[i].display]]

Free == [style |-> None, display |-> None]
UnitAsked == [style : {None, "long", "numeric", "2-digit"}, display : {None, "always"}]
Bases == Words \cup {"digital"}
Options(i, a, j, b) == [k \in 1..10 |-> CASE k = i -> a [] k = j /\ k # i -> b [] OTHER -> Free]
OptionCases ==
  {[base |-> base, o |-> Options(i, a, j, b)] :
     base \in Bases, i \in 4..8, j \in {7, 9, 10}, a \in UnitAsked, b \in UnitAsked}

\* What a duration format was made with says how to make the same again; numbers
\* follow numbers from the hours down to the last unit, and what is decimals of
\* the unit before is never shown of itself.
OptionsAgree(c) ==
  \A units \in {Resolved(c.o, c.base)} :
    units # Refusal =>
      /\ Resolved(Again(units), c.base) = units
      /\ \A base \in Bases : Resolved(Again(units), base) = units
      /\ \A i \in 5..9 : units[i].style \in Numerals \cup {"fractional"} =>
           units[i + 1].style \in Numerals \cup {"fractional"}
      /\ \A i \in 1..10 : units[i].style = "fractional" =>
           /\ units[i].display = "auto" /\ i >= 8
           /\ \A j \in i..10 : units[j].style = "fractional"

-----------------------------------------------------------------------------
(* Writing a duration.  d is [units, neg]: the size of each, and the sign. *)

Abs(n) == IF n < 0 THEN -n ELSE n

\* toDuration: whole numbers of one sign; a unit that is not given is nothing.
Mixed(input) == \E i, j \in DOMAIN input : input[i] < 0 /\ input[j] > 0
toDuration(input) ==
  [ok |-> DOMAIN input # {} /\ ~Mixed(input),
   size |-> [i \in 1..10 |-> IF i \in DOMAIN input THEN Abs(input[i]) ELSE 0],
   neg |-> \E i \in DOMAIN input : input[i] < 0]

\* withFraction: the decimals after unit i, n units of them, each a thousandth of
\* the one before, which may be more than a thousand.
\* Mutant: what is over a thousand is lost.
Decimals(units, i) == Cardinality({j \in i + 1..10 : \A k \in i + 1..j : units[k].style = "fractional"})
RECURSIVE SmallDigits(_, _, _)
NoCarry(size, i, n) == IF n = 0 THEN 0 ELSE size[i + 1] % 1000
SmallDigits(size, i, n) == IF n = 0 THEN 0 ELSE SmallDigits(size, i, n - 1) * 1000 + size[i + n]
Number(whole, frac, n) == [whole |-> whole, frac |-> frac, n |-> n]
Split(d, i, n, digits) == Number(d.size[i] + digits \div (1000 ^ n), digits % (1000 ^ n), n)
withFraction(units, d, i) ==
  Split(d, i, Decimals(units, i), SmallDigits(d.size, i, Decimals(units, i)))
WholeOf(d, i) == Number(d.size[i], 0, 0)
Shows(x) == x.whole # 0 \/ x.frac # 0

\* A part says its minus only if the sign is still to be shown.
PartOf(i, x, minus) == [unit |-> i, x |-> x, minus |-> minus]

\* numericUnits, from unit i on, 5 to 7: what is shown of hours, minutes and
\* seconds.
HasSmall(d) == \E i \in 8..10 : d.size[i] # 0
Seconds(units, d) == IF HasSmall(d) THEN withFraction(units, d, 7) ELSE WholeOf(d, 7)
HourShown(units, d, i) == i = 5 /\ (d.size[5] # 0 \/ units[5].display = "always")
SecondShown(units, d) == Shows(Seconds(units, d)) \/ units[7].display = "always"
MinuteShown(units, d, i) ==
  /\ i \in 5..6
  /\ \/ HourShown(units, d, i) /\ SecondShown(units, d)
     \/ d.size[6] # 0 \/ units[6].display = "always"
numericUnits(units, d, i, sign) ==
  LET h == HourShown(units, d, i) m == MinuteShown(units, d, i) s == SecondShown(units, d)
  IN  (IF h THEN <<PartOf(5, WholeOf(d, 5), sign /\ d.neg)>> ELSE <<>>)
      \o (IF m THEN <<PartOf(6, WholeOf(d, 6), sign /\ ~h /\ d.neg)>> ELSE <<>>)
      \o (IF s THEN <<PartOf(7, Seconds(units, d), sign /\ ~h /\ ~m /\ d.neg)>> ELSE <<>>)

\* durationParts: a list of lists of parts.
RECURSIVE PartsFrom(_, _, _, _, _)
Worded(units, d, i, sign, out, x, last) ==
  IF Shows(x) \/ units[i].display = "always"
    THEN (IF last THEN Append(out, <<PartOf(i, x, sign /\ d.neg)>>)
                  ELSE PartsFrom(units, d, i + 1, FALSE, Append(out, <<PartOf(i, x, sign /\ d.neg)>>)))
    ELSE IF last THEN out ELSE PartsFrom(units, d, i + 1, sign, out)
PartsFrom(units, d, i, sign, out) ==
  IF i > 10 THEN out
  ELSE IF units[i].style \in Numerals THEN Append(out, numericUnits(units, d, i, sign))
  ELSE IF i \in 7..9 /\ units[i + 1].style = "fractional"
    THEN Worded(units, d, i, sign, out, withFraction(units, d, i), TRUE)
  ELSE Worded(units, d, i, sign, out, WholeOf(d, i), FALSE)
durationParts(units, d) == PartsFrom(units, d, 1, TRUE, <<>>)

\* listParts: each list of parts stands where its text stood in the list.
Texts(lists) == [k \in DOMAIN lists |-> k]
RECURSIVE Placed(_, _, _)
Placed(lists, formatted, k) ==
  IF formatted = <<>> THEN <<>>
  ELSE IF Head(formatted)[1] = "element" THEN lists[k] \o Placed(lists, Tail(formatted), k + 1)
  ELSE Placed(lists, Tail(formatted), k)
Written(units, d) ==
  Placed(durationParts(units, d), partsFromList(Narrow, Texts(durationParts(units, d))), 1)

Sizes == {[h |-> 0, m |-> 0, s |-> 0, ms |-> 0, us |-> 0, ns |-> 0],
          [h |-> 1, m |-> 0, s |-> 0, ms |-> 0, us |-> 0, ns |-> 0],
          [h |-> 1, m |-> 0, s |-> 2, ms |-> 0, us |-> 0, ns |-> 0],
          [h |-> 0, m |-> 3, s |-> 0, ms |-> 1999, us |-> 0, ns |-> 0],
          [h |-> 0, m |-> 0, s |-> 1, ms |-> 0, us |-> 2001, ns |-> 1],
          [h |-> 2, m |-> 0, s |-> 0, ms |-> 999, us |-> 999, ns |-> 1001],
          [h |-> 0, m |-> 0, s |-> 0, ms |-> 0, us |-> 0, ns |-> 7]}
Sized(z, days, sign) ==
  [i \in 4..10 |-> CASE i = 4 -> days [] i = 5 -> sign * z.h [] i = 6 -> sign * z.m [] i = 7 -> sign * z.s
                     [] i = 8 -> sign * z.ms [] i = 9 -> sign * z.us [] i = 10 -> sign * z.ns]
DurationCases ==
  {[base |-> base, o |-> Options(i, a, 0, Free), input |-> Sized(z, days, sign)] :
     base \in {"long", "digital"}, i \in 4..9, a \in UnitAsked, z \in Sizes, days \in {-1, 0}, sign \in {1, -1}}

\* All of a duration that is not nothing is written, once and in order, a unit
\* by itself or in the decimals of the one before it, whatever its number is;
\* and the minus of one that is less than nothing is at what is written first
\* and nowhere else, even if that is a nought.
WrittenOnce(c) ==
  \A units \in {Resolved(c.o, c.base)} : units # Refusal =>
  \A d \in {toDuration(c.input)} : d.ok => \A parts \in {Written(units, d)} :
    LET in(k) == parts[k].unit..parts[k].unit + parts[k].x.n
    IN  /\ \A k \in 1..Len(parts) - 1 : \A i \in in(k), j \in in(k + 1) : i < j
        /\ \A i \in 1..10 : d.size[i] # 0 => \E k \in DOMAIN parts : i \in in(k)
        /\ \A k \in DOMAIN parts : LET p == parts[k] IN
             /\ p.minus <=> d.neg /\ k = 1
             /\ p.x.whole * (1000 ^ p.x.n) + p.x.frac
                  = d.size[p.unit] * (1000 ^ p.x.n) + SmallDigits(d.size, p.unit, p.x.n)
=============================================================================
