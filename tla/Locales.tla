------------------------------- MODULE Locales -------------------------------
(***************************************************************************)
(* Locale tags (vita/js/intl_tags.js, intl_core.js and the resolving of    *)
(* vita/js/intl_number.js): a tag read, put in canonical form with CLDR's  *)
(* aliases, filled with its likely subtags, cut down again, and the locale *)
(* with data it is resolved to.  A tag is its subtags, in lower case.      *)
(***************************************************************************)
EXTENDS Integers, Sequences, FiniteSets, TLC
LOCAL INSTANCE SequencesExt

Least(S) == CHOOSE x \in S : \A y \in S : x <= y
No == "none"

\* The subtags there are, in order, by their shape.
Alphabet == <<"001", "a", "ab", "ca", "de", "en", "fr", "h0", "he", "iw", "nu", "ru", "rg", "sh", "sr", "su", "t", "u", "und", "us",
              "va", "w", "x", "yu", "zh", "arab", "cyrl", "hans", "hant", "latn", "qaai", "zinh", "zzzz", "1994", "alalc", "heploc",
              "polyton", "posix", "bud", "buddhist", "true", "yes", "usca", "hybrid", "ruzzzz">>
Rank == [s \in ToSet(Alphabet) |-> CHOOSE i \in DOMAIN Alphabet : Alphabet[i] = s]
Precedes(a, b) == Rank[a] < Rank[b]
Singletons == {"a", "t", "u", "w", "x"}
Two == {"ab", "ca", "de", "en", "fr", "he", "iw", "nu", "ru", "rg", "sh", "sr", "su", "us", "va", "yu", "zh"}
Four == {"arab", "cyrl", "hans", "hant", "latn", "qaai", "zinh", "zzzz", "usca", "true"}
Long == {"alalc", "heploc", "polyton", "posix", "buddhist", "hybrid", "ruzzzz"}
IsLanguage(s) == s \in Two \cup {"und", "bud", "yes"} \cup Long
IsScript(s) == s \in Four
IsRegion(s) == s \in Two \cup {"001"}
Variants == Long \cup {"1994"}
Values == ToSet(Alphabet) \ (Singletons \cup Two \cup {"h0"})

-----------------------------------------------------------------------------
(* Reading.                                                                *)
Sub(p, i) == IF i <= Len(p) THEN p[i] ELSE No
\* The first subtag from i on that is not one of S.
Past(p, i, S) == Least({k \in i..Len(p) + 1 : k = Len(p) + 1 \/ Sub(p, k) \notin S})
Repeats(s) == \E i, j \in DOMAIN s : i # j /\ s[i] = s[j]
NoId == [lang |-> No, script |-> No, region |-> No, variants |-> <<>>]
ReadId(p, i) ==
  LET variants(script, region, v) ==
        [ok |-> IsLanguage(Sub(p, i)) /\ ~Repeats(v), at |-> region + 1 + Len(v),
         id |-> [lang |-> Sub(p, i), script |-> IF script > i THEN p[script] ELSE No,
                 region |-> IF region > script THEN p[region] ELSE No, variants |-> v]]
      afterRegion(script, region) == variants(script, region, SubSeq(p, region + 1, Past(p, region + 1, Variants) - 1))
      afterScript(script) == afterRegion(script, IF IsRegion(Sub(p, script + 1)) THEN script + 1 ELSE script)
  IN  afterScript(IF IsScript(Sub(p, i + 1)) THEN i + 1 ELSE i)
\* Keys of a set each with the values after it: what there is from i on.
ReadKeys(p, i, keys) ==
  LET read[k \in i..Len(p) + 1] ==
        LET of(end) == [read[end] EXCEPT !.kw = <<<<p[k], SubSeq(p, k + 1, end - 1)>>>> \o @]
        IN  IF Sub(p, k) \notin keys THEN [at |-> k, kw |-> <<>>] ELSE of(Past(p, k + 1, Values))
  IN  read[i]
ReadU(p, i) ==
  LET of(attrs, keys) == [ok |-> keys.at > i /\ Sub(p, keys.at) # "h0", at |-> keys.at,
                          u |-> <<[attrs |-> SubSeq(p, i, attrs - 1), kw |-> keys.kw]>>]
      from(attrs) == of(attrs, ReadKeys(p, attrs, Two))
  IN  from(Past(p, i, Values))
ReadT(p, i) ==
  LET of(lang, keys) == [ok |-> lang.ok /\ keys.at > i /\ \A k \in DOMAIN keys.kw : keys.kw[k][2] # <<>>, at |-> keys.at,
                         t |-> <<[lang |-> lang.id, fields |-> keys.kw]>>]
      from(lang) == of(lang, ReadKeys(p, lang.at, {"h0"}))
  IN  from(IF IsLanguage(Sub(p, i)) THEN ReadId(p, i) ELSE [ok |-> TRUE, at |-> i, id |-> NoId])
\* parse: the id, then extensions, no two of one letter; x takes all that is left.
Parse(p) ==
  LET begin(id) == [ok |-> id.ok, at |-> id.at, seen |-> {},
                tag |-> [id |-> id.id, u |-> <<>>, t |-> <<>>, other |-> <<>>, x |-> <<>>]]
      next(m, s, r) == [m EXCEPT !.ok = r.ok /\ s \notin m.seen, !.at = r.at, !.seen = @ \cup {s}]
      other(m, s, end) == [next(m, s, [ok |-> end > m.at + 1, at |-> end]) EXCEPT
                             !.tag.other = Append(@, <<s, SubSeq(p, m.at + 1, end - 1)>>)]
      withU(m, r) == [next(m, "u", r) EXCEPT !.tag.u = r.u]
      withT(m, r) == [next(m, "t", r) EXCEPT !.tag.t = r.t]
      step(m, k) ==
        CASE ~m.ok \/ m.at > Len(p) -> m
          [] m.ok /\ m.at <= Len(p) /\ p[m.at] = "x" ->
               [m EXCEPT !.ok = m.at < Len(p), !.tag.x = SubSeq(p, m.at + 1, Len(p)), !.at = Len(p) + 1]
          [] m.ok /\ m.at <= Len(p) /\ p[m.at] = "u" -> withU(m, ReadU(p, m.at + 1))
          [] m.ok /\ m.at <= Len(p) /\ p[m.at] = "t" -> withT(m, ReadT(p, m.at + 1))
          [] m.ok /\ m.at <= Len(p) /\ p[m.at] \in {"a", "w"} ->
               other(m, p[m.at], Past(p, m.at + 1, ToSet(Alphabet) \ Singletons))
          [] OTHER -> [m EXCEPT !.ok = FALSE]
  IN  FoldLeft(step, begin(ReadId(p, 1)), p)

-----------------------------------------------------------------------------
(* The canonical form.                                                     *)
\* The aliases, as much of them as the cases need: of languages in the order of
\* the table, of regions (the first unless the language's likely region is one of
\* them), scripts, variants and the values of keys.
LanguageAliases == <<[from |-> <<"iw">>, to |-> <<"he">>], [from |-> <<"sh">>, to |-> <<"sr", "latn">>],
                     [from |-> <<"zh", "ab">>, to |-> <<"fr">>],
                     [from |-> <<"sr", "su", "1994">>, to |-> <<"ru">>], [from |-> <<"und", "heploc">>, to |-> <<"und", "alalc">>],
                     [from |-> <<"sr", "1994">>, to |-> <<"sh", "polyton">>]>>
RegionAliases == [s \in {"su", "yu"} |-> IF s = "su" THEN <<"ru", "us", "he">> ELSE <<"sr">>]
ScriptAliases == [s \in {"qaai"} |-> "zinh"]
VariantAliases == [s \in {"polyton"} |-> "alalc"]
LikelyTable == [k \in {<<"en">>, <<"he">>, <<"sr">>, <<"zh">>, <<"zh", "us">>, <<"zh", "hant">>, <<"und", "us">>, <<"und", "latn">>,
                       <<"und">>, <<"ru">>, <<"und", "cyrl">>} |->
                  CASE k \in {<<"en">>, <<"und">>, <<"und", "us">>, <<"und", "latn">>} -> <<"en", "latn", "us">>
                    [] k = <<"he">> -> <<"he", "arab", "he">> [] k = <<"sr">> -> <<"sr", "cyrl", "sr">>
                    [] k = <<"zh">> -> <<"zh", "hans", "zh">> [] k = <<"zh", "us">> -> <<"zh", "hant", "us">>
                    [] k = <<"zh", "hant">> -> <<"zh", "hant", "de">>
                    [] k \in {<<"ru">>, <<"und", "cyrl">>} -> <<"ru", "cyrl", "ru">>]

IdSubtags(t) == SelectSeq(<<t.lang, t.script, t.region>>, LAMBDA s : s # No) \o t.variants
\* likely: what CLDR fills the tag with; none if it does not know it.
Likely(t) ==
  LET with(s) == IF s # No THEN <<s>> ELSE <<>>
      keys(s, r) == (IF s # <<>> /\ r # <<>> THEN <<<<t.lang>> \o s \o r>> ELSE <<>>) \o (IF r # <<>> THEN <<<<t.lang>> \o r>> ELSE <<>>)
                    \o (IF s # <<>> THEN <<<<t.lang>> \o s>> ELSE <<>>) \o <<<<t.lang>>>> \o (IF s # <<>> THEN <<<<"und">> \o s>> ELSE <<>>)
      of(s, r, m) == [t EXCEPT !.lang = IF @ = "und" THEN m[1] ELSE @, !.script = IF s # <<>> THEN s[1] ELSE m[2],
                               !.region = IF r # <<>> THEN r[1] ELSE m[3]]
      first(s, r, known) == IF known = <<>> THEN <<>> ELSE <<of(s, r, LikelyTable[known[1]])>>
      found(s, r) == first(s, r, SelectSeq(keys(s, r), LAMBDA k : k \in DOMAIN LikelyTable))
  IN  IF t.lang # "und" /\ t.script # No /\ t.region # No THEN <<t>>
      ELSE found(IF t.script = "zzzz" THEN <<>> ELSE with(t.script), with(t.region))

\* rulesFor and matchRule: the rule of a language that asks the most of the tag.
RuleId(rule) ==
  LET list == Tail(rule.from)
      noScript == IF list # <<>> /\ IsScript(list[1]) THEN Tail(list) ELSE list
      region == noScript # <<>> /\ IsRegion(noScript[1])
  IN  [region |-> IF region THEN noScript[1] ELSE No, variants |-> IF region THEN Tail(noScript) ELSE noScript, to |-> rule.to]
RulesFor(lang) ==
  LET asks(r) == 2 * Len(r.variants) + (IF r.region # No THEN 1 ELSE 0)
      sorted(rules) == LET order == SetToSortSeq(DOMAIN rules, LAMBDA i, j : asks(rules[i]) > asks(rules[j])
                                                                             \/ (asks(rules[i]) = asks(rules[j]) /\ i < j))
                       IN  [i \in DOMAIN rules |-> rules[order[i]]]
      mine(list) == sorted([i \in DOMAIN list |-> RuleId(list[i])])
  IN  mine(SelectSeq(LanguageAliases, LAMBDA r : r.from[1] = lang))
MatchRule(t, rules) == SelectSeq(rules, LAMBDA r : r.region \in {No, t.region} /\ ToSet(r.variants) \subseteq ToSet(t.variants))
ApplyLanguageRule(t, r) ==
  LET with(to, left) == [lang |-> IF to.lang # "und" THEN to.lang ELSE t.lang, script |-> IF to.script # No THEN to.script ELSE t.script,
                         region |-> CASE to.region # No -> to.region [] to.region = No /\ r.region # No -> No [] OTHER -> t.region,
                         variants |-> left \o SelectSeq(to.variants, LAMBDA v : v \notin ToSet(left))]
  IN  with(ReadId(r.to, 1).id, SelectSeq(t.variants, LAMBDA v : v \notin ToSet(r.variants)))
\* replaceAliases: one replacement at a time, the language's first, ten at most.
ReplacedRegion(t) ==
  LET pick(list, likely) == IF Len(list) > 1 /\ likely # <<>> /\ likely[1].region \in ToSet(list) THEN likely[1].region ELSE list[1]
  IN  pick(RegionAliases[t.region], Likely([NoId EXCEPT !.lang = t.lang, !.script = t.script]))
ReplacedVariants(v) ==
  LET old == {i \in DOMAIN v : v[i] \in DOMAIN VariantAliases}
      new == VariantAliases[v[Least(old)]]
  IN  IF old = {} THEN v ELSE IF new \in ToSet(v) THEN RemoveAt(v, Least(old)) ELSE [v EXCEPT ![Least(old)] = new]
ReplaceOne(id) ==
  LET rules(t) == MatchRule(t, RulesFor(t.lang)) \o MatchRule(t, RulesFor("und"))
      rest(t) == CASE t.region \in DOMAIN RegionAliases -> [t EXCEPT !.region = ReplacedRegion(t)]
                   [] t.region \notin DOMAIN RegionAliases /\ t.script \in DOMAIN ScriptAliases -> [t EXCEPT !.script = ScriptAliases[@]]
                   [] OTHER -> [t EXCEPT !.variants = ReplacedVariants(@)]
      changed(t, now) == IF now # t THEN now ELSE rest(t)
      with(t, r) == changed(t, IF r # <<>> THEN ApplyLanguageRule(t, r[1]) ELSE t)
  IN  with(id, rules(id))
\* Mutant: what an alias stands for is not looked up again.
ReplacedOnce(id) == ReplaceOne(id)
ReplaceAliases(id) == FoldLeft(LAMBDA t, n : ReplaceOne(t), id, [n \in 1..10 |-> n])

\* keywordValue, uValue: yes is true; a region's subdivision is the region's.
Subdivisions == [v \in {<<"usca">>} |-> "us"]
UAliases(key) == IF key = "ca" THEN [v \in {<<"bud">>} |-> <<"buddhist">>] ELSE [v \in {} |-> v]
Whole == [r \in {"us"} |-> "ruzzzz"]
KeywordValue(key, value) ==
  CASE key = "rg" -> IF value \in DOMAIN Subdivisions THEN <<Whole[Subdivisions[value]]>> ELSE value
    [] key # "rg" /\ value \in DOMAIN UAliases(key) -> UAliases(key)[value]
    [] OTHER -> value
UValue(key, value) == LET of(v) == IF v \in {<<"yes">>, <<"true">>} THEN <<>> ELSE v IN of(KeywordValue(key, value))
\* canonical: posix is a keyword, unless there is one.
Canonical(tag) ==
  LET va(kw) == IF \E i \in DOMAIN kw : kw[i][1] = "va" THEN kw ELSE Append(kw, <<"va", <<"posix">>>>)
      posix(id, u) == IF "posix" \notin ToSet(id.variants) THEN u ELSE <<[u EXCEPT ![1].kw = va(@)][1]>>
      made(id) == posix(id, IF "posix" \in ToSet(id.variants) /\ tag.u = <<>> THEN <<[attrs |-> <<>>, kw |-> <<>>]>> ELSE tag.u)
      values(kw) == [i \in DOMAIN kw |-> <<kw[i][1], UValue(kw[i][1], kw[i][2])>>]
      with(id, t) == [tag EXCEPT !.id = [id[1] EXCEPT !.variants = SelectSeq(@, LAMBDA v : v # "posix")],
                                 !.u = LET u == made(id[1]) IN [i \in DOMAIN u |-> [u[i] EXCEPT !.kw = values(@)]],
                                 !.t = [i \in DOMAIN t |-> [t[i] EXCEPT !.lang = IF @ = NoId THEN @ ELSE id[2]]]]
      ids == <<tag.id>> \o (IF tag.t = <<>> THEN <<>> ELSE <<tag.t[1].lang>>)
  IN  with([i \in DOMAIN ids |-> ReplaceAliases(ids[i])], tag.t)
\* format: variants, attributes, keys and extensions in order, each once.
Firsts(kw) == {i \in DOMAIN kw : \A j \in 1..i - 1 : kw[j][1] # kw[i][1]}
KeysSorted(kw, which) ==
  LET order == SetToSortSeq(which, LAMBDA a, b : Precedes(kw[a][1], kw[b][1]))
  IN  FlattenSeq([n \in DOMAIN order |-> <<kw[order[n]][1]>> \o kw[order[n]][2]])
Format(tag) ==
  LET u(e) == <<"u">> \o SetToSortSeq(ToSet(e.attrs), Precedes) \o KeysSorted(e.kw, Firsts(e.kw))
      t(e) == <<"t">> \o (IF e.lang = NoId THEN <<>> ELSE IdSubtags(e.lang)) \o KeysSorted(e.fields, DOMAIN e.fields)
      other(s) == FlattenSeq([i \in DOMAIN tag.other |-> IF tag.other[i][1] = s THEN <<s>> \o tag.other[i][2] ELSE <<>>])
  IN  IdSubtags([tag.id EXCEPT !.variants = SetToSortSeq(ToSet(@), Precedes)])
        \o other("a") \o (IF tag.t = <<>> THEN <<>> ELSE t(tag.t[1])) \o (IF tag.u = <<>> THEN <<>> ELSE u(tag.u[1]))
        \o other("w") \o (IF tag.x = <<>> THEN <<>> ELSE <<"x">> \o tag.x)
Canonicalize(p) == LET of(m) == IF m.ok THEN Format(Canonical(m.tag)) ELSE <<>> IN of(Parse(p))
\* localeList: each tag once.
LocaleList(tags) == FoldLeft(LAMBDA out, p : IF p \in ToSet(out) THEN out ELSE Append(out, p), <<>>, [i \in DOMAIN tags |-> Canonicalize(tags[i])])

-----------------------------------------------------------------------------
(* Intl.Locale.                                                            *)
Keyword(tag, key) ==
  LET first(kw) == IF kw = <<>> THEN <<>> ELSE <<kw[1][2]>>
  IN  IF tag.u = <<>> THEN <<>> ELSE first(SelectSeq(tag.u[1].kw, LAMBDA k : k[1] = key))
\* Locale: the tag with what the options say of its id, and their keys, put in
\* canonical form again.
Locale(p, options) ==
  LET id(old) == [f \in DOMAIN old |-> IF f \in DOMAIN options.id THEN options.id[f] ELSE old[f]]
      given == {options.kw[i][1] : i \in DOMAIN options.kw}
      kw(old) == SelectSeq(old, LAMBDA k : k[1] \notin given) \o options.kw
      keys(u) == IF options.kw = <<>> THEN u
                 ELSE <<[attrs |-> IF u = <<>> THEN <<>> ELSE u[1].attrs, kw |-> kw(IF u = <<>> THEN <<>> ELSE u[1].kw)]>>
      told(tag) == [tag EXCEPT !.id = id(@), !.u = keys(@)]
      twice(q, n) == LET c == Canonical(Parse(q).tag) IN IF n = 1 THEN Format(told(c)) ELSE Format(c)
  IN  FoldLeft(twice, p, <<1, 2>>)
Maximize(tag) == LET of(m) == IF m = <<>> THEN tag ELSE [tag EXCEPT !.id = [m[1] EXCEPT !.variants = tag.id.variants]] IN of(Likely(tag.id))
Minimize(tag) ==
  LET trials(m) == <<[m EXCEPT !.script = No, !.region = No], [m EXCEPT !.script = No], [m EXCEPT !.region = No], m>>
      first(m, trial) == trial[Least({i \in 1..4 : i = 4 \/ Likely(trial[i]) = m})]
      of(m) == IF m = <<>> THEN tag ELSE [tag EXCEPT !.id = first(m, trials(m[1]))]
  IN  of(Likely(tag.id))
\* keywordRegion, region, hourCycles: whose preferences are taken.
KeywordRegion(tag) == IF Keyword(tag, "rg") \in {<<<<"ruzzzz">>>>} THEN "us" ELSE No
Region(tag) ==
  LET own(r, likely) == CASE r # No -> r
                          [] r = No /\ tag.id.region # No -> tag.id.region
                          [] OTHER -> IF likely = <<>> THEN No ELSE likely[1].region
  IN  own(KeywordRegion(tag), Likely(tag.id))

-----------------------------------------------------------------------------
(* The locale with data.                                                   *)
\* splitTag: the tag without its extensions, and its keys.  What comes after -u-
\* must be private use, or the keys are not seen.
SplitTag(p) ==
  LET base(b, other) == IF other = {} THEN b ELSE SubSeq(b, 1, Least(other) - 1)
      others(b) == base(b, {i \in 2..Len(b) - 1 : b[i] \in Singletons \ {"x"} /\ \A k \in i + 1..Len(b) : b[k] \notin Singletons})
      from(u, x) == [base |-> others(SubSeq(p, 1, u - 1)), kw |-> IF u = x THEN <<>> ELSE ReadKeys(p, Past(p, u + 1, Values), Two).kw]
      before(x) == from(Least({i \in 1..x : i = x \/ (p[i] = "u" /\ i < x - 1 /\ \A k \in i + 1..x - 1 : p[k] \notin Singletons)}), x)
  IN  before(Least({i \in 1..Len(p) + 1 : i = Len(p) + 1 \/ (p[i] = "x" /\ i > 1)}))
\* lookup: subtags are dropped from the end, and a letter left behind with them.
Lookup(base, have) ==
  LET shorter(t) == LET cut == Front(t) IN IF Len(cut) > 1 /\ Last(cut) \in Singletons THEN Front(cut) ELSE cut
      found[n \in 0..Len(base)] ==
        LET t == SubSeq(base, 1, n) IN IF n = 0 \/ t \in have THEN t ELSE found[Len(shorter(t))]
  IN  found[Len(base)]
\* fallback: as lookup does, but a script the language is not written in goes to
\* the root.
Fallback(base, have) ==
  LET odd(t) == /\ t \notin have /\ Len(t) = 2 /\ IsScript(t[2])
                /\ LET m == Likely([NoId EXCEPT !.lang = t[1]]) IN m = <<>> \/ m[1].script # t[2]
      stops == {SubSeq(base, 1, n) : n \in {k \in 1..Len(base) : odd(SubSeq(base, 1, k))}}
      of(r) == IF r \in have THEN r ELSE <<>>
  IN  of(Lookup(base, have \cup stops))
\* resolveLocale: the first that is found, and a numbering system its keys or the
\* options ask for, if there is one of that name.
ResolveLocale(requested, nuOption, have, systems, own, default) ==
  LET split == [i \in DOMAIN requested |-> SplitTag(requested[i])]
      locales == [i \in DOMAIN requested |-> [tag |-> Lookup(split[i].base, have), kw |-> split[i].kw]]
      \* The last of its keys of the name is the one that counts.
      asked(kw) == {kw[i][2] : i \in {k \in DOMAIN kw : kw[k][1] = "nu" /\ kw[k][2] \in systems /\ \A j \in k + 1..Len(kw) : kw[j][1] # "nu"}}
      chosen(tag, ask, nu) == IF nuOption # No /\ <<nuOption>> \in systems /\ <<nuOption>> # nu
                              THEN [tag |-> tag, nu |-> <<nuOption>>, locale |-> tag]
                              ELSE [tag |-> tag, nu |-> nu, locale |-> IF ask = {} THEN tag ELSE tag \o <<"u", "nu">> \o nu]
      numbered(tag, ask) == chosen(tag, ask, IF ask = {} THEN own ELSE CHOOSE v \in ask : TRUE)
      of(found) == IF found = <<>> THEN numbered(default, {}) ELSE numbered(found[1].tag, asked(found[1].kw))
  IN  of(SelectSeq(locales, LAMBDA l : l.tag # <<>>))
Supported(requested, have) == SelectSeq(requested, LAMBDA p : Lookup(SplitTag(p).base, have) # <<>>)

-----------------------------------------------------------------------------
Optional(S) == {<<>>} \cup {<<s>> : s \in S}
Ids == {<<l>> \o s \o r \o v : l \in {"en", "iw", "sh", "sr", "zh", "und"}, s \in Optional({"latn", "qaai", "hant"}),
        r \in Optional({"su", "ab", "yu", "us"}), v \in Optional({"1994", "heploc", "posix"}) \cup {<<"1994", "alalc">>, <<"posix", "polyton">>, <<"polyton", "heploc">>}}
Extensions == {<<>>, <<"x", "u">>, <<"u", "ca", "bud">>, <<"u", "va", "nu", "yes">>, <<"u", "hybrid", "ab", "rg", "usca", "ca", "ca", "bud">>,
               <<"t", "sr", "1994">>, <<"w", "ab", "a", "ca", "t", "iw", "h0", "hybrid", "u", "nu", "true">>}
TagCases == Ids \X Extensions
ParseCases == [1..4 -> {"en", "latn", "us", "u", "t", "x", "nu", "h0", "posix", "a"}] \cup
              {<<"en">> \o s : s \in [1..4 -> {"u", "nu", "arab", "a", "x"}]}
LocaleCases == {<<"en">>, <<"iw", "su">>, <<"zh", "hant", "us">>, <<"und">>, <<"sr", "1994">>, <<"zh", "us", "u", "ca", "bud">>} \X
               [id : {<<>>} \cup {[lang |-> l] : l \in {"sh", "und"}} \cup {[script |-> "qaai"], [region |-> "su"]}
                     \cup {[variants |-> <<"posix", "polyton">>]},
                kw : {<<>>, <<<<"ca", <<"bud">>>>>>, <<<<"ca", <<"yes">>>>, <<"nu", <<"arab">>>>>>}]
ResolveCases == [first : {<<"en">>, <<"zh", "hant", "us">>, <<"sr", "latn">>, <<"de", "u", "nu", "arab">>, <<"en", "a", "bud", "u", "ca", "bud", "nu", "arab", "x", "u">>,
                          <<"zh", "us", "u", "nu", "bud">>},
                 option : {No, "arab", "latn", "bud"},
                 have : SUBSET {<<"en">>, <<"zh">>, <<"zh", "hant">>, <<"sr">>, <<"de">>}]

\* A canonical tag is canonical; the order its keys, variants and extensions came
\* in does not show; and no alias is left in it.
CanonicalOnce(c) ==
  LET p == c[1] \o c[2]
      again(q, m) == /\ m.ok /\ Format(m.tag) = q
                     /\ m.tag.id.region \notin DOMAIN RegionAliases /\ m.tag.id.script \notin DOMAIN ScriptAliases
                     /\ ToSet(m.tag.id.variants) \cap (DOMAIN VariantAliases \cup {"posix"}) = {}
      of(list) == Len(list) = 1 /\ again(list[1], Parse(list[1]))
  IN  Parse(p).ok => \A list \in {LocaleList(<<p>>)} : list # <<<<>>>> /\ of(LocaleList(<<p, list[1], p>>))
\* What is read is written as it was read, but for order; what is refused is not
\* a tag whatever follows it.
ReadsBack(p) ==
  LET written(m, q) == \A r \in {Parse(q)} : r.ok /\ Format(r.tag) = q /\ (m.tag.u = <<>> => ToSet(q) = ToSet(p))
  IN  \A m \in {Parse(p)} : m.ok => written(m, Format(m.tag))
\* Subtags filled in are cut again, and cut ones filled: each of the two undoes
\* the other, the shortest tag of those that mean the same is found.
LikelyAgrees(p) ==
  \A tag \in {Canonical(Parse(p).tag)} :
    LET both(u) == <<Maximize(u), Minimize(u)>>
        agree(max, min) == /\ max[1] = both(tag)[1] /\ max[2] = min[2]
                           /\ min[1] = max[1]
                           /\ Len(IdSubtags(min[2].id)) <= Len(IdSubtags(tag.id)) \/ tag.id.lang = "und"
    IN  \A b \in {both(tag)} : agree(both(b[1]), both(b[2]))
\* A locale made with options is what its own text makes, and says what it was
\* told, in canonical form.
OptionsTaken(c) ==
  LET of(q, tag) == /\ Format(tag) = q
                    /\ \A i \in DOMAIN c[2].kw : Keyword(tag, c[2].kw[i][1]) = <<UValue(c[2].kw[i][1], c[2].kw[i][2])>>
  IN  \A q \in {Locale(c[1], c[2])} : of(q, Canonical(Parse(q).tag))
\* The locale found is the longest with data of the first tag that has one; the
\* numbering system is one there is; and what it says it is resolves to it again.
ResolvedRight(c) ==
  LET systems == {<<"arab">>, <<"latn">>}
      resolve(list, option) == ResolveLocale(list, option, c.have, systems, <<"latn">>, <<"en">>)
      found(r, base, prefixes) ==
        /\ r.nu \in systems /\ (c.option # No /\ <<c.option>> \in systems => r.nu = <<c.option>>)
        /\ prefixes # {} => r.tag \in prefixes /\ \A q \in prefixes : Len(q) <= Len(r.tag)
        /\ Supported(<<c.first>>, c.have) = (IF prefixes = {} THEN <<>> ELSE <<c.first>>)
        /\ Fallback(base, c.have) \in prefixes \cup {<<>>}
      of(r, base) == found(r, base, {SubSeq(base, 1, n) : n \in 1..Len(base)} \cap c.have)
      again(r) == \A s \in {IF r.tag \in c.have THEN <<<<r.locale>>, IF r.locale = r.tag THEN r.nu[1] ELSE No>> ELSE <<<<c.first, <<"ru">>>>, c.option>>} :
                    resolve(s[1], s[2]) = r
  IN  \A r \in {resolve(<<c.first, <<"ru">>>>, c.option)} : of(r, SplitTag(c.first).base) /\ again(r)
=============================================================================
