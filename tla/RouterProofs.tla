---------------------------- MODULE RouterProofs ----------------------------
(***************************************************************************)
(* Theorems about Router: what the splitting and joining of texts of any   *)
(* length yields, and from that, that a request reaches the endpoint added *)
(* for its path with the fields that were sent.                            *)
(***************************************************************************)
EXTENDS Router, SequenceTheorems, WellFoundedInduction, TLAPS

-----------------------------------------------------------------------------
(* Induction, over sets instead of predicates.                             *)

LEMMA NatInductionOnSets ==
    ASSUME NEW S, 0 \in S, \A n \in Nat : n \in S => n + 1 \in S
    PROVE  Nat \subseteq S
<1> DEFINE Others == Nat \ S
<1>1. SUFFICES ASSUME Others # {} PROVE FALSE
    OBVIOUS
<1>2. PICK least \in Others : \A n \in Others : <<n, least>> \notin OpToRel(<, Nat)
    <2>1. Others \subseteq Nat
        OBVIOUS
    <2>2. QED
        BY ONLY <1>1, <2>1, NatLessThanWellFounded, WFMin
<1>3. \A n \in Others : ~(n < least)
    BY <1>2 DEF OpToRel
<1>4. least # 0 /\ least - 1 \in Nat
    OBVIOUS
<1>5. least - 1 \in S
    BY <1>3, <1>4
<1>6. QED
    BY <1>4, <1>5

LEMMA SeqInductionOnSets ==
    ASSUME NEW E, NEW S, <<>> \in S,
           \A s \in Seq(E) : \A x \in E : s \in S => Append(s, x) \in S
    PROVE  Seq(E) \subseteq S
<1> DEFINE Lengths == {n \in Nat : \A s \in Seq(E) : Len(s) = n => s \in S}
<1>1. 0 \in Lengths
    BY EmptySeq
<1>2. ASSUME NEW n \in Nat, n \in Lengths PROVE n + 1 \in Lengths
    <2>1. SUFFICES ASSUME NEW s \in Seq(E), Len(s) = n + 1 PROVE s \in S
        OBVIOUS
    <2>2. PICK front \in Seq(E), x \in E : s = Append(front, x)
        BY <2>1, EmptySeq, SequenceEmptyOrAppend
    <2>3. Len(front) = n
        BY <2>1, <2>2, AppendProperties, LenProperties
    <2>4. QED
        BY <1>2, <2>2, <2>3
<1> HIDE DEF Lengths
<1>3. Nat \subseteq Lengths
    BY <1>1, <1>2, NatInductionOnSets
<1>4. QED
    BY <1>3, LenProperties DEF Lengths

-----------------------------------------------------------------------------
(* Folds.  A fold is the choice of a function that satisfies a recursive   *)
(* equation; there is one, and it does what its name says.  Step has the   *)
(* steps of the three folds of Router, so that this is shown once.         *)

Step(job, result, x) ==
    IF job.kind = "join" THEN result \o <<job.ch>> \o x
    ELSE IF job.kind = "split"
         THEN IF x = job.ch THEN Append(result, <<>>)
              ELSE [result EXCEPT ![Len(result)] = Append(@, x)]
         ELSE LET parts == Split(x, "=") IN
              IF Len(parts) = 2 THEN With(result, parts[1], parts[2]) ELSE result

IsFold(g, n, job, base, seq) ==
    g = [s \in SUBSET (1..n) |->
            IF s = {} THEN base ELSE Step(job, g[s \ {Max(s)}], seq[Max(s)])]

(* The greatest of a set of numbers that does not go beyond one of them.   *)
LEMMA MaxIs ==
    ASSUME NEW n \in Nat, NEW s \in SUBSET (1..n), n \in s
    PROVE  Max(s) = n
<1>1. \A x \in s : x \in Nat /\ n >= x
    OBVIOUS
<1>2. ASSUME NEW x \in s, \A y \in s : x >= y PROVE x = n
    BY <1>1, <1>2
<1>3. QED
    BY <1>1, <1>2 DEF Max

LEMMA FoldExists ==
    ASSUME NEW n \in Nat, NEW job, NEW base, NEW seq
    PROVE  \E g : IsFold(g, n, job, base, seq)
<1> DEFINE S == {m \in Nat : \E g : IsFold(g, m, job, base, seq)}
<1>1. 0 \in S
    <2> DEFINE g == [s \in SUBSET (1..0) |-> base]
    <2>1. IsFold(g, 0, job, base, seq)
        BY DEF IsFold
    <2>2. QED
        BY <2>1
<1>2. ASSUME NEW m \in Nat, m \in S PROVE m + 1 \in S
    <2>1. PICK g : IsFold(g, m, job, base, seq)
        BY <1>2
    <2> DEFINE h == [s \in SUBSET (1..(m + 1)) |->
                        IF m + 1 \in s THEN Step(job, g[s \ {m + 1}], seq[m + 1]) ELSE g[s]]
    <2>2. ASSUME NEW s \in SUBSET (1..(m + 1))
          PROVE  h[s] = IF s = {} THEN base ELSE Step(job, h[s \ {Max(s)}], seq[Max(s)])
        <3>1. CASE m + 1 \in s
            <4>1. Max(s) = m + 1
                BY <3>1, MaxIs
            <4>2. s \ {m + 1} \in SUBSET (1..m)
                OBVIOUS
            <4>3. h[s \ {m + 1}] = g[s \ {m + 1}]
                BY <4>2
            <4>4. h[s] = Step(job, g[s \ {m + 1}], seq[m + 1])
                BY <3>1
            <4>5. s # {}
                BY <3>1
            <4>6. QED
                BY <4>1, <4>3, <4>4, <4>5
        <3>2. CASE m + 1 \notin s
            <4>1. s \in SUBSET (1..m)
                BY <3>2
            <4>2. s \ {Max(s)} \in SUBSET (1..m)
                BY <4>1
            <4>3. h[s] = g[s] /\ h[s \ {Max(s)}] = g[s \ {Max(s)}]
                BY <3>2, <4>1, <4>2
            <4>4. g[s] = IF s = {} THEN base ELSE Step(job, g[s \ {Max(s)}], seq[Max(s)])
                BY <2>1, <4>1 DEF IsFold
            <4>5. QED
                BY <4>3, <4>4
        <3>3. QED
            BY <3>1, <3>2
    <2>3. IsFold(h, m + 1, job, base, seq)
        BY ONLY <2>2 DEF IsFold, h
    <2>4. QED
        BY <2>3
<1> HIDE DEF S
<1>3. Nat \subseteq S
    BY <1>1, <1>2, NatInductionOnSets
<1>4. QED
    BY <1>3 DEF S

LEMMA FoldUnfolds ==
    ASSUME NEW n \in Nat, NEW job, NEW base, NEW seq, NEW g, IsFold(g, n, job, base, seq)
    PROVE  /\ g[1..0] = base
           /\ \A i \in 1..n : g[1..i] = Step(job, g[1..(i - 1)], seq[i])
<1>1. g[1..0] = base
    BY DEF IsFold
<1>2. ASSUME NEW i \in 1..n PROVE g[1..i] = Step(job, g[1..(i - 1)], seq[i])
    <2>1. 1..i \in SUBSET (1..n) /\ 1..i # {}
        OBVIOUS
    <2>2. Max(1..i) = i
        BY MaxIs
    <2>3. (1..i) \ {i} = 1..(i - 1)
        OBVIOUS
    <2>4. QED
        BY <2>1, <2>2, <2>3 DEF IsFold
<1>3. QED
    BY <1>1, <1>2

(* What a fold yields for a sequence that is there to be gone through.     *)
Folded(v, job, base, seq) ==
    \E g : IsFold(g, Len(seq), job, base, seq) /\ v = g[1..Len(seq)]

LEMMA FoldOfEmpty ==
    ASSUME NEW job, NEW base, NEW v, Folded(v, job, base, <<>>)
    PROVE  v = base
BY FoldUnfolds DEF Folded

LEMMA FoldOfAppend ==
    ASSUME NEW E, NEW seq \in Seq(E), NEW x \in E, NEW job, NEW base, NEW v, NEW w,
           Folded(v, job, base, seq), Folded(w, job, base, Append(seq, x))
    PROVE  w = Step(job, v, x)
<1> DEFINE n == Len(seq)
<1>1. /\ n \in Nat /\ Len(Append(seq, x)) = n + 1
      /\ \A i \in 1..n : Append(seq, x)[i] = seq[i]
      /\ Append(seq, x)[n + 1] = x
    BY LenProperties, AppendProperties
<1>2. PICK g : IsFold(g, n, job, base, seq) /\ v = g[1..n]
    BY DEF Folded
<1>3. PICK h : IsFold(h, n + 1, job, base, Append(seq, x)) /\ w = h[1..(n + 1)]
    BY <1>1 DEF Folded
<1> HIDE DEF n
<1>4. g[1..0] = base /\ \A i \in 1..n : g[1..i] = Step(job, g[1..(i - 1)], seq[i])
    BY <1>1, <1>2, FoldUnfolds
<1>5. /\ h[1..0] = base
      /\ \A i \in 1..(n + 1) : h[1..i] = Step(job, h[1..(i - 1)], Append(seq, x)[i])
    <2> DEFINE m == n + 1
    <2> DEFINE longer == Append(seq, x)
    <2>1. m \in Nat /\ IsFold(h, m, job, base, longer)
        BY <1>1, <1>3
    <2> HIDE DEF m, longer
    <2>2. h[1..0] = base /\ \A i \in 1..m : h[1..i] = Step(job, h[1..(i - 1)], longer[i])
        BY <2>1, FoldUnfolds
    <2>3. QED
        BY <2>2 DEF m, longer
<1> DEFINE S == {i \in Nat : i <= n => h[1..i] = g[1..i]}
<1>6. 0 \in S
    BY <1>4, <1>5
<1>7. ASSUME NEW i \in Nat, i \in S PROVE i + 1 \in S
    <2>1. SUFFICES ASSUME i + 1 <= n PROVE h[1..(i + 1)] = g[1..(i + 1)]
        OBVIOUS
    <2>2. i + 1 \in 1..n /\ i + 1 \in 1..(n + 1) /\ (i + 1) - 1 = i
        BY <1>1, <2>1
    <2>3. h[1..i] = g[1..i]
        BY <1>1, <1>7, <2>1
    <2>4. h[1..(i + 1)] = Step(job, h[1..i], seq[i + 1])
        BY <1>1, <1>5, <2>2
    <2>5. g[1..(i + 1)] = Step(job, g[1..i], seq[i + 1])
        BY <1>4, <2>2
    <2>6. QED
        BY <2>3, <2>4, <2>5
<1> HIDE DEF S
<1>8. Nat \subseteq S
    BY <1>6, <1>7, NatInductionOnSets
<1>9. h[1..n] = g[1..n]
    BY <1>1, <1>8 DEF S
<1>10. n + 1 \in 1..(n + 1) /\ (n + 1) - 1 = n
    BY <1>1
<1>11. QED
    BY <1>1, <1>2, <1>3, <1>5, <1>9, <1>10

-----------------------------------------------------------------------------
(* The three folds.                                                        *)

SplitJob(ch) == [kind |-> "split", ch |-> ch]
JoinJob(ch) == [kind |-> "join", ch |-> ch]
ParametersJob == [kind |-> "parameters"]

LEMMA SplitFolds ==
    ASSUME NEW E, NEW text \in Seq(E), NEW ch
    PROVE  Folded(Split(text, ch), SplitJob(ch), << <<>> >>, text)
<1> DEFINE P(g) == g = [s \in SUBSET (DOMAIN text) |->
            IF s = {} THEN << <<>> >>
            ELSE LET i == Max(s) IN
                 IF text[i] = ch THEN Append(g[s \ {i}], <<>>)
                 ELSE [g[s \ {i}] EXCEPT ![Len(g[s \ {i}])] = Append(@, text[i])]]
<1>1. Split(text, ch) = (CHOOSE g : P(g))[DOMAIN text]
    BY DEF Split, FoldLeft, MapThenFoldSet
<1>2. DOMAIN text = 1..Len(text) /\ Len(text) \in Nat
    BY LenProperties
<1>3. ASSUME NEW g PROVE P(g) <=> IsFold(g, Len(text), SplitJob(ch), << <<>> >>, text)
    BY <1>2 DEF IsFold, Step, SplitJob
<1> HIDE DEF P
<1>4. \E g : P(g)
    BY <1>2, <1>3, FoldExists
<1>5. P(CHOOSE g : P(g))
    BY <1>4
<1>6. QED
    BY <1>1, <1>2, <1>3, <1>5 DEF Folded

LEMMA JoinFolds ==
    ASSUME NEW E, NEW texts \in Seq(E), NEW ch, Tail(texts) \in Seq(E)
    PROVE  Folded(Join(texts, ch), JoinJob(ch), Head(texts), Tail(texts))
<1> DEFINE rest == Tail(texts)
<1> DEFINE P(g) == g = [s \in SUBSET (DOMAIN rest) |->
            IF s = {} THEN Head(texts)
            ELSE LET i == Max(s) IN g[s \ {i}] \o <<ch>> \o rest[i]]
<1>1. Join(texts, ch) = (CHOOSE g : P(g))[DOMAIN rest]
    BY DEF Join, FoldLeft, MapThenFoldSet
<1>2. DOMAIN rest = 1..Len(rest) /\ Len(rest) \in Nat
    BY LenProperties
<1>3. ASSUME NEW g PROVE P(g) <=> IsFold(g, Len(rest), JoinJob(ch), Head(texts), rest)
    BY <1>2 DEF IsFold, Step, JoinJob
<1> HIDE DEF P
<1>4. \E g : P(g)
    BY <1>2, <1>3, FoldExists
<1>5. P(CHOOSE g : P(g))
    BY <1>4
<1>6. QED
    BY <1>1, <1>2, <1>3, <1>5 DEF Folded

LEMMA ParametersFold ==
    ASSUME NEW encoded, Split(encoded, "&") \in Seq(Text)
    PROVE  Folded(ParseQueryParameters(encoded), ParametersJob, << >>, Split(encoded, "&"))
<1> DEFINE pairs == Split(encoded, "&")
<1> DEFINE P(g) == g = [s \in SUBSET (DOMAIN pairs) |->
            IF s = {} THEN << >>
            ELSE LET i == Max(s)
                     parts == Split(pairs[i], "=")
                 IN  IF Len(parts) = 2 THEN With(g[s \ {i}], parts[1], parts[2]) ELSE g[s \ {i}]]
<1>1. ParseQueryParameters(encoded) = (CHOOSE g : P(g))[DOMAIN pairs]
    BY DEF ParseQueryParameters, FoldLeft, MapThenFoldSet
<1>2. DOMAIN pairs = 1..Len(pairs) /\ Len(pairs) \in Nat
    BY LenProperties
<1>3. ASSUME NEW g PROVE P(g) <=> IsFold(g, Len(pairs), ParametersJob, << >>, pairs)
    BY <1>2 DEF IsFold, Step, ParametersJob
<1> HIDE DEF P
<1>4. \E g : P(g)
    BY <1>2, <1>3, FoldExists
<1>5. P(CHOOSE g : P(g))
    BY <1>4
<1>6. QED
    BY <1>1, <1>2, <1>3, <1>5 DEF Folded

-----------------------------------------------------------------------------
(* The equations of Split and Join for one element more.                   *)

LEMMA SplitEmpty ==
    ASSUME NEW ch
    PROVE  Split(<<>>, ch) = << <<>> >>
<1>1. Folded(Split(<<>>, ch), SplitJob(ch), << <<>> >>, <<>>)
    BY EmptySeq, SplitFolds
<1>2. QED
    BY <1>1, FoldOfEmpty

(* The character x is added to the last of the parts.                      *)
Extended(parts, x) == [parts EXCEPT ![Len(parts)] = Append(parts[Len(parts)], x)]

LEMMA SplitAppend ==
    ASSUME NEW E, NEW text \in Seq(E), NEW x \in E, NEW ch
    PROVE  Split(Append(text, x), ch) =
              IF x = ch THEN Append(Split(text, ch), <<>>) ELSE Extended(Split(text, ch), x)
<1> DEFINE before == Split(text, ch)
<1> DEFINE after == Split(Append(text, x), ch)
<1>1. Folded(before, SplitJob(ch), << <<>> >>, text)
    BY SplitFolds
<1>2. Folded(after, SplitJob(ch), << <<>> >>, Append(text, x))
    BY AppendProperties, SplitFolds
<1> HIDE DEF before, after
<1>3. after = Step(SplitJob(ch), before, x)
    BY <1>1, <1>2, FoldOfAppend
<1>4. QED
    BY <1>3 DEF Step, SplitJob, Extended, before, after

LEMMA JoinOne ==
    ASSUME NEW E, NEW text \in E, NEW ch
    PROVE  Join(<<text>>, ch) = text
<1>1. <<text>> \in Seq(E) /\ Tail(<<text>>) = <<>> /\ Head(<<text>>) = text
    OBVIOUS
<1>2. <<>> \in Seq(E)
    BY EmptySeq
<1>3. Folded(Join(<<text>>, ch), JoinJob(ch), text, <<>>)
    BY <1>1, <1>2, JoinFolds
<1>4. QED
    BY <1>3, FoldOfEmpty

LEMMA JoinAppend ==
    ASSUME NEW E, NEW texts \in Seq(E), texts # <<>>, NEW text \in E, NEW ch
    PROVE  Join(Append(texts, text), ch) = Join(texts, ch) \o <<ch>> \o text
<1> DEFINE longer == Append(texts, text)
<1> DEFINE before == Join(texts, ch)
<1> DEFINE after == Join(longer, ch)
<1>1. /\ Tail(texts) \in Seq(E)
      /\ longer \in Seq(E) /\ Tail(longer) = Append(Tail(texts), text) /\ Head(longer) = Head(texts)
    BY HeadTailProperties, AppendProperties, HeadTailAppend
<1>2. Tail(longer) \in Seq(E)
    BY <1>1, AppendProperties
<1>3. Folded(before, JoinJob(ch), Head(texts), Tail(texts))
    BY <1>1, JoinFolds
<1>4. Folded(after, JoinJob(ch), Head(longer), Tail(longer))
    BY <1>1, <1>2, JoinFolds
<1> HIDE DEF before, after, longer
<1>5. after = Step(JoinJob(ch), before, text)
    BY <1>1, <1>3, <1>4, FoldOfAppend
<1>6. QED
    BY <1>5 DEF Step, JoinJob, before, after, longer

-----------------------------------------------------------------------------
(* Characters in texts.                                                    *)

LEMMA ContainsAppend ==
    ASSUME NEW E, NEW text \in Seq(E), NEW x \in E, NEW ch
    PROVE  Contains(Append(text, x), ch) <=> Contains(text, ch) \/ x = ch
<1>1. /\ Len(text) \in Nat /\ Len(Append(text, x)) = Len(text) + 1
      /\ \A i \in 1..Len(text) : Append(text, x)[i] = text[i]
      /\ Append(text, x)[Len(text) + 1] = x
    BY LenProperties, AppendProperties
<1>2. QED
    BY <1>1 DEF Contains

LEMMA ContainsConcat ==
    ASSUME NEW E, NEW s \in Seq(E), NEW t \in Seq(E), NEW ch
    PROVE  Contains(s \o t, ch) <=> Contains(s, ch) \/ Contains(t, ch)
<1>1. /\ Len(s) \in Nat /\ Len(t) \in Nat /\ Len(s \o t) = Len(s) + Len(t)
      /\ \A i \in 1..(Len(s) + Len(t)) :
            (s \o t)[i] = IF i <= Len(s) THEN s[i] ELSE t[i - Len(s)]
    BY LenProperties, ConcatProperties
<1>2. ASSUME Contains(s \o t, ch) PROVE Contains(s, ch) \/ Contains(t, ch)
    BY <1>1, <1>2 DEF Contains
<1>3. ASSUME Contains(s, ch) PROVE Contains(s \o t, ch)
    BY <1>1, <1>3 DEF Contains
<1>4. ASSUME Contains(t, ch) PROVE Contains(s \o t, ch)
    <2>1. PICK i \in 1..Len(t) : t[i] = ch
        BY <1>4 DEF Contains
    <2>2. /\ Len(s) + i \in 1..(Len(s) + Len(t)) /\ ~(Len(s) + i <= Len(s))
          /\ (Len(s) + i) - Len(s) = i
        BY <1>1
    <2>3. (s \o t)[Len(s) + i] = ch
        BY <1>1, <2>1, <2>2
    <2>4. QED
        BY <1>1, <2>2, <2>3 DEF Contains
<1>5. QED
    BY <1>2, <1>3, <1>4

-----------------------------------------------------------------------------
(* Split and Join are inverse to each other.                               *)

(* Texts without ch, at least one of them.                                 *)
Parts(parts, ch) ==
    /\ parts \in Seq(Text) /\ parts # <<>>
    /\ \A i \in 1..Len(parts) : ~Contains(parts[i], ch)

LEMMA NothingInEmpty ==
    ASSUME NEW ch
    PROVE  <<>> \in Text /\ ~Contains(<<>>, ch)
BY EmptySeq DEF Text, Contains

LEMMA PartsAppend ==
    ASSUME NEW parts \in Seq(Text), NEW text \in Text, NEW ch
    PROVE  Parts(Append(parts, text), ch)
              <=> (parts = <<>> \/ Parts(parts, ch)) /\ ~Contains(text, ch)
<1>1. /\ Len(parts) \in Nat /\ Len(Append(parts, text)) = Len(parts) + 1
      /\ Append(parts, text) \in Seq(Text) /\ Append(parts, text) # <<>>
      /\ \A i \in 1..Len(parts) : Append(parts, text)[i] = parts[i]
      /\ Append(parts, text)[Len(parts) + 1] = text
    BY LenProperties, AppendProperties
<1>2. parts = <<>> => Len(parts) = 0
    BY EmptySeq
<1>3. ASSUME Parts(Append(parts, text), ch)
      PROVE  (parts = <<>> \/ Parts(parts, ch)) /\ ~Contains(text, ch)
    <2>1. ~Contains(text, ch)
        BY <1>1, <1>3 DEF Parts
    <2>2. \A i \in 1..Len(parts) : ~Contains(parts[i], ch)
        BY <1>1, <1>3 DEF Parts
    <2>3. QED
        BY <2>1, <2>2 DEF Parts
<1>4. ASSUME parts = <<>> \/ Parts(parts, ch), ~Contains(text, ch)
      PROVE  Parts(Append(parts, text), ch)
    BY <1>1, <1>2, <1>4 DEF Parts
<1>5. QED
    BY <1>3, <1>4

(* A character that is not ch is added to the last part.                   *)
LEMMA SplitExtends ==
    ASSUME NEW text \in Text, NEW x \in Characters, NEW ch, x # ch,
           NEW front \in Seq(Text), NEW last \in Text, Split(text, ch) = Append(front, last)
    PROVE  Split(Append(text, x), ch) = Append(front, Append(last, x))
<1>1. /\ Append(front, last) \in Seq(Text) /\ Len(front) \in Nat
      /\ Len(Append(front, last)) = Len(front) + 1
      /\ Append(front, last)[Len(front) + 1] = last
      /\ \A i \in 1..Len(front) : Append(front, last)[i] = front[i]
    BY LenProperties, AppendProperties
<1>2. Append(last, x) \in Text
    BY AppendProperties DEF Text
<1>3. /\ Append(front, Append(last, x)) \in Seq(Text)
      /\ Len(Append(front, Append(last, x))) = Len(front) + 1
      /\ Append(front, Append(last, x))[Len(front) + 1] = Append(last, x)
      /\ \A i \in 1..Len(front) : Append(front, Append(last, x))[i] = front[i]
    BY <1>2, LenProperties, AppendProperties
<1> DEFINE before == Append(front, last)
<1> DEFINE n == Len(front) + 1
<1> DEFINE longer == [before EXCEPT ![n] = Append(last, x)]
<1>4. Split(Append(text, x), ch) = longer
    <2>1. Split(Append(text, x), ch) = Extended(Split(text, ch), x)
        BY SplitAppend DEF Text
    <2>2. Split(Append(text, x), ch) = Extended(before, x)
        BY <2>1
    <2>3. Len(before) = n /\ before[n] = last
        BY <1>1
    <2> HIDE DEF before, n
    <2>4. QED
        BY <2>2, <2>3 DEF Extended
<1>5. /\ longer \in Seq(Text) /\ Len(longer) = n
      /\ \A i \in 1..n : longer[i] = IF i = n THEN Append(last, x) ELSE before[i]
    <2>1. before \in Seq(Text) /\ Len(before) = n /\ n \in 1..n
        BY <1>1
    <2> HIDE DEF before, n
    <2>2. QED
        BY <1>2, <2>1, ExceptSeq
<1> HIDE DEF longer
<1>6. longer = Append(front, Append(last, x))
    BY <1>1, <1>3, <1>5, SeqEqual
<1>7. QED
    BY <1>4, <1>6

LEMMA SplitMakesParts ==
    ASSUME NEW text \in Text, NEW ch \in Characters
    PROVE  Parts(Split(text, ch), ch) /\ Join(Split(text, ch), ch) = text
<1> DEFINE S == {t \in Text : Parts(Split(t, ch), ch) /\ Join(Split(t, ch), ch) = t}
<1>1. <<>> \in S
    <2>1. <<>> \in Seq(Text) /\ Append(<<>>, <<>>) = << <<>> >>
        BY EmptySeq
    <2>2. Parts(<< <<>> >>, ch)
        BY <2>1, NothingInEmpty, PartsAppend
    <2>3. QED
        BY <2>2, SplitEmpty, NothingInEmpty, JoinOne
<1>2. ASSUME NEW t \in Text, NEW x \in Characters, t \in S PROVE Append(t, x) \in S
    <2>1. Append(t, x) \in Text
        BY AppendProperties DEF Text
    <2>2. Parts(Split(t, ch), ch) /\ Join(Split(t, ch), ch) = t
        BY <1>2
    <2>3. Split(t, ch) \in Seq(Text) /\ Split(t, ch) # <<>>
        BY <2>2 DEF Parts
    <2>4. CASE x = ch
        <3>1. Split(Append(t, x), ch) = Append(Split(t, ch), <<>>)
            BY <2>4, SplitAppend DEF Text
        <3>2. Parts(Append(Split(t, ch), <<>>), ch)
            BY <2>2, <2>3, NothingInEmpty, PartsAppend
        <3>3. Join(Append(Split(t, ch), <<>>), ch) = t \o <<ch>> \o <<>>
            BY <2>2, <2>3, NothingInEmpty, JoinAppend
        <3>4. t \o <<ch>> \o <<>> = Append(t, x)
            <4>1. t \o <<ch>> = Append(t, x) /\ t \o <<ch>> \in Seq(Characters)
                BY <2>1, <2>4, AppendIsConcat DEF Text
            <4>2. QED
                BY <4>1, ConcatEmptySeq
        <3>5. QED
            BY <2>1, <3>1, <3>2, <3>3, <3>4
    <2>5. CASE x # ch
        <3>1. PICK front \in Seq(Text), last \in Text : Split(t, ch) = Append(front, last)
            BY <2>3, SequenceEmptyOrAppend
        <3>2. Split(Append(t, x), ch) = Append(front, Append(last, x))
            BY <2>5, <3>1, SplitExtends
        <3>3. Append(last, x) \in Text
            BY AppendProperties DEF Text
        <3>4. Parts(Append(front, Append(last, x)), ch)
            <4>1. (front = <<>> \/ Parts(front, ch)) /\ ~Contains(last, ch)
                BY <2>2, <3>1, PartsAppend
            <4>2. ~Contains(Append(last, x), ch)
                BY <2>5, <4>1, ContainsAppend DEF Text
            <4>3. QED
                BY <3>3, <4>1, <4>2, PartsAppend
        <3>5. Join(Append(front, Append(last, x)), ch) = Append(t, x)
            <4>1. CASE front = <<>>
                <5>1. Append(front, last) = <<last>> /\ Append(front, Append(last, x)) = <<Append(last, x)>>
                    BY <4>1
                <5>2. t = last
                    BY <2>2, <3>1, <5>1, JoinOne
                <5>3. QED
                    BY <3>3, <5>1, <5>2, JoinOne
            <4>2. CASE front # <<>>
                <5> DEFINE first == Join(front, ch) \o <<ch>>
                <5>1. t = first \o last /\ Join(Append(front, Append(last, x)), ch) = first \o Append(last, x)
                    BY <2>2, <3>1, <3>3, <4>2, JoinAppend
                <5>2. QED
                    BY <5>1
            <4>3. QED
                BY <4>1, <4>2
        <3>6. QED
            BY <2>1, <3>2, <3>4, <3>5
    <2>6. QED
        BY <2>4, <2>5
<1> HIDE DEF S
<1>3. Text \subseteq S
    BY <1>1, <1>2, SeqInductionOnSets DEF Text
<1>4. QED
    BY <1>3 DEF S

LEMMA SplitOfWhole ==
    ASSUME NEW text \in Text, NEW ch, ~Contains(text, ch)
    PROVE  Split(text, ch) = <<text>>
<1> DEFINE S == {t \in Text : ~Contains(t, ch) => Split(t, ch) = <<t>>}
<1>1. <<>> \in S
    BY SplitEmpty, NothingInEmpty
<1>2. ASSUME NEW t \in Text, NEW x \in Characters, t \in S PROVE Append(t, x) \in S
    <2>1. Append(t, x) \in Text
        BY AppendProperties DEF Text
    <2>2. SUFFICES ASSUME ~Contains(Append(t, x), ch)
                   PROVE  Split(Append(t, x), ch) = <<Append(t, x)>>
        BY <2>1
    <2>3. ~Contains(t, ch) /\ x # ch
        BY <2>2, ContainsAppend DEF Text
    <2> DEFINE front == <<>>
    <2>4. front \in Seq(Text) /\ Split(t, ch) = Append(front, t)
        BY <1>2, <2>3, EmptySeq
    <2> HIDE DEF front
    <2>5. Split(Append(t, x), ch) = Append(front, Append(t, x))
        BY <2>3, <2>4, SplitExtends
    <2>6. QED
        BY <2>5 DEF front
<1> HIDE DEF S
<1>3. Text \subseteq S
    BY <1>1, <1>2, SeqInductionOnSets DEF Text
<1>4. QED
    BY <1>3 DEF S

LEMMA SplitAfterLast ==
    ASSUME NEW text \in Text, NEW ch \in Characters, NEW last \in Text, ~Contains(last, ch)
    PROVE  Split(text \o <<ch>> \o last, ch) = Append(Split(text, ch), last)
<1> DEFINE first == text \o <<ch>>
<1> DEFINE S == {t \in Text : ~Contains(t, ch) => Split(first \o t, ch) = Append(Split(text, ch), t)}
<1>1. first = Append(text, ch) /\ first \in Text
    BY AppendIsConcat, AppendProperties DEF Text
<1>2. Split(text, ch) \in Seq(Text)
    BY SplitMakesParts DEF Parts
<1>3. <<>> \in S
    <2>1. Split(Append(text, ch), ch) = Append(Split(text, ch), <<>>)
        BY SplitAppend DEF Text
    <2>2. first \o <<>> = first
        BY <1>1, ConcatEmptySeq DEF Text
    <2> HIDE DEF first
    <2>3. QED
        BY <1>1, <2>1, <2>2, NothingInEmpty
<1>4. ASSUME NEW t \in Text, NEW x \in Characters, t \in S PROVE Append(t, x) \in S
    <2>1. Append(t, x) \in Text
        BY AppendProperties DEF Text
    <2>2. SUFFICES ASSUME ~Contains(Append(t, x), ch)
                   PROVE  Split(first \o Append(t, x), ch) = Append(Split(text, ch), Append(t, x))
        BY <2>1
    <2>3. ~Contains(t, ch) /\ x # ch
        BY <2>2, ContainsAppend DEF Text
    <2>4. Split(first \o t, ch) = Append(Split(text, ch), t)
        BY <1>4, <2>3
    <2>5. first \o t \in Text /\ first \o Append(t, x) = Append(first \o t, x)
        BY <1>1 DEF Text
    <2> HIDE DEF first
    <2>6. Split(Append(first \o t, x), ch) = Append(Split(text, ch), Append(t, x))
        BY <1>2, <2>3, <2>4, <2>5, SplitExtends
    <2>7. QED
        BY <2>5, <2>6
<1> HIDE DEF S
<1>5. Text \subseteq S
    BY <1>3, <1>4, SeqInductionOnSets DEF Text
<1>6. QED
    BY <1>5 DEF S

LEMMA SplitOfJoin ==
    ASSUME NEW ch \in Characters, NEW parts, Parts(parts, ch)
    PROVE  Join(parts, ch) \in Text /\ Split(Join(parts, ch), ch) = parts
<1> DEFINE S == {p \in Seq(Text) : Parts(p, ch) =>
                    Join(p, ch) \in Text /\ Split(Join(p, ch), ch) = p}
<1>1. <<>> \in S
    BY EmptySeq DEF Parts
<1>2. ASSUME NEW p \in Seq(Text), NEW text \in Text, p \in S PROVE Append(p, text) \in S
    <2>1. Append(p, text) \in Seq(Text)
        BY AppendProperties
    <2>2. SUFFICES ASSUME Parts(Append(p, text), ch)
                   PROVE  /\ Join(Append(p, text), ch) \in Text
                          /\ Split(Join(Append(p, text), ch), ch) = Append(p, text)
        BY <2>1
    <2>3. (p = <<>> \/ Parts(p, ch)) /\ ~Contains(text, ch)
        BY <2>2, PartsAppend
    <2>4. CASE p = <<>>
        <3>1. Append(p, text) = <<text>>
            BY <2>4
        <3>2. QED
            BY <2>3, <3>1, JoinOne, SplitOfWhole
    <2>5. CASE p # <<>>
        <3>1. Join(p, ch) \in Text /\ Split(Join(p, ch), ch) = p
            BY <1>2, <2>3, <2>5
        <3>2. Join(Append(p, text), ch) = Join(p, ch) \o <<ch>> \o text
            BY <2>5, JoinAppend
        <3>3. Join(p, ch) \o <<ch>> \o text \in Text
            BY <3>1 DEF Text
        <3>4. QED
            BY <2>3, <3>1, <3>2, <3>3, SplitAfterLast
    <2>6. QED
        BY <2>4, <2>5
<1> HIDE DEF S
<1>3. Seq(Text) \subseteq S
    BY <1>1, <1>2, SeqInductionOnSets
<1>4. QED
    BY <1>3 DEF S, Parts

(* What is in none of the texts is not in what they are joined to.         *)
LEMMA JoinAddsOnlyCh ==
    ASSUME NEW ch \in Characters, NEW x, x # ch, NEW parts, Parts(parts, x)
    PROVE  Join(parts, ch) \in Text /\ ~Contains(Join(parts, ch), x)
<1> DEFINE S == {p \in Seq(Text) : Parts(p, x) =>
                    Join(p, ch) \in Text /\ ~Contains(Join(p, ch), x)}
<1>1. <<>> \in S
    BY EmptySeq DEF Parts
<1>2. ASSUME NEW p \in Seq(Text), NEW text \in Text, p \in S PROVE Append(p, text) \in S
    <2>1. Append(p, text) \in Seq(Text)
        BY AppendProperties
    <2>2. SUFFICES ASSUME Parts(Append(p, text), x)
                   PROVE  /\ Join(Append(p, text), ch) \in Text
                          /\ ~Contains(Join(Append(p, text), ch), x)
        BY <2>1
    <2>3. (p = <<>> \/ Parts(p, x)) /\ ~Contains(text, x)
        BY <2>2, PartsAppend
    <2>4. CASE p = <<>>
        <3>1. Append(p, text) = <<text>>
            BY <2>4
        <3>2. QED
            BY <2>3, <3>1, JoinOne
    <2>5. CASE p # <<>>
        <3> DEFINE first == Join(p, ch)
        <3>1. first \in Text /\ ~Contains(first, x)
            BY <1>2, <2>3, <2>5
        <3>2. Join(Append(p, text), ch) = first \o <<ch>> \o text
            BY <2>5, JoinAppend
        <3> HIDE DEF first
        <3>3. first \o <<ch>> = Append(first, ch) /\ Append(first, ch) \in Text
            BY <3>1, AppendIsConcat, AppendProperties DEF Text
        <3>4. ~Contains(Append(first, ch), x)
            BY <3>1, ContainsAppend DEF Text
        <3>5. Append(first, ch) \o text \in Text /\ ~Contains(Append(first, ch) \o text, x)
            BY <2>3, <3>3, <3>4, ConcatProperties, ContainsConcat DEF Text
        <3>6. QED
            BY <3>2, <3>3, <3>5
    <2>6. QED
        BY <2>4, <2>5
<1> HIDE DEF S
<1>3. Seq(Text) \subseteq S
    BY <1>1, <1>2, SeqInductionOnSets
<1>4. QED
    BY <1>3 DEF S, Parts

-----------------------------------------------------------------------------
(* Targets.                                                                *)

Items(query) == [i \in DOMAIN query |-> Join(query[i], "=")]

Encoded(query) == Join(Items(query), "&")

(* The items of a query can be told from one another, and so can the words *)
(* of an item.                                                             *)
LEMMA ItemsOfQuery ==
    ASSUME NEW in, Input(in), in.query # None
    PROVE  LET query == in.query IN
           /\ Len(query) \in Nat /\ DOMAIN query = 1..Len(query) /\ query \in Seq(Seq(Text))
           /\ Items(query) \in Seq(Text) /\ Len(Items(query)) = Len(query)
           /\ Parts(Items(query), "&")
           /\ \A i \in 1..Len(query) : Split(Items(query)[i], "=") = query[i]
<1> DEFINE query == in.query
<1> DEFINE items == Items(query)
<1>1. query \in Seq(Seq(Text)) /\ query # <<>>
    BY DEF Input
<1>2. Len(query) \in Nat /\ DOMAIN query = 1..Len(query)
    BY <1>1, LenProperties
<1>3. {"&", "="} \subseteq Characters /\ "&" # "="
    BY CharacterAssumption
<1>4. ASSUME NEW i \in 1..Len(query)
      PROVE  /\ items[i] \in Text /\ ~Contains(items[i], "&")
             /\ Split(items[i], "=") = query[i]
    <2>1. items[i] = Join(query[i], "=")
        BY <1>2 DEF Items
    <2>2. query[i] \in Seq(Text)
        BY <1>1, <1>2, ElementOfSeq
    <2>3. /\ query[i] # <<>>
          /\ \A w \in DOMAIN query[i] : ~Contains(query[i][w], "&") /\ ~Contains(query[i][w], "=")
        BY <1>2 DEF Input
    <2>4. DOMAIN query[i] = 1..Len(query[i])
        BY <2>2, LenProperties
    <2>5. Parts(query[i], "&") /\ Parts(query[i], "=")
        BY <2>2, <2>3, <2>4 DEF Parts
    <2> HIDE DEF items, query
    <2>6. QED
        BY <1>3, <2>1, <2>5, JoinAddsOnlyCh, SplitOfJoin
<1>5. DOMAIN items = 1..Len(query)
    BY <1>2 DEF Items
<1>6. items \in Seq(Text) /\ Len(items) = Len(query)
    <2>1. items = [i \in 1..Len(query) |-> Join(query[i], "=")]
        BY <1>2 DEF Items
    <2>2. items \in [1..Len(query) -> Text]
        BY <1>4, <2>1
    <2> HIDE DEF items, query
    <2>3. QED
        BY <1>2, <2>2
<1>7. Parts(items, "&")
    <2>1. items # <<>>
        BY <1>1, <1>2, <1>6, EmptySeq
    <2>2. QED
        BY <1>4, <1>6, <2>1 DEF Parts
<1>8. QED
    BY <1>1, <1>2, <1>4, <1>6, <1>7

LEMMA EncodedQuery ==
    ASSUME NEW in, Input(in), in.query # None
    PROVE  /\ Encoded(in.query) \in Text
           /\ Split(Encoded(in.query), "&") = Items(in.query)
<1>1. Parts(Items(in.query), "&") /\ "&" \in Characters
    BY ItemsOfQuery, CharacterAssumption
<1>2. QED
    BY <1>1, SplitOfJoin DEF Encoded

(* A clear query has no "?" and no "#".                                    *)
LEMMA ClearQuery ==
    ASSUME NEW in, Input(in), Clear(in), in.query # None, NEW ch \in {"?", "#"}
    PROVE  ~Contains(Encoded(in.query), ch)
<1> DEFINE query == in.query
<1>1. /\ Len(query) \in Nat /\ DOMAIN query = 1..Len(query) /\ query \in Seq(Seq(Text))
      /\ Items(query) \in Seq(Text) /\ Len(Items(query)) = Len(query)
      /\ Parts(Items(query), "&")
    BY ItemsOfQuery
<1>2. {"&", "="} \subseteq Characters /\ ch # "&" /\ ch # "="
    BY CharacterAssumption
<1>3. ASSUME NEW i \in 1..Len(query) PROVE ~Contains(Items(query)[i], ch)
    <2>1. Items(query)[i] = Join(query[i], "=")
        BY <1>1 DEF Items
    <2>2. query[i] \in Seq(Text) /\ query[i] # <<>>
        BY <1>1, ElementOfSeq DEF Input
    <2>3. DOMAIN query[i] = 1..Len(query[i])
        BY <2>2, LenProperties
    <2>4. \A w \in DOMAIN query[i] : ~Contains(query[i][w], ch)
        BY <1>1 DEF Clear
    <2>5. Parts(query[i], ch)
        BY <2>2, <2>3, <2>4 DEF Parts
    <2> HIDE DEF query
    <2>6. QED
        BY <1>2, <2>1, <2>5, JoinAddsOnlyCh
<1>4. Parts(Items(query), ch)
    BY <1>1, <1>3 DEF Parts
<1> HIDE DEF query
<1>5. ~Contains(Join(Items(query), "&"), ch)
    BY <1>2, <1>4, JoinAddsOnlyCh
<1>6. QED
    BY <1>5 DEF Encoded, query

LEMMA AppendToOne ==
    ASSUME NEW E, NEW a \in E, NEW b \in E
    PROVE  Append(<<a>>, b) = <<a, b>>
<1> DEFINE one == <<a>>
<1> DEFINE two == <<a, b>>
<1>1. one \in Seq(E) /\ Len(one) = 1 /\ one[1] = a
    OBVIOUS
<1>2. two \in Seq(E) /\ Len(two) = 2 /\ two[1] = a /\ two[2] = b
    OBVIOUS
<1> HIDE DEF one, two
<1>3. Append(one, b) \in Seq(E) /\ Len(Append(one, b)) = Len(one) + 1
    BY <1>1, AppendProperties
<1>4. \A i \in 1..Len(one) : Append(one, b)[i] = one[i]
    BY <1>1, AppendProperties
<1>5. Append(one, b)[Len(one) + 1] = b
    BY <1>1, AppendProperties
<1> DEFINE longer == Append(one, b)
<1>6. longer[1] = a /\ longer[2] = b /\ Len(longer) = 2 /\ longer \in Seq(E)
    BY <1>1, <1>3, <1>4, <1>5
<1> HIDE DEF longer
<1>7. longer = two
    BY <1>2, <1>6, SeqEqual
<1>8. QED
    BY <1>7 DEF longer, one, two

LEMMA SplitInTwo ==
    ASSUME NEW a \in Text, NEW b \in Text, NEW ch \in Characters,
           ~Contains(a, ch), ~Contains(b, ch)
    PROVE  Split(a \o (<<ch>> \o b), ch) = <<a, b>>
<1>0. a \o (<<ch>> \o b) = a \o <<ch>> \o b
    <2>1. <<ch>> \in Seq(Characters)
        OBVIOUS
    <2>2. QED
        BY <2>1, ConcatAssociative DEF Text
<1>1. Split(a \o <<ch>> \o b, ch) = Append(Split(a, ch), b)
    BY SplitAfterLast
<1>2. Split(a, ch) = <<a>>
    BY SplitOfWhole
<1>3. Append(<<a>>, b) = <<a, b>>
    BY AppendToOne
<1>4. Split(a \o <<ch>> \o b, ch) = <<a, b>>
    BY <1>1, <1>2, <1>3
<1>5. QED
    BY ONLY <1>0, <1>4

(* The part of a target before its fragment.                               *)
BeforeFragment(in) ==
    IF in.query = None THEN in.path ELSE in.path \o (<<"?">> \o Encoded(in.query))

LEMMA TargetIs ==
    ASSUME NEW in, Input(in)
    PROVE  /\ in.path \in Text
           /\ in.fragment = None \/ in.fragment \in Text
           /\ BeforeFragment(in) \in Text
           /\ Target(in) = BeforeFragment(in)
                              \o (IF in.fragment = None THEN <<>> ELSE <<"#">> \o in.fragment)
           /\ Target(in) \in Text
<1>1. in.path \in Text /\ (in.fragment = None \/ in.fragment \in Text)
    BY DEF Input
<1>2. <<"?">> \in Text /\ <<"#">> \in Text /\ <<>> \in Text
    BY CharacterAssumption DEF Text
<1>3. in.query # None => Encoded(in.query) \in Text
    BY EncodedQuery
<1>4. BeforeFragment(in) \in Text
    BY <1>1, <1>2, <1>3 DEF BeforeFragment, Text
<1>5. Target(in) = BeforeFragment(in)
                     \o (IF in.fragment = None THEN <<>> ELSE <<"#">> \o in.fragment)
    <2>1. CASE in.query = None
        <3>1. in.path \o <<>> = in.path
            BY <1>1, ConcatEmptySeq DEF Text
        <3>2. QED
            BY <2>1, <3>1 DEF Target, BeforeFragment
    <2>2. CASE in.query # None
        BY <2>2 DEF Target, BeforeFragment, Encoded, Items
    <2>3. QED
        BY <2>1, <2>2
<1>6. Target(in) \in Text
    BY <1>1, <1>2, <1>4, <1>5 DEF Text
<1>7. QED
    BY <1>1, <1>4, <1>5, <1>6

(* What parse_request_target finds in a clear target.                      *)
LEMMA ParseOfClear ==
    ASSUME NEW in, Input(in), Clear(in)
    PROVE  ParseRequestTarget(Target(in)) =
              HttpRequest(in.path, Split(in.path, "/"),
                          IF in.query = None THEN << >> ELSE ParseQueryParameters(Encoded(in.query)),
                          IF in.fragment = None THEN <<>> ELSE in.fragment)
<1> DEFINE target == Target(in)
<1> DEFINE front == BeforeFragment(in)
<1> DEFINE atFragment == Split(target, "#")
<1> DEFINE beforeFragment == IF Len(atFragment) = 2 THEN atFragment[1] ELSE target
<1> DEFINE atQuery == Split(front, "?")
<1>1. /\ in.path \in Text /\ front \in Text /\ target \in Text
      /\ in.fragment = None \/ in.fragment \in Text
      /\ target = front \o (IF in.fragment = None THEN <<>> ELSE <<"#">> \o in.fragment)
    BY TargetIs
<1>2. "#" \in Characters /\ "?" \in Characters /\ <<"?">> \in Text /\ <<"#">> \in Text
    BY CharacterAssumption DEF Text
<1>3. ~Contains(in.path, "#") /\ ~Contains(in.path, "?")
    BY DEF Input
<1>4. in.query # None => /\ Encoded(in.query) \in Text
                         /\ ~Contains(Encoded(in.query), "?") /\ ~Contains(Encoded(in.query), "#")
    BY EncodedQuery, ClearQuery
<1>5. ~Contains(front, "#")
    <2>1. CASE in.query = None
        BY <1>3, <2>1 DEF BeforeFragment
    <2>2. CASE in.query # None
        <3>1. ~Contains(<<"?">>, "#")
            BY DEF Contains
        <3>2. <<"?">> \o Encoded(in.query) \in Text /\ ~Contains(<<"?">> \o Encoded(in.query), "#")
            BY <1>2, <1>4, <2>2, <3>1, ConcatProperties, ContainsConcat DEF Text
        <3> DEFINE rest == <<"?">> \o Encoded(in.query)
        <3>3. front = in.path \o rest
            BY <2>2 DEF BeforeFragment
        <3> HIDE DEF rest, front
        <3>4. in.path \in Seq(Characters) /\ rest \in Seq(Characters) /\ ~Contains(rest, "#")
            BY <1>1, <3>2 DEF Text, rest
        <3>5. ~Contains(in.path \o rest, "#")
            BY <1>3, <3>4, ContainsConcat
        <3>6. QED
            BY <3>3, <3>5
    <2>3. QED
        BY <2>1, <2>2
<1>6. /\ beforeFragment = front
      /\ (IF Len(atFragment) = 2 THEN atFragment[2] ELSE <<>>)
            = IF in.fragment = None THEN <<>> ELSE in.fragment
    <2>1. CASE in.fragment = None
        <3>1. target = front
            BY <1>1, <2>1, ConcatEmptySeq DEF Text
        <3>2. atFragment = <<front>>
            BY <1>1, <1>5, <3>1, SplitOfWhole
        <3>3. Len(atFragment) # 2
            BY <3>2
        <3>4. QED
            BY <2>1, <3>1, <3>3
    <2>2. CASE in.fragment # None
        <3>1. target = front \o (<<"#">> \o in.fragment)
            BY <1>1, <2>2
        <3>2. ~Contains(in.fragment, "#")
            BY <2>2 DEF Clear
        <3> HIDE DEF front
        <3>3. Split(front \o (<<"#">> \o in.fragment), "#") = <<front, in.fragment>>
            BY <1>1, <1>2, <1>5, <2>2, <3>2, SplitInTwo
        <3>4. atFragment = <<front, in.fragment>>
            BY <3>1, <3>3
        <3> HIDE DEF atFragment
        <3>5. QED
            BY <2>2, <3>4
    <2>3. QED
        BY <2>1, <2>2
<1>7. /\ (IF Len(atQuery) = 2 THEN atQuery[1] ELSE front) = in.path
      /\ (IF Len(atQuery) = 2 THEN ParseQueryParameters(atQuery[2]) ELSE << >>)
            = IF in.query = None THEN << >> ELSE ParseQueryParameters(Encoded(in.query))
    <2>1. CASE in.query = None
        <3>1. front = in.path
            BY <2>1 DEF BeforeFragment
        <3>2. atQuery = <<front>>
            BY <1>1, <1>3, <3>1, SplitOfWhole
        <3>3. Len(atQuery) # 2
            BY <3>2
        <3>4. QED
            BY <2>1, <3>1, <3>3
    <2>2. CASE in.query # None
        <3>1. front = in.path \o (<<"?">> \o Encoded(in.query))
            BY <2>2 DEF BeforeFragment
        <3>2. Split(in.path \o (<<"?">> \o Encoded(in.query)), "?") = <<in.path, Encoded(in.query)>>
            BY <1>1, <1>2, <1>3, <1>4, <2>2, SplitInTwo
        <3>3. atQuery = <<in.path, Encoded(in.query)>>
            BY <3>1, <3>2
        <3> HIDE DEF atQuery
        <3>4. QED
            BY <2>2, <3>3
    <2>3. QED
        BY <2>1, <2>2
<1>8. ParseRequestTarget(target) =
         LET path == IF Len(Split(beforeFragment, "?")) = 2 THEN Split(beforeFragment, "?")[1]
                     ELSE beforeFragment
         IN  HttpRequest(path, Split(path, "/"),
                 IF Len(Split(beforeFragment, "?")) = 2
                 THEN ParseQueryParameters(Split(beforeFragment, "?")[2]) ELSE << >>,
                 IF Len(atFragment) = 2 THEN atFragment[2] ELSE <<>>)
    BY DEF ParseRequestTarget
<1> HIDE DEF target, front, atFragment, beforeFragment
<1>9. QED
    BY <1>6, <1>7, <1>8 DEF target, atQuery

(* A text that begins with a path, and goes on with a "?" or a "#".        *)
Headed(text, path) ==
    /\ text \in Text /\ Len(path) <= Len(text)
    /\ \A i \in 1..Len(path) : text[i] = path[i]
    /\ Len(path) < Len(text) => text[Len(path) + 1] \in {"?", "#"}

LEMMA TwoParts ==
    ASSUME NEW text \in Text, NEW ch \in Characters, Len(Split(text, ch)) = 2
    PROVE  \E u \in Text, v \in Text :
              Split(text, ch)[1] = u /\ Split(text, ch)[2] = v /\ text = Append(u, ch) \o v
<1> DEFINE parts == Split(text, ch)
<1>1. Parts(parts, ch) /\ Join(parts, ch) = text
    BY SplitMakesParts
<1>2. parts \in Seq(Text) /\ parts # <<>> /\ Len(parts) = 2
    BY <1>1 DEF Parts
<1> HIDE DEF parts
<1>3. PICK front \in Seq(Text), v \in Text : parts = Append(front, v)
    BY <1>2, SequenceEmptyOrAppend
<1>4. Len(parts) = Len(front) + 1 /\ parts[Len(front) + 1] = v
    BY <1>3, AppendProperties
<1>5. \A i \in 1..Len(front) : parts[i] = front[i]
    BY <1>3, AppendProperties
<1>14. Len(front) \in Nat
    BY LenProperties
<1>6. Len(front) = 1
    <2>1. Len(parts) = 2
        BY ONLY <1>2
    <2>2. Len(parts) = Len(front) + 1
        BY ONLY <1>4
    <2> DEFINE n == Len(front)
    <2>3. n \in Nat /\ n + 1 = 2
        BY ONLY <1>14, <2>1, <2>2
    <2> HIDE DEF n
    <2>4. n = 1
        BY ONLY <2>3
    <2>5. QED
        BY ONLY <2>4 DEF n
<1> DEFINE u == front[1]
<1>7. u \in Text /\ parts[1] = u /\ parts[2] = v
    BY <1>4, <1>5, <1>6, ElementOfSeq
<1>15. front # <<>>
    BY <1>6, EmptySeq
<1>8. front = <<u>>
    <2> DEFINE one == <<u>>
    <2>1. one \in Seq(Text) /\ Len(one) = 1 /\ one[1] = u
        BY <1>7
    <2> HIDE DEF one
    <2>2. \A i \in 1..Len(front) : front[i] = one[i]
        BY <1>6, <2>1
    <2>3. front = one
        BY <1>6, <2>1, <2>2, SeqEqual
    <2>4. QED
        BY <2>3 DEF one
<1>9. Join(front, ch) = u
    <2> HIDE DEF u
    <2>1. QED
        BY <1>7, <1>8, JoinOne
<1>10. text = u \o <<ch>> \o v
    <2> HIDE DEF u
    <2>1. Join(Append(front, v), ch) = Join(front, ch) \o <<ch>> \o v
        BY <1>15, JoinAppend
    <2>2. QED
        BY <1>1, <1>3, <1>9, <2>1
<1>11. u \o <<ch>> = Append(u, ch)
    BY <1>7, AppendIsConcat DEF Text
<1> HIDE DEF u
<1>12. text = Append(u, ch) \o v
    BY <1>10, <1>11
<1>13. QED
    BY <1>7, <1>12 DEF parts

LEMMA FirstPartIsHeaded ==
    ASSUME NEW text \in Text, NEW path \in Text, NEW ch \in Characters,
           ~Contains(path, ch), Headed(text, path), Len(Split(text, ch)) = 2
    PROVE  Headed(Split(text, ch)[1], path)
<1>1. PICK u \in Text, v \in Text : Split(text, ch)[1] = u /\ text = Append(u, ch) \o v
    BY TwoParts
<1>2. /\ u \in Seq(Characters) /\ v \in Seq(Characters) /\ path \in Seq(Characters)
      /\ Len(u) \in Nat /\ Len(v) \in Nat /\ Len(path) \in Nat
    BY LenProperties DEF Text
<1> DEFINE first == Append(u, ch)
<1>3. first \in Seq(Characters) /\ Len(first) = Len(u) + 1 /\ first[Len(u) + 1] = ch
    BY <1>2, AppendProperties
<1>4. \A i \in 1..Len(u) : first[i] = u[i]
    BY <1>2, AppendProperties
<1>11. text = first \o v
    BY <1>1
<1> HIDE DEF first
<1>5. /\ Len(text) = Len(u) + 1 + Len(v)
      /\ \A i \in 1..(Len(u) + 1) : text[i] = first[i]
    <2>1. /\ Len(first \o v) = Len(first) + Len(v)
          /\ \A i \in 1..(Len(first) + Len(v)) :
                (first \o v)[i] = IF i <= Len(first) THEN first[i] ELSE v[i - Len(first)]
        BY <1>2, <1>3, ConcatProperties
    <2>2. QED
        BY <1>2, <1>3, <1>11, <2>1
<1>6. text[Len(u) + 1] = ch /\ \A i \in 1..Len(u) : text[i] = u[i]
    BY <1>2, <1>3, <1>4, <1>5
<1>7. Len(path) <= Len(u)
    <2>1. SUFFICES ASSUME Len(u) < Len(path) PROVE FALSE
        BY <1>2
    <2>2. Len(u) + 1 \in 1..Len(path)
        BY <1>2, <2>1
    <2>3. path[Len(u) + 1] = ch
        BY <1>6, <2>2 DEF Headed
    <2>4. QED
        BY <2>2, <2>3 DEF Contains
<1>8. \A i \in 1..Len(path) : u[i] = path[i]
    BY <1>2, <1>6, <1>7 DEF Headed
<1>9. Len(path) < Len(u) => u[Len(path) + 1] \in {"?", "#"}
    <2>1. SUFFICES ASSUME Len(path) < Len(u) PROVE u[Len(path) + 1] \in {"?", "#"}
        OBVIOUS
    <2>2. Len(path) + 1 \in 1..Len(u) /\ Len(path) < Len(text)
        BY <1>2, <1>5, <2>1
    <2>3. u[Len(path) + 1] = text[Len(path) + 1]
        BY <1>6, <2>2
    <2>4. QED
        BY <2>2, <2>3 DEF Headed
<1>10. QED
    BY <1>1, <1>7, <1>8, <1>9 DEF Headed

(* The path that parse_request_target finds in any target is the one that  *)
(* was asked for, or has a "?" or a "#".                                   *)
LEMMA PathOfTarget ==
    ASSUME NEW in, Input(in)
    PROVE  LET path == ParseRequestTarget(Target(in)).resource_path IN
           path \in Text /\ (path = in.path \/ Contains(path, "?") \/ Contains(path, "#"))
<1> DEFINE target == Target(in)
<1> DEFINE before == IF Len(Split(target, "#")) = 2 THEN Split(target, "#")[1] ELSE target
<1> DEFINE path == IF Len(Split(before, "?")) = 2 THEN Split(before, "?")[1] ELSE before
<1>1. ParseRequestTarget(Target(in)).resource_path = path
    BY DEF ParseRequestTarget, HttpRequest
<1>2. /\ in.path \in Text /\ BeforeFragment(in) \in Text /\ target \in Text
      /\ in.fragment = None \/ in.fragment \in Text
      /\ target = BeforeFragment(in)
                     \o (IF in.fragment = None THEN <<>> ELSE <<"#">> \o in.fragment)
    BY TargetIs
<1>3. "#" \in Characters /\ "?" \in Characters /\ <<"?">> \in Text /\ <<"#">> \in Text
    BY CharacterAssumption DEF Text
<1>4. ~Contains(in.path, "#") /\ ~Contains(in.path, "?")
    BY DEF Input
<1>5. ASSUME NEW text \in Text, NEW ch \in {"?", "#"}, NEW rest \in Text
      PROVE  text \o (<<ch>> \o rest) \in Text /\ Headed(text \o (<<ch>> \o rest), text)
    <2> DEFINE tail == <<ch>> \o rest
    <2>1. tail \in Text /\ Len(tail) = 1 + Len(rest) /\ tail[1] = ch
        BY <1>3, ConcatProperties, LenProperties DEF Text
    <2>2. Len(text) \in Nat /\ Len(rest) \in Nat
        BY LenProperties DEF Text
    <2> HIDE DEF tail
    <2>6. text \in Seq(Characters) /\ tail \in Seq(Characters)
        BY <2>1 DEF Text
    <2>3. /\ text \o tail \in Text /\ Len(text \o tail) = Len(text) + Len(tail)
          /\ \A i \in 1..(Len(text) + Len(tail)) :
                (text \o tail)[i] = IF i <= Len(text) THEN text[i] ELSE tail[i - Len(text)]
        <3>1. text \o tail \in Seq(Characters)
            BY <2>6, ConcatProperties
        <3>2. QED
            BY <2>6, <3>1, ConcatProperties DEF Text
    <2>4. (text \o tail)[Len(text) + 1] = ch
        BY <2>1, <2>2, <2>3
    <2>5. QED
        BY <2>1, <2>2, <2>3, <2>4 DEF Headed, tail
<1>6. ASSUME NEW text \in Text PROVE Headed(text, text)
    BY LenProperties DEF Text, Headed
<1>7. Headed(BeforeFragment(in), in.path)
    BY <1>2, <1>5, <1>6, EncodedQuery DEF BeforeFragment
<1>8. Headed(target, in.path)
    <2>1. CASE in.fragment = None
        <3>1. target = BeforeFragment(in)
            BY <1>2, <2>1, ConcatEmptySeq DEF Text
        <3>2. QED
            BY <1>7, <3>1
    <2>2. CASE in.fragment # None
        <3> DEFINE front == BeforeFragment(in)
        <3>1. target = front \o (<<"#">> \o in.fragment)
            BY <1>2, <2>2
        <3>2. Headed(target, front)
            BY <1>2, <1>5, <2>2, <3>1
        <3> HIDE DEF target, front
        <3>3. Len(front) \in Nat /\ Len(in.path) \in Nat /\ Len(target) \in Nat
            BY <1>2, LenProperties DEF Text, front
        <3>4. Headed(front, in.path)
            BY <1>7 DEF front
        <3>5. QED
            BY <3>2, <3>3, <3>4 DEF Headed
    <2>3. QED
        BY <2>1, <2>2
<1>9. before \in Text /\ Headed(before, in.path)
    <2> HIDE DEF target
    <2>1. Len(Split(target, "#")) = 2 => Headed(Split(target, "#")[1], in.path)
        BY <1>2, <1>3, <1>4, <1>8, FirstPartIsHeaded
    <2>2. Headed(before, in.path)
        BY <1>8, <2>1
    <2>3. QED
        BY <2>2 DEF Headed
<1>10. Headed(path, in.path)
    <2> HIDE DEF before
    <2>1. Len(Split(before, "?")) = 2 => Headed(Split(before, "?")[1], in.path)
        BY <1>2, <1>3, <1>4, <1>9, FirstPartIsHeaded
    <2>2. QED
        BY <1>9, <2>1
<1> HIDE DEF path
<1>11. Len(path) \in Nat /\ Len(in.path) \in Nat /\ path \in Text
    BY <1>2, <1>10, LenProperties DEF Headed, Text
<1>12. CASE Len(in.path) = Len(path)
    <2>1. \A i \in 1..Len(path) : path[i] = in.path[i]
        BY <1>10, <1>12 DEF Headed
    <2>2. path = in.path
        BY <1>2, <1>11, <1>12, <2>1, SeqEqual DEF Text
    <2>3. QED
        BY <1>1, <1>11, <2>2
<1>13. CASE Len(in.path) # Len(path)
    <2>1. Len(in.path) + 1 \in 1..Len(path) /\ path[Len(in.path) + 1] \in {"?", "#"}
        BY <1>10, <1>11, <1>13 DEF Headed
    <2>2. QED
        BY <1>1, <1>11, <2>1 DEF Contains
<1>14. QED
    BY <1>12, <1>13

-----------------------------------------------------------------------------
(* Keys of the table.                                                      *)

LEMMA FrontAndLast ==
    ASSUME NEW E, NEW seq \in Seq(E), seq # <<>>
    PROVE  Front(seq) \in Seq(E) /\ Last(seq) \in E /\ seq = Append(Front(seq), Last(seq))
<1> DEFINE n == Len(seq)
<1>1. n \in Nat /\ n # 0 /\ n \in 1..n /\ 1 \in 1..n
    BY EmptySeq, LenProperties
<1>2. \A i \in 1..(n - 1) : seq[i] \in E
    BY <1>1, ElementOfSeq
<1>3. SubSeq(seq, 1, n - 1) \in Seq(E)
    BY <1>1, <1>2, SubSeqProperties
<1>4. seq[n] \in E
    BY <1>1, ElementOfSeq
<1>5. SubSeq(seq, 1, n) = SubSeq(seq, 1, n - 1) \o <<seq[n]>>
    BY <1>1, SubSeqRecursiveSecond
<1>6. SubSeq(seq, 1, n) = seq
    BY SubSeqFull
<1>7. Append(SubSeq(seq, 1, n - 1), seq[n]) = SubSeq(seq, 1, n - 1) \o <<seq[n]>>
    BY <1>3, <1>4, AppendIsConcat
<1>8. QED
    BY <1>3, <1>4, <1>5, <1>6, <1>7 DEF Front, Last

LEMMA LowerText ==
    ASSUME NEW text \in Text
    PROVE  /\ ToLower(text) \in Text /\ Len(ToLower(text)) = Len(text)
           /\ \A ch \in {"?", "#"} : Contains(ToLower(text), ch) <=> Contains(text, ch)
           /\ text # <<>> => (Last(ToLower(text)) = "/" <=> Last(text) = "/")
<1> DEFINE low == ToLower(text)
<1> DEFINE n == Len(text)
<1>1. n \in Nat /\ DOMAIN text = 1..n /\ \A i \in 1..n : text[i] \in Characters
    BY LenProperties, ElementOfSeq DEF Text
<1>2. low = [i \in 1..n |-> Lower[text[i]]]
    BY <1>1 DEF ToLower
<1>3. low \in [1..n -> Characters]
    BY <1>1, <1>2, CharacterAssumption
<1> HIDE DEF n, low
<1>4. low \in Seq(Characters) /\ Len(low) = n
    BY <1>1, <1>3
<1>5. \A i \in 1..n, ch \in {"/", "?", "#"} : low[i] = ch <=> text[i] = ch
    BY <1>1, <1>2, CharacterAssumption
<1>6. \A ch \in {"?", "#"} : Contains(low, ch) <=> Contains(text, ch)
    BY <1>4, <1>5 DEF Contains, n
<1>7. ASSUME text # <<>> PROVE n \in 1..n
    BY <1>1, <1>7, EmptySeq DEF Text, n
<1>8. text # <<>> => (Last(low) = "/" <=> Last(text) = "/")
    BY <1>4, <1>5, <1>7 DEF Last, n
<1>9. QED
    BY <1>4, <1>6, <1>8 DEF low, n, Text

LEMMA BareText ==
    ASSUME NEW path \in Text
    PROVE  /\ Bare(path) \in Text
           /\ \A ch \in {"?", "#"} : Contains(Bare(path), ch) <=> Contains(path, ch)
<1> DEFINE low == ToLower(path)
<1>1. /\ low \in Text /\ low \in Seq(Characters) /\ Len(low) = Len(path)
      /\ \A ch \in {"?", "#"} : Contains(low, ch) <=> Contains(path, ch)
      /\ path # <<>> => (Last(low) = "/" <=> Last(path) = "/")
    BY LowerText DEF Text
<1> HIDE DEF low
<1>2. CASE path # <<>> /\ Last(path) = "/"
    <2>1. Bare(path) = Front(low)
        BY <1>2 DEF Bare, low
    <2>2. low # <<>>
        BY <1>1, <1>2, EmptySeq DEF Text
    <2>3. Front(low) \in Seq(Characters) /\ low = Append(Front(low), "/")
        BY <1>1, <1>2, <2>2, FrontAndLast
    <2>4. "/" \in Characters
        BY CharacterAssumption
    <2> DEFINE bare == Front(low)
    <2>5. bare \in Seq(Characters) /\ low = Append(bare, "/")
        BY <2>3
    <2> HIDE DEF bare
    <2>6. ASSUME NEW ch \in {"?", "#"} PROVE Contains(bare, ch) <=> Contains(path, ch)
        <3>1. Contains(low, ch) <=> Contains(bare, ch)
            BY <2>4, <2>5, ContainsAppend
        <3>2. QED
            BY <1>1, <3>1
    <2>7. QED
        BY <2>1, <2>5, <2>6 DEF Text, bare
<1>3. CASE ~(path # <<>> /\ Last(path) = "/")
    <2>1. Bare(path) = low
        BY <1>3 DEF Bare, low
    <2>2. QED
        BY <1>1, <2>1
<1>4. QED
    BY <1>2, <1>3

KeyOf(verb, path) == <<verb, Append(Bare(path), "/")>>

(* A path that is not empty has one key, and so has every resource.        *)
LEMMA KeyOfPath ==
    ASSUME NEW verb, NEW path \in Text, path # <<>>
    PROVE  RouteKeys(verb, path) = {KeyOf(verb, path)}
<1> DEFINE low == ToLower(path)
<1>1. /\ low \in Text /\ low \in Seq(Characters) /\ Len(low) = Len(path)
      /\ Last(low) = "/" <=> Last(path) = "/"
    BY LowerText DEF Text
<1>2. low # <<>>
    BY <1>1, EmptySeq DEF Text
<1>3. Last(path) = "/" => low = Append(Front(low), "/")
    <2> HIDE DEF low
    <2>1. low = Append(Front(low), Last(low))
        BY <1>1, <1>2, FrontAndLast
    <2>2. QED
        BY <1>1, <2>1
<1>4. RouteKeys(verb, path) = {<<verb, IF Last(low) = "/" THEN low ELSE Append(low, "/")>>}
    BY <1>2 DEF RouteKeys
<1>5. Bare(path) = IF Last(path) = "/" THEN Front(low) ELSE low
    BY DEF Bare
<1> HIDE DEF low
<1>6. QED
    BY <1>1, <1>3, <1>4, <1>5 DEF KeyOf

(* The other key that the empty path may get is that of the path "/".      *)
LEMMA KeysOfEmptyPath ==
    ASSUME NEW verb
    PROVE  RouteKeys(verb, <<>>) = {<<verb, <<>> >>, KeyOf(verb, <<>>)}
<1>1. <<>> \in Text /\ <<>> \in Seq(Characters) /\ Len(<<>>) = 0
    BY EmptySeq DEF Text
<1>2. ToLower(<<>>) \in Text /\ Len(ToLower(<<>>)) = 0
    BY <1>1, LowerText
<1>3. ToLower(<<>>) = <<>>
    BY <1>2, EmptySeq DEF Text
<1>4. "/" \in Characters /\ Append(<<>>, "/") = <<>> \o <<"/">>
    BY <1>1, CharacterAssumption, AppendIsConcat
<1>5. <<>> \o <<"/">> = <<"/">>
    <2>1. <<"/">> \in Seq(Characters)
        BY <1>4
    <2>2. QED
        BY <2>1, ConcatEmptySeq
<1>6. QED
    BY <1>3, <1>4, <1>5 DEF RouteKeys, KeyOf, Bare

-----------------------------------------------------------------------------
(* The table.                                                              *)

Routes == [verb : Verbs, resource : Resources, endpoint : Endpoints]

KeyOfRoute(route) == KeyOf(route.verb, route.resource)

TypeOK ==
    /\ phase \in {"setup", "serving", "answered"}
    /\ added \in Seq(Routes)

(* The keys of the table are those of the routes added, and a key leads to *)
(* the endpoint of the last of its routes.                                 *)
LastRouteOf(list, key, i) ==
    /\ i \in DOMAIN list /\ KeyOfRoute(list[i]) = key
    /\ \A j \in DOMAIN list : KeyOfRoute(list[j]) = key => j <= i

TableIsAdded ==
    /\ \A i \in DOMAIN added : KeyOfRoute(added[i]) \in DOMAIN routes
    /\ \A key \in DOMAIN routes : \E i \in DOMAIN added :
          LastRouteOf(added, key, i) /\ routes[key] = added[i].endpoint

(* An answer is the one to what was asked, from the table as it is.        *)
AnswerIsOfTable ==
    phase = "answered" =>
        /\ asked \in [verb : Verbs, in : Inputs]
        /\ request = ParseRequestTarget(Target(asked.in))
        /\ outcome \in ResolveRoute(asked.verb, request.resource_path)

IInv == TypeOK /\ TableIsAdded /\ AnswerIsOfTable

LEMMA KeysDiffer ==
    ASSUME NEW v, NEW w, NEW p \in Text, NEW q \in Text
    PROVE  KeyOf(v, p) = KeyOf(w, q) <=> v = w /\ Bare(p) = Bare(q)
<1>1. Bare(p) \in Seq(Characters) /\ Bare(q) \in Seq(Characters) /\ "/" \in Characters
    BY BareText, CharacterAssumption DEF Text
<1>2. Append(Bare(p), "/") = Append(Bare(q), "/") <=> Bare(p) = Bare(q)
    BY <1>1, AppendInjective
<1>3. QED
    BY <1>2 DEF KeyOf

LEMMA InitTable == Init => IInv
<1> SUFFICES ASSUME Init PROVE IInv
    OBVIOUS
<1>1. added \in Seq(Routes) /\ DOMAIN added = {} /\ DOMAIN routes = {}
    BY EmptySeq DEF Init
<1>2. QED
    BY <1>1 DEF Init, IInv, TypeOK, TableIsAdded, AnswerIsOfTable

LEMMA AddRouteTable ==
    ASSUME IInv, NEW verb \in Verbs, NEW r \in Resources, NEW endpoint \in Endpoints,
           AddRoute(verb, r, endpoint)
    PROVE  IInv'
<1> DEFINE route == [verb |-> verb, resource |-> r, endpoint |-> endpoint]
<1> DEFINE key == KeyOf(verb, r)
<1> DEFINE n == Len(added)
<1>1. route \in Routes /\ KeyOfRoute(route) = key /\ route.endpoint = endpoint
    BY DEF Routes, KeyOfRoute
<1>2. routes' = With(routes, key, endpoint) /\ added' = Append(added, route)
    <2>1. RouteKeys(verb, r) = {key}
        BY RouterAssumption, KeyOfPath
    <2>2. QED
        BY <2>1 DEF AddRoute
<1>3. added \in Seq(Routes) /\ n \in Nat /\ DOMAIN added = 1..n
    BY LenProperties DEF IInv, TypeOK
<1> HIDE DEF route, key, n
<1>4. /\ added' \in Seq(Routes) /\ Len(added') = n + 1
      /\ \A i \in 1..n : added'[i] = added[i]
      /\ added'[n + 1] = route
    BY <1>1, <1>2, <1>3, AppendProperties DEF n
<1>5. DOMAIN added' = 1..(n + 1)
    BY <1>4, LenProperties
<1>6. /\ DOMAIN routes' = DOMAIN routes \cup {key}
      /\ routes'[key] = endpoint
      /\ \A k \in DOMAIN routes \ {key} : routes'[k] = routes[k]
    BY <1>2 DEF With
<1>7. TypeOK'
    BY <1>4 DEF AddRoute, IInv, TypeOK
<1>8. TableIsAdded'
    <2>1. ASSUME NEW i \in DOMAIN added' PROVE KeyOfRoute(added'[i]) \in DOMAIN routes'
        <3>1. CASE i = n + 1
            BY <1>1, <1>4, <1>6, <3>1
        <3>2. CASE i \in 1..n
            BY <1>3, <1>4, <1>6, <3>2 DEF IInv, TableIsAdded
        <3>3. QED
            BY <1>3, <1>5, <3>1, <3>2
    <2>2. LastRouteOf(added', key, n + 1)
        <3>1. n + 1 \in DOMAIN added' /\ KeyOfRoute(added'[n + 1]) = key
            BY <1>1, <1>3, <1>4, <1>5
        <3>2. \A j \in DOMAIN added' : j <= n + 1
            BY <1>3, <1>5
        <3>3. QED
            BY <3>1, <3>2 DEF LastRouteOf
    <2>3. routes'[key] = added'[n + 1].endpoint /\ n + 1 \in DOMAIN added'
        BY <1>1, <1>3, <1>4, <1>5, <1>6
    <2>4. ASSUME NEW k \in DOMAIN routes \ {key}
          PROVE  \E i \in DOMAIN added' : LastRouteOf(added', k, i) /\ routes'[k] = added'[i].endpoint
        <3>1. PICK i \in DOMAIN added : LastRouteOf(added, k, i) /\ routes[k] = added[i].endpoint
            BY DEF IInv, TableIsAdded
        <3>2. i \in 1..n /\ added'[i] = added[i]
            BY <1>3, <1>4, <3>1
        <3>3. LastRouteOf(added', k, i)
            BY <1>1, <1>3, <1>4, <1>5, <3>1, <3>2 DEF LastRouteOf
        <3>4. QED
            BY <1>3, <1>5, <1>6, <3>1, <3>2, <3>3
    <2>5. QED
        BY <1>6, <2>1, <2>2, <2>3, <2>4 DEF TableIsAdded
<1>9. AnswerIsOfTable'
    BY DEF AddRoute, AnswerIsOfTable
<1>10. QED
    BY <1>7, <1>8, <1>9 DEF IInv

LEMMA TableStays ==
    ASSUME IInv, UNCHANGED <<routes, added>>
    PROVE  TableIsAdded' /\ (phase' \in {"setup", "serving", "answered"} => TypeOK')
BY DEF IInv, TypeOK, TableIsAdded, LastRouteOf

LEMMA ProcessHttpRequestTable ==
    ASSUME IInv, NEW verb \in Verbs, NEW in \in Inputs, ProcessHttpRequest(verb, in)
    PROVE  IInv'
<1>1. TypeOK' /\ TableIsAdded'
    BY TableStays DEF ProcessHttpRequest
<1>2. asked' \in [verb : Verbs, in : Inputs] /\ asked'.verb = verb /\ asked'.in = in
    BY DEF ProcessHttpRequest
<1>4. outcome' \in {LookupEndpoint(key)' : key \in RouteKeys(verb, request'.resource_path)}
    BY DEF ProcessHttpRequest, ResolveRoute, LookupEndpoint
<1>6. AnswerIsOfTable'
    BY <1>2, <1>4 DEF ProcessHttpRequest, AnswerIsOfTable, ResolveRoute
<1>5. QED
    BY <1>1, <1>6 DEF IInv

LEMMA StepTable == IInv /\ [Next]_vars => IInv'
<1> SUFFICES ASSUME IInv, [Next]_vars PROVE IInv'
    OBVIOUS
<1>1. CASE Serve
    <2>1. TypeOK' /\ TableIsAdded'
        BY <1>1, TableStays DEF Serve
    <2>2. AnswerIsOfTable'
        BY <1>1 DEF Serve, AnswerIsOfTable
    <2>3. QED
        BY <2>1, <2>2 DEF IInv
<1>2. CASE Done
    <2>1. TypeOK' /\ TableIsAdded'
        BY <1>2, TableStays DEF Done
    <2>2. AnswerIsOfTable'
        BY <1>2 DEF Done, AnswerIsOfTable
    <2>3. QED
        BY <2>1, <2>2 DEF IInv
<1>3. CASE UNCHANGED vars
    <2>1. TypeOK' /\ TableIsAdded'
        BY <1>3, TableStays DEF vars, IInv, TypeOK
    <2>2. AnswerIsOfTable'
        BY <1>3 DEF vars, IInv, AnswerIsOfTable, ResolveRoute, LookupEndpoint
    <2>3. QED
        BY <2>1, <2>2 DEF IInv
<1>4. QED
    BY <1>1, <1>2, <1>3, AddRouteTable, ProcessHttpRequestTable DEF Next

(* At all times the table is made of the routes added, the last for a key  *)
(* winning, and an answer is the one that the table has for the request.   *)
THEOREM Invariance == Spec => []IInv
BY InitTable, StepTable, PTL DEF Spec

-----------------------------------------------------------------------------
(* What the table has for a path.                                          *)

LEMMA AddedRoute ==
    ASSUME IInv, NEW i \in DOMAIN added
    PROVE  /\ added[i] \in Routes /\ added[i].resource \in Text /\ i \in Nat
           /\ ~Contains(added[i].resource, "?") /\ ~Contains(added[i].resource, "#")
<1>1. added \in Seq(Routes)
    BY DEF IInv, TypeOK
<1>2. DOMAIN added = 1..Len(added) /\ Len(added) \in Nat
    BY <1>1, LenProperties
<1>3. added[i] \in Routes /\ i \in Nat
    BY <1>1, <1>2, ElementOfSeq
<1>4. QED
    BY <1>3, RouterAssumption DEF Routes

(* The routes with the key of a path are those that match it.              *)
LEMMA MatchingByKey ==
    ASSUME IInv, NEW verb, NEW path \in Text, NEW i \in DOMAIN added
    PROVE  i \in Matching(verb, path) <=> KeyOfRoute(added[i]) = KeyOf(verb, path)
BY AddedRoute, KeysDiffer DEF Matching, KeyOfRoute

LEMMA FoundByKey ==
    ASSUME IInv, NEW verb, NEW path \in Text
    PROVE  LET found == Matching(verb, path)
               answer == LookupEndpoint(KeyOf(verb, path))
           IN  \/ found = {} /\ answer = "bad_request"
               \/ \E i \in found : (\A j \in found : j <= i) /\ answer = added[i].endpoint
<1> DEFINE key == KeyOf(verb, path)
<1>1. \A i \in Matching(verb, path) : i \in DOMAIN added /\ KeyOfRoute(added[i]) = key
    BY MatchingByKey DEF Matching
<1>2. CASE key \in DOMAIN routes
    <2>1. PICK i \in DOMAIN added : LastRouteOf(added, key, i) /\ routes[key] = added[i].endpoint
        BY <1>2 DEF IInv, TableIsAdded
    <2>2. i \in Matching(verb, path)
        BY <2>1, MatchingByKey DEF LastRouteOf
    <2>3. \A j \in Matching(verb, path) : j <= i
        BY <1>1, <2>1 DEF LastRouteOf
    <2>4. QED
        BY <1>2, <2>1, <2>2, <2>3 DEF LookupEndpoint
<1>3. CASE key \notin DOMAIN routes
    <2>1. Matching(verb, path) = {}
        BY <1>1, <1>3 DEF IInv, TableIsAdded
    <2>2. QED
        BY <1>3, <2>1 DEF LookupEndpoint
<1>4. QED
    BY <1>2, <1>3

(* No route is found for a path with a "?" or a "#".                       *)
LEMMA NotFound ==
    ASSUME IInv, NEW verb, NEW path \in Text, NEW ch \in {"?", "#"}, Contains(path, ch)
    PROVE  Matching(verb, path) = {}
<1>1. SUFFICES ASSUME NEW i \in Matching(verb, path) PROVE FALSE
    OBVIOUS
<1>2. i \in DOMAIN added /\ Bare(added[i].resource) = Bare(path)
    BY <1>1 DEF Matching
<1>3. added[i].resource \in Text /\ ~Contains(added[i].resource, ch)
    BY <1>2, AddedRoute
<1>4. QED
    BY <1>2, <1>3, BareText

(* No route has the key that an empty path may get.                        *)
LEMMA EmptyKeyNotFound ==
    ASSUME IInv, NEW verb
    PROVE  LookupEndpoint(<<verb, <<>> >>) = "bad_request"
<1>1. SUFFICES ASSUME <<verb, <<>> >> \in DOMAIN routes PROVE FALSE
    BY DEF LookupEndpoint
<1>2. PICK i \in DOMAIN added : KeyOfRoute(added[i]) = <<verb, <<>> >>
    BY <1>1 DEF IInv, TableIsAdded, LastRouteOf
<1>3. Bare(added[i].resource) \in Seq(Characters) /\ "/" \in Characters
    BY AddedRoute, BareText, CharacterAssumption DEF Text
<1>4. Append(Bare(added[i].resource), "/") # <<>>
    BY <1>3, AppendProperties
<1>5. QED
    BY <1>2, <1>4 DEF KeyOfRoute, KeyOf

LEMMA EndpointFollows == IInv => EndpointIsTheOneAdded
<1> SUFFICES ASSUME IInv, phase = "answered"
             PROVE  LET found == Matching(asked.verb, asked.in.path) IN
                    \/ found = {} /\ outcome = "bad_request"
                    \/ \E i \in found : (\A j \in found : j <= i) /\ outcome = added[i].endpoint
                    \/ (asked.in.path = <<>> \/ ~Clear(asked.in)) /\ outcome = "bad_request"
    BY DEF EndpointIsTheOneAdded
<1> DEFINE verb == asked.verb
<1> DEFINE in == asked.in
<1> DEFINE path == request.resource_path
<1>1. in \in Inputs /\ Input(in)
    BY RouterAssumption DEF IInv, AnswerIsOfTable
<1>2. request = ParseRequestTarget(Target(in)) /\ outcome \in ResolveRoute(verb, path)
    BY DEF IInv, AnswerIsOfTable
<1>3. /\ path \in Text /\ in.path \in Text
      /\ path = in.path \/ Contains(path, "?") \/ Contains(path, "#")
    BY <1>1, <1>2, PathOfTarget, TargetIs
<1>4. PICK key \in RouteKeys(verb, path) : outcome = LookupEndpoint(key)
    BY <1>2 DEF ResolveRoute
<1> HIDE DEF verb, in, path
<1>5. CASE path = in.path
    <2>1. CASE key = KeyOf(verb, path)
        BY <1>3, <1>4, <1>5, <2>1, FoundByKey DEF verb, in
    <2>2. CASE key # KeyOf(verb, path)
        <3>1. path = <<>> /\ key = <<verb, <<>> >>
            <4>1. path = <<>>
                BY <1>3, <1>4, <2>2, KeyOfPath
            <4>2. QED
                BY <1>4, <2>2, <4>1, KeysOfEmptyPath
        <3>2. outcome = "bad_request"
            BY <1>4, <3>1, EmptyKeyNotFound
        <3>3. QED
            BY <1>5, <3>1, <3>2 DEF in
    <2>3. QED
        BY <2>1, <2>2
<1>6. CASE path # in.path
    <2>1. ~Clear(in)
        <3>1. Clear(in) => ParseRequestTarget(Target(in)).resource_path = in.path
            BY <1>1, ParseOfClear DEF HttpRequest
        <3>2. QED
            BY <1>2, <1>6, <3>1 DEF path
    <2>2. PICK ch \in {"?", "#"} : Contains(path, ch)
        BY <1>3, <1>6
    <2>3. path # <<>>
        BY <2>2, NothingInEmpty
    <2>4. key = KeyOf(verb, path)
        BY <1>3, <1>4, <2>3, KeyOfPath
    <2>5. Matching(verb, path) = {}
        BY <1>3, <2>2, NotFound
    <2>6. outcome = "bad_request"
        BY <1>3, <1>4, <2>4, <2>5, FoundByKey
    <2>7. QED
        BY <2>1, <2>6 DEF in
<1>7. QED
    BY <1>5, <1>6

(* A request reaches the endpoint that was last added for its method and   *)
(* its path, or is a bad request, for all routes and all requests.         *)
THEOREM EndpointReached == Spec => []EndpointIsTheOneAdded
BY Invariance, EndpointFollows, PTL

-----------------------------------------------------------------------------
(* The parameters of a query.                                              *)

IsPair(item) == Len(Split(item, "=")) = 2
KeyIn(item) == Split(item, "=")[1]
ValueIn(item) == Split(item, "=")[2]

(* The keys are those of the pairs; each has the value of its last pair.   *)
LastPair(items, i) ==
    /\ i \in 1..Len(items) /\ IsPair(items[i])
    /\ \A j \in 1..Len(items) : IsPair(items[j]) /\ KeyIn(items[j]) = KeyIn(items[i]) => j <= i

ParametersAre(parameters, items) ==
    /\ \A key : key \in DOMAIN parameters
                 <=> \E i \in 1..Len(items) : IsPair(items[i]) /\ KeyIn(items[i]) = key
    /\ \A i \in 1..Len(items) :
          LastPair(items, i) => parameters[KeyIn(items[i])] = ValueIn(items[i])

LEMMA WithProperties ==
    ASSUME NEW m, NEW key, NEW value
    PROVE  /\ \A k : k \in DOMAIN With(m, key, value) <=> k \in DOMAIN m \/ k = key
           /\ With(m, key, value)[key] = value
           /\ \A k \in DOMAIN m : k # key => With(m, key, value)[k] = m[k]
BY DEF With

LEMMA ParametersOfAppend ==
    ASSUME NEW items \in Seq(Text), NEW x \in Text, NEW before, ParametersAre(before, items)
    PROVE  ParametersAre(IF IsPair(x) THEN With(before, KeyIn(x), ValueIn(x)) ELSE before,
                         Append(items, x))
<1> DEFINE n == Len(items)
<1> DEFINE longer == Append(items, x)
<1>1. /\ n \in Nat /\ Len(longer) = n + 1
      /\ \A i \in 1..n : longer[i] = items[i]
      /\ longer[n + 1] = x
    BY LenProperties, AppendProperties
<1> DEFINE after == IF IsPair(x) THEN With(before, KeyIn(x), ValueIn(x)) ELSE before
<1>2. /\ \A k : k \in DOMAIN after <=> k \in DOMAIN before \/ (IsPair(x) /\ k = KeyIn(x))
      /\ IsPair(x) => after[KeyIn(x)] = ValueIn(x)
      /\ \A k \in DOMAIN before : (IsPair(x) => k # KeyIn(x)) => after[k] = before[k]
    BY WithProperties
<1>3. 1..(n + 1) = 1..n \cup {n + 1} /\ \A i \in 1..n : ~(n + 1 <= i)
    BY <1>1
<1> HIDE DEF n, longer, after
<1>4. ASSUME NEW key
      PROVE  key \in DOMAIN after
                <=> \E i \in 1..(n + 1) : IsPair(longer[i]) /\ KeyIn(longer[i]) = key
    <2>1. key \in DOMAIN before <=> \E i \in 1..n : IsPair(items[i]) /\ KeyIn(items[i]) = key
        BY DEF ParametersAre, n
    <2>2. QED
        BY <1>1, <1>2, <1>3, <2>1
<1>5. ASSUME NEW i \in 1..(n + 1), LastPair(longer, i)
      PROVE  after[KeyIn(longer[i])] = ValueIn(longer[i])
    <2>1. CASE i = n + 1
        BY <1>1, <1>2, <1>5, <2>1 DEF LastPair
    <2>2. CASE i \in 1..n
        <3>1. longer[i] = items[i] /\ IsPair(items[i])
            BY <1>1, <1>5, <2>2 DEF LastPair
        <3>2. IsPair(x) => KeyIn(items[i]) # KeyIn(x)
            BY <1>1, <1>3, <1>5, <2>2, <3>1 DEF LastPair
        <3>3. LastPair(items, i)
            BY <1>1, <1>3, <1>5, <2>2, <3>1 DEF LastPair, n
        <3>4. /\ KeyIn(items[i]) \in DOMAIN before
              /\ before[KeyIn(items[i])] = ValueIn(items[i])
            BY <2>2, <3>1, <3>3 DEF ParametersAre, n
        <3>5. QED
            BY <1>2, <3>1, <3>2, <3>4
    <2>3. QED
        BY <1>3, <2>1, <2>2
<1>6. QED
    BY <1>1, <1>4, <1>5 DEF ParametersAre, after, longer

LEMMA ParametersOfItems ==
    ASSUME NEW items \in Seq(Text), NEW parameters,
           Folded(parameters, ParametersJob, << >>, items)
    PROVE  ParametersAre(parameters, items)
<1> DEFINE S == {list \in Seq(Text) : \A v :
                    Folded(v, ParametersJob, << >>, list) => ParametersAre(v, list)}
<1>1. <<>> \in S
    <2>1. <<>> \in Seq(Text) /\ Len(<<>>) = 0 /\ DOMAIN << >> = {}
        BY EmptySeq
    <2>2. ASSUME NEW v, Folded(v, ParametersJob, << >>, <<>>) PROVE ParametersAre(v, <<>>)
        <3>1. v = << >>
            BY <2>2, FoldOfEmpty
        <3>2. QED
            BY <2>1, <3>1 DEF ParametersAre
    <2>3. QED
        BY <2>1, <2>2
<1>2. ASSUME NEW list \in Seq(Text), NEW x \in Text, list \in S
      PROVE  Append(list, x) \in S
    <2>1. Append(list, x) \in Seq(Text)
        BY AppendProperties
    <2>2. ASSUME NEW v, Folded(v, ParametersJob, << >>, Append(list, x))
          PROVE  ParametersAre(v, Append(list, x))
        <3>1. Len(list) \in Nat
            BY LenProperties
        <3>2. PICK g : IsFold(g, Len(list), ParametersJob, << >>, list)
            BY <3>1, FoldExists
        <3> DEFINE u == g[1..Len(list)]
        <3>3. Folded(u, ParametersJob, << >>, list)
            BY <3>2 DEF Folded
        <3> HIDE DEF u
        <3>4. ParametersAre(u, list)
            BY <1>2, <3>3
        <3>5. v = Step(ParametersJob, u, x)
            BY <2>2, <3>3, FoldOfAppend
        <3>6. v = IF IsPair(x) THEN With(u, KeyIn(x), ValueIn(x)) ELSE u
            BY <3>5 DEF Step, ParametersJob, IsPair, KeyIn, ValueIn
        <3>7. QED
            BY <3>4, <3>6, ParametersOfAppend
    <2>3. QED
        BY <2>1, <2>2
<1> HIDE DEF S
<1>3. Seq(Text) \subseteq S
    BY <1>1, <1>2, SeqInductionOnSets
<1>4. QED
    BY <1>3 DEF S

LEMMA ParametersOfQuery ==
    ASSUME NEW in, Input(in), in.query # None
    PROVE  ParametersAre(ParseQueryParameters(Encoded(in.query)), Items(in.query))
<1>1. /\ Split(Encoded(in.query), "&") = Items(in.query)
      /\ Items(in.query) \in Seq(Text)
    BY EncodedQuery, ItemsOfQuery
<1>2. Folded(ParseQueryParameters(Encoded(in.query)), ParametersJob, << >>, Items(in.query))
    BY <1>1, ParametersFold
<1>3. QED
    BY <1>1, <1>2, ParametersOfItems

LEMMA FieldsFollow == IInv => FieldsAreThoseSent
<1> DEFINE in == asked.in
<1> DEFINE pairs == IF in.query = None THEN {}
                    ELSE {i \in DOMAIN in.query : Len(in.query[i]) = 2}
<1> DEFINE parameters == request.query_parameters
<1> SUFFICES ASSUME IInv, phase = "answered", Clear(in)
             PROVE  /\ request.resource_path = in.path
                    /\ Join(request.path_segments, "/") = in.path
                    /\ \A i \in DOMAIN request.path_segments : ~Contains(request.path_segments[i], "/")
                    /\ request.fragment = IF in.fragment = None THEN <<>> ELSE in.fragment
                    /\ DOMAIN parameters = {in.query[i][1] : i \in pairs}
                    /\ \A i \in pairs :
                          (\A j \in pairs : in.query[j][1] = in.query[i][1] => j <= i)
                          => parameters[in.query[i][1]] = in.query[i][2]
    BY DEF FieldsAreThoseSent
<1>1. Input(in) /\ request = ParseRequestTarget(Target(in))
    BY RouterAssumption DEF IInv, AnswerIsOfTable
<1> HIDE DEF in
<1>2. /\ request.resource_path = in.path
      /\ request.path_segments = Split(in.path, "/")
      /\ parameters = IF in.query = None THEN << >> ELSE ParseQueryParameters(Encoded(in.query))
      /\ request.fragment = IF in.fragment = None THEN <<>> ELSE in.fragment
    BY <1>1, ParseOfClear DEF HttpRequest
<1>3. /\ Join(request.path_segments, "/") = in.path
      /\ \A i \in DOMAIN request.path_segments : ~Contains(request.path_segments[i], "/")
    <2>1. in.path \in Text /\ "/" \in Characters
        BY <1>1, TargetIs, CharacterAssumption
    <2>2. Parts(Split(in.path, "/"), "/") /\ Join(Split(in.path, "/"), "/") = in.path
        BY <2>1, SplitMakesParts
    <2>3. DOMAIN Split(in.path, "/") = 1..Len(Split(in.path, "/"))
        BY <2>2, LenProperties DEF Parts
    <2>4. QED
        BY <1>2, <2>2, <2>3 DEF Parts
<1>4. /\ DOMAIN parameters = {in.query[i][1] : i \in pairs}
      /\ \A i \in pairs :
            (\A j \in pairs : in.query[j][1] = in.query[i][1] => j <= i)
            => parameters[in.query[i][1]] = in.query[i][2]
    <2>1. CASE in.query = None
        <3>1. DOMAIN << >> = {}
            OBVIOUS
        <3>2. QED
            BY <1>2, <2>1, <3>1
    <2>2. CASE in.query # None
        <3> DEFINE query == in.query
        <3> DEFINE items == Items(query)
        <3>1. /\ Len(query) \in Nat /\ DOMAIN query = 1..Len(query) /\ Len(items) = Len(query)
              /\ \A i \in 1..Len(query) : Split(items[i], "=") = query[i]
            BY <1>1, <2>2, ItemsOfQuery
        <3>2. ParametersAre(parameters, items)
            BY <1>1, <1>2, <2>2, ParametersOfQuery
        <3>3. pairs = {i \in 1..Len(query) : Len(query[i]) = 2}
            BY <2>2, <3>1
        <3> HIDE DEF query, items, parameters, pairs
        <3>4. \A i \in 1..Len(query) :
                 /\ IsPair(items[i]) <=> i \in pairs
                 /\ KeyIn(items[i]) = query[i][1] /\ ValueIn(items[i]) = query[i][2]
            BY <3>1, <3>3 DEF IsPair, KeyIn, ValueIn
        <3>5. DOMAIN parameters = {query[i][1] : i \in pairs}
            <4>1. ASSUME NEW key
                  PROVE  key \in DOMAIN parameters <=> \E i \in pairs : key = query[i][1]
                BY <3>1, <3>2, <3>3, <3>4 DEF ParametersAre
            <4>2. QED
                BY <4>1
        <3>6. ASSUME NEW i \in pairs, \A j \in pairs : query[j][1] = query[i][1] => j <= i
              PROVE  parameters[query[i][1]] = query[i][2]
            <4>1. LastPair(items, i)
                BY <3>1, <3>3, <3>4, <3>6 DEF LastPair
            <4>2. QED
                BY <3>1, <3>2, <3>3, <3>4, <4>1 DEF ParametersAre
        <3>7. QED
            BY <3>5, <3>6 DEF query
    <2>3. QED
        BY <2>1, <2>2
<1>5. QED
    BY <1>2, <1>3, <1>4

(* The fields an endpoint is given are those that were put into a clear    *)
(* target, whatever the texts are and however many items the query has.    *)
THEOREM FieldsReceived == Spec => []FieldsAreThoseSent
BY Invariance, FieldsFollow, PTL
=============================================================================
