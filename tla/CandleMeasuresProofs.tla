------------------------ MODULE CandleMeasuresProofs ------------------------
(***************************************************************************)
(* The Wilder ATR of measurements/atr.py: the recurrence that a replay     *)
(* advances by one candle gives every candle the value of the batch pass,  *)
(* for any candles and any period.                                         *)
(***************************************************************************)
EXTENDS CandleMeasures, NaturalProofs, SequenceTheorems

-----------------------------------------------------------------------------
\* The least of a set of natural numbers.
LEMMA LeastOf ==
  ASSUME NEW T \in SUBSET Nat, T # {}
  PROVE  Min(T) \in T /\ \A y \in T : Min(T) <= y
<1>1. \E x \in T : \A y \in T : x <= y
  BY LeastNat
<1> QED
  BY <1>1 DEF Min

\* The greatest of a set of natural numbers, none of them over a bound.
LEMMA GreatestOf ==
  ASSUME NEW T \in SUBSET Nat, T # {}, NEW b \in Nat, \A y \in T : y <= b
  PROVE  Max(T) \in T /\ \A y \in T : Max(T) >= y
<1> DEFINE over == {x \in Nat : \A y \in T : y <= x}
<1>1. over \in SUBSET Nat /\ b \in over
  OBVIOUS
<1>2. PICK x \in over : \A z \in over : x <= z
  BY <1>1, LeastNat
<1>3. \A y \in T : y <= x
  BY <1>2
<1>4. x \in T
  <2>1. SUFFICES ASSUME x \notin T PROVE FALSE
    OBVIOUS
  <2>2. PICK y \in T : TRUE
    OBVIOUS
  <2>3. x \in Nat /\ y \in Nat /\ y <= x /\ y # x
    BY <1>2, <1>3, <2>1, <2>2
  <2>4. \A z \in T : z <= x - 1
    BY <1>3, <2>1, <2>3
  <2>5. x - 1 \in over
    BY <2>3, <2>4
  <2> QED
    BY <1>2, <2>3, <2>5
<1>5. \E z \in T : \A y \in T : z >= y
  BY <1>3, <1>4
<1> QED
  BY <1>5 DEF Max

\* f holds the sums of the first n ranges.
IsTotal(f, ranges, n) ==
  f = [k \in 0 .. n |->
         IF k = 0 THEN 0
         ELSE f[k - 1] + ranges[k]]

\* The function exists for every length.
LEMMA TotalExists ==
  ASSUME NEW ranges, NEW n \in Nat
  PROVE  \E f : IsTotal(f, ranges, n)
<1> DEFINE M == {m \in Nat : \E f : IsTotal(f, ranges, m)}
<1>1. 0 \in M
  <2> DEFINE f == [k \in 0 .. 0 |-> 0]
  <2>1. IsTotal(f, ranges, 0)
    BY DEF IsTotal
  <2> QED
    BY <2>1
<1>2. ASSUME NEW m \in M PROVE m + 1 \in M
  <2>1. PICK f : IsTotal(f, ranges, m)
    OBVIOUS
  <2>2. \A k \in 0 .. m : f[k] = IF k = 0 THEN 0
                            ELSE f[k - 1] + ranges[k]
    BY <2>1 DEF IsTotal
  <2> DEFINE g == [k \in 0 .. m + 1 |->
                     IF k = m + 1 THEN f[m] + ranges[(m + 1)] ELSE f[k]]
  <2>3. ASSUME NEW k \in 0 .. m + 1
        PROVE  g[k] = IF k = 0 THEN 0
                      ELSE g[k - 1] + ranges[k]
    <3>1. CASE k = m + 1
      BY <3>1
    <3>2. CASE k \in 0 .. m
      <4>1. g[k] = f[k] /\ (k # 0 => g[k - 1] = f[k - 1])
        BY <3>2
      <4>2. f[k] = IF k = 0 THEN 0
                   ELSE f[k - 1] + ranges[k]
        BY <2>2, <3>2
      <4> HIDE DEF g
      <4> QED
        BY <4>1, <4>2
    <3> QED
      BY <3>1, <3>2
  <2>4. IsTotal(g, ranges, m + 1)
    <3>1. g = [k \in 0 .. m + 1 |-> g[k]]
      OBVIOUS
    <3> HIDE DEF g
    <3> QED
      BY <2>3, <3>1 DEF IsTotal
  <2> QED
    BY <2>4
<1> HIDE DEF M
<1>3. M = Nat
  <2>1. M \in SUBSET Nat
    BY DEF M
  <2> QED
    BY <1>1, <1>2, <2>1, SetInduction
<1> QED
  BY <1>3 DEF M

\* A total is summed one range after the other.
LEMMA TotalSteps ==
  ASSUME NEW ranges, Len(ranges) \in Nat
  PROVE  \E f : /\ f[0] = 0
                /\ Total(ranges) = f[Len(ranges)]
                /\ \A k \in 1 .. Len(ranges) : f[k] = f[k - 1] + ranges[k]
<1> DEFINE f == CHOOSE g : IsTotal(g, ranges, Len(ranges))
<1>1. IsTotal(f, ranges, Len(ranges))
  BY TotalExists
<1>2. Total(ranges) = f[Len(ranges)]
  BY DEF Total, IsTotal
<1> HIDE DEF f
<1>3. \A k \in 0 .. Len(ranges) : f[k] = IF k = 0 THEN 0
            ELSE f[k - 1] + ranges[k]
  BY <1>1 DEF IsTotal
<1>4. f[0] = 0
  BY <1>3
<1>5. ASSUME NEW k \in 1 .. Len(ranges) PROVE f[k] = f[k - 1] + ranges[k]
  BY <1>3
<1> QED
  BY <1>2, <1>4, <1>5

-----------------------------------------------------------------------------
(* Candles and the ATR.                                                    *)

\* A sequence of candles as their contract admits them.
CandlesOK(seq) == seq \in Seq(Range(seq)) /\ \A i \in 1 .. Len(seq) : IsCandle(seq[i])

\* f is the ATR of each candle.
IsAtr(f, seq) ==
  f = [i \in DOMAIN seq |->
         IF i > Config.atrPeriod
           THEN (f[i - 1] * (Config.atrPeriod - 1) + TrueRanges(seq)[i]) \div Config.atrPeriod
           ELSE IF i = Config.atrPeriod
                  THEN Total(SubSeq(TrueRanges(seq), 1, i)) \div Config.atrPeriod
                  ELSE None]

\* A candle's true range is a natural number.
LEMMA TrueRangeNat ==
  ASSUME NEW c, IsCandle(c), NEW p \in Nat \cup {None}
  PROVE  TrueRange(c, p) \in Nat
<1>1. c.high \in Nat /\ c.low \in Nat /\ c.low <= c.high
  BY DEF IsCandle
<1>2. CASE p = None
  BY <1>1, <1>2 DEF TrueRange
<1>3. CASE p # None
  <2> DEFINE a == c.high - c.low
             b == AbsDiff(c.high, p)
             d == AbsDiff(c.low, p)
  <2>1. a \in Nat /\ b \in Nat /\ d \in Nat
    BY <1>1, <1>3 DEF AbsDiff
  <2> HIDE DEF a, b, d
  <2>2. \E x \in {a, b, d} : \A y \in {a, b, d} : x >= y
    <3>1. CASE a >= b /\ a >= d
      BY <2>1, <3>1
    <3>2. CASE b >= a /\ b >= d
      BY <2>1, <3>2
    <3>3. CASE d >= a /\ d >= b
      BY <2>1, <3>3
    <3> QED
      BY <2>1, <3>1, <3>2, <3>3
  <2>3. Max({a, b, d}) \in Nat
    BY <2>1, <2>2 DEF Max
  <2> QED
    BY <1>3, <2>3 DEF TrueRange, a, b, d
<1> QED
  BY <1>2, <1>3

\* The sum of ranges and one more.
LEMMA TotalAppend ==
  ASSUME NEW ranges \in Seq(Nat), NEW x \in Nat
  PROVE  Total(Append(ranges, x)) = Total(ranges) + x
<1> DEFINE n == Len(ranges)
           more == Append(ranges, x)
<1>1. n \in Nat /\ more \in Seq(Nat) /\ Len(more) = n + 1 /\ more[n + 1] = x
        /\ \A i \in 1 .. n : more[i] = ranges[i]
  BY AppendProperties, LenProperties
<1>2. PICK f : f[0] = 0 /\ Total(ranges) = f[n] /\ \A k \in 1 .. n : f[k] = f[k - 1] + ranges[k]
  BY <1>1, TotalSteps
<1> HIDE DEF n, more
<1>3. PICK g : g[0] = 0 /\ Total(more) = g[n + 1] /\ \A k \in 1 .. n + 1 : g[k] = g[k - 1] + more[k]
  <2>1. Len(more) \in Nat
    BY <1>1
  <2>2. \E g : g[0] = 0 /\ Total(more) = g[Len(more)] /\ \A k \in 1 .. Len(more) : g[k] = g[k - 1] + more[k]
    BY <2>1, TotalSteps
  <2> QED
    BY <1>1, <2>2
<1> DEFINE M == {m \in Nat : m <= n => g[m] = f[m]}
<1>4. 0 \in M
  BY <1>2, <1>3
<1>5. ASSUME NEW m \in M PROVE m + 1 \in M
  <2>1. CASE m + 1 <= n
    <3>1. m \in 0 .. n /\ m + 1 \in 1 .. n /\ m + 1 \in 1 .. n + 1 /\ (m + 1) - 1 = m
      BY <1>1, <2>1
    <3>2. f[m + 1] = f[m] + ranges[m + 1]
      BY <1>2, <3>1
    <3>3. g[m + 1] = g[m] + more[m + 1]
      BY <1>3, <3>1
    <3>4. more[m + 1] = ranges[m + 1] /\ g[m] = f[m]
      BY <1>1, <3>1
    <3> QED
      BY <3>2, <3>3, <3>4
  <2>2. CASE ~ (m + 1 <= n)
    BY <2>2
  <2> QED
    BY <2>1, <2>2
<1> HIDE DEF M
<1>6. M = Nat
  <2>1. M \in SUBSET Nat
    BY DEF M
  <2> QED
    BY <1>4, <1>5, <2>1, SetInduction
<1>7. g[n] = f[n]
  BY <1>1, <1>6 DEF M
<1>8. g[n + 1] = g[n] + more[n + 1]
  <2>1. n + 1 \in 1 .. n + 1 /\ (n + 1) - 1 = n
    BY <1>1
  <2> QED
    BY <1>3, <2>1
<1>9. Total(more) = Total(ranges) + x
  BY <1>1, <1>2, <1>3, <1>7, <1>8
<1> QED
  BY <1>9 DEF more

\* Nothing sums to zero.
LEMMA TotalEmpty == Total(<< >>) = 0
<1>1. Len(<< >>) = 0
  BY EmptySeq
<1> QED
  BY <1>1, TotalSteps

\* The true ranges of candles, and of one more.
LEMMA RangesOf ==
  ASSUME NEW seq, CandlesOK(seq)
  PROVE  /\ TrueRanges(seq) \in Seq(Nat)
         /\ Len(TrueRanges(seq)) = Len(seq)
         /\ \A i \in 1 .. Len(seq) : TrueRanges(seq)[i]
              = TrueRange(seq[i], IF i = 1 THEN None ELSE seq[i - 1].close)
<1>1. Len(seq) \in Nat /\ DOMAIN seq = 1 .. Len(seq)
  BY LenProperties DEF CandlesOK
<1>2. ASSUME NEW i \in 1 .. Len(seq)
      PROVE  TrueRange(seq[i], IF i = 1 THEN None ELSE seq[i - 1].close) \in Nat
  <2>1. IsCandle(seq[i])
    BY DEF CandlesOK
  <2>2. i # 1 => seq[i - 1].close \in Nat
    <3>1. SUFFICES ASSUME i # 1 PROVE seq[i - 1].close \in Nat
      OBVIOUS
    <3>2. i - 1 \in 1 .. Len(seq)
      BY <1>1, <3>1
    <3>3. IsCandle(seq[i - 1])
      BY <3>2 DEF CandlesOK
    <3> QED
      BY <3>3 DEF IsCandle
  <2> QED
    BY <2>1, <2>2, TrueRangeNat
<1>3. TrueRanges(seq) \in [1 .. Len(seq) -> Nat]
  BY <1>1, <1>2 DEF TrueRanges
<1>4. \A i \in 1 .. Len(seq) : TrueRanges(seq)[i]
         = TrueRange(seq[i], IF i = 1 THEN None ELSE seq[i - 1].close)
  BY <1>1 DEF TrueRanges
<1>5. Len(TrueRanges(seq)) = Len(seq) /\ TrueRanges(seq) \in Seq(Nat)
  BY <1>1, <1>3
<1> QED
  BY <1>4, <1>5

\* One more candle after candles.
LEMMA CandlesAppend ==
  ASSUME NEW seq, CandlesOK(seq), NEW c, IsCandle(c)
  PROVE  /\ CandlesOK(Append(seq, c))
         /\ Len(seq) \in Nat
         /\ Len(Append(seq, c)) = Len(seq) + 1
         /\ Append(seq, c)[Len(seq) + 1] = c
         /\ \A i \in 1 .. Len(seq) : Append(seq, c)[i] = seq[i]
<1> DEFINE S == Range(seq) \cup {c}
<1>1. seq \in Seq(S) /\ c \in S
  BY DEF CandlesOK
<1> HIDE DEF S
<1>2. /\ Append(seq, c) \in Seq(S)
      /\ Len(seq) \in Nat
      /\ Len(Append(seq, c)) = Len(seq) + 1
      /\ Append(seq, c)[Len(seq) + 1] = c
      /\ \A i \in 1 .. Len(seq) : Append(seq, c)[i] = seq[i]
  BY <1>1, AppendProperties, LenProperties
<1>3. \A i \in 1 .. Len(seq) : IsCandle(seq[i])
  BY DEF CandlesOK
<1>4. \A i \in 1 .. Len(seq) + 1 : IsCandle(Append(seq, c)[i])
  <2>1. \A i \in 1 .. Len(seq) + 1 : i \in 1 .. Len(seq) \/ i = Len(seq) + 1
    BY <1>2
  <2> QED
    BY <1>2, <1>3, <2>1
<1> QED
  BY <1>2, <1>4, SeqOfRange DEF CandlesOK

\* The range of one more candle comes after the others.
LEMMA RangesAppend ==
  ASSUME NEW seq, CandlesOK(seq), NEW c, IsCandle(c)
  PROVE  /\ TrueRanges(Append(seq, c))
              = Append(TrueRanges(seq),
                       TrueRange(c, IF seq = << >> THEN None ELSE seq[Len(seq)].close))
         /\ TrueRange(c, IF seq = << >> THEN None ELSE seq[Len(seq)].close) \in Nat
<1> DEFINE n == Len(seq)
           more == Append(seq, c)
           previous == IF seq = << >> THEN None ELSE seq[n].close
           x == TrueRange(c, previous)
           old == TrueRanges(seq)
<1>1. /\ CandlesOK(more) /\ n \in Nat /\ Len(more) = n + 1 /\ more[n + 1] = c
      /\ \A i \in 1 .. n : more[i] = seq[i]
  BY CandlesAppend
<1>2. seq = << >> <=> n = 0
  BY EmptySeq DEF CandlesOK
<1>3. previous \in Nat \cup {None}
  <2>1. CASE seq = << >>
    BY <2>1
  <2>2. CASE seq # << >>
    <3>1. n \in 1 .. n
      BY <1>1, <1>2, <2>2
    <3>2. IsCandle(seq[n])
      BY <3>1 DEF CandlesOK
    <3> QED
      BY <2>2, <3>2 DEF IsCandle
  <2> QED
    BY <2>1, <2>2
<1>4. x \in Nat
  BY <1>3, TrueRangeNat
<1>5. /\ old \in Seq(Nat) /\ Len(old) = n
      /\ \A i \in 1 .. n : old[i] = TrueRange(seq[i], IF i = 1 THEN None ELSE seq[i - 1].close)
  BY RangesOf
<1>6. /\ TrueRanges(more) \in Seq(Nat) /\ Len(TrueRanges(more)) = n + 1
      /\ \A i \in 1 .. n + 1 : TrueRanges(more)[i] = TrueRange(more[i], IF i = 1 THEN None ELSE more[i - 1].close)
  BY <1>1, RangesOf
<1>7. /\ Append(old, x) \in Seq(Nat) /\ Len(Append(old, x)) = n + 1
      /\ Append(old, x)[n + 1] = x /\ \A i \in 1 .. n : Append(old, x)[i] = old[i]
  BY <1>4, <1>5, AppendProperties
<1>8. ASSUME NEW i \in 1 .. n + 1 PROVE TrueRanges(more)[i] = Append(old, x)[i]
  <2>1. CASE i \in 1 .. n
    <3>1. more[i] = seq[i] /\ (i # 1 => more[i - 1] = seq[i - 1])
      <4>1. i # 1 => i - 1 \in 1 .. n
        BY <1>1, <2>1
      <4> QED
        BY <1>1, <2>1, <4>1
    <3> HIDE DEF more, x, old
    <3>2. TrueRanges(more)[i] = TrueRange(more[i], IF i = 1 THEN None ELSE more[i - 1].close)
      BY <1>6
    <3>3. old[i] = TrueRange(seq[i], IF i = 1 THEN None ELSE seq[i - 1].close)
      BY <1>5, <2>1
    <3> QED
      BY <1>7, <2>1, <3>1, <3>2, <3>3
  <2>2. CASE i = n + 1
    <3>1. more[i] = c /\ (i # 1 => more[i - 1] = seq[n])
      <4>1. i # 1 => i - 1 = n /\ n \in 1 .. n
        BY <1>1, <2>2
      <4> QED
        BY <1>1, <2>2, <4>1
    <3>2. i = 1 <=> seq = << >>
      BY <1>1, <1>2, <2>2
    <3>3. TrueRanges(more)[i] = TrueRange(more[i], IF i = 1 THEN None ELSE more[i - 1].close)
      BY <1>6
    <3> HIDE DEF more, old, n
    <3>4. TrueRanges(more)[i] = TrueRange(c, previous)
      BY <3>1, <3>2, <3>3
    <3>5. TrueRanges(more)[n + 1] = x
      BY <2>2, <3>4 DEF x
    <3> HIDE DEF x, previous
    <3>6. Append(old, x)[n + 1] = x
      BY <1>7
    <3> QED
      BY <2>2, <3>5, <3>6
  <2>3. i \in 1 .. n \/ i = n + 1
    BY <1>1
  <2> QED
    BY <2>1, <2>2, <2>3
<1> HIDE DEF more, x, old, n
<1>9. TrueRanges(more) = Append(old, x)
  BY <1>6, <1>7, <1>8, SeqEqual
<1> QED
  BY <1>4, <1>9 DEF more, x, old, n

\* The ATR of each candle: none before a period of candles, a natural number
\* from then on.
AtrsOK(f, seq) ==
  /\ f \in Seq(Nat \cup {None}) /\ Len(f) = Len(seq)
  /\ \A i \in 1 .. Len(seq) :
       /\ i < Config.atrPeriod => f[i] = None
       /\ i = Config.atrPeriod => f[i] = Total(SubSeq(TrueRanges(seq), 1, i)) \div Config.atrPeriod
       /\ i > Config.atrPeriod =>
            f[i] = (f[i - 1] * (Config.atrPeriod - 1) + TrueRanges(seq)[i]) \div Config.atrPeriod
       /\ i >= Config.atrPeriod => f[i] \in Nat

\* What the recurrence keeps of the candles so far.
AtrStateOK(state, f, seq) ==
  /\ state \in [previousClose : Nat \cup {None}, sum : Nat, count : Nat, atr : Nat \cup {None}]
  /\ state.previousClose = IF seq = << >> THEN None ELSE seq[Len(seq)].close
  /\ Len(seq) < Config.atrPeriod =>
       state.atr = None /\ state.sum = Total(TrueRanges(seq)) /\ state.count = Len(seq)
  /\ Len(seq) >= Config.atrPeriod => state.atr = f[Len(seq)]

\* Before any candle there is no ATR.
LEMMA AtrsInit == AtrsOK(<< >>, << >>) /\ AtrStateOK(InitialAtrState, << >>, << >>)
<1>1. Len(<< >>) = 0 /\ << >> \in Seq(Range(<< >>)) /\ << >> \in Seq(Nat \cup {None})
  OBVIOUS
<1>2. CandlesOK(<< >>)
  BY <1>1 DEF CandlesOK
<1>3. AtrsOK(<< >>, << >>)
  BY <1>1 DEF AtrsOK
<1>4. TrueRanges(<< >>) = << >>
  <2>1. TrueRanges(<< >>) \in Seq(Nat) /\ Len(TrueRanges(<< >>)) = 0
    BY <1>1, <1>2, RangesOf
  <2> QED
    BY <2>1, EmptySeq
<1>5. Total(TrueRanges(<< >>)) = 0
  BY <1>4, TotalEmpty
<1>6. 0 < Config.atrPeriod /\ ~ (0 >= Config.atrPeriod)
  BY AtrConfig
<1>7. InitialAtrState = [previousClose |-> None, sum |-> 0, count |-> 0, atr |-> None]
  BY DEF InitialAtrState
<1>8. InitialAtrState \in [previousClose : Nat \cup {None}, sum : Nat, count : Nat, atr : Nat \cup {None}]
  BY <1>7
<1>9. AtrStateOK(InitialAtrState, << >>, << >>)
  BY <1>1, <1>5, <1>6, <1>7, <1>8 DEF AtrStateOK
<1> QED
  BY <1>3, <1>9

\* A natural number divides into natural numbers.
LEMMA DivisionNat ==
  ASSUME NEW a \in Nat, NEW b \in Nat \ {0}
  PROVE  a \div b \in Nat
  OBVIOUS

\* Natural numbers multiply to natural numbers.
LEMMA ProductNat ==
  ASSUME NEW a \in Nat, NEW b \in Nat
  PROVE  a * b \in Nat
  OBVIOUS

\* One step of the recurrence gives the newest candle's ATR.
LEMMA AtrStepOK ==
  ASSUME NEW seq, CandlesOK(seq), NEW c, IsCandle(c),
         NEW f, AtrsOK(f, seq), NEW state, AtrStateOK(state, f, seq)
  PROVE  /\ AtrsOK(Append(f, AdvanceAtr(state, c).atr), Append(seq, c))
         /\ AtrStateOK(AdvanceAtr(state, c), Append(f, AdvanceAtr(state, c).atr), Append(seq, c))
<1> DEFINE n == Len(seq)
           more == Append(seq, c)
           x == TrueRange(c, state.previousClose)
           old == TrueRanges(seq)
           P == Config.atrPeriod
           st == AdvanceAtr(state, c)
           g == Append(f, st.atr)
<1>1. /\ CandlesOK(more) /\ n \in Nat /\ Len(more) = n + 1 /\ more[n + 1] = c
      /\ \A i \in 1 .. n : more[i] = seq[i]
  BY CandlesAppend
<1>2. TrueRanges(more) = Append(old, x) /\ x \in Nat
  BY RangesAppend DEF AtrStateOK
<1>3. old \in Seq(Nat) /\ Len(old) = n
  BY RangesOf
<1>4. /\ Append(old, x) \in Seq(Nat) /\ Len(Append(old, x)) = n + 1
      /\ Append(old, x)[n + 1] = x /\ \A i \in 1 .. n : Append(old, x)[i] = old[i]
  BY <1>2, <1>3, AppendProperties
<1>5. /\ TrueRanges(more) \in Seq(Nat) /\ Len(TrueRanges(more)) = n + 1
      /\ TrueRanges(more)[n + 1] = x /\ \A i \in 1 .. n : TrueRanges(more)[i] = old[i]
  BY <1>2, <1>4
<1>6. P \in Nat \ {0}
  BY AtrConfig
<1>7. c.close \in Nat \ {0} /\ more # << >>
  <2>1. c.close \in Nat \ {0}
    BY DEF IsCandle
  <2>2. Len(<< >>) = 0
    BY EmptySeq
  <2> QED
    BY <1>1, <2>1, <2>2
<1>8. /\ f \in Seq(Nat \cup {None}) /\ Len(f) = n
      /\ state \in [previousClose : Nat \cup {None}, sum : Nat, count : Nat, atr : Nat \cup {None}]
      /\ n < P => state.atr = None /\ state.sum = Total(old) /\ state.count = n
      /\ n >= P => state.atr = f[n]
  BY DEF AtrsOK, AtrStateOK
<1>9. ASSUME NEW i \in 1 .. n
      PROVE  /\ i < P => f[i] = None
             /\ i = P => f[i] = Total(SubSeq(old, 1, i)) \div P
             /\ i > P => f[i] = (f[i - 1] * (P - 1) + old[i]) \div P
             /\ i >= P => f[i] \in Nat
  BY DEF AtrsOK
<1>10. Total(TrueRanges(more)) = Total(old) + x
  BY <1>2, <1>3, TotalAppend
<1>11. st = IF state.atr # None
              THEN [state EXCEPT !.previousClose = c.close,
                                 !.atr = (@ * (P - 1) + x) \div P]
              ELSE [previousClose |-> c.close, sum |-> state.sum + x, count |-> state.count + 1,
                    atr |-> IF state.count + 1 < P THEN None ELSE (state.sum + x) \div P]
  BY DEF AdvanceAtr
<1>12. DOMAIN f = 1 .. n
  BY <1>1, <1>8, LenProperties
<1> HIDE DEF n, more, x, old, P, st
<1>13. /\ st \in [previousClose : Nat \cup {None}, sum : Nat, count : Nat, atr : Nat \cup {None}]
       /\ st.previousClose = c.close
       /\ n + 1 < P => st.atr = None /\ st.sum = Total(TrueRanges(more)) /\ st.count = n + 1
       /\ n + 1 = P => st.atr = Total(TrueRanges(more)) \div P
       /\ n + 1 > P => st.atr = (f[n] * (P - 1) + x) \div P
       /\ n + 1 >= P => st.atr \in Nat
  <2>1. CASE n < P
    <3>1. st = [previousClose |-> c.close, sum |-> state.sum + x, count |-> n + 1,
                atr |-> IF n + 1 < P THEN None ELSE (state.sum + x) \div P]
      BY <1>8, <1>11, <2>1
    <3>2. state.sum + x = Total(TrueRanges(more)) /\ state.sum + x \in Nat
      BY <1>2, <1>8, <1>10, <2>1
    <3>3. (state.sum + x) \div P \in Nat
      BY <1>6, <3>2, DivisionNat
    <3> DEFINE sum == state.sum + x
               quotient == sum \div P
    <3>4. /\ sum = Total(TrueRanges(more)) /\ sum \in Nat /\ quotient \in Nat
          /\ st = [previousClose |-> c.close, sum |-> sum, count |-> n + 1,
                   atr |-> IF n + 1 < P THEN None ELSE quotient]
      BY <3>1, <3>2, <3>3
    <3>5. quotient = Total(TrueRanges(more)) \div P
      BY <3>4
    <3> HIDE DEF sum, quotient
    <3>6. n + 1 \in Nat /\ n \in Nat /\ P \in Nat /\ c.close \in Nat
      BY <1>1, <1>6, <1>7
    <3> QED
      BY <2>1, <3>4, <3>5, <3>6
  <2>2. CASE n >= P
    <3>1. n \in 1 .. n /\ n + 1 > P
      BY <1>1, <1>6, <2>2
    <3>2. f[n] \in Nat
      BY <1>9, <2>2, <3>1
    <3>3. state.atr = f[n] /\ state.atr # None
      BY <1>8, <2>2, <3>2 DEF None
    <3>4. f[n] * (P - 1) + x \in Nat
      <4>1. P - 1 \in Nat
        BY <1>6
      <4>2. f[n] * (P - 1) \in Nat
        BY <3>2, <4>1, ProductNat
      <4> QED
        BY <1>2, <4>2
    <3>5. (f[n] * (P - 1) + x) \div P \in Nat
      BY <1>6, <3>4, DivisionNat
    <3> DEFINE quotient == (f[n] * (P - 1) + x) \div P
    <3>6. st = [state EXCEPT !.previousClose = c.close, !.atr = quotient]
      BY <1>11, <3>3
    <3> HIDE DEF quotient
    <3>7. st \in [previousClose : Nat \cup {None}, sum : Nat, count : Nat, atr : Nat \cup {None}]
            /\ st.previousClose = c.close /\ st.atr = quotient
      BY <1>7, <1>8, <3>5, <3>6 DEF quotient
    <3> QED
      BY <1>1, <1>6, <3>1, <3>5, <3>7 DEF quotient
  <2> QED
    BY <1>1, <1>6, <2>1, <2>2
<1>14. st.atr \in Nat \cup {None}
  BY <1>13
<1>15. /\ g \in Seq(Nat \cup {None}) /\ Len(g) = n + 1 /\ g[n + 1] = st.atr
       /\ \A i \in 1 .. n : g[i] = f[i]
  BY <1>8, <1>14, AppendProperties
<1> HIDE DEF g
<1>16. ASSUME NEW i \in 1 .. n + 1
       PROVE  /\ i < P => g[i] = None
              /\ i = P => g[i] = Total(SubSeq(TrueRanges(more), 1, i)) \div P
              /\ i > P => g[i] = (g[i - 1] * (P - 1) + TrueRanges(more)[i]) \div P
              /\ i >= P => g[i] \in Nat
  <2>1. CASE i \in 1 .. n
    <3>1. g[i] = f[i] /\ TrueRanges(more)[i] = old[i]
      BY <1>5, <1>15, <2>1
    <3>2. i > P => g[i - 1] = f[i - 1]
      BY <1>1, <1>6, <1>15, <2>1
    <3>3. SubSeq(TrueRanges(more), 1, i) = SubSeq(old, 1, i)
      <4>1. \A k \in 1 .. i : TrueRanges(more)[k] = old[k] /\ TrueRanges(more)[k] \in Nat /\ old[k] \in Nat
        <5>1. ASSUME NEW k \in 1 .. i
              PROVE  TrueRanges(more)[k] = old[k] /\ TrueRanges(more)[k] \in Nat /\ old[k] \in Nat
          <6>1. k \in 1 .. n
            BY <1>1, <2>1
          <6>2. old[k] \in Nat
            BY <1>3, <6>1, ElementOfSeq
          <6> QED
            BY <1>5, <6>1, <6>2
        <5> QED
          BY <5>1
      <4> DEFINE a == SubSeq(TrueRanges(more), 1, i)
                 b == SubSeq(old, 1, i)
      <4>2. a \in Seq(Nat) /\ Len(a) = (IF 1 <= i THEN i - 1 + 1 ELSE 0)
              /\ \A k \in 1 .. i - 1 + 1 : a[k] = TrueRanges(more)[1 + k - 1]
        BY <4>1, SubSeqProperties
      <4>3. b \in Seq(Nat) /\ Len(b) = (IF 1 <= i THEN i - 1 + 1 ELSE 0)
              /\ \A k \in 1 .. i - 1 + 1 : b[k] = old[1 + k - 1]
        BY <4>1, SubSeqProperties
      <4> HIDE DEF a, b
      <4>4. Len(a) = i /\ Len(b) = i
        BY <4>2, <4>3, <2>1, <1>1
      <4>5. ASSUME NEW k \in 1 .. i PROVE a[k] = b[k]
        <5>1. k \in 1 .. i - 1 + 1 /\ 1 + k - 1 = k
          BY <2>1, <1>1
        <5>2. a[k] = TrueRanges(more)[1 + k - 1] /\ b[k] = old[1 + k - 1]
          BY <4>2, <4>3, <5>1
        <5> QED
          BY <4>1, <5>1, <5>2
      <4>6. a = b
        BY <4>2, <4>3, <4>4, <4>5, SeqEqual
      <4> QED
        BY <4>6 DEF a, b
    <3> QED
      BY <1>9, <2>1, <3>1, <3>2, <3>3
  <2>2. CASE i = n + 1
    <3>1. g[i] = st.atr /\ TrueRanges(more)[i] = x
      BY <1>5, <1>15, <2>2
    <3>2. i > P => g[i - 1] = f[n]
      <4>1. i > P => i - 1 = n /\ n \in 1 .. n
        BY <1>1, <1>6, <2>2
      <4> QED
        BY <1>15, <4>1
    <3>3. SubSeq(TrueRanges(more), 1, i) = TrueRanges(more)
      BY <1>5, <2>2, SubSeqFull
    <3> QED
      BY <1>13, <2>2, <3>1, <3>2, <3>3
  <2>3. i \in 1 .. n \/ i = n + 1
    BY <1>1
  <2> QED
    BY <2>1, <2>2, <2>3
<1>17. AtrsOK(g, more)
  <2>1. Len(g) = Len(more) /\ Len(more) = n + 1
    BY <1>1, <1>15
  <2> QED
    BY <1>15, <1>16, <2>1 DEF AtrsOK, P
<1>18. AtrStateOK(st, g, more)
  <2>1. Len(more) = n + 1 /\ more[Len(more)] = c /\ g[n + 1] = st.atr
    BY <1>1, <1>15
  <2> QED
    BY <1>7, <1>13, <2>1 DEF AtrStateOK, P
<1> QED
  BY <1>17, <1>18 DEF g, st, more

\* There is one such sequence: the one of the batch.
LEMMA AtrsAreBatch ==
  ASSUME NEW seq, CandlesOK(seq), NEW f, AtrsOK(f, seq)
  PROVE  f = AtrSeries(seq)
<1> DEFINE n == Len(seq)
           P == Config.atrPeriod
           ranges == TrueRanges(seq)
           h == CHOOSE e : IsAtr(e, seq)
<1>1. n \in Nat /\ DOMAIN seq = 1 .. n /\ DOMAIN f = 1 .. n /\ Len(f) = n
  BY LenProperties DEF CandlesOK, AtrsOK
<1>2. P \in Nat \ {0}
  BY AtrConfig
<1> DEFINE At(e, i) == IF i > P THEN (e[i - 1] * (P - 1) + ranges[i]) \div P
                       ELSE IF i = P THEN Total(SubSeq(ranges, 1, i)) \div P ELSE None
<1>3. \A i \in 1 .. n : f[i] = At(f, i)
  <2>1. ASSUME NEW i \in 1 .. n
        PROVE  /\ i < P => f[i] = None
               /\ i = P => f[i] = Total(SubSeq(ranges, 1, i)) \div P
               /\ i > P => f[i] = (f[i - 1] * (P - 1) + ranges[i]) \div P
    BY DEF AtrsOK
  <2> HIDE DEF P, ranges, n
  <2>2. ASSUME NEW i \in 1 .. n PROVE f[i] = At(f, i)
    <3>1. i < P \/ i = P \/ i > P
      BY <1>1, <1>2
    <3>2. CASE i < P
      BY <1>1, <1>2, <2>1, <3>2
    <3>3. CASE i = P
      BY <1>1, <1>2, <2>1, <3>3
    <3>4. CASE i > P
      BY <1>1, <1>2, <2>1, <3>4
    <3> QED
      BY <3>1, <3>2, <3>3, <3>4
  <2> QED
    BY <2>2
<1>4. f = [i \in 1 .. n |-> f[i]]
  BY <1>1 DEF AtrsOK
<1>5. IsAtr(f, seq)
  <2>1. f = [i \in DOMAIN seq |-> At(f, i)]
    BY <1>1, <1>3, <1>4
  <2> QED
    BY <2>1 DEF IsAtr
<1>6. IsAtr(h, seq)
  BY <1>5
<1>7. AtrSeries(seq) = h
  BY DEF AtrSeries, IsAtr
<1>8. DOMAIN h = 1 .. n /\ \A i \in 1 .. n : h[i] = At(h, i)
  BY <1>1, <1>6 DEF IsAtr
<1> DEFINE M == {m \in Nat : \A i \in 1 .. n : i <= m => h[i] = f[i]}
<1> HIDE DEF h, n, P, ranges
<1>9. 0 \in M
  BY <1>1
<1>10. ASSUME NEW m \in M PROVE m + 1 \in M
  <2>1. ASSUME NEW i \in 1 .. n, i <= m + 1 PROVE h[i] = f[i]
    <3>1. CASE i <= m
      BY <3>1
    <3>2. CASE i = m + 1
      <4>1. i > P => h[i - 1] = f[i - 1]
        BY <1>1, <1>2, <3>2
      <4>2. At(h, i) = At(f, i)
        BY <1>1, <1>2, <4>1
      <4>3. h[i] = At(h, i) /\ f[i] = At(f, i)
        BY <1>3, <1>8
      <4> HIDE DEF At
      <4> QED
        BY <4>2, <4>3
    <3> QED
      BY <1>1, <2>1, <3>1, <3>2
  <2> QED
    BY <2>1
<1> HIDE DEF M
<1>11. M = Nat
  <2>1. M \in SUBSET Nat
    BY DEF M
  <2> QED
    BY <1>9, <1>10, <2>1, SetInduction
<1>12. \A i \in 1 .. n : h[i] = f[i]
  <2>1. n \in M
    BY <1>1, <1>11
  <2> QED
    BY <1>1, <2>1 DEF M
<1>13. h = [i \in 1 .. n |-> h[i]]
  BY <1>5, <1>6, <1>1, <1>8 DEF IsAtr
<1>14. h = f
  BY <1>4, <1>12, <1>13
<1> QED
  BY <1>7, <1>14
=============================================================================
