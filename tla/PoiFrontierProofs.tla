------------------------- MODULE PoiFrontierProofs -------------------------
(***************************************************************************)
(* The frontier of the POI detectors, with a ring of the last candles and  *)
(* one accumulator for each period, knows what the detectors find in the   *)
(* whole chart, for any chart, zones, calendar and settings, and hands on  *)
(* exactly how its records differ.  FrontierInv says it of every field.    *)
(***************************************************************************)
EXTENDS PoiFrontier, CandleMeasuresProofs

-----------------------------------------------------------------------------
(* Parts of sequences.                                                     *)

\* The same run of two sequences.
LEMMA SameRun ==
  ASSUME NEW S, NEW a \in Seq(S), NEW T, NEW b \in Seq(T), NEW i \in Nat \ {0}, NEW j \in Nat, NEW o \in Int,
         j <= Len(a), i + o >= 1, j + o <= Len(b), \A m \in i .. j : a[m] = b[m + o]
  PROVE  /\ SubSeq(a, i, j) = SubSeq(b, i + o, j + o)
         /\ SubSeq(a, i, j) \in Seq(S)
         /\ Len(SubSeq(a, i, j)) = IF i <= j THEN j - i + 1 ELSE 0
         /\ \A k \in 1 .. j - i + 1 : SubSeq(a, i, j)[k] = a[i + k - 1]
<1> DEFINE U == S \cup T
           u == i + o
           v == j + o
<1>1. Len(a) \in Nat /\ Len(b) \in Nat
  BY LenProperties
<1>2. \A m \in i .. j : a[m] \in S
  <2>1. \A m \in i .. j : m \in 1 .. Len(a)
    BY <1>1
  <2> QED
    BY <2>1, ElementOfSeq
<1>3. u \in Int /\ v \in Int
  OBVIOUS
<1>4. \A m \in u .. v : b[m] \in U
  <2>1. \A m \in u .. v : m \in 1 .. Len(b)
    BY <1>1
  <2> QED
    BY <2>1, ElementOfSeq
<1>5. \A m \in i .. j : a[m] \in U
  BY <1>2
<1> DEFINE x == SubSeq(a, i, j)
           y == SubSeq(b, u, v)
<1>6. x \in Seq(S)
  BY <1>2, SubSeqProperties
<1>7. /\ x \in Seq(U) /\ Len(x) = IF i <= j THEN j - i + 1 ELSE 0
      /\ \A k \in 1 .. j - i + 1 : x[k] = a[i + k - 1]
  BY <1>5, SubSeqProperties
<1> HIDE DEF U
<1>8. /\ y \in Seq(U) /\ Len(y) = IF u <= v THEN v - u + 1 ELSE 0
      /\ \A k \in 1 .. v - u + 1 : y[k] = b[u + k - 1]
  <2> HIDE DEF u, v
  <2> QED
    BY <1>3, <1>4, SubSeqProperties
<1> HIDE DEF x, y
<1>9. (u <= v <=> i <= j) /\ v - u + 1 = j - i + 1
  OBVIOUS
<1>10. Len(x) = Len(y)
  BY <1>7, <1>8, <1>9
<1>11. ASSUME NEW k \in 1 .. Len(x) PROVE x[k] = y[k]
  <2>1. i <= j /\ k \in 1 .. j - i + 1
    BY <1>7
  <2>2. i + k - 1 \in i .. j /\ u + k - 1 = (i + k - 1) + o
    BY <2>1
  <2>3. x[k] = a[i + k - 1] /\ y[k] = b[u + k - 1]
    BY <1>7, <1>8, <1>9, <2>1
  <2> QED
    BY <2>2, <2>3
<1>12. x = y
  BY <1>7, <1>8, <1>10, <1>11, SeqEqual
<1> QED
  BY <1>6, <1>7, <1>12 DEF x, y, u, v

\* The elements of a run.
LEMMA RunOf ==
  ASSUME NEW S, NEW a \in Seq(S), NEW i \in Nat \ {0}, NEW j \in Nat, j <= Len(a)
  PROVE  /\ SubSeq(a, i, j) \in Seq(S)
         /\ Len(SubSeq(a, i, j)) = IF i <= j THEN j - i + 1 ELSE 0
         /\ \A k \in 1 .. j - i + 1 : SubSeq(a, i, j)[k] = a[i + k - 1]
<1>1. i + 0 >= 1 /\ j + 0 <= Len(a) /\ \A m \in i .. j : a[m] = a[m + 0]
  OBVIOUS
<1> QED
  BY <1>1, SameRun

\* r is the end of a, after o elements.
EndOf(r, a, o) ==
  /\ r \in Seq(Range(a)) /\ o \in Nat /\ Len(a) = Len(r) + o
  /\ \A i \in 1 .. Len(r) : r[i] = a[i + o]

\* The last n elements.
LEMMA LastOfIs ==
  ASSUME NEW a, a \in Seq(Range(a)), NEW n \in Nat
  PROVE  /\ EndOf(LastOf(a, n), a, Len(a) - Len(LastOf(a, n)))
         /\ Len(LastOf(a, n)) = Smallest(n, Len(a))
<1> DEFINE m == Len(a)
           i == Largest(1, (m - n) + 1)
           r == LastOf(a, n)
<1>1. m \in Nat
  BY LenProperties
<1>2. r = SubSeq(a, i, m)
  BY DEF LastOf
<1> HIDE DEF r
<1>3. i \in Nat \ {0} /\ i <= m + 1 /\ m - i + 1 = Smallest(n, m)
  <2> HIDE DEF m
  <2> QED
    BY <1>1 DEF Largest, Smallest
<1> HIDE DEF i
<1>4. /\ SubSeq(a, i, m) \in Seq(Range(a))
      /\ Len(SubSeq(a, i, m)) = IF i <= m THEN m - i + 1 ELSE 0
      /\ \A k \in 1 .. m - i + 1 : SubSeq(a, i, m)[k] = a[i + k - 1]
  BY <1>1, <1>3, RunOf
<1> HIDE DEF m
<1>5. Len(r) = m - i + 1
  BY <1>1, <1>2, <1>3, <1>4
<1>6. m - Len(r) \in Nat /\ m - Len(r) = i - 1 /\ Len(r) \in Nat
  BY <1>1, <1>3, <1>5
<1>7. ASSUME NEW k \in 1 .. Len(r) PROVE r[k] = a[k + (m - Len(r))]
  <2>1. k + (m - Len(r)) = i + k - 1
    BY <1>1, <1>3, <1>6
  <2>2. r[k] = a[i + k - 1]
    BY <1>2, <1>4, <1>5
  <2> QED
    BY <2>1, <2>2
<1>8. EndOf(r, a, m - Len(r))
  <2>1. m = Len(r) + (m - Len(r))
    BY <1>1, <1>6
  <2> QED
    BY <1>2, <1>4, <1>6, <1>7, <2>1 DEF EndOf, m
<1> QED
  BY <1>3, <1>5, <1>8 DEF m, r

\* Two ends of one length are the same.
LEMMA SameEnd ==
  ASSUME NEW a, a \in Seq(Range(a)), NEW r, NEW o, EndOf(r, a, o), NEW q, NEW p, EndOf(q, a, p), Len(r) = Len(q)
  PROVE  r = q
<1>1. Len(a) \in Nat /\ Len(r) \in Nat /\ o \in Nat /\ p \in Nat
  BY LenProperties DEF EndOf
<1>2. o = p
  BY <1>1 DEF EndOf
<1>3. r \in Seq(Range(a)) /\ q \in Seq(Range(a)) /\ \A i \in 1 .. Len(r) : r[i] = q[i]
  BY <1>2 DEF EndOf
<1> QED
  BY <1>3, SeqEqual

\* The end of an end.
LEMMA EndOfEnd ==
  ASSUME NEW a, a \in Seq(Range(a)), NEW r, NEW o, EndOf(r, a, o), NEW q, NEW p, EndOf(q, r, p)
  PROVE  EndOf(q, a, o + p)
<1>1. Len(a) \in Nat /\ Len(r) \in Nat /\ Len(q) \in Nat /\ o \in Nat /\ p \in Nat
  BY LenProperties DEF EndOf
<1>2. q \in Seq(Range(r)) /\ Range(r) \subseteq Range(a)
  BY RangeOfSeq DEF EndOf
<1>3. q \in Seq(Range(a))
  BY <1>2, SeqMonotonic
<1>4. Len(a) = Len(q) + (o + p)
  BY <1>1 DEF EndOf
<1>5. ASSUME NEW i \in 1 .. Len(q) PROVE q[i] = a[i + (o + p)]
  <2>1. i + p \in 1 .. Len(r) /\ (i + p) + o = i + (o + p)
    BY <1>1 DEF EndOf
  <2>2. q[i] = r[i + p] /\ r[i + p] = a[(i + p) + o]
    BY <2>1 DEF EndOf
  <2> QED
    BY <2>1, <2>2
<1> QED
  BY <1>1, <1>3, <1>4, <1>5 DEF EndOf

\* The last few of the last ones.
LEMMA LastOfLast ==
  ASSUME NEW a, a \in Seq(Range(a)), NEW m \in Nat, NEW n \in Nat, n <= m
  PROVE  LastOf(LastOf(a, m), n) = LastOf(a, n)
<1> DEFINE r == LastOf(a, m)
           q == LastOf(r, n)
           s == LastOf(a, n)
<1>1. EndOf(r, a, Len(a) - Len(r)) /\ Len(r) = Smallest(m, Len(a))
  BY LastOfIs
<1>2. EndOf(s, a, Len(a) - Len(s)) /\ Len(s) = Smallest(n, Len(a))
  BY LastOfIs
<1>3. r \in Seq(Range(r)) /\ Len(a) \in Nat /\ Len(r) \in Nat
  BY <1>1, SeqOfRange, LenProperties DEF EndOf
<1>4. EndOf(q, r, Len(r) - Len(q)) /\ Len(q) = Smallest(n, Len(r))
  BY <1>3, LastOfIs
<1> HIDE DEF r, q, s
<1>5. EndOf(q, a, (Len(a) - Len(r)) + (Len(r) - Len(q)))
  BY <1>1, <1>4, EndOfEnd
<1>6. Len(q) = Len(s)
  BY <1>1, <1>2, <1>3, <1>4 DEF Smallest
<1>7. q = s
  BY <1>2, <1>5, <1>6, SameEnd
<1> QED
  BY <1>7 DEF r, q, s

\* One element more.
LEMMA AppendIs ==
  ASSUME NEW a, a \in Seq(Range(a)), NEW c
  PROVE  /\ Append(a, c) \in Seq(Range(Append(a, c)))
         /\ Len(a) \in Nat /\ Len(Append(a, c)) = Len(a) + 1
         /\ Append(a, c)[Len(a) + 1] = c
         /\ \A i \in 1 .. Len(a) : Append(a, c)[i] = a[i]
         /\ Range(Append(a, c)) = Range(a) \cup {c}
<1> DEFINE S == Range(a) \cup {c}
           b == Append(a, c)
<1>1. a \in Seq(S) /\ c \in S
  OBVIOUS
<1>2. Range(a) = {a[i] : i \in 1 .. Len(a)}
  BY RangeEquality
<1> HIDE DEF S
<1>3. b \in Seq(S) /\ Len(a) \in Nat /\ Len(b) = Len(a) + 1 /\ b[Len(a) + 1] = c
      /\ \A i \in 1 .. Len(a) : b[i] = a[i]
  BY <1>1, AppendProperties, LenProperties
<1> HIDE DEF b
<1>4. b \in Seq(Range(b))
  BY <1>3, SeqOfRange
<1>5. Range(b) = {b[i] : i \in 1 .. Len(b)}
  BY <1>3, RangeEquality
<1>6. Range(b) = S
  <2>1. \A i \in 1 .. Len(b) : i \in 1 .. Len(a) \/ i = Len(a) + 1
    BY <1>3
  <2>2. \A i \in 1 .. Len(a) : i \in 1 .. Len(b)
    BY <1>3
  <2>3. Len(a) + 1 \in 1 .. Len(b)
    BY <1>3
  <2>4. Range(b) \subseteq S
    BY <1>2, <1>3, <1>5, <2>1 DEF S
  <2>5. S \subseteq Range(b)
    BY <1>2, <1>3, <1>5, <2>2, <2>3 DEF S
  <2> QED
    BY <2>4, <2>5
<1> QED
  BY <1>3, <1>4, <1>6 DEF b, S

\* The ring takes the newest candle.
LEMMA RingStep ==
  ASSUME NEW a, a \in Seq(Range(a)), NEW c, NEW m \in Nat \ {0}
  PROVE  LastOf(Append(LastOf(a, m), c), m) = LastOf(Append(a, c), m)
<1> DEFINE r == LastOf(a, m)
           rc == Append(r, c)
           ac == Append(a, c)
           q == LastOf(rc, m)
           s == LastOf(ac, m)
           o == Len(a) - Len(r)
<1>1. EndOf(r, a, o) /\ Len(r) = Smallest(m, Len(a))
  BY LastOfIs
<1>2. r \in Seq(Range(r)) /\ r \in Seq(Range(a))
  BY <1>1, SeqOfRange DEF EndOf
<1> HIDE DEF r
<1>3. /\ ac \in Seq(Range(ac)) /\ Len(a) \in Nat /\ Len(ac) = Len(a) + 1 /\ ac[Len(a) + 1] = c
      /\ \A i \in 1 .. Len(a) : ac[i] = a[i]
      /\ Range(ac) = Range(a) \cup {c}
  BY AppendIs
<1>4. /\ rc \in Seq(Range(rc)) /\ Len(r) \in Nat /\ Len(rc) = Len(r) + 1 /\ rc[Len(r) + 1] = c
      /\ \A i \in 1 .. Len(r) : rc[i] = r[i]
      /\ Range(rc) = Range(r) \cup {c}
  BY <1>2, AppendIs
<1> HIDE DEF ac, rc
<1>5. Range(rc) \subseteq Range(ac)
  BY <1>2, <1>3, <1>4, RangeOfSeq
<1>6. EndOf(rc, ac, o)
  <2>1. rc \in Seq(Range(ac))
    BY <1>4, <1>5, SeqMonotonic
  <2>2. o \in Nat /\ Len(a) = Len(r) + o
    BY <1>1 DEF EndOf
  <2> HIDE DEF o
  <2>3. Len(ac) = Len(rc) + o
    BY <1>3, <1>4, <2>2
  <2>4. ASSUME NEW i \in 1 .. Len(rc) PROVE rc[i] = ac[i + o]
    <3>1. CASE i \in 1 .. Len(r)
      <4>1. r[i] = a[i + o] /\ i + o \in 1 .. Len(a)
        BY <1>1, <1>3, <1>4, <2>2, <3>1 DEF EndOf
      <4> QED
        BY <1>3, <1>4, <3>1, <4>1
    <3>2. CASE i = Len(r) + 1
      BY <1>3, <1>4, <2>2, <3>2
    <3> QED
      BY <1>4, <3>1, <3>2
  <2> QED
    BY <2>1, <2>2, <2>3, <2>4 DEF EndOf
<1>7. EndOf(q, rc, Len(rc) - Len(q)) /\ Len(q) = Smallest(m, Len(rc))
  BY <1>4, LastOfIs
<1>8. EndOf(s, ac, Len(ac) - Len(s)) /\ Len(s) = Smallest(m, Len(ac))
  BY <1>3, LastOfIs
<1> HIDE DEF q, s
<1>9. EndOf(q, ac, o + (Len(rc) - Len(q)))
  <2> HIDE DEF o
  <2> QED
    BY <1>3, <1>6, <1>7, EndOfEnd
<1>10. Len(q) = Len(s)
  BY <1>1, <1>3, <1>4, <1>7, <1>8 DEF Smallest
<1>11. q = s
  BY <1>3, <1>8, <1>9, <1>10, SameEnd
<1> QED
  BY <1>11 DEF q, s, rc, ac, r

-----------------------------------------------------------------------------
(* Charts, and families of patterns.                                       *)

\* The candles of a chart: each with an id of its own, in the order in which
\* they are available.
ChartOK(cs) ==
  /\ CandlesOK(cs)
  /\ \A i, j \in 1 .. Len(cs) : cs[i].id = cs[j].id => i = j
  /\ \A i \in 1 .. Len(cs) : cs[i].available \in Nat
  /\ \A i, j \in 1 .. Len(cs) : i <= j => cs[i].available <= cs[j].available

\* more is the chart cs and one candle more, c.
OneMore(more, cs, c) ==
  /\ more = Append(cs, c) /\ ChartOK(cs) /\ ChartOK(more)
  /\ Len(cs) \in Nat /\ Len(more) = Len(cs) + 1
  /\ more[Len(cs) + 1] = c
  /\ \A i \in 1 .. Len(cs) : more[i] = cs[i]

\* A chart is a sequence of its candles.
LEMMA ChartIs ==
  ASSUME NEW cs, ChartOK(cs)
  PROVE  /\ cs \in Seq(Range(cs)) /\ Len(cs) \in Nat /\ DOMAIN cs = 1 .. Len(cs)
         /\ Range(cs) = {cs[i] : i \in 1 .. Len(cs)}
         /\ cs = << >> <=> Len(cs) = 0
<1>1. cs \in Seq(Range(cs))
  BY DEF ChartOK, CandlesOK
<1> QED
  BY <1>1, LenProperties, RangeEquality, EmptySeq

\* A candle that follows makes a chart of a chart.
LEMMA ChartAppend ==
  ASSUME NEW cs, ChartOK(cs), NEW c, Follows(cs, c)
  PROVE  OneMore(Append(cs, c), cs, c)
<1> DEFINE n == Len(cs)
           more == Append(cs, c)
<1>1. /\ CandlesOK(more) /\ n \in Nat /\ Len(more) = n + 1 /\ more[n + 1] = c
      /\ \A i \in 1 .. n : more[i] = cs[i]
  BY CandlesAppend DEF ChartOK, Follows
<1>2. DOMAIN cs = 1 .. n /\ (cs = << >> <=> n = 0)
  BY ChartIs
<1>3. /\ c.available \in Nat
      /\ \A i \in 1 .. n : cs[i].id # c.id
      /\ n > 0 => cs[n].available <= c.available
  <2>1. c.available \in Nat /\ \A i \in DOMAIN cs : cs[i].id # c.id
    BY DEF Follows
  <2>2. cs # << >> => Last(cs).available <= c.available
    BY DEF Follows
  <2> QED
    BY <1>1, <1>2, <2>1, <2>2 DEF Last
<1>4. /\ \A i, j \in 1 .. n : cs[i].id = cs[j].id => i = j
      /\ \A i \in 1 .. n : cs[i].available \in Nat
      /\ \A i, j \in 1 .. n : i <= j => cs[i].available <= cs[j].available
  BY DEF ChartOK
<1> HIDE DEF n, more
<1>5. \A i \in 1 .. n + 1 : i \in 1 .. n \/ i = n + 1
  BY <1>1
<1>6. \A i, j \in 1 .. n + 1 : more[i].id = more[j].id => i = j
  BY <1>1, <1>3, <1>4, <1>5
<1>7. \A i \in 1 .. n + 1 : more[i].available \in Nat
  BY <1>1, <1>3, <1>4, <1>5
<1>8. ASSUME NEW i \in 1 .. n + 1, NEW j \in 1 .. n + 1, i <= j
      PROVE  more[i].available <= more[j].available
  <2>1. CASE j \in 1 .. n
    <3>1. i \in 1 .. n
      BY <1>1, <1>8, <2>1
    <3> QED
      BY <1>1, <1>4, <1>8, <2>1, <3>1
  <2>2. CASE j = n + 1 /\ i \in 1 .. n
    <3>1. n \in 1 .. n /\ i <= n
      BY <1>1, <2>2
    <3>2. cs[i].available <= cs[n].available /\ cs[n].available <= c.available
      BY <1>3, <1>4, <2>2, <3>1
    <3>3. cs[i].available \in Nat /\ cs[n].available \in Nat
      BY <1>4, <2>2, <3>1
    <3>4. more[i] = cs[i] /\ more[j] = c
      BY <1>1, <2>2
    <3> QED
      BY <1>3, <3>2, <3>3, <3>4
  <2>3. CASE j = n + 1 /\ i = n + 1
    BY <1>1, <1>3, <2>3
  <2> QED
    BY <1>5, <2>1, <2>2, <2>3
<1>9. ChartOK(more)
  BY <1>1, <1>6, <1>7, <1>8 DEF ChartOK
<1> QED
  BY <1>1, <1>9 DEF OneMore, more, n

\* The ids of the candles from s to e, and the pairs of them.
IdsOf(cs, s, e) == [k \in 1 .. (e - s) + 1 |-> cs[(s + k) - 1].id]

Spans(n) == {s \in (1 .. n) \X (1 .. n) : s[1] <= s[2]}

\* Patterns of some types, each of a run of candles, and one of a run.
FamilyOK(found, cs, types) ==
  /\ IsFiniteSet(found)
  /\ \A z \in found : /\ z.kind = "A" /\ z.type \in types
                      /\ \E s \in Spans(Len(cs)) : z.sources = IdsOf(cs, s[1], s[2])
  /\ \A y, z \in found : y.sources = z.sources => y = z

\* A run is known by the ids of its candles.
LEMMA SpanOfIds ==
  ASSUME NEW cs, ChartOK(cs), NEW s \in Spans(Len(cs)), NEW t \in Spans(Len(cs)),
         IdsOf(cs, s[1], s[2]) = IdsOf(cs, t[1], t[2])
  PROVE  s = t
<1>1. Len(cs) \in Nat
  BY ChartIs
<1>2. /\ s[1] \in 1 .. Len(cs) /\ s[2] \in 1 .. Len(cs) /\ s[1] <= s[2] /\ s = <<s[1], s[2]>>
      /\ t[1] \in 1 .. Len(cs) /\ t[2] \in 1 .. Len(cs) /\ t[1] <= t[2] /\ t = <<t[1], t[2]>>
  BY DEF Spans
<1> DEFINE a == IdsOf(cs, s[1], s[2])
           b == IdsOf(cs, t[1], t[2])
           m == (s[2] - s[1]) + 1
           n == (t[2] - t[1]) + 1
<1>3. m \in Nat \ {0} /\ n \in Nat \ {0}
  BY <1>1, <1>2
<1>4. DOMAIN a = 1 .. m /\ DOMAIN b = 1 .. n
  BY DEF IdsOf
<1>5. m = n
  <2>1. 1 .. m = 1 .. n
    BY <1>4
  <2> HIDE DEF m, n
  <2>2. m \in 1 .. m /\ n \in 1 .. n
    BY <1>3
  <2>3. m \in 1 .. n /\ n \in 1 .. m
    BY <2>1, <2>2
  <2> QED
    BY <1>3, <2>3
<1>6. a[1] = cs[s[1]].id /\ b[1] = cs[t[1]].id
  <2>1. 1 \in 1 .. m /\ 1 \in 1 .. n
    BY <1>3
  <2>2. (s[1] + 1) - 1 = s[1] /\ (t[1] + 1) - 1 = t[1]
    BY <1>1, <1>2
  <2> QED
    BY <2>1, <2>2 DEF IdsOf
<1>7. s[1] = t[1]
  BY <1>2, <1>6 DEF ChartOK
<1>8. s[2] = t[2]
  BY <1>1, <1>2, <1>5, <1>7
<1> QED
  BY <1>2, <1>7, <1>8

\* A pattern Z[s] for each of some runs is a family.
LEMMA FamilyIs ==
  ASSUME NEW cs, ChartOK(cs), NEW runs \in SUBSET Spans(Len(cs)), NEW Z, NEW types,
         \A s \in runs : Z[s].kind = "A" /\ Z[s].type \in types /\ Z[s].sources = IdsOf(cs, s[1], s[2]),
         NEW found, \A z \in found : \E s \in runs : z = Z[s], \A s \in runs : Z[s] \in found
  PROVE  FamilyOK(found, cs, types)
<1> DEFINE f == [s \in runs |-> Z[s]]
<1>1. IsFiniteSet(found)
  <2>1. Len(cs) \in Nat
    BY ChartIs
  <2>2. IsFiniteSet(1 .. Len(cs))
    BY <2>1, FS_Interval
  <2>3. IsFiniteSet((1 .. Len(cs)) \X (1 .. Len(cs)))
    BY <2>2, FS_Product
  <2>4. runs \in SUBSET ((1 .. Len(cs)) \X (1 .. Len(cs)))
    BY DEF Spans
  <2>5. IsFiniteSet(runs)
    BY <2>3, <2>4, FS_Subset
  <2>6. f \in Surjection(runs, found)
    BY DEF Surjection
  <2> QED
    BY <2>5, <2>6, FS_Surjection
<1>2. \A z \in found : /\ z.kind = "A" /\ z.type \in types
                       /\ \E s \in Spans(Len(cs)) : z.sources = IdsOf(cs, s[1], s[2])
  OBVIOUS
<1>3. ASSUME NEW y \in found, NEW z \in found, y.sources = z.sources
      PROVE  y = z
  <2>1. PICK s \in runs : y = Z[s]
    OBVIOUS
  <2>2. PICK t \in runs : z = Z[t]
    OBVIOUS
  <2>3. IdsOf(cs, s[1], s[2]) = IdsOf(cs, t[1], t[2])
    BY <1>3, <2>1, <2>2
  <2>4. s = t
    BY <2>3, SpanOfIds
  <2> QED
    BY <2>1, <2>2, <2>4
<1> QED
  BY <1>1, <1>2, <1>3 DEF FamilyOK

\* What one candle more gives a family: patterns of which it is a candle.
NewIn(found, c) == \A z \in found : \E k \in DOMAIN z.sources : z.sources[k] = c.id

\* What a zone is.
LEMMA ZoneIs ==
  ASSUME NEW type, NEW direction, NEW top, NEW bottom, NEW tier, NEW sources, NEW by
  PROVE  LET z == Zone(type, direction, top, bottom, tier, sources, by)
         IN  /\ z.kind = "A" /\ z.type = type /\ z.available = by.available
             /\ z.sources = [i \in DOMAIN sources |-> sources[i].id]
BY DEF Zone

-----------------------------------------------------------------------------
(* The patterns of a fixed number of candles side by side.                 *)

Shapes == {"block", "engulfing", "gap", "star", "single"}

Width == [block |-> 2, engulfing |-> 2, gap |-> 3, star |-> 3, single |-> 1]

TypesOf ==
  [block     |-> {"BUY_ORDER_BLOCK", "SELL_ORDER_BLOCK"},
   engulfing |-> {"BULLISH_ENGULFING", "BEARISH_ENGULFING"},
   gap       |-> {"BUY_FAIR_VALUE_GAP", "SELL_FAIR_VALUE_GAP"},
   star      |-> {"MORNING_STAR", "EVENING_STAR"},
   single    |-> {"HAMMER", "SHOOTING_STAR"}]

\* The candles w show the pattern f, and the zone that is made of them.
Shows(f, w) ==
  \/ f = "block" /\ Displaces(w[1], w[2])
  \/ f = "engulfing" /\ Engulfs(w[1], w[2])
  \/ f = "gap" /\ Leaves(w[1], w[3])
  \/ f = "star" /\ IsStar(w[1], w[2], w[3])
  \/ f = "single" /\ IsSingleReversal(w[1])

Made(f, w) ==
  CASE f = "block" -> PairZone(Directed(Bullish(w[2]), "BUY_ORDER_BLOCK", "SELL_ORDER_BLOCK"), w[1], w[2])
    [] f = "engulfing" -> PairZone(Directed(Bullish(w[2]), "BULLISH_ENGULFING", "BEARISH_ENGULFING"), w[1], w[2])
    [] f = "gap" -> GapZone(w[1], w[2], w[3])
    [] f = "star" -> StarZone(w[1], w[2], w[3])
    [] f = "single" -> SingleReversal(w[1])

\* The k candles from the ith.
Piece(cs, i, k) == [m \in 1 .. k |-> cs[(i + m) - 1]]

Detect(f, cs) ==
  {Made(f, Piece(cs, i, Width[f])) :
     i \in {j \in 1 .. (Len(cs) - Width[f]) + 1 : Shows(f, Piece(cs, j, Width[f]))}}

\* The detectors of such patterns.
LEMMA DetectorsAre ==
  ASSUME NEW cs, ChartOK(cs)
  PROVE  /\ DetectOrderBlocks(cs) = Detect("block", cs)
         /\ DetectEngulfing(cs) = Detect("engulfing", cs)
         /\ DetectFairValueGaps(cs) = Detect("gap", cs)
         /\ DetectThreeCandleStars(cs) = Detect("star", cs)
         /\ DetectSingleCandleReversals(cs) = Detect("single", cs)
<1> DEFINE n == Len(cs)
<1>1. n \in Nat /\ Range(cs) = {cs[i] : i \in 1 .. n}
  BY ChartIs
<1> HIDE DEF n
<1>2. ASSUME NEW i \in 1 .. n
      PROVE  /\ Piece(cs, i, 1)[1] = cs[i]
             /\ Piece(cs, i, 2)[1] = cs[i] /\ Piece(cs, i, 2)[2] = cs[i + 1]
             /\ Piece(cs, i, 3)[1] = cs[i] /\ Piece(cs, i, 3)[2] = cs[i + 1] /\ Piece(cs, i, 3)[3] = cs[i + 2]
  <2>1. 1 \in 1 .. 1 /\ 1 \in 1 .. 2 /\ 2 \in 1 .. 2 /\ 1 \in 1 .. 3 /\ 2 \in 1 .. 3 /\ 3 \in 1 .. 3
    OBVIOUS
  <2>2. (i + 1) - 1 = i /\ (i + 2) - 1 = i + 1 /\ (i + 3) - 1 = i + 2
    BY <1>1
  <2> QED
    BY <2>1, <2>2 DEF Piece
<1>3. Width["block"] = 2 /\ Width["engulfing"] = 2 /\ Width["gap"] = 3 /\ Width["star"] = 3 /\ Width["single"] = 1
  BY DEF Width
<1>4. (n - 2) + 1 = n - 1 /\ (n - 3) + 1 = n - 2 /\ (n - 1) + 1 = n
  BY <1>1
<1>5. (\A i \in 1 .. n - 1 : i \in 1 .. n) /\ (\A i \in 1 .. n - 2 : i \in 1 .. n)
  BY <1>1
<1>6. DetectOrderBlocks(cs) = Detect("block", cs)
  <2> DEFINE F(a, b) == PairZone(Directed(Bullish(b), "BUY_ORDER_BLOCK", "SELL_ORDER_BLOCK"), a, b)
  <2>1. DetectOrderBlocks(cs) = {F(cs[i], cs[i + 1]) : i \in {j \in 1 .. n - 1 : Displaces(cs[j], cs[j + 1])}}
    BY DEF DetectOrderBlocks, n
  <2>2. Detect("block", cs) = {Made("block", Piece(cs, i, 2)) : i \in {j \in 1 .. n - 1 : Shows("block", Piece(cs, j, 2))}}
    BY <1>3, <1>4 DEF Detect, n
  <2>3. \A i \in 1 .. n - 1 : /\ Made("block", Piece(cs, i, 2)) = F(cs[i], cs[i + 1])
                              /\ Shows("block", Piece(cs, i, 2)) <=> Displaces(cs[i], cs[i + 1])
    BY <1>2, <1>5 DEF Made, Shows
  <2> HIDE DEF F
  <2> QED
    BY <2>1, <2>2, <2>3
<1>7. DetectEngulfing(cs) = Detect("engulfing", cs)
  <2> DEFINE F(a, b) == PairZone(Directed(Bullish(b), "BULLISH_ENGULFING", "BEARISH_ENGULFING"), a, b)
  <2>1. DetectEngulfing(cs) = {F(cs[i], cs[i + 1]) : i \in {j \in 1 .. n - 1 : Engulfs(cs[j], cs[j + 1])}}
    BY DEF DetectEngulfing, n
  <2>2. Detect("engulfing", cs)
           = {Made("engulfing", Piece(cs, i, 2)) : i \in {j \in 1 .. n - 1 : Shows("engulfing", Piece(cs, j, 2))}}
    BY <1>3, <1>4 DEF Detect, n
  <2>3. \A i \in 1 .. n - 1 : /\ Made("engulfing", Piece(cs, i, 2)) = F(cs[i], cs[i + 1])
                              /\ Shows("engulfing", Piece(cs, i, 2)) <=> Engulfs(cs[i], cs[i + 1])
    BY <1>2, <1>5 DEF Made, Shows
  <2> HIDE DEF F
  <2> QED
    BY <2>1, <2>2, <2>3
<1>8. DetectFairValueGaps(cs) = Detect("gap", cs)
  <2>1. DetectFairValueGaps(cs)
           = {GapZone(cs[i], cs[i + 1], cs[i + 2]) : i \in {j \in 1 .. n - 2 : Leaves(cs[j], cs[j + 2])}}
    BY DEF DetectFairValueGaps, n
  <2>2. Detect("gap", cs) = {Made("gap", Piece(cs, i, 3)) : i \in {j \in 1 .. n - 2 : Shows("gap", Piece(cs, j, 3))}}
    BY <1>3, <1>4 DEF Detect, n
  <2>3. \A i \in 1 .. n - 2 : /\ Made("gap", Piece(cs, i, 3)) = GapZone(cs[i], cs[i + 1], cs[i + 2])
                              /\ Shows("gap", Piece(cs, i, 3)) <=> Leaves(cs[i], cs[i + 2])
    BY <1>2, <1>5 DEF Made, Shows
  <2> QED
    BY <2>1, <2>2, <2>3
<1>9. DetectThreeCandleStars(cs) = Detect("star", cs)
  <2>1. DetectThreeCandleStars(cs)
           = {StarZone(cs[i], cs[i + 1], cs[i + 2]) : i \in {j \in 1 .. n - 2 : IsStar(cs[j], cs[j + 1], cs[j + 2])}}
    BY DEF DetectThreeCandleStars, n
  <2>2. Detect("star", cs) = {Made("star", Piece(cs, i, 3)) : i \in {j \in 1 .. n - 2 : Shows("star", Piece(cs, j, 3))}}
    BY <1>3, <1>4 DEF Detect, n
  <2>3. \A i \in 1 .. n - 2 : /\ Made("star", Piece(cs, i, 3)) = StarZone(cs[i], cs[i + 1], cs[i + 2])
                              /\ Shows("star", Piece(cs, i, 3)) <=> IsStar(cs[i], cs[i + 1], cs[i + 2])
    BY <1>2, <1>5 DEF Made, Shows
  <2> QED
    BY <2>1, <2>2, <2>3
<1>10. DetectSingleCandleReversals(cs) = Detect("single", cs)
  <2>1. DetectSingleCandleReversals(cs)
           = {SingleReversal(d) : d \in {e \in {cs[i] : i \in 1 .. n} : IsSingleReversal(e)}}
    BY <1>1 DEF DetectSingleCandleReversals
  <2>2. Detect("single", cs) = {Made("single", Piece(cs, i, 1)) : i \in {j \in 1 .. n : Shows("single", Piece(cs, j, 1))}}
    BY <1>3, <1>4 DEF Detect, n
  <2>3. \A i \in 1 .. n : /\ Made("single", Piece(cs, i, 1)) = SingleReversal(cs[i])
                          /\ Shows("single", Piece(cs, i, 1)) <=> IsSingleReversal(cs[i])
    BY <1>2 DEF Made, Shows
  <2> QED
    BY <2>1, <2>2, <2>3
<1> QED
  BY <1>6, <1>7, <1>8, <1>9, <1>10

\* The zone of a pattern.
LEMMA MadeIs ==
  ASSUME NEW f \in Shapes, NEW w
  PROVE  /\ Made(f, w).kind = "A" /\ Made(f, w).type \in TypesOf[f]
         /\ Width[f] \in 1 .. 3
         /\ Made(f, w).sources = [m \in 1 .. Width[f] |-> w[m].id]
<1> DEFINE a == w[1]
           b == w[2]
           d == w[3]
<1>1. /\ DOMAIN <<a>> = 1 .. 1 /\ DOMAIN <<a, b>> = 1 .. 2 /\ DOMAIN <<a, b, d>> = 1 .. 3
      /\ \A m \in 1 .. 1 : <<a>>[m] = w[m]
      /\ \A m \in 1 .. 2 : <<a, b>>[m] = w[m]
      /\ \A m \in 1 .. 3 : <<a, b, d>>[m] = w[m]
  <2>1. \A m \in 1 .. 1 : m = 1
    OBVIOUS
  <2>2. \A m \in 1 .. 2 : m = 1 \/ m = 2
    OBVIOUS
  <2>3. \A m \in 1 .. 3 : m = 1 \/ m = 2 \/ m = 3
    OBVIOUS
  <2> QED
    BY <2>1, <2>2, <2>3
<1>2. /\ [m \in DOMAIN <<a>> |-> <<a>>[m].id] = [m \in 1 .. 1 |-> w[m].id]
      /\ [m \in DOMAIN <<a, b>> |-> <<a, b>>[m].id] = [m \in 1 .. 2 |-> w[m].id]
      /\ [m \in DOMAIN <<a, b, d>> |-> <<a, b, d>>[m].id] = [m \in 1 .. 3 |-> w[m].id]
  BY <1>1
<1>3. CASE f = "block"
  <2> DEFINE kind == Directed(Bullish(b), "BUY_ORDER_BLOCK", "SELL_ORDER_BLOCK")
  <2>1. Made(f, w) = PairZone(kind, a, b) /\ Width[f] = 2 /\ TypesOf[f] = {"BUY_ORDER_BLOCK", "SELL_ORDER_BLOCK"}
    BY <1>3 DEF Made, Width, TypesOf
  <2>2. kind[1] \in {"BUY_ORDER_BLOCK", "SELL_ORDER_BLOCK"}
    BY DEF Directed
  <2> HIDE DEF kind
  <2> QED
    BY <1>2, <2>1, <2>2, ZoneIs DEF PairZone
<1>4. CASE f = "engulfing"
  <2> DEFINE kind == Directed(Bullish(b), "BULLISH_ENGULFING", "BEARISH_ENGULFING")
  <2>1. Made(f, w) = PairZone(kind, a, b) /\ Width[f] = 2 /\ TypesOf[f] = {"BULLISH_ENGULFING", "BEARISH_ENGULFING"}
    BY <1>4 DEF Made, Width, TypesOf
  <2>2. kind[1] \in {"BULLISH_ENGULFING", "BEARISH_ENGULFING"}
    BY DEF Directed
  <2> HIDE DEF kind
  <2> QED
    BY <1>2, <2>1, <2>2, ZoneIs DEF PairZone
<1>5. CASE f = "gap"
  <2> DEFINE kind == Directed(d.low > a.high, "BUY_FAIR_VALUE_GAP", "SELL_FAIR_VALUE_GAP")
  <2>1. Made(f, w) = GapZone(a, b, d) /\ Width[f] = 3 /\ TypesOf[f] = {"BUY_FAIR_VALUE_GAP", "SELL_FAIR_VALUE_GAP"}
    BY <1>5 DEF Made, Width, TypesOf
  <2>2. kind[1] \in {"BUY_FAIR_VALUE_GAP", "SELL_FAIR_VALUE_GAP"}
    BY DEF Directed
  <2>3. \E top, bottom : GapZone(a, b, d) = Zone(kind[1], kind[2], top, bottom, "NONE", <<a, b, d>>, d)
    BY DEF GapZone
  <2> HIDE DEF kind
  <2> QED
    BY <1>2, <2>1, <2>2, <2>3, ZoneIs
<1>6. CASE f = "star"
  <2> DEFINE kind == Directed(Bullish(d), "MORNING_STAR", "EVENING_STAR")
  <2>1. Made(f, w) = StarZone(a, b, d) /\ Width[f] = 3 /\ TypesOf[f] = {"MORNING_STAR", "EVENING_STAR"}
    BY <1>6 DEF Made, Width, TypesOf
  <2>2. kind[1] \in {"MORNING_STAR", "EVENING_STAR"}
    BY DEF Directed
  <2>3. \E tier : StarZone(a, b, d) = Zone(kind[1], kind[2], b.high, b.low, tier, <<a, b, d>>, d)
    BY DEF StarZone
  <2> HIDE DEF kind
  <2> QED
    BY <1>2, <2>1, <2>2, <2>3, ZoneIs
<1>7. CASE f = "single"
  <2>1. Made(f, w) = SingleReversal(a) /\ Width[f] = 1 /\ TypesOf[f] = {"HAMMER", "SHOOTING_STAR"}
    BY <1>7 DEF Made, Width, TypesOf
  <2>2. \E strong : \/ SingleReversal(a) = WickZone(a, Directed(TRUE, "HAMMER", ""), strong)
                    \/ SingleReversal(a) = WickZone(a, Directed(FALSE, "", "SHOOTING_STAR"), strong)
    BY DEF SingleReversal
  <2>3. Directed(TRUE, "HAMMER", "")[1] = "HAMMER" /\ Directed(FALSE, "", "SHOOTING_STAR")[1] = "SHOOTING_STAR"
    BY DEF Directed
  <2>4. \A kind, strong : /\ WickZone(a, kind, strong).kind = "A" /\ WickZone(a, kind, strong).type = kind[1]
                          /\ WickZone(a, kind, strong).sources = [m \in 1 .. 1 |-> w[m].id]
    BY <1>2, ZoneIs DEF WickZone
  <2> DEFINE up == Directed(TRUE, "HAMMER", "")
             down == Directed(FALSE, "", "SHOOTING_STAR")
  <2>5. up[1] \in TypesOf[f] /\ down[1] \in TypesOf[f]
    BY <2>1, <2>3
  <2>6. PICK kind, strong : SingleReversal(a) = WickZone(a, kind, strong) /\ kind \in {up, down}
    BY <2>2
  <2> HIDE DEF up, down, a
  <2>7. kind[1] \in TypesOf[f]
    BY <2>5, <2>6
  <2> QED
    BY <2>1, <2>4, <2>6, <2>7
<1> QED
  BY <1>3, <1>4, <1>5, <1>6, <1>7 DEF Shapes

\* What such a detector finds is a family.
LEMMA DetectFamily ==
  ASSUME NEW cs, ChartOK(cs), NEW f \in Shapes
  PROVE  FamilyOK(Detect(f, cs), cs, TypesOf[f])
<1> DEFINE n == Len(cs)
           k == Width[f]
           runs == {s \in Spans(n) : s[2] = (s[1] + k) - 1 /\ Shows(f, Piece(cs, s[1], k))}
           Z == [s \in runs |-> Made(f, Piece(cs, s[1], k))]
<1>1. n \in Nat
  BY ChartIs
<1>2. k \in 1 .. 3 /\ \A w : Made(f, w).kind = "A" /\ Made(f, w).type \in TypesOf[f]
                             /\ Made(f, w).sources = [m \in 1 .. k |-> w[m].id]
  BY MadeIs
<1>3. Detect(f, cs) = {Made(f, Piece(cs, i, k)) : i \in {j \in 1 .. (n - k) + 1 : Shows(f, Piece(cs, j, k))}}
  BY DEF Detect
<1>4. ASSUME NEW s \in runs
      PROVE  Z[s].kind = "A" /\ Z[s].type \in TypesOf[f] /\ Z[s].sources = IdsOf(cs, s[1], s[2])
  <2>1. Z[s] = Made(f, Piece(cs, s[1], k))
    OBVIOUS
  <2>2. s[1] \in 1 .. n /\ s[2] = (s[1] + k) - 1
    BY DEF Spans
  <2> HIDE DEF Z, runs, k, n
  <2>3. (s[2] - s[1]) + 1 = k
    BY <1>1, <1>2, <2>2
  <2>4. IdsOf(cs, s[1], s[2]) = [m \in 1 .. k |-> cs[(s[1] + m) - 1].id]
    BY <2>3 DEF IdsOf
  <2>5. \A m \in 1 .. k : Piece(cs, s[1], k)[m] = cs[(s[1] + m) - 1]
    BY DEF Piece
  <2> QED
    BY <1>2, <2>1, <2>4, <2>5
<1>5. runs \in SUBSET Spans(n)
  OBVIOUS
<1>6. Detect(f, cs) = {Z[s] : s \in runs}
  <2> HIDE DEF k, n
  <2>1. ASSUME NEW i \in 1 .. (n - k) + 1, Shows(f, Piece(cs, i, k))
        PROVE  Made(f, Piece(cs, i, k)) \in {Z[s] : s \in runs}
    <3> DEFINE s == <<i, (i + k) - 1>>
    <3>1. i \in 1 .. n /\ (i + k) - 1 \in 1 .. n /\ i <= (i + k) - 1
      BY <1>1, <1>2
    <3>2. s \in Spans(n) /\ s[1] = i /\ s[2] = (i + k) - 1
      BY <3>1 DEF Spans
    <3>3. s \in runs
      BY <2>1, <3>2
    <3>4. Z[s] = Made(f, Piece(cs, i, k))
      BY <3>2, <3>3
    <3> QED
      BY <3>3, <3>4
  <2>2. ASSUME NEW s \in runs
        PROVE  Z[s] \in Detect(f, cs)
    <3>1. s[1] \in 1 .. n /\ s[2] \in 1 .. n /\ s[2] = (s[1] + k) - 1 /\ Shows(f, Piece(cs, s[1], k))
          /\ Z[s] = Made(f, Piece(cs, s[1], k))
      BY DEF Spans
    <3>2. s[1] \in 1 .. (n - k) + 1
      BY <1>1, <1>2, <3>1
    <3> QED
      BY <1>3, <3>1, <3>2
  <2> HIDE DEF runs, Z
  <2> QED
    BY <1>3, <2>1, <2>2
<1> HIDE DEF runs, Z
<1> QED
  BY <1>4, <1>5, <1>6, FamilyIs DEF n

\* One candle more completes such a pattern at the end of the chart only.
LEMMA DetectStep ==
  ASSUME NEW more, NEW cs, NEW c, OneMore(more, cs, c), NEW f \in Shapes
  PROVE  /\ Detect(f, more) = Detect(f, cs) \cup Detect(f, LastOf(more, Width[f]))
         /\ NewIn(Detect(f, LastOf(more, Width[f])), c)
<1> DEFINE n == Len(cs)
           k == Width[f]
           p == LastOf(more, k)
           P(q, i) == Piece(q, i, k)
<1>1. /\ n \in Nat /\ Len(more) = n + 1 /\ more[n + 1] = c
      /\ \A i \in 1 .. n : more[i] = cs[i]
      /\ more \in Seq(Range(more))
  BY ChartIs DEF OneMore
<1>2. k \in 1 .. 3 /\ \A w : Made(f, w).sources = [m \in 1 .. k |-> w[m].id]
  BY MadeIs
<1>3. /\ Detect(f, cs) = {Made(f, P(cs, i)) : i \in {j \in 1 .. (n - k) + 1 : Shows(f, P(cs, j))}}
      /\ Detect(f, more) = {Made(f, P(more, i)) : i \in {j \in 1 .. ((n + 1) - k) + 1 : Shows(f, P(more, j))}}
      /\ Detect(f, p) = {Made(f, P(p, i)) : i \in {j \in 1 .. (Len(p) - k) + 1 : Shows(f, P(p, j))}}
  BY <1>1 DEF Detect
<1>4. EndOf(p, more, (n + 1) - Len(p)) /\ Len(p) = Smallest(k, n + 1)
  <2>1. k \in Nat
    BY <1>2
  <2> QED
    BY <1>1, <2>1, LastOfIs
<1> HIDE DEF n, k, p
<1>5. ASSUME NEW i \in 1 .. (n - k) + 1 PROVE P(more, i) = P(cs, i)
  <2>1. \A m \in 1 .. k : (i + m) - 1 \in 1 .. n
    BY <1>1, <1>2
  <2> QED
    BY <1>1, <2>1 DEF Piece
<1>6. CASE n + 1 < k
  <2>1. Len(p) = n + 1
    BY <1>1, <1>2, <1>4, <1>6 DEF Smallest
  <2>2. 1 .. (n - k) + 1 = {} /\ 1 .. ((n + 1) - k) + 1 = {} /\ 1 .. (Len(p) - k) + 1 = {}
    BY <1>1, <1>2, <1>6, <2>1
  <2>3. Detect(f, cs) = {} /\ Detect(f, more) = {} /\ Detect(f, p) = {}
    BY <1>3, <2>2
  <2> QED
    BY <2>3 DEF NewIn, p, k
<1>7. CASE ~ (n + 1 < k)
  <2> DEFINE last == ((n + 1) - k) + 1
  <2>1. Len(p) = k /\ last \in 1 .. n + 1
    BY <1>1, <1>2, <1>4, <1>7 DEF Smallest
  <2>2. P(p, 1) = P(more, last)
    <3>1. \A m \in 1 .. k : (1 + m) - 1 = m /\ (last + m) - 1 = m + ((n + 1) - k)
      BY <1>1, <1>2
    <3>2. \A m \in 1 .. k : p[m] = more[m + ((n + 1) - k)]
      BY <1>4, <2>1 DEF EndOf
    <3> HIDE DEF last
    <3> QED
      BY <3>1, <3>2 DEF Piece
  <2>3. 1 .. (Len(p) - k) + 1 = {1}
    BY <1>2, <2>1
  <2>4. Detect(f, p) = {Made(f, P(more, last)) : i \in {j \in {1} : Shows(f, P(more, last))}}
    <3> HIDE DEF P, last
    <3> QED
      BY <1>3, <2>2, <2>3
  <2>5. 1 .. ((n + 1) - k) + 1 = (1 .. (n - k) + 1) \cup {last}
    BY <1>1, <1>2, <1>7
  <2>6. P(more, last)[k] = c
    <3>1. k \in 1 .. k /\ (last + k) - 1 = n + 1
      BY <1>1, <1>2
    <3> HIDE DEF last
    <3> QED
      BY <1>1, <3>1 DEF Piece
  <2> HIDE DEF P, last
  <2>7. Detect(f, more) = Detect(f, cs) \cup Detect(f, p)
    BY <1>3, <1>5, <2>4, <2>5
  <2>8. NewIn(Detect(f, p), c)
    <3>1. ASSUME NEW z \in Detect(f, p) PROVE \E m \in DOMAIN z.sources : z.sources[m] = c.id
      <4>1. z = Made(f, P(more, last))
        BY <2>4
      <4>2. k \in 1 .. k /\ z.sources = [m \in 1 .. k |-> P(more, last)[m].id]
        BY <1>2, <4>1
      <4> QED
        BY <2>6, <4>2
    <3> QED
      BY <3>1 DEF NewIn
  <2> QED
    BY <2>7, <2>8 DEF p, k
<1> QED
  BY <1>6, <1>7

-----------------------------------------------------------------------------
(* Pressure wicks.                                                         *)

\* The candles that the median of candle i is taken of.
Before(cs, i) == SubSeq(cs, Largest(1, i - Config.baselineWindow), i - 1)

PressureTypes == {"BULLISH_PRESSURE_WICK", "BEARISH_PRESSURE_WICK"}

\* The zone of a pressure wick.
LEMMA PressureIs ==
  ASSUME NEW c, NEW before
  PROVE  /\ PressureZone(c, before).kind = "A" /\ PressureZone(c, before).type \in PressureTypes
         /\ PressureZone(c, before).sources = <<c.id>>
<1> DEFINE up == Directed(TRUE, "BULLISH_PRESSURE_WICK", "")
           down == Directed(FALSE, "", "BEARISH_PRESSURE_WICK")
<1>1. up[1] \in PressureTypes /\ down[1] \in PressureTypes
  BY DEF Directed, PressureTypes
<1>2. \E strong : PressureZone(c, before) = WickZone(c, up, strong) \/ PressureZone(c, before) = WickZone(c, down, strong)
  BY DEF PressureZone
<1> HIDE DEF up, down
<1>3. PICK kind, strong : kind \in {up, down} /\ PressureZone(c, before) = WickZone(c, kind, strong)
  BY <1>2
<1>4. [i \in DOMAIN <<c>> |-> <<c>>[i].id] = <<c.id>>
  OBVIOUS
<1>5. /\ WickZone(c, kind, strong).kind = "A" /\ WickZone(c, kind, strong).type = kind[1]
      /\ WickZone(c, kind, strong).sources = <<c.id>>
  BY <1>4, ZoneIs DEF WickZone
<1> QED
  BY <1>1, <1>3, <1>5

\* The candles before one of a chart.
LEMMA BeforeIs ==
  ASSUME NEW more, NEW cs, NEW c, OneMore(more, cs, c), NEW r, NEW o, EndOf(r, more, o),
         \/ o = 0 \/ Len(r) > Config.baselineWindow
  PROVE  /\ \A i \in 1 .. Len(cs) : Before(more, i) = Before(cs, i)
         /\ Before(r, Len(r)) = Before(more, Len(more))
<1> DEFINE n == Len(cs)
           w == Config.baselineWindow
           m == Len(r)
<1>1. /\ n \in Nat /\ Len(more) = n + 1 /\ more[n + 1] = c
      /\ \A i \in 1 .. n : more[i] = cs[i]
      /\ more \in Seq(Range(more)) /\ cs \in Seq(Range(cs))
  BY ChartIs DEF OneMore
<1>2. w \in Nat \ {0}
  BY DetectorConfig
<1>3. /\ r \in Seq(Range(more)) /\ o \in Nat /\ Len(more) = m + o /\ m \in Nat
      /\ \A i \in 1 .. m : r[i] = more[i + o]
  BY LenProperties DEF EndOf
<1>4. ASSUME NEW i \in 1 .. n PROVE Before(more, i) = Before(cs, i)
  <2> DEFINE a == Largest(1, i - w)
             b == i - 1
  <2> HIDE DEF n, w
  <2>1. a \in Nat \ {0} /\ b \in Nat /\ b <= n
    BY <1>1, <1>2 DEF Largest
  <2> HIDE DEF a, b
  <2>2. /\ b <= Len(more) /\ a + 0 >= 1 /\ b + 0 <= Len(cs) /\ a + 0 = a /\ b + 0 = b
        /\ \A k \in a .. b : more[k] = cs[k + 0]
    BY <1>1, <2>1 DEF n
  <2>3. SubSeq(more, a, b) = SubSeq(cs, a + 0, b + 0)
    BY <1>1, <2>1, <2>2, SameRun
  <2> QED
    BY <2>2, <2>3 DEF Before, a, b, w
<1>5. CASE o = 0
  <2>1. Len(r) = Len(more)
    BY <1>1, <1>3, <1>5
  <2>2. \A i \in 1 .. Len(r) : r[i] = more[i]
    BY <1>3, <1>5
  <2>3. r = more
    BY <1>1, <1>3, <2>1, <2>2, SeqEqual
  <2> QED
    BY <1>4, <2>3
<1> HIDE DEF m, w
<1>6. CASE m > w
  <2> DEFINE a == Largest(1, m - w)
             b == m - 1
  <2>1. a = m - w /\ a \in Nat \ {0} /\ b \in Nat /\ a + o = Largest(1, Len(more) - w) /\ b + o = Len(more) - 1
        /\ b <= Len(r) /\ a + o >= 1 /\ b + o <= Len(more)
    <3>1. /\ m - w \in Nat \ {0} /\ m - 1 \in Nat /\ m - 1 <= m
          /\ (m - w) + o = (m + o) - w /\ (m + o) - w \in Nat \ {0} /\ (m - 1) + o = (m + o) - 1 /\ (m + o) - 1 <= m + o
      BY <1>2, <1>3, <1>6
    <3>2. a = m - w
      BY <3>1 DEF Largest
    <3>3. Largest(1, Len(more) - w) = (m + o) - w
      BY <1>3, <3>1 DEF Largest
    <3> HIDE DEF a
    <3> QED
      BY <1>3, <3>1, <3>2, <3>3 DEF m
  <2> HIDE DEF a
  <2>2. \A k \in a .. b : r[k] = more[k + o]
    <3>1. \A k \in a .. b : k \in 1 .. m
      BY <1>3, <2>1
    <3> QED
      BY <1>3, <3>1
  <2> HIDE DEF b
  <2>3. SubSeq(r, a, b) = SubSeq(more, a + o, b + o)
    <3> DEFINE S == Range(more)
    <3>1. /\ o \in Int /\ r \in Seq(S) /\ more \in Seq(S) /\ a \in Nat \ {0} /\ b \in Nat
          /\ b <= Len(r) /\ a + o >= 1 /\ b + o <= Len(more)
          /\ \A k \in a .. b : r[k] = more[k + o]
      BY <1>1, <1>3, <2>1, <2>2
    <3> HIDE DEF S
    <3> QED
      BY <3>1, SameRun
  <2> QED
    BY <1>4, <2>1, <2>3 DEF Before, a, b, m, w
<1> QED
  BY <1>5, <1>6 DEF m, w

\* The pressure wicks of a chart.
LEMMA PressureWicksAre ==
  ASSUME NEW cs, Len(cs) \in Nat, DOMAIN cs = 1 .. Len(cs)
  PROVE  DetectPressureWicks(cs)
           = {PressureZone(cs[i], Before(cs, i)) : i \in {j \in 1 .. Len(cs) : IsPressure(cs[j])}}
BY DEF DetectPressureWicks, Before

\* Pressure wicks are a family.
LEMMA PressureFamily ==
  ASSUME NEW cs, ChartOK(cs)
  PROVE  FamilyOK(DetectPressureWicks(cs), cs, PressureTypes)
<1> DEFINE n == Len(cs)
           runs == {s \in Spans(n) : s[2] = s[1] /\ IsPressure(cs[s[1]])}
           Z == [s \in runs |-> PressureZone(cs[s[1]], Before(cs, s[1]))]
<1>1. n \in Nat /\ DOMAIN cs = 1 .. n
  BY ChartIs
<1>2. DetectPressureWicks(cs) = {PressureZone(cs[i], Before(cs, i)) : i \in {j \in 1 .. n : IsPressure(cs[j])}}
  BY <1>1, PressureWicksAre
<1>3. ASSUME NEW s \in runs
      PROVE  Z[s].kind = "A" /\ Z[s].type \in PressureTypes /\ Z[s].sources = IdsOf(cs, s[1], s[2])
  <2>1. s[1] \in 1 .. n /\ s[2] = s[1] /\ Z[s] = PressureZone(cs[s[1]], Before(cs, s[1]))
    BY DEF Spans
  <2>2. IdsOf(cs, s[1], s[1]) = <<cs[s[1]].id>>
    <3>1. (s[1] - s[1]) + 1 = 1 /\ (s[1] + 1) - 1 = s[1]
      BY <1>1, <2>1
    <3>2. IdsOf(cs, s[1], s[1]) = [k \in 1 .. 1 |-> cs[(s[1] + k) - 1].id]
      BY <3>1 DEF IdsOf
    <3>3. \A k \in 1 .. 1 : (s[1] + k) - 1 = s[1]
      BY <1>1, <2>1
    <3> QED
      BY <3>2, <3>3
  <2> QED
    BY <2>1, <2>2, PressureIs
<1>4. runs \in SUBSET Spans(n)
  OBVIOUS
<1>5. DetectPressureWicks(cs) = {Z[s] : s \in runs}
  <2>1. ASSUME NEW i \in 1 .. n, IsPressure(cs[i])
        PROVE  PressureZone(cs[i], Before(cs, i)) \in {Z[s] : s \in runs}
    <3>1. <<i, i>> \in runs
      BY <1>1, <2>1 DEF Spans
    <3>2. Z[<<i, i>>] = PressureZone(cs[i], Before(cs, i))
      BY <3>1
    <3> QED
      BY <3>1, <3>2
  <2>2. \A s \in runs : s[1] \in 1 .. n /\ IsPressure(cs[s[1]]) /\ Z[s] = PressureZone(cs[s[1]], Before(cs, s[1]))
    BY DEF Spans
  <2> HIDE DEF runs, Z
  <2> QED
    BY <1>2, <2>1, <2>2
<1> HIDE DEF runs, Z
<1> QED
  BY <1>3, <1>4, <1>5, FamilyIs DEF n

\* Pressure wicks of the newest candle.
NewPressure(r, c) == {z \in DetectPressureWicks(r) : z.sources = <<c.id>>}

\* One candle more may be a pressure wick itself.
LEMMA PressureStep ==
  ASSUME NEW more, NEW cs, NEW c, OneMore(more, cs, c), NEW r, NEW o, EndOf(r, more, o), Len(r) > 0,
         \/ o = 0 \/ Len(r) > Config.baselineWindow
  PROVE  /\ DetectPressureWicks(more) = DetectPressureWicks(cs) \cup NewPressure(r, c)
         /\ NewIn(NewPressure(r, c), c)
<1> DEFINE n == Len(cs)
           m == Len(r)
           new == NewPressure(r, c)
           Z(q, i) == PressureZone(q[i], Before(q, i))
<1>1. /\ n \in Nat /\ Len(more) = n + 1 /\ more[n + 1] = c
      /\ \A i \in 1 .. n : more[i] = cs[i]
      /\ DOMAIN cs = 1 .. n /\ DOMAIN more = 1 .. n + 1
      /\ \A i, j \in 1 .. n + 1 : more[i].id = more[j].id => i = j
  BY ChartIs DEF OneMore, ChartOK
<1>2. /\ o \in Nat /\ n + 1 = m + o /\ m \in Nat /\ DOMAIN r = 1 .. m
      /\ \A i \in 1 .. m : r[i] = more[i + o]
  BY <1>1, LenProperties DEF EndOf
<1>3. (\A i \in 1 .. n : Before(more, i) = Before(cs, i)) /\ Before(r, m) = Before(more, n + 1)
  BY <1>1, BeforeIs
<1>4. /\ DetectPressureWicks(cs) = {Z(cs, i) : i \in {j \in 1 .. n : IsPressure(cs[j])}}
      /\ DetectPressureWicks(more) = {Z(more, i) : i \in {j \in 1 .. n + 1 : IsPressure(more[j])}}
      /\ DetectPressureWicks(r) = {Z(r, i) : i \in {j \in 1 .. m : IsPressure(r[j])}}
  <2>1. DetectPressureWicks(cs) = {Z(cs, i) : i \in {j \in 1 .. n : IsPressure(cs[j])}}
    BY <1>1, PressureWicksAre
  <2>2. DetectPressureWicks(more) = {Z(more, i) : i \in {j \in 1 .. Len(more) : IsPressure(more[j])}}
    <3>1. Len(more) \in Nat /\ DOMAIN more = 1 .. Len(more)
      BY <1>1
    <3> QED
      BY <3>1, PressureWicksAre
  <2>3. DetectPressureWicks(r) = {Z(r, i) : i \in {j \in 1 .. m : IsPressure(r[j])}}
    BY <1>2, PressureWicksAre
  <2> QED
    BY <1>1, <2>1, <2>2, <2>3
<1>5. \A q, i : Z(q, i).sources = <<q[i].id>>
  BY PressureIs
<1>6. \A i \in 1 .. n : Z(more, i) = Z(cs, i)
  BY <1>1, <1>3
<1>7. m \in 1 .. m /\ r[m] = c /\ Z(r, m) = Z(more, n + 1)
  <2>1. m \in 1 .. m /\ m + o = n + 1
    BY <1>1, <1>2
  <2> QED
    BY <1>1, <1>2, <1>3, <2>1
<1> HIDE DEF n, m, Z
<1>8. ASSUME NEW i \in 1 .. m, r[i].id = c.id PROVE i = m
  <2>1. i + o \in 1 .. n + 1 /\ n + 1 \in 1 .. n + 1
    BY <1>1, <1>2
  <2>2. more[i + o].id = more[n + 1].id
    BY <1>1, <1>2, <1>8
  <2>3. i + o = n + 1
    BY <1>1, <2>1, <2>2
  <2> QED
    BY <1>1, <1>2, <2>3
<1>9. new = {z \in {Z(more, n + 1)} : IsPressure(c)}
  <2>1. ASSUME NEW z \in new PROVE z = Z(more, n + 1) /\ IsPressure(c)
    <3>1. PICK i \in 1 .. m : IsPressure(r[i]) /\ z = Z(r, i) /\ z.sources = <<c.id>>
      BY <1>4 DEF NewPressure
    <3>2. <<r[i].id>> = <<c.id>>
      BY <1>5, <3>1
    <3>3. r[i].id = c.id
      BY <3>2
    <3>4. i = m
      BY <1>8, <3>3
    <3> QED
      BY <1>7, <3>1, <3>4
  <2>2. ASSUME IsPressure(c) PROVE Z(more, n + 1) \in new
    <3>1. Z(r, m) \in DetectPressureWicks(r)
      BY <1>4, <1>7, <2>2
    <3>2. Z(r, m).sources = <<c.id>>
      BY <1>5, <1>7
    <3> QED
      BY <1>7, <3>1, <3>2 DEF NewPressure
  <2> HIDE DEF new
  <2> QED
    BY <2>1, <2>2
<1> HIDE DEF new
<1>10. 1 .. n + 1 = (1 .. n) \cup {n + 1}
  BY <1>1
<1>11. DetectPressureWicks(more) = DetectPressureWicks(cs) \cup new
  <2>1. ASSUME NEW z \in DetectPressureWicks(more) PROVE z \in DetectPressureWicks(cs) \cup new
    <3>1. PICK i \in (1 .. n) \cup {n + 1} : IsPressure(more[i]) /\ z = Z(more, i)
      BY <1>4, <1>10
    <3> QED
      BY <1>1, <1>4, <1>6, <1>9, <3>1
  <2>2. \A z \in DetectPressureWicks(cs) : z \in DetectPressureWicks(more)
    BY <1>1, <1>4, <1>6, <1>10
  <2>3. \A z \in new : z \in DetectPressureWicks(more)
    BY <1>1, <1>4, <1>9, <1>10
  <2> QED
    BY <2>1, <2>2, <2>3
<1>12. NewIn(new, c)
  <2>1. ASSUME NEW z \in new PROVE \E k \in DOMAIN z.sources : z.sources[k] = c.id
    <3>1. z.sources = <<more[n + 1].id>>
      BY <1>5, <1>9
    <3>2. z.sources = <<c.id>>
      BY <1>1, <3>1
    <3> QED
      BY <3>2
  <2> QED
    BY <2>1 DEF NewIn
<1> QED
  BY <1>11, <1>12 DEF new


\* A run of a chart is one of the longer chart.
LEMMA RunKept ==
  ASSUME NEW more, NEW cs, NEW c, OneMore(more, cs, c), NEW i \in Nat \ {0}, NEW j \in Nat, j <= Len(cs)
  PROVE  SubSeq(more, i, j) = SubSeq(cs, i, j)
<1>1. /\ Len(cs) \in Nat /\ Len(more) = Len(cs) + 1
      /\ \A m \in 1 .. Len(cs) : more[m] = cs[m]
      /\ more \in Seq(Range(more)) /\ cs \in Seq(Range(cs))
  BY ChartIs DEF OneMore
<1>2. /\ j <= Len(more) /\ i + 0 >= 1 /\ j + 0 <= Len(cs) /\ i + 0 = i /\ j + 0 = j
      /\ \A m \in i .. j : more[m] = cs[m + 0]
  BY <1>1
<1>3. SubSeq(more, i, j) = SubSeq(cs, i + 0, j + 0)
  BY <1>1, <1>2, SameRun
<1> QED
  BY <1>2, <1>3

\* The elements from i to j.
Run(s, i, j) == SubSeq(s, i, j)

\* A run of the end of a sequence is one of the sequence.
LEMMA RunOfEnd ==
  ASSUME NEW a, a \in Seq(Range(a)), NEW r, NEW o, EndOf(r, a, o), NEW i \in Nat \ {0}, NEW j \in Nat, j <= Len(r),
         NEW p, p = i + o, NEW q, q = j + o
  PROVE  Run(r, i, j) = Run(a, p, q)
<1> DEFINE S == Range(a)
<1>1. r \in Seq(S) /\ a \in Seq(S) /\ o \in Int /\ Len(r) \in Nat /\ Len(a) = Len(r) + o /\ o >= 0
  BY LenProperties DEF EndOf
<1>2. i + o >= 1 /\ j + o <= Len(a) /\ \A m \in i .. j : r[m] = a[m + o]
  <2>1. \A m \in i .. j : m \in 1 .. Len(r)
    BY <1>1
  <2> QED
    BY <1>1, <2>1 DEF EndOf
<1> HIDE DEF S
<1>3. SubSeq(r, i, j) = SubSeq(a, i + o, j + o)
  BY <1>1, <1>2, SameRun
<1> QED
  BY <1>3 DEF Run

-----------------------------------------------------------------------------
(* Bases.                                                                  *)

BaseTypes == {"BASE_RALLY", "BASE_DROP"}

\* The base of a run, whose last candle departs from the others.
BaseOf(cs, s) == SubSeq(cs, s[1], s[2] - 1)

\* The runs that are a base and its departure, f holding the ATRs.
BaseRuns(cs, f) ==
  {s \in Spans(Len(cs)) : /\ s[2] - s[1] \in Config.baseMin .. Config.baseMax
                          /\ IsBase(BaseOf(cs, s), cs[s[2]], f[s[2] - 1])}

\* The bases of a chart.
LEMMA BasesAre ==
  ASSUME NEW cs, ChartOK(cs)
  PROVE  DetectBases(cs) = {BaseZone(BaseOf(cs, s), cs[s[2]]) : s \in BaseRuns(cs, AtrSeries(cs))}
<1> DEFINE n == Len(cs)
           f == AtrSeries(cs)
           Start(b, l) == SubSeq(cs, b, (b + l) - 1)
           old == {s \in (1 .. n) \X (Config.baseMin .. Config.baseMax) :
                     s[1] + s[2] <= n /\ IsBase(Start(s[1], s[2]), cs[s[1] + s[2]], f[(s[1] + s[2]) - 1])}
<1>1. n \in Nat /\ Config.baseMin \in Nat \ {0} /\ Config.baseMax \in Nat
  BY ChartIs, DetectorConfig
<1>2. DetectBases(cs) = {BaseZone(Start(s[1], s[2]), cs[s[1] + s[2]]) : s \in old}
  BY DEF DetectBases
<1> HIDE DEF f, n
<1>3. ASSUME NEW s \in old
      PROVE  /\ <<s[1], s[1] + s[2]>> \in BaseRuns(cs, f)
             /\ BaseOf(cs, <<s[1], s[1] + s[2]>>) = Start(s[1], s[2])
  <2>1. s[1] \in 1 .. n /\ s[2] \in Config.baseMin .. Config.baseMax /\ s[1] + s[2] <= n
        /\ IsBase(Start(s[1], s[2]), cs[s[1] + s[2]], f[(s[1] + s[2]) - 1])
    OBVIOUS
  <2>2. s[1] + s[2] \in 1 .. n /\ s[1] <= s[1] + s[2] /\ (s[1] + s[2]) - s[1] = s[2]
    BY <1>1, <2>1
  <2>3. <<s[1], s[1] + s[2]>> \in Spans(n)
    BY <2>1, <2>2 DEF Spans
  <2> HIDE DEF old
  <2> QED
    BY <2>1, <2>2, <2>3 DEF BaseRuns, BaseOf, n
<1>4. ASSUME NEW s \in BaseRuns(cs, f)
      PROVE  /\ <<s[1], s[2] - s[1]>> \in old
             /\ BaseOf(cs, s) = Start(s[1], s[2] - s[1])
             /\ s[1] + (s[2] - s[1]) = s[2]
  <2>1. s[1] \in 1 .. n /\ s[2] \in 1 .. n /\ s[2] - s[1] \in Config.baseMin .. Config.baseMax
        /\ IsBase(BaseOf(cs, s), cs[s[2]], f[s[2] - 1])
    BY DEF BaseRuns, Spans, n
  <2>2. s[1] + (s[2] - s[1]) = s[2] /\ s[2] <= n
    BY <1>1, <2>1
  <2>3. BaseOf(cs, s) = Start(s[1], s[2] - s[1])
    BY <2>2 DEF BaseOf
  <2>4. <<s[1], s[2] - s[1]>> \in (1 .. n) \X (Config.baseMin .. Config.baseMax)
    BY <2>1
  <2> QED
    BY <2>1, <2>2, <2>3, <2>4
<1> HIDE DEF old, Start
<1>5. ASSUME NEW z \in DetectBases(cs)
      PROVE  z \in {BaseZone(BaseOf(cs, s), cs[s[2]]) : s \in BaseRuns(cs, f)}
  <2>1. PICK s \in old : z = BaseZone(Start(s[1], s[2]), cs[s[1] + s[2]])
    BY <1>2
  <2> DEFINE t == <<s[1], s[1] + s[2]>>
  <2>2. t \in BaseRuns(cs, f) /\ BaseOf(cs, t) = Start(s[1], s[2]) /\ t[2] = s[1] + s[2]
    BY <1>3
  <2> HIDE DEF t
  <2>3. z = BaseZone(BaseOf(cs, t), cs[t[2]])
    BY <2>1, <2>2
  <2> QED
    BY <2>2, <2>3
<1>6. ASSUME NEW s \in BaseRuns(cs, f)
      PROVE  BaseZone(BaseOf(cs, s), cs[s[2]]) \in DetectBases(cs)
  <2> DEFINE t == <<s[1], s[2] - s[1]>>
  <2>1. t \in old /\ BaseOf(cs, s) = Start(t[1], t[2]) /\ t[1] + t[2] = s[2]
    BY <1>4
  <2> HIDE DEF t
  <2> QED
    BY <1>2, <2>1
<1> QED
  BY <1>5, <1>6 DEF f

\* The zone of a base.
LEMMA BaseIs ==
  ASSUME NEW base, NEW d
  PROVE  /\ BaseZone(base, d).kind = "A" /\ BaseZone(base, d).type \in BaseTypes
         /\ BaseZone(base, d).sources = [i \in DOMAIN Append(base, d) |-> Append(base, d)[i].id]
<1> DEFINE kind == Directed(Bullish(d), "BASE_RALLY", "BASE_DROP")
<1>1. kind[1] \in BaseTypes
  BY DEF Directed, BaseTypes
<1> HIDE DEF kind
<1>2. \E top, bottom, tier :
        BaseZone(base, d) = Zone(kind[1], kind[2], top, bottom, tier, Append(base, d), d)
  BY DEF BaseZone, kind
<1>3. PICK top, bottom, tier :
        BaseZone(base, d) = Zone(kind[1], kind[2], top, bottom, tier, Append(base, d), d)
  BY <1>2
<1> DEFINE w == Append(base, d)
           z == Zone(kind[1], kind[2], top, bottom, tier, w, d)
<1> HIDE DEF w
<1>4. z.kind = "A" /\ z.type = kind[1] /\ z.sources = [i \in DOMAIN w |-> w[i].id]
  BY ZoneIs
<1>5. BaseZone(base, d) = z
  BY <1>3 DEF w
<1> HIDE DEF z
<1> QED
  BY <1>1, <1>4, <1>5 DEF w

\* The sources of a base are its run.
LEMMA BaseSources ==
  ASSUME NEW cs, ChartOK(cs), NEW p \in 1 .. Len(cs), NEW q \in 1 .. Len(cs), p < q
  PROVE  BaseZone(SubSeq(cs, p, q - 1), cs[q]).sources = IdsOf(cs, p, q)
<1> DEFINE b == SubSeq(cs, p, q - 1)
           d == cs[q]
           k == q - p
           e == q - 1
           S == Range(cs)
<1>1. Len(cs) \in Nat /\ cs \in Seq(S) /\ S = {cs[i] : i \in 1 .. Len(cs)}
  BY ChartIs
<1>2. /\ p \in Nat \ {0} /\ q \in Nat /\ k \in Nat \ {0} /\ e \in Nat /\ e <= Len(cs) /\ p <= e
      /\ e - p + 1 = k /\ k + 1 = (q - p) + 1
  BY <1>1
<1>3. d \in S
  BY <1>1
<1> HIDE DEF k, e, S
<1>4. /\ SubSeq(cs, p, e) \in Seq(S) /\ Len(SubSeq(cs, p, e)) = k
      /\ \A i \in 1 .. k : SubSeq(cs, p, e)[i] = cs[p + i - 1]
  <2>1. /\ SubSeq(cs, p, e) \in Seq(S)
        /\ Len(SubSeq(cs, p, e)) = IF p <= e THEN e - p + 1 ELSE 0
        /\ \A i \in 1 .. e - p + 1 : SubSeq(cs, p, e)[i] = cs[p + i - 1]
    BY <1>1, <1>2, RunOf
  <2> QED
    BY <1>2, <2>1
<1>5. b \in Seq(S) /\ Len(b) = k /\ \A i \in 1 .. k : b[i] = cs[p + i - 1]
  BY <1>4 DEF e
<1> HIDE DEF b, d
<1>6. Append(b, d) \in Seq(S) /\ Len(Append(b, d)) = k + 1
      /\ Append(b, d)[k + 1] = d /\ \A i \in 1 .. k : Append(b, d)[i] = b[i]
  BY <1>3, <1>5, AppendProperties
<1>7. DOMAIN Append(b, d) = 1 .. k + 1
  BY <1>6, LenProperties
<1>8. ASSUME NEW i \in 1 .. k + 1 PROVE Append(b, d)[i] = cs[(p + i) - 1]
  <2>1. (p + (k + 1)) - 1 = q
    BY <1>1 DEF k
  <2>2. i \in 1 .. k \/ i = k + 1
    BY <1>2
  <2>3. p + i - 1 = (p + i) - 1
    OBVIOUS
  <2> QED
    BY <1>5, <1>6, <2>1, <2>2, <2>3 DEF d
<1>9. BaseZone(b, d).sources = [i \in DOMAIN Append(b, d) |-> Append(b, d)[i].id]
  BY BaseIs
<1>10. BaseZone(b, d).sources = [i \in 1 .. k + 1 |-> cs[(p + i) - 1].id]
  <2> DEFINE w == Append(b, d)
  <2> HIDE DEF w
  <2>1. BaseZone(b, d).sources = [i \in 1 .. k + 1 |-> w[i].id]
    BY <1>7, <1>9 DEF w
  <2>2. \A i \in 1 .. k + 1 : w[i] = cs[(p + i) - 1]
    BY <1>8 DEF w
  <2> QED
    BY <2>1, <2>2
<1> QED
  BY <1>2, <1>10 DEF IdsOf, b, d

\* Bases are a family.
LEMMA BaseFamily ==
  ASSUME NEW cs, ChartOK(cs)
  PROVE  FamilyOK(DetectBases(cs), cs, BaseTypes)
<1> DEFINE runs == BaseRuns(cs, AtrSeries(cs))
           Z == [s \in runs |-> BaseZone(BaseOf(cs, s), cs[s[2]])]
<1>1. runs \in SUBSET Spans(Len(cs)) /\ \A s \in runs : s[1] < s[2]
  <2>1. Len(cs) \in Nat /\ Config.baseMin \in Nat \ {0} /\ Config.baseMax \in Nat
    BY ChartIs, DetectorConfig
  <2>2. ASSUME NEW s \in runs PROVE s \in Spans(Len(cs)) /\ s[1] < s[2]
    <3>1. s \in Spans(Len(cs)) /\ s[2] - s[1] \in Config.baseMin .. Config.baseMax
      BY DEF BaseRuns
    <3>2. s[1] \in 1 .. Len(cs) /\ s[2] \in 1 .. Len(cs)
      BY <3>1 DEF Spans
    <3> QED
      BY <2>1, <3>1, <3>2
  <2> QED
    BY <2>2
<1>2. DetectBases(cs) = {BaseZone(BaseOf(cs, s), cs[s[2]]) : s \in runs}
  BY BasesAre
<1> HIDE DEF runs
<1>3. ASSUME NEW s \in runs
      PROVE  Z[s].kind = "A" /\ Z[s].type \in BaseTypes /\ Z[s].sources = IdsOf(cs, s[1], s[2])
  <2>1. s[1] \in 1 .. Len(cs) /\ s[2] \in 1 .. Len(cs) /\ s[1] < s[2]
    BY <1>1 DEF Spans
  <2>2. BaseZone(BaseOf(cs, s), cs[s[2]]).sources = IdsOf(cs, s[1], s[2])
    BY <2>1, BaseSources DEF BaseOf
  <2> QED
    BY <2>2, BaseIs
<1>4. (\A z \in DetectBases(cs) : \E s \in runs : z = Z[s]) /\ (\A s \in runs : Z[s] \in DetectBases(cs))
  BY <1>2
<1> HIDE DEF Z
<1> QED
  BY <1>1, <1>3, <1>4, FamilyIs

\* One candle more may depart from bases.
LEMMA BaseStep ==
  ASSUME NEW more, NEW cs, NEW c, OneMore(more, cs, c), NEW r, NEW o, EndOf(r, more, o),
         \/ o = 0 \/ Len(r) > Config.baseMax,
         NEW f, AtrsOK(f, cs), NEW x, AtrsOK(Append(f, x), more)
  PROVE  LET new == NewBases(r, IF f = << >> THEN None ELSE Last(f))
         IN  /\ DetectBases(more) = DetectBases(cs) \cup new
             /\ NewIn(new, c)
<1> DEFINE n == Len(cs)
           m == Len(r)
           g == Append(f, x)
           before == IF f = << >> THEN None ELSE Last(f)
           new == NewBases(r, before)
           Z(q, s) == BaseZone(BaseOf(q, s), q[s[2]])
           Local(k) == SubSeq(r, m - k, m - 1)
<1>1. /\ n \in Nat /\ Len(more) = n + 1 /\ more[n + 1] = c
      /\ \A i \in 1 .. n : more[i] = cs[i]
      /\ more \in Seq(Range(more)) /\ ChartOK(cs) /\ ChartOK(more)
  BY ChartIs DEF OneMore
<1>2. /\ o \in Nat /\ n + 1 = m + o /\ m \in Nat
      /\ \A i \in 1 .. m : r[i] = more[i + o]
      /\ m = 0 \/ r[m] = c
  <2>1. o \in Nat /\ n + 1 = m + o /\ m \in Nat /\ \A i \in 1 .. m : r[i] = more[i + o]
    BY <1>1, LenProperties DEF EndOf
  <2>2. ASSUME m # 0 PROVE r[m] = c
    <3>1. m \in 1 .. m /\ m + o = n + 1
      BY <2>1, <2>2
    <3> QED
      BY <1>1, <2>1, <3>1
  <2> QED
    BY <2>1, <2>2
<1>3. Config.baseMin \in Nat \ {0} /\ Config.baseMax \in Nat
  BY DetectorConfig
<1>4. f = AtrSeries(cs) /\ g = AtrSeries(more)
  BY <1>1, AtrsAreBatch DEF ChartOK
<1>5. \A i \in 1 .. n : g[i] = f[i]
  <2>1. f \in Seq(Nat \cup {None}) /\ Len(f) = n
    BY DEF AtrsOK
  <2> QED
    BY <2>1
<1>6. n > 0 => before = f[n]
  <2>1. f \in Seq(Nat \cup {None}) /\ Len(f) = n
    BY DEF AtrsOK
  <2>2. n > 0 => f # << >>
    BY <2>1, EmptySeq
  <2> QED
    BY <2>1, <2>2 DEF Last
<1>7. /\ DetectBases(cs) = {Z(cs, s) : s \in BaseRuns(cs, f)}
      /\ DetectBases(more) = {Z(more, s) : s \in BaseRuns(more, g)}
  BY <1>1, <1>4, BasesAre
<1>8. new = {BaseZone(Local(k), Last(r)) :
               k \in {l \in Config.baseMin .. Config.baseMax : l + 1 <= m /\ IsBase(Local(l), Last(r), before)}}
  BY DEF NewBases
<1>9. Last(r) = r[m]
  BY DEF Last
<1> HIDE DEF n, m, g, before, new, Local
<1>10. ASSUME NEW s \in Spans(n), s[2] - s[1] \in Config.baseMin .. Config.baseMax
       PROVE  /\ s \in Spans(n + 1) /\ BaseOf(more, s) = BaseOf(cs, s) /\ more[s[2]] = cs[s[2]]
              /\ g[s[2] - 1] = f[s[2] - 1]
  <2>1. s[1] \in 1 .. n /\ s[2] \in 1 .. n /\ s[1] <= s[2] /\ s \in (1 .. n) \X (1 .. n)
    BY DEF Spans
  <2>2. s \in (1 .. n + 1) \X (1 .. n + 1) /\ s[2] - 1 \in 1 .. n
    BY <1>1, <1>3, <1>10, <2>1
  <2>3. s \in Spans(n + 1)
    BY <2>1, <2>2 DEF Spans
  <2>4. s[1] \in Nat \ {0} /\ s[2] - 1 \in Nat /\ s[2] - 1 <= Len(cs)
    BY <1>1, <2>1 DEF n
  <2>5. BaseOf(more, s) = BaseOf(cs, s)
    BY <2>4, RunKept DEF BaseOf
  <2> QED
    BY <1>1, <1>5, <2>1, <2>2, <2>3, <2>5
<1>11. ASSUME NEW k \in Config.baseMin .. Config.baseMax, k + 1 <= n + 1
       PROVE  /\ k + 1 <= m
              /\ <<(n + 1) - k, n + 1>> \in Spans(n + 1)
              /\ Local(k) = BaseOf(more, <<(n + 1) - k, n + 1>>)
              /\ before = g[(n + 1) - 1] /\ Last(r) = more[n + 1]
  <2>1. k \in Nat \ {0} /\ k <= Config.baseMax
    BY <1>3
  <2>2. k + 1 <= m
    <3>1. CASE o = 0
      BY <1>1, <1>2, <1>11, <3>1
    <3>2. CASE m > Config.baseMax
      BY <1>2, <1>3, <2>1, <3>2
    <3> QED
      BY <3>1, <3>2 DEF m
  <2>3. (n + 1) - k \in 1 .. n + 1 /\ n + 1 \in 1 .. n + 1 /\ (n + 1) - k <= n + 1
    BY <1>1, <1>11, <2>1
  <2>4. m - k \in Nat \ {0} /\ m - 1 \in Nat /\ m - 1 <= m /\ (m - k) + o = (n + 1) - k /\ (m - 1) + o = (n + 1) - 1
    BY <1>2, <2>1, <2>2
  <2> DEFINE i == m - k
             j == m - 1
  <2> HIDE DEF i, j
  <2> DEFINE p == (n + 1) - k
             q == (n + 1) - 1
  <2>5. Run(r, i, j) = Run(more, p, q)
    <3>1. p = i + o /\ q = j + o
      BY <2>4 DEF i, j
    <3>2. i \in Nat \ {0} /\ j \in Nat /\ j <= Len(r) /\ o \in Nat /\ more \in Seq(Range(more)) /\ EndOf(r, more, o)
      BY <1>1, <1>2, <2>4 DEF i, j, m
    <3> HIDE DEF p, q
    <3> QED
      BY <3>1, <3>2, RunOfEnd
  <2>6. Local(k) = BaseOf(more, <<(n + 1) - k, n + 1>>)
    BY <2>4, <2>5 DEF Local, BaseOf, Run, i, j
  <2>7. n > 0 /\ n \in 1 .. n /\ (n + 1) - 1 = n
    BY <1>1, <1>11, <2>1
  <2>8. before = g[(n + 1) - 1]
    BY <1>5, <1>6, <2>7
  <2>9. Last(r) = more[n + 1]
    BY <1>1, <1>2, <1>9, <2>1, <2>2
  <2>10. <<(n + 1) - k, n + 1>> \in Spans(n + 1)
    BY <2>3 DEF Spans
  <2> QED
    BY <2>2, <2>6, <2>8, <2>9, <2>10
<1>12. ASSUME NEW z \in DetectBases(cs) PROVE z \in DetectBases(more)
  <2>1. PICK s \in BaseRuns(cs, f) : z = Z(cs, s)
    BY <1>7
  <2>2. /\ s \in Spans(n) /\ s[2] - s[1] \in Config.baseMin .. Config.baseMax
        /\ IsBase(BaseOf(cs, s), cs[s[2]], f[s[2] - 1])
    BY DEF BaseRuns, n
  <2>3. s \in BaseRuns(more, g)
    BY <1>1, <1>10, <2>2 DEF BaseRuns
  <2>4. Z(more, s) = Z(cs, s)
    BY <1>10, <2>2
  <2> QED
    BY <1>7, <2>1, <2>3, <2>4
<1>13. ASSUME NEW k \in Config.baseMin .. Config.baseMax, k + 1 <= m, IsBase(Local(k), Last(r), before)
       PROVE  /\ BaseZone(Local(k), Last(r)) \in DetectBases(more)
              /\ \E i \in DOMAIN BaseZone(Local(k), Last(r)).sources : BaseZone(Local(k), Last(r)).sources[i] = c.id
  <2> DEFINE s == <<(n + 1) - k, n + 1>>
  <2>1. k + 1 <= n + 1 /\ k \in Nat \ {0} /\ k <= n
    BY <1>1, <1>2, <1>3, <1>13
  <2>2. /\ s \in Spans(n + 1) /\ Local(k) = BaseOf(more, s) /\ before = g[(n + 1) - 1] /\ Last(r) = more[n + 1]
        /\ s[2] = n + 1 /\ s[1] = (n + 1) - k
    BY <1>11, <2>1
  <2>3. s[2] - s[1] = k /\ s[1] < s[2]
    BY <1>1, <2>1, <2>2
  <2> HIDE DEF s
  <2>4. s \in BaseRuns(more, g)
    BY <1>1, <1>13, <2>2, <2>3 DEF BaseRuns
  <2>5. BaseZone(Local(k), Last(r)) = Z(more, s)
    BY <2>2
  <2>6. Z(more, s).sources = IdsOf(more, s[1], s[2])
    <3>1. s[1] \in 1 .. Len(more) /\ s[2] \in 1 .. Len(more)
      BY <1>1, <2>2 DEF Spans
    <3> QED
      BY <1>1, <2>3, <3>1, BaseSources DEF BaseOf
  <2>7. k + 1 \in 1 .. (s[2] - s[1]) + 1 /\ (s[1] + (k + 1)) - 1 = n + 1
    BY <1>1, <2>1, <2>2, <2>3
  <2> HIDE DEF Z
  <2>8. k + 1 \in DOMAIN Z(more, s).sources /\ Z(more, s).sources[k + 1] = c.id
    BY <1>1, <2>6, <2>7 DEF IdsOf
  <2> QED
    BY <1>7, <2>4, <2>5, <2>8
<1>14. ASSUME NEW z \in DetectBases(more) PROVE z \in DetectBases(cs) \/ z \in new
  <2>1. PICK s \in BaseRuns(more, g) : z = Z(more, s)
    BY <1>7
  <2>2. /\ s \in Spans(n + 1) /\ s[2] - s[1] \in Config.baseMin .. Config.baseMax
        /\ IsBase(BaseOf(more, s), more[s[2]], g[s[2] - 1])
    BY <1>1 DEF BaseRuns
  <2>3. s[1] \in 1 .. n + 1 /\ s[2] \in 1 .. n + 1 /\ s[1] <= s[2] /\ s = <<s[1], s[2]>>
    BY <2>2 DEF Spans
  <2>4. CASE s[2] \in 1 .. n
    <3>1. s[1] \in 1 .. n
      BY <1>1, <2>3, <2>4
    <3>2. s \in Spans(n)
      BY <2>3, <2>4, <3>1 DEF Spans
    <3>3. s \in BaseRuns(cs, f)
      BY <1>10, <2>2, <3>2 DEF BaseRuns, n
    <3>4. Z(more, s) = Z(cs, s)
      BY <1>10, <2>2, <3>2
    <3> QED
      BY <1>7, <2>1, <3>3, <3>4
  <2>5. CASE s[2] = n + 1
    <3> DEFINE k == s[2] - s[1]
    <3>1. k \in Config.baseMin .. Config.baseMax /\ k + 1 <= n + 1 /\ s[1] = (n + 1) - k
      BY <1>1, <2>2, <2>3, <2>5
    <3> HIDE DEF k
    <3>2. s = <<(n + 1) - k, n + 1>>
      BY <2>3, <2>5, <3>1
    <3>3. k + 1 <= m /\ Local(k) = BaseOf(more, s) /\ before = g[s[2] - 1] /\ Last(r) = more[s[2]]
      BY <1>11, <2>5, <3>1, <3>2
    <3>4. IsBase(Local(k), Last(r), before) /\ z = BaseZone(Local(k), Last(r))
      BY <2>1, <2>2, <3>3
    <3> QED
      BY <1>8, <3>1, <3>3, <3>4
  <2> QED
    BY <1>1, <2>3, <2>4, <2>5
<1>15. DetectBases(more) = DetectBases(cs) \cup new
  <2>1. \A z \in new : z \in DetectBases(more)
    BY <1>8, <1>13
  <2> QED
    BY <1>12, <1>14, <2>1
<1>16. NewIn(new, c)
  BY <1>8, <1>13 DEF NewIn
<1> QED
  BY <1>15, <1>16 DEF new, before

-----------------------------------------------------------------------------
(* Reversal candles.                                                       *)

ReversalTypes == {"SELL_TO_BUY_CANDLE", "BUY_TO_SELL_CANDLE"}

\* The origins that are confirmed.
Origins(cs) ==
  {i \in (Config.lookback + 1) .. Len(cs) :
     Reverses(cs, i, Config.reversalStandard) /\ Confirmations(cs, i) # {}}

\* The zone of a reversal candle.
LEMMA ReversalIs ==
  ASSUME NEW cs, NEW i
  PROVE  /\ ReversalZone(cs, i).kind = "A" /\ ReversalZone(cs, i).type \in ReversalTypes
         /\ ReversalZone(cs, i).sources = <<cs[i].id>>
         /\ ReversalZone(cs, i).available = cs[Min(Confirmations(cs, i))].available
<1> DEFINE kind == Directed(Bearish(cs[i]), "SELL_TO_BUY_CANDLE", "BUY_TO_SELL_CANDLE")
           d == cs[i]
           by == cs[Min(Confirmations(cs, i))]
           w == <<d>>
           tier == Tier(Reverses(cs, i, Config.reversalStrong))
           z == Zone(kind[1], kind[2], d.high, d.low, tier, w, by)
<1>1. kind[1] \in ReversalTypes
  BY DEF Directed, ReversalTypes
<1>2. [k \in DOMAIN w |-> w[k].id] = <<d.id>>
  OBVIOUS
<1>3. ReversalZone(cs, i) = z
  BY DEF ReversalZone
<1> HIDE DEF kind, tier, w, d, by
<1>4. z.kind = "A" /\ z.type = kind[1] /\ z.sources = [k \in DOMAIN w |-> w[k].id] /\ z.available = by.available
  BY ZoneIs
<1> QED
  BY <1>1, <1>2, <1>3, <1>4 DEF d, by

\* The zone depends on the origin, its tier and the candle that confirms.
LEMMA SameReversal ==
  ASSUME NEW a, NEW i, NEW b, NEW j, a[i] = b[j],
         Reverses(a, i, Config.reversalStrong) <=> Reverses(b, j, Config.reversalStrong),
         a[Min(Confirmations(a, i))] = b[Min(Confirmations(b, j))]
  PROVE  ReversalZone(a, i) = ReversalZone(b, j)
<1>1. Tier(Reverses(a, i, Config.reversalStrong)) = Tier(Reverses(b, j, Config.reversalStrong))
  BY DEF Tier
<1> QED
  BY <1>1 DEF ReversalZone

\* Whether a candle reverses depends on it and the ones it is compared with.
LEMMA SameReverses ==
  ASSUME NEW a, NEW i \in Int, NEW b, NEW o \in Int, NEW j, j = i + o,
         \A k \in (i - Config.lookback) .. i : a[k] = b[k + o], NEW setting
  PROVE  Reverses(a, i, setting) <=> Reverses(b, j, setting)
<1> DEFINE l == Config.lookback
           A == {TotalRange(a[k]) : k \in (i - l) .. (i - 1)}
           B == {TotalRange(b[k]) : k \in (j - l) .. (j - 1)}
<1>1. l \in Nat \ {0} /\ j \in Int
  BY DetectorConfig
<1>2. a[i] = b[j]
  <2>1. i \in (i - l) .. i
    BY <1>1
  <2> QED
    BY <2>1
<1>3. A = B
  <2>1. ASSUME NEW k \in (i - l) .. (i - 1) PROVE TotalRange(a[k]) \in B
    <3>1. k + o \in (j - l) .. (j - 1) /\ k \in (i - l) .. i
      BY <1>1
    <3>2. a[k] = b[k + o]
      BY <3>1
    <3> QED
      BY <3>1, <3>2
  <2>2. ASSUME NEW k \in (j - l) .. (j - 1) PROVE TotalRange(b[k]) \in A
    <3>1. k - o \in (i - l) .. (i - 1) /\ k - o \in (i - l) .. i /\ (k - o) + o = k
      BY <1>1
    <3>2. a[k - o] = b[k]
      BY <3>1
    <3> QED
      BY <3>1, <3>2
  <2> QED
    BY <2>1, <2>2
<1>4. Reverses(a, i, setting)
        <=> LET c == a[i]
                baseline == Max(A)
            IN  /\ baseline > 0
                /\ AtLeast(TotalRange(c), baseline, setting.size)
                /\ AtLeast(Body(c), TotalRange(c), setting.body)
                /\ \/ Bearish(c) /\ AtLeast(BearishPosition(c), TotalRange(c), setting.position)
                   \/ Bullish(c) /\ AtLeast(BullishPosition(c), TotalRange(c), setting.position)
  BY DEF Reverses
<1>5. Reverses(b, j, setting)
        <=> LET c == b[j]
                baseline == Max(B)
            IN  /\ baseline > 0
                /\ AtLeast(TotalRange(c), baseline, setting.size)
                /\ AtLeast(Body(c), TotalRange(c), setting.body)
                /\ \/ Bearish(c) /\ AtLeast(BearishPosition(c), TotalRange(c), setting.position)
                   \/ Bullish(c) /\ AtLeast(BullishPosition(c), TotalRange(c), setting.position)
  BY DEF Reverses
<1> HIDE DEF A, B
<1> QED
  BY <1>2, <1>3, <1>4, <1>5

\* A close beyond the middle of an origin.
Confirms(c, origin) ==
  IF Bearish(origin) THEN 2 * c.close > origin.high + origin.low ELSE 2 * c.close < origin.high + origin.low

\* The candles that may confirm.
LEMMA ConfirmationsAre ==
  ASSUME NEW cs, Len(cs) \in Nat, NEW i \in Nat
  PROVE  /\ Confirmations(cs, i)
              = {p \in 1 .. Len(cs) : i < p /\ p <= i + Config.confirmationWindow /\ Confirms(cs[p], cs[i])}
         /\ Confirmations(cs, i) # {} =>
              /\ Min(Confirmations(cs, i)) \in Confirmations(cs, i)
              /\ \A p \in Confirmations(cs, i) : Min(Confirmations(cs, i)) <= p
<1> DEFINE w == Config.confirmationWindow
           n == Len(cs)
<1>1. w \in Nat \ {0}
  BY DetectorConfig
<1>2. Confirmations(cs, i) = {p \in (i + 1) .. Smallest(i + w, n) : Confirms(cs[p], cs[i])}
  BY DEF Confirmations, Confirms
<1> HIDE DEF w, n
<1>3. n \in Nat
  BY DEF n
<1>4. \A p : p \in (i + 1) .. Smallest(i + w, n) <=> p \in 1 .. n /\ i < p /\ p <= i + w
  BY <1>1, <1>3 DEF Smallest
<1>5. Confirmations(cs, i) = {p \in 1 .. n : i < p /\ p <= i + w /\ Confirms(cs[p], cs[i])}
  BY <1>2, <1>4
<1>6. Confirmations(cs, i) \in SUBSET Nat
  BY <1>3, <1>5
<1> QED
  BY <1>5, <1>6, LeastOf DEF n, w

\* Reversal candles are a family, each known with a candle of the chart.
LEMMA ReversalFamily ==
  ASSUME NEW cs, ChartOK(cs)
  PROVE  /\ FamilyOK(DetectReversalCandles(cs), cs, ReversalTypes)
         /\ \A z \in DetectReversalCandles(cs) : \E p \in 1 .. Len(cs) : z.available = cs[p].available
<1> DEFINE n == Len(cs)
           runs == {s \in Spans(n) : s[2] = s[1] /\ s[1] \in Origins(cs)}
           Z == [s \in runs |-> ReversalZone(cs, s[1])]
           found == DetectReversalCandles(cs)
<1>1. n \in Nat /\ Config.lookback \in Nat \ {0}
  BY ChartIs, DetectorConfig
<1>2. found = {ReversalZone(cs, i) : i \in Origins(cs)}
  BY DEF DetectReversalCandles, Origins
<1>3. \A i \in Origins(cs) : i \in 1 .. n
  BY <1>1 DEF Origins
<1>4. ASSUME NEW s \in runs
      PROVE  Z[s].kind = "A" /\ Z[s].type \in ReversalTypes /\ Z[s].sources = IdsOf(cs, s[1], s[2])
  <2>1. s[1] \in 1 .. n /\ s[2] = s[1] /\ Z[s] = ReversalZone(cs, s[1])
    BY DEF Spans
  <2>2. IdsOf(cs, s[1], s[1]) = <<cs[s[1]].id>>
    <3>1. (s[1] - s[1]) + 1 = 1
      BY <1>1, <2>1
    <3>2. IdsOf(cs, s[1], s[1]) = [k \in 1 .. 1 |-> cs[(s[1] + k) - 1].id]
      BY <3>1 DEF IdsOf
    <3>3. \A k \in 1 .. 1 : (s[1] + k) - 1 = s[1]
      BY <1>1, <2>1
    <3> QED
      BY <3>2, <3>3
  <2> QED
    BY <2>1, <2>2, ReversalIs
<1>5. runs \in SUBSET Spans(n)
  OBVIOUS
<1>6. ASSUME NEW z \in found PROVE \E s \in runs : z = Z[s]
  <2>1. PICK i \in Origins(cs) : z = ReversalZone(cs, i)
    BY <1>2
  <2>2. <<i, i>> \in runs
    BY <1>1, <1>3 DEF Spans
  <2>3. Z[<<i, i>>] = ReversalZone(cs, i)
    BY <2>2
  <2> QED
    BY <2>1, <2>2, <2>3
<1>7. \A s \in runs : Z[s] \in found
  BY <1>2
<1>8. ASSUME NEW z \in found PROVE \E p \in 1 .. n : z.available = cs[p].available
  <2>1. PICK i \in Origins(cs) : z = ReversalZone(cs, i)
    BY <1>2
  <2>2. i \in Nat /\ Confirmations(cs, i) # {}
    BY <1>3 DEF Origins
  <2>3. Min(Confirmations(cs, i)) \in 1 .. n
    BY <1>1, <2>2, ConfirmationsAre
  <2> QED
    BY <2>1, <2>3, ReversalIs
<1> HIDE DEF runs, Z, found
<1>9. FamilyOK(found, cs, ReversalTypes)
  BY <1>4, <1>5, <1>6, <1>7, FamilyIs
<1> QED
  BY <1>8, <1>9 DEF found

\* The origins of a chart stay what they are when one candle more comes.
LEMMA ReversalKept ==
  ASSUME NEW more, NEW cs, NEW c, OneMore(more, cs, c),
         NEW i \in (Config.lookback + 1) .. Len(cs)
  PROVE  /\ \A setting : Reverses(cs, i, setting) <=> Reverses(more, i, setting)
         /\ Confirmations(cs, i) = Confirmations(more, i) \ {Len(cs) + 1}
         /\ Confirmations(cs, i) # {} => ReversalZone(cs, i) = ReversalZone(more, i)
<1> DEFINE n == Len(cs)
           l == Config.lookback
           C == Confirmations(cs, i)
           D == Confirmations(more, i)
<1>1. /\ n \in Nat /\ Len(more) = n + 1 /\ more[n + 1] = c
      /\ \A k \in 1 .. n : more[k] = cs[k]
  BY ChartIs DEF OneMore
<1>2. l \in Nat \ {0}
  BY DetectorConfig
<1>3. i \in 1 .. n /\ i - l >= 1 /\ i \in Nat
  BY <1>1, <1>2
<1>4. ASSUME NEW setting PROVE Reverses(cs, i, setting) <=> Reverses(more, i, setting)
  <2> DEFINE o == 0
  <2>1. i = i + o /\ o \in Int /\ i \in Int /\ \A k \in (i - l) .. i : cs[k] = more[k + o]
    BY <1>1, <1>2, <1>3
  <2> HIDE DEF o
  <2> QED
    BY <2>1, SameReverses
<1>5. /\ C = {p \in 1 .. n : i < p /\ p <= i + Config.confirmationWindow /\ Confirms(cs[p], cs[i])}
      /\ D = {p \in 1 .. n + 1 : i < p /\ p <= i + Config.confirmationWindow /\ Confirms(more[p], more[i])}
      /\ C # {} => Min(C) \in C /\ \A p \in C : Min(C) <= p
      /\ D # {} => Min(D) \in D /\ \A p \in D : Min(D) <= p
  <2>1. Len(more) \in Nat
    BY <1>1
  <2> QED
    BY <1>1, <1>3, <2>1, ConfirmationsAre
<1> HIDE DEF C, D, n, l
<1>6. C = D \ {n + 1}
  <2>1. \A p : p \in 1 .. n <=> p \in 1 .. n + 1 /\ p # n + 1
    BY <1>1
  <2> QED
    BY <1>1, <1>3, <1>5, <2>1
<1>7. ASSUME C # {} PROVE ReversalZone(cs, i) = ReversalZone(more, i)
  <2>1. Min(C) \in C /\ (\A p \in C : Min(C) <= p) /\ Min(D) \in D /\ (\A p \in D : Min(D) <= p)
    BY <1>5, <1>6, <1>7
  <2>2. Min(C) \in 1 .. n /\ Min(C) \in D /\ Min(D) \in 1 .. n + 1
    BY <1>5, <1>6, <2>1
  <2>3. Min(D) <= Min(C) /\ Min(C) # n + 1
    BY <1>1, <2>1, <2>2
  <2>4. Min(D) # n + 1
    BY <1>1, <2>2, <2>3
  <2>5. Min(D) \in C
    BY <1>6, <2>1, <2>4
  <2>6. Min(C) <= Min(D)
    BY <2>1, <2>5
  <2>7. Min(C) = Min(D)
    BY <1>1, <2>2, <2>3, <2>6
  <2>8. cs[Min(C)] = more[Min(D)] /\ cs[i] = more[i]
    BY <1>1, <1>3, <2>2, <2>7
  <2> QED
    BY <1>4, <2>8, SameReversal DEF C, D
<1> QED
  BY <1>4, <1>6, <1>7 DEF C, D, n

\* The end of a sequence has its origins, with enough candles before them.
LEMMA ReversalEnd ==
  ASSUME NEW a, a \in Seq(Range(a)), NEW r, NEW o, EndOf(r, a, o),
         NEW i \in (Config.lookback + 1) .. Len(r), NEW j, j = i + o
  PROVE  /\ j \in (Config.lookback + 1) .. Len(a)
         /\ \A setting : Reverses(r, i, setting) <=> Reverses(a, j, setting)
         /\ \A p \in 1 .. Len(r) : p \in Confirmations(r, i) <=> p + o \in Confirmations(a, j)
         /\ Confirmations(r, i) # {} <=> Confirmations(a, j) # {}
         /\ Confirmations(r, i) # {} => ReversalZone(r, i) = ReversalZone(a, j)
<1> DEFINE n == Len(a)
           m == Len(r)
           l == Config.lookback
           w == Config.confirmationWindow
           C == Confirmations(r, i)
           D == Confirmations(a, j)
<1>1. n \in Nat /\ m \in Nat /\ o \in Nat /\ n = m + o /\ \A k \in 1 .. m : r[k] = a[k + o]
  BY LenProperties DEF EndOf
<1>2. l \in Nat \ {0} /\ w \in Nat \ {0}
  BY DetectorConfig
<1>3. i \in 1 .. m /\ i - l >= 1 /\ i \in Nat /\ j \in Nat /\ j \in (l + 1) .. n
  BY <1>1, <1>2
<1>4. ASSUME NEW setting PROVE Reverses(r, i, setting) <=> Reverses(a, j, setting)
  <2>1. \A k \in (i - l) .. i : r[k] = a[k + o]
    <3>1. \A k \in (i - l) .. i : k \in 1 .. m
      BY <1>1, <1>2, <1>3
    <3> QED
      BY <1>1, <3>1
  <2>2. i \in Int /\ o \in Int
    BY <1>1, <1>3
  <2> QED
    BY <2>1, <2>2, SameReverses
<1>5. /\ C = {p \in 1 .. m : i < p /\ p <= i + w /\ Confirms(r[p], r[i])}
      /\ D = {p \in 1 .. n : j < p /\ p <= j + w /\ Confirms(a[p], a[j])}
      /\ C # {} => Min(C) \in C /\ \A p \in C : Min(C) <= p
      /\ D # {} => Min(D) \in D /\ \A p \in D : Min(D) <= p
  BY <1>1, <1>3, ConfirmationsAre
<1> HIDE DEF C, D, n, l, w, m
<1>6. r[i] = a[j]
  BY <1>1, <1>3
<1>7. ASSUME NEW p \in 1 .. m PROVE p \in C <=> p + o \in D
  <2>1. p + o \in 1 .. n /\ (i < p <=> i + o < p + o) /\ (p <= i + w <=> p + o <= (i + o) + w)
    BY <1>1, <1>2, <1>3
  <2>2. r[p] = a[p + o]
    BY <1>1
  <2> QED
    BY <1>5, <1>6, <2>1, <2>2
<1>8. ASSUME NEW p \in D PROVE p - o \in 1 .. m /\ p - o \in C /\ (p - o) + o = p
  <2>1. p \in 1 .. n /\ j < p
    BY <1>5
  <2>2. p - o \in 1 .. m /\ (p - o) + o = p
    BY <1>1, <1>3, <2>1
  <2> QED
    BY <1>7, <2>2
<1>9. C # {} <=> D # {}
  BY <1>5, <1>7, <1>8
<1>10. ASSUME C # {} PROVE ReversalZone(r, i) = ReversalZone(a, j)
  <2>1. Min(C) \in C /\ (\A p \in C : Min(C) <= p) /\ Min(D) \in D /\ (\A p \in D : Min(D) <= p)
    BY <1>5, <1>9, <1>10
  <2>2. Min(C) \in 1 .. m /\ Min(C) + o \in D /\ Min(D) \in 1 .. n
    BY <1>5, <1>7, <2>1
  <2>3. Min(D) - o \in C /\ Min(D) - o \in 1 .. m
    BY <1>8, <2>1
  <2>4. Min(D) <= Min(C) + o /\ Min(C) <= Min(D) - o
    BY <2>1, <2>2, <2>3
  <2>5. Min(D) = Min(C) + o
    <3> DEFINE x == Min(C)
               y == Min(D)
    <3>1. x \in Int /\ y \in Int /\ o \in Int /\ y <= x + o /\ x <= y - o
      BY <1>1, <2>2, <2>4
    <3> HIDE DEF x, y
    <3>2. y = x + o
      BY <3>1
    <3> QED
      BY <3>2 DEF x, y
  <2>6. r[Min(C)] = a[Min(D)]
    BY <1>1, <2>2, <2>5
  <2> QED
    BY <1>4, <1>6, <2>6, SameReversal DEF C, D
<1> QED
  BY <1>3, <1>4, <1>7, <1>9, <1>10 DEF C, D, n, m, l

\* One candle more may confirm origins of the slice.
LEMMA ReversalStep ==
  ASSUME NEW more, NEW cs, NEW c, OneMore(more, cs, c), NEW r, NEW o, EndOf(r, more, o), Len(r) > 0,
         \/ o = 0 \/ Len(r) >= 1 + Config.lookback + Config.confirmationWindow
  PROVE  DetectReversalCandles(more)
           = DetectReversalCandles(cs) \cup {z \in DetectReversalCandles(r) : z.available = c.available}
<1> DEFINE n == Len(cs)
           m == Len(r)
           l == Config.lookback
           w == Config.confirmationWindow
           new == {z \in DetectReversalCandles(r) : z.available = c.available}
<1>1. /\ n \in Nat /\ Len(more) = n + 1 /\ more[n + 1] = c
      /\ \A k \in 1 .. n : more[k] = cs[k]
      /\ more \in Seq(Range(more))
  BY ChartIs DEF OneMore
<1>2. l \in Nat \ {0} /\ w \in Nat \ {0}
  BY DetectorConfig
<1>3. m \in Nat \ {0} /\ o \in Nat /\ n + 1 = m + o /\ \A k \in 1 .. m : r[k] = more[k + o]
  BY <1>1, LenProperties DEF EndOf
<1>4. \A q : DetectReversalCandles(q) = {ReversalZone(q, i) : i \in Origins(q)}
  BY DEF DetectReversalCandles, Origins
<1> HIDE DEF n, m
<1>5. ASSUME NEW i \in Origins(cs)
      PROVE  i \in Origins(more) /\ ReversalZone(cs, i) = ReversalZone(more, i)
  <2>1. i \in (l + 1) .. n /\ Reverses(cs, i, Config.reversalStandard) /\ Confirmations(cs, i) # {}
    BY DEF Origins, n
  <2>2. i \in (l + 1) .. n + 1
    BY <1>1, <1>2, <2>1
  <2>3. /\ Reverses(more, i, Config.reversalStandard) /\ Confirmations(more, i) # {}
        /\ ReversalZone(cs, i) = ReversalZone(more, i)
    BY <2>1, ReversalKept DEF n
  <2> QED
    BY <1>1, <2>2, <2>3 DEF Origins
<1>6. ASSUME NEW i \in Origins(r)
      PROVE  ReversalZone(r, i) \in DetectReversalCandles(more)
  <2>1. i \in (l + 1) .. m /\ Reverses(r, i, Config.reversalStandard) /\ Confirmations(r, i) # {}
    BY DEF Origins, m
  <2> DEFINE j == i + o
  <2> HIDE DEF j
  <2>2. /\ j \in (l + 1) .. Len(more) /\ Reverses(more, j, Config.reversalStandard) /\ Confirmations(more, j) # {}
        /\ ReversalZone(r, i) = ReversalZone(more, j)
    <3>1. j = i + o
      BY DEF j
    <3> QED
      BY <1>1, <2>1, <3>1, ReversalEnd DEF m
  <2>3. j \in Origins(more)
    BY <2>2 DEF Origins
  <2> QED
    BY <1>4, <2>2, <2>3
<1>7. ASSUME NEW i \in Origins(more), i \notin Origins(cs)
      PROVE  ReversalZone(more, i) \in new
  <2>1. i \in (l + 1) .. n + 1 /\ Reverses(more, i, Config.reversalStandard) /\ Confirmations(more, i) # {}
    BY <1>1 DEF Origins
  <2>2. /\ Confirmations(more, i)
             = {p \in 1 .. n + 1 : i < p /\ p <= i + w /\ Confirms(more[p], more[i])}
        /\ Min(Confirmations(more, i)) \in Confirmations(more, i)
    <3>1. i \in Nat /\ Len(more) \in Nat
      BY <1>1, <1>2, <2>1
    <3> QED
      BY <1>1, <2>1, <3>1, ConfirmationsAre
  <2>3. i \in (l + 1) .. n
    BY <1>1, <1>2, <2>1, <2>2
  <2>4. Confirmations(cs, i) = {} /\ Confirmations(cs, i) = Confirmations(more, i) \ {n + 1}
    <3>1. /\ Reverses(cs, i, Config.reversalStandard)
          /\ Confirmations(cs, i) = Confirmations(more, i) \ {n + 1}
      BY <2>1, <2>3, ReversalKept DEF n
    <3> QED
      BY <1>7, <2>3, <3>1 DEF Origins, n
  <2>5. Min(Confirmations(more, i)) = n + 1 /\ n + 1 <= i + w
    BY <2>1, <2>2, <2>4
  <2> DEFINE k == i - o
  <2>6. k \in (l + 1) .. m /\ i = k + o
    <3>1. CASE o = 0
      BY <1>1, <1>2, <1>3, <2>3, <3>1
    <3>2. CASE m >= 1 + l + w
      BY <1>1, <1>2, <1>3, <2>3, <2>5, <3>2
    <3> QED
      BY <3>1, <3>2 DEF m
  <2> HIDE DEF k
  <2>7. /\ Reverses(r, k, Config.reversalStandard) /\ Confirmations(r, k) # {}
        /\ ReversalZone(r, k) = ReversalZone(more, i)
    BY <1>1, <2>1, <2>6, ReversalEnd DEF m
  <2>8. k \in Origins(r)
    BY <2>6, <2>7 DEF Origins, m
  <2>9. ReversalZone(more, i).available = c.available
    BY <1>1, <2>5, ReversalIs
  <2> QED
    BY <1>4, <2>7, <2>8, <2>9
<1> HIDE DEF l, w
<1>8. ASSUME NEW z \in DetectReversalCandles(more) PROVE z \in DetectReversalCandles(cs) \/ z \in new
  <2>1. PICK i \in Origins(more) : z = ReversalZone(more, i)
    BY <1>4
  <2>2. CASE i \in Origins(cs)
    BY <1>4, <1>5, <2>1, <2>2
  <2>3. CASE i \notin Origins(cs)
    BY <1>7, <2>1, <2>3
  <2> QED
    BY <2>2, <2>3
<1>9. \A z \in DetectReversalCandles(cs) : z \in DetectReversalCandles(more)
  BY <1>4, <1>5
<1>10. \A z \in new : z \in DetectReversalCandles(more)
  BY <1>4, <1>6
<1> HIDE DEF new
<1>11. DetectReversalCandles(more) = DetectReversalCandles(cs) \cup new
  BY <1>8, <1>9, <1>10
<1> QED
  BY <1>11 DEF new

-----------------------------------------------------------------------------
(* All the patterns.                                                       *)

\* Patterns of which no two have one type and the same candles.
FoundOK(found, cs, types) ==
  /\ IsFiniteSet(found)
  /\ \A z \in found : /\ z.kind = "A" /\ z.type \in types
                      /\ \E s \in Spans(Len(cs)) : z.sources = IdsOf(cs, s[1], s[2])
  /\ \A y, z \in found : y.type = z.type /\ y.sources = z.sources => y = z

\* Families of different types together.
LEMMA FoundUnion ==
  ASSUME NEW cs, NEW S, NEW types, FoundOK(S, cs, types),
         NEW T, NEW others, FamilyOK(T, cs, others), types \cap others = {}
  PROVE  FoundOK(S \cup T, cs, types \cup others)
<1>1. IsFiniteSet(S \cup T)
  BY FS_Union DEF FoundOK, FamilyOK
<1>2. \A z \in S \cup T : /\ z.kind = "A" /\ z.type \in types \cup others
                          /\ \E s \in Spans(Len(cs)) : z.sources = IdsOf(cs, s[1], s[2])
  BY DEF FoundOK, FamilyOK
<1>3. ASSUME NEW y \in S \cup T, NEW z \in S \cup T, y.type = z.type, y.sources = z.sources PROVE y = z
  <2>1. CASE y \in S /\ z \in S
    BY <1>3, <2>1 DEF FoundOK
  <2>2. CASE y \in T /\ z \in T
    BY <1>3, <2>2 DEF FamilyOK
  <2>3. ~ (y \in S /\ z \in T) /\ ~ (y \in T /\ z \in S)
    BY <1>3 DEF FoundOK, FamilyOK
  <2> QED
    BY <2>1, <2>2, <2>3
<1> QED
  BY <1>1, <1>2, <1>3 DEF FoundOK

BlockTypes == {"BUY_ORDER_BLOCK", "SELL_ORDER_BLOCK"}
EngulfingTypes == {"BULLISH_ENGULFING", "BEARISH_ENGULFING"}
GapTypes == {"BUY_FAIR_VALUE_GAP", "SELL_FAIR_VALUE_GAP"}
StarTypes == {"MORNING_STAR", "EVENING_STAR"}
SingleTypes == {"HAMMER", "SHOOTING_STAR"}

PatternTypes ==
  BlockTypes \cup GapTypes \cup ReversalTypes \cup BaseTypes \cup PressureTypes
    \cup EngulfingTypes \cup SingleTypes \cup StarTypes

\* The patterns of a chart are of different types or candles.
LEMMA PatternsFound ==
  ASSUME NEW cs, ChartOK(cs)
  PROVE  FoundOK(DetectPatterns(cs), cs, PatternTypes)
<1>1. /\ FamilyOK(DetectOrderBlocks(cs), cs, BlockTypes)
      /\ FamilyOK(DetectEngulfing(cs), cs, EngulfingTypes)
      /\ FamilyOK(DetectFairValueGaps(cs), cs, GapTypes)
      /\ FamilyOK(DetectThreeCandleStars(cs), cs, StarTypes)
      /\ FamilyOK(DetectSingleCandleReversals(cs), cs, SingleTypes)
  <2>1. \A f \in Shapes : FamilyOK(Detect(f, cs), cs, TypesOf[f])
    BY DetectFamily
  <2>2. /\ TypesOf["block"] = BlockTypes /\ TypesOf["engulfing"] = EngulfingTypes
        /\ TypesOf["gap"] = GapTypes /\ TypesOf["star"] = StarTypes /\ TypesOf["single"] = SingleTypes
    BY DEF TypesOf, BlockTypes, EngulfingTypes, GapTypes, StarTypes, SingleTypes
  <2>3. "block" \in Shapes /\ "engulfing" \in Shapes /\ "gap" \in Shapes /\ "star" \in Shapes /\ "single" \in Shapes
    BY DEF Shapes
  <2>4. /\ FamilyOK(Detect("block", cs), cs, BlockTypes)
        /\ FamilyOK(Detect("engulfing", cs), cs, EngulfingTypes)
        /\ FamilyOK(Detect("gap", cs), cs, GapTypes)
        /\ FamilyOK(Detect("star", cs), cs, StarTypes)
        /\ FamilyOK(Detect("single", cs), cs, SingleTypes)
    BY <2>1, <2>2, <2>3
  <2> QED
    BY <2>4, DetectorsAre
<1>2. FamilyOK(DetectReversalCandles(cs), cs, ReversalTypes)
  BY ReversalFamily
<1>3. FamilyOK(DetectBases(cs), cs, BaseTypes)
  BY BaseFamily
<1>4. FamilyOK(DetectPressureWicks(cs), cs, PressureTypes)
  BY PressureFamily
<1> DEFINE S2 == DetectOrderBlocks(cs) \cup DetectFairValueGaps(cs)
           S3 == S2 \cup DetectReversalCandles(cs)
           S4 == S3 \cup DetectBases(cs)
           S5 == S4 \cup DetectPressureWicks(cs)
           S6 == S5 \cup DetectEngulfing(cs)
           S7 == S6 \cup DetectSingleCandleReversals(cs)
           S8 == S7 \cup DetectThreeCandleStars(cs)
           T2 == BlockTypes \cup GapTypes
           T3 == T2 \cup ReversalTypes
           T4 == T3 \cup BaseTypes
           T5 == T4 \cup PressureTypes
           T6 == T5 \cup EngulfingTypes
           T7 == T6 \cup SingleTypes
           T8 == T7 \cup StarTypes
<1>5. /\ BlockTypes \cap GapTypes = {} /\ T2 \cap ReversalTypes = {} /\ T3 \cap BaseTypes = {}
      /\ T4 \cap PressureTypes = {} /\ T5 \cap EngulfingTypes = {} /\ T6 \cap SingleTypes = {}
      /\ T7 \cap StarTypes = {}
  BY DEF BlockTypes, GapTypes, ReversalTypes, BaseTypes, PressureTypes, EngulfingTypes, SingleTypes, StarTypes
<1>6. FoundOK(DetectOrderBlocks(cs), cs, BlockTypes)
  BY <1>1 DEF FamilyOK, FoundOK
<1>7. FoundOK(S2, cs, T2)
  BY <1>1, <1>5, <1>6, FoundUnion
<1> HIDE DEF S2, T2
<1>8. FoundOK(S3, cs, T3)
  BY <1>2, <1>5, <1>7, FoundUnion
<1> HIDE DEF S3, T3
<1>9. FoundOK(S4, cs, T4)
  BY <1>3, <1>5, <1>8, FoundUnion
<1> HIDE DEF S4, T4
<1>10. FoundOK(S5, cs, T5)
  BY <1>4, <1>5, <1>9, FoundUnion
<1> HIDE DEF S5, T5
<1>11. FoundOK(S6, cs, T6)
  BY <1>1, <1>5, <1>10, FoundUnion
<1> HIDE DEF S6, T6
<1>12. FoundOK(S7, cs, T7)
  BY <1>1, <1>5, <1>11, FoundUnion
<1> HIDE DEF S7, T7
<1>13. FoundOK(S8, cs, T8)
  BY <1>1, <1>5, <1>12, FoundUnion
<1>14. S8 = DetectPatterns(cs) /\ T8 = PatternTypes
  BY DEF S2, S3, S4, S5, S6, S7, S8, T2, T3, T4, T5, T6, T7, T8, DetectPatterns, PatternTypes
<1> HIDE DEF S8, T8
<1> QED
  BY <1>13, <1>14

\* The end of a chart is one.
LEMMA ChartEnd ==
  ASSUME NEW a, ChartOK(a), NEW r, NEW o, EndOf(r, a, o)
  PROVE  ChartOK(r)
<1>1. Len(a) \in Nat /\ Len(r) \in Nat /\ o \in Nat /\ Len(a) = Len(r) + o
  BY ChartIs, LenProperties DEF EndOf
<1>2. \A i \in 1 .. Len(r) : i + o \in 1 .. Len(a) /\ r[i] = a[i + o]
  BY <1>1 DEF EndOf
<1>3. r \in Seq(Range(r))
  BY SeqOfRange DEF EndOf
<1>4. \A i \in 1 .. Len(r) : IsCandle(r[i]) /\ r[i].available \in Nat
  BY <1>2 DEF ChartOK, CandlesOK
<1>5. ASSUME NEW i \in 1 .. Len(r), NEW j \in 1 .. Len(r), r[i].id = r[j].id PROVE i = j
  <2>1. i + o = j + o
    BY <1>2, <1>5 DEF ChartOK
  <2> QED
    BY <1>1, <2>1
<1>6. ASSUME NEW i \in 1 .. Len(r), NEW j \in 1 .. Len(r), i <= j PROVE r[i].available <= r[j].available
  <2>1. i + o <= j + o
    BY <1>1, <1>6
  <2> QED
    BY <1>2, <2>1 DEF ChartOK
<1> QED
  BY <1>3, <1>4, <1>5, <1>6 DEF ChartOK, CandlesOK

\* The last n candles are enough, with all of them or with enough.
LEMMA EnoughOf ==
  ASSUME NEW a, ChartOK(a), NEW n \in Nat
  PROVE  \E o : /\ EndOf(LastOf(a, n), a, o) /\ ChartOK(LastOf(a, n))
                /\ o = 0 \/ Len(LastOf(a, n)) = n
                /\ n > 0 /\ Len(a) > 0 => Len(LastOf(a, n)) > 0
<1> DEFINE r == LastOf(a, n)
           o == Len(a) - Len(r)
<1>1. a \in Seq(Range(a)) /\ Len(a) \in Nat
  BY ChartIs
<1>2. EndOf(r, a, o) /\ Len(r) = Smallest(n, Len(a))
  BY <1>1, LastOfIs
<1>3. ChartOK(r)
  BY <1>2, ChartEnd
<1> HIDE DEF r
<1>4. o = 0 \/ Len(r) = n
  BY <1>1, <1>2 DEF Smallest
<1>5. n > 0 /\ Len(a) > 0 => Len(r) > 0
  BY <1>1, <1>2 DEF Smallest
<1> QED
  BY <1>2, <1>3, <1>4, <1>5 DEF r

\* A pattern of the newest candle is not among the earlier ones.
LEMMA NewAbsent ==
  ASSUME NEW more, NEW cs, NEW c, OneMore(more, cs, c), NEW new, NewIn(new, c), NEW z \in new
  PROVE  z \notin DetectPatterns(cs)
<1> DEFINE n == Len(cs)
<1>1. /\ n \in Nat /\ Len(more) = n + 1 /\ more[n + 1] = c
      /\ \A k \in 1 .. n : more[k] = cs[k]
      /\ \A i, j \in 1 .. n + 1 : more[i].id = more[j].id => i = j
      /\ ChartOK(cs)
  BY ChartIs DEF OneMore, ChartOK
<1>2. SUFFICES ASSUME z \in DetectPatterns(cs) PROVE FALSE
  OBVIOUS
<1>3. PICK s \in Spans(n) : z.sources = IdsOf(cs, s[1], s[2])
  BY <1>1, <1>2, PatternsFound DEF FoundOK
<1>4. s[1] \in 1 .. n /\ s[2] \in 1 .. n
  BY DEF Spans
<1>5. PICK k \in DOMAIN z.sources : z.sources[k] = c.id
  BY DEF NewIn
<1>6. k \in 1 .. (s[2] - s[1]) + 1 /\ z.sources[k] = cs[(s[1] + k) - 1].id
  BY <1>3, <1>5 DEF IdsOf
<1> HIDE DEF n
<1>7. (s[1] + k) - 1 \in 1 .. n
  BY <1>1, <1>4, <1>6
<1>8. (s[1] + k) - 1 \in 1 .. n + 1 /\ n + 1 \in 1 .. n + 1 /\ (s[1] + k) - 1 # n + 1
  BY <1>1, <1>7
<1>9. more[(s[1] + k) - 1].id = more[n + 1].id
  BY <1>1, <1>5, <1>6, <1>7
<1> QED
  BY <1>1, <1>8, <1>9

\* What the ring gives is what one candle more gives the chart.  What was known
\* before is found again with a candle available at the same time only.
LEMMA PatternsStep ==
  ASSUME NEW more, NEW cs, NEW c, OneMore(more, cs, c), NEW r, r = LastOf(more, Config.ringSize),
         NEW f, AtrsOK(f, cs), NEW x, AtrsOK(Append(f, x), more),
         NEW step, step = NewLocalCandidates(r) \cup NewBases(r, IF f = << >> THEN None ELSE Last(f))
  PROVE  /\ DetectPatterns(more) = DetectPatterns(cs) \cup step
         /\ \A z \in step : z \in DetectPatterns(cs) =>
              /\ z.available = c.available
              /\ \E p \in 1 .. Len(cs) : z.available = cs[p].available
<1> DEFINE n == Len(cs)
           before == IF f = << >> THEN None ELSE Last(f)
           N(s) == Detect(s, LastOf(more, Width[s]))
           pressure == NewPressure(r, c)
           reversals == {z \in DetectReversalCandles(LastOf(r, Config.reversalSlice)) : z.available = c.available}
           bases == NewBases(r, before)
<1>1. /\ n \in Nat /\ Len(more) = n + 1 /\ more[n + 1] = c
      /\ more \in Seq(Range(more)) /\ ChartOK(more) /\ ChartOK(cs)
  BY ChartIs DEF OneMore
<1>2. /\ Config.ringSize \in Nat /\ Config.reversalSlice \in Nat
      /\ Config.ringSize >= Config.baselineWindow + 1 /\ Config.ringSize >= Config.baseMax + 1
      /\ Config.ringSize >= Config.reversalSlice /\ Config.ringSize >= 3
      /\ Config.reversalSlice >= 1 + Config.lookback + Config.confirmationWindow
      /\ Config.baselineWindow \in Nat /\ Config.baseMax \in Nat
      /\ Config.lookback \in Nat /\ Config.confirmationWindow \in Nat
  BY FrontierConfig, DetectorConfig
<1>3. PICK o : /\ EndOf(r, more, o) /\ ChartOK(r)
               /\ o = 0 \/ Len(r) = Config.ringSize
               /\ Len(r) > 0
  <2>1. Config.ringSize > 0 /\ Len(more) > 0
    BY <1>1, <1>2
  <2>2. PICK o : /\ EndOf(LastOf(more, Config.ringSize), more, o) /\ ChartOK(LastOf(more, Config.ringSize))
                 /\ o = 0 \/ Len(LastOf(more, Config.ringSize)) = Config.ringSize
                 /\ Len(LastOf(more, Config.ringSize)) > 0
    BY <1>1, <1>2, <2>1, EnoughOf
  <2> QED
    BY <2>2
<1>4. Last(r) = c
  <2>1. Len(r) \in Nat /\ o \in Nat /\ n + 1 = Len(r) + o /\ \A i \in 1 .. Len(r) : r[i] = more[i + o]
    BY <1>1, LenProperties, <1>3 DEF EndOf
  <2>2. Len(r) \in 1 .. Len(r) /\ Len(r) + o = n + 1
    BY <1>3, <2>1
  <2> QED
    BY <1>1, <2>1, <2>2 DEF Last
<1>5. ASSUME NEW k \in 1 .. 3 PROVE LastOf(r, k) = LastOf(more, k) /\ ChartOK(LastOf(more, k))
  <2>1. k \in Nat /\ k <= Config.ringSize
    BY <1>2
  <2> QED
    BY <1>1, <1>2, <2>1, LastOfLast, EnoughOf
<1>6. LastOf(r, Config.reversalSlice) = LastOf(more, Config.reversalSlice)
  BY <1>1, <1>2, LastOfLast
<1>7. /\ Width["block"] = 2 /\ Width["engulfing"] = 2 /\ Width["gap"] = 3 /\ Width["star"] = 3 /\ Width["single"] = 1
      /\ "block" \in Shapes /\ "engulfing" \in Shapes /\ "gap" \in Shapes /\ "star" \in Shapes /\ "single" \in Shapes
  BY DEF Width, Shapes
<1>8. /\ DetectOrderBlocks(LastOf(r, 2)) = N("block")
      /\ DetectEngulfing(LastOf(r, 2)) = N("engulfing")
      /\ DetectFairValueGaps(LastOf(r, 3)) = N("gap")
      /\ DetectThreeCandleStars(LastOf(r, 3)) = N("star")
      /\ DetectSingleCandleReversals(LastOf(r, 1)) = N("single")
  <2>1. 1 \in 1 .. 3 /\ 2 \in 1 .. 3 /\ 3 \in 1 .. 3
    OBVIOUS
  <2>2. \A k \in 1 .. 3 : LastOf(r, k) = LastOf(more, k) /\ ChartOK(LastOf(more, k))
    BY <1>5
  <2> QED
    BY <1>7, <2>1, <2>2, DetectorsAre
<1>9. /\ DetectOrderBlocks(more) = DetectOrderBlocks(cs) \cup N("block") /\ NewIn(N("block"), c)
      /\ DetectEngulfing(more) = DetectEngulfing(cs) \cup N("engulfing") /\ NewIn(N("engulfing"), c)
      /\ DetectFairValueGaps(more) = DetectFairValueGaps(cs) \cup N("gap") /\ NewIn(N("gap"), c)
      /\ DetectThreeCandleStars(more) = DetectThreeCandleStars(cs) \cup N("star") /\ NewIn(N("star"), c)
      /\ DetectSingleCandleReversals(more) = DetectSingleCandleReversals(cs) \cup N("single") /\ NewIn(N("single"), c)
  <2>1. \A s \in Shapes : Detect(s, more) = Detect(s, cs) \cup N(s) /\ NewIn(N(s), c)
    BY DetectStep
  <2> HIDE DEF N
  <2> QED
    BY <1>1, <1>7, <2>1, DetectorsAre
<1>10. DetectPressureWicks(more) = DetectPressureWicks(cs) \cup pressure /\ NewIn(pressure, c)
  <2>1. o = 0 \/ Len(r) > Config.baselineWindow
    BY <1>2, <1>3
  <2> QED
    BY <1>3, <2>1, PressureStep
<1>11. DetectBases(more) = DetectBases(cs) \cup bases /\ NewIn(bases, c)
  <2>1. o = 0 \/ Len(r) > Config.baseMax
    BY <1>2, <1>3
  <2> QED
    BY <1>3, <2>1, BaseStep
<1>12. DetectReversalCandles(more) = DetectReversalCandles(cs) \cup reversals
  <2> DEFINE q == LastOf(more, Config.reversalSlice)
  <2>1. Config.reversalSlice > 0 /\ Len(more) > 0
    BY <1>1, <1>2
  <2>2. PICK p : EndOf(q, more, p) /\ (p = 0 \/ Len(q) = Config.reversalSlice) /\ Len(q) > 0
    BY <1>1, <1>2, <2>1, EnoughOf
  <2>3. p = 0 \/ Len(q) >= 1 + Config.lookback + Config.confirmationWindow
    BY <1>2, <2>2
  <2> HIDE DEF q
  <2>4. DetectReversalCandles(more)
          = DetectReversalCandles(cs) \cup {z \in DetectReversalCandles(q) : z.available = c.available}
    BY <2>2, <2>3, ReversalStep
  <2> QED
    BY <1>6, <2>4 DEF q
<1>13. step = N("block") \cup N("engulfing") \cup N("gap") \cup N("star") \cup N("single")
               \cup pressure \cup reversals \cup bases
  <2>1. NewLocalCandidates(r)
          = DetectOrderBlocks(LastOf(r, 2)) \cup DetectEngulfing(LastOf(r, 2))
              \cup DetectFairValueGaps(LastOf(r, 3)) \cup DetectThreeCandleStars(LastOf(r, 3))
              \cup DetectSingleCandleReversals(LastOf(r, 1))
              \cup {z \in DetectPressureWicks(r) : z.sources = <<Last(r).id>>}
              \cup {z \in DetectReversalCandles(LastOf(r, Config.reversalSlice)) : z.available = Last(r).available}
    BY DEF NewLocalCandidates
  <2> HIDE DEF N
  <2>2. NewLocalCandidates(r)
          = N("block") \cup N("engulfing") \cup N("gap") \cup N("star") \cup N("single")
              \cup pressure \cup reversals
    BY <1>4, <1>8, <2>1 DEF NewPressure
  <2> HIDE DEF pressure, reversals
  <2> QED
    BY <2>2
<1>14. \A z \in reversals : z.available = c.available
  OBVIOUS
<1> HIDE DEF N, pressure, reversals, bases
<1>15. DetectPatterns(more) = DetectPatterns(cs) \cup step
  BY <1>9, <1>10, <1>11, <1>12, <1>13 DEF DetectPatterns
<1>16. ASSUME NEW z \in step, z \in DetectPatterns(cs)
       PROVE  z.available = c.available /\ \E p \in 1 .. n : z.available = cs[p].available
  <2>1. z \in reversals
    <3>1. /\ z \notin N("block") /\ z \notin N("engulfing") /\ z \notin N("gap") /\ z \notin N("star")
          /\ z \notin N("single") /\ z \notin pressure /\ z \notin bases
      BY <1>9, <1>10, <1>11, <1>16, NewAbsent
    <3> QED
      BY <1>13, <3>1
  <2>2. z \in DetectReversalCandles(cs)
    <3>1. z.type \in ReversalTypes
      <4>1. z \in DetectReversalCandles(more)
        BY <1>12, <2>1
      <4> QED
        BY <1>1, <4>1, ReversalFamily DEF FamilyOK
    <3>2. /\ \A f1 \in Shapes : FamilyOK(Detect(f1, cs), cs, TypesOf[f1])
          /\ FamilyOK(DetectBases(cs), cs, BaseTypes)
          /\ FamilyOK(DetectPressureWicks(cs), cs, PressureTypes)
      BY <1>1, DetectFamily, BaseFamily, PressureFamily
    <3>3. (\A f1 \in Shapes : z.type \notin TypesOf[f1]) /\ z.type \notin BaseTypes /\ z.type \notin PressureTypes
      <4>1. /\ TypesOf["block"] = BlockTypes /\ TypesOf["engulfing"] = EngulfingTypes
            /\ TypesOf["gap"] = GapTypes /\ TypesOf["star"] = StarTypes /\ TypesOf["single"] = SingleTypes
        BY DEF TypesOf, BlockTypes, EngulfingTypes, GapTypes, StarTypes, SingleTypes
      <4>2. /\ z.type \notin BlockTypes /\ z.type \notin EngulfingTypes /\ z.type \notin GapTypes
            /\ z.type \notin StarTypes /\ z.type \notin SingleTypes /\ z.type \notin BaseTypes
            /\ z.type \notin PressureTypes
        BY <3>1 DEF ReversalTypes, BlockTypes, EngulfingTypes, GapTypes, StarTypes, SingleTypes, BaseTypes, PressureTypes
      <4> QED
        BY <4>1, <4>2 DEF Shapes
    <3>4. /\ \A f1 \in Shapes : z \notin Detect(f1, cs)
          /\ z \notin DetectBases(cs) /\ z \notin DetectPressureWicks(cs)
      BY <3>2, <3>3 DEF FamilyOK
    <3>5. /\ z \notin DetectOrderBlocks(cs) /\ z \notin DetectEngulfing(cs) /\ z \notin DetectFairValueGaps(cs)
          /\ z \notin DetectThreeCandleStars(cs) /\ z \notin DetectSingleCandleReversals(cs)
      BY <1>1, <1>7, <3>4, DetectorsAre
    <3> QED
      BY <1>16, <3>4, <3>5 DEF DetectPatterns
  <2> QED
    BY <1>1, <1>14, <2>1, <2>2, ReversalFamily
<1> HIDE DEF n
<1> QED
  BY <1>15, <1>16 DEF n

\* Every element of a finite set is in its sequence.
LEMMA SetToSeqIs ==
  ASSUME NEW S, IsFiniteSet(S)
  PROVE  SetToSeq(S) \in Seq(S) /\ Range(SetToSeq(S)) = S
<1> DEFINE n == Cardinality(S)
           f == SetToSeq(S)
<1>1. n \in Nat /\ ExistsBijection(1 .. n, S)
  BY FS_CardinalityType
<1>2. \E g \in [1 .. n -> S] : IsInjective(g)
  BY <1>1 DEF ExistsBijection, Bijection, Injection
<1>3. f \in [1 .. n -> S] /\ IsInjective(f)
  BY <1>2 DEF SetToSeq
<1> HIDE DEF f
<1>4. IsFiniteSet(1 .. n) /\ Cardinality(1 .. n) = n
  BY <1>1, FS_Interval
<1>5. f \in Injection(1 .. n, S)
  BY <1>3 DEF Injection
<1>6. f \in Surjection(1 .. n, S)
  BY <1>4, <1>5, FS_Injection
<1>7. f \in Seq(S) /\ Len(f) = n
  BY <1>1, <1>3
<1>8. Range(f) = {f[i] : i \in 1 .. n}
  BY <1>7, RangeEquality
<1>9. Range(f) = S
  BY <1>3, <1>6, <1>8 DEF Surjection
<1> QED
  BY <1>7, <1>9 DEF f

-----------------------------------------------------------------------------
(* The extremes of a window.                                               *)

\* Candles with a first one.
WindowOK(w) ==
  /\ w \in Seq(Range(w)) /\ Len(w) \in Nat \ {0}
  /\ \A i \in 1 .. Len(w) : w[i].high \in Nat /\ w[i].low \in Nat

\* h is the earliest of the highest candles, or of the lowest.
IsHighest(w, h) ==
  /\ h \in 1 .. Len(w)
  /\ \A j \in 1 .. Len(w) : w[j].high <= w[h].high
  /\ \A j \in 1 .. Len(w) : j < h => w[j].high # w[h].high

IsLowest(w, h) ==
  /\ h \in 1 .. Len(w)
  /\ \A j \in 1 .. Len(w) : w[j].low >= w[h].low
  /\ \A j \in 1 .. Len(w) : j < h => w[j].low # w[h].low

\* The candle that the detector takes is that one.
LEMMA ExtremeAt ==
  ASSUME NEW w, WindowOK(w), NEW h
  PROVE  /\ IsHighest(w, h) => Highest(w) = w[h]
         /\ IsLowest(w, h) => Lowest(w) = w[h]
<1> DEFINE n == Len(w)
           H == {i \in 1 .. n : \A j \in 1 .. n : w[j].high <= w[i].high}
           L == {i \in 1 .. n : \A j \in 1 .. n : w[j].low >= w[i].low}
<1>1. n \in Nat \ {0} /\ DOMAIN w = 1 .. n /\ \A i \in 1 .. n : w[i].high \in Nat /\ w[i].low \in Nat
  BY LenProperties DEF WindowOK
<1>2. Highest(w) = w[Min(H)] /\ Lowest(w) = w[Min(L)]
  BY <1>1 DEF Highest, Lowest
<1> HIDE DEF n
<1>3. H \in SUBSET Nat /\ L \in SUBSET Nat
  BY <1>1
<1>4. ASSUME IsHighest(w, h) PROVE Min(H) = h
  <2>1. h \in 1 .. n /\ h \in H
    BY <1>4 DEF IsHighest, n
  <2>2. Min(H) \in H /\ Min(H) <= h
    BY <1>3, <2>1, LeastOf
  <2>3. w[Min(H)].high = w[h].high
    <3>1. w[h].high <= w[Min(H)].high /\ w[Min(H)].high <= w[h].high
      BY <2>1, <2>2
    <3>2. w[h].high \in Nat /\ w[Min(H)].high \in Nat
      BY <1>1, <2>1, <2>2
    <3> HIDE DEF H
    <3> QED
      BY <3>1, <3>2
  <2>4. ~ (Min(H) < h)
    BY <1>4, <2>2, <2>3 DEF IsHighest, n
  <2> QED
    BY <1>1, <2>1, <2>2, <2>4
<1>5. ASSUME IsLowest(w, h) PROVE Min(L) = h
  <2>1. h \in 1 .. n /\ h \in L
    BY <1>5 DEF IsLowest, n
  <2>2. Min(L) \in L /\ Min(L) <= h
    BY <1>3, <2>1, LeastOf
  <2>3. w[Min(L)].low = w[h].low
    <3>1. w[h].low >= w[Min(L)].low /\ w[Min(L)].low >= w[h].low
      BY <2>1, <2>2
    <3>2. w[h].low \in Nat /\ w[Min(L)].low \in Nat
      BY <1>1, <2>1, <2>2
    <3> HIDE DEF L
    <3> QED
      BY <3>1, <3>2
  <2>4. ~ (Min(L) < h)
    BY <1>5, <2>2, <2>3 DEF IsLowest, n
  <2> QED
    BY <1>1, <2>1, <2>2, <2>4
<1> QED
  BY <1>2, <1>4, <1>5

\* There is one.
LEMMA ExtremeExists ==
  ASSUME NEW w, WindowOK(w)
  PROVE  (\E h : IsHighest(w, h)) /\ (\E h : IsLowest(w, h))
<1> DEFINE n == Len(w)
           lows == {w[i].low : i \in 1 .. n}
           highs == {w[i].high : i \in 1 .. n}
<1>1. n \in Nat \ {0} /\ \A i \in 1 .. n : w[i].high \in Nat /\ w[i].low \in Nat
  BY DEF WindowOK
<1> HIDE DEF n
<1> DEFINE Over(m) == \E b \in Nat : \A i \in 1 .. n : i <= m => w[i].high <= b
           bounded == {m \in Nat : Over(m)}
<1>2. 0 \in bounded
  <2>1. \A i \in 1 .. n : ~ (i <= 0)
    BY <1>1
  <2> QED
    BY <2>1
<1>3. ASSUME NEW m \in bounded PROVE m + 1 \in bounded
  <2>1. PICK b \in Nat : \A i \in 1 .. n : i <= m => w[i].high <= b
    OBVIOUS
  <2>2. CASE m + 1 \in 1 .. n
    <3> DEFINE d == Largest(b, w[m + 1].high)
    <3>1. d \in Nat /\ b <= d /\ w[m + 1].high <= d
      BY <1>1, <2>2 DEF Largest
    <3> HIDE DEF d
    <3>2. \A i \in 1 .. n : i <= m + 1 => i <= m \/ i = m + 1
      BY <1>1
    <3>3. \A i \in 1 .. n : i <= m + 1 => w[i].high <= d
      BY <1>1, <2>1, <3>1, <3>2
    <3> QED
      BY <3>1, <3>3
  <2>3. CASE m + 1 \notin 1 .. n
    <3>1. \A i \in 1 .. n : i <= m + 1 => i <= m
      BY <1>1, <2>3
    <3> QED
      BY <2>1, <3>1
  <2> QED
    BY <2>2, <2>3
<1>4. n \in bounded
  <2>1. bounded \in SUBSET Nat /\ \A m \in bounded : m + 1 \in bounded
    BY <1>3
  <2> HIDE DEF bounded
  <2> QED
    BY <1>1, <1>2, <2>1, SetInduction
<1>5. PICK b \in Nat : \A i \in 1 .. n : w[i].high <= b
  <2>1. \A i \in 1 .. n : i <= n
    BY <1>1
  <2> QED
    BY <1>4, <2>1
<1>6. highs \in SUBSET Nat /\ highs # {} /\ \A y \in highs : y <= b
  <2>1. 1 \in 1 .. n
    BY <1>1
  <2> QED
    BY <1>1, <1>5, <2>1
<1>7. lows \in SUBSET Nat /\ lows # {}
  <2>1. 1 \in 1 .. n
    BY <1>1
  <2> QED
    BY <1>1, <2>1
<1>8. \E h : IsHighest(w, h)
  <2> DEFINE top == Max(highs)
             T == {i \in 1 .. n : w[i].high = top}
  <2>1. top \in highs /\ \A y \in highs : top >= y
    <3> HIDE DEF highs
    <3> QED
      BY <1>6, GreatestOf
  <2>2. T \in SUBSET Nat /\ T # {}
    <3>1. PICK i \in 1 .. n : top = w[i].high
      BY <2>1
    <3>2. i \in T
      BY <3>1
    <3>3. T \in SUBSET Nat
      BY <1>1
    <3> QED
      BY <3>2, <3>3
  <2> DEFINE h == Min(T)
  <2>3. h \in T /\ \A i \in T : h <= i
    <3> HIDE DEF T
    <3> QED
      BY <2>2, LeastOf
  <2>4. h \in 1 .. n /\ w[h].high = top
    BY <2>3
  <2>5. \A j \in 1 .. n : w[j].high <= top
    <3>1. top \in Nat
      BY <1>6, <2>1
    <3> QED
      BY <1>1, <2>1, <3>1
  <2>6. ASSUME NEW j \in 1 .. n, j < h PROVE w[j].high # top
    <3>1. SUFFICES ASSUME w[j].high = top PROVE FALSE
      OBVIOUS
    <3>2. j \in T
      BY <3>1
    <3> HIDE DEF T, h
    <3>3. h <= j /\ h \in 1 .. n
      BY <2>3, <2>4, <3>2
    <3> QED
      BY <1>1, <2>6, <3>3
  <2> HIDE DEF top, h
  <2> QED
    BY <2>4, <2>5, <2>6 DEF IsHighest, n
<1>9. \E h : IsLowest(w, h)
  <2> DEFINE bottom == Min(lows)
             T == {i \in 1 .. n : w[i].low = bottom}
  <2>1. bottom \in lows /\ \A y \in lows : bottom <= y
    <3> HIDE DEF lows
    <3> QED
      BY <1>7, LeastOf
  <2>2. T \in SUBSET Nat /\ T # {}
    <3>1. PICK i \in 1 .. n : bottom = w[i].low
      BY <2>1
    <3>2. i \in T
      BY <3>1
    <3>3. T \in SUBSET Nat
      BY <1>1
    <3> QED
      BY <3>2, <3>3
  <2> DEFINE h == Min(T)
  <2>3. h \in T /\ \A i \in T : h <= i
    <3> HIDE DEF T
    <3> QED
      BY <2>2, LeastOf
  <2>4. h \in 1 .. n /\ w[h].low = bottom
    BY <2>3
  <2>5. \A j \in 1 .. n : w[j].low >= bottom
    <3>1. bottom \in Nat
      BY <1>7, <2>1
    <3> QED
      BY <1>1, <2>1, <3>1
  <2>6. ASSUME NEW j \in 1 .. n, j < h PROVE w[j].low # bottom
    <3>1. SUFFICES ASSUME w[j].low = bottom PROVE FALSE
      OBVIOUS
    <3>2. j \in T
      BY <3>1
    <3> HIDE DEF T, h
    <3>3. h <= j /\ h \in 1 .. n
      BY <2>3, <2>4, <3>2
    <3> QED
      BY <1>1, <2>6, <3>3
  <2> HIDE DEF bottom, h
  <2> QED
    BY <2>4, <2>5, <2>6 DEF IsLowest, n
<1> QED
  BY <1>8, <1>9

\* The extremes of a window and one candle more.
LEMMA ExtremeAppend ==
  ASSUME NEW w, WindowOK(w), NEW c, c.high \in Nat, c.low \in Nat
  PROVE  /\ WindowOK(Append(w, c))
         /\ Highest(Append(w, c)) = IF c.high > Highest(w).high THEN c ELSE Highest(w)
         /\ Lowest(Append(w, c)) = IF c.low < Lowest(w).low THEN c ELSE Lowest(w)
<1> DEFINE n == Len(w)
           v == Append(w, c)
<1>1. /\ n \in Nat \ {0} /\ \A i \in 1 .. n : w[i].high \in Nat /\ w[i].low \in Nat
      /\ w \in Seq(Range(w))
  BY DEF WindowOK
<1>2. /\ v \in Seq(Range(v)) /\ Len(v) = n + 1 /\ v[n + 1] = c
      /\ \A i \in 1 .. n : v[i] = w[i]
  BY <1>1, AppendIs
<1> HIDE DEF v, n
<1>3. \A i \in 1 .. n + 1 : i \in 1 .. n \/ i = n + 1
  BY <1>1
<1>4. WindowOK(v)
  BY <1>1, <1>2, <1>3, c.high \in Nat, c.low \in Nat DEF WindowOK
<1>5. PICK h : IsHighest(w, h)
  BY ExtremeExists
<1>6. PICK l : IsLowest(w, l)
  BY ExtremeExists
<1>7. /\ h \in 1 .. n /\ (\A j \in 1 .. n : w[j].high <= w[h].high)
      /\ (\A j \in 1 .. n : j < h => w[j].high # w[h].high)
      /\ Highest(w) = w[h] /\ w[h].high \in Nat
  BY <1>1, <1>5, ExtremeAt DEF IsHighest, n
<1>8. /\ l \in 1 .. n /\ (\A j \in 1 .. n : w[j].low >= w[l].low)
      /\ (\A j \in 1 .. n : j < l => w[j].low # w[l].low)
      /\ Lowest(w) = w[l] /\ w[l].low \in Nat
  BY <1>1, <1>6, ExtremeAt DEF IsLowest, n
<1>9. ASSUME c.high > w[h].high PROVE Highest(v) = c
  <2>1. \A j \in 1 .. n : w[j].high < c.high
    BY <1>1, <1>7, <1>9, c.high \in Nat
  <2>2. n + 1 \in 1 .. n + 1 /\ \A j \in 1 .. n + 1 : v[j].high <= v[n + 1].high
    BY <1>1, <1>2, <1>3, <2>1, c.high \in Nat
  <2>3. \A j \in 1 .. n + 1 : j < n + 1 => v[j].high # v[n + 1].high
    <3>1. \A j \in 1 .. n + 1 : j < n + 1 => j \in 1 .. n
      BY <1>1
    <3> QED
      BY <1>1, <1>2, <2>1, <3>1, c.high \in Nat
  <2>4. Highest(v) = c
    BY <1>2, <1>4, <2>2, <2>3, ExtremeAt DEF IsHighest
  <2> QED
    BY <2>4
<1>10. ASSUME ~ (c.high > w[h].high) PROVE Highest(v) = w[h]
  <2>1. h \in 1 .. n + 1 /\ v[h] = w[h] /\ c.high <= w[h].high
    BY <1>1, <1>2, <1>7, <1>10, c.high \in Nat
  <2>2. \A j \in 1 .. n + 1 : v[j].high <= v[h].high
    BY <1>2, <1>3, <1>7, <2>1
  <2>3. \A j \in 1 .. n + 1 : j < h => v[j].high # v[h].high
    <3>1. \A j \in 1 .. n + 1 : j < h => j \in 1 .. n
      BY <1>1, <1>7
    <3> QED
      BY <1>2, <1>7, <2>1, <3>1
  <2>4. Highest(v) = w[h]
    BY <1>2, <1>4, <2>1, <2>2, <2>3, ExtremeAt DEF IsHighest
  <2> QED
    BY <2>4
<1>11. ASSUME c.low < w[l].low PROVE Lowest(v) = c
  <2>1. \A j \in 1 .. n : w[j].low > c.low
    BY <1>1, <1>8, <1>11, c.low \in Nat
  <2>2. n + 1 \in 1 .. n + 1 /\ \A j \in 1 .. n + 1 : v[j].low >= v[n + 1].low
    BY <1>1, <1>2, <1>3, <2>1, c.low \in Nat
  <2>3. \A j \in 1 .. n + 1 : j < n + 1 => v[j].low # v[n + 1].low
    <3>1. \A j \in 1 .. n + 1 : j < n + 1 => j \in 1 .. n
      BY <1>1
    <3> QED
      BY <1>1, <1>2, <2>1, <3>1, c.low \in Nat
  <2>4. Lowest(v) = c
    BY <1>2, <1>4, <2>2, <2>3, ExtremeAt DEF IsLowest
  <2> QED
    BY <2>4
<1>12. ASSUME ~ (c.low < w[l].low) PROVE Lowest(v) = w[l]
  <2>1. l \in 1 .. n + 1 /\ v[l] = w[l] /\ c.low >= w[l].low
    BY <1>1, <1>2, <1>8, <1>12, c.low \in Nat
  <2>2. \A j \in 1 .. n + 1 : v[j].low >= v[l].low
    BY <1>2, <1>3, <1>8, <2>1
  <2>3. \A j \in 1 .. n + 1 : j < l => v[j].low # v[l].low
    <3>1. \A j \in 1 .. n + 1 : j < l => j \in 1 .. n
      BY <1>1, <1>8
    <3> QED
      BY <1>2, <1>8, <2>1, <3>1
  <2>4. Lowest(v) = w[l]
    BY <1>2, <1>4, <2>1, <2>2, <2>3, ExtremeAt DEF IsLowest
  <2> QED
    BY <2>4
<1>13. Highest(v) = IF c.high > Highest(w).high THEN c ELSE Highest(w)
  BY <1>7, <1>9, <1>10
<1>14. Lowest(v) = IF c.low < Lowest(w).low THEN c ELSE Lowest(w)
  BY <1>8, <1>11, <1>12
<1> QED
  BY <1>4, <1>13, <1>14 DEF v

\* The extremes of one candle.
LEMMA ExtremeOne ==
  ASSUME NEW c, c.high \in Nat, c.low \in Nat
  PROVE  WindowOK(<<c>>) /\ Highest(<<c>>) = c /\ Lowest(<<c>>) = c
<1>1. <<c>> \in Seq({c}) /\ Len(<<c>>) = 1 /\ <<c>>[1] = c
  OBVIOUS
<1>2. <<c>> \in Seq(Range(<<c>>))
  BY <1>1, SeqOfRange
<1>3. \A i \in 1 .. 1 : i = 1
  OBVIOUS
<1>4. WindowOK(<<c>>)
  BY <1>1, <1>2, <1>3, c.high \in Nat, c.low \in Nat DEF WindowOK
<1>5. IsHighest(<<c>>, 1) /\ IsLowest(<<c>>, 1)
  BY <1>1, <1>3, c.high \in Nat, c.low \in Nat DEF IsHighest, IsLowest
<1> QED
  BY <1>1, <1>4, <1>5, ExtremeAt

-----------------------------------------------------------------------------
(* Periods.                                                                *)

\* i opens the window of candle n when the windows are the same from i on, and
\* it is the first one.
LEMMA OpeningIs ==
  ASSUME NEW cs, NEW g, NEW n \in Nat \ {0}
  PROVE  /\ Opening(cs, g, n) \in 1 .. n
         /\ \A j \in Opening(cs, g, n) .. n : WindowStart(g, cs[j].time) = WindowStart(g, cs[n].time)
         /\ \A i \in 1 .. n :
              (\A j \in i .. n : WindowStart(g, cs[j].time) = WindowStart(g, cs[n].time))
                => Opening(cs, g, n) <= i
<1> DEFINE S == {i \in 1 .. n : \A j \in i .. n : WindowStart(g, cs[j].time) = WindowStart(g, cs[n].time)}
<1>1. Opening(cs, g, n) = Min(S)
  BY DEF Opening
<1>2. n \in S
  <2>1. n \in 1 .. n /\ \A j \in n .. n : j = n
    OBVIOUS
  <2> QED
    BY <2>1
<1>3. S \in SUBSET Nat /\ S # {}
  BY <1>2
<1>4. Min(S) \in S /\ \A y \in S : Min(S) <= y
  <2> HIDE DEF S
  <2> QED
    BY <1>3, LeastOf
<1> QED
  BY <1>1, <1>4

\* The first of some candles with one window, the candle before it having
\* another, opens the window.
LEMMA OpeningAt ==
  ASSUME NEW cs, NEW g, NEW n \in Nat \ {0}, NEW i \in 1 .. n,
         \A j \in i .. n : WindowStart(g, cs[j].time) = WindowStart(g, cs[n].time),
         i = 1 \/ WindowStart(g, cs[i - 1].time) # WindowStart(g, cs[n].time)
  PROVE  Opening(cs, g, n) = i
<1> DEFINE k == Opening(cs, g, n)
<1>1. /\ k \in 1 .. n /\ k <= i
      /\ \A j \in k .. n : WindowStart(g, cs[j].time) = WindowStart(g, cs[n].time)
  BY OpeningIs
<1> HIDE DEF k
<1>2. CASE k = i
  BY <1>2 DEF k
<1>3. CASE k # i
  <2>1. i # 1 /\ i - 1 \in k .. n
    BY <1>1, <1>3
  <2> QED
    BY <1>1, <2>1
<1> QED
  BY <1>2, <1>3

\* The candle before the opening is in another window.
LEMMA BeforeOpening ==
  ASSUME NEW cs, NEW g, NEW n \in Nat \ {0}, Opening(cs, g, n) # 1
  PROVE  WindowStart(g, cs[Opening(cs, g, n) - 1].time) # WindowStart(g, cs[n].time)
<1> DEFINE k == Opening(cs, g, n)
<1>1. /\ k \in 1 .. n
      /\ \A j \in k .. n : WindowStart(g, cs[j].time) = WindowStart(g, cs[n].time)
      /\ \A i \in 1 .. n :
           (\A j \in i .. n : WindowStart(g, cs[j].time) = WindowStart(g, cs[n].time)) => k <= i
  BY OpeningIs
<1>2. k # 1
  OBVIOUS
<1> HIDE DEF k
<1>3. SUFFICES ASSUME WindowStart(g, cs[k - 1].time) = WindowStart(g, cs[n].time) PROVE FALSE
  BY DEF k
<1>4. k - 1 \in 1 .. n /\ \A j \in (k - 1) .. n : j = k - 1 \/ j \in k .. n
  BY <1>1, <1>2
<1>5. \A j \in (k - 1) .. n : WindowStart(g, cs[j].time) = WindowStart(g, cs[n].time)
  BY <1>1, <1>3, <1>4
<1> QED
  BY <1>1, <1>4, <1>5

\* The window of a candle of the chart when one more comes.
LEMMA WindowKept ==
  ASSUME NEW more, NEW cs, NEW c, OneMore(more, cs, c), NEW g, NEW n \in 1 .. Len(cs)
  PROVE  /\ Opening(more, g, n) = Opening(cs, g, n)
         /\ Window(more, g, n) = Window(cs, g, n)
<1> DEFINE k == Opening(cs, g, n)
<1>1. Len(cs) \in Nat /\ \A i \in 1 .. Len(cs) : more[i] = cs[i]
  BY ChartIs DEF OneMore
<1>2. n \in Nat \ {0} /\ n <= Len(cs)
  BY <1>1
<1>3. k \in 1 .. n /\ \A j \in k .. n : WindowStart(g, cs[j].time) = WindowStart(g, cs[n].time)
  BY <1>2, OpeningIs
<1>4. k = 1 \/ WindowStart(g, cs[k - 1].time) # WindowStart(g, cs[n].time)
  BY <1>2, BeforeOpening
<1> HIDE DEF k
<1>5. \A j \in 1 .. n : more[j] = cs[j]
  BY <1>1, <1>2
<1>6. /\ \A j \in k .. n : WindowStart(g, more[j].time) = WindowStart(g, more[n].time)
      /\ k = 1 \/ WindowStart(g, more[k - 1].time) # WindowStart(g, more[n].time)
  <2>1. n \in 1 .. n /\ (\A j \in k .. n : j \in 1 .. n) /\ (k = 1 \/ k - 1 \in 1 .. n)
    BY <1>2, <1>3
  <2> QED
    BY <1>3, <1>4, <1>5, <2>1
<1>7. Opening(more, g, n) = k
  BY <1>2, <1>3, <1>6, OpeningAt
<1>8. SubSeq(more, k, n) = SubSeq(cs, k, n)
  BY <1>2, <1>3, RunKept
<1> QED
  BY <1>7, <1>8 DEF Window, k

\* The window of the newest candle, when it is the one before.
LEMMA WindowGrows ==
  ASSUME NEW more, NEW cs, NEW c, OneMore(more, cs, c), NEW g, Len(cs) > 0,
         WindowStart(g, cs[Len(cs)].time) = WindowStart(g, c.time)
  PROVE  /\ Opening(more, g, Len(more)) = Opening(cs, g, Len(cs))
         /\ Window(more, g, Len(more)) = Append(Window(cs, g, Len(cs)), c)
<1> DEFINE n == Len(cs)
           k == Opening(cs, g, n)
           S == Range(more)
<1>1. /\ n \in Nat \ {0} /\ Len(more) = n + 1 /\ more[n + 1] = c /\ \A i \in 1 .. n : more[i] = cs[i]
      /\ more \in Seq(S)
  <2>1. /\ Len(cs) \in Nat /\ Len(more) = Len(cs) + 1 /\ more[Len(cs) + 1] = c
        /\ \A i \in 1 .. Len(cs) : more[i] = cs[i]
        /\ more \in Seq(Range(more))
    BY ChartIs DEF OneMore
  <2> QED
    BY <2>1
<1>2. k \in 1 .. n /\ \A j \in k .. n : WindowStart(g, cs[j].time) = WindowStart(g, cs[n].time)
  BY <1>1, OpeningIs
<1>3. k = 1 \/ WindowStart(g, cs[k - 1].time) # WindowStart(g, cs[n].time)
  BY <1>1, BeforeOpening
<1>4. WindowStart(g, cs[n].time) = WindowStart(g, c.time)
  OBVIOUS
<1>5. Window(cs, g, n) = SubSeq(cs, k, n)
  BY DEF Window
<1>6. SubSeq(more, k, n) = SubSeq(cs, k, n)
  <2> HIDE DEF k
  <2>1. k \in Nat \ {0} /\ n \in Nat /\ n <= Len(cs)
    BY <1>1, <1>2
  <2> HIDE DEF n
  <2> QED
    BY <2>1, RunKept
<1> HIDE DEF n, k, S
<1>7. ASSUME NEW j \in k .. n + 1 PROVE WindowStart(g, more[j].time) = WindowStart(g, more[n + 1].time)
  <2>1. (j \in k .. n /\ j \in 1 .. n) \/ j = n + 1
    BY <1>1, <1>2
  <2> QED
    BY <1>1, <1>2, <1>4, <2>1
<1>8. k = 1 \/ WindowStart(g, more[k - 1].time) # WindowStart(g, more[n + 1].time)
  <2>1. k = 1 \/ k - 1 \in 1 .. n
    BY <1>1, <1>2
  <2> QED
    BY <1>1, <1>3, <1>4, <2>1
<1>9. Opening(more, g, n + 1) = k
  <2>1. n + 1 \in Nat \ {0} /\ k \in 1 .. n + 1
    BY <1>1, <1>2
  <2> DEFINE m == n + 1
  <2>2. /\ m \in Nat \ {0} /\ k \in 1 .. m
        /\ \A j \in k .. m : WindowStart(g, more[j].time) = WindowStart(g, more[m].time)
        /\ k = 1 \/ WindowStart(g, more[k - 1].time) # WindowStart(g, more[m].time)
    BY <1>7, <1>8, <2>1
  <2> HIDE DEF m
  <2>3. Opening(more, g, m) = k
    BY <2>2, OpeningAt
  <2> QED
    BY <2>3 DEF m
<1>10. SubSeq(more, k, n + 1) = Append(SubSeq(more, k, n), c)
  <2> DEFINE a == SubSeq(more, k, n)
             b == SubSeq(more, k, n + 1)
  <2>1. k \in Nat \ {0} /\ n \in Nat /\ n + 1 \in Nat /\ n <= Len(more) /\ n + 1 <= Len(more) /\ k <= n
    BY <1>1, <1>2
  <2>2. a \in Seq(S) /\ Len(a) = n - k + 1 /\ \A i \in 1 .. n - k + 1 : a[i] = more[k + i - 1]
    BY <1>1, <2>1, RunOf
  <2>3. b \in Seq(S) /\ Len(b) = (n + 1) - k + 1 /\ \A i \in 1 .. (n + 1) - k + 1 : b[i] = more[k + i - 1]
    <3> DEFINE m == n + 1
    <3>1. m \in Nat /\ m <= Len(more) /\ k <= m
      BY <2>1
    <3> HIDE DEF m
    <3>2. /\ SubSeq(more, k, m) \in Seq(S) /\ Len(SubSeq(more, k, m)) = m - k + 1
          /\ \A i \in 1 .. m - k + 1 : SubSeq(more, k, m)[i] = more[k + i - 1]
      BY <1>1, <2>1, <3>1, RunOf
    <3> QED
      BY <3>2 DEF m
  <2>4. c \in S
    <3>1. n + 1 \in 1 .. Len(more)
      BY <1>1
    <3> QED
      BY <1>1, <3>1, ElementOfSeq
  <2> HIDE DEF a, b
  <2>5. /\ Append(a, c) \in Seq(S) /\ Len(Append(a, c)) = Len(a) + 1 /\ Append(a, c)[Len(a) + 1] = c
        /\ \A i \in 1 .. Len(a) : Append(a, c)[i] = a[i]
    BY <2>2, <2>4, AppendProperties
  <2>6. Len(b) = Len(Append(a, c))
    BY <2>1, <2>2, <2>3, <2>5
  <2>7. ASSUME NEW i \in 1 .. Len(b) PROVE b[i] = Append(a, c)[i]
    <3>1. i \in 1 .. (n + 1) - k + 1
      BY <2>3
    <3>2. i \in 1 .. n - k + 1 \/ i = (n - k + 1) + 1
      BY <2>1, <3>1
    <3>3. CASE i \in 1 .. n - k + 1
      BY <2>2, <2>3, <2>5, <3>1, <3>3
    <3>4. CASE i = (n - k + 1) + 1
      <4>1. k + i - 1 = n + 1
        BY <2>1, <3>4
      <4> QED
        BY <1>1, <2>2, <2>3, <2>5, <3>1, <3>4, <4>1
    <3> QED
      BY <3>2, <3>3, <3>4
  <2>8. b = Append(a, c)
    BY <2>3, <2>5, <2>6, <2>7, SeqEqual
  <2> QED
    BY <2>8 DEF a, b
<1>11. Window(more, g, n + 1) = SubSeq(more, k, n + 1)
  BY <1>9 DEF Window
<1> QED
  BY <1>1, <1>5, <1>6, <1>9, <1>10, <1>11 DEF n, k

\* The window of the newest candle, when it is a new one.
LEMMA WindowOpens ==
  ASSUME NEW more, NEW cs, NEW c, OneMore(more, cs, c), NEW g,
         Len(cs) > 0 => WindowStart(g, cs[Len(cs)].time) # WindowStart(g, c.time)
  PROVE  /\ Opening(more, g, Len(more)) = Len(more)
         /\ Window(more, g, Len(more)) = <<c>>
<1> DEFINE n == Len(cs)
           m == n + 1
           S == Range(more)
<1>1. /\ n \in Nat /\ Len(more) = m /\ more[m] = c /\ \A i \in 1 .. n : more[i] = cs[i]
      /\ more \in Seq(S)
  BY ChartIs DEF OneMore
<1>2. m \in Nat \ {0} /\ m \in 1 .. m /\ m - 1 = n /\ \A j \in m .. m : j = m
  BY <1>1
<1>3. m = 1 \/ WindowStart(g, more[m - 1].time) # WindowStart(g, more[m].time)
  <2>1. CASE n = 0
    BY <2>1
  <2>2. CASE n # 0
    <3>1. n \in 1 .. n /\ Len(cs) > 0
      BY <1>1, <2>2
    <3> QED
      BY <1>1, <1>2, <3>1
  <2> QED
    BY <2>1, <2>2
<1> HIDE DEF m, n, S
<1>4. Opening(more, g, m) = m
  BY <1>2, <1>3, OpeningAt
<1>5. /\ SubSeq(more, m, m) \in Seq(S) /\ Len(SubSeq(more, m, m)) = 1 /\ SubSeq(more, m, m)[1] = c
  <2>1. /\ SubSeq(more, m, m) \in Seq(S) /\ Len(SubSeq(more, m, m)) = m - m + 1
        /\ \A k \in 1 .. m - m + 1 : SubSeq(more, m, m)[k] = more[m + k - 1]
    <3>1. m \in Nat /\ m <= Len(more) /\ m <= m
      BY <1>1, <1>2
    <3> QED
      BY <1>1, <1>2, <3>1, RunOf
  <2>2. m - m + 1 = 1 /\ 1 \in 1 .. 1 /\ m + 1 - 1 = m
    BY <1>2
  <2> QED
    BY <1>1, <2>1, <2>2
<1>6. SubSeq(more, m, m) = <<c>>
  <2> DEFINE a == SubSeq(more, m, m)
  <2> HIDE DEF a
  <2>1. a \in Seq(S) /\ Len(a) = 1 /\ a[1] = c
    BY <1>5 DEF a
  <2>2. a = <<a[1]>>
    BY <2>1
  <2> QED
    BY <2>1, <2>2 DEF a
<1> QED
  BY <1>1, <1>4, <1>6 DEF Window

\* What is known of a window.
Seen(w, g) ==
  [open |-> TRUE, start |-> WindowStart(g, w[1].time), first |-> w[1].available,
   high |-> Highest(w), low |-> Lowest(w)]

\* What a period state is when candle n was the last, and the window of that
\* candle opened at k.
PeriodAt(cs, g, n, k) ==
  [current |-> Seen(Window(cs, g, n), g),
   previous |-> IF k = 1 THEN NoWindow ELSE Seen(Window(cs, g, k - 1), g)]

PeriodOf(cs, g) ==
  IF cs = << >> THEN InitialPeriod ELSE PeriodAt(cs, g, Len(cs), Opening(cs, g, Len(cs)))

\* A window is some candles of the chart, from the one that opens it.
LEMMA WindowIs ==
  ASSUME NEW cs, ChartOK(cs), NEW g, NEW n \in 1 .. Len(cs)
  PROVE  /\ WindowOK(Window(cs, g, n))
         /\ Window(cs, g, n)[1] = cs[Opening(cs, g, n)]
<1> DEFINE k == Opening(cs, g, n)
           S == Range(cs)
           w == SubSeq(cs, k, n)
<1>1. /\ Len(cs) \in Nat /\ cs \in Seq(S) /\ S = {cs[i] : i \in 1 .. Len(cs)}
      /\ \A i \in 1 .. Len(cs) : IsCandle(cs[i])
  BY ChartIs DEF ChartOK, CandlesOK
<1>2. n \in Nat \ {0} /\ n <= Len(cs)
  BY <1>1
<1>3. k \in 1 .. n
  BY <1>2, OpeningIs
<1>4. Window(cs, g, n) = w
  BY DEF Window
<1> HIDE DEF k, S
<1>5. k \in Nat \ {0} /\ k <= n /\ 1 \in 1 .. n - k + 1 /\ k + 1 - 1 = k /\ n - k + 1 \in Nat \ {0}
  BY <1>2, <1>3
<1>6. w \in Seq(S) /\ Len(w) = n - k + 1 /\ \A i \in 1 .. n - k + 1 : w[i] = cs[k + i - 1]
  <2>1. n \in Nat
    BY <1>2
  <2> QED
    BY <1>1, <1>2, <1>5, <2>1, RunOf
<1> HIDE DEF w
<1>7. w[1] = cs[k]
  BY <1>5, <1>6
<1>8. \A x \in S : x.high \in Nat /\ x.low \in Nat
  <2>1. \A x \in S : IsCandle(x)
    BY <1>1
  <2> QED
    BY <2>1 DEF IsCandle
<1>9. \A i \in 1 .. Len(w) : w[i].high \in Nat /\ w[i].low \in Nat
  BY <1>6, <1>8, ElementOfSeq
<1>10. w \in Seq(Range(w))
  BY <1>6, SeqOfRange
<1> QED
  BY <1>4, <1>5, <1>6, <1>7, <1>9, <1>10 DEF WindowOK, k

\* What changes two fields of a record.
LEMMA ExceptTwo ==
  ASSUME NEW r, NEW x, NEW y
  PROVE  [r EXCEPT !.high = x, !.low = y]
           = [f \in DOMAIN r |-> IF f = "low" THEN y ELSE IF f = "high" THEN x ELSE r[f]]
OBVIOUS

\* Functions that agree everywhere are one function.
LEMMA SameFunction ==
  ASSUME NEW q, NEW w, q = [f \in DOMAIN q |-> q[f]], w = [f \in DOMAIN w |-> w[f]],
         DOMAIN q = DOMAIN w, \A f \in DOMAIN w : q[f] = w[f]
  PROVE  q = w
OBVIOUS

\* What a candle makes of a window.
LEMMA GrowIs ==
  ASSUME NEW start, NEW first, NEW high, NEW low, NEW c
  PROVE  GrowWindow([open |-> TRUE, start |-> start, first |-> first, high |-> high, low |-> low], c)
           = [open |-> TRUE, start |-> start, first |-> first,
              high |-> IF c.high > high.high THEN c ELSE high, low |-> IF c.low < low.low THEN c ELSE low]
<1> DEFINE r == [open |-> TRUE, start |-> start, first |-> first, high |-> high, low |-> low]
           x == IF c.high > high.high THEN c ELSE high
           y == IF c.low < low.low THEN c ELSE low
<1>1. r.high = high /\ r.low = low
  OBVIOUS
<1>2. [r EXCEPT !.high = x].low = low
  <2> HIDE DEF x
  <2> QED
    OBVIOUS
<1>3. GrowWindow(r, c) = [r EXCEPT !.high = x, !.low = y]
  <2>1. /\ GrowWindow(r, c) = [r EXCEPT !.high = IF c.high > @.high THEN c ELSE @,
                                        !.low = IF c.low < @.low THEN c ELSE @]
    BY DEF GrowWindow
  <2> HIDE DEF r
  <2> QED
    BY <1>1, <2>1
<1> HIDE DEF x, y
<1>4. [r EXCEPT !.high = x, !.low = y] = [open |-> TRUE, start |-> start, first |-> first, high |-> x, low |-> y]
  <2> DEFINE w == [open |-> TRUE, start |-> start, first |-> first, high |-> x, low |-> y]
             q == [f \in DOMAIN r |-> IF f = "low" THEN y ELSE IF f = "high" THEN x ELSE r[f]]
  <2>1. [r EXCEPT !.high = x, !.low = y] = q
    <3> HIDE DEF r
    <3> QED
      BY ExceptTwo
  <2>2. /\ DOMAIN r = {"open", "start", "first", "high", "low"}
        /\ DOMAIN w = {"open", "start", "first", "high", "low"}
    OBVIOUS
  <2>3. w = [f \in DOMAIN w |-> w[f]]
    OBVIOUS
  <2>4. /\ r["open"] = TRUE /\ r["start"] = start /\ r["first"] = first
        /\ w["open"] = TRUE /\ w["start"] = start /\ w["first"] = first /\ w["high"] = x /\ w["low"] = y
    OBVIOUS
  <2>5. \A f \in DOMAIN r : f = "open" \/ f = "start" \/ f = "first" \/ f = "high" \/ f = "low"
    BY <2>2
  <2> HIDE DEF r, w
  <2>6. /\ DOMAIN q = DOMAIN r /\ q = [f \in DOMAIN q |-> q[f]]
        /\ \A f \in DOMAIN r : q[f] = IF f = "low" THEN y ELSE IF f = "high" THEN x ELSE r[f]
    OBVIOUS
  <2> HIDE DEF q
  <2>7. \A f \in DOMAIN w : q[f] = w[f]
    BY <2>2, <2>4, <2>5, <2>6
  <2>8. q = w
    BY <2>2, <2>3, <2>6, <2>7, SameFunction
  <2> QED
    BY <2>1, <2>8 DEF w
<1> QED
  BY <1>3, <1>4 DEF x, y

\* The accumulator of a period follows the windows of the chart.
LEMMA PeriodStep ==
  ASSUME NEW more, NEW cs, NEW c, OneMore(more, cs, c), NEW g
  PROVE  AdvancePeriod(PeriodOf(cs, g), c, g) = PeriodOf(more, g)
<1> DEFINE n == Len(cs)
           k == Opening(cs, g, n)
           w == Window(cs, g, n)
           state == PeriodOf(cs, g)
<1>1. /\ n \in Nat /\ Len(more) = n + 1 /\ more[n + 1] = c /\ (\A i \in 1 .. n : more[i] = cs[i])
      /\ ChartOK(cs) /\ ChartOK(more) /\ (cs = << >> <=> n = 0) /\ more # << >>
      /\ IsCandle(c)
  <2>1. /\ Len(cs) \in Nat /\ Len(more) = Len(cs) + 1 /\ more[Len(cs) + 1] = c
        /\ (\A i \in 1 .. Len(cs) : more[i] = cs[i]) /\ ChartOK(cs) /\ ChartOK(more)
    BY DEF OneMore
  <2>2. (cs = << >> <=> Len(cs) = 0) /\ (more = << >> <=> Len(more) = 0)
    BY <2>1, ChartIs
  <2>3. Len(cs) + 1 \in 1 .. Len(more)
    BY <2>1
  <2>4. IsCandle(more[Len(cs) + 1])
    BY <2>1, <2>3 DEF ChartOK, CandlesOK
  <2> QED
    BY <2>1, <2>2, <2>4
<1>2. c.high \in Nat /\ c.low \in Nat
  BY <1>1 DEF IsCandle
<1>3. PeriodOf(more, g) = PeriodAt(more, g, n + 1, Opening(more, g, n + 1))
  BY <1>1 DEF PeriodOf
<1>4. OpenWindow(g, c) = Seen(<<c>>, g)
  <2>1. <<c>>[1] = c
    OBVIOUS
  <2> QED
    BY <1>2, <2>1, ExtremeOne DEF OpenWindow, Seen
<1>5. CASE n = 0
  <2>1. state = InitialPeriod
    BY <1>1, <1>5 DEF PeriodOf
  <2>2. AdvancePeriod(state, c, g) = [current |-> OpenWindow(g, c), previous |-> NoWindow]
    <3>1. ~ InitialPeriod.current.open /\ InitialPeriod = [current |-> InitialPeriod.current, previous |-> NoWindow]
      BY DEF InitialPeriod, NoWindow
    <3>2. AdvancePeriod(InitialPeriod, c, g) = [InitialPeriod EXCEPT !.current = OpenWindow(g, c)]
      BY <3>1 DEF AdvancePeriod
    <3> QED
      BY <2>1, <3>1, <3>2
  <2>3. Opening(more, g, n + 1) = n + 1 /\ Window(more, g, n + 1) = <<c>>
    <3>1. ~ (Len(cs) > 0)
      BY <1>5
    <3> QED
      BY <1>1, <3>1, WindowOpens
  <2>4. PeriodOf(more, g) = [current |-> Seen(<<c>>, g), previous |-> NoWindow]
    BY <1>3, <1>5, <2>3 DEF PeriodAt
  <2> QED
    BY <1>4, <2>2, <2>4
<1>6. CASE n # 0
  <2>1. n \in 1 .. n /\ Len(cs) > 0 /\ n \in Nat \ {0}
    BY <1>1, <1>6
  <2>2. state = PeriodAt(cs, g, n, k)
    BY <1>1, <1>6 DEF PeriodOf
  <2>3. k \in 1 .. n /\ WindowStart(g, cs[k].time) = WindowStart(g, cs[n].time)
    <3>1. /\ k \in 1 .. n
          /\ \A j \in k .. n : WindowStart(g, cs[j].time) = WindowStart(g, cs[n].time)
      BY <2>1, OpeningIs
    <3>2. k \in k .. n
      BY <3>1
    <3> QED
      BY <3>1, <3>2
  <2>4. WindowOK(w) /\ w[1] = cs[k]
    BY <1>1, <2>1, WindowIs
  <2>5. /\ state.current = Seen(w, g)
        /\ state.previous = IF k = 1 THEN NoWindow ELSE Seen(Window(cs, g, k - 1), g)
        /\ state = [current |-> state.current, previous |-> state.previous]
    BY <2>2 DEF PeriodAt
  <2>6. state.current.open = TRUE /\ state.current.start = WindowStart(g, cs[n].time)
    BY <2>3, <2>4, <2>5 DEF Seen
  <2> HIDE DEF state, k, w
  <2>7. CASE WindowStart(g, cs[n].time) = WindowStart(g, c.time)
    <3>1. AdvancePeriod(state, c, g) = [current |-> GrowWindow(state.current, c), previous |-> state.previous]
      <4>1. AdvancePeriod(state, c, g) = [state EXCEPT !.current = GrowWindow(@, c)]
        BY <2>6, <2>7 DEF AdvancePeriod
      <4> QED
        BY <2>5, <4>1
    <3>2. Opening(more, g, n + 1) = k /\ Window(more, g, n + 1) = Append(w, c)
      BY <1>1, <2>1, <2>7, WindowGrows DEF k, w
    <3>3. GrowWindow(Seen(w, g), c) = Seen(Append(w, c), g)
      <4>1. /\ Highest(Append(w, c)) = IF c.high > Highest(w).high THEN c ELSE Highest(w)
            /\ Lowest(Append(w, c)) = IF c.low < Lowest(w).low THEN c ELSE Lowest(w)
        BY <1>2, <2>4, ExtremeAppend
      <4>2. Append(w, c)[1] = w[1]
        <5>1. w \in Seq(Range(w)) /\ Len(w) \in Nat \ {0}
          BY <2>4 DEF WindowOK
        <5>2. 1 \in 1 .. Len(w)
          BY <5>1
        <5> QED
          BY <5>1, <5>2, AppendIs
      <4> DEFINE v == Append(w, c)
                 h == Highest(w)
                 l == Lowest(w)
      <4>3. Seen(v, g) = [open |-> TRUE, start |-> WindowStart(g, w[1].time), first |-> w[1].available,
                          high |-> IF c.high > h.high THEN c ELSE h, low |-> IF c.low < l.low THEN c ELSE l]
        BY <4>1, <4>2 DEF Seen
      <4>4. Seen(w, g) = [open |-> TRUE, start |-> WindowStart(g, w[1].time), first |-> w[1].available,
                          high |-> h, low |-> l]
        BY DEF Seen
      <4> HIDE DEF v, h, l
      <4> QED
        BY <4>3, <4>4, GrowIs DEF v
    <3>4. k = 1 \/ Window(more, g, k - 1) = Window(cs, g, k - 1)
      <4>1. k = 1 \/ k - 1 \in 1 .. Len(cs)
        BY <1>1, <2>3
      <4> QED
        BY <4>1, WindowKept
    <3>5. PeriodOf(more, g) = [current |-> Seen(Append(w, c), g),
                               previous |-> IF k = 1 THEN NoWindow ELSE Seen(Window(cs, g, k - 1), g)]
      BY <1>3, <3>2, <3>4 DEF PeriodAt
    <3> QED
      BY <2>5, <3>1, <3>3, <3>5 DEF state
  <2>8. CASE WindowStart(g, cs[n].time) # WindowStart(g, c.time)
    <3>1. AdvancePeriod(state, c, g) = [current |-> OpenWindow(g, c), previous |-> state.current]
      BY <2>6, <2>8 DEF AdvancePeriod
    <3>2. Opening(more, g, n + 1) = n + 1 /\ Window(more, g, n + 1) = <<c>>
      BY <1>1, <2>8, WindowOpens
    <3>3. Window(more, g, n) = w
      BY <2>1, WindowKept DEF w
    <3>4. n + 1 # 1 /\ (n + 1) - 1 = n
      BY <1>1, <1>6
    <3>5. PeriodOf(more, g) = [current |-> Seen(<<c>>, g), previous |-> Seen(w, g)]
      BY <1>3, <3>2, <3>3, <3>4 DEF PeriodAt
    <3> QED
      BY <1>4, <2>5, <3>1, <3>5 DEF state
  <2> QED
    BY <2>7, <2>8
<1> QED
  BY <1>5, <1>6

\* The accumulators give the levels that the detector finds.
LEMMA LevelsOfPeriods ==
  ASSUME NEW cs, ChartOK(cs), cs # << >>,
         NEW states, \A g \in Granularities : states[g] = PeriodOf(cs, g)
  PROVE  PeriodCandidates(states, Last(cs)) = DetectPeriodLevels(cs)
<1> DEFINE n == Len(cs)
           k(g) == Opening(cs, g, n)
           A(g) == (IF states[g].current.open
                      THEN PeriodLevels(g, "CURRENT", states[g].current.high, states[g].current.low, Last(cs).available)
                      ELSE {})
                   \cup IF states[g].previous.open
                          THEN PeriodLevels(g, "PREVIOUS", states[g].previous.high, states[g].previous.low,
                                            states[g].current.first)
                          ELSE {}
           B(g) == PeriodLevels(g, "CURRENT", Highest(Window(cs, g, n)), Lowest(Window(cs, g, n)), Last(cs).available)
                     \cup IF k(g) = 1 THEN {}
                          ELSE PeriodLevels(g, "PREVIOUS", Highest(Window(cs, g, k(g) - 1)),
                                            Lowest(Window(cs, g, k(g) - 1)), cs[k(g)].available)
<1>1. n \in Nat /\ n # 0
  BY ChartIs
<1>2. PeriodCandidates(states, Last(cs)) = UNION {A(g) : g \in Granularities}
  BY DEF PeriodCandidates
<1>3. DetectPeriodLevels(cs) = UNION {B(g) : g \in Granularities}
  BY DEF DetectPeriodLevels
<1>4. ASSUME NEW g \in Granularities PROVE A(g) = B(g)
  <2>1. states[g] = PeriodAt(cs, g, n, k(g))
    BY DEF PeriodOf
  <2>2. n \in 1 .. Len(cs)
    BY <1>1
  <2>3. Window(cs, g, n)[1] = cs[k(g)]
    BY <2>2, WindowIs
  <2> HIDE DEF n, k
  <2>4. /\ states[g].current = Seen(Window(cs, g, n), g)
        /\ states[g].previous = IF k(g) = 1 THEN NoWindow ELSE Seen(Window(cs, g, k(g) - 1), g)
    BY <2>1 DEF PeriodAt
  <2>5. /\ states[g].current.open = TRUE
        /\ states[g].current.high = Highest(Window(cs, g, n)) /\ states[g].current.low = Lowest(Window(cs, g, n))
        /\ states[g].current.first = cs[k(g)].available
    BY <2>3, <2>4 DEF Seen
  <2>6. CASE k(g) = 1
    <3>1. states[g].previous.open = FALSE
      BY <2>4, <2>6 DEF NoWindow
    <3> QED
      BY <2>5, <2>6, <3>1
  <2>7. CASE k(g) # 1
    <3>1. /\ states[g].previous.open = TRUE
          /\ states[g].previous.high = Highest(Window(cs, g, k(g) - 1))
          /\ states[g].previous.low = Lowest(Window(cs, g, k(g) - 1))
      BY <2>4, <2>7 DEF Seen
    <3> QED
      BY <2>5, <2>7, <3>1
  <2> QED
    BY <2>6, <2>7
<1> HIDE DEF A, B
<1> QED
  BY <1>2, <1>3, <1>4

-----------------------------------------------------------------------------
(* Candidates by identity.                                                 *)

\* What an identity is made of.
LEMMA IdentityIs ==
  ASSUME NEW z
  PROVE  /\ z.kind = "P" => Identity(z) = <<"P", z.type, z.period>>
         /\ z.kind = "R" => Identity(z) = <<"R", z.type, z.sources>>
         /\ z.kind = "A" => Identity(z) = <<"A", z.type, z.sources>>
BY DEF Identity

\* The parts of an identity.
LEMMA IdentityParts ==
  ASSUME NEW z, z.kind \in {"P", "R", "A"}
  PROVE  Identity(z)[1] = z.kind /\ Identity(z)[2] = z.type
<1>1. CASE z.kind = "P"
  BY <1>1, IdentityIs
<1>2. CASE z.kind = "R"
  BY <1>2, IdentityIs
<1>3. CASE z.kind = "A"
  BY <1>3, IdentityIs
<1> QED
  BY <1>1, <1>2, <1>3

Ages == {"CURRENT", "PREVIOUS"}
LevelTypeOf(g, age, isHigh) == LevelTypes[g][age][IF isHigh THEN 1 ELSE 2]

\* The type of a level tells whose it is.
LEMMA LevelTypeOfOne ==
  ASSUME NEW g \in Granularities, NEW a \in Ages, NEW b \in BOOLEAN,
         NEW h \in Granularities, NEW d \in Ages, NEW e \in BOOLEAN,
         LevelTypeOf(g, a, b) = LevelTypeOf(h, d, e)
  PROVE  g = h /\ a = d /\ b = e
<1>1. /\ LevelTypes["DAY"].CURRENT = <<"CURRENT_DAY_HIGH", "CURRENT_DAY_LOW">>
      /\ LevelTypes["DAY"].PREVIOUS = <<"PREVIOUS_DAY_HIGH", "PREVIOUS_DAY_LOW">>
      /\ LevelTypes["WEEK"].CURRENT = <<"CURRENT_WEEK_HIGH", "CURRENT_WEEK_LOW">>
      /\ LevelTypes["WEEK"].PREVIOUS = <<"PREVIOUS_WEEK_HIGH", "PREVIOUS_WEEK_LOW">>
      /\ LevelTypes["MONTH"].CURRENT = <<"CURRENT_MONTH_HIGH", "CURRENT_MONTH_LOW">>
      /\ LevelTypes["MONTH"].PREVIOUS = <<"PREVIOUS_MONTH_HIGH", "PREVIOUS_MONTH_LOW">>
  BY DEF LevelTypes
<1>2. /\ LevelTypeOf("DAY", "CURRENT", TRUE) = "CURRENT_DAY_HIGH"
      /\ LevelTypeOf("DAY", "CURRENT", FALSE) = "CURRENT_DAY_LOW"
      /\ LevelTypeOf("DAY", "PREVIOUS", TRUE) = "PREVIOUS_DAY_HIGH"
      /\ LevelTypeOf("DAY", "PREVIOUS", FALSE) = "PREVIOUS_DAY_LOW"
      /\ LevelTypeOf("WEEK", "CURRENT", TRUE) = "CURRENT_WEEK_HIGH"
      /\ LevelTypeOf("WEEK", "CURRENT", FALSE) = "CURRENT_WEEK_LOW"
      /\ LevelTypeOf("WEEK", "PREVIOUS", TRUE) = "PREVIOUS_WEEK_HIGH"
      /\ LevelTypeOf("WEEK", "PREVIOUS", FALSE) = "PREVIOUS_WEEK_LOW"
      /\ LevelTypeOf("MONTH", "CURRENT", TRUE) = "CURRENT_MONTH_HIGH"
      /\ LevelTypeOf("MONTH", "CURRENT", FALSE) = "CURRENT_MONTH_LOW"
      /\ LevelTypeOf("MONTH", "PREVIOUS", TRUE) = "PREVIOUS_MONTH_HIGH"
      /\ LevelTypeOf("MONTH", "PREVIOUS", FALSE) = "PREVIOUS_MONTH_LOW"
  BY <1>1 DEF LevelTypeOf
<1>3. g = "DAY" \/ g = "WEEK" \/ g = "MONTH"
  BY DEF Granularities
<1>4. h = "DAY" \/ h = "WEEK" \/ h = "MONTH"
  BY DEF Granularities
<1>5. (a = "CURRENT" \/ a = "PREVIOUS") /\ (d = "CURRENT" \/ d = "PREVIOUS")
  BY DEF Ages
<1>6. (b = TRUE \/ b = FALSE) /\ (e = TRUE \/ e = FALSE)
  OBVIOUS
<1> QED
  BY <1>2, <1>3, <1>4, <1>5, <1>6, ZenonT(60)

\* The level of a period, of the current one or the one before.
ExtremeOf(w, isHigh) == IF isHigh THEN Highest(w) ELSE Lowest(w)

LevelOf(cs, g, age, isHigh) ==
  LET k == Opening(cs, g, Len(cs))
  IN  IF age = "CURRENT"
        THEN PeriodLevel(g, age, isHigh, ExtremeOf(Window(cs, g, Len(cs)), isHigh), Last(cs).available)
        ELSE PeriodLevel(g, age, isHigh, ExtremeOf(Window(cs, g, k - 1), isHigh), cs[k].available)

\* What a level is.
LEMMA LevelIs ==
  ASSUME NEW cs, NEW g, NEW age, NEW isHigh
  PROVE  /\ LevelOf(cs, g, age, isHigh).kind = "P"
         /\ LevelOf(cs, g, age, isHigh).type = LevelTypeOf(g, age, isHigh)
<1>1. ASSUME NEW x, NEW v
      PROVE  /\ PeriodLevel(g, age, isHigh, x, v).kind = "P"
             /\ PeriodLevel(g, age, isHigh, x, v).type = LevelTypeOf(g, age, isHigh)
  BY DEF PeriodLevel, LevelTypeOf
<1> QED
  BY <1>1 DEF LevelOf

\* No two levels have one type.
LEMMA LevelsFound ==
  ASSUME NEW cs
  PROVE  /\ \A z \in DetectPeriodLevels(cs) : z.kind = "P"
         /\ \A y, z \in DetectPeriodLevels(cs) : y.type = z.type => y = z
<1>1. ASSUME NEW z \in DetectPeriodLevels(cs)
      PROVE  \E g \in Granularities, a \in Ages, b \in BOOLEAN : z = LevelOf(cs, g, a, b)
  <2>1. PICK g \in Granularities :
          \/ z \in PeriodLevels(g, "CURRENT", Highest(Window(cs, g, Len(cs))), Lowest(Window(cs, g, Len(cs))),
                                Last(cs).available)
          \/ z \in PeriodLevels(g, "PREVIOUS", Highest(Window(cs, g, Opening(cs, g, Len(cs)) - 1)),
                                Lowest(Window(cs, g, Opening(cs, g, Len(cs)) - 1)),
                                cs[Opening(cs, g, Len(cs))].available)
    BY DEF DetectPeriodLevels
  <2>2. z \in {LevelOf(cs, g, "CURRENT", TRUE), LevelOf(cs, g, "CURRENT", FALSE),
               LevelOf(cs, g, "PREVIOUS", TRUE), LevelOf(cs, g, "PREVIOUS", FALSE)}
    BY <2>1 DEF PeriodLevels, LevelOf, ExtremeOf
  <2> QED
    BY <2>2 DEF Ages
<1>2. ASSUME NEW z \in DetectPeriodLevels(cs) PROVE z.kind = "P"
  BY <1>1, <1>2, LevelIs
<1>3. ASSUME NEW y \in DetectPeriodLevels(cs), NEW z \in DetectPeriodLevels(cs), y.type = z.type
      PROVE  y = z
  <2>1. PICK g \in Granularities, a \in Ages, b \in BOOLEAN : y = LevelOf(cs, g, a, b)
    BY <1>1
  <2>2. PICK h \in Granularities, d \in Ages, e \in BOOLEAN : z = LevelOf(cs, h, d, e)
    BY <1>1
  <2>3. LevelTypeOf(g, a, b) = LevelTypeOf(h, d, e)
    BY <1>3, <2>1, <2>2, LevelIs
  <2>4. g = h /\ a = d /\ b = e
    BY <2>3, LevelTypeOfOne
  <2> QED
    BY <2>1, <2>2, <2>4
<1> QED
  BY <1>2, <1>3

ZoneTypes == {"SUPPORT_ZONE", "RESISTANCE_ZONE", "EQUAL_HIGHS_LIQUIDITY", "EQUAL_LOWS_LIQUIDITY"}

\* The candidate of a measured zone.
ReferenceOf(z) ==
  [kind |-> "R", type |-> z.type,
   direction |-> IF z.type \in {"SUPPORT_ZONE", "EQUAL_LOWS_LIQUIDITY"} THEN "BULLISH" ELSE "BEARISH",
   top |-> z.top, bottom |-> z.bottom, tier |-> "NONE", sources |-> <<z.id>>, period |-> <<>>,
   event |-> z.confirmed, available |-> z.available]

\* No two reference candidates are of one zone.
LEMMA ReferencesFound ==
  ASSUME NEW zs, Measured(zs)
  PROVE  /\ \A z \in DetectReferenceZones(zs) : z.kind = "R" /\ z.type \in ZoneTypes
         /\ \A y, z \in DetectReferenceZones(zs) : y.sources = z.sources => y = z
<1>1. DetectReferenceZones(zs) = {ReferenceOf(z) : z \in zs}
  BY DEF DetectReferenceZones, ReferenceOf
<1>2. \A z : ReferenceOf(z).kind = "R" /\ ReferenceOf(z).type = z.type /\ ReferenceOf(z).sources = <<z.id>>
  BY DEF ReferenceOf
<1>3. ASSUME NEW y \in zs, NEW z \in zs, <<y.id>> = <<z.id>> PROVE y = z
  <2>1. y.id = z.id
    BY <1>3
  <2> QED
    BY <2>1 DEF Measured
<1>4. \A z \in zs : z.type \in ZoneTypes
  BY DEF Measured, ZoneTypes
<1> QED
  BY <1>1, <1>2, <1>3, <1>4

\* Patterns, reference zones and levels together, no two of one identity.
CandidatesOK(P, R, L) ==
  /\ \A z \in P : z.kind = "A"
  /\ \A y, z \in P : y.type = z.type /\ y.sources = z.sources => y = z
  /\ \A z \in R : z.kind = "R" /\ z.type \in ZoneTypes
  /\ \A y, z \in R : y.sources = z.sources => y = z
  /\ \A z \in L : z.kind = "P"
  /\ \A y, z \in L : y.type = z.type => y = z

\* Two candidates of one identity are one.
LEMMA OneOfIdentity ==
  ASSUME NEW P, NEW R, NEW L, CandidatesOK(P, R, L),
         NEW y \in P \cup R \cup L, NEW z \in P \cup R \cup L, Identity(y) = Identity(z)
  PROVE  y = z
<1>1. y.kind \in {"P", "R", "A"} /\ z.kind \in {"P", "R", "A"}
  BY DEF CandidatesOK
<1>2. y.kind = z.kind /\ y.type = z.type
  BY <1>1, IdentityParts
<1>3. CASE y.kind = "P"
  <2>1. y \in L /\ z \in L
    BY <1>2, <1>3 DEF CandidatesOK
  <2> QED
    BY <1>2, <2>1 DEF CandidatesOK
<1>4. CASE y.kind = "R"
  <2>1. y \in R /\ z \in R
    BY <1>2, <1>4 DEF CandidatesOK
  <2>2. <<"R", y.type, y.sources>> = <<"R", z.type, z.sources>>
    BY <1>2, <1>4, IdentityIs
  <2>3. y.sources = z.sources
    BY <2>2
  <2> QED
    BY <2>1, <2>3 DEF CandidatesOK
<1>5. CASE y.kind = "A"
  <2>1. y \in P /\ z \in P
    BY <1>2, <1>5 DEF CandidatesOK
  <2>2. <<"A", y.type, y.sources>> = <<"A", z.type, z.sources>>
    BY <1>2, <1>5, IdentityIs
  <2>3. y.sources = z.sources
    BY <2>2
  <2> QED
    BY <1>2, <2>1, <2>3 DEF CandidatesOK
<1> QED
  BY <1>1, <1>3, <1>4, <1>5

\* The candidates of a chart and of measured zones are such.
LEMMA CandidatesFound ==
  ASSUME NEW cs, ChartOK(cs), NEW zs, Measured(zs)
  PROVE  CandidatesOK(DetectPatterns(cs), DetectReferenceZones(zs), DetectPeriodLevels(cs))
<1>1. FoundOK(DetectPatterns(cs), cs, PatternTypes)
  BY PatternsFound
<1> QED
  BY <1>1, LevelsFound, ReferencesFound DEF CandidatesOK, FoundOK

-----------------------------------------------------------------------------
(* What is known of the chart.                                             *)

\* The state is what the batch would make of the chart and the zones.
FrontierInv ==
  /\ ChartOK(candles) /\ Measured(zones)
  /\ AtrsOK(atrs, candles) /\ AtrStateOK(atrState, atrs, candles)
  /\ ring = LastOf(candles, Config.ringSize)
  /\ appendOnly \in Seq(Range(appendOnly)) /\ Range(appendOnly) = DetectPatterns(candles)
  /\ reference = DetectReferenceZones(zones)
  /\ periods = [g \in Granularities |-> PeriodOf(candles, g)]
  /\ levels = DetectPeriodLevels(candles)
  /\ observations = Universe

\* Before any candle there is nothing to find.
LEMMA NothingFound ==
  /\ ChartOK(<< >>) /\ DetectPatterns(<< >>) = {}
  /\ DetectPeriodLevels(<< >>) = {} /\ DetectReferenceZones({}) = {}
  /\ Range(<< >>) = {}
<1>1. << >> \in Seq({}) /\ Len(<< >>) = 0
  OBVIOUS
<1>2. Range(<< >>) = {}
  BY <1>1 DEF Range
<1>3. ChartOK(<< >>)
  BY <1>1, <1>2 DEF ChartOK, CandlesOK
<1>4. Spans(Len(<< >>)) = {}
  BY <1>1 DEF Spans
<1>5. DetectPatterns(<< >>) = {}
  BY <1>3, <1>4, PatternsFound DEF FoundOK
<1>6. DetectPeriodLevels(<< >>) = {}
  BY DEF DetectPeriodLevels
<1>7. DetectReferenceZones({}) = {}
  BY DEF DetectReferenceZones
<1> QED
  BY <1>2, <1>3, <1>5, <1>6, <1>7

\* It holds at first.
LEMMA FrontierInit == Init => FrontierInv
<1> SUFFICES ASSUME Init PROVE FrontierInv
  OBVIOUS
<1>1. /\ candles = << >> /\ zones = {} /\ atrState = InitialAtrState /\ atrs = << >> /\ ring = << >>
      /\ appendOnly = << >> /\ periods = [g \in Granularities |-> InitialPeriod]
      /\ reference = {} /\ levels = {} /\ observations = {}
  BY DEF Init
<1>2. /\ ChartOK(<< >>) /\ DetectPatterns(<< >>) = {}
      /\ DetectPeriodLevels(<< >>) = {} /\ DetectReferenceZones({}) = {} /\ Range(<< >>) = {}
  BY NothingFound
<1>3. AtrsOK(<< >>, << >>) /\ AtrStateOK(InitialAtrState, << >>, << >>)
  BY AtrsInit
<1>4. << >> = LastOf(<< >>, Config.ringSize)
  <2>1. << >> \in Seq(Range(<< >>)) /\ Config.ringSize \in Nat /\ Len(<< >>) = 0
    BY <1>2, FrontierConfig
  <2> DEFINE q == LastOf(<< >>, Config.ringSize)
  <2>2. Len(q) = 0 /\ q \in Seq(Range(<< >>))
    <3>1. /\ EndOf(q, << >>, Len(<< >>) - Len(q))
          /\ Len(q) = Smallest(Config.ringSize, Len(<< >>))
      BY <2>1, LastOfIs
    <3> HIDE DEF q
    <3> QED
      BY <2>1, <3>1 DEF EndOf, Smallest
  <2> HIDE DEF q
  <2> QED
    BY <2>2, EmptySeq DEF q
<1>5. << >> \in Seq(Range(<< >>))
  OBVIOUS
<1>6. Measured({})
  BY DEF Measured
<1>7. [g \in Granularities |-> InitialPeriod] = [g \in Granularities |-> PeriodOf(<< >>, g)]
  BY DEF PeriodOf
<1>8. Universe = {}
  BY <1>1, <1>2 DEF Universe, Enabled
<1> QED
  BY <1>1, <1>2, <1>3, <1>4, <1>5, <1>6, <1>7, <1>8 DEF FrontierInv

\* What is appended to a sequence.
LEMMA AppendedIs ==
  ASSUME NEW a, a \in Seq(Range(a)), NEW b, b \in Seq(Range(b))
  PROVE  /\ a \o b \in Seq(Range(a \o b)) /\ Range(a \o b) = Range(a) \cup Range(b)
         /\ Range(SubSeq(a \o b, Len(a) + 1, Len(a \o b))) = Range(b)
<1> DEFINE T == Range(a) \cup Range(b)
           m == Len(a)
           n == Len(b)
           w == a \o b
           q == SubSeq(w, m + 1, m + n)
<1>1. a \in Seq(T) /\ b \in Seq(T)
  BY SeqMonotonic
<1>2. m \in Nat /\ n \in Nat
  BY LenProperties
<1> HIDE DEF T
<1>3. w \in Seq(T) /\ Len(w) = m + n /\ \A k \in 1 .. n : w[m + k] = b[k]
  BY <1>1, <1>2
<1>4. Range(w) = Range(a) \cup Range(b)
  BY <1>1, RangeConcatenation
<1> HIDE DEF w, m, n
<1>5. w \in Seq(Range(w))
  BY <1>3, SeqOfRange
<1>6. m + 1 \in Nat \ {0} /\ m + n \in Nat /\ m + n <= Len(w) /\ (m + n) - (m + 1) + 1 = n
  BY <1>2, <1>3
<1>7. q \in Seq(T) /\ Len(q) = n /\ \A k \in 1 .. n : q[k] = b[k]
  <2>1. /\ q \in Seq(T)
        /\ Len(q) = IF m + 1 <= m + n THEN (m + n) - (m + 1) + 1 ELSE 0
        /\ \A k \in 1 .. (m + n) - (m + 1) + 1 : q[k] = w[m + 1 + k - 1]
    BY <1>3, <1>6, RunOf
  <2> HIDE DEF q
  <2>2. \A k \in 1 .. n : m + 1 + k - 1 = m + k
    BY <1>2
  <2>3. Len(q) = n
    BY <1>2, <1>6, <2>1
  <2> QED
    BY <1>3, <1>6, <2>1, <2>2, <2>3
<1> HIDE DEF q
<1>8. Range(q) = {q[k] : k \in 1 .. n} /\ Range(b) = {b[k] : k \in 1 .. n}
  BY <1>1, <1>2, <1>7, RangeEquality DEF n
<1>9. {q[k] : k \in 1 .. n} = {b[k] : k \in 1 .. n}
  <2>1. \A k \in 1 .. n : q[k] = b[k]
    BY <1>7
  <2> HIDE DEF q, n
  <2> QED
    BY ONLY <2>1
<1>10. Range(q) = Range(b)
  BY ONLY <1>8, <1>9
<1> QED
  BY <1>3, <1>4, <1>5, <1>10 DEF q, w, m, n

\* It holds after each candle: the ring, the ATR before it and the accumulators
\* give what the batch finds of one candle more, and the records follow.
LEMMA FrontierStep ==
  ASSUME FrontierInv, NEW c, NEW zs, Follows(candles, c), Measured(zs), Advance(c, zs)
  PROVE  FrontierInv'
<1> DEFINE more == candles'
           before == IF atrs = << >> THEN None ELSE Last(atrs)
           step == NewLocalCandidates(ring') \cup NewBases(ring', before)
<1>1. /\ candles' = Append(candles, c) /\ zones' = zs
      /\ atrState' = AdvanceAtr(atrState, c) /\ atrs' = Append(atrs, atrState'.atr)
      /\ ring' = LastOf(Append(ring, c), Config.ringSize)
      /\ appendOnly' = appendOnly \o SetToSeq(step)
      /\ periods' = [g \in Granularities |-> AdvancePeriod(periods[g], c, g)]
      /\ levels' = PeriodCandidates(periods', c)
      /\ reference' = IF zs = zones THEN reference ELSE DetectReferenceZones(zs)
  BY DEF Advance, AdvanceFrontier
<1>2. OneMore(more, candles, c)
  BY <1>1, ChartAppend DEF FrontierInv
<1>3. /\ ChartOK(more) /\ more # << >> /\ Last(more) = c
  <2>1. ChartOK(more) /\ Len(candles) \in Nat /\ Len(more) = Len(candles) + 1 /\ more[Len(candles) + 1] = c
    BY <1>2 DEF OneMore
  <2> HIDE DEF more
  <2>2. Len(more) # 0
    BY <2>1
  <2> QED
    BY <2>1, <2>2, ChartIs DEF Last
<1>4. AtrsOK(atrs', more) /\ AtrStateOK(atrState', atrs', more)
  <2>1. CandlesOK(candles) /\ IsCandle(c)
    BY DEF FrontierInv, ChartOK, Follows
  <2> QED
    BY <1>1, <2>1, AtrStepOK DEF FrontierInv
<1>5. ring' = LastOf(more, Config.ringSize)
  <2>1. candles \in Seq(Range(candles))
    BY ChartIs DEF FrontierInv
  <2>2. Config.ringSize \in Nat \ {0}
    BY FrontierConfig
  <2> QED
    BY <1>1, <2>1, <2>2, RingStep DEF FrontierInv
<1>6. DetectPatterns(more) = DetectPatterns(candles) \cup step
  <2> DEFINE r == ring'
             x == atrState'.atr
  <2>1. AtrsOK(atrs, candles) /\ AtrsOK(Append(atrs, x), more)
    BY <1>1, <1>4 DEF FrontierInv
  <2>2. r = LastOf(more, Config.ringSize)
    BY <1>5
  <2>3. step = NewLocalCandidates(r) \cup NewBases(r, IF atrs = << >> THEN None ELSE Last(atrs))
    OBVIOUS
  <2> HIDE DEF more, r, x, step
  <2> QED
    BY <1>2, <2>1, <2>2, <2>3, PatternsStep
<1>7. IsFiniteSet(step)
  <2>1. IsFiniteSet(DetectPatterns(more))
    BY <1>3, PatternsFound DEF FoundOK
  <2> QED
    BY <1>6, <2>1, FS_Subset
<1> HIDE DEF more, step
<1>8. /\ appendOnly' \in Seq(Range(appendOnly')) /\ Range(appendOnly') = DetectPatterns(more)
      /\ Range(SubSeq(appendOnly', Len(appendOnly) + 1, Len(appendOnly'))) = step
  <2> DEFINE b == SetToSeq(step)
  <2>1. b \in Seq(Range(b)) /\ Range(b) = step
    BY <1>7, SetToSeqIs
  <2>2. appendOnly \in Seq(Range(appendOnly)) /\ Range(appendOnly) = DetectPatterns(candles)
    BY DEF FrontierInv
  <2> HIDE DEF b
  <2>3. /\ appendOnly \o b \in Seq(Range(appendOnly \o b))
        /\ Range(appendOnly \o b) = Range(appendOnly) \cup Range(b)
        /\ Range(SubSeq(appendOnly \o b, Len(appendOnly) + 1, Len(appendOnly \o b))) = Range(b)
    BY <2>1, <2>2, AppendedIs
  <2>4. appendOnly' = appendOnly \o b
    BY <1>1 DEF b
  <2> QED
    BY <1>6, <2>1, <2>2, <2>3, <2>4
<1>9. reference' = DetectReferenceZones(zones')
  BY <1>1 DEF FrontierInv
<1>10. periods' = [g \in Granularities |-> PeriodOf(more, g)]
  <2>1. \A g \in Granularities : AdvancePeriod(periods[g], c, g) = PeriodOf(more, g)
    <3>1. \A g \in Granularities : periods[g] = PeriodOf(candles, g)
      BY DEF FrontierInv
    <3>2. \A g : AdvancePeriod(PeriodOf(candles, g), c, g) = PeriodOf(more, g)
      BY <1>2, PeriodStep
    <3> QED
      BY <3>1, <3>2
  <2> QED
    BY <1>1, <2>1
<1>11. levels' = DetectPeriodLevels(more)
  <2>1. \A g \in Granularities : periods'[g] = PeriodOf(more, g)
    BY <1>10
  <2> QED
    BY <1>1, <1>3, <2>1, LevelsOfPeriods
<1>12. observations' = Universe'
  <2> DEFINE P == Range(appendOnly)
             R == reference
             L == levels
             S == reference'
             M == levels'
  <2>1. CandidatesOK(P, R, L)
    BY CandidatesFound DEF FrontierInv
  <2>2. observations = Enabled(P \cup R \cup L)
    BY DEF FrontierInv, Universe
  <2> DEFINE stale == {z \in Enabled(R \cup L) : z \notin Enabled(S \cup M)}
  <2>3. observations' = ((observations \ stale) \cup (Enabled(S \cup M) \ Enabled(R \cup L))) \cup Enabled(step)
    BY <1>8 DEF Advance, AdvanceObservations
  <2>4. Universe' = Enabled((P \cup step) \cup S \cup M)
    <3>1. Range(appendOnly') = P \cup step
      BY <1>6, <1>8 DEF FrontierInv
    <3> QED
      BY <3>1 DEF Universe, Enabled
  <2>5. \A z : z \in stale <=> z \in Enabled(R \cup L) /\ z \notin Enabled(S \cup M)
    OBVIOUS
  <2>6. \A z \in P : z \notin R /\ z \notin L
    BY <2>1 DEF CandidatesOK
  <2> HIDE DEF P, R, L, S, M, stale
  <2> QED
    BY <2>2, <2>3, <2>4, <2>5, <2>6 DEF Enabled
<1> QED
  BY <1>1, <1>3, <1>4, <1>5, <1>8, <1>9, <1>10, <1>11, <1>12 DEF FrontierInv, more

\* A step that is none of the frontier's keeps it.
LEMMA FrontierNext == FrontierInv /\ [Next]_vars => FrontierInv'
<1> SUFFICES ASSUME FrontierInv, [Next]_vars PROVE FrontierInv'
  OBVIOUS
<1>1. CASE Next
  <2>1. PICK input \in Feed(candles, zones) :
          Follows(candles, input.candle) /\ Measured(input.zones) /\ Advance(input.candle, input.zones)
    BY <1>1 DEF Next
  <2> QED
    BY <2>1, FrontierStep
<1>2. CASE UNCHANGED vars
  BY <1>2 DEF FrontierInv, vars, frontier, Universe
<1> QED
  BY <1>1, <1>2

\* The invariant is what the runs check.
LEMMA FrontierInvIs == FrontierInv => FrontierIsBatch
<1> SUFFICES ASSUME FrontierInv PROVE FrontierIsBatch
  OBVIOUS
<1>1. CandidatesOK(DetectPatterns(candles), reference, levels)
  BY CandidatesFound DEF FrontierInv
<1>2. Universe = Enabled(DetectPatterns(candles) \cup reference \cup levels)
  BY DEF FrontierInv, Universe
<1>3. Universe = DetectCandidates(candles, zones)
  BY <1>2 DEF FrontierInv, DetectCandidates, Enabled
<1>4. ASSUME NEW y \in observations, NEW z \in observations, Identity(y) = Identity(z) PROVE y = z
  <2>1. /\ y \in DetectPatterns(candles) \cup reference \cup levels
        /\ z \in DetectPatterns(candles) \cup reference \cup levels
    BY <1>2 DEF FrontierInv, Enabled
  <2> QED
    BY <1>1, <1>4, <2>1, OneOfIdentity
<1> QED
  BY <1>3, <1>4 DEF FrontierInv, FrontierIsBatch

\* The frontier with its ring of the last candles knows, after every candle,
\* the candidates that the detectors find in the whole chart, and the records
\* are these, one for each identity (poi/detector_frontier.py
\* advance_detector_frontier, poi/analyzer.py _detect_bundle_candidates).
THEOREM ReplayCandidatesAreBatch == Spec => []FrontierIsBatch
<1>1. Spec => []FrontierInv
  BY FrontierInit, FrontierNext, PTL DEF Spec
<1> QED
  BY <1>1, FrontierInvIs, PTL

-----------------------------------------------------------------------------
(* What is handed over.                                                    *)

\* The candidates that are handed over: enabled ones with a lifecycle.
Chosen(z) == z.type \in Config.enabled /\ ~ NotApplicable(z)

\* The delta of a candle, with the patterns found at it.
DeltaOf(step, R, L, S, M) ==
  [new     |-> Enabled(step \cup DiffBounded(R, S).new \cup DiffBounded(L, M).new),
   changed |-> Enabled(DiffBounded(R, S).changed \cup DiffBounded(L, M).changed),
   removed |-> EnabledIdentities(DiffBounded(R, S).removed \cup DiffBounded(L, M).removed)]

\* The identities of some candidates.
LEMMA IdentitiesIs ==
  ASSUME NEW S, NEW i
  PROVE  i \in Identities(S) <=> \E z \in S : Identity(z) = i
BY DEF Identities

\* What is handed over of a candle: patterns and zones, never levels.
Handed(d, step, R, S) ==
  /\ \A z : z \in d.new <=> Chosen(z) /\ (z \in step \/ (z \in S /\ Identity(z) \notin Identities(R)))
  /\ \A z : z \in d.changed <=> Chosen(z) /\ z \in S /\ z \notin R /\ Identity(z) \in Identities(R)
  /\ \A i : i \in d.removed <=>
       /\ i \in Identities(R) /\ i \notin Identities(S) /\ i[2] \in Config.enabled
       /\ i[1] = "R" /\ i[2] \in {"SUPPORT_ZONE", "RESISTANCE_ZONE"}

\* That is what the relay of a delta gives.
LEMMA RelayIs ==
  ASSUME NEW P, NEW R, NEW L, CandidatesOK(P, R, L),
         NEW step, NEW S, NEW M, CandidatesOK(P \cup step, S, M)
  PROVE  Handed(Relay(DeltaOf(step, R, L, S, M)), step, R, S)
<1> DEFINE e == DeltaOf(step, R, L, S, M)
           d == Relay(e)
<1>1. /\ d.new = Eligible(e.new) /\ d.changed = Eligible(e.changed)
      /\ d.removed = {i \in e.removed : i[1] = "R" /\ i[2] \in {"SUPPORT_ZONE", "RESISTANCE_ZONE"}}
  BY DEF Relay
<1>2. /\ e.new = Enabled(step \cup DiffBounded(R, S).new \cup DiffBounded(L, M).new)
      /\ e.changed = Enabled(DiffBounded(R, S).changed \cup DiffBounded(L, M).changed)
      /\ e.removed = EnabledIdentities(DiffBounded(R, S).removed \cup DiffBounded(L, M).removed)
  BY DEF DeltaOf
<1> HIDE DEF d, e
<1>3. ASSUME NEW X, NEW Y
      PROVE  /\ DiffBounded(X, Y).new = {z \in Y : Identity(z) \notin Identities(X)}
             /\ DiffBounded(X, Y).changed = {z \in Y \ X : Identity(z) \in Identities(X)}
             /\ DiffBounded(X, Y).removed = Identities(X) \ Identities(Y)
  BY DEF DiffBounded
<1>4. \A z \in M : ~ Chosen(z)
  BY DEF CandidatesOK, Chosen, NotApplicable
<1>5. \A i \in Identities(L) : i[1] # "R"
  <2> SUFFICES ASSUME NEW i \in Identities(L) PROVE i[1] # "R"
    OBVIOUS
  <2>1. PICK z \in L : Identity(z) = i
    BY IdentitiesIs
  <2>2. z.kind = "P"
    BY DEF CandidatesOK
  <2>3. i[1] = "P"
    BY <2>1, <2>2, IdentityParts
  <2> QED
    BY <2>3
<1>6. \A X : \A z : z \in Eligible(Enabled(X)) <=> z \in X /\ Chosen(z)
  BY DEF Eligible, Enabled, Chosen
<1>7. \A z : z \in d.new <=> Chosen(z) /\ (z \in step \/ (z \in S /\ Identity(z) \notin Identities(R)))
  <2>1. \A z : z \in d.new <=> z \in step \cup DiffBounded(R, S).new \cup DiffBounded(L, M).new /\ Chosen(z)
    BY <1>1, <1>2, <1>6
  <2>2. \A z : z \in DiffBounded(R, S).new <=> z \in S /\ Identity(z) \notin Identities(R)
    BY <1>3
  <2>3. \A z \in DiffBounded(L, M).new : z \in M
    BY <1>3
  <2> QED
    BY <1>4, <2>1, <2>2, <2>3
<1>8. \A z : z \in d.changed <=> Chosen(z) /\ z \in S /\ z \notin R /\ Identity(z) \in Identities(R)
  <2>1. \A z : z \in d.changed <=> z \in DiffBounded(R, S).changed \cup DiffBounded(L, M).changed /\ Chosen(z)
    BY <1>1, <1>2, <1>6
  <2>2. \A z : z \in DiffBounded(R, S).changed <=> z \in S /\ z \notin R /\ Identity(z) \in Identities(R)
    BY <1>3
  <2>3. \A z \in DiffBounded(L, M).changed : z \in M
    BY <1>3
  <2> QED
    BY <1>4, <2>1, <2>2, <2>3
<1>9. ASSUME NEW i
      PROVE  i \in d.removed <=>
               /\ i \in Identities(R) /\ i \notin Identities(S) /\ i[2] \in Config.enabled
               /\ i[1] = "R" /\ i[2] \in {"SUPPORT_ZONE", "RESISTANCE_ZONE"}
  <2>1. i \in e.removed <=> i \in (Identities(R) \ Identities(S)) \cup (Identities(L) \ Identities(M))
                              /\ i[2] \in Config.enabled
    BY <1>2, <1>3 DEF EnabledIdentities
  <2> QED
    BY <1>1, <1>5, <2>1
<1>10. Handed(d, step, R, S)
  BY <1>7, <1>8, <1>9 DEF Handed
<1> QED
  BY <1>10 DEF d, e

\* now is old with what d says of each identity, and what d gives as new had
\* none of its identity, or is a pattern that was known and is found again.
Differs(d, old, now, P, step) ==
  /\ \A z : z \in now <=> \/ z \in old /\ Identity(z) \notin d.removed \cup Identities(d.changed)
                          \/ z \in d.new \/ z \in d.changed
  /\ \A i \in d.removed \cup Identities(d.changed) : i \in Identities(old)
  /\ \A z \in d.new : Identity(z) \notin Identities(old) \/ (z \in old /\ z \in P /\ z \in step)

\* The records of a candle and of the one before differ by what is handed over.
LEMMA RelayDifference ==
  ASSUME NEW P, NEW R, NEW L, CandidatesOK(P, R, L),
         NEW step, NEW S, NEW M, CandidatesOK(P \cup step, S, M),
         NEW d, Handed(d, step, R, S)
  PROVE  Differs(d, Eligible(Enabled(P \cup R \cup L)), Eligible(Enabled((P \cup step) \cup S \cup M)), P, step)
<1> DEFINE old == Eligible(Enabled(P \cup R \cup L))
           now == Eligible(Enabled((P \cup step) \cup S \cup M))
<1>1. \A z : z \in d.new <=> Chosen(z) /\ (z \in step \/ (z \in S /\ Identity(z) \notin Identities(R)))
  BY DEF Handed
<1>2. \A z : z \in d.changed <=> Chosen(z) /\ z \in S /\ z \notin R /\ Identity(z) \in Identities(R)
  BY DEF Handed
<1>3. \A i : i \in d.removed <=>
        /\ i \in Identities(R) /\ i \notin Identities(S) /\ i[2] \in Config.enabled
        /\ i[1] = "R" /\ i[2] \in {"SUPPORT_ZONE", "RESISTANCE_ZONE"}
  BY DEF Handed
<1>4. \A z \in L : ~ Chosen(z)
  BY DEF CandidatesOK, Chosen, NotApplicable
<1>5. \A z \in M : ~ Chosen(z)
  BY DEF CandidatesOK, Chosen, NotApplicable
<1>6. \A z : z \in old <=> Chosen(z) /\ (z \in P \/ z \in R)
  BY <1>4 DEF Eligible, Enabled, Chosen
<1>7. \A z : z \in now <=> Chosen(z) /\ (z \in P \/ z \in step \/ z \in S)
  BY <1>5 DEF Eligible, Enabled, Chosen
<1> HIDE DEF old, now
<1>8. \A z \in P \cup step : Identity(z)[1] = "A" /\ Identity(z)[2] = z.type
  <2>1. \A z \in P \cup step : z.kind = "A"
    BY DEF CandidatesOK
  <2> QED
    BY <2>1, IdentityParts
<1>9. \A z \in R \cup S : Identity(z)[1] = "R" /\ Identity(z)[2] = z.type
  <2>1. \A z \in R \cup S : z.kind = "R"
    BY DEF CandidatesOK
  <2> QED
    BY <2>1, IdentityParts
<1>10. \A z \in R \cup S : Chosen(z) <=> z.type \in Config.enabled /\ z.type \in {"SUPPORT_ZONE", "RESISTANCE_ZONE"}
  <2>1. \A z \in R \cup S : z.kind = "R" /\ z.type \in ZoneTypes
    BY DEF CandidatesOK
  <2> QED
    BY <2>1 DEF Chosen, NotApplicable, ZoneTypes
<1>11. ASSUME NEW y \in R, NEW z \in R, Identity(y) = Identity(z) PROVE y = z
  BY <1>11, OneOfIdentity
<1>12. ASSUME NEW y \in S, NEW z \in S, Identity(y) = Identity(z) PROVE y = z
  BY <1>12, OneOfIdentity
<1>13. ASSUME NEW y \in P \cup step, NEW z \in P \cup step, Identity(y) = Identity(z) PROVE y = z
  BY <1>13, OneOfIdentity
<1>14. ASSUME NEW z \in now
       PROVE  \/ z \in old /\ Identity(z) \notin d.removed \cup Identities(d.changed)
              \/ z \in d.new \/ z \in d.changed
  <2>1. Chosen(z)
    BY <1>7
  <2>2. CASE z \in P
    <3>1. Identity(z) \notin d.removed
      BY <1>3, <1>8, <2>2
    <3>2. Identity(z) \notin Identities(d.changed)
      <4> SUFFICES ASSUME NEW y \in d.changed, Identity(y) = Identity(z) PROVE FALSE
        BY IdentitiesIs
      <4> QED
        BY <1>2, <1>8, <1>9, <2>2
    <3> QED
      BY <1>6, <2>1, <2>2, <3>1, <3>2
  <2>3. CASE z \in step
    BY <1>1, <2>1, <2>3
  <2>4. CASE z \in S
    <3>1. CASE Identity(z) \notin Identities(R)
      BY <1>1, <2>1, <2>4, <3>1
    <3>2. CASE Identity(z) \in Identities(R) /\ z \notin R
      BY <1>2, <2>1, <2>4, <3>2
    <3>3. CASE z \in R
      <4>1. Identity(z) \notin d.removed
        BY <1>3, <2>4, IdentitiesIs
      <4>2. Identity(z) \notin Identities(d.changed)
        <5> SUFFICES ASSUME NEW y \in d.changed, Identity(y) = Identity(z) PROVE FALSE
          BY IdentitiesIs
        <5>1. y \in S /\ y \notin R
          BY <1>2
        <5> QED
          BY <1>12, <2>4, <3>3, <5>1
      <4> QED
        BY <1>6, <2>1, <3>3, <4>1, <4>2
    <3> QED
      BY <3>1, <3>2, <3>3
  <2> QED
    BY <1>7, <2>2, <2>3, <2>4
<1>15. ASSUME NEW z, z \in old, Identity(z) \notin d.removed \cup Identities(d.changed) PROVE z \in now
  <2>1. Chosen(z)
    BY <1>6, <1>15
  <2>2. CASE z \in P
    BY <1>7, <2>1, <2>2
  <2>3. CASE z \in R
    <3>1. Identity(z) \in Identities(R)
      BY <2>3, IdentitiesIs
    <3>2. Identity(z)[1] = "R" /\ Identity(z)[2] = z.type /\ z.type \in Config.enabled
          /\ z.type \in {"SUPPORT_ZONE", "RESISTANCE_ZONE"}
      BY <1>9, <1>10, <2>1, <2>3
    <3>3. Identity(z) \in Identities(S)
      <4>1. Identity(z) \notin Identities(S) => Identity(z) \in d.removed
        BY <1>3, <3>1, <3>2
      <4> QED
        BY <1>15, <4>1
    <3>4. PICK y \in S : Identity(y) = Identity(z)
      BY <3>3, IdentitiesIs
    <3>5. Chosen(y)
      <4>1. y.type = z.type
        BY <1>9, <3>2, <3>4
      <4> QED
        BY <1>10, <3>2, <4>1
    <3>6. y \in R
      <4>1. y \notin R => y \in d.changed
        BY <1>2, <3>1, <3>4, <3>5
      <4>2. y \in d.changed => Identity(z) \in Identities(d.changed)
        BY <3>4, IdentitiesIs
      <4> QED
        BY <1>15, <4>1, <4>2
    <3>7. y = z
      BY <1>11, <2>3, <3>4, <3>6
    <3> QED
      BY <1>7, <2>1, <3>4, <3>7
  <2> QED
    BY <1>6, <1>15, <2>2, <2>3
<1>16. ASSUME NEW z, z \in d.new \/ z \in d.changed PROVE z \in now
  BY <1>1, <1>2, <1>7, <1>16
<1>17. ASSUME NEW i \in d.removed \cup Identities(d.changed) PROVE i \in Identities(old)
  <2>1. CASE i \in d.removed
    <3>1. /\ i \in Identities(R) /\ i[2] \in Config.enabled /\ i[2] \in {"SUPPORT_ZONE", "RESISTANCE_ZONE"}
      BY <1>3, <2>1
    <3>2. PICK y \in R : Identity(y) = i
      BY <3>1, IdentitiesIs
    <3>3. Chosen(y)
      BY <1>9, <1>10, <3>1, <3>2
    <3>4. y \in old
      BY <1>6, <3>2, <3>3
    <3> QED
      BY <3>2, <3>4, IdentitiesIs
  <2>2. CASE i \in Identities(d.changed)
    <3>1. PICK z \in d.changed : Identity(z) = i
      BY <2>2, IdentitiesIs
    <3>2. Chosen(z) /\ z \in S /\ i \in Identities(R)
      BY <1>2, <3>1
    <3>3. PICK y \in R : Identity(y) = i
      BY <3>2, IdentitiesIs
    <3>4. Chosen(y)
      <4>1. y.type = z.type
        BY <1>9, <3>1, <3>2, <3>3
      <4> QED
        BY <1>10, <3>2, <4>1
    <3>5. y \in old
      BY <1>6, <3>3, <3>4
    <3> QED
      BY <3>3, <3>5, IdentitiesIs
  <2> QED
    BY <2>1, <2>2
<1>18. ASSUME NEW z \in d.new, Identity(z) \in Identities(old) PROVE z \in old /\ z \in P /\ z \in step
  <2>1. PICK y \in old : Identity(y) = Identity(z)
    BY <1>18, IdentitiesIs
  <2>2. CASE z \in step
    <3>1. y \in P
      BY <1>6, <1>8, <1>9, <2>1, <2>2
    <3>2. y = z
      BY <1>13, <2>1, <2>2, <3>1
    <3> QED
      BY <2>1, <2>2, <3>1, <3>2
  <2>3. CASE z \in S /\ Identity(z) \notin Identities(R)
    <3>1. y \notin R
      BY <2>1, <2>3, IdentitiesIs
    <3>2. y \in P
      BY <1>6, <2>1, <3>1
    <3> QED
      BY <1>8, <1>9, <2>1, <2>3, <3>2
  <2> QED
    BY <1>1, <2>2, <2>3
<1>19. \A z : z \in now <=> \/ z \in old /\ Identity(z) \notin d.removed \cup Identities(d.changed)
                            \/ z \in d.new \/ z \in d.changed
  BY <1>14, <1>15, <1>16
<1>20. Differs(d, old, now, P, step)
  BY <1>17, <1>18, <1>19 DEF Differs
<1> QED
  BY <1>20 DEF old, now

\* What a candle hands over is how the records with a lifecycle differ.
RelayedStep ==
  LET old == Eligible(observations)
      d   == Relay(delta')
      Kept(c) == Identity(c) \notin d.removed \cup Identities(d.changed)
  IN  /\ Eligible(observations') = {c \in old : Kept(c)} \cup d.new \cup d.changed
      /\ d.removed \cup Identities(d.changed) \subseteq Identities(old)
      /\ \A c \in d.new :
           \/ Identity(c) \notin Identities(old)
           \/ c \in old /\ Simultaneous(candles') /\ c.available = Last(candles').available

\* A candle takes such a step.
LEMMA RelayStep ==
  ASSUME FrontierInv, NEW c, NEW zs, Follows(candles, c), Measured(zs), Advance(c, zs)
  PROVE  RelayedStep
<1> DEFINE P == DetectPatterns(candles)
           before == IF atrs = << >> THEN None ELSE Last(atrs)
           step == NewLocalCandidates(ring') \cup NewBases(ring', before)
           R == reference
           L == levels
           S == reference'
           M == levels'
           d == Relay(delta')
           old == Eligible(observations)
           now == Eligible(observations')
           more == candles'
<1>1. FrontierInv'
  BY FrontierStep
<1>2. /\ CandidatesOK(P, R, L) /\ CandidatesOK(DetectPatterns(more), S, M)
      /\ ring' = LastOf(more, Config.ringSize)
      /\ AtrsOK(atrs, candles) /\ AtrsOK(atrs', more)
  <2>1. CandidatesOK(P, R, L)
    BY CandidatesFound DEF FrontierInv
  <2>2. CandidatesOK(DetectPatterns(more), S, M)
    <3> DEFINE zz == zones'
    <3>1. /\ ChartOK(more) /\ Measured(zz) /\ S = DetectReferenceZones(zz) /\ M = DetectPeriodLevels(more)
      BY <1>1 DEF FrontierInv
    <3> HIDE DEF more, zz, S, M
    <3> QED
      BY <3>1, CandidatesFound
  <2> QED
    BY <1>1, <2>1, <2>2 DEF FrontierInv
<1>3. /\ more = Append(candles, c) /\ atrs' = Append(atrs, atrState'.atr)
      /\ delta' = DeltaOf(step, R, L, S, M)
  BY DEF Advance, AdvanceFrontier, DeltaOf
<1>4. OneMore(more, candles, c)
  BY <1>3, ChartAppend DEF FrontierInv
<1>5. /\ DetectPatterns(more) = P \cup step
      /\ \A z \in step : z \in P =>
           z.available = c.available /\ \E p \in 1 .. Len(candles) : z.available = candles[p].available
  <2> DEFINE r == ring'
             x == atrState'.atr
  <2>1. AtrsOK(atrs, candles) /\ AtrsOK(Append(atrs, x), more)
    BY <1>2, <1>3
  <2>2. r = LastOf(more, Config.ringSize)
    BY <1>2
  <2>3. step = NewLocalCandidates(r) \cup NewBases(r, IF atrs = << >> THEN None ELSE Last(atrs))
    OBVIOUS
  <2> HIDE DEF more, r, x, step
  <2> QED
    BY <1>4, <2>1, <2>2, <2>3, PatternsStep
<1>6. /\ observations = Enabled(P \cup R \cup L)
      /\ observations' = Enabled((P \cup step) \cup S \cup M)
  <2>1. observations = Enabled(P \cup R \cup L)
    BY DEF FrontierInv, Universe
  <2>2. observations' = Enabled(DetectPatterns(more) \cup S \cup M)
    BY <1>1 DEF FrontierInv, Universe, Enabled
  <2> QED
    BY <1>5, <2>1, <2>2
<1>7. CandidatesOK(P \cup step, S, M)
  BY <1>2, <1>5
<1> HIDE DEF P, step, R, L, S, M, more
<1>8. Handed(d, step, R, S)
  BY <1>2, <1>3, <1>7, RelayIs
<1>9. old = Eligible(Enabled(P \cup R \cup L)) /\ now = Eligible(Enabled((P \cup step) \cup S \cup M))
  BY <1>6
<1> HIDE DEF d, old, now
<1>10. Differs(d, old, now, P, step)
  BY <1>2, <1>7, <1>8, <1>9, RelayDifference
<1>11. ASSUME NEW z \in step, z \in P
       PROVE  Simultaneous(more) /\ z.available = Last(more).available
  <2> DEFINE n == Len(candles)
  <2>1. /\ n \in Nat /\ Len(more) = n + 1 /\ more[n + 1] = c /\ ChartOK(candles) /\ ChartOK(more)
        /\ \A i \in 1 .. n : more[i] = candles[i]
    BY <1>4 DEF OneMore
  <2>2. PICK p \in 1 .. n : z.available = candles[p].available
    BY <1>5, <1>11
  <2>3. z.available = c.available
    BY <1>5, <1>11
  <2> HIDE DEF n
  <2>4. n \in 1 .. n /\ p <= n /\ n <= n + 1 /\ n \in 1 .. n + 1 /\ n + 1 \in 1 .. n + 1 /\ p \in 1 .. n + 1
    BY <2>1
  <2>5. more[p].available <= more[n].available /\ more[n].available <= more[n + 1].available
    BY <2>1, <2>4 DEF ChartOK
  <2>6. /\ more[p].available \in Nat /\ more[n].available \in Nat /\ more[n + 1].available \in Nat
        /\ more[p].available = more[n + 1].available
    BY <2>1, <2>2, <2>3, <2>4 DEF ChartOK
  <2>7. more[n].available = more[n + 1].available
    BY <2>5, <2>6
  <2>8. Len(more) > 1 /\ Len(more) - 1 = n
    BY <2>1, <2>4
  <2> QED
    BY <2>1, <2>3, <2>7, <2>8 DEF Simultaneous, Last
<1>12. now = {x \in old : Identity(x) \notin d.removed \cup Identities(d.changed)} \cup d.new \cup d.changed
  BY <1>10 DEF Differs
<1>13. d.removed \cup Identities(d.changed) \subseteq Identities(old)
  BY <1>10 DEF Differs
<1>14. \A x \in d.new :
         \/ Identity(x) \notin Identities(old)
         \/ x \in old /\ Simultaneous(more) /\ x.available = Last(more).available
  BY <1>10, <1>11 DEF Differs
<1> QED
  BY <1>12, <1>13, <1>14 DEF RelayedStep, now, old, d, more

\* At every candle the lifecycle scheduler and BTMM are handed exactly how the
\* records with a lifecycle differ, and a record that was there is handed over
\* as new only as a reversal found again by a candle available together with
\* the one before it (poi/analyzer.py _advance_poi_replay_state).
THEOREM ReplayRelaysDifference == Spec => RelayedIsDifference
<1>1. ASSUME FrontierInv, [Next]_vars PROVE [RelayedStep]_vars
  <2>1. CASE Next
    <3>1. PICK input \in Feed(candles, zones) :
            Follows(candles, input.candle) /\ Measured(input.zones) /\ Advance(input.candle, input.zones)
      BY <2>1 DEF Next
    <3> QED
      BY <1>1, <3>1, RelayStep
  <2>2. CASE UNCHANGED vars
    BY <2>2
  <2> QED
    BY <1>1, <2>1, <2>2
<1> QED
  BY <1>1, FrontierInit, FrontierNext, PTL DEF Spec, RelayedIsDifference, RelayedStep
=============================================================================
