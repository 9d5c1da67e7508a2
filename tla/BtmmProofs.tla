----------------------------- MODULE BtmmProofs -----------------------------
(***************************************************************************)
(* The BTMM engine reads what the batch lifecycle computes.                *)
(*                                                                         *)
(* First the cursor alone (BtmmFeed): it finds, at every prefix of every   *)
(* stream, what the price scans of the batch walk find.  The finds of the  *)
(* batch scans are least indexes of sets of candles; the invariant says of *)
(* each field of the cursor which least index it is, so that a step is a   *)
(* statement about the one candle that comes in.                           *)
(*                                                                         *)
(* Then the scheduler (BtmmReplay).  A stored cursor is behind the head    *)
(* only where the candles it missed could not move it: brought to the      *)
(* head it is the cursor fed every candle (InStep).  The cursor of a       *)
(* rejected setup stops instead, and what it missed comes after the        *)
(* invalidation, where the walk is cut (Precedes).  That, and the          *)
(* registries being exactly what the registrations say, is the invariant.  *)
(*                                                                         *)
(* Last, what is published.  A walk publishes each type of transition at   *)
(* most once, so merging it into the ledger by type loses nothing          *)
(* (LedgerFits).  And a walk of a longer stream repeats the shorter one:   *)
(* what the new candle finds is published after it, a false invalidation   *)
(* publishes nothing, and a genuine one cuts the walk at a time later than *)
(* all that is published (PublishedStays).                                 *)
(***************************************************************************)
EXTENDS BtmmFeed, BtmmReplay, NaturalProofs, SequenceTheorems

\* x is FirstOf(S).
IsFirst(x, S) ==
  \/ S = {} /\ x = None
  \/ x \in S /\ \A y \in S : x <= y

\* What each scan searches, in the stream h.
Formings(h, a) == {k \in 0 .. Len(h) - 1 : TimeOf(k) > a}

Touchings(h, forming) ==
  {k \in 0 .. Len(h) - 1 : forming # None /\ k >= forming /\ h[k + 1].touch # "none"}

Clears(h, interaction, class) ==
  {k \in 0 .. Len(h) - 1 :
     class = "ELIGIBLE" /\ k >= interaction + 1 /\ h[k + 1].close = "clear"}

\* x is the least extreme of the candles first .. last of h.
IsAnchor(x, h, first, last) ==
  /\ \E k \in first .. last : h[k + 1].extreme = x
  /\ \A k \in first .. last : x <= h[k + 1].extreme

Tiers == {EvaluateReaction(x, w) : x \in Int, w \in Seq(BtmmView)} \cup {"NONE"}

Shaped ==
  [total : Nat, prior : Side \cup {"none"}, forming : Nat \cup {None},
   interaction : Nat \cup {None},
   class : {"NONE", "ELIGIBLE", "EXCESSIVE_OVERSHOOT", "NONCANONICAL_SIDE_INTERACTION"},
   anchor : Int, start : Nat \cup {None}, window : Seq(BtmmView),
   close : Nat \cup {None}, tier : Tiers]

FormingFound(c, h, a) == IsFirst(c.forming, Formings(h, a))

InteractionFound(c, h) ==
  /\ IsFirst(c.interaction, Touchings(h, c.forming))
  /\ c.class = InteractionClass(h, c.interaction)

\* The anchor runs up to the start of the reaction, or to the last candle.
StartFound(c, h) ==
  /\ IsFirst(c.start, Clears(h, c.interaction, c.class))
  /\ c.class = "ELIGIBLE" =>
       IsAnchor(c.anchor, h, c.interaction, IF c.start = None THEN Len(h) - 1 ELSE c.start)

WindowFound(c, h) ==
  /\ c.start = None => c.window = << >>
  /\ c.start # None =>
       /\ Len(c.window) = AtMost(Len(h) - c.start, WindowBars)
       /\ \A j \in 1 .. Len(c.window) : c.window[j] = h[c.start + j]
  /\ c.close = WindowClose(h, c.start)
  /\ c.tier = IF c.close = None THEN "NONE" ELSE EvaluateReaction(c.anchor, c.window)

\* The cursor has found in h what there is to find.
Scans(c, h, a) ==
  /\ c \in Shaped
  /\ c.total = Len(h)
  /\ c.prior = IF h = << >> THEN "none" ELSE h[Len(h)].close
  /\ FormingFound(c, h, a)
  /\ InteractionFound(c, h)
  /\ StartFound(c, h)
  /\ WindowFound(c, h)

-----------------------------------------------------------------------------
\* A least index is the one FirstOf chooses.
LEMMA FirstIsLeast ==
  ASSUME NEW S \in SUBSET Nat, NEW x, IsFirst(x, S)
  PROVE  FirstOf(S) = x
<1>1. CASE S = {}
  BY <1>1 DEF IsFirst, FirstOf
<1>2. CASE S # {}
  <2>1. x \in S /\ \A y \in S : x <= y
    BY <1>2 DEF IsFirst
  <2>2. \A z \in S : (\A y \in S : z <= y) => z = x
    BY <2>1
  <2> QED
    BY <1>2, <2>1, <2>2 DEF FirstOf
<1> QED
  BY <1>1, <1>2

\* An appended candle leaves the others where they are.
LEMMA Appended ==
  ASSUME NEW h \in Seq(BtmmView), NEW v \in BtmmView
  PROVE  /\ Append(h, v) \in Seq(BtmmView)
         /\ Len(Append(h, v)) = Len(h) + 1
         /\ Len(h) \in Nat
         /\ \A k \in 1 .. Len(h) : Append(h, v)[k] = h[k]
         /\ \A k \in 0 .. Len(h) - 1 : Append(h, v)[k + 1] = h[k + 1]
         /\ Append(h, v)[Len(h) + 1] = v
  OBVIOUS

\* A fresh cursor has found what the empty stream holds.
LEMMA CreatedScans ==
  ASSUME NEW a \in Int
  PROVE  Scans(CreateCursor, << >>, a)
<1>1. << >> \in Seq(BtmmView) /\ Len(<< >>) = 0
  OBVIOUS
<1>2. CreateCursor \in Shaped
  BY <1>1 DEF CreateCursor, Shaped, Side, Tiers, None
<1>3. Formings(<< >>, a) = {} /\ Touchings(<< >>, None) = {} /\ Clears(<< >>, None, "NONE") = {}
  BY <1>1 DEF Formings, Touchings, Clears
<1> QED
  BY <1>1, <1>2, <1>3
  DEF Scans, FormingFound, InteractionFound, StartFound, WindowFound, IsFirst, CreateCursor,
      InteractionClass, WindowClose

-----------------------------------------------------------------------------
(***************************************************************************)
(* One candle, stage by stage.                                             *)
(***************************************************************************)
\* The forming candle of a longer stream.
LEMMA FormingStage ==
  ASSUME NEW a \in Int, NEW h \in Seq(BtmmView), NEW v \in BtmmView, NEW c,
         Scans(c, h, a)
  PROVE  LET d == EnterForming(c, a) IN
         /\ d = [c EXCEPT !.forming = d.forming]
         /\ d.forming \in Nat \cup {None}
         /\ IsFirst(d.forming, Formings(Append(h, v), a))
         /\ d.forming = c.forming \/ (c.forming = None /\ d.forming = Len(h))
<1> DEFINE n == Len(h)
           F == Formings(h, a)
           G == Formings(Append(h, v), a)
<1>0. n \in Nat /\ c \in Shaped /\ c.total = n /\ IsFirst(c.forming, F)
  BY DEF Scans, FormingFound
<1>1. F \subseteq 0 .. n - 1
  BY DEF Formings
<1>2. G = F \cup (IF TimeOf(n) > a THEN {n} ELSE {})
  BY <1>0, Appended DEF Formings
<1>3. c.forming \in Nat \cup {None} /\ c = [c EXCEPT !.forming = c.forming]
  BY <1>0 DEF Shaped
<1>4. CASE c.forming = None /\ TimeOf(n) > a
  <2>1. EnterForming(c, a) = [c EXCEPT !.forming = n]
    BY <1>0, <1>4 DEF EnterForming
  <2>2. EnterForming(c, a).forming = n
    BY <2>1, <1>0 DEF Shaped
  <2>3. F = {}
    BY <1>0, <1>1, <1>4 DEF IsFirst, None
  <2> QED
    BY <2>1, <2>2, <2>3, <1>0, <1>2, <1>4 DEF IsFirst
<1>5. CASE ~ (c.forming = None /\ TimeOf(n) > a)
  <2>1. EnterForming(c, a) = c
    BY <1>0, <1>5 DEF EnterForming
  <2>2. IsFirst(c.forming, G)
    BY <1>0, <1>1, <1>2, <1>5 DEF IsFirst, None
  <2> QED
    BY <2>1, <2>2, <1>3
<1> QED
  BY <1>4, <1>5

\* The interaction and its class.
LEMMA InteractionStage ==
  ASSUME NEW h \in Seq(BtmmView), NEW v \in BtmmView, NEW c \in Shaped, NEW g,
         c.total = Len(h),
         c.prior = IF h = << >> THEN "none" ELSE h[Len(h)].close,
         c.forming = g \/ (g = None /\ c.forming = Len(h)),
         c.forming = None \/ c.forming <= Len(h),
         IsFirst(c.interaction, Touchings(h, g)),
         c.class = InteractionClass(h, c.interaction)
  PROVE  LET d == Interact(c, v) IN
         /\ d \in Shaped
         /\ d.total = c.total /\ d.forming = c.forming /\ d.start = c.start
         /\ d.window = c.window /\ d.close = c.close /\ d.tier = c.tier
         /\ InteractionFound(d, Append(h, v))
         /\ \/ /\ d.interaction = c.interaction /\ d.class = c.class /\ d.anchor = c.anchor
               /\ d.interaction = None \/ d.interaction < Len(h)
            \/ /\ c.interaction = None /\ d.interaction = Len(h)
               /\ d.class = "ELIGIBLE" => d.anchor = v.extreme
<1> DEFINE n == Len(h)
           H == Append(h, v)
           T == Touchings(h, g)
           U == Touchings(H, c.forming)
           d == Interact(c, v)
<1>1. /\ n \in Nat /\ H \in Seq(BtmmView) /\ Len(H) = n + 1 /\ H[n + 1] = v
      /\ \A k \in 1 .. n : H[k] = h[k]
      /\ \A k \in 0 .. n - 1 : H[k + 1] = h[k + 1]
  BY Appended
<1>2. T \subseteq 0 .. n - 1
  BY DEF Touchings
<1>3. U = T \cup (IF c.forming # None /\ v.touch # "none" THEN {n} ELSE {})
  <2>1. c.forming \in Nat \cup {None}
    BY DEF Shaped
  <2>2. \A k \in 0 .. n - 1 : (g # None /\ k >= g) <=> (c.forming # None /\ k >= c.forming)
    BY <1>1, <2>1 DEF None
  <2>3. \A k \in 0 .. n - 1 : k \in T <=> k \in U
    BY <1>1, <2>2 DEF Touchings
  <2>4. n \in U <=> c.forming # None /\ v.touch # "none"
    BY <1>1, <2>1 DEF Touchings
  <2>5. U \subseteq (0 .. n - 1) \cup {n}
    BY <1>1 DEF Touchings
  <2> QED
    BY <1>2, <2>3, <2>4, <2>5, <1>1
<1>4. CASE c.forming # None /\ c.interaction = None /\ v.touch # "none"
  <2> DEFINE k == ClassOf(v.touch, IF n = 0 THEN v.open ELSE c.prior)
  <2>1. d = Interacted(c, v, k)
    BY <1>4 DEF Interact
  <2>2. k \in {"ELIGIBLE", "EXCESSIVE_OVERSHOOT", "NONCANONICAL_SIDE_INTERACTION"}
    BY DEF ClassOf
  <2>3. v.extreme \in Int
    BY DEF BtmmView
  <2> HIDE DEF k
  <2>4. /\ d \in Shaped
        /\ d.total = c.total /\ d.forming = c.forming /\ d.start = c.start
        /\ d.window = c.window /\ d.close = c.close /\ d.tier = c.tier
        /\ d.interaction = n /\ d.class = k
        /\ d.class = "ELIGIBLE" => d.anchor = v.extreme
    BY <1>1, <2>1, <2>2, <2>3 DEF Interacted, Shaped
  <2>5. IsFirst(n, U)
    <3>1. T = {}
      BY <1>2, <1>4 DEF IsFirst, None
    <3> QED
      BY <1>1, <1>3, <1>4, <3>1 DEF IsFirst
  <2>6. k = InteractionClass(H, n)
    <3>1. n # 0 => h # << >> /\ H[n] = h[n] /\ c.prior = H[n].close
      BY <1>1
    <3>2. n # None
      BY <1>1 DEF None
    <3> QED
      BY <1>1, <3>1, <3>2 DEF k, InteractionClass
  <2> QED
    BY <1>4, <2>4, <2>5, <2>6 DEF InteractionFound
<1>5. CASE ~ (c.forming # None /\ c.interaction = None /\ v.touch # "none")
  <2>1. d = c
    BY <1>5 DEF Interact
  <2>2. IsFirst(c.interaction, U)
    <3>1. CASE T = {}
      BY <1>3, <1>5, <3>1 DEF IsFirst
    <3>2. CASE T # {}
      BY <1>1, <1>2, <1>3, <3>2 DEF IsFirst
    <3> QED
      BY <3>1, <3>2
  <2>3. c.interaction = None \/ c.interaction \in 0 .. n - 1
    BY <1>2 DEF IsFirst
  <2>4. InteractionClass(H, c.interaction) = InteractionClass(h, c.interaction)
    <3>1. c.interaction # None =>
            /\ H[c.interaction + 1] = h[c.interaction + 1]
            /\ c.interaction # 0 => H[c.interaction] = h[c.interaction]
            /\ H[1] = h[1]
      BY <1>1, <2>3
    <3> QED
      BY <3>1 DEF InteractionClass
  <2> QED
    BY <1>1, <2>1, <2>2, <2>3, <2>4 DEF InteractionFound
<1> QED
  BY <1>4, <1>5

\* A candle more lowers the anchor to its extreme, if that is lower.
LEMMA AnchorGrows ==
  ASSUME NEW h \in Seq(BtmmView), NEW v \in BtmmView, NEW i \in 0 .. Len(h) - 1,
         NEW x \in Int, IsAnchor(x, h, i, Len(h) - 1)
  PROVE  IsAnchor(AtMost(x, v.extreme), Append(h, v), i, Len(h))
<1> DEFINE n == Len(h)
           H == Append(h, v)
           y == AtMost(x, v.extreme)
<1>1. n \in Nat /\ H[n + 1] = v /\ \A k \in 0 .. n - 1 : H[k + 1] = h[k + 1]
  BY Appended
<1>2. v.extreme \in Int
  BY DEF BtmmView
<1>3. y \in Int /\ y <= x /\ y <= v.extreme /\ (y = x \/ y = v.extreme)
  BY <1>2 DEF AtMost
<1>4. i .. n = (i .. n - 1) \cup {n}
  BY <1>1
<1>5. \A k \in i .. n - 1 : H[k + 1] = h[k + 1] /\ h[k + 1].extreme \in Int
  <2> TAKE k \in i .. n - 1
  <2>1. k + 1 \in 1 .. n /\ k \in 0 .. n - 1
    BY <1>1
  <2>2. h[k + 1] \in BtmmView
    BY <2>1
  <2> QED
    BY <1>1, <2>1, <2>2 DEF BtmmView
<1> HIDE DEF y
<1>6. \A k \in i .. n : y <= H[k + 1].extreme
  <2>1. \A k \in i .. n - 1 : x <= H[k + 1].extreme /\ H[k + 1].extreme \in Int
    BY <1>5 DEF IsAnchor
  <2> QED
    BY <1>1, <1>2, <1>3, <1>4, <2>1
<1>7. \E k \in i .. n : H[k + 1].extreme = y
  <2>1. CASE y = x
    BY <1>4, <1>5, <2>1 DEF IsAnchor
  <2>2. CASE y = v.extreme
    BY <1>1, <1>4, <2>2
  <2> QED
    BY <1>3, <2>1, <2>2
<1> QED
  BY <1>6, <1>7 DEF IsAnchor, y

\* The start of the reaction and the anchor.
LEMMA StartStage ==
  ASSUME NEW h \in Seq(BtmmView), NEW v \in BtmmView, NEW b, NEW c \in Shaped,
         c.total = Len(h), StartFound(b, h),
         c.start = b.start,
         \/ /\ c.interaction = b.interaction /\ c.class = b.class /\ c.anchor = b.anchor
            /\ c.class # "NONE" => c.interaction \in 0 .. Len(h) - 1
         \/ /\ b.class = "NONE" /\ c.interaction = Len(h)
            /\ c.class = "ELIGIBLE" => c.anchor = v.extreme
  PROVE  LET d == StartReaction(c, v) IN
         /\ d \in Shaped
         /\ d.total = c.total /\ d.forming = c.forming
         /\ d.interaction = c.interaction /\ d.class = c.class
         /\ d.window = c.window /\ d.close = c.close /\ d.tier = c.tier
         /\ StartFound(d, Append(h, v))
         /\ \/ /\ d.start = c.start
               /\ c.start # None => d.anchor = b.anchor /\ c.start \in 0 .. Len(h) - 1
            \/ c.start = None /\ d.start = Len(h)
<1> DEFINE n == Len(h)
           H == Append(h, v)
           C == Clears(h, b.interaction, b.class)
           D == Clears(H, c.interaction, c.class)
           d == StartReaction(c, v)
<1>1. /\ n \in Nat /\ H \in Seq(BtmmView) /\ Len(H) = n + 1 /\ H[n + 1] = v
      /\ \A k \in 0 .. n - 1 : H[k + 1] = h[k + 1]
  BY Appended
<1>2. C \subseteq 0 .. n - 1 /\ IsFirst(c.start, C)
  BY DEF Clears, StartFound
<1>3. v.extreme \in Int
  BY DEF BtmmView
<1>4. CASE b.class = "NONE" /\ c.interaction = n /\ (c.class = "ELIGIBLE" => c.anchor = v.extreme)
  <2>1. C = {} /\ D = {}
    BY <1>1, <1>4 DEF Clears
  <2>2. c.start = None
    BY <1>2, <2>1 DEF IsFirst
  <2>3. d = c
    BY <1>1, <1>4 DEF StartReaction
  <2>4. c.class = "ELIGIBLE" => IsAnchor(c.anchor, H, n, n)
    BY <1>1, <1>3, <1>4 DEF IsAnchor
  <2> QED
    BY <1>1, <1>4, <2>1, <2>2, <2>3, <2>4 DEF StartFound, IsFirst
<1>5. CASE /\ c.interaction = b.interaction /\ c.class = b.class /\ c.anchor = b.anchor
           /\ c.class # "NONE" => c.interaction \in 0 .. n - 1
  <2>1. D = C \cup (IF c.class = "ELIGIBLE" /\ v.close = "clear" THEN {n} ELSE {})
    BY <1>1, <1>5 DEF Clears
  <2>2. CASE c.class = "ELIGIBLE" /\ c.start = None
    <3>1. c.interaction \in 0 .. n - 1 /\ n > c.interaction
      BY <1>1, <1>5, <2>2
    <3>2. d = [c EXCEPT !.anchor = AtMost(@, v.extreme),
                        !.start = IF v.close = "clear" THEN n ELSE None]
      BY <2>2, <3>1 DEF StartReaction
    <3>3. IsAnchor(c.anchor, h, c.interaction, n - 1) /\ c.anchor \in Int
      BY <1>5, <2>2 DEF StartFound, Shaped
    <3>4. IsAnchor(AtMost(c.anchor, v.extreme), H, c.interaction, n)
      BY <3>1, <3>3, AnchorGrows
    <3>5. AtMost(c.anchor, v.extreme) \in Int
      BY <1>3, <3>3 DEF AtMost
    <3>6. /\ d \in Shaped
          /\ d.total = c.total /\ d.forming = c.forming
          /\ d.interaction = c.interaction /\ d.class = c.class
          /\ d.window = c.window /\ d.close = c.close /\ d.tier = c.tier
          /\ d.anchor = AtMost(c.anchor, v.extreme)
          /\ d.start = IF v.close = "clear" THEN n ELSE None
      BY <1>1, <3>2, <3>5 DEF Shaped
    <3>7. C = {}
      BY <1>1, <1>2, <2>2 DEF IsFirst, None
    <3>8. IsFirst(d.start, D)
      BY <1>1, <2>1, <2>2, <3>6, <3>7 DEF IsFirst
    <3>9. n # None
      BY <1>1 DEF None
    <3> QED
      BY <1>1, <2>2, <3>4, <3>6, <3>8, <3>9 DEF StartFound
  <2>3. CASE ~ (c.class = "ELIGIBLE" /\ c.start = None)
    <3>1. d = c
      BY <2>3 DEF StartReaction
    <3>2. IsFirst(c.start, D)
      BY <1>1, <1>2, <2>1, <2>3 DEF IsFirst
    <3>3. c.start = None \/ c.start \in 0 .. n - 1
      BY <1>2 DEF IsFirst
    <3>4. c.class = "ELIGIBLE" => IsAnchor(c.anchor, H, c.interaction, c.start)
      <4>1. SUFFICES ASSUME c.class = "ELIGIBLE"
                     PROVE  IsAnchor(c.anchor, H, c.interaction, c.start)
        OBVIOUS
      <4>2. c.start # None /\ c.start \in 0 .. n - 1 /\ c.interaction \in 0 .. n - 1
        BY <1>5, <2>3, <3>3, <4>1
      <4>3. IsAnchor(c.anchor, h, c.interaction, c.start)
        BY <1>5, <4>1, <4>2 DEF StartFound
      <4>4. \A k \in c.interaction .. c.start : H[k + 1] = h[k + 1]
        BY <1>1, <4>2
      <4> QED
        BY <4>3, <4>4 DEF IsAnchor
    <3> QED
      BY <1>5, <2>3, <3>1, <3>2, <3>3, <3>4 DEF StartFound
  <2> QED
    BY <2>2, <2>3
<1> QED
  BY <1>4, <1>5

\* The tiers are what EvaluateReaction yields.
LEMMA TierOf ==
  ASSUME NEW x \in Int, NEW w \in Seq(BtmmView)
  PROVE  EvaluateReaction(x, w) \in Tiers /\ "NONE" \in Tiers
<1>1. \E y \in Int, u \in Seq(BtmmView) : EvaluateReaction(x, w) = EvaluateReaction(y, u)
  OBVIOUS
<1> QED
  BY <1>1, SMT DEF Tiers

\* WindowFound from its parts.
LEMMA WindowHolds ==
  ASSUME NEW d, NEW h,
         d.start # None,
         Len(d.window) = AtMost(Len(h) - d.start, WindowBars),
         \A j \in 1 .. Len(d.window) : d.window[j] = h[d.start + j],
         d.close = WindowClose(h, d.start),
         d.tier = IF d.close = None THEN "NONE" ELSE EvaluateReaction(d.anchor, d.window)
  PROVE  WindowFound(d, h)
BY DEF WindowFound

\* Where the positions of a window that grows by one candle lie in the stream.
LEMMA PositionInStream ==
  ASSUME NEW n \in Nat, NEW s \in 0 .. n, NEW k \in Nat, k = n - s, NEW j \in 1 .. k + 1
  PROVE  /\ j = k + 1 => s + j = n + 1
         /\ j # k + 1 => j \in 1 .. k /\ s + j \in 1 .. n
OBVIOUS

\* A window that has its last candle closes there, a shorter one does not close.
LEMMA CloseOfWindow ==
  ASSUME NEW H, NEW n \in Nat, NEW s \in 0 .. n, NEW k \in Nat, k = n - s,
         Len(H) = n + 1, s # None, WindowBars \in Nat, k < WindowBars
  PROVE  /\ k + 1 = WindowBars => WindowClose(H, s) = n
         /\ k + 1 # WindowBars => WindowClose(H, s) = None
<1>1. (n + 1) - s = k + 1 /\ Len(H) - s = k + 1
  OBVIOUS
<1>2. CASE k + 1 = WindowBars
  <2>1. s + WindowBars - 1 = n /\ ~(k + 1 < WindowBars)
    BY <1>2
  <2> QED
    BY <1>1, <1>2, <2>1 DEF WindowClose
<1>3. CASE k + 1 # WindowBars
  <2>1. k + 1 < WindowBars
    BY <1>3
  <2> QED
    BY <1>1, <1>3, <2>1 DEF WindowClose
<1> QED
  BY <1>2, <1>3

\* The window of the reaction and its tier.
LEMMA WindowStage ==
  ASSUME NEW h \in Seq(BtmmView), NEW v \in BtmmView, NEW b, NEW c \in Shaped,
         c.total = Len(h), WindowFound(b, h),
         c.window = b.window, c.close = b.close, c.tier = b.tier,
         \/ /\ c.start = b.start
            /\ c.start # None => c.anchor = b.anchor /\ c.start \in 0 .. Len(h) - 1
         \/ b.start = None /\ c.start = Len(h)
  PROVE  LET d == FillWindow(c, v) IN
         /\ d \in Shaped
         /\ d.total = c.total /\ d.forming = c.forming
         /\ d.interaction = c.interaction /\ d.class = c.class
         /\ d.anchor = c.anchor /\ d.start = c.start
         /\ WindowFound(d, Append(h, v))
<1> DEFINE n == Len(h)
           H == Append(h, v)
           s == c.start
           w == c.window
           d == FillWindow(c, v)
<1>1. /\ n \in Nat /\ H \in Seq(BtmmView) /\ Len(H) = n + 1 /\ H[n + 1] = v
      /\ \A k \in 1 .. n : H[k] = h[k]
  BY Appended
<1>2. WindowBars \in Nat /\ WindowBars > 0
  BY BtmmAssumption
<1>3. w \in Seq(BtmmView) /\ Len(w) \in Nat /\ s \in Nat \cup {None}
  BY DEF Shaped
<1>4. n # None /\ \A k \in Nat : k # None
  BY <1>1 DEF None
<1>5. CASE s = None
  <2>1. b.start = None /\ d = c
    BY <1>4, <1>5 DEF FillWindow
  <2>2. c.close = None
    BY <2>1 DEF WindowFound, WindowClose
  <2> QED
    BY <1>5, <2>1, <2>2 DEF WindowFound, WindowClose
\* What the window holds before the candle.
<1>6. ASSUME s # None
      PROVE  /\ s \in 0 .. n
             /\ Len(w) = AtMost(n - s, WindowBars)
             /\ \A j \in 1 .. Len(w) : w[j] = h[s + j]
             /\ c.close = IF n - s < WindowBars THEN None ELSE s + WindowBars - 1
             /\ c.tier = IF c.close = None THEN "NONE" ELSE EvaluateReaction(c.anchor, w)
  <2>1. CASE b.start = None /\ s = n
    <3>1. w = << >> /\ Len(w) = 0 /\ c.close = None /\ c.tier = "NONE"
      BY <2>1 DEF WindowFound, WindowClose
    <3>2. AtMost(n - s, WindowBars) = 0 /\ n - s < WindowBars
      BY <1>1, <1>2, <2>1 DEF AtMost
    <3> QED
      BY <1>1, <2>1, <3>1, <3>2
  <2>2. CASE s = b.start /\ c.anchor = b.anchor /\ s \in 0 .. n - 1
    BY <1>1, <1>6, <2>2 DEF WindowFound, WindowClose
  <2> QED
    BY <1>6, <2>1, <2>2
<1>7. CASE s # None /\ c.close # None
  <2>1. d = c
    BY <1>7 DEF FillWindow
  <2>2. n - s >= WindowBars /\ (n + 1) - s >= WindowBars /\ s \in 0 .. n
    BY <1>1, <1>2, <1>6, <1>7
  <2>3. Len(w) = WindowBars /\ AtMost((n + 1) - s, WindowBars) = WindowBars
    BY <1>1, <1>2, <1>6, <1>7, <2>2 DEF AtMost
  <2>4. \A j \in 1 .. Len(w) : w[j] = H[s + j]
    <3> TAKE j \in 1 .. Len(w)
    <3>1. s + j \in 1 .. n
      BY <1>1, <1>2, <2>2, <2>3
    <3> QED
      BY <1>1, <1>6, <1>7, <3>1
  <2>5. WindowClose(H, s) = s + WindowBars - 1
    BY <1>1, <1>2, <1>7, <2>2 DEF WindowClose
  <2>6. c.close = s + WindowBars - 1
    BY <1>1, <1>2, <1>6, <1>7, <2>2
  <2>7. c.tier = IF c.close = None THEN "NONE" ELSE EvaluateReaction(c.anchor, w)
    BY <1>6, <1>7
  <2> HIDE DEF H
  <2>8. Len(H) - s = (n + 1) - s
    BY <1>1, <2>2
  <2>9. WindowFound(c, H)
    BY <1>7, <2>3, <2>4, <2>5, <2>6, <2>7, <2>8 DEF WindowFound
  <2> QED
    BY <2>1, <2>9 DEF H
<1>8. CASE s # None /\ c.close = None
  <2> DEFINE u == Append(w, v)
             t == EvaluateReaction(c.anchor, u)
  <2>1. s \in 0 .. n /\ n - s < WindowBars /\ Len(w) = n - s
    <3>1. s \in 0 .. n /\ Len(w) = AtMost(n - s, WindowBars)
      BY <1>6, <1>8
    <3>2. n - s < WindowBars
      <4>1. s + WindowBars - 1 # None
        BY <1>2, <3>1 DEF None
      <4> QED
        BY <1>6, <1>8, <4>1
    <3> QED
      BY <1>1, <1>2, <3>1, <3>2 DEF AtMost
  <2>2. /\ u \in Seq(BtmmView) /\ Len(u) = Len(w) + 1 /\ u[Len(w) + 1] = v
        /\ \A j \in 1 .. Len(w) : u[j] = w[j]
    BY <1>3
  <2>3. Len(u) = AtMost((n + 1) - s, WindowBars)
    BY <1>1, <1>2, <2>1, <2>2 DEF AtMost
  <2>4. \A j \in 1 .. Len(u) : u[j] = H[s + j]
    <3> TAKE j \in 1 .. Len(u)
    <3>1. Len(w) \in Nat /\ j \in 1 .. Len(w) + 1
      BY <1>3, <2>2
    <3>2. /\ j = Len(w) + 1 => s + j = n + 1
          /\ j # Len(w) + 1 => j \in 1 .. Len(w) /\ s + j \in 1 .. n
      <4> HIDE DEF n, s, w
      <4> QED
        BY <1>1, <2>1, <3>1, PositionInStream
    <3>3. CASE j = Len(w) + 1
      BY <1>1, <2>2, <3>2, <3>3
    <3>4. CASE j # Len(w) + 1
      BY <1>1, <1>6, <1>8, <2>2, <3>2, <3>4
    <3> QED
      BY <3>3, <3>4
  <2>5. c.anchor \in Int
    BY DEF Shaped
  <2>6. t \in Tiers /\ "NONE" \in Tiers
    BY <2>2, <2>5, TierOf
  <2>7. c.tier = "NONE"
    BY <1>6, <1>8
  <2>8. n \in Nat \cup {None} /\ c.total = n
    BY <1>1
  <2> HIDE DEF t, u
  <2>9. /\ Len(w) + 1 = WindowBars => WindowClose(H, s) = n
        /\ Len(w) + 1 # WindowBars => WindowClose(H, s) = None
    <3>1. Len(w) \in Nat /\ s # None
      BY <1>3, <1>8
    <3> HIDE DEF n, s, w, H
    <3> QED
      BY <1>1, <1>2, <2>1, <3>1, CloseOfWindow
  <2>10. CASE Len(w) + 1 = WindowBars
    <3>1. d = [c EXCEPT !.window = u, !.close = n, !.tier = t]
      BY <1>8, <2>8, <2>10 DEF FillWindow, t, u
    <3>2. /\ d \in Shaped
          /\ d.total = c.total /\ d.forming = c.forming
          /\ d.interaction = c.interaction /\ d.class = c.class
          /\ d.anchor = c.anchor /\ d.start = c.start
          /\ d.window = u /\ d.close = n /\ d.tier = t
      BY <2>2, <2>6, <2>8, <3>1, ZenonT(30) DEF Shaped
    <3>3. WindowClose(H, s) = n
      BY <2>9, <2>10
    <3>4. t = EvaluateReaction(d.anchor, d.window)
      BY <3>2 DEF t
    <3>5. d.close # None
      BY <1>4, <2>8, <3>2
    <3> HIDE DEF d, H
    <3>6. Len(d.window) = AtMost(Len(H) - d.start, WindowBars) /\ d.start # None
      <4>1. Len(H) = n + 1
        BY <1>1
      <4>2. d.start = s /\ d.window = u
        BY <3>2
      <4> QED
        BY <1>8, <2>3, <4>1, <4>2, Zenon
    <3>7. \A j \in 1 .. Len(d.window) : d.window[j] = H[d.start + j]
      <4>1. d.start = s /\ d.window = u
        BY <3>2
      <4> QED
        BY <2>4, <4>1, Zenon
    <3>8. d.close = WindowClose(H, d.start)
      BY <3>2, <3>3
    <3>9. WindowFound(d, H)
      BY <3>4, <3>5, <3>6, <3>7, <3>8, <3>2, WindowHolds
    <3> QED
      BY <3>2, <3>9 DEF d, H
  <2>11. CASE Len(w) + 1 # WindowBars
    <3>1. d = [c EXCEPT !.window = u]
      BY <1>8, <2>11 DEF FillWindow, u
    <3>2. /\ d \in Shaped
          /\ d.total = c.total /\ d.forming = c.forming
          /\ d.interaction = c.interaction /\ d.class = c.class
          /\ d.anchor = c.anchor /\ d.start = c.start
          /\ d.window = u /\ d.close = None /\ d.tier = "NONE"
      BY <1>8, <2>2, <2>7, <3>1 DEF Shaped
    <3>3. WindowClose(H, s) = None
      BY <2>9, <2>11
    <3> HIDE DEF d, H
    <3>4. Len(d.window) = AtMost(Len(H) - d.start, WindowBars) /\ d.start # None
      <4>1. Len(H) = n + 1
        BY <1>1
      <4>2. d.start = s /\ d.window = u
        BY <3>2
      <4> QED
        BY <1>8, <2>3, <4>1, <4>2, Zenon
    <3>5. \A j \in 1 .. Len(d.window) : d.window[j] = H[d.start + j]
      <4>1. d.start = s /\ d.window = u
        BY <3>2
      <4> QED
        BY <2>4, <4>1, Zenon
    <3>6. d.close = WindowClose(H, d.start)
      BY <3>2, <3>3
    <3>7. WindowFound(d, H)
      BY <3>2, <3>4, <3>5, <3>6, WindowHolds
    <3> QED
      BY <3>2, <3>7 DEF d, H
  <2> QED
    BY <2>10, <2>11
<1> QED
  BY <1>5, <1>7, <1>8

-----------------------------------------------------------------------------
\* The candle as a whole.
LEMMA AdvanceScans ==
  ASSUME NEW a \in Int, NEW h \in Seq(BtmmView), NEW v \in BtmmView, NEW c,
         Scans(c, h, a)
  PROVE  Scans(AdvanceCursor(c, v, a), Append(h, v), a)
<1> DEFINE n == Len(h)
           H == Append(h, v)
           c1 == EnterForming(c, a)
           c2 == Interact(c1, v)
           c3 == StartReaction(c2, v)
           c4 == FillWindow(c3, v)
           d == MoveOn(c4, v)
<1>1. n \in Nat /\ H \in Seq(BtmmView) /\ Len(H) = n + 1 /\ H[n + 1] = v
  BY Appended
<1>2. /\ c \in Shaped /\ c.total = n
      /\ c.prior = IF h = << >> THEN "none" ELSE h[Len(h)].close
      /\ FormingFound(c, h, a) /\ InteractionFound(c, h) /\ StartFound(c, h) /\ WindowFound(c, h)
  BY DEF Scans
<1>3. /\ c1 = [c EXCEPT !.forming = c1.forming]
      /\ c1.forming \in Nat \cup {None}
      /\ IsFirst(c1.forming, Formings(H, a))
      /\ c1.forming = c.forming \/ (c.forming = None /\ c1.forming = n)
  BY FormingStage
<1> HIDE DEF c1
<1>4. /\ c1 \in Shaped /\ c1.total = c.total /\ c1.prior = c.prior
      /\ c1.interaction = c.interaction /\ c1.class = c.class /\ c1.anchor = c.anchor
      /\ c1.start = c.start /\ c1.window = c.window /\ c1.close = c.close /\ c1.tier = c.tier
  <2>1. ASSUME NEW f \in Nat \cup {None}, c1 = [c EXCEPT !.forming = f]
        PROVE  /\ c1 \in Shaped /\ c1.total = c.total /\ c1.prior = c.prior
               /\ c1.interaction = c.interaction /\ c1.class = c.class /\ c1.anchor = c.anchor
               /\ c1.start = c.start /\ c1.window = c.window /\ c1.close = c.close
               /\ c1.tier = c.tier
    BY <1>2, <2>1 DEF Shaped
  <2> QED
    BY <1>3, <2>1
<1>5. c1.forming = None \/ c1.forming <= n
  <2>1. Formings(h, a) \subseteq 0 .. n - 1
    BY DEF Formings
  <2> QED
    BY <1>1, <1>2, <1>3, <2>1 DEF FormingFound, IsFirst
<1>6. /\ IsFirst(c1.interaction, Touchings(h, c.forming))
      /\ c1.class = InteractionClass(h, c1.interaction)
  BY <1>2, <1>4 DEF InteractionFound
<1>7. /\ c2 \in Shaped
      /\ c2.total = n /\ c2.forming = c1.forming /\ c2.start = c.start
      /\ c2.window = c.window /\ c2.close = c.close /\ c2.tier = c.tier
      /\ InteractionFound(c2, H)
      /\ \/ /\ c2.interaction = c.interaction /\ c2.class = c.class /\ c2.anchor = c.anchor
            /\ c2.interaction = None \/ c2.interaction < n
         \/ /\ c.interaction = None /\ c2.interaction = n
            /\ c2.class = "ELIGIBLE" => c2.anchor = v.extreme
  BY <1>2, <1>3, <1>4, <1>5, <1>6, InteractionStage
<1> HIDE DEF c2
<1>8. \/ /\ c2.interaction = c.interaction /\ c2.class = c.class /\ c2.anchor = c.anchor
         /\ c2.class # "NONE" => c2.interaction \in 0 .. n - 1
      \/ /\ c.class = "NONE" /\ c2.interaction = n
         /\ c2.class = "ELIGIBLE" => c2.anchor = v.extreme
  <2>1. c.interaction = None => c.class = "NONE"
    BY <1>2 DEF InteractionFound, InteractionClass
  <2>2. c2.interaction \in Nat \cup {None}
    BY <1>7 DEF Shaped
  <2> QED
    BY <1>1, <1>7, <2>1, <2>2
<1>9. /\ c3 \in Shaped
      /\ c3.total = n /\ c3.forming = c1.forming
      /\ c3.interaction = c2.interaction /\ c3.class = c2.class
      /\ c3.window = c.window /\ c3.close = c.close /\ c3.tier = c.tier
      /\ StartFound(c3, H)
      /\ \/ c3.start = c.start /\ (c.start # None => c3.anchor = c.anchor /\ c.start \in 0 .. n - 1)
         \/ c.start = None /\ c3.start = n
  BY <1>2, <1>7, <1>8, StartStage
<1> HIDE DEF c3
<1>10. /\ c4 \in Shaped
       /\ c4.total = n /\ c4.forming = c1.forming
       /\ c4.interaction = c2.interaction /\ c4.class = c2.class
       /\ c4.anchor = c3.anchor /\ c4.start = c3.start
       /\ WindowFound(c4, H)
  BY <1>2, <1>9, WindowStage
<1> HIDE DEF c4
<1>11. /\ d \in Shaped /\ d.total = n + 1 /\ d.prior = v.close
       /\ d.forming = c4.forming /\ d.interaction = c4.interaction /\ d.class = c4.class
       /\ d.anchor = c4.anchor /\ d.start = c4.start /\ d.window = c4.window
       /\ d.close = c4.close /\ d.tier = c4.tier
  <2>1. v.close \in Side
    BY DEF BtmmView
  <2>2. c4 \in Shaped /\ c4.total = n
    BY <1>10
  <2>3. d = [c4 EXCEPT !.total = n + 1, !.prior = v.close]
    BY <2>2 DEF MoveOn
  <2> HIDE DEF d, n
  <2>4. n + 1 \in Nat
    BY <1>1
  <2> QED
    BY <2>1, <2>2, <2>3, <2>4 DEF Shaped
<1>12. AdvanceCursor(c, v, a) = d
  BY DEF AdvanceCursor, c1, c2, c3, c4
<1> HIDE DEF d
<1>13. d.prior = IF H = << >> THEN "none" ELSE H[Len(H)].close
  <2>1. H # << >>
    BY <1>1
  <2> QED
    BY <1>1, <1>11, <2>1
<1>14. FormingFound(d, H, a)
  BY <1>3, <1>10, <1>11 DEF FormingFound
<1>15. InteractionFound(d, H)
  BY <1>7, <1>10, <1>11 DEF InteractionFound
<1>16. StartFound(d, H)
  <2>1. /\ d.start = c3.start /\ d.interaction = c3.interaction /\ d.class = c3.class
        /\ d.anchor = c3.anchor
    BY <1>9, <1>10, <1>11
  <2> QED
    BY <1>9, <2>1, Zenon DEF StartFound
<1>17. WindowFound(d, H)
  BY <1>10, <1>11, Zenon DEF WindowFound
<1> QED
  BY <1>1, <1>11, <1>12, <1>13, <1>14, <1>15, <1>16, <1>17 DEF Scans

-----------------------------------------------------------------------------
\* What the cursor has found is what the batch scans find.
LEMMA FoundIsScan ==
  ASSUME NEW a \in Int, NEW h \in Seq(BtmmView), NEW c, Scans(c, h, a)
  PROVE  Found(c.forming, c.interaction, c.class, c.close, c.tier) = Scan(h, a)
<1> DEFINE n == Len(h)
           f == c.forming
           i == c.interaction
           k == c.class
           s == c.start
<1>1. n \in Nat /\ WindowBars \in Nat /\ WindowBars > 0
  BY BtmmAssumption
<1>2. /\ c \in Shaped
      /\ IsFirst(f, Formings(h, a)) /\ IsFirst(i, Touchings(h, f))
      /\ k = InteractionClass(h, i) /\ IsFirst(s, Clears(h, i, k))
      /\ StartFound(c, h) /\ WindowFound(c, h)
  BY DEF Scans, FormingFound, InteractionFound, StartFound
<1>3. /\ Formings(h, a) \in SUBSET Nat /\ Touchings(h, f) \in SUBSET Nat
      /\ Clears(h, i, k) \in SUBSET (0 .. n - 1) /\ Clears(h, i, k) \in SUBSET Nat
  BY <1>1 DEF Formings, Touchings, Clears
<1>4. f \in Nat \cup {None} /\ i \in Nat \cup {None} /\ s \in Nat \cup {None}
  BY <1>2 DEF Shaped
<1>5. \A x \in Nat : x # None
  BY DEF None
<1>6. FormingIndex(h, a) = f
  BY <1>2, <1>3, FirstIsLeast DEF FormingIndex, Formings
<1>7. InteractionIndex(h, f) = i
  <2>1. CASE f = None
    <3>1. Touchings(h, f) = {}
      BY <2>1 DEF Touchings
    <3> QED
      BY <1>2, <2>1, <3>1 DEF InteractionIndex, IsFirst
  <2>2. CASE f # None
    <3>1. {x \in f .. n - 1 : h[x + 1].touch # "none"} = Touchings(h, f)
      BY <1>1, <1>4, <2>2 DEF Touchings
    <3>2. FirstOf(Touchings(h, f)) = i
      BY <1>2, <1>3, FirstIsLeast
    <3> QED
      BY <2>2, <3>1, <3>2 DEF InteractionIndex
  <2> QED
    BY <2>1, <2>2
<1>8. k = "ELIGIBLE" => i \in 0 .. n - 1
  <2>1. Touchings(h, f) \subseteq 0 .. n - 1
    BY DEF Touchings
  <2>2. i = None => k # "ELIGIBLE"
    BY <1>2 DEF InteractionClass
  <2> QED
    BY <1>2, <2>1, <2>2 DEF IsFirst
<1>9. ReactionStart(h, i, k) = s
  <2>1. CASE k # "ELIGIBLE"
    <3>1. Clears(h, i, k) = {}
      BY <2>1 DEF Clears
    <3> QED
      BY <1>2, <2>1, <3>1 DEF ReactionStart, IsFirst
  <2>2. CASE k = "ELIGIBLE"
    <3>1. {x \in i + 1 .. n - 1 : h[x + 1].close = "clear"} = Clears(h, i, k)
      BY <1>1, <1>8, <2>2 DEF Clears
    <3>2. FirstOf(Clears(h, i, k)) = s
      BY <1>2, <1>3, FirstIsLeast
    <3> QED
      BY <2>2, <3>1, <3>2 DEF ReactionStart
  <2> QED
    BY <2>1, <2>2
<1>10. c.close = WindowClose(h, s)
  BY <1>2 DEF WindowFound
<1>11. c.tier = IF WindowClose(h, s) = None THEN "NONE"
                ELSE EvaluateReaction(ReactionAnchor(h, i, s), SubSeq(h, s + 1, s + WindowBars))
  <2>1. CASE c.close = None
    BY <1>2, <1>10, <2>1 DEF WindowFound
  <2>2. CASE c.close # None
    <3>1. s # None /\ n - s >= WindowBars
      BY <1>1, <1>4, <1>10, <2>2 DEF WindowClose
    <3>2. s \in 0 .. n - 1 /\ s \in Clears(h, i, k)
      BY <1>2, <1>3, <3>1 DEF IsFirst
    <3>3. k = "ELIGIBLE" /\ i \in 0 .. n - 1
      BY <1>8, <3>2 DEF Clears
    <3>4. IsAnchor(c.anchor, h, i, s)
      BY <1>2, <3>1, <3>3 DEF StartFound
    <3>5. c.anchor = ReactionAnchor(h, i, s)
      <4> DEFINE E == {h[x + 1].extreme : x \in i .. s}
      <4>1. \A x \in i .. s : h[x + 1].extreme \in Int
        <5> TAKE x \in i .. s
        <5>1. x + 1 \in 1 .. n
          BY <1>1, <3>2, <3>3
        <5>2. h[x + 1] \in BtmmView
          BY <5>1
        <5> QED
          BY <5>2 DEF BtmmView
      <4>2. c.anchor \in E /\ \A y \in E : c.anchor <= y
        BY <3>4 DEF IsAnchor
      <4>3. \A y \in E : y \in Int
        BY <4>1
      <4> HIDE DEF E
      <4>4. \A x \in E : (\A y \in E : x <= y) => x = c.anchor
        BY <4>2, <4>3
      <4>5. (CHOOSE x \in E : \A y \in E : x <= y) = c.anchor
        BY <4>2, <4>4
      <4> QED
        BY <4>5 DEF ReactionAnchor, E
    <3>6. c.window = SubSeq(h, s + 1, s + WindowBars)
      <4> DEFINE W == SubSeq(h, s + 1, s + WindowBars)
      <4>1. c.window \in Seq(BtmmView)
        BY <1>2 DEF Shaped
      <4>2. Len(c.window) = WindowBars /\ \A j \in 1 .. Len(c.window) : c.window[j] = h[s + j]
        BY <1>1, <1>2, <3>1, <3>2, SMTT(30) DEF WindowFound, AtMost
      <4>3. s + 1 \in 1 .. n /\ s + WindowBars \in 1 .. n /\ s + 1 <= s + WindowBars
        BY <1>1, <3>1, <3>2
      <4>4. /\ W \in Seq(BtmmView) /\ Len(W) = WindowBars
            /\ \A j \in 1 .. WindowBars : W[j] = h[s + j]
        <5>1. s + 1 \in Int /\ s + WindowBars \in Int
          BY <4>3
        <5>2. \A j \in s + 1 .. s + WindowBars : h[j] \in BtmmView
          BY <1>1, <4>3
        <5>3. /\ W \in Seq(BtmmView)
              /\ Len(W) = IF s + 1 <= s + WindowBars THEN (s + WindowBars) - (s + 1) + 1 ELSE 0
              /\ \A j \in 1 .. (s + WindowBars) - (s + 1) + 1 : W[j] = h[(s + 1) + j - 1]
          BY <5>1, <5>2, SubSeqProperties
        <5>4. /\ (s + WindowBars) - (s + 1) + 1 = WindowBars
              /\ \A j \in 1 .. WindowBars : (s + 1) + j - 1 = s + j
          BY <1>1, <3>2
        <5> HIDE DEF W
        <5> QED
          BY <4>3, <5>3, <5>4
      <4> HIDE DEF W
      <4>5. \A j \in 1 .. Len(c.window) : c.window[j] = W[j]
        BY <4>2, <4>4
      <4> QED
        BY <4>1, <4>2, <4>4, <4>5, SeqEqual DEF W
    <3>7. c.tier = EvaluateReaction(c.anchor, c.window)
      BY <1>2, <2>2 DEF WindowFound
    <3> QED
      BY <1>10, <2>2, <3>5, <3>6, <3>7, Zenon
  <2> QED
    BY <2>1, <2>2
<1>12. Scan(h, a) = ScanWindow(h, f, i, k, s)
  BY <1>2, <1>6, <1>7, <1>9 DEF Scan, ScanForming, ScanInteraction, ScanReaction
<1> QED
  BY <1>10, <1>11, <1>12, Zenon DEF ScanWindow

-----------------------------------------------------------------------------
\* The invariant of BtmmFeed.
FeedInv ==
  /\ available \in Int
  /\ history \in Seq(BtmmView)
  /\ Scans(cursor, history, available)
  /\ result = MaterializeCursor(cursor, available, events, evidence)

LEMMA FeedInitInv == FeedInit => FeedInv
<1> SUFFICES ASSUME FeedInit PROVE FeedInv
  OBVIOUS
<1>1. available \in Int
  BY FeedAssumption DEF FeedInit
<1>2. history = << >> /\ << >> \in Seq(BtmmView)
  BY DEF FeedInit
<1>3. Scans(cursor, history, available)
  BY <1>1, CreatedScans DEF FeedInit
<1> QED
  BY <1>1, <1>2, <1>3 DEF FeedInit, FeedInv

LEMMA FeedNextInv == FeedInv /\ [FeedNext]_feedVars => FeedInv'
<1> SUFFICES ASSUME FeedInv, [FeedNext]_feedVars PROVE FeedInv'
  OBVIOUS
<1>1. CASE FeedNext
  <2>1. PICK v \in Views, happened \in Invalidations \cup {"NONE"},
             seen \in Arrivals \cup {NoEvidence} : Feed(v, happened, seen)
    BY <1>1 DEF FeedNext
  <2>2. v \in BtmmView
    BY FeedAssumption
  <2>3. /\ available' = available /\ history' = Append(history, v)
        /\ cursor' = AdvanceCursor(cursor, v, available)
        /\ result' = MaterializeCursor(cursor', available, events', evidence')
    BY <2>1 DEF Feed
  <2>4. history' \in Seq(BtmmView)
    BY <2>2, <2>3 DEF FeedInv
  <2>5. Scans(AdvanceCursor(cursor, v, available), Append(history, v), available)
    BY <2>2, AdvanceScans DEF FeedInv
  <2> QED
    BY <2>3, <2>4, <2>5 DEF FeedInv
<1>2. CASE UNCHANGED feedVars
  BY <1>2 DEF FeedInv, feedVars, Scans, FormingFound, InteractionFound, StartFound, WindowFound
<1> QED
  BY <1>1, <1>2

\* The invariant of the cursor fed one candle at a time.
THEOREM Invariance == FeedSpec => []FeedInv
BY FeedInitInv, FeedNextInv, PTL DEF FeedSpec

-----------------------------------------------------------------------------
\* The finds go in order and stay within the stream, if every window has a tier.
THEOREM TypeCorrect ==
  ASSUME \A x \in Int, w \in Seq(BtmmView) : EvaluateReaction(x, w) \in Tier
  PROVE  FeedSpec => []FeedTypeOK
<1>1. FeedInv => FeedTypeOK
  <2> SUFFICES ASSUME FeedInv PROVE FeedTypeOK
    OBVIOUS
  <2> DEFINE c == cursor
             n == Len(history)
  <2>1. /\ c \in Shaped /\ history \in Seq(BtmmView) /\ n \in Nat /\ c.total = n
        /\ FormingFound(c, history, available) /\ InteractionFound(c, history)
        /\ StartFound(c, history) /\ WindowFound(c, history)
    BY DEF FeedInv, Scans
  <2>2. Tiers \subseteq Tier \cup {"NONE"}
    BY DEF Tiers
  <2>3. c \in Cursor
    BY <2>1, <2>2 DEF Shaped, Cursor
  <2>4. c.forming \in 0 .. n - 1 \cup {None}
    <3>1. Formings(history, available) \subseteq 0 .. n - 1
      BY DEF Formings
    <3> QED
      BY <2>1, <3>1 DEF FormingFound, IsFirst
  <2>5. c.interaction # None => c.forming # None /\ c.forming <= c.interaction
    BY <2>1 DEF InteractionFound, IsFirst, Touchings
  <2>6. c.start # None => c.interaction # None /\ c.interaction < c.start
    <3> SUFFICES ASSUME c.start # None PROVE c.interaction # None /\ c.interaction < c.start
      OBVIOUS
    <3>1. /\ c.start \in 0 .. n - 1 /\ c.class = "ELIGIBLE" /\ c.start >= c.interaction + 1
      BY <2>1 DEF StartFound, IsFirst, Clears
    <3>2. c.interaction # None
      BY <2>1, <3>1 DEF InteractionFound, InteractionClass
    <3>3. c.interaction \in Int
      BY <2>1, <3>2 DEF Shaped
    <3> QED
      BY <3>1, <3>2, <3>3
  <2>7. c.close # None => c.start # None /\ c.close = c.start + WindowBars - 1
    BY <2>1 DEF WindowFound, WindowClose
  <2>8. c.total = Len(history)
    BY <2>1
  <2> QED
    BY <2>3, <2>4, <2>5, <2>6, <2>7, <2>8 DEF FeedTypeOK
<1> QED
  BY <1>1, Invariance, PTL

\* What the engine reads of a cursor is the batch lifecycle of the prefix, for
\* every stream, window length, reaction tier, invalidation and evidence: the
\* scans agree, and the cascade is given what they found.
THEOREM CursorIsBatch == FeedSpec => []ResultIsBatch
<1>1. FeedInv => ResultIsBatch
  <2> SUFFICES ASSUME FeedInv PROVE ResultIsBatch
    OBVIOUS
  <2>1. Found(cursor.forming, cursor.interaction, cursor.class, cursor.close, cursor.tier)
          = Scan(history, available)
    BY FoundIsScan DEF FeedInv
  <2> QED
    BY <2>1, Zenon DEF FeedInv, ResultIsBatch, MaterializeCursor, RunBtmmLifecycle
<1> QED
  BY <1>1, Invariance, PTL

-----------------------------------------------------------------------------
(*****************************************************************************)
(* Cursors that are behind the head.                                         *)
(*****************************************************************************)
FoundBy(c) == Found(c.forming, c.interaction, c.class, c.close, c.tier)

\* The cursor brought to the end of h, and a cursor that may be brought there.
Ahead(c, h) == FastForward(c, h[Len(h)], Len(h))

InStep(c, h, a) ==
  /\ c \in Shaped
  /\ c.total <= Len(h)
  /\ c.total = Len(h) \/ Dormant(c)
  /\ Scans(Ahead(c, h), h, a)

\* What the scans find in a longer stream: g adds to f, after the candle k only.
Precedes(f, g, k) ==
  \/ f = g
  \/ /\ f = Found(None, None, "NONE", None, "NONE")
     /\ g.forming > k
  \/ /\ f = Found(g.forming, None, "NONE", None, "NONE") /\ g.forming # None
     /\ g.interaction > k
  \/ /\ f = Found(g.forming, g.interaction, "ELIGIBLE", None, "NONE")
     /\ g.forming # None /\ g.interaction # None /\ g.class = "ELIGIBLE"
     /\ g.close > k

\* The finds of a cursor go in order and lie in the stream.
LEMMA FindsInOrder ==
  ASSUME NEW a \in Int, NEW h \in Seq(BtmmView), NEW c, Scans(c, h, a)
  PROVE  /\ c.forming \in 0 .. Len(h) - 1 \cup {None}
         /\ c.interaction \in 0 .. Len(h) - 1 \cup {None}
         /\ c.close \in 0 .. Len(h) - 1 \cup {None}
         /\ c.forming = None => c.interaction = None
         /\ c.interaction = None <=> c.class = "NONE"
         /\ c.class # "ELIGIBLE" => c.start = None
         /\ c.start = None => c.close = None
         /\ c.close = None => c.tier = "NONE"
<1>1. /\ c \in Shaped /\ Len(h) \in Nat
      /\ FormingFound(c, h, a) /\ InteractionFound(c, h)
      /\ StartFound(c, h) /\ WindowFound(c, h)
  BY DEF Scans
<1>2. c.forming \in 0 .. Len(h) - 1 \cup {None}
  <2>1. Formings(h, a) \subseteq 0 .. Len(h) - 1
    BY DEF Formings
  <2> QED
    BY <1>1, <2>1 DEF FormingFound, IsFirst
<1>3. /\ c.interaction \in 0 .. Len(h) - 1 \cup {None}
      /\ c.forming = None => c.interaction = None
  <2>1. /\ Touchings(h, c.forming) \subseteq 0 .. Len(h) - 1
        /\ c.forming = None => Touchings(h, c.forming) = {}
    BY DEF Touchings
  <2> QED
    BY <1>1, <2>1 DEF InteractionFound, IsFirst
<1>4. c.interaction = None <=> c.class = "NONE"
  <2>1. \A t, s : ClassOf(t, s) # "NONE"
    BY DEF ClassOf
  <2> QED
    BY <1>1, <2>1 DEF InteractionFound, InteractionClass
<1>5. /\ c.start \in 0 .. Len(h) - 1 \cup {None}
      /\ c.class # "ELIGIBLE" => c.start = None
  <2>1. /\ Clears(h, c.interaction, c.class) \subseteq 0 .. Len(h) - 1
        /\ c.class # "ELIGIBLE" => Clears(h, c.interaction, c.class) = {}
    BY DEF Clears
  <2> QED
    BY <1>1, <2>1 DEF StartFound, IsFirst
<1>6. /\ c.close \in 0 .. Len(h) - 1 \cup {None}
      /\ c.start = None => c.close = None
  <2>1. WindowBars \in Nat \ {0}
    BY BtmmAssumption
  <2>2. c.close = WindowClose(h, c.start)
    BY <1>1 DEF WindowFound
  <2>3. CASE c.start = None
    BY <2>2, <2>3 DEF WindowClose
  <2>4. CASE c.start # None
    <3> DEFINE n == Len(h)
               s == c.start
    <3>1. n \in Nat /\ s \in 0 .. n - 1
      BY <1>1, <1>5, <2>4
    <3>2. c.close = IF n - s < WindowBars THEN None ELSE s + WindowBars - 1
      BY <2>2, <2>4 DEF WindowClose
    <3> HIDE DEF n, s
    <3>3. c.close \in 0 .. n - 1 \cup {None}
      BY <2>1, <3>1, <3>2
    <3> QED
      BY <2>4, <3>3 DEF n
  <2> QED
    BY <2>3, <2>4
<1>7. c.close = None => c.tier = "NONE"
  BY <1>1 DEF WindowFound
<1> QED
  BY <1>2, <1>3, <1>4, <1>5, <1>6, <1>7

\* A dormant cursor is not moved by a candle that none of its scans waits for.
LEMMA SkipIsAdvance ==
  ASSUME NEW a \in Int, NEW h \in Seq(BtmmView), NEW v \in BtmmView, NEW c,
         Scans(c, h, a), Dormant(c),
         c.forming = None => TimeOf(Len(h)) <= a,
         c.forming # None /\ c.interaction = None => v.touch = "none"
  PROVE  AdvanceCursor(c, v, a) = MoveOn(c, v)
<1>1. c \in Shaped /\ c.total = Len(h) /\ Len(h) \in Nat
  BY DEF Scans
<1>2. /\ c.forming = None => c.interaction = None
      /\ c.interaction = None <=> c.class = "NONE"
      /\ c.class # "ELIGIBLE" => c.start = None
      /\ c.start = None => c.close = None
  BY FindsInOrder
<1>3. EnterForming(c, a) = c
  <2>1. TimeOf(c.total) \in Int
    BY <1>1 DEF TimeOf
  <2> QED
    BY <1>1, <2>1 DEF EnterForming
<1>4. Interact(c, v) = c
  BY <1>2 DEF Interact
<1>5. StartReaction(c, v) = c
  BY <1>2 DEF StartReaction, Dormant
<1>6. FillWindow(c, v) = c
  BY <1>2 DEF FillWindow, Dormant
<1> QED
  BY <1>3, <1>4, <1>5, <1>6 DEF AdvanceCursor

\* A cursor none of whose scans a candle can move is, advanced over it, the
\* cursor fast-forwarded over it: cursor_fast_forward.py's "proven no-op".
THEOREM DormantMaySkip == FeedSpec => []FastForwardIsAdvance
<1>1. FeedInv => FastForwardIsAdvance
  <2> SUFFICES ASSUME FeedInv, Dormant(cursor), NEW v \in Views, Skippable(v)
               PROVE  AdvanceCursor(cursor, v, available)
                        = FastForward(cursor, v, cursor.total + 1)
    BY DEF FastForwardIsAdvance
  <2>1. Scans(cursor, history, available) /\ available \in Int /\ v \in BtmmView
    BY FeedAssumption DEF FeedInv
  <2>2. cursor.total = Len(history) /\ cursor.total \in Nat /\ cursor.total + 1 # cursor.total
    BY <2>1 DEF Scans, Shaped
  <2>3. /\ cursor.forming = None => TimeOf(Len(history)) <= available
        /\ cursor.forming # None /\ cursor.interaction = None => v.touch = "none"
    BY <2>2 DEF Skippable
  <2>4. history \in Seq(BtmmView)
    BY DEF FeedInv
  <2>5. AdvanceCursor(cursor, v, available) = MoveOn(cursor, v)
    BY <2>1, <2>3, <2>4, SkipIsAdvance
  <2> QED
    BY <2>2, <2>5 DEF MoveOn, FastForward
<1> QED
  BY <1>1, Invariance, PTL

\* The fields of a cursor brought to the end of the stream.
LEMMA AheadFields ==
  ASSUME NEW h \in Seq(BtmmView), h # << >>, NEW c \in Shaped
  PROVE  /\ Ahead(c, h) \in Shaped
         /\ Ahead(c, h).total = Len(h)
         /\ Ahead(c, h).forming = c.forming /\ Ahead(c, h).interaction = c.interaction
         /\ Ahead(c, h).class = c.class /\ Ahead(c, h).anchor = c.anchor
         /\ Ahead(c, h).start = c.start /\ Ahead(c, h).window = c.window
         /\ Ahead(c, h).close = c.close /\ Ahead(c, h).tier = c.tier
         /\ FoundBy(Ahead(c, h)) = FoundBy(c)
         /\ Dormant(Ahead(c, h)) <=> Dormant(c)
<1> DEFINE n == Len(h)
           x == h[n].close
           b == Ahead(c, h)
<1>1. n \in Nat /\ x \in Side
  <2>1. n \in Nat /\ h[n] \in BtmmView
    OBVIOUS
  <2> QED
    BY <2>1 DEF BtmmView
<1>2. b = IF n = c.total THEN c ELSE [c EXCEPT !.total = n, !.prior = x]
  BY DEF Ahead, FastForward
<1> HIDE DEF n, x, b
<1>3. /\ b \in Shaped
      /\ b.total = n
      /\ b.forming = c.forming /\ b.interaction = c.interaction
      /\ b.class = c.class /\ b.anchor = c.anchor
      /\ b.start = c.start /\ b.window = c.window
      /\ b.close = c.close /\ b.tier = c.tier
  BY <1>1, <1>2 DEF Shaped
<1>4. FoundBy(b) = FoundBy(c) /\ (Dormant(b) <=> Dormant(c))
  BY <1>3 DEF FoundBy, Dormant
<1> QED
  BY <1>3, <1>4 DEF n, b

\* A cursor that is advanced to the end of the stream is in step.
LEMMA ScansInStep ==
  ASSUME NEW a \in Int, NEW h \in Seq(BtmmView), NEW c, Scans(c, h, a)
  PROVE  InStep(c, h, a)
BY DEF InStep, Scans, Ahead, FastForward

\* A cursor in step is woken by a candle...
LEMMA WakeInStep ==
  ASSUME NEW a \in Int, NEW h \in Seq(BtmmView), NEW v \in BtmmView, NEW c, InStep(c, h, a)
  PROVE  InStep(AdvanceCursor(Ahead(c, h), v, a), Append(h, v), a)
<1>1. Scans(AdvanceCursor(Ahead(c, h), v, a), Append(h, v), a)
  BY AdvanceScans DEF InStep
<1>2. Append(h, v) \in Seq(BtmmView)
  OBVIOUS
<1> QED
  BY <1>1, <1>2, ScansInStep

\* ... or left behind, where none of its scans waits for the candle.
LEMMA SkipInStep ==
  ASSUME NEW a \in Int, NEW h \in Seq(BtmmView), h # << >>, NEW v \in BtmmView, NEW c,
         InStep(c, h, a), Dormant(c),
         c.forming = None => TimeOf(Len(h)) <= a,
         c.forming # None /\ c.interaction = None => v.touch = "none"
  PROVE  InStep(c, Append(h, v), a)
<1> DEFINE H == Append(h, v)
           b == Ahead(c, h)
<1>1. c \in Shaped /\ c.total <= Len(h) /\ Scans(b, h, a) /\ c.total \in Nat
  BY DEF InStep, Shaped
<1>2. /\ b.forming = c.forming /\ b.interaction = c.interaction /\ b.total = Len(h)
      /\ b \in Shaped /\ Dormant(b)
  BY <1>1, AheadFields
<1>3. AdvanceCursor(b, v, a) = MoveOn(b, v)
  BY <1>1, <1>2, SkipIsAdvance
<1>4. Len(h) \in Nat /\ Len(H) = Len(h) + 1 /\ H[Len(H)] = v /\ H \in Seq(BtmmView)
  BY Appended
<1>5. MoveOn(b, v) = Ahead(c, H)
  <2>1. MoveOn(b, v) = [b EXCEPT !.total = Len(h) + 1, !.prior = v.close]
    BY <1>2 DEF MoveOn, Shaped
  <2>2. Ahead(c, H) = [c EXCEPT !.total = Len(h) + 1, !.prior = v.close]
    BY <1>1, <1>4 DEF Ahead, FastForward
  <2>3. b = c \/ b = [c EXCEPT !.total = Len(h), !.prior = h[Len(h)].close]
    BY DEF Ahead, FastForward
  <2> DEFINE n == Len(h)
             x == h[n].close
  <2> HIDE DEF n, x, b, H
  <2> QED
    BY <1>1, <2>1, <2>2, <2>3 DEF Shaped, n, x
<1>6. Scans(AdvanceCursor(b, v, a), H, a)
  BY <1>1, AdvanceScans
<1> QED
  BY <1>1, <1>3, <1>4, <1>5, <1>6 DEF InStep

\* A setup no candle of the stream can form may be created at its end.
LEMMA CreateInStep ==
  ASSUME NEW a \in Int, NEW h \in Seq(BtmmView), h # << >>, TimeOf(Len(h) - 1) <= a
  PROVE  Scans(FastForward(CreateCursor, h[Len(h)], Len(h)), h, a)
<1> DEFINE n == Len(h)
           x == h[n].close
           c == FastForward(CreateCursor, h[n], n)
<1>1. n \in Nat /\ n # 0 /\ x \in Side
  <2>1. n \in Nat /\ n # 0 /\ h[n] \in BtmmView
    OBVIOUS
  <2> QED
    BY <2>1 DEF BtmmView
<1>2. c = [CreateCursor EXCEPT !.total = n, !.prior = x]
  BY <1>1 DEF FastForward, CreateCursor
<1>3. CreateCursor \in Shaped
  BY CreatedScans DEF Scans
<1>4. Formings(h, a) = {}
  <2>1. \A k \in 0 .. n - 1 : ~ (TimeOf(k) > a)
    BY <1>1 DEF TimeOf
  <2> QED
    BY <2>1 DEF Formings
<1> HIDE DEF n, x, c
<1>5. /\ c \in Shaped /\ c.total = n /\ c.prior = x
      /\ c.forming = None /\ c.interaction = None /\ c.class = "NONE" /\ c.start = None
      /\ c.window = << >> /\ c.close = None /\ c.tier = "NONE"
  <2>1. /\ CreateCursor.forming = None /\ CreateCursor.interaction = None
        /\ CreateCursor.class = "NONE" /\ CreateCursor.start = None
        /\ CreateCursor.window = << >> /\ CreateCursor.close = None
        /\ CreateCursor.tier = "NONE"
    BY DEF CreateCursor
  <2> HIDE DEF CreateCursor
  <2> QED
    BY <1>1, <1>2, <1>3, <2>1 DEF Shaped
<1>6. Touchings(h, None) = {} /\ Clears(h, None, "NONE") = {}
  BY DEF Touchings, Clears
<1>7. FormingFound(c, h, a)
  BY <1>4, <1>5 DEF FormingFound, IsFirst
<1>8. InteractionFound(c, h)
  BY <1>5, <1>6 DEF InteractionFound, IsFirst, InteractionClass
<1>9. StartFound(c, h)
  BY <1>5, <1>6 DEF StartFound, IsFirst
<1>10. WindowFound(c, h)
  BY <1>5 DEF WindowFound, WindowClose
<1> QED
  BY <1>5, <1>7, <1>8, <1>9, <1>10 DEF Scans, c, n, x

\* The first m candles of h.
First(h, m) == [k \in 1 .. m |-> h[k]]

LEMMA FirstGrows ==
  ASSUME NEW h \in Seq(BtmmView), NEW m \in Nat, m + 1 <= Len(h)
  PROVE  /\ First(h, m) \in Seq(BtmmView)
         /\ First(h, m + 1) = Append(First(h, m), h[m + 1])
<1> DEFINE f == First(h, m)
           g == First(h, m + 1)
<1>1. h[m + 1] \in BtmmView /\ \A k \in 1 .. m + 1 : h[k] \in BtmmView
  OBVIOUS
<1>2. /\ f \in Seq(BtmmView) /\ Len(f) = m
      /\ g \in Seq(BtmmView) /\ Len(g) = m + 1
      /\ \A k \in 1 .. m : f[k] = h[k]
      /\ \A k \in 1 .. m + 1 : g[k] = h[k]
  BY <1>1 DEF First
<1> HIDE DEF f, g
<1>3. /\ Append(f, h[m + 1]) \in Seq(BtmmView) /\ Len(Append(f, h[m + 1])) = m + 1
      /\ \A k \in 1 .. m : Append(f, h[m + 1])[k] = f[k]
      /\ Append(f, h[m + 1])[m + 1] = h[m + 1]
  BY <1>1, <1>2
<1>4. \A k \in 1 .. m + 1 : Append(f, h[m + 1])[k] = g[k]
  BY <1>2, <1>3
<1>5. Append(f, h[m + 1]) = g
  BY <1>2, <1>3, <1>4, SeqEqual
<1> QED
  BY <1>2, <1>5 DEF f, g

\* f holds the cursors of the first n candles of h, fed one after the other.
IsFed(f, h, a, n) ==
  f = [k \in 0 .. n |-> IF k = 0 THEN CreateCursor ELSE AdvanceCursor(f[k - 1], h[k], a)]

LEMMA FedExists ==
  ASSUME NEW h, NEW a, NEW n \in Nat
  PROVE  \E f : IsFed(f, h, a, n)
<1> DEFINE S == {m \in Nat : \E f : IsFed(f, h, a, m)}
<1>1. 0 \in S
  <2> DEFINE f == [k \in 0 .. 0 |-> CreateCursor]
  <2>1. IsFed(f, h, a, 0)
    BY DEF IsFed
  <2> QED
    BY <2>1
<1>2. ASSUME NEW m \in S PROVE m + 1 \in S
  <2>1. PICK f : IsFed(f, h, a, m)
    OBVIOUS
  <2> DEFINE g == [k \in 0 .. m + 1 |->
                     IF k = m + 1 THEN AdvanceCursor(f[m], h[m + 1], a) ELSE f[k]]
  <2>2. \A k \in 0 .. m + 1 :
          g[k] = IF k = 0 THEN CreateCursor ELSE AdvanceCursor(g[k - 1], h[k], a)
    <3> SUFFICES ASSUME NEW k \in 0 .. m + 1
                 PROVE  g[k] = IF k = 0 THEN CreateCursor ELSE AdvanceCursor(g[k - 1], h[k], a)
      OBVIOUS
    <3>1. CASE k = m + 1
      BY <3>1
    <3>2. CASE k \in 0 .. m
      <4>1. f[k] = IF k = 0 THEN CreateCursor ELSE AdvanceCursor(f[k - 1], h[k], a)
        BY <2>1, <3>2 DEF IsFed
      <4>2. g[k] = f[k] /\ (k # 0 => g[k - 1] = f[k - 1])
        BY <3>2
      <4> QED
        BY <4>1, <4>2
    <3> QED
      BY <3>1, <3>2
  <2>3. IsFed(g, h, a, m + 1)
    <3>1. g = [k \in 0 .. m + 1 |-> g[k]]
      OBVIOUS
    <3> QED
      BY <2>2, <3>1 DEF IsFed
  <2> QED
    BY <2>3
<1> HIDE DEF S
<1>3. S = Nat
  <2>1. S \in SUBSET Nat
    BY DEF S
  <2> QED
    BY <1>1, <1>2, <2>1, SetInduction
<1> QED
  BY <1>3 DEF S

\* A cursor fed the whole stream has found what it holds.
LEMMA FeedAllScans ==
  ASSUME NEW a \in Int, NEW h \in Seq(BtmmView)
  PROVE  Scans(FeedAll(h, a), h, a)
<1> DEFINE f == CHOOSE g : IsFed(g, h, a, Len(h))
<1>1. Len(h) \in Nat /\ h = First(h, Len(h)) /\ First(h, 0) = << >>
  BY DEF First
<1>2. IsFed(f, h, a, Len(h))
  BY <1>1, FedExists
<1>3. FeedAll(h, a) = f[Len(h)]
  BY DEF FeedAll, IsFed
<1> HIDE DEF f
<1> DEFINE S == {m \in Nat : m <= Len(h) => Scans(f[m], First(h, m), a)}
<1>4. 0 \in S
  <2>1. f[0] = CreateCursor
    BY <1>1, <1>2 DEF IsFed
  <2> QED
    BY <1>1, <2>1, CreatedScans
<1>5. ASSUME NEW m \in S PROVE m + 1 \in S
  <2> SUFFICES ASSUME m + 1 <= Len(h) PROVE Scans(f[m + 1], First(h, m + 1), a)
    OBVIOUS
  <2>1. f[m + 1] = AdvanceCursor(f[m], h[m + 1], a)
    BY <1>1, <1>2 DEF IsFed
  <2>2. m \in Nat /\ Scans(f[m], First(h, m), a)
    BY <1>1
  <2>3. h[m + 1] \in BtmmView
    BY <1>1, <2>2
  <2>4. First(h, m) \in Seq(BtmmView) /\ First(h, m + 1) = Append(First(h, m), h[m + 1])
    BY <2>2, FirstGrows
  <2> QED
    BY <2>1, <2>2, <2>3, <2>4, AdvanceScans
<1> HIDE DEF S
<1>6. S = Nat
  <2>1. S \in SUBSET Nat
    BY DEF S
  <2> QED
    BY <1>4, <1>5, <2>1, SetInduction
<1>7. Scans(f[Len(h)], First(h, Len(h)), a)
  BY <1>1, <1>6 DEF S
<1> QED
  BY <1>1, <1>3, <1>7

\* What one candle does to the finds: each scan finds at most the new candle.
LEMMA FindsOfAdvance ==
  ASSUME NEW a \in Int, NEW v \in BtmmView, NEW c \in Shaped
  PROVE  LET d == AdvanceCursor(c, v, a) IN
         /\ d.forming = c.forming \/ (c.forming = None /\ d.forming = c.total)
         /\ \/ d.interaction = c.interaction /\ d.class = c.class
            \/ c.interaction = None /\ d.interaction = c.total
         /\ \/ d.close = c.close /\ d.tier = c.tier
            \/ c.close = None /\ d.close = c.total
<1> DEFINE n == c.total
           c1 == EnterForming(c, a)
           c2 == Interact(c1, v)
           c3 == StartReaction(c2, v)
           c4 == FillWindow(c3, v)
           d == MoveOn(c4, v)
<1>0. n \in Nat /\ v.extreme \in Int /\ v.close \in Side
  BY DEF Shaped, BtmmView
<1>1. /\ \E f \in Nat \cup {None} : c1 = [c EXCEPT !.forming = f]
      /\ c1.forming = c.forming \/ (c.forming = None /\ c1.forming = n)
  <2>1. c = [c EXCEPT !.forming = c.forming]
    BY DEF Shaped
  <2> QED
    BY <1>0, <2>1 DEF EnterForming, Shaped
<1> HIDE DEF c1
<1>2. /\ c1 \in Shaped
      /\ c1.total = n /\ c1.interaction = c.interaction /\ c1.class = c.class
      /\ c1.close = c.close /\ c1.tier = c.tier
  BY <1>1 DEF Shaped
<1>3. /\ c2 \in Shaped
      /\ c2.total = n /\ c2.forming = c1.forming
      /\ c2.close = c.close /\ c2.tier = c.tier
      /\ \/ c2.interaction = c.interaction /\ c2.class = c.class
         \/ c.interaction = None /\ c2.interaction = n
  <2> DEFINE k == ClassOf(v.touch, IF n = 0 THEN v.open ELSE c1.prior)
  <2>1. k \in {"ELIGIBLE", "EXCESSIVE_OVERSHOOT", "NONCANONICAL_SIDE_INTERACTION"}
    BY DEF ClassOf
  <2>2. c2 = c1 \/ (c1.interaction = None /\ c2 = Interacted(c1, v, k))
    BY <1>2 DEF Interact
  <2> HIDE DEF k, c2
  <2>3. CASE c2 = c1
    BY <1>2, <2>3
  <2>4. CASE c1.interaction = None /\ c2 = Interacted(c1, v, k)
    <3> DEFINE x == IF k = "ELIGIBLE" THEN v.extreme ELSE c1.anchor
    <3>1. x \in Int /\ c1.total = n
      BY <1>0, <1>2 DEF Shaped
    <3>2. c2 = [c1 EXCEPT !.interaction = n, !.class = k, !.anchor = x]
      BY <2>4, <3>1 DEF Interacted
    <3> HIDE DEF x, n
    <3>3. /\ c2 \in Shaped
          /\ c2.total = c1.total /\ c2.forming = c1.forming
          /\ c2.close = c1.close /\ c2.tier = c1.tier /\ c2.interaction = n
      BY <1>0, <1>2, <2>1, <3>1, <3>2 DEF Shaped
    <3> QED
      BY <1>2, <2>4, <3>3 DEF n
  <2> QED
    BY <2>2, <2>3, <2>4
<1> HIDE DEF c2
<1>4. /\ c3 \in Shaped
      /\ c3.total = n /\ c3.forming = c2.forming
      /\ c3.interaction = c2.interaction /\ c3.class = c2.class
      /\ c3.close = c2.close /\ c3.tier = c2.tier
  <2>1. AtMost(c2.anchor, v.extreme) \in Int
    BY <1>0, <1>3 DEF AtMost, Shaped
  <2>2. \/ c3 = c2
        \/ \E s \in {n, None} :
             c3 = [c2 EXCEPT !.anchor = AtMost(c2.anchor, v.extreme), !.start = s]
    BY <1>3 DEF StartReaction
  <2> DEFINE x == AtMost(c2.anchor, v.extreme)
  <2> HIDE DEF c3, x
  <2> QED
    BY <1>0, <1>3, <2>1, <2>2 DEF Shaped, x
<1> HIDE DEF c3
<1>5. /\ c4.total = n /\ c4.forming = c3.forming
      /\ c4.interaction = c3.interaction /\ c4.class = c3.class
      /\ DOMAIN c4 = DOMAIN c3
      /\ \/ c4.close = c3.close /\ c4.tier = c3.tier
         \/ c3.close = None /\ c4.close = n
  <2> DEFINE w == Append(c3.window, v)
             t == EvaluateReaction(c3.anchor, w)
  <2>1. \/ c4 = c3
        \/ c3.close = None /\ c4 = [c3 EXCEPT !.window = w, !.close = n, !.tier = t]
        \/ c4 = [c3 EXCEPT !.window = w]
    BY <1>4 DEF FillWindow
  <2> HIDE DEF c4, w, t
  <2> QED
    BY <1>4, <2>1 DEF Shaped
<1> HIDE DEF c4
<1>6. /\ d.forming = c4.forming /\ d.interaction = c4.interaction /\ d.class = c4.class
      /\ d.close = c4.close /\ d.tier = c4.tier
  BY DEF MoveOn
<1>7. AdvanceCursor(c, v, a) = d
  BY DEF AdvanceCursor, c1, c2, c3, c4
<1> HIDE DEF d
<1>8. /\ d.forming = c1.forming /\ d.interaction = c2.interaction /\ d.class = c2.class
      /\ \/ d.close = c.close /\ d.tier = c.tier
         \/ c.close = None /\ d.close = n
  BY <1>3, <1>4, <1>5, <1>6
<1> QED
  BY <1>1, <1>3, <1>7, <1>8

\* A longer stream adds to what the scans find, at its last candle.
LEMMA ScanGrows ==
  ASSUME NEW a \in Int, NEW h \in Seq(BtmmView), NEW v \in BtmmView
  PROVE  /\ Precedes(Scan(h, a), Scan(Append(h, v), a), Len(h) - 1)
         /\ \/ Scan(Append(h, v), a).close = Scan(h, a).close
            \/ Scan(h, a).close = None /\ Scan(Append(h, v), a).close = Len(h)
<1> DEFINE n == Len(h)
           c == FeedAll(h, a)
           d == AdvanceCursor(c, v, a)
<1>1. Scans(c, h, a) /\ c \in Shaped /\ c.total = n /\ n \in Nat
  BY FeedAllScans DEF Scans
<1>2. Scans(d, Append(h, v), a) /\ Append(h, v) \in Seq(BtmmView)
  BY <1>1, AdvanceScans
<1>3. /\ d.forming = c.forming \/ (c.forming = None /\ d.forming = n)
      /\ \/ d.interaction = c.interaction /\ d.class = c.class
         \/ c.interaction = None /\ d.interaction = n
      /\ \/ d.close = c.close /\ d.tier = c.tier
         \/ c.close = None /\ d.close = n
  BY <1>1, FindsOfAdvance
<1>4. FoundBy(c) = Scan(h, a) /\ FoundBy(d) = Scan(Append(h, v), a)
  BY <1>1, <1>2, FoundIsScan DEF FoundBy
<1>5. /\ c.forming = None => c.interaction = None
      /\ c.interaction = None <=> c.class = "NONE"
      /\ c.class # "ELIGIBLE" => c.close = None
      /\ c.close = None => c.tier = "NONE"
  BY <1>1, FindsInOrder
<1>6. /\ d.forming = None => d.interaction = None
      /\ d.interaction = None <=> d.class = "NONE"
      /\ d.class # "ELIGIBLE" => d.close = None
      /\ d.close = None => d.tier = "NONE"
  BY <1>2, FindsInOrder
<1> HIDE DEF c, d
<1>7. n # None /\ n > n - 1
  BY <1>1 DEF None
<1>8. Precedes(FoundBy(c), FoundBy(d), n - 1)
  BY <1>3, <1>5, <1>6, <1>7 DEF Precedes, FoundBy, Found
<1>9. FoundBy(c).close = c.close /\ FoundBy(d).close = d.close
  BY DEF FoundBy, Found
<1> QED
  BY <1>3, <1>4, <1>8, <1>9

\* Additions add up.
LEMMA PrecedesGrows ==
  ASSUME NEW f, NEW g, NEW e, NEW k \in Nat, NEW m \in Int, k <= m,
         g.forming \in Int, g.interaction \in Int, g.close \in Int,
         e.forming \in Int, e.interaction \in Int, e.close \in Int,
         Precedes(f, g, k), Precedes(g, e, m)
  PROVE  Precedes(f, e, k)
BY DEF Precedes, Found, None

-----------------------------------------------------------------------------
(*****************************************************************************)
(* The invariant of the scheduler.                                           *)
(*****************************************************************************)
\* The cursor of a setup whose source POI was relayed as genuinely invalidated
\* at the candle at, None if it was not: in step, or stopped then.
CursorFits(c, h, a, at) ==
  IF at = None THEN InStep(c, h, a)
  ELSE /\ c \in Shaped /\ c.total <= Len(h)
       /\ at \in 0 .. Len(h) - 1
       /\ Precedes(FoundBy(c), Scan(h, a), at)

PriceStages == {"WAIT_FORMING", "WAIT_INTERACTION", "WAIT_REACTION_START", "REACTION_DUE"}

\* A setup is registered under a price stage if it waits for a candle, and
\* only then.
StageFits(stage, c, events_) ==
  /\ stage = "FROZEN" => events_ # << >>
  /\ IF GenuineAt(events_) = None /\ PriceStage(c) # "RESOLVED"
     THEN stage = PriceStage(c) ELSE stage \notin PriceStages

\* The first invalidation of a walk is relayed, and no other.
RelayFits(relayed, walk, known, n) ==
  IF relayed
  THEN /\ walk \in Seq([type : EventTypes, at : Nat]) /\ walk # << >>
       /\ known = <<walk[1]>> /\ walk[1].at \in 0 .. n - 1
  ELSE walk = << >> /\ known = << >>

\* Evidence is relayed with the next candle and never changes.
EvidenceFits(relayed, seen, known) ==
  /\ seen # NoEvidence => seen.time \in Int
  /\ IF relayed THEN seen # NoEvidence /\ known = seen ELSE known = NoEvidence

SetupFits(p) ==
  /\ specs[p] \in PoiSpecs
  /\ CursorFits(cursors[p], ViewsOf(candles, specs[p].zone), specs[p].available,
                GenuineAt(poiTransitions[p]))
  /\ regs[p].key = specs[p].available /\ regs[p].zone = specs[p].zone
  /\ StageFits(regs[p].stage, cursors[p], poiTransitions[p])
  /\ RelayFits(p \in relayedTransitions, walkEvents[p], poiTransitions[p], total)
  /\ EvidenceFits(p \in relayedEvidence, visible[p], reviewedEvidence[p])

DomainsFit ==
  /\ DOMAIN cursors = DOMAIN specs /\ DOMAIN regs = DOMAIN specs
  /\ DOMAIN walkEvents = DOMAIN specs /\ DOMAIN visible = DOMAIN specs
  /\ DOMAIN poiTransitions = DOMAIN specs /\ DOMAIN reviewedEvidence = DOMAIN specs
  /\ DOMAIN ledger = DOMAIN specs

\* The due registry of the registrations rs, for the candle n.
DueAt(n, rs) == {<<n, p>> : p \in {q \in DOMAIN rs : IsDue(rs[q].stage)}}

RegistriesFit ==
  /\ formingIndex = Forming(regs)
  /\ interactionIndex = Interacting(regs)
  /\ watch = Watching(regs)
  /\ due = DueAt(total, regs)

ReplayInv ==
  /\ candles \in Seq(Candles)
  /\ DOMAIN specs # {} => candles # << >>
  /\ DomainsFit
  /\ RegistriesFit
  /\ \A p \in DOMAIN specs : SetupFits(p)

LEMMA ViewsType ==
  ASSUME NEW h \in Seq(Candles), NEW s \in PoiSpecs
  PROVE  /\ s.available \in Int
         /\ ViewsOf(h, s.zone) \in Seq(BtmmView)
         /\ Len(ViewsOf(h, s.zone)) = Len(h) /\ Len(h) \in Nat
         /\ h # << >> => /\ ViewsOf(h, s.zone) # << >> /\ Len(h) > 0
                         /\ ViewsOf(h, s.zone)[Len(h)] = h[Len(h)][s.zone]
         /\ \A c \in Candles :
              /\ c[s.zone] \in BtmmView
              /\ Append(h, c) \in Seq(Candles) /\ Len(Append(h, c)) = Len(h) + 1
              /\ Append(h, c) # << >>
              /\ ViewsOf(Append(h, c), s.zone) = Append(ViewsOf(h, s.zone), c[s.zone])
<1> DEFINE f == ViewsOf(h, s.zone)
<1>1. s.available \in Int /\ \A c \in Candles : c[s.zone] \in BtmmView
  BY ReplayAssumption
<1>2. \A k \in 1 .. Len(h) : h[k][s.zone] \in BtmmView
  BY <1>1
<1>3. Len(h) \in Nat /\ f \in Seq(BtmmView) /\ Len(f) = Len(h)
      /\ \A k \in 1 .. Len(h) : f[k] = h[k][s.zone]
  BY <1>2 DEF ViewsOf
<1>4. h # << >> => Len(h) > 0
  OBVIOUS
<1>5. ASSUME NEW c \in Candles
      PROVE  /\ Append(h, c) \in Seq(Candles) /\ Len(Append(h, c)) = Len(h) + 1
             /\ Append(h, c) # << >>
             /\ ViewsOf(Append(h, c), s.zone) = Append(f, c[s.zone])
  <2> DEFINE H == Append(h, c)
             g == ViewsOf(H, s.zone)
  <2>1. H \in Seq(Candles) /\ Len(H) = Len(h) + 1 /\ H # << >>
        /\ H[Len(h) + 1] = c /\ \A k \in 1 .. Len(h) : H[k] = h[k]
    OBVIOUS
  <2>2. \A k \in 1 .. Len(H) : H[k][s.zone] \in BtmmView
    BY <1>1, <2>1
  <2> HIDE DEF H
  <2>3. g \in Seq(BtmmView) /\ Len(g) = Len(h) + 1
        /\ \A k \in 1 .. Len(h) + 1 : g[k] = H[k][s.zone]
    BY <1>3, <2>1, <2>2 DEF ViewsOf
  <2> HIDE DEF f, g
  <2>4. /\ Append(f, c[s.zone]) \in Seq(BtmmView) /\ Len(Append(f, c[s.zone])) = Len(h) + 1
        /\ \A k \in 1 .. Len(h) : Append(f, c[s.zone])[k] = f[k]
        /\ Append(f, c[s.zone])[Len(h) + 1] = c[s.zone]
    BY <1>1, <1>3
  <2>5. \A k \in 1 .. Len(h) + 1 : Append(f, c[s.zone])[k] = g[k]
    BY <1>3, <2>1, <2>3, <2>4
  <2>6. g = Append(f, c[s.zone])
    BY <1>3, <2>3, <2>4, <2>5, SeqEqual
  <2> QED
    BY <2>1, <2>6 DEF H, g
<1> HIDE DEF f
<1>6. h # << >> => f # << >> /\ f[Len(h)] = h[Len(h)][s.zone]
  BY <1>3, <1>4
<1> QED
  BY <1>1, <1>3, <1>4, <1>5, <1>6 DEF f

\* What the scans find lies in the stream.
LEMMA ScanType ==
  ASSUME NEW a \in Int, NEW h \in Seq(BtmmView)
  PROVE  /\ Scan(h, a).forming \in 0 .. Len(h) - 1 \cup {None}
         /\ Scan(h, a).interaction \in 0 .. Len(h) - 1 \cup {None}
         /\ Scan(h, a).close \in 0 .. Len(h) - 1 \cup {None}
<1> DEFINE c == FeedAll(h, a)
<1>1. Scans(c, h, a)
  BY FeedAllScans
<1>2. FoundBy(c) = Scan(h, a)
  BY <1>1, FoundIsScan DEF FoundBy
<1>3. /\ FoundBy(c).forming = c.forming /\ FoundBy(c).interaction = c.interaction
      /\ FoundBy(c).close = c.close
  BY DEF FoundBy, Found
<1> HIDE DEF c
<1> QED
  BY <1>1, <1>2, <1>3, FindsInOrder

\* An invalidation list of one.
LEMMA GenuineOfOne ==
  ASSUME NEW e, e.at \in Nat
  PROVE  /\ GenuineAt(<< >>) = None
         /\ GenuineAt(<<e>>) = IF e.type = "GENUINE_INVALIDATION_CONFIRMED" THEN e.at ELSE None
<1>1. GenuineAt(<< >>) = None
  BY DEF GenuineAt
<1> DEFINE w == <<e>>
           at == {w[k].at : k \in {i \in 1 .. Len(w) :
                    w[i].type = "GENUINE_INVALIDATION_CONFIRMED"}}
<1>2. Len(w) = 1 /\ w[1] = e /\ 1 .. Len(w) = {1}
  OBVIOUS
<1>3. GenuineAt(w) = IF at = {} THEN None ELSE CHOOSE i \in at : \A j \in at : i <= j
  BY DEF GenuineAt
<1> HIDE DEF w
<1>4. CASE e.type = "GENUINE_INVALIDATION_CONFIRMED"
  <2>1. at = {e.at}
    BY <1>2, <1>4
  <2>2. (CHOOSE i \in at : \A j \in at : i <= j) = e.at
    <3> DEFINE x == e.at
    <3> HIDE DEF x, at
    <3>1. x \in Nat /\ at = {x}
      BY <2>1 DEF x
    <3>2. \E i \in at : \A j \in at : i <= j
      BY <3>1
    <3>3. (CHOOSE i \in at : \A j \in at : i <= j) \in at
      BY <3>2
    <3> QED
      BY <3>1, <3>3 DEF x
  <2> QED
    BY <1>1, <1>3, <1>4, <2>1, <2>2 DEF w
<1>5. CASE e.type # "GENUINE_INVALIDATION_CONFIRMED"
  <2>1. at = {}
    BY <1>2, <1>5
  <2> QED
    BY <1>1, <1>3, <1>5, <2>1 DEF w
<1> QED
  BY <1>4, <1>5

-----------------------------------------------------------------------------
(*****************************************************************************)
(* A turn of the environment.                                                *)
(*****************************************************************************)
\* The walks and the evidence a turn of the environment starts from.
WalksNow(d)    == Over(walkEvents, DOMAIN Revised(specs, d), << >>)
EvidenceNow(d) == Over(visible, DOMAIN Revised(specs, d), NoEvidence)

\* A turn of the environment.
Turn(c, d, happened, seen) ==
  /\ c \in Candles /\ d \in Delta(DOMAIN specs) /\ Possible(d)
  /\ happened \in Happenings(DOMAIN WalksNow(d))
  /\ \A p \in DOMAIN happened : MayHappen(happened[p], WalksNow(d)[p])
  /\ seen \in Sightings(EvidenceNow(d), Revised(specs, d), TimeOf(total))

\* The present POIs after it.
LEMMA TurnSpecs ==
  ASSUME ReplayInv, NEW c, NEW d, NEW happened, NEW seen, Turn(c, d, happened, seen)
  PROVE  LET next == Revised(specs, d)
             kept == Kept(DOMAIN specs, d)
         IN
         /\ c \in Candles
         /\ DOMAIN next = kept \cup DOMAIN d.given
         /\ kept = (DOMAIN specs \ d.removed) \ DOMAIN d.given
         /\ d.removed \cap DOMAIN d.given = {}
         /\ \A p \in DOMAIN next : next[p] \in PoiSpecs
         /\ \A p \in kept : next[p] = specs[p]
         /\ \A p \in DOMAIN d.given : next[p] = d.given[p]
         /\ \A p \in DOMAIN d.given \ DOMAIN specs : p \notin relayedTransitions \cup relayedEvidence
         /\ \A p \in DOMAIN d.given \cap DOMAIN specs : p \notin relayedTransitions
<1> DEFINE next == Revised(specs, d)
           kept == Kept(DOMAIN specs, d)
<1>1. c \in Candles /\ d \in Delta(DOMAIN specs) /\ Possible(d)
  BY DEF Turn
<1>2. kept = (DOMAIN specs \ d.removed) \ DOMAIN d.given
  BY DEF Kept
<1>3. /\ DOMAIN next = kept \cup DOMAIN d.given
      /\ \A p \in DOMAIN next : next[p] = IF p \in kept THEN specs[p] ELSE d.given[p]
  BY DEF Revised
<1>4. /\ d.removed \cap DOMAIN d.given = {}
      /\ d.given \in UNION {[ids -> PoiSpecs] : ids \in SUBSET Poi}
  BY <1>1 DEF Delta
<1>5. PICK ids \in SUBSET Poi : d.given \in [ids -> PoiSpecs]
  BY <1>4
<1>6. \A p \in DOMAIN d.given : d.given[p] \in PoiSpecs
  BY <1>5
<1> HIDE DEF next, kept
<1>7. \A p \in kept : next[p] = specs[p] /\ specs[p] \in PoiSpecs
  BY <1>2, <1>3 DEF ReplayInv, SetupFits
<1>8. \A p \in DOMAIN d.given : next[p] = d.given[p]
  BY <1>2, <1>3
<1>9. \A p \in DOMAIN d.given \ DOMAIN specs : p \notin relayedTransitions \cup relayedEvidence
  BY <1>1 DEF Possible
<1>10. ASSUME NEW p \in DOMAIN d.given \cap DOMAIN specs PROVE p \notin relayedTransitions
  <2>1. walkEvents[p] = << >>
    BY <1>1 DEF Possible
  <2>2. RelayFits(p \in relayedTransitions, walkEvents[p], poiTransitions[p], total)
    BY DEF ReplayInv, SetupFits
  <2> QED
    BY <2>1, <2>2 DEF RelayFits
<1> QED
  BY <1>1, <1>2, <1>3, <1>4, <1>6, <1>7, <1>8, <1>9, <1>10 DEF next, kept

\* What happens in it: at most one invalidation, of a walk that has not ended.
LEMMA TurnHappens ==
  ASSUME NEW c, NEW d, NEW happened, NEW seen, Turn(c, d, happened, seen)
  PROVE  /\ DOMAIN happened \subseteq DOMAIN Revised(specs, d)
         /\ \A p \in DOMAIN happened :
              /\ happened[p] \in EventTypes
              /\ WalksNow(d)[p] = << >> \/ "second events" \in Allow
<1> DEFINE walks == WalksNow(d)
           next == Revised(specs, d)
<1>1. DOMAIN walks = DOMAIN next
  BY DEF WalksNow, Over
<1>2. happened \in Happenings(DOMAIN walks)
  BY DEF Turn
<1>3. DOMAIN happened \subseteq DOMAIN walks
  <2>1. CASE happened = << >>
    BY <2>1
  <2>2. CASE happened # << >>
    <3>1. \E p \in DOMAIN walks, type \in EventTypes : happened = Invalidated(p, type)
      BY <1>2, <2>2 DEF Happenings
    <3> QED
      BY <3>1 DEF Invalidated
  <2> QED
    BY <2>1, <2>2
<1>4. \A p \in DOMAIN happened : MayHappen(happened[p], walks[p])
  BY DEF Turn
<1> QED
  BY <1>1, <1>3, <1>4 DEF MayHappen

\* The walks after it, and what is relayed of them.
LEMMA TurnWalks ==
  ASSUME ReplayInv, NEW c, NEW d, NEW happened, NEW seen, Turn(c, d, happened, seen)
  PROVE  LET walked == Walk(WalksNow(d), happened)
             known == TransitionsAfter(d, happened, walked)
         IN
         /\ DOMAIN walked = DOMAIN Revised(specs, d)
         /\ DOMAIN known = DOMAIN Revised(specs, d)
         /\ \A p \in DOMAIN Revised(specs, d) :
              /\ RelayFits(p \in relayedTransitions \cup DOMAIN happened, walked[p], known[p], total + 1)
              /\ p \in relayedTransitions => p \in DOMAIN specs /\ known[p] = poiTransitions[p]
              /\ p \notin RelayNow(happened) /\ p \in DOMAIN specs => known[p] = poiTransitions[p]
              /\ p \notin relayedTransitions => GenuineAt(known[p]) \in {None, total}
              /\ p \notin DOMAIN happened /\ p \in DOMAIN specs => walked[p] = walkEvents[p]
<1> DEFINE next == Revised(specs, d)
           walks == WalksNow(d)
           walked == Walk(walks, happened)
           known == TransitionsAfter(d, happened, walked)
<1>1. /\ DOMAIN walks = DOMAIN next
      /\ \A p \in DOMAIN next : walks[p] = IF p \in DOMAIN walkEvents THEN walkEvents[p] ELSE << >>
  BY DEF WalksNow, Over
<1>2. /\ DOMAIN walked = DOMAIN next
      /\ \A p \in DOMAIN next :
           walked[p] = IF p \in DOMAIN happened
                       THEN Append(walks[p], [type |-> happened[p], at |-> total]) ELSE walks[p]
  BY <1>1 DEF Walk
<1> HIDE DEF walks, walked
<1>3. /\ DOMAIN known = DOMAIN next
      /\ \A p \in DOMAIN next :
           known[p] = LET old == IF p \in DOMAIN poiTransitions /\ p \notin d.removed
                                 THEN poiTransitions[p] ELSE << >>
                      IN  IF p \in RelayNow(happened) THEN Append(old, walked[p][1]) ELSE old
  BY <1>2 DEF TransitionsAfter
<1> HIDE DEF known
<1>4. total \in Nat
  BY DEF ReplayInv, total
<1>5. DomainsFit
  BY DEF ReplayInv
<1>6. /\ DOMAIN happened \subseteq DOMAIN next
      /\ \A p \in DOMAIN happened : happened[p] \in EventTypes
  BY TurnHappens
<1>7. ASSUME NEW p \in DOMAIN next
      PROVE  /\ RelayFits(p \in relayedTransitions \cup DOMAIN happened, walked[p], known[p], total + 1)
             /\ p \in relayedTransitions => p \in DOMAIN specs /\ known[p] = poiTransitions[p]
             /\ p \notin RelayNow(happened) /\ p \in DOMAIN specs => known[p] = poiTransitions[p]
             /\ p \notin relayedTransitions => GenuineAt(known[p]) \in {None, total}
             /\ p \notin DOMAIN happened /\ p \in DOMAIN specs => walked[p] = walkEvents[p]
  <2> DEFINE e == [type |-> happened[p], at |-> total]
             E == [type : EventTypes, at : Nat]
  <2>1. p \notin d.removed /\ (p \in relayedTransitions => p \in DOMAIN specs)
    <3>1. /\ DOMAIN next = ((DOMAIN specs \ d.removed) \ DOMAIN d.given) \cup DOMAIN d.given
          /\ d.removed \cap DOMAIN d.given = {}
          /\ \A q \in DOMAIN d.given \ DOMAIN specs : q \notin relayedTransitions \cup relayedEvidence
      BY TurnSpecs
    <3> QED
      BY <3>1
  <2>2. p \in DOMAIN specs =>
          RelayFits(p \in relayedTransitions, walkEvents[p], poiTransitions[p], total)
    BY DEF ReplayInv, SetupFits
  <2>3. p \in DOMAIN happened => e \in E /\ e.at = total
    BY <1>4, <1>6
  <2> DEFINE old == IF p \in DOMAIN specs THEN poiTransitions[p] ELSE << >>
             was == IF p \in DOMAIN specs THEN walkEvents[p] ELSE << >>
  <2>4. known[p] = IF p \in DOMAIN happened \ relayedTransitions THEN Append(old, walked[p][1]) ELSE old
    BY <1>3, <1>5, <2>1 DEF RelayNow, DomainsFit
  <2>5. walked[p] = IF p \in DOMAIN happened THEN Append(was, e) ELSE was
    BY <1>1, <1>2, <1>5 DEF DomainsFit
  <2>6. RelayFits(p \in relayedTransitions, was, old, total)
    BY <2>1, <2>2 DEF RelayFits
  <2>7. p \in DOMAIN specs => old = poiTransitions[p] /\ was = walkEvents[p]
    OBVIOUS
  <2> HIDE DEF e, old, was
  <2>8. CASE p \in relayedTransitions
    <3>1. was \in Seq(E) /\ was # << >> /\ old = <<was[1]>> /\ was[1].at \in 0 .. total - 1
      BY <2>6, <2>8 DEF RelayFits
    <3>2. known[p] = old
      BY <2>4, <2>8
    <3>3. walked[p] \in Seq(E) /\ walked[p] # << >> /\ walked[p][1] = was[1]
      <4>1. CASE p \in DOMAIN happened
        BY <2>3, <2>5, <3>1, <4>1
      <4>2. CASE p \notin DOMAIN happened
        BY <2>5, <3>1, <4>2
      <4> QED
        BY <4>1, <4>2
    <3>4. RelayFits(p \in relayedTransitions \cup DOMAIN happened, walked[p], known[p], total + 1)
      BY <1>4, <2>8, <3>1, <3>2, <3>3 DEF RelayFits
    <3> QED
      BY <2>1, <2>5, <2>7, <2>8, <3>2, <3>4
  <2>9. CASE p \notin relayedTransitions /\ p \in DOMAIN happened
    <3>1. was = << >> /\ old = << >>
      BY <2>6, <2>9 DEF RelayFits
    <3>2. walked[p] = <<e>> /\ known[p] = <<e>>
      BY <2>4, <2>5, <2>9, <3>1
    <3>3. walked[p] \in Seq(E) /\ walked[p] # << >> /\ walked[p][1] = e
      BY <2>3, <2>9, <3>2
    <3>4. RelayFits(p \in relayedTransitions \cup DOMAIN happened, walked[p], known[p], total + 1)
      BY <1>4, <2>3, <2>9, <3>2, <3>3 DEF RelayFits
    <3>5. GenuineAt(known[p]) \in {None, total}
      <4>1. e.at \in Nat
        BY <1>4, <2>3, <2>9
      <4> QED
        BY <2>3, <2>9, <3>2, <4>1, GenuineOfOne
    <3> QED
      BY <2>9, <3>4, <3>5 DEF RelayNow
  <2>10. CASE p \notin relayedTransitions /\ p \notin DOMAIN happened
    <3>1. was = << >> /\ old = << >>
      BY <2>6, <2>10 DEF RelayFits
    <3>2. walked[p] = << >> /\ known[p] = << >>
      BY <2>4, <2>5, <2>10, <3>1
    <3>3. GenuineAt(known[p]) = None
      BY <3>2 DEF GenuineAt
    <3>4. RelayFits(p \in relayedTransitions \cup DOMAIN happened, walked[p], known[p], total + 1)
      BY <2>10, <3>2 DEF RelayFits
    <3> QED
      BY <2>7, <2>10, <3>1, <3>2, <3>3, <3>4
  <2> QED
    BY <2>8, <2>9, <2>10
<1> QED
  BY <1>2, <1>3, <1>7 DEF walked, known, walks

\* Evidence that becomes visible: one review, where there was none.
LEMMA Sighted ==
  ASSUME NEW before, NEW next, DOMAIN before = DOMAIN next, NEW now \in Int,
         NEW seen \in Sightings(before, next, now)
  PROVE  /\ DOMAIN seen = DOMAIN next
         /\ \A p \in DOMAIN next :
              \/ seen[p] = before[p]
              \/ /\ before[p] = NoEvidence /\ MayBeReviewed(p, next[p], before, now)
                 /\ \E r \in Reviews, t \in Int : t <= now /\ seen[p] = Review(r, t)
                 /\ seen[p].time \in Int /\ seen[p].time <= now
<1> DEFINE S == {q \in DOMAIN next : MayBeReviewed(q, next[q], before, now)}
           Then(p, r, early) == [before EXCEPT ![p] = Review(r, now - early)]
<1>1. seen \in {before} \cup {Then(p, r, early) : p \in S, r \in Reviews, early \in {0, 1}}
  BY DEF Sightings
<1>2. \A p \in S : p \in DOMAIN next /\ before[p] = NoEvidence /\ MayBeReviewed(p, next[p], before, now)
  BY DEF MayBeReviewed
<1> HIDE DEF S, Then
<1>3. \/ seen = before
      \/ \E p \in S, r \in Reviews, early \in {0, 1} : seen = Then(p, r, early)
  BY <1>1
<1>4. CASE seen = before
  BY <1>4
<1>5. CASE seen # before
  <2>1. PICK p \in S, r \in Reviews, early \in {0, 1} : seen = Then(p, r, early)
    BY <1>3, <1>5
  <2> DEFINE t == now - early
             u == Review(r, t)
  <2>2. t \in Int /\ t <= now /\ u.time = t
    BY DEF Review
  <2>3. seen = [before EXCEPT ![p] = u]
    BY <2>1 DEF Then
  <2>4. \E q \in Reviews, s \in Int : s <= now /\ u = Review(q, s)
    BY <2>2
  <2> HIDE DEF t, u
  <2>5. DOMAIN seen = DOMAIN next /\ seen[p] = u /\ \A q \in DOMAIN next \ {p} : seen[q] = before[q]
    BY <1>2, <2>3
  <2> QED
    BY <1>2, <2>2, <2>4, <2>5
<1> QED
  BY <1>4, <1>5

\* The evidence after it, and what is relayed of it.
LEMMA TurnEvidence ==
  ASSUME ReplayInv, NEW c, NEW d, NEW happened, NEW seen, Turn(c, d, happened, seen)
  PROVE  /\ DOMAIN seen = DOMAIN Revised(specs, d)
         /\ DOMAIN EvidenceAfter(d, seen) = DOMAIN Revised(specs, d)
         /\ \A p \in DOMAIN Revised(specs, d) :
              /\ EvidenceFits(p \in relayedEvidence \cup ReviewNow(seen), seen[p],
                              EvidenceAfter(d, seen)[p])
              /\ EvidenceAfter(d, seen)[p] = seen[p]
              /\ p \in DOMAIN specs /\ p \notin ReviewNow(seen) =>
                   EvidenceAfter(d, seen)[p] = reviewedEvidence[p] /\ seen[p] = visible[p]
              /\ p \in DOMAIN specs /\ seen[p] # visible[p] => p \in ReviewNow(seen)
<1> DEFINE next == Revised(specs, d)
           before == EvidenceNow(d)
           after == EvidenceAfter(d, seen)
<1>1. /\ DOMAIN before = DOMAIN next
      /\ \A p \in DOMAIN next : before[p] = IF p \in DOMAIN visible THEN visible[p] ELSE NoEvidence
  BY DEF EvidenceNow, Over
<1> HIDE DEF before
<1>2. seen \in Sightings(before, next, TimeOf(total))
  BY DEF Turn, before
<1>3. total \in Nat /\ TimeOf(total) \in Int
  BY DEF ReplayInv, total, TimeOf
<1>5. /\ DOMAIN seen = DOMAIN next
      /\ \A p \in DOMAIN next :
           \/ seen[p] = before[p]
           \/ before[p] = NoEvidence /\ seen[p].time \in Int
  BY <1>1, <1>2, <1>3, Sighted
<1>6. /\ DOMAIN after = DOMAIN next
      /\ \A p \in DOMAIN next :
           after[p] = IF p \in ReviewNow(seen) THEN seen[p]
                      ELSE IF p \in DOMAIN reviewedEvidence THEN reviewedEvidence[p] ELSE NoEvidence
  BY <1>5 DEF EvidenceAfter
<1> HIDE DEF after
<1>7. DomainsFit
  BY DEF ReplayInv
<1>8. ASSUME NEW p \in DOMAIN next
      PROVE  /\ EvidenceFits(p \in relayedEvidence \cup ReviewNow(seen), seen[p], after[p])
             /\ after[p] = seen[p]
             /\ p \in DOMAIN specs /\ p \notin ReviewNow(seen) =>
                  after[p] = reviewedEvidence[p] /\ seen[p] = visible[p]
             /\ p \in DOMAIN specs /\ seen[p] # visible[p] => p \in ReviewNow(seen)
  <2> DEFINE old == IF p \in DOMAIN specs THEN reviewedEvidence[p] ELSE NoEvidence
             was == IF p \in DOMAIN specs THEN visible[p] ELSE NoEvidence
  <2>1. p \in DOMAIN specs =>
          EvidenceFits(p \in relayedEvidence, visible[p], reviewedEvidence[p])
    BY DEF ReplayInv, SetupFits
  <2>2. p \in relayedEvidence => p \in DOMAIN specs
    <3>1. /\ DOMAIN next = ((DOMAIN specs \ d.removed) \ DOMAIN d.given) \cup DOMAIN d.given
          /\ \A q \in DOMAIN d.given \ DOMAIN specs : q \notin relayedTransitions \cup relayedEvidence
      BY TurnSpecs
    <3> QED
      BY <3>1
  <2>3. EvidenceFits(p \in relayedEvidence, was, old)
    BY <2>1, <2>2 DEF EvidenceFits
  <2>4. before[p] = was
    BY <1>1, <1>7 DEF DomainsFit
  <2>5. after[p] = IF p \in ReviewNow(seen) THEN seen[p] ELSE old
    BY <1>6, <1>7 DEF DomainsFit
  <2>6. p \in DOMAIN specs => old = reviewedEvidence[p] /\ was = visible[p]
    OBVIOUS
  <2>7. p \in ReviewNow(seen) <=> seen[p] # NoEvidence /\ p \notin relayedEvidence
    BY <1>5 DEF ReviewNow
  <2>8. seen[p] = was \/ (was = NoEvidence /\ seen[p].time \in Int)
    BY <1>5, <2>4
  <2> HIDE DEF old, was
  <2>9. EvidenceFits(p \in relayedEvidence \cup ReviewNow(seen), seen[p], after[p])
    BY <2>3, <2>5, <2>7, <2>8 DEF EvidenceFits
  <2>10. after[p] = seen[p]
    BY <2>9, <2>7 DEF EvidenceFits
  <2>11. p \notin ReviewNow(seen) => after[p] = old /\ seen[p] = was
    BY <2>3, <2>5, <2>7, <2>8 DEF EvidenceFits
  <2> QED
    BY <2>6, <2>9, <2>10, <2>11
<1> QED
  BY <1>5, <1>6, <1>8 DEF after

-----------------------------------------------------------------------------
(*****************************************************************************)
(* The cursors and the registries after a turn.                              *)
(*****************************************************************************)
\* What the indexes say of a setup.
LEMMA Registered ==
  ASSUME ReplayInv, NEW p \in DOMAIN specs
  PROVE  /\ \A e \in formingIndex : e[2] = p => regs[p].stage = "WAIT_FORMING"
         /\ \A e \in interactionIndex : e[2] = p => regs[p].stage = "WAIT_INTERACTION"
         /\ regs[p].stage = "WAIT_FORMING" => <<specs[p].available, p>> \in formingIndex
         /\ regs[p].stage = "WAIT_INTERACTION" => <<specs[p].zone, p>> \in interactionIndex
         /\ <<total, p>> \in due <=> IsDue(regs[p].stage)
         /\ p \in watch <=> regs[p].stage # "FROZEN"
<1>1. RegistriesFit /\ DOMAIN regs = DOMAIN specs
  BY DEF ReplayInv, DomainsFit
<1>2. regs[p].key = specs[p].available /\ regs[p].zone = specs[p].zone
  BY DEF ReplayInv, SetupFits
<1>3. \A e \in formingIndex : e[2] = p => regs[p].stage = "WAIT_FORMING"
  BY <1>1 DEF RegistriesFit, Forming
<1>4. \A e \in interactionIndex : e[2] = p => regs[p].stage = "WAIT_INTERACTION"
  BY <1>1 DEF RegistriesFit, Interacting
<1>5. regs[p].stage = "WAIT_FORMING" => <<specs[p].available, p>> \in formingIndex
  BY <1>1, <1>2 DEF RegistriesFit, Forming
<1>6. regs[p].stage = "WAIT_INTERACTION" => <<specs[p].zone, p>> \in interactionIndex
  BY <1>1, <1>2 DEF RegistriesFit, Interacting
<1>7. <<total, p>> \in due <=> IsDue(regs[p].stage)
  BY <1>1 DEF RegistriesFit, DueAt
<1>8. p \in watch <=> regs[p].stage # "FROZEN"
  BY <1>1 DEF RegistriesFit, Watching, Watches
<1> QED
  BY <1>3, <1>4, <1>5, <1>6, <1>7, <1>8

\* A setup in step stays in step, woken or not.
LEMMA KeptInStep ==
  ASSUME ReplayInv, NEW c \in Candles, NEW kept, NEW p \in kept, p \in DOMAIN specs,
         GenuineAt(poiTransitions[p]) = None
  PROVE  LET H == ViewsOf(Append(candles, c), specs[p].zone) IN
         /\ p \in PriceWake(c, kept) => InStep(WakeUp(p, c), H, specs[p].available)
         /\ p \notin PriceWake(c, kept) => InStep(cursors[p], H, specs[p].available)
<1> DEFINE z == specs[p].zone
           a == specs[p].available
           h == ViewsOf(candles, z)
           H == ViewsOf(Append(candles, c), z)
           v == c[z]
           x == cursors[p]
<1>1. specs[p] \in PoiSpecs /\ candles \in Seq(Candles) /\ candles # << >>
  BY DEF ReplayInv, SetupFits
<1>2. /\ a \in Int /\ h \in Seq(BtmmView) /\ Len(h) = total /\ total \in Nat
      /\ h # << >> /\ h[total] = candles[total][z]
      /\ v \in BtmmView /\ H = Append(h, v)
  BY <1>1, ViewsType DEF total
<1>3. InStep(x, h, a)
  BY DEF ReplayInv, SetupFits, CursorFits
<1>4. Ahead(x, h) = FastForward(x, candles[total][z], total)
  BY <1>2 DEF Ahead
<1> HIDE DEF z, h, H, v, x
<1>5. InStep(WakeUp(p, c), H, a)
  <2>1. WakeUp(p, c) = AdvanceCursor(Ahead(x, h), v, a)
    BY <1>4 DEF WakeUp, z, v, x
  <2>2. InStep(AdvanceCursor(Ahead(x, h), v, a), Append(h, v), a)
    BY <1>2, <1>3, WakeInStep
  <2> QED
    BY <1>2, <2>1, <2>2
<1>6. ASSUME p \notin PriceWake(c, kept) PROVE InStep(x, H, a)
  <2>1. StageFits(regs[p].stage, x, poiTransitions[p])
    BY DEF ReplayInv, SetupFits, x
  <2>2. PriceStage(x) # "RESOLVED" => regs[p].stage = PriceStage(x)
    BY <2>1 DEF StageFits
  <2>3. /\ \A e \in formingIndex : e[2] = p => ~ (e[1] <= TimeOf(total))
        /\ \A e \in interactionIndex : e[2] = p => ~ (c[e[1]].touch # "none")
        /\ <<total, p>> \notin due
    BY <1>6 DEF PriceWake
  <2>4. /\ x.forming = None => x.interaction = None
        /\ x.interaction = None <=> x.class = "NONE"
        /\ x.class # "ELIGIBLE" => x.start = None
        /\ x.start = None => x.close = None
    <3>1. Scans(Ahead(x, h), h, a) /\ x \in Shaped
      BY <1>3 DEF InStep
    <3>2. /\ Ahead(x, h).forming = x.forming /\ Ahead(x, h).interaction = x.interaction
          /\ Ahead(x, h).class = x.class /\ Ahead(x, h).start = x.start
          /\ Ahead(x, h).close = x.close
      BY <1>2, <3>1, AheadFields
    <3>3. /\ Ahead(x, h).forming = None => Ahead(x, h).interaction = None
          /\ Ahead(x, h).interaction = None <=> Ahead(x, h).class = "NONE"
          /\ Ahead(x, h).class # "ELIGIBLE" => Ahead(x, h).start = None
          /\ Ahead(x, h).start = None => Ahead(x, h).close = None
      BY <1>2, <3>1, FindsInOrder
    <3> QED
      BY <3>2, <3>3
  <2>5. /\ regs[p].stage = "WAIT_FORMING" => <<a, p>> \in formingIndex
        /\ regs[p].stage = "WAIT_INTERACTION" => <<z, p>> \in interactionIndex
        /\ <<total, p>> \in due <=> IsDue(regs[p].stage)
    BY Registered DEF z
  <2>6. x.forming = None => TimeOf(total) <= a
    <3> SUFFICES ASSUME x.forming = None PROVE TimeOf(total) <= a
      OBVIOUS
    <3>1. regs[p].stage = "WAIT_FORMING"
      BY <2>2 DEF PriceStage
    <3>2. ~ (a <= TimeOf(total))
      BY <2>3, <2>5, <3>1
    <3>3. TimeOf(total) \in Int
      BY <1>2 DEF TimeOf
    <3> QED
      BY <1>2, <3>2, <3>3
  <2>7. x.forming # None /\ x.interaction = None => v.touch = "none"
    <3> SUFFICES ASSUME x.forming # None, x.interaction = None PROVE v.touch = "none"
      OBVIOUS
    <3>1. regs[p].stage = "WAIT_INTERACTION"
      BY <2>2 DEF PriceStage
    <3>2. <<z, p>> \in interactionIndex
      BY <2>5, <3>1
    <3> QED
      BY <2>3, <3>2 DEF v
  <2>8. Dormant(x)
    <3> SUFFICES ASSUME x.interaction # None, x.class = "ELIGIBLE", x.close = None PROVE FALSE
      BY DEF Dormant
    <3>1. PriceStage(x) \in {"WAIT_REACTION_START", "REACTION_DUE"}
      BY <2>4 DEF PriceStage
    <3>2. IsDue(regs[p].stage)
      BY <2>2, <3>1 DEF IsDue
    <3> QED
      BY <2>3, <2>5, <3>2
  <2>9. InStep(x, Append(h, v), a)
    BY <1>2, <1>3, <2>6, <2>7, <2>8, SkipInStep
  <2> QED
    BY <1>2, <2>9
<1> QED
  BY <1>5, <1>6 DEF z, H, x

\* A setup whose source POI was relayed as genuinely invalidated stands still.
LEMMA KeptRejected ==
  ASSUME ReplayInv, NEW c \in Candles, NEW kept, NEW p \in kept, p \in DOMAIN specs,
         GenuineAt(poiTransitions[p]) # None
  PROVE  /\ p \notin PriceWake(c, kept)
         /\ CursorFits(cursors[p], ViewsOf(Append(candles, c), specs[p].zone),
                       specs[p].available, GenuineAt(poiTransitions[p]))
<1> DEFINE z == specs[p].zone
           a == specs[p].available
           h == ViewsOf(candles, z)
           H == ViewsOf(Append(candles, c), z)
           at == GenuineAt(poiTransitions[p])
<1>1. specs[p] \in PoiSpecs /\ candles \in Seq(Candles)
  BY DEF ReplayInv, SetupFits
<1>2. /\ a \in Int /\ h \in Seq(BtmmView) /\ Len(h) \in Nat
      /\ c[z] \in BtmmView /\ H = Append(h, c[z])
  BY <1>1, ViewsType
<1>3. regs[p].stage \notin PriceStages
  <2>1. StageFits(regs[p].stage, cursors[p], poiTransitions[p])
    BY DEF ReplayInv, SetupFits
  <2> QED
    BY <2>1 DEF StageFits
<1>4. p \notin PriceWake(c, kept)
  <2>1. /\ regs[p].stage # "WAIT_FORMING" /\ regs[p].stage # "WAIT_INTERACTION"
        /\ ~ IsDue(regs[p].stage)
    BY <1>3 DEF PriceStages, IsDue
  <2>2. /\ \A e \in formingIndex : e[2] # p
        /\ \A e \in interactionIndex : e[2] # p
        /\ <<total, p>> \notin due
    BY <2>1, Registered
  <2> QED
    BY <2>2 DEF PriceWake
<1>5. /\ cursors[p] \in Shaped /\ cursors[p].total <= Len(h)
      /\ at \in 0 .. Len(h) - 1 /\ Precedes(FoundBy(cursors[p]), Scan(h, a), at)
  BY DEF ReplayInv, SetupFits, CursorFits
<1> HIDE DEF z, h, H, at
<1>6. cursors[p].total <= Len(H) /\ at \in 0 .. Len(H) - 1
  <2>1. Len(H) = Len(h) + 1 /\ cursors[p].total \in Nat
    BY <1>2, <1>5, Appended DEF Shaped
  <2> QED
    BY <1>2, <1>5, <2>1
<1>7. Precedes(FoundBy(cursors[p]), Scan(H, a), at)
  <2>1. H \in Seq(BtmmView)
    BY <1>2
  <2>2. Precedes(Scan(h, a), Scan(H, a), Len(h) - 1)
    BY <1>2, ScanGrows
  <2>3. /\ Scan(h, a).forming \in Int /\ Scan(h, a).interaction \in Int /\ Scan(h, a).close \in Int
        /\ Scan(H, a).forming \in Int /\ Scan(H, a).interaction \in Int /\ Scan(H, a).close \in Int
    <3>1. /\ Scan(h, a).forming \in 0 .. Len(h) - 1 \cup {None}
          /\ Scan(h, a).interaction \in 0 .. Len(h) - 1 \cup {None}
          /\ Scan(h, a).close \in 0 .. Len(h) - 1 \cup {None}
      BY <1>2, ScanType
    <3>2. /\ Scan(H, a).forming \in 0 .. Len(H) - 1 \cup {None}
          /\ Scan(H, a).interaction \in 0 .. Len(H) - 1 \cup {None}
          /\ Scan(H, a).close \in 0 .. Len(H) - 1 \cup {None}
      BY <1>2, <2>1, ScanType
    <3> QED
      BY <3>1, <3>2 DEF None
  <2>4. at \in Nat /\ Len(h) - 1 \in Int /\ at <= Len(h) - 1
    BY <1>2, <1>5
  <2> QED
    BY <1>5, <2>2, <2>3, <2>4, PrecedesGrows
<1>8. CursorFits(cursors[p], H, a, at)
  <2>1. at # None
    BY DEF at
  <2> QED
    BY <1>5, <1>6, <1>7, <2>1 DEF CursorFits
<1> QED
  BY <1>4, <1>8 DEF z, H, at

\* A setup built from the stream is in step with it.
LEMMA BuiltInStep ==
  ASSUME ReplayInv, NEW c \in Candles, NEW p, NEW s \in PoiSpecs
  PROVE  InStep(Build(p, s, c), ViewsOf(Append(candles, c), s.zone), s.available)
<1> DEFINE H == ViewsOf(Append(candles, c), s.zone)
           n == total + 1
<1>1. /\ s.available \in Int /\ total \in Nat /\ c[s.zone] \in BtmmView
      /\ H \in Seq(BtmmView) /\ Len(H) = n /\ H # << >> /\ H[n] = c[s.zone]
  <2>1. candles \in Seq(Candles)
    BY DEF ReplayInv
  <2>2. Append(candles, c) \in Seq(Candles) /\ Len(Append(candles, c)) = n /\ total \in Nat
    BY <2>1, ViewsType DEF total
  <2>3. Append(candles, c) # << >> /\ Append(candles, c)[n] = c
    BY <2>1 DEF total
  <2> HIDE DEF n
  <2>4. /\ s.available \in Int /\ c[s.zone] \in BtmmView
        /\ H \in Seq(BtmmView) /\ Len(H) = n /\ H # << >> /\ H[n] = c[s.zone]
    BY <2>2, <2>3, ViewsType
  <2> QED
    BY <2>2, <2>4
<1>2. CASE p \notin DOMAIN specs /\ s.available >= TimeOf(total)
  <2>1. Build(p, s, c) = FastForward(CreateCursor, H[Len(H)], Len(H))
    BY <1>1, <1>2 DEF Build
  <2>2. TimeOf(Len(H) - 1) <= s.available
    <3>1. Len(H) - 1 = total /\ TimeOf(total) \in Int
      BY <1>1 DEF TimeOf
    <3> QED
      BY <1>1, <1>2, <3>1
  <2> HIDE DEF H, n
  <2>3. Scans(FastForward(CreateCursor, H[Len(H)], Len(H)), H, s.available)
    BY <1>1, <2>2, CreateInStep
  <2>4. InStep(FastForward(CreateCursor, H[Len(H)], Len(H)), H, s.available)
    BY <1>1, <2>3, ScansInStep
  <2> QED
    BY <2>1, <2>4 DEF H
<1>3. CASE ~ (p \notin DOMAIN specs /\ s.available >= TimeOf(total))
  <2>1. Build(p, s, c) = FeedAll(H, s.available)
    BY <1>3 DEF Build
  <2> HIDE DEF H, n
  <2>2. InStep(FeedAll(H, s.available), H, s.available)
    BY <1>1, FeedAllScans, ScansInStep
  <2> QED
    BY <2>1, <2>2 DEF H
<1> QED
  BY <1>2, <1>3

\* A cursor in step has found what the scans find.
LEMMA InStepFound ==
  ASSUME NEW x, NEW a \in Int, NEW h \in Seq(BtmmView), h # << >>, InStep(x, h, a)
  PROVE  FoundBy(x) = Scan(h, a)
<1>1. x \in Shaped /\ x.total <= Len(h) /\ Scans(Ahead(x, h), h, a)
  BY DEF InStep
<1>2. FoundBy(Ahead(x, h)) = FoundBy(x)
  BY <1>1, AheadFields
<1>3. FoundBy(Ahead(x, h)) = Scan(h, a)
  BY <1>1, FoundIsScan DEF FoundBy
<1> QED
  BY <1>2, <1>3

\* It fits, also where its POI is relayed as rejected just now.
LEMMA InStepFits ==
  ASSUME NEW x, NEW a \in Int, NEW H \in Seq(BtmmView), H # << >>, InStep(x, H, a),
         NEW at \in {None, Len(H) - 1}
  PROVE  CursorFits(x, H, a, at)
<1>1. x \in Shaped /\ x.total <= Len(H)
  BY DEF InStep
<1>2. FoundBy(x) = Scan(H, a)
  BY InStepFound
<1>3. Len(H) - 1 \in 0 .. Len(H) - 1
  OBVIOUS
<1> QED
  BY <1>1, <1>2, <1>3 DEF CursorFits, Precedes

\* The setups a turn touches, and the cursors after it.
After(c, d, happened, seen) ==
  LET kept == Kept(DOMAIN specs, d)
  IN  Touched(c, d, PriceWake(c, kept), EventWake(kept, happened, seen))

Known(d, happened) == TransitionsAfter(d, happened, Walk(WalksNow(d), happened))

CursorThen(after, p) == IF p \in DOMAIN after THEN after[p] ELSE cursors[p]

LEMMA TurnCursors ==
  ASSUME ReplayInv, NEW c, NEW d, NEW happened, NEW seen, Turn(c, d, happened, seen)
  PROVE  LET next == Revised(specs, d)
             after == After(c, d, happened, seen)
             known == Known(d, happened)
         IN
         /\ DOMAIN d.given \subseteq DOMAIN after /\ DOMAIN after \subseteq DOMAIN next
         /\ \A p \in DOMAIN next :
              CursorFits(CursorThen(after, p), ViewsOf(Append(candles, c), next[p].zone),
                         next[p].available, GenuineAt(known[p]))
         /\ \A p \in DOMAIN next \ DOMAIN after :
              /\ p \in DOMAIN specs /\ next[p] = specs[p]
              /\ known[p] = poiTransitions[p]
              /\ ~ IsDue(regs[p].stage)
              /\ p \notin DOMAIN happened \ relayedTransitions
              /\ p \in ReviewNow(seen) => regs[p].stage = "FROZEN"
<1> DEFINE next == Revised(specs, d)
           kept == Kept(DOMAIN specs, d)
           price == PriceWake(c, kept)
           event == EventWake(kept, happened, seen)
           after == After(c, d, happened, seen)
           known == Known(d, happened)
<1>1. /\ c \in Candles
      /\ DOMAIN next = kept \cup DOMAIN d.given
      /\ kept = (DOMAIN specs \ d.removed) \ DOMAIN d.given
      /\ \A p \in DOMAIN next : next[p] \in PoiSpecs
      /\ \A p \in kept : next[p] = specs[p]
      /\ \A p \in DOMAIN d.given : next[p] = d.given[p]
      /\ \A p \in DOMAIN d.given \ DOMAIN specs : p \notin relayedTransitions \cup relayedEvidence
      /\ \A p \in DOMAIN d.given \cap DOMAIN specs : p \notin relayedTransitions
  BY TurnSpecs
<1>2. /\ DOMAIN after = price \cup event \cup DOMAIN d.given
      /\ \A p \in DOMAIN after :
           after[p] = IF p \in price THEN WakeUp(p, c)
                      ELSE IF p \in event THEN cursors[p] ELSE Build(p, d.given[p], c)
  BY DEF After, Touched
<1>3. price \subseteq kept /\ event = kept \cap watch \cap (RelayNow(happened) \cup ReviewNow(seen))
  BY DEF PriceWake, EventWake
<1>4. \A p \in DOMAIN next :
        /\ p \in relayedTransitions => p \in DOMAIN specs /\ known[p] = poiTransitions[p]
        /\ p \notin RelayNow(happened) /\ p \in DOMAIN specs => known[p] = poiTransitions[p]
        /\ p \notin relayedTransitions => GenuineAt(known[p]) \in {None, total}
  BY TurnWalks DEF Known
<1>5. /\ candles \in Seq(Candles) /\ total \in Nat
      /\ \A s \in PoiSpecs : /\ s.available \in Int
                             /\ ViewsOf(Append(candles, c), s.zone) \in Seq(BtmmView)
                             /\ ViewsOf(Append(candles, c), s.zone) # << >>
                             /\ Len(ViewsOf(Append(candles, c), s.zone)) = total + 1
  <2>1. candles \in Seq(Candles) /\ total \in Nat
    BY DEF ReplayInv, total
  <2>2. Append(candles, c) \in Seq(Candles) /\ Append(candles, c) # << >>
        /\ Len(Append(candles, c)) = total + 1
    BY <1>1, <2>1, SMTT(30) DEF total
  <2> QED
    BY <2>1, <2>2, ViewsType
<1> HIDE DEF next, kept, price, event, after, known
<1>6. ASSUME NEW p \in kept
      PROVE  /\ p \in DOMAIN specs /\ p \in DOMAIN next
             /\ RelayFits(p \in relayedTransitions, walkEvents[p], poiTransitions[p], total)
             /\ p \notin relayedTransitions => poiTransitions[p] = << >>
             /\ StageFits(regs[p].stage, cursors[p], poiTransitions[p])
  <2>1. p \in DOMAIN specs /\ p \in DOMAIN next
    BY <1>1
  <2> QED
    BY <2>1 DEF ReplayInv, SetupFits, RelayFits
\* Nothing woke p.
<1>7. ASSUME NEW p \in DOMAIN next, p \notin DOMAIN after
      PROVE  /\ p \in kept /\ p \in DOMAIN specs /\ next[p] = specs[p]
             /\ known[p] = poiTransitions[p]
             /\ ~ IsDue(regs[p].stage)
             /\ p \notin RelayNow(happened)
             /\ p \in ReviewNow(seen) => regs[p].stage = "FROZEN"
  <2>1. p \in kept /\ p \notin price /\ p \notin event /\ p \in DOMAIN specs
    BY <1>1, <1>2, <1>7
  <2>2. p \in watch <=> regs[p].stage # "FROZEN"
    BY <2>1, Registered
  <2>3. p \notin RelayNow(happened)
    <3> SUFFICES ASSUME p \in RelayNow(happened) PROVE FALSE
      OBVIOUS
    <3>1. p \notin relayedTransitions
      BY DEF RelayNow
    <3>2. poiTransitions[p] = << >> /\ StageFits(regs[p].stage, cursors[p], poiTransitions[p])
      BY <1>6, <2>1, <3>1
    <3>3. regs[p].stage # "FROZEN"
      BY <3>2 DEF StageFits
    <3> QED
      BY <1>3, <2>1, <2>2, <3>3
  <2>4. p \in ReviewNow(seen) => regs[p].stage = "FROZEN"
    BY <1>3, <2>1, <2>2
  <2>5. ~ IsDue(regs[p].stage)
    <3>1. <<total, p>> \in due <=> IsDue(regs[p].stage)
      BY <2>1, Registered
    <3>2. <<total, p>> \notin due
      BY <2>1 DEF price, PriceWake
    <3> QED
      BY <3>1, <3>2
  <2> QED
    BY <1>1, <1>4, <2>1, <2>3, <2>4, <2>5
<1>8. ASSUME NEW p \in DOMAIN next
      PROVE  CursorFits(CursorThen(after, p), ViewsOf(Append(candles, c), next[p].zone),
                        next[p].available, GenuineAt(known[p]))
  <2> DEFINE H == ViewsOf(Append(candles, c), next[p].zone)
             x == CursorThen(after, p)
             a == next[p].available
  <2>1. next[p] \in PoiSpecs /\ a \in Int /\ H \in Seq(BtmmView) /\ H # << >> /\ Len(H) - 1 = total
    BY <1>1, <1>5
  <2>2. CASE p \in kept /\ GenuineAt(poiTransitions[p]) # None
    <3>1. p \in relayedTransitions
      BY <1>6, <2>2, GenuineAt(<< >>) = None DEF GenuineAt
    <3>2. known[p] = poiTransitions[p]
      BY <1>4, <3>1
    <3>3. /\ p \notin PriceWake(c, kept)
          /\ CursorFits(cursors[p], ViewsOf(Append(candles, c), specs[p].zone),
                        specs[p].available, GenuineAt(poiTransitions[p]))
      BY <1>1, <1>6, <2>2, KeptRejected
    <3>4. x = cursors[p]
      BY <1>1, <1>2, <2>2, <3>3 DEF CursorThen, price
    <3> QED
      BY <1>1, <2>2, <3>2, <3>3, <3>4
  <2>3. CASE ~ (p \in kept /\ GenuineAt(poiTransitions[p]) # None)
    <3>1. GenuineAt(known[p]) \in {None, total}
      <4>1. CASE p \in relayedTransitions
        <5>1. p \in DOMAIN specs /\ known[p] = poiTransitions[p]
          BY <1>4, <4>1
        <5>2. p \in kept
          BY <1>1, <4>1, <5>1
        <5> QED
          BY <2>3, <5>1, <5>2
      <4>2. CASE p \notin relayedTransitions
        BY <1>4, <4>2
      <4> QED
        BY <4>1, <4>2
    <3>2. InStep(x, H, a)
      <4>1. CASE p \in kept
        <5>1. /\ p \in price => InStep(WakeUp(p, c), H, a)
              /\ p \notin price => InStep(cursors[p], H, a)
          <6>1. p \in DOMAIN specs /\ GenuineAt(poiTransitions[p]) = None /\ next[p] = specs[p]
            BY <1>1, <1>6, <2>3, <4>1
          <6> QED
            BY <1>1, <4>1, <6>1, KeptInStep DEF price
        <5>2. p \notin DOMAIN d.given
          BY <1>1, <4>1
        <5>3. x = IF p \in price THEN WakeUp(p, c) ELSE cursors[p]
          BY <1>2, <5>2 DEF CursorThen
        <5> QED
          BY <5>1, <5>3
      <4>2. CASE p \notin kept
        <5>1. p \in DOMAIN d.given /\ p \notin price /\ p \notin event /\ next[p] = d.given[p]
          BY <1>1, <1>3, <4>2
        <5>2. x = Build(p, next[p], c)
          BY <1>2, <5>1 DEF CursorThen
        <5>3. InStep(Build(p, next[p], c), ViewsOf(Append(candles, c), next[p].zone), next[p].available)
          BY <1>1, <2>1, BuiltInStep
        <5> QED
          BY <5>2, <5>3
      <4> QED
        BY <4>1, <4>2
    <3> HIDE DEF x, H, a
    <3>3. CursorFits(x, H, a, GenuineAt(known[p]))
      <4>1. GenuineAt(known[p]) \in {None, Len(H) - 1}
        BY <2>1, <3>1
      <4> QED
        BY <2>1, <3>2, <4>1, InStepFits
    <3> QED
      BY <3>3 DEF x, H, a
  <2> QED
    BY <2>2, <2>3
<1>9. DOMAIN d.given \subseteq DOMAIN after /\ DOMAIN after \subseteq DOMAIN next
  BY <1>1, <1>2, <1>3
<1> QED
  BY <1>7, <1>8, <1>9 DEF next, after, known, RelayNow

\* The stage _reconcile decides on, where its assertion holds.
LEMMA StageOfFits ==
  ASSUME NEW x, NEW known, NEW primary, StageOf(x, known, primary) # "ASSERTION"
  PROVE  StageFits(StageOf(x, known, primary), x, known)
<1>1. PriceStage(x) \in PriceStages \cup {"RESOLVED"}
  BY DEF PriceStage, PriceStages
<1>2. "FROZEN" \notin PriceStages
  BY DEF PriceStages
<1>3. CASE GenuineAt(known) = None /\ PriceStage(x) # "RESOLVED"
  <2>1. StageOf(x, known, primary) = PriceStage(x)
    BY <1>3 DEF StageOf
  <2>2. PriceStage(x) # "FROZEN"
    BY <1>1, <1>2
  <2> QED
    BY <1>3, <2>1, <2>2 DEF StageFits
<1>4. CASE ~ (GenuineAt(known) = None /\ PriceStage(x) # "RESOLVED")
  <2>1. /\ StageOf(x, known, primary) \in {"EVIDENCE_WAIT", "FROZEN", "CONFIRMED_SOURCE_WATCH", "SOURCE_POI_WATCH"}
        /\ StageOf(x, known, primary) = "FROZEN" => known # << >>
    BY <1>4 DEF StageOf
  <2> DEFINE stage == StageOf(x, known, primary)
  <2> HIDE DEF stage
  <2>2. stage \notin PriceStages
    BY <2>1 DEF PriceStages, stage
  <2> QED
    BY <1>4, <2>1, <2>2 DEF StageFits, stage
<1> QED
  BY <1>3, <1>4

\* The registrations of the present setups, once rs are registered again.
Again(rs, present) == [p \in present |-> IF p \in DOMAIN rs THEN rs[p] ELSE regs[p]]

LEMMA RegistriesAfter ==
  ASSUME RegistriesFit, total \in Nat, NEW removed, NEW given, NEW next, NEW rs,
         next \subseteq (DOMAIN regs \ removed) \cup given,
         (DOMAIN regs \ removed) \cup given \subseteq next, removed \cap given = {},
         DOMAIN rs \subseteq next, given \subseteq DOMAIN rs,
         \A p \in next \ DOMAIN rs : ~ IsDue(regs[p].stage)
  PROVE  LET stale == Of(regs, removed \cup DOMAIN rs)
             new == Again(rs, next)
         IN
         /\ Reindex(formingIndex, Forming(stale), Forming(rs)) = Forming(new)
         /\ Reindex(interactionIndex, Interacting(stale), Interacting(rs)) = Interacting(new)
         /\ Reindex(watch, Watching(stale), Watching(rs)) = Watching(new)
         /\ {e \in due : e[1] # total}
              \cup DueAt(total + 1, rs) = DueAt(total + 1, new)
<1> DEFINE ids == removed \cup DOMAIN rs
           stale == Of(regs, ids)
           new == Again(rs, next)
<1>1. /\ DOMAIN stale = ids \cap DOMAIN regs
      /\ \A p \in DOMAIN stale : stale[p] = regs[p]
  BY DEF Of
<1>2. /\ DOMAIN new = next
      /\ \A p \in DOMAIN rs : new[p] = rs[p]
      /\ \A p \in next \ DOMAIN rs : new[p] = regs[p] /\ p \in DOMAIN regs /\ p \notin ids
      /\ \A p \in DOMAIN regs \ ids : p \in next \ DOMAIN rs
  BY DEF Again
<1> HIDE DEF ids, stale, new
<1>3. Reindex(formingIndex, Forming(stale), Forming(rs)) = Forming(new)
  <2>1. ASSUME NEW e \in Forming(new) PROVE e \in (Forming(regs) \ Forming(stale)) \cup Forming(rs)
    <3>1. PICK p \in next : new[p].stage = "WAIT_FORMING" /\ e = <<new[p].key, p>>
      BY <1>2 DEF Forming
    <3>2. CASE p \in DOMAIN rs
      BY <1>2, <3>1, <3>2 DEF Forming
    <3>3. CASE p \notin DOMAIN rs
      <4>1. e \in Forming(regs)
        BY <1>2, <3>1, <3>3 DEF Forming
      <4>2. \A q \in DOMAIN stale : <<stale[q].key, q>> # e
        BY <1>1, <1>2, <3>1, <3>3
      <4> QED
        BY <4>1, <4>2 DEF Forming
    <3> QED
      BY <3>2, <3>3
  <2>2. ASSUME NEW e \in Forming(rs) PROVE e \in Forming(new)
    BY <1>2 DEF Forming
  <2>3. ASSUME NEW e \in Forming(regs), e \notin Forming(stale) PROVE e \in Forming(new)
    <3>1. PICK p \in DOMAIN regs : regs[p].stage = "WAIT_FORMING" /\ e = <<regs[p].key, p>>
      BY <2>3 DEF Forming
    <3>2. p \notin ids
      BY <1>1, <2>3, <3>1 DEF Forming
    <3> QED
      BY <1>2, <3>1, <3>2 DEF Forming
  <2>4. formingIndex = Forming(regs)
    BY DEF RegistriesFit
  <2> QED
    BY <2>1, <2>2, <2>3, <2>4 DEF Reindex
<1>4. Reindex(interactionIndex, Interacting(stale), Interacting(rs)) = Interacting(new)
  <2>1. ASSUME NEW e \in Interacting(new)
        PROVE  e \in (Interacting(regs) \ Interacting(stale)) \cup Interacting(rs)
    <3>1. PICK p \in next : new[p].stage = "WAIT_INTERACTION" /\ e = <<new[p].zone, p>>
      BY <1>2 DEF Interacting
    <3>2. CASE p \in DOMAIN rs
      BY <1>2, <3>1, <3>2 DEF Interacting
    <3>3. CASE p \notin DOMAIN rs
      <4>1. e \in Interacting(regs)
        BY <1>2, <3>1, <3>3 DEF Interacting
      <4>2. \A q \in DOMAIN stale : <<stale[q].zone, q>> # e
        BY <1>1, <1>2, <3>1, <3>3
      <4> QED
        BY <4>1, <4>2 DEF Interacting
    <3> QED
      BY <3>2, <3>3
  <2>2. ASSUME NEW e \in Interacting(rs) PROVE e \in Interacting(new)
    BY <1>2 DEF Interacting
  <2>3. ASSUME NEW e \in Interacting(regs), e \notin Interacting(stale) PROVE e \in Interacting(new)
    <3>1. PICK p \in DOMAIN regs : regs[p].stage = "WAIT_INTERACTION" /\ e = <<regs[p].zone, p>>
      BY <2>3 DEF Interacting
    <3>2. p \notin ids
      BY <1>1, <2>3, <3>1 DEF Interacting
    <3> QED
      BY <1>2, <3>1, <3>2 DEF Interacting
  <2>4. interactionIndex = Interacting(regs)
    BY DEF RegistriesFit
  <2> QED
    BY <2>1, <2>2, <2>3, <2>4 DEF Reindex
<1>5. Reindex(watch, Watching(stale), Watching(rs)) = Watching(new)
  <2>1. watch = Watching(regs)
    BY DEF RegistriesFit
  <2> QED
    BY <1>1, <1>2, <2>1 DEF Watching, Reindex
<1>6. {e \in due : e[1] # total}
        \cup DueAt(total + 1, rs) = DueAt(total + 1, new)
  <2>1. \A e \in due : e[1] = total
    BY DEF RegistriesFit, DueAt
  <2>2. {q \in DOMAIN rs : IsDue(rs[q].stage)} = {q \in DOMAIN new : IsDue(new[q].stage)}
    BY <1>2
  <2> QED
    BY <2>1, <2>2 DEF DueAt
<1> QED
  BY <1>3, <1>4, <1>5, <1>6 DEF ids, stale, new

\* A group with a candle, where no assertion fails.
LEMMA GroupState ==
  ASSUME NEW c, NEW d, NEW happened, NEW seen,
         Group(c, d, happened, Walk(WalksNow(d), happened), seen), ~ failed'
  PROVE  LET next == Revised(specs, d)
             after == After(c, d, happened, seen)
             known == Known(d, happened)
             walks == Walks(after, next, known, EvidenceAfter(d, seen))
             newRegs == Regs(after, next, known, walks)
         IN
         /\ candles' = Append(candles, c) /\ specs' = next
         /\ walkEvents' = Walk(WalksNow(d), happened) /\ visible' = seen
         /\ Commit(d, after, next, known, EvidenceAfter(d, seen), walks, newRegs)
         /\ \A p \in DOMAIN newRegs : newRegs[p].stage # "ASSERTION"
         /\ relayedTransitions' = relayedTransitions \cup DOMAIN happened
         /\ relayedEvidence' = relayedEvidence \cup ReviewNow(seen)
         /\ poiTransitions' = known /\ reviewedEvidence' = EvidenceAfter(d, seen)
         /\ woken' = DOMAIN after
<1> DEFINE walked == Walk(WalksNow(d), happened)
           kept == Kept(DOMAIN specs, d)
<1>1. AdvanceScheduler(c, d, kept, happened, walked, seen)
  BY DEF Group
<1>2. ReconcileTouched(d, After(c, d, happened, seen), Revised(specs, d), Known(d, happened),
                       EvidenceAfter(d, seen))
  BY <1>1 DEF AdvanceScheduler, After, Known
<1>3. /\ candles' = Append(candles, c) /\ specs' = Revised(specs, d)
      /\ walkEvents' = walked /\ visible' = seen
      /\ relayedTransitions' = relayedTransitions \cup DOMAIN happened
      /\ relayedEvidence' = relayedEvidence \cup ReviewNow(seen)
  BY DEF Group
<1> DEFINE next == Revised(specs, d)
           after == After(c, d, happened, seen)
           known == Known(d, happened)
           walks == Walks(after, next, known, EvidenceAfter(d, seen))
           newRegs == Regs(after, next, known, walks)
<1>4. Commit(d, after, next, known, EvidenceAfter(d, seen), walks, newRegs)
      /\ \A p \in DOMAIN newRegs : newRegs[p].stage # "ASSERTION"
  BY <1>2 DEF ReconcileTouched, ReconcileWalks, Reconcile
<1> HIDE DEF next, after, known, walks, newRegs
<1>5. poiTransitions' = known /\ reviewedEvidence' = EvidenceAfter(d, seen)
      /\ woken' = DOMAIN after
  BY <1>4 DEF Commit
<1> QED
  BY <1>3, <1>4, <1>5 DEF next, after, known, walks, newRegs

\* It keeps the invariant.
LEMMA GroupInv ==
  ASSUME ReplayInv, NEW c, NEW d, NEW happened, NEW seen, Turn(c, d, happened, seen),
         Group(c, d, happened, Walk(WalksNow(d), happened), seen), ~ failed'
  PROVE  ReplayInv'
<1> DEFINE next == Revised(specs, d)
           walked == Walk(WalksNow(d), happened)
           after == After(c, d, happened, seen)
           known == Known(d, happened)
           evid == EvidenceAfter(d, seen)
           walks == Walks(after, next, known, evid)
           newRegs == Regs(after, next, known, walks)
<1>1. /\ candles' = Append(candles, c) /\ specs' = next
      /\ walkEvents' = walked /\ visible' = seen
      /\ Commit(d, after, next, known, evid, walks, newRegs)
      /\ \A p \in DOMAIN newRegs : newRegs[p].stage # "ASSERTION"
      /\ relayedTransitions' = relayedTransitions \cup DOMAIN happened
      /\ relayedEvidence' = relayedEvidence \cup ReviewNow(seen)
  BY GroupState
<1>2. /\ c \in Candles
      /\ DOMAIN next = ((DOMAIN specs \ d.removed) \ DOMAIN d.given) \cup DOMAIN d.given
      /\ d.removed \cap DOMAIN d.given = {}
      /\ \A p \in DOMAIN next : next[p] \in PoiSpecs
  BY TurnSpecs
<1>3. /\ DOMAIN d.given \subseteq DOMAIN after /\ DOMAIN after \subseteq DOMAIN next
      /\ \A p \in DOMAIN next :
           CursorFits(CursorThen(after, p), ViewsOf(Append(candles, c), next[p].zone),
                      next[p].available, GenuineAt(known[p]))
      /\ \A p \in DOMAIN next \ DOMAIN after :
           /\ p \in DOMAIN specs /\ next[p] = specs[p]
           /\ known[p] = poiTransitions[p]
           /\ ~ IsDue(regs[p].stage)
  BY TurnCursors
<1>4. /\ DOMAIN walked = DOMAIN next /\ DOMAIN known = DOMAIN next
      /\ \A p \in DOMAIN next :
           RelayFits(p \in relayedTransitions \cup DOMAIN happened, walked[p], known[p], total + 1)
  BY TurnWalks DEF Known
<1>5. /\ DOMAIN seen = DOMAIN next /\ DOMAIN evid = DOMAIN next
      /\ \A p \in DOMAIN next :
           EvidenceFits(p \in relayedEvidence \cup ReviewNow(seen), seen[p], evid[p])
  BY TurnEvidence
<1>6. /\ DOMAIN newRegs = DOMAIN after
      /\ \A p \in DOMAIN after :
           /\ newRegs[p].stage = StageOf(after[p], known[p], walks[p].fields.primary)
           /\ newRegs[p].key = next[p].available /\ newRegs[p].zone = next[p].zone
  BY DEF Regs
<1> HIDE DEF next, walked, after, known, evid, walks, newRegs
<1>7. \A p \in DOMAIN after : StageFits(newRegs[p].stage, after[p], known[p])
  BY <1>1, <1>6, StageOfFits
<1>8. /\ cursors' = [p \in DOMAIN next |-> IF p \in DOMAIN after THEN after[p] ELSE cursors[p]]
      /\ regs' = [p \in DOMAIN next |-> IF p \in DOMAIN newRegs THEN newRegs[p] ELSE regs[p]]
      /\ poiTransitions' = known /\ reviewedEvidence' = evid
      /\ DOMAIN ledger' = DOMAIN next
  BY <1>1 DEF Commit
<1>9. candles \in Seq(Candles) /\ total \in Nat /\ candles' \in Seq(Candles) /\ candles' # << >>
      /\ total' = total + 1
  <2>1. candles \in Seq(Candles)
    BY DEF ReplayInv
  <2> QED
    BY <1>1, <1>2, <2>1 DEF total
<1>10. DomainsFit'
  BY <1>1, <1>4, <1>5, <1>8 DEF DomainsFit
<1>11. RegistriesFit'
  <2> DEFINE ids == DOMAIN next
             given == DOMAIN d.given
             removed == d.removed
             stale == Of(regs, removed \cup DOMAIN newRegs)
             new == Again(newRegs, ids)
  <2>1. RegistriesFit /\ DOMAIN regs = DOMAIN specs
    BY DEF ReplayInv, DomainsFit
  <2>2. /\ ids \subseteq (DOMAIN regs \ removed) \cup given
        /\ (DOMAIN regs \ removed) \cup given \subseteq ids /\ removed \cap given = {}
        /\ DOMAIN newRegs \subseteq ids /\ given \subseteq DOMAIN newRegs
        /\ \A p \in ids \ DOMAIN newRegs : ~ IsDue(regs[p].stage)
    BY <1>2, <1>3, <1>6, <2>1
  <2>3. /\ formingIndex' = Reindex(formingIndex, Forming(stale), Forming(newRegs))
        /\ interactionIndex' = Reindex(interactionIndex, Interacting(stale), Interacting(newRegs))
        /\ watch' = Reindex(watch, Watching(stale), Watching(newRegs))
        /\ due' = {e \in due : e[1] # total} \cup DueAt(total + 1, newRegs)
    BY <1>1 DEF Commit, DueAt
  <2>4. regs' = new
    BY <1>8 DEF Again
  <2> HIDE DEF ids, given, removed
  <2>5. /\ Reindex(formingIndex, Forming(stale), Forming(newRegs)) = Forming(new)
        /\ Reindex(interactionIndex, Interacting(stale), Interacting(newRegs)) = Interacting(new)
        /\ Reindex(watch, Watching(stale), Watching(newRegs)) = Watching(new)
        /\ {e \in due : e[1] # total} \cup DueAt(total + 1, newRegs) = DueAt(total + 1, new)
    BY <1>9, <2>1, <2>2, RegistriesAfter, ZenonT(60)
  <2> HIDE DEF new, stale
  <2>6. /\ Forming(new) = Forming(regs)' /\ Interacting(new) = Interacting(regs)'
        /\ Watching(new) = Watching(regs)'
    BY <2>4 DEF Forming, Interacting, Watching
  <2>7. DueAt(total + 1, new) = DueAt(total, regs)'
    BY <1>9, <2>4 DEF DueAt
  <2> QED
    BY <2>3, <2>5, <2>6, <2>7 DEF RegistriesFit
<1>12. ASSUME NEW p \in DOMAIN next PROVE SetupFits(p)'
  <2>1. specs'[p] = next[p] /\ next[p] \in PoiSpecs
    BY <1>1, <1>2
  <2>2. CursorFits(cursors'[p], ViewsOf(candles', next[p].zone), next[p].available,
                   GenuineAt(poiTransitions'[p]))
    <3>1. cursors'[p] = CursorThen(after, p)
      BY <1>8 DEF CursorThen
    <3> QED
      BY <1>1, <1>3, <1>8, <3>1
  <2>3. /\ regs'[p].key = next[p].available /\ regs'[p].zone = next[p].zone
        /\ StageFits(regs'[p].stage, cursors'[p], poiTransitions'[p])
    <3>1. CASE p \in DOMAIN after
      <4>1. regs'[p] = newRegs[p] /\ cursors'[p] = after[p] /\ poiTransitions'[p] = known[p]
        BY <1>6, <1>8, <3>1
      <4> QED
        BY <1>6, <1>7, <3>1, <4>1
    <3>2. CASE p \notin DOMAIN after
      <4>1. regs'[p] = regs[p] /\ cursors'[p] = cursors[p] /\ poiTransitions'[p] = known[p]
        BY <1>6, <1>8, <3>2
      <4>2. p \in DOMAIN specs /\ next[p] = specs[p] /\ known[p] = poiTransitions[p]
        BY <1>3, <3>2
      <4>3. /\ regs[p].key = specs[p].available /\ regs[p].zone = specs[p].zone
            /\ StageFits(regs[p].stage, cursors[p], poiTransitions[p])
        BY <4>2 DEF ReplayInv, SetupFits
      <4> QED
        BY <4>1, <4>2, <4>3
    <3> QED
      BY <3>1, <3>2
  <2>4. RelayFits(p \in relayedTransitions', walkEvents'[p], poiTransitions'[p], total')
    BY <1>1, <1>4, <1>8, <1>9
  <2>5. EvidenceFits(p \in relayedEvidence', visible'[p], reviewedEvidence'[p])
    BY <1>1, <1>5, <1>8
  <2> QED
    BY <2>1, <2>2, <2>3, <2>4, <2>5 DEF SetupFits, StageFits, CursorFits, RelayFits, EvidenceFits, ViewsOf
<1> QED
  BY <1>1, <1>9, <1>10, <1>11, <1>12 DEF ReplayInv

-----------------------------------------------------------------------------
(*****************************************************************************)
(* The steps of a walk, and how it ends.                                     *)
(*****************************************************************************)
\* A walk is not empty, and each step has its time, its primary status and what
\* blocks it.
IsStep(step) ==
  /\ {"primary", "time", "blocked"} \subseteq DOMAIN step.fields
  /\ step.fields.time \in Int

IsWalk(steps) == \E S : (\A s \in S : IsStep(s)) /\ steps \in Seq(S) /\ steps # << >>

LEMMA WalkOfOne ==
  ASSUME NEW s, IsStep(s)
  PROVE  IsWalk(<<s>>)
<1> DEFINE S == {s}
           steps == <<s>>
<1>1. steps \in Seq(S) /\ steps # << >>
  OBVIOUS
<1>2. \A x \in S : IsStep(x)
  OBVIOUS
<1> HIDE DEF S, steps
<1>3. IsWalk(steps)
  BY <1>1, <1>2 DEF IsWalk
<1> QED
  BY <1>3 DEF steps

LEMMA WalkAppends ==
  ASSUME NEW steps, IsWalk(steps), NEW s, IsStep(s)
  PROVE  /\ IsWalk(Append(steps, s)) /\ LastFields(Append(steps, s)) = s.fields
         /\ Len(steps) \in Nat \ {0} /\ Len(Append(steps, s)) = Len(steps) + 1
         /\ \A k \in 1 .. Len(steps) : Append(steps, s)[k] = steps[k]
         /\ Append(steps, s)[Len(steps) + 1] = s
<1>1. PICK S : (\A x \in S : IsStep(x)) /\ steps \in Seq(S) /\ steps # << >>
  BY DEF IsWalk
<1> DEFINE T == S \cup {s}
           new == Append(steps, s)
<1>2. steps \in Seq(T)
  BY <1>1
<1>3. new \in Seq(T) /\ new # << >> /\ Len(new) = Len(steps) + 1 /\ new[Len(steps) + 1] = s
      /\ Len(steps) \in Nat \ {0} /\ \A k \in 1 .. Len(steps) : new[k] = steps[k]
  BY <1>1, <1>2
<1>4. \A x \in T : IsStep(x)
  BY <1>1
<1>5. IsWalk(new)
  BY <1>3, <1>4 DEF IsWalk
<1>6. LastFields(new) = s.fields
  BY <1>3 DEF LastFields
<1> QED
  BY <1>3, <1>5, <1>6

LEMMA WalkLast ==
  ASSUME NEW steps, IsWalk(steps)
  PROVE  /\ Len(steps) \in Nat \ {0}
         /\ \A k \in 1 .. Len(steps) : IsStep(steps[k])
         /\ \E k \in 1 .. Len(steps) : LastFields(steps) = steps[k].fields
<1>1. PICK S : (\A s \in S : IsStep(s)) /\ steps \in Seq(S) /\ steps # << >>
  BY DEF IsWalk
<1>2. Len(steps) \in Nat \ {0} /\ \A k \in 1 .. Len(steps) : steps[k] \in S
  BY <1>1
<1>3. Len(steps) \in 1 .. Len(steps)
  BY <1>2
<1> QED
  BY <1>1, <1>2, <1>3 DEF LastFields

\* emit extends a walk, and sets the primary status if it is among the changes.
LEMMA EmitWalk ==
  ASSUME NEW steps, IsWalk(steps), NEW type, NEW trigger, NEW time \in Int, NEW change
  PROVE  /\ IsWalk(Emit(steps, type, trigger, time, change))
         /\ "primary" \in DOMAIN change =>
              LastFields(Emit(steps, type, trigger, time, change)).primary = change.primary
<1> DEFINE fields == Changed(LastFields(steps), change, time)
           s == [type |-> type, trigger |-> trigger, fields |-> fields]
<1>1. {"primary", "time", "blocked"} \subseteq DOMAIN LastFields(steps)
  BY WalkLast DEF IsStep
<1>2. DOMAIN fields = DOMAIN LastFields(steps)
  BY DEF Changed
<1>3. fields.time = time
  BY <1>1 DEF Changed
<1>4. "primary" \in DOMAIN change => fields.primary = change.primary
  BY <1>1 DEF Changed
<1> HIDE DEF fields
<1>5. s.fields = fields
  OBVIOUS
<1>6. IsStep(s)
  BY <1>1, <1>2, <1>3, <1>5 DEF IsStep
<1>7. Emit(steps, type, trigger, time, change) = Append(steps, s)
  BY DEF Emit, fields
<1> HIDE DEF s
<1> QED
  BY <1>4, <1>5, <1>6, <1>7, WalkAppends

Ended == {"BTMM_BLOCKED", "BTMM_CONFIRMED", "BTMM_CANCELLED"}

\* Evidence not later than the close of the window, or that does not block.
Decides(known, t) ==
  known = NoEvidence \/ known.time <= t \/ ResolveFinalGates(known).kind # "BLOCKED"

LEMMA ResolveEnds ==
  ASSUME NEW steps, IsWalk(steps), NEW outcome, NEW reviewed, NEW time \in Int, NEW trigger,
         NEW late \in BOOLEAN
  PROVE  /\ IsWalk(Resolve(steps, outcome, reviewed, time, trigger, late))
         /\ late = FALSE \/ outcome.kind # "BLOCKED" =>
              (outcome.kind \in {"CANCEL", "CONFIRM", "BLOCKED"} =>
                 LastFields(Resolve(steps, outcome, reviewed, time, trigger, late)).primary \in Ended)
<1>1. CASE outcome.kind = "CANCEL"
  <2> DEFINE change == [primary |-> "BTMM_CANCELLED", cancel |-> outcome.reason,
                        reviewed |-> reviewed, blocked |-> "NONE"]
  <2>1. "primary" \in DOMAIN change /\ change.primary = "BTMM_CANCELLED"
    OBVIOUS
  <2> HIDE DEF change
  <2>2. /\ IsWalk(Emit(steps, outcome.reason, trigger, time, change))
        /\ LastFields(Emit(steps, outcome.reason, trigger, time, change)).primary = change.primary
    BY <2>1, EmitWalk
  <2> QED
    BY <1>1, <2>1, <2>2 DEF change, Resolve, Ended
<1>2. CASE outcome.kind # "CANCEL" /\ outcome.kind = "CONFIRM"
  <2> DEFINE change == [primary |-> "BTMM_CONFIRMED", reviewed |-> reviewed, blocked |-> "NONE"]
  <2>1. "primary" \in DOMAIN change /\ change.primary = "BTMM_CONFIRMED"
    OBVIOUS
  <2> HIDE DEF change
  <2>2. /\ IsWalk(Emit(steps, "CONFIRMED", trigger, time, change))
        /\ LastFields(Emit(steps, "CONFIRMED", trigger, time, change)).primary = change.primary
    BY <2>1, EmitWalk
  <2> QED
    BY <1>2, <2>1, <2>2 DEF change, Resolve, Ended
<1>3. CASE outcome.kind # "CANCEL" /\ outcome.kind # "CONFIRM" /\ late
  <2>1. IsWalk(Emit(steps, "RESUMED_FORMING", trigger, time,
                    [primary |-> "BTMM_FORMING", reviewed |-> reviewed, blocked |-> "NONE"]))
    BY EmitWalk
  <2> QED
    BY <1>3, <2>1 DEF Resolve
<1>4. CASE outcome.kind # "CANCEL" /\ outcome.kind # "CONFIRM" /\ ~ late
  <2> DEFINE change == [primary |-> "BTMM_BLOCKED", reviewed |-> reviewed,
                        blocked |-> outcome.reason]
  <2>1. "primary" \in DOMAIN change /\ change.primary = "BTMM_BLOCKED"
    OBVIOUS
  <2> HIDE DEF change
  <2>2. /\ IsWalk(Emit(steps, "BLOCKED", trigger, time, change))
        /\ LastFields(Emit(steps, "BLOCKED", trigger, time, change)).primary = change.primary
    BY <2>1, EmitWalk
  <2> QED
    BY <1>4, <2>1, <2>2 DEF change, Resolve, Ended
<1> QED
  BY <1>1, <1>2, <1>3, <1>4

LEMMA FinalGatesEnd ==
  ASSUME NEW steps, IsWalk(steps), NEW t \in Int, NEW evidence_,
         evidence_ # NoEvidence => evidence_.time \in Int
  PROVE  /\ IsWalk(FinalGates(steps, t, evidence_))
         /\ Decides(evidence_, t) => LastFields(FinalGates(steps, t, evidence_)).primary \in Ended
<1> DEFINE outcome == ResolveFinalGates(evidence_)
<1>1. outcome.kind \in {"CANCEL", "CONFIRM", "BLOCKED"}
  BY DEF ResolveFinalGates
<1> HIDE DEF outcome
<1>2. CASE evidence_ = NoEvidence
  <2> DEFINE change == Cancelled("NO_LIQUIDITY_EVIDENCE")
  <2>1. "primary" \in DOMAIN change /\ change.primary = "BTMM_CANCELLED"
    BY DEF Cancelled
  <2> HIDE DEF change
  <2>2. /\ IsWalk(Emit(steps, "NO_LIQUIDITY_EVIDENCE", NoTrigger, t, change))
        /\ LastFields(Emit(steps, "NO_LIQUIDITY_EVIDENCE", NoTrigger, t, change)).primary = change.primary
    BY <2>1, EmitWalk
  <2> QED
    BY <1>2, <2>1, <2>2 DEF change, FinalGates, Ended
<1>3. CASE evidence_ # NoEvidence /\ evidence_.time > t
  <2> DEFINE change == [primary |-> "BTMM_BLOCKED", blocked |-> "LIQUIDITY_REVIEW_PENDING"]
             blocked == Emit(steps, "BLOCKED", NoTrigger, t, change)
             time == evidence_.time
  <2>1. IsWalk(blocked)
    BY EmitWalk
  <2>2. FinalGates(steps, t, evidence_)
          = Resolve(blocked, outcome, time, time, Reviewed(time), TRUE)
    BY <1>3 DEF FinalGates, outcome
  <2>3. time \in Int /\ TRUE \in BOOLEAN
    BY <1>3
  <2>4. Decides(evidence_, t) => outcome.kind # "BLOCKED"
    BY <1>3, <2>3 DEF Decides, outcome
  <2> HIDE DEF blocked, time
  <2> QED
    BY <1>1, <2>1, <2>2, <2>3, <2>4, ResolveEnds
<1>4. CASE evidence_ # NoEvidence /\ ~ (evidence_.time > t)
  <2>1. FinalGates(steps, t, evidence_)
          = Resolve(steps, outcome, evidence_.time, t, NoTrigger, FALSE)
    BY <1>4 DEF FinalGates, outcome
  <2>2. FALSE \in BOOLEAN
    OBVIOUS
  <2> QED
    BY <1>1, <2>1, <2>2, ResolveEnds
<1> QED
  BY <1>2, <1>3, <1>4

LEMMA AutomaticWalk ==
  ASSUME NEW steps, IsWalk(steps), NEW events_
  PROVE  IsWalk(WithAutomaticEvidence(steps, events_))
<1> DEFINE old == LastFields(steps)
           fields == [old EXCEPT !.automatic = TRUE]
           s == [type |-> "NONE", trigger |-> NoTrigger, fields |-> fields]
<1>1. {"primary", "time", "blocked"} \subseteq DOMAIN old /\ "time" \in DOMAIN old
      /\ old.time \in Int
  BY WalkLast DEF IsStep
<1> HIDE DEF old
<1>2. DOMAIN fields = DOMAIN old /\ fields["time"] = old["time"]
  BY <1>1, Zenon
<1> HIDE DEF fields
<1>3. s.fields = fields
  OBVIOUS
<1>4. IsStep(s)
  BY <1>1, <1>2, <1>3 DEF IsStep
<1>5. WithAutomaticEvidence(steps, events_) \in {steps, Append(steps, s)}
  BY DEF WithAutomaticEvidence, fields, old
<1> HIDE DEF s
<1>6. IsWalk(Append(steps, s))
  BY <1>4, WalkAppends
<1> QED
  BY <1>5, <1>6

LEMMA GatesWalk ==
  ASSUME NEW steps, IsWalk(steps), NEW tier, NEW close \in Int, NEW events_, NEW evidence_,
         evidence_ # NoEvidence => evidence_.time \in Int
  PROVE  /\ IsWalk(AfterReaction(steps, tier, close, events_, evidence_))
         /\ Decides(evidence_, TimeOf(close)) =>
              LastFields(AfterReaction(steps, tier, close, events_, evidence_)).primary \in Ended
<1> DEFINE t == TimeOf(close)
           Gate(type, change, from) == Emit(from, type, Candle(close), TimeOf(close), change)
           weak == Gate("WEAK_REACTION", Cancelled("WEAK_REACTION"), steps)
           passed == Gate("REACTION_GATE_CONFIRMED", [time |-> TimeOf(close)], steps)
           slow == Gate("REACTION_SPEED_FAILED", Cancelled("REACTION_SPEED_FAILED"), passed)
           fast == Gate("REACTION_SPEED_GATE_CONFIRMED", [stage |-> "FINAL_GATE_EVALUATION"], passed)
           final == FinalGates(WithAutomaticEvidence(fast, events_), t, evidence_)
<1>1. t \in Int
  BY DEF TimeOf
<1>2. \A reason : "primary" \in DOMAIN Cancelled(reason)
                  /\ Cancelled(reason).primary = "BTMM_CANCELLED"
  BY DEF Cancelled
<1>3. IsWalk(weak) /\ LastFields(weak).primary = "BTMM_CANCELLED"
  BY <1>1, <1>2, EmitWalk
<1>4. IsWalk(passed)
  BY <1>1, EmitWalk
<1> HIDE DEF passed
<1>5. IsWalk(slow) /\ LastFields(slow).primary = "BTMM_CANCELLED"
  BY <1>1, <1>2, <1>4, EmitWalk
<1>6. IsWalk(fast)
  BY <1>1, <1>4, EmitWalk
<1> HIDE DEF fast
<1>7. IsWalk(WithAutomaticEvidence(fast, events_))
  BY <1>6, AutomaticWalk
<1>8. IsWalk(final) /\ (Decides(evidence_, t) => LastFields(final).primary \in Ended)
  BY <1>1, <1>7, FinalGatesEnd
<1>9. AfterReaction(steps, tier, close, events_, evidence_)
        = IF tier = "weak" THEN weak ELSE IF tier = "slow" THEN slow ELSE final
  BY DEF AfterReaction, passed, fast
<1> HIDE DEF weak, slow, final
<1> QED
  BY <1>3, <1>5, <1>8, <1>9 DEF Ended

\* Whether the price scans have nothing left to find.
Resolved(found) ==
  found.forming # None /\ found.interaction # None
    /\ (found.class # "ELIGIBLE" \/ found.close # None)

LEMMA StepsWalk ==
  ASSUME NEW found, found.forming \in Int, found.interaction \in Int, found.close \in Int,
         NEW a \in Int, NEW events_, NEW evidence_,
         evidence_ # NoEvidence => evidence_.time \in Int
  PROVE  /\ IsWalk(Steps(found, a, events_, evidence_))
         /\ Resolved(found) /\ (found.close # None => Decides(evidence_, TimeOf(found.close))) =>
              LastFields(Steps(found, a, events_, evidence_)).primary \in Ended
<1> DEFINE s == InitialStep(a)
           first == <<s>>
           entered == [primary |-> "BTMM_FORMING", stage |-> "POI_INTERACTION"]
           forming == Emit(first, "ENTERED_FORMING", Candle(found.forming),
                           TimeOf(found.forming), entered)
           reason == "INTERACTION_INELIGIBLE"
           out == Emit(forming, reason, Candle(found.interaction), TimeOf(found.interaction),
                       Cancelled(reason))
           eligible == Emit(forming, "ACCURACY_GATE_CONFIRMED", Candle(found.interaction),
                            TimeOf(found.interaction), [stage |-> "REACTION_MONITORING"])
           final == AfterReaction(eligible, found.tier, found.close, events_, evidence_)
<1>1. TimeOf(found.forming) \in Int /\ TimeOf(found.interaction) \in Int
  BY DEF TimeOf
<1>2. IsWalk(first)
  <2>1. IsStep(s)
    BY DEF IsStep, InitialStep
  <2> HIDE DEF s
  <2> QED
    BY <2>1, WalkOfOne
<1> HIDE DEF first
<1>3. IsWalk(forming)
  BY <1>1, <1>2, EmitWalk
<1> HIDE DEF forming
<1>4. "primary" \in DOMAIN Cancelled(reason) /\ Cancelled(reason).primary = "BTMM_CANCELLED"
  BY DEF Cancelled
<1>5. IsWalk(out) /\ LastFields(out).primary = "BTMM_CANCELLED"
  BY <1>1, <1>3, <1>4, EmitWalk
<1>6. IsWalk(eligible)
  BY <1>1, <1>3, EmitWalk
<1> HIDE DEF eligible
<1>7. IsWalk(final)
      /\ (Decides(evidence_, TimeOf(found.close)) => LastFields(final).primary \in Ended)
  BY <1>6, GatesWalk
<1>8. Steps(found, a, events_, evidence_)
        = IF found.forming = None THEN first
          ELSE IF found.interaction = None THEN forming
          ELSE IF found.class # "ELIGIBLE" THEN out
          ELSE IF found.close = None THEN eligible ELSE final
  BY DEF Steps, AfterInteraction, first, forming, eligible
<1> HIDE DEF out, final
<1> QED
  BY <1>2, <1>3, <1>5, <1>6, <1>7, <1>8 DEF Resolved, Ended

\* The steps kept before a time: there are such, and they are a walk.
IsKept(steps, time, n) ==
  /\ n \in 1 .. Len(steps)
  /\ \A k \in 2 .. n : steps[k].fields.time < time
  /\ n < Len(steps) => steps[n + 1].fields.time >= time

LEMMA KeptWalk ==
  ASSUME NEW steps, IsWalk(steps), NEW time \in Int
  PROVE  \E n : /\ IsKept(steps, time, n) /\ KeptBefore(steps, time) = SubSeq(steps, 1, n)
                /\ IsWalk(SubSeq(steps, 1, n))
<1> DEFINE Late(k) == k \in 2 .. Len(steps) /\ steps[k].fields.time >= time
<1>1. Len(steps) \in Nat \ {0} /\ \A k \in 1 .. Len(steps) : steps[k].fields.time \in Int
  BY WalkLast DEF IsStep
<1>2. \E n : IsKept(steps, time, n)
  <2>1. CASE \E k \in Nat : Late(k)
    <3> HIDE DEF Late
    <3>1. PICK k \in Nat : Late(k) /\ \A j \in 0 .. k - 1 : ~ Late(j)
      <4> DEFINE S == {k \in Nat : Late(k)}
      <4>1. \E k \in S : \A j \in S : k <= j
        <5>1. S \in SUBSET Nat /\ S # {}
          BY <2>1
        <5> HIDE DEF S
        <5> QED
          BY <5>1, LeastNat
      <4> QED
        BY <4>1
    <3>2. k \in 2 .. Len(steps) /\ steps[k].fields.time >= time
      BY <3>1 DEF Late
    <3>3. \A j \in 2 .. k - 1 : steps[j].fields.time < time
      BY <1>1, <3>1, <3>2 DEF Late
    <3> DEFINE n == k - 1
    <3>4. n \in 1 .. Len(steps) /\ n + 1 = k
      BY <1>1, <3>2
    <3>5. IsKept(steps, time, n)
      BY <3>2, <3>3, <3>4 DEF IsKept
    <3> QED
      BY <3>5
  <2>2. CASE ~ \E k \in Nat : Late(k)
    <3>1. \A k \in 2 .. Len(steps) : steps[k].fields.time < time
      BY <1>1, <2>2
    <3>2. IsKept(steps, time, Len(steps))
      BY <1>1, <3>1 DEF IsKept
    <3> QED
      BY <3>2
  <2> QED
    BY <2>1, <2>2
<1> DEFINE m == CHOOSE n \in 1 .. Len(steps) :
                     /\ \A k \in 2 .. n : steps[k].fields.time < time
                     /\ n < Len(steps) => steps[n + 1].fields.time >= time
<1>3. IsKept(steps, time, m)
  BY <1>2 DEF IsKept
<1>4. KeptBefore(steps, time) = SubSeq(steps, 1, m)
  BY DEF KeptBefore
<1> HIDE DEF m
<1>5. IsWalk(SubSeq(steps, 1, m))
  <2>1. PICK S : (\A s \in S : IsStep(s)) /\ steps \in Seq(S) /\ steps # << >>
    BY DEF IsWalk
  <2>2. m \in 1 .. Len(steps)
    BY <1>3 DEF IsKept
  <2>3. SubSeq(steps, 1, m) \in Seq(S) /\ SubSeq(steps, 1, m) # << >>
    BY <2>1, <2>2
  <2> QED
    BY <2>1, <2>3 DEF IsWalk
<1> QED
  BY <1>3, <1>4, <1>5

\* A rejected setup ends cancelled.
LEMMA RejectedEnds ==
  ASSUME NEW steps, IsWalk(steps), NEW at \in Nat
  PROVE  /\ IsWalk(RejectIfInvalidated(steps, at))
         /\ LastFields(RejectIfInvalidated(steps, at)).primary = "BTMM_CANCELLED"
<1> DEFINE kept == KeptBefore(steps, TimeOf(at))
           change == [primary |-> "BTMM_CANCELLED", cancel |-> "POI_REJECTED", blocked |-> "NONE"]
           new == Emit(kept, "POI_REJECTED", Candle(at), TimeOf(at), change)
<1>1. TimeOf(at) \in Int /\ at # None
  BY DEF TimeOf, None
<1>2. IsWalk(kept)
  BY <1>1, KeptWalk
<1>3. "primary" \in DOMAIN change /\ change.primary = "BTMM_CANCELLED"
  OBVIOUS
<1> HIDE DEF kept, change
<1>4. IsWalk(new) /\ LastFields(new).primary = "BTMM_CANCELLED"
  BY <1>1, <1>2, <1>3, EmitWalk
<1>5. RejectIfInvalidated(steps, at)
        = IF LastFields(kept).primary = "BTMM_CANCELLED" THEN kept ELSE new
  BY <1>1 DEF RejectIfInvalidated, kept, change
<1> QED
  BY <1>2, <1>4, <1>5

\* A setup that is rejected or whose scans are done is blocked, confirmed or
\* cancelled, unless evidence that does not decide came after its window.
LEMMA CascadeEnds ==
  ASSUME NEW found, found.forming \in Int, found.interaction \in Int, found.close \in Int,
         NEW a \in Int, NEW events_, GenuineAt(events_) \in Nat \cup {None}, NEW evidence_,
         evidence_ # NoEvidence => evidence_.time \in Int,
         \/ GenuineAt(events_) # None
         \/ /\ Resolved(found)
            /\ found.close # None => Decides(evidence_, TimeOf(found.close))
  PROVE  Cascade(found, a, events_, evidence_).fields.primary \in Ended
<1> DEFINE steps == Steps(found, a, events_, evidence_)
           final == RejectIfInvalidated(steps, GenuineAt(events_))
<1>1. /\ IsWalk(steps)
      /\ Resolved(found) /\ (found.close # None => Decides(evidence_, TimeOf(found.close))) =>
           LastFields(steps).primary \in Ended
  BY StepsWalk
<1> HIDE DEF steps
<1>2. LastFields(final).primary \in Ended
  <2>1. CASE GenuineAt(events_) = None
    BY <1>1, <2>1 DEF RejectIfInvalidated
  <2>2. CASE GenuineAt(events_) # None
    BY <1>1, <2>2, RejectedEnds DEF Ended
  <2> QED
    BY <2>1, <2>2
<1> HIDE DEF final
<1>3. \A ss : WalkResult(ss).fields = LastFields(ss)
  BY DEF WalkResult
<1>4. Cascade(found, a, events_, evidence_) = WalkResult(final)
  BY DEF Cascade, final, steps
<1> QED
  BY <1>2, <1>3, <1>4

-----------------------------------------------------------------------------
(*****************************************************************************)
(* Evidence in time, and the assertion of _reconcile.                        *)
(*****************************************************************************)
\* No evidence tried blocks a setup.
ReviewsDecide == \A r \in Reviews, t \in Int : ResolveFinalGates(Review(r, t)).kind # "BLOCKED"

\* No evidence becomes visible after its window, and no zone is redrawn.
EvidenceInTime == "late evidence" \notin Allow /\ "redrawn zones" \notin Allow

InTime(h, s, evidence_) ==
  /\ evidence_.time < TimeOf(Len(h))
  /\ Scan(ViewsOf(h, s.zone), s.available).close # None =>
       evidence_.time <= TimeOf(Scan(ViewsOf(h, s.zone), s.available).close)

\* The evidence visible is a review, not later than the close of its window
\* where none is.
ReviewFits(h, s, evidence_) ==
  evidence_ # NoEvidence =>
    /\ \E r \in Reviews, t \in Int : evidence_ = Review(r, t)
    /\ EvidenceInTime => InTime(h, s, evidence_)

ReviewsFit == \A p \in DOMAIN specs : ReviewFits(candles, specs[p], visible[p])

\* A review in time stays in time.
LEMMA InTimeGrows ==
  ASSUME NEW h \in Seq(Candles), NEW s \in PoiSpecs, NEW c \in Candles, NEW e, e.time \in Int,
         \/ InTime(h, s, e)
         \/ e.time <= TimeOf(Len(h)) /\ Scan(ViewsOf(h, s.zone), s.available).close = None
  PROVE  InTime(Append(h, c), s, e)
<1> DEFINE a == s.available
           f == ViewsOf(h, s.zone)
           H == Append(h, c)
           g == ViewsOf(H, s.zone)
           v == c[s.zone]
           now == Scan(f, a).close
           then == Scan(g, a).close
           n == Len(h)
<1>1. /\ a \in Int /\ f \in Seq(BtmmView) /\ Len(f) = n /\ n \in Nat
      /\ v \in BtmmView /\ Len(H) = n + 1 /\ g = Append(f, v)
  BY ViewsType
<1>2. then = now \/ (now = None /\ then = n)
  <2> HIDE DEF a, f, v, H, g
  <2>1. Scan(Append(f, v), a).close = now \/ (now = None /\ Scan(Append(f, v), a).close = Len(f))
    BY <1>1, ScanGrows
  <2> QED
    BY <1>1, <2>1
<1>3. InTime(h, s, e) <=> e.time < TimeOf(n) /\ (now # None => e.time <= TimeOf(now))
  BY DEF InTime
<1>4. InTime(H, s, e) <=> e.time < TimeOf(Len(H)) /\ (then # None => e.time <= TimeOf(then))
  BY DEF InTime
<1>5. TimeOf(n) \in Int /\ TimeOf(Len(H)) \in Int /\ TimeOf(n) < TimeOf(Len(H))
  BY <1>1 DEF TimeOf
<1>6. CASE InTime(h, s, e)
  <2> HIDE DEF now, then, H, g, f, n
  <2>1. InTime(H, s, e)
    BY <1>2, <1>3, <1>4, <1>5, <1>6
  <2> QED
    BY <2>1 DEF H
<1>7. CASE e.time <= TimeOf(n) /\ now = None
  <2> HIDE DEF now, then, H, g, f, n
  <2>1. InTime(H, s, e)
    BY <1>2, <1>4, <1>5, <1>7
  <2> QED
    BY <2>1 DEF H
<1> QED
  BY <1>6, <1>7

LEMMA GroupReviews ==
  ASSUME ReplayInv, ReviewsFit, NEW c, NEW d, NEW happened, NEW seen,
         Turn(c, d, happened, seen)
  PROVE  \A p \in DOMAIN Revised(specs, d) :
           ReviewFits(Append(candles, c), Revised(specs, d)[p], seen[p])
<1> DEFINE next == Revised(specs, d)
           before == EvidenceNow(d)
           kept == Kept(DOMAIN specs, d)
<1>1. /\ DOMAIN before = DOMAIN next
      /\ \A p \in DOMAIN next : before[p] = IF p \in DOMAIN visible THEN visible[p] ELSE NoEvidence
  BY DEF EvidenceNow, Over
<1> HIDE DEF before
<1>2. seen \in Sightings(before, next, TimeOf(total)) /\ Possible(d)
  BY DEF Turn, before
<1>3. total \in Nat /\ TimeOf(total) \in Int /\ candles \in Seq(Candles)
      /\ DOMAIN visible = DOMAIN specs
  BY DEF ReplayInv, total, TimeOf, DomainsFit
<1>4. /\ c \in Candles
      /\ DOMAIN next = kept \cup DOMAIN d.given
      /\ kept = (DOMAIN specs \ d.removed) \ DOMAIN d.given
      /\ \A p \in DOMAIN next : next[p] \in PoiSpecs
      /\ \A p \in kept : next[p] = specs[p]
  BY TurnSpecs
<1>5. \A p \in DOMAIN next :
        \/ seen[p] = before[p]
        \/ /\ before[p] = NoEvidence /\ MayBeReviewed(p, next[p], before, TimeOf(total))
           /\ \E r \in Reviews, t \in Int : t <= TimeOf(total) /\ seen[p] = Review(r, t)
           /\ seen[p].time \in Int /\ seen[p].time <= TimeOf(total)
  BY <1>1, <1>2, <1>3, Sighted
<1> SUFFICES ASSUME NEW p \in DOMAIN next, seen[p] # NoEvidence
             PROVE  /\ \E r \in Reviews, t \in Int : seen[p] = Review(r, t)
                    /\ EvidenceInTime => InTime(Append(candles, c), next[p], seen[p])
  BY DEF ReviewFits
<1>6. CASE seen[p] = before[p]
  <2>1. p \in DOMAIN specs /\ seen[p] = visible[p]
    BY <1>1, <1>3, <1>6
  <2>2. /\ \E r \in Reviews, t \in Int : seen[p] = Review(r, t)
        /\ EvidenceInTime => InTime(candles, specs[p], seen[p])
    BY <2>1 DEF ReviewsFit, ReviewFits
  <2>3. EvidenceInTime => p \in kept
    <3> SUFFICES ASSUME EvidenceInTime, p \notin kept PROVE FALSE
      OBVIOUS
    <3>1. p \in DOMAIN d.given
      BY <1>4
    <3> QED
      BY <1>2, <2>1, <3>1 DEF Possible, EvidenceInTime
  <2>4. seen[p].time \in Int
    BY <2>2 DEF Review
  <2>5. next[p] \in PoiSpecs
    BY <1>4
  <2>6. EvidenceInTime => InTime(candles, next[p], seen[p])
    BY <1>4, <2>2, <2>3
  <2> QED
    BY <1>3, <1>4, <2>2, <2>4, <2>5, <2>6, InTimeGrows
<1>7. CASE seen[p] # before[p]
  <2>1. /\ MayBeReviewed(p, next[p], before, TimeOf(total))
        /\ \E r \in Reviews, t \in Int : seen[p] = Review(r, t)
        /\ seen[p].time \in Int /\ seen[p].time <= TimeOf(Len(candles))
    BY <1>5, <1>7 DEF total
  <2>2. EvidenceInTime =>
          Scan(ViewsOf(candles, next[p].zone), next[p].available).close = None
    BY <2>1 DEF MayBeReviewed, EvidenceInTime
  <2>3. next[p] \in PoiSpecs
    BY <1>4
  <2> QED
    BY <1>3, <1>4, <2>1, <2>2, <2>3, InTimeGrows
<1> QED
  BY <1>6, <1>7

\* The reconciled setups that are resolved are blocked, confirmed or cancelled.
LEMMA AssertionHolds ==
  ASSUME ReplayInv, ReviewsFit, ReviewsDecide \/ EvidenceInTime,
         NEW c, NEW d, NEW happened, NEW seen, Turn(c, d, happened, seen)
  PROVE  LET next == Revised(specs, d)
             after == After(c, d, happened, seen)
             known == Known(d, happened)
             walks == Walks(after, next, known, EvidenceAfter(d, seen))
         IN  \A p \in DOMAIN after :
               Regs(after, next, known, walks)[p].stage # "ASSERTION"
<1> DEFINE next == Revised(specs, d)
           after == After(c, d, happened, seen)
           known == Known(d, happened)
           evid == EvidenceAfter(d, seen)
           walks == Walks(after, next, known, evid)
<1> SUFFICES ASSUME NEW p \in DOMAIN after
             PROVE  StageOf(after[p], known[p], walks[p].fields.primary) # "ASSERTION"
  BY DEF Regs
<1> DEFINE a == next[p].available
           H == ViewsOf(Append(candles, c), next[p].zone)
           x == after[p]
           e == evid[p]
<1>1. c \in Candles /\ \A q \in DOMAIN next : next[q] \in PoiSpecs
  BY TurnSpecs
<1>2. p \in DOMAIN next /\ CursorFits(x, H, a, GenuineAt(known[p]))
  BY TurnCursors DEF CursorThen
<1>3. ReviewFits(Append(candles, c), next[p], seen[p])
  BY <1>2, GroupReviews
<1>4. e = seen[p] /\ (e # NoEvidence => e.time \in Int)
  BY <1>2, TurnEvidence DEF EvidenceFits
<1>5. candles \in Seq(Candles)
  BY DEF ReplayInv
<1>6. Append(candles, c) \in Seq(Candles) /\ Append(candles, c) # << >>
  BY <1>1, <1>5
<1>7. a \in Int /\ H \in Seq(BtmmView) /\ H # << >>
  BY <1>1, <1>2, <1>6, ViewsType
<1>8. walks[p] = Cascade(FoundBy(x), a, known[p], e)
  BY <1>2 DEF Walks, MaterializeCursor, FoundBy
<1> HIDE DEF next, after, known, evid, walks, a, H, x, e
<1>9. x \in Shaped /\ GenuineAt(known[p]) \in Nat \cup {None}
      /\ (GenuineAt(known[p]) = None => InStep(x, H, a))
  BY <1>2, <1>7 DEF CursorFits, InStep
<1>10. /\ FoundBy(x).forming = x.forming /\ FoundBy(x).interaction = x.interaction
       /\ FoundBy(x).close = x.close /\ FoundBy(x).class = x.class
  BY DEF FoundBy, Found
<1>11. x.forming \in Int /\ x.interaction \in Int /\ x.close \in Int
  BY <1>9 DEF Shaped, None
<1>12. SUFFICES ASSUME GenuineAt(known[p]) # None \/ PriceStage(x) = "RESOLVED"
                PROVE  walks[p].fields.primary \in Ended
  <2>1. PriceStage(x) # "ASSERTION"
    BY DEF PriceStage
  <2>2. Ended = {"BTMM_BLOCKED", "BTMM_CONFIRMED", "BTMM_CANCELLED"}
    BY DEF Ended
  <2>3. \A primary : (GenuineAt(known[p]) # None \/ PriceStage(x) = "RESOLVED" => primary \in Ended)
                       => StageOf(x, known[p], primary) # "ASSERTION"
    BY <2>1, <2>2 DEF StageOf
  <2> QED
    BY <2>3 DEF x
<1>13. CASE GenuineAt(known[p]) # None
  <2>1. Cascade(FoundBy(x), a, known[p], e).fields.primary \in Ended
    BY <1>4, <1>7, <1>9, <1>10, <1>11, <1>13, CascadeEnds
  <2> QED
    BY <1>8, <2>1
<1>14. CASE GenuineAt(known[p]) = None
  <2>1. FoundBy(x) = Scan(H, a)
    BY <1>7, <1>9, <1>14, InStepFound
  <2>2. Resolved(FoundBy(x))
    BY <1>10, <1>12, <1>14 DEF PriceStage, Resolved
  <2>3. ASSUME x.close # None PROVE Decides(e, TimeOf(x.close))
    <3>1. CASE e = NoEvidence
      BY <3>1 DEF Decides
    <3>2. CASE e # NoEvidence /\ ReviewsDecide
      <4>1. \E r \in Reviews, t \in Int : e = Review(r, t)
        BY <1>3, <1>4, <3>2 DEF ReviewFits
      <4> QED
        BY <3>2, <4>1 DEF ReviewsDecide, Decides
    <3>3. CASE e # NoEvidence /\ EvidenceInTime
      <4>1. InTime(Append(candles, c), next[p], e)
        BY <1>3, <1>4, <3>3 DEF ReviewFits
      <4>2. Scan(H, a).close = x.close
        BY <1>10, <2>1
      <4> QED
        BY <2>3, <4>1, <4>2 DEF InTime, Decides, H, a
    <3> QED
      BY <3>1, <3>2, <3>3
  <2>4. Cascade(FoundBy(x), a, known[p], e).fields.primary \in Ended
    BY <1>4, <1>7, <1>9, <1>10, <1>11, <2>2, <2>3, CascadeEnds
  <2> QED
    BY <1>8, <2>4
<1> QED
  BY <1>13, <1>14

-----------------------------------------------------------------------------
(*****************************************************************************)
(* The scheduler keeps its invariant until an assertion fails.               *)
(*****************************************************************************)
\* The invariant of the scheduler and of the evidence it is given.
Inv == ReplayInv /\ ReviewsFit

\* A step is a turn of the environment with a candle, or evidence alone.
LEMMA StepCases ==
  ASSUME Next
  PROVE  /\ ~ failed
         /\ \/ \E c, d, happened, seen :
                 /\ Turn(c, d, happened, seen)
                 /\ Group(c, d, happened, Walk(WalksNow(d), happened), seen)
            \/ \E seen \in Sightings(visible, specs, TimeOf(total) - 1) : OtherGroup(seen)
<1>1. ASSUME NEW c \in Candles, NEW d \in Delta(DOMAIN specs), Possible(d),
             AnyGroup(c, d, Over(walkEvents, DOMAIN Revised(specs, d), << >>),
                      Over(visible, DOMAIN Revised(specs, d), NoEvidence))
      PROVE  \E happened, seen :
               /\ Turn(c, d, happened, seen)
               /\ Group(c, d, happened, Walk(WalksNow(d), happened), seen)
  <2>1. AnyGroup(c, d, WalksNow(d), EvidenceNow(d))
    BY <1>1 DEF WalksNow, EvidenceNow
  <2>2. PICK happened \in Happenings(DOMAIN WalksNow(d)) :
          \E later \in Sightings(EvidenceNow(d), Revised(specs, d), TimeOf(total)) :
            /\ \A p \in DOMAIN happened : MayHappen(happened[p], WalksNow(d)[p])
            /\ Group(c, d, happened, Walk(WalksNow(d), happened), later)
    BY <2>1 DEF AnyGroup
  <2>3. PICK later \in Sightings(EvidenceNow(d), Revised(specs, d), TimeOf(total)) :
            /\ \A p \in DOMAIN happened : MayHappen(happened[p], WalksNow(d)[p])
            /\ Group(c, d, happened, Walk(WalksNow(d), happened), later)
    BY <2>2
  <2>4. Turn(c, d, happened, later)
    BY <1>1, <2>2, <2>3 DEF Turn
  <2> QED
    BY <2>3, <2>4
<1> QED
  BY <1>1 DEF Next

LEMMA InitInv ==
  ASSUME Init
  PROVE  Inv /\ ~ failed
<1>1. DOMAIN specs = {} /\ DOMAIN cursors = {} /\ DOMAIN regs = {} /\ DOMAIN walkEvents = {}
      /\ DOMAIN visible = {} /\ DOMAIN poiTransitions = {} /\ DOMAIN reviewedEvidence = {}
      /\ DOMAIN ledger = {} /\ candles \in Seq(Candles)
  BY DEF Init
<1>2. RegistriesFit
  <2>1. Forming(regs) = {} /\ Interacting(regs) = {} /\ Watching(regs) = {}
        /\ DueAt(total, regs) = {}
    BY <1>1 DEF Forming, Interacting, Watching, DueAt
  <2> QED
    BY <2>1 DEF Init, RegistriesFit
<1> QED
  BY <1>1, <1>2 DEF Init, Inv, ReplayInv, ReviewsFit, DomainsFit

\* With evidence alone the engine stays as it is.
LEMMA OtherGroupInv ==
  ASSUME Inv, NEW seen \in Sightings(visible, specs, TimeOf(total) - 1), OtherGroup(seen)
  PROVE  Inv'
<1>1. /\ visible' = seen
      /\ UNCHANGED <<candles, specs, walkEvents, cursors, regs, formingIndex, interactionIndex,
                     due, watch, poiTransitions, reviewedEvidence, relayedTransitions,
                     relayedEvidence, ledger>>
  BY DEF OtherGroup, engine, scheduler
<1>2. candles \in Seq(Candles) /\ total \in Nat /\ TimeOf(total) \in Int
      /\ DOMAIN visible = DOMAIN specs
  BY DEF Inv, ReplayInv, total, TimeOf, DomainsFit
<1> DEFINE now == TimeOf(total) - 1
<1>3. now \in Int
  BY <1>2
<1>4. /\ DOMAIN seen = DOMAIN specs
      /\ \A p \in DOMAIN specs :
           \/ seen[p] = visible[p]
           \/ /\ visible[p] = NoEvidence /\ MayBeReviewed(p, specs[p], visible, now)
              /\ \E r \in Reviews, t \in Int : t <= now /\ seen[p] = Review(r, t)
              /\ seen[p].time \in Int /\ seen[p].time <= now
  BY <1>2, <1>3, Sighted
<1>5. ASSUME NEW p \in DOMAIN specs PROVE SetupFits(p)'
  <2>1. SetupFits(p)
    BY DEF Inv, ReplayInv
  <2>2. EvidenceFits(p \in relayedEvidence, seen[p], reviewedEvidence[p])
    <3>1. EvidenceFits(p \in relayedEvidence, visible[p], reviewedEvidence[p])
      BY <2>1 DEF SetupFits
    <3> QED
      BY <1>4, <3>1 DEF EvidenceFits
  <2>3. EvidenceFits(p \in relayedEvidence, visible[p], reviewedEvidence[p])'
    BY <1>1, <2>2 DEF EvidenceFits
  <2>4. ViewsOf(candles, specs[p].zone)' = ViewsOf(candles, specs[p].zone)
    BY <1>1 DEF ViewsOf
  <2>5. CursorFits(cursors[p], ViewsOf(candles, specs[p].zone), specs[p].available,
                   GenuineAt(poiTransitions[p]))'
    BY <1>1, <2>1, <2>4 DEF SetupFits, CursorFits
  <2> QED
    BY <1>1, <2>1, <2>3, <2>5 DEF SetupFits, StageFits, RelayFits, total
<1>6. ReplayInv'
  <2>1. ReplayInv
    BY DEF Inv
  <2>2. DomainsFit' /\ RegistriesFit'
    BY <1>1, <1>4, <2>1 DEF ReplayInv, DomainsFit, RegistriesFit, Forming, Interacting,
         Watching, DueAt, total
  <2> QED
    BY <1>1, <1>5, <2>1, <2>2 DEF ReplayInv
<1>7. ASSUME NEW p \in DOMAIN specs PROVE ReviewFits(candles, specs[p], seen[p])
  <2>1. CASE seen[p] = visible[p]
    BY <2>1 DEF Inv, ReviewsFit
  <2>2. CASE seen[p] # visible[p]
    <3>1. /\ \E r \in Reviews, t \in Int : seen[p] = Review(r, t)
          /\ seen[p].time \in Int /\ seen[p].time <= now
          /\ MayBeReviewed(p, specs[p], visible, now)
      BY <1>4, <2>2
    <3>2. seen[p].time < TimeOf(Len(candles))
      BY <1>2, <3>1 DEF total
    <3>3. EvidenceInTime =>
            Scan(ViewsOf(candles, specs[p].zone), specs[p].available).close = None
      BY <3>1 DEF MayBeReviewed, EvidenceInTime
    <3>4. EvidenceInTime => InTime(candles, specs[p], seen[p])
      BY <3>2, <3>3 DEF InTime
    <3> QED
      BY <3>1, <3>4 DEF ReviewFits
  <2> QED
    BY <2>1, <2>2
<1>8. ReviewsFit'
  BY <1>1, <1>7 DEF ReviewsFit, ReviewFits, InTime, ViewsOf, Review
<1> QED
  BY <1>6, <1>8 DEF Inv

LEMMA GroupKeepsInv ==
  ASSUME Inv, NEW c, NEW d, NEW happened, NEW seen, Turn(c, d, happened, seen),
         Group(c, d, happened, Walk(WalksNow(d), happened), seen), ~ failed'
  PROVE  Inv'
<1>1. ReplayInv /\ ReviewsFit
  BY DEF Inv
<1>2. ReplayInv'
  BY <1>1, GroupInv
<1>3. candles' = Append(candles, c) /\ specs' = Revised(specs, d) /\ visible' = seen
  BY DEF Group
<1>4. \A p \in DOMAIN Revised(specs, d) :
        ReviewFits(Append(candles, c), Revised(specs, d)[p], seen[p])
  BY <1>1, GroupReviews
<1>5. ReviewsFit'
  BY <1>3, <1>4, SMTT(60) DEF ReviewsFit, ReviewFits, InTime, ViewsOf, Review
<1> QED
  BY <1>2, <1>5 DEF Inv

LEMMA UnchangedInv ==
  ASSUME Inv, UNCHANGED vars
  PROVE  Inv'
<1>1. UNCHANGED <<candles, specs, walkEvents, visible, cursors, regs, formingIndex,
                  interactionIndex, due, watch, poiTransitions, reviewedEvidence,
                  relayedTransitions, relayedEvidence, ledger, woken, failed>>
  BY DEF vars, environment, engine, scheduler
<1>2. DomainsFit' /\ RegistriesFit'
  BY <1>1 DEF Inv, ReplayInv, DomainsFit, RegistriesFit, Forming, Interacting, Watching, DueAt,
       total
<1>3. ASSUME NEW p \in DOMAIN specs PROVE SetupFits(p)'
  <2>1. ViewsOf(candles, specs[p].zone)' = ViewsOf(candles, specs[p].zone)
    BY <1>1 DEF ViewsOf
  <2>2. SetupFits(p)
    BY DEF Inv, ReplayInv
  <2> QED
    BY <1>1, <2>1, <2>2 DEF SetupFits, CursorFits, StageFits, RelayFits, EvidenceFits, total
<1>4. ReviewsFit'
  BY <1>1 DEF Inv, ReviewsFit, ReviewFits, InTime, ViewsOf, Review
<1> QED
  BY <1>1, <1>2, <1>3, <1>4 DEF Inv, ReplayInv

\* The invariant holds until an assertion fails.
LEMMA InvUntilFailure == Spec => [](failed \/ Inv)
<1>1. Init => failed \/ Inv
  BY InitInv
<1>2. (failed \/ Inv) /\ [Next]_vars => (failed \/ Inv)'
  <2> SUFFICES ASSUME failed \/ Inv, [Next]_vars PROVE failed' \/ Inv'
    OBVIOUS
  <2>1. CASE UNCHANGED vars
    <3>1. failed' = failed
      BY <2>1 DEF vars
    <3> QED
      BY <2>1, <3>1, UnchangedInv
  <2>2. CASE Next
    <3>1. Inv
      BY <2>2, StepCases
    <3>2. ASSUME NEW seen \in Sightings(visible, specs, TimeOf(total) - 1), OtherGroup(seen)
          PROVE  Inv'
      BY <3>1, <3>2, OtherGroupInv
    <3>3. ASSUME NEW c, NEW d, NEW happened, NEW seen, Turn(c, d, happened, seen),
                 Group(c, d, happened, Walk(WalksNow(d), happened), seen), ~ failed'
          PROVE  Inv'
      BY <3>1, <3>3, GroupKeepsInv
    <3> QED
      BY <2>2, <3>2, <3>3, StepCases
  <2> QED
    BY <2>1, <2>2
<1> QED
  BY <1>1, <1>2, PTL DEF Spec

\* As long as no assertion has failed, fast_forward_btmm_cursor is called where
\* its preconditions hold only: a cursor behind the head is dormant, or it is that
\* of a rejected setup, which no index and no due registry names any more.
THEOREM ReplayFastForwards == Spec => [](NoAssertionFails => FastForwardIsSafe)
<1>1. failed \/ Inv => (NoAssertionFails => FastForwardIsSafe)
  <2> SUFFICES ASSUME ReplayInv, NEW p \in DOMAIN cursors
               PROVE  \/ cursors[p].total = total
                      \/ Dormant(cursors[p])
                      \/ /\ GenuineAt(poiTransitions[p]) # None
                         /\ \A e \in formingIndex \cup interactionIndex : e[2] # p
                         /\ <<total, p>> \notin due
    BY DEF Inv, NoAssertionFails, FastForwardIsSafe
  <2>1. p \in DOMAIN specs /\ DOMAIN regs = DOMAIN specs /\ SetupFits(p)
    BY DEF ReplayInv, DomainsFit
  <2>2. CASE GenuineAt(poiTransitions[p]) = None
    <3>1. InStep(cursors[p], ViewsOf(candles, specs[p].zone), specs[p].available)
      BY <2>1, <2>2 DEF SetupFits, CursorFits
    <3>2. Len(ViewsOf(candles, specs[p].zone)) = total
      BY <2>1, ViewsType DEF SetupFits, ReplayInv, total
    <3> QED
      BY <3>1, <3>2 DEF InStep
  <2>3. CASE GenuineAt(poiTransitions[p]) # None
    <3>1. regs[p].stage \notin PriceStages
      BY <2>1, <2>3 DEF SetupFits, StageFits
    <3>2. /\ \A e \in formingIndex \cup interactionIndex : e[2] # p
          /\ <<total, p>> \notin due
      BY <3>1 DEF ReplayInv, RegistriesFit, Forming, Interacting, DueAt, IsDue, PriceStages
    <3> QED
      BY <2>3, <3>2
  <2> QED
    BY <2>2, <2>3
<1> QED
  BY <1>1, InvUntilFailure, PTL

\* As long as no assertion has failed, the wake indexes, the watch set and the due
\* registry of lifecycle_scheduler.py are what the registrations say, of present
\* setups only, and no cursor is ahead of the stream.
THEOREM ReplayTyped ==
  ASSUME \A x \in Int, w \in Seq(BtmmView) : EvaluateReaction(x, w) \in Tier
  PROVE  Spec => [](NoAssertionFails => TypeOK)
<1>1. failed \/ Inv => (NoAssertionFails => TypeOK)
  <2> SUFFICES ASSUME ReplayInv PROVE TypeOK
    BY DEF Inv, NoAssertionFails
  <2>1. DOMAIN cursors = DOMAIN specs /\ DOMAIN regs = DOMAIN specs
    BY DEF ReplayInv, DomainsFit
  <2>2. formingIndex = Forming(regs) /\ interactionIndex = Interacting(regs)
        /\ watch = Watching(regs) /\ due = DueAt(total, regs)
    BY DEF ReplayInv, RegistriesFit
  <2>3. ASSUME NEW p \in DOMAIN cursors PROVE cursors[p] \in Cursor /\ cursors[p].total <= total
    <3>1. CursorFits(cursors[p], ViewsOf(candles, specs[p].zone), specs[p].available,
                     GenuineAt(poiTransitions[p]))
      BY <2>1 DEF ReplayInv, SetupFits
    <3>2. Len(ViewsOf(candles, specs[p].zone)) = total
      BY <2>1, ViewsType DEF SetupFits, ReplayInv, total
    <3>3. cursors[p] \in Shaped /\ cursors[p].total <= total
      BY <3>1, <3>2 DEF CursorFits, InStep
    <3>4. Tiers \subseteq Tier \cup {"NONE"}
      BY DEF Tiers
    <3> QED
      BY <3>3, <3>4 DEF Shaped, Cursor
  <2>4. \A e \in due : e[1] = total
    BY <2>2 DEF DueAt
  <2>5. ASSUME NEW p \in DOMAIN regs
        PROVE  /\ regs[p].zone = specs[p].zone /\ regs[p].key = specs[p].available
               /\ IsDue(regs[p].stage) => <<total, p>> \in due
    BY <2>1, <2>2 DEF ReplayInv, SetupFits, DueAt
  <2> QED
    BY <2>1, <2>2, <2>3, <2>4, <2>5 DEF TypeOK
<1> QED
  BY <1>1, InvUntilFailure, PTL

\* The assertion of _reconcile cannot fail where no review leaves a setup blocked,
\* nor where no evidence is later than its window and no zone is redrawn.  Both
\* late and undecided evidence is needed for the failure that the run
\* btmm_replay_assertion shows.
THEOREM ReplayAsserts ==
  ASSUME ReviewsDecide \/ EvidenceInTime
  PROVE  Spec => []NoAssertionFails
<1>1. Init => Inv /\ ~ failed
  BY InitInv
<1>2. Inv /\ ~ failed /\ [Next]_vars => (Inv /\ ~ failed)'
  <2> SUFFICES ASSUME Inv, ~ failed, [Next]_vars PROVE Inv' /\ ~ failed'
    OBVIOUS
  <2>1. CASE UNCHANGED vars
    <3>1. failed' = failed
      BY <2>1 DEF vars
    <3> QED
      BY <2>1, <3>1, UnchangedInv
  <2>2. CASE Next
    <3>1. ASSUME NEW seen \in Sightings(visible, specs, TimeOf(total) - 1), OtherGroup(seen)
          PROVE  Inv' /\ ~ failed'
      BY <3>1, OtherGroupInv DEF OtherGroup
    <3>2. ASSUME NEW c, NEW d, NEW happened, NEW seen, Turn(c, d, happened, seen),
                 Group(c, d, happened, Walk(WalksNow(d), happened), seen)
          PROVE  Inv' /\ ~ failed'
      <4>1. ~ failed'
        <5>1. ReplayInv /\ ReviewsFit
          BY DEF Inv
        <5> DEFINE next == Revised(specs, d)
                   after == After(c, d, happened, seen)
                   known == Known(d, happened)
                   walks == Walks(after, next, known, EvidenceAfter(d, seen))
                   newRegs == Regs(after, next, known, walks)
        <5>2. \A p \in DOMAIN after : newRegs[p].stage # "ASSERTION"
          BY <3>2, <5>1, AssertionHolds
        <5>3. DOMAIN newRegs = DOMAIN after
          BY DEF Regs
        <5>4. failed' = TRUE => \E p \in DOMAIN newRegs : newRegs[p].stage = "ASSERTION"
          <6>1. AdvanceScheduler(c, d, Kept(DOMAIN specs, d), happened, Walk(WalksNow(d), happened), seen)
            BY <3>2 DEF Group
          <6>2. Reconcile(d, after, next, known, EvidenceAfter(d, seen), walks, newRegs)
            BY <6>1 DEF AdvanceScheduler, After, Known, ReconcileTouched, ReconcileWalks
          <6> HIDE DEF next, after, known, walks, newRegs
          <6> QED
            BY <6>2 DEF Reconcile
        <5>5. failed' \in BOOLEAN
          <6>1. AdvanceScheduler(c, d, Kept(DOMAIN specs, d), happened, Walk(WalksNow(d), happened), seen)
            BY <3>2 DEF Group
          <6> QED
            BY <6>1 DEF AdvanceScheduler, ReconcileTouched, ReconcileWalks, Reconcile
        <5> HIDE DEF next, after, known, walks, newRegs
        <5> QED
          BY <5>2, <5>3, <5>4, <5>5
      <4> QED
        BY <3>2, <4>1, GroupKeepsInv
    <3> QED
      BY <2>2, <3>1, <3>2, StepCases
  <2> QED
    BY <2>1, <2>2
<1>3. Inv /\ ~ failed => NoAssertionFails
  BY DEF NoAssertionFails
<1> QED
  BY <1>1, <1>2, <1>3, PTL DEF Spec

-----------------------------------------------------------------------------
(*****************************************************************************)
(* How a walk grows with what the scans find.                                *)
(*****************************************************************************)
\* t goes on from s; its first step that is new has a time.
Extends(s, t) == Len(s) <= Len(t) /\ \A k \in 1 .. Len(s) : t[k] = s[k]

GrowsAt(s, t, time) ==
  Extends(s, t) /\ Len(s) < Len(t) /\ t[Len(s) + 1].fields.time = time

LEMMA EmitGrows ==
  ASSUME NEW s, IsWalk(s), NEW type, NEW trigger, NEW time \in Int, NEW change
  PROVE  /\ GrowsAt(s, Emit(s, type, trigger, time, change), time)
         /\ Extends(s, Emit(s, type, trigger, time, change))
<1> DEFINE fields == Changed(LastFields(s), change, time)
           x == [type |-> type, trigger |-> trigger, fields |-> fields]
<1>1. "time" \in DOMAIN LastFields(s)
  BY WalkLast DEF IsStep
<1>2. fields.time = time
  BY <1>1 DEF Changed
<1>3. {"primary", "time", "blocked"} \subseteq DOMAIN fields
  BY WalkLast DEF IsStep, Changed
<1> HIDE DEF fields
<1>4. x.fields = fields
  OBVIOUS
<1>5. IsStep(x)
  BY <1>2, <1>3, <1>4 DEF IsStep
<1>6. Emit(s, type, trigger, time, change) = Append(s, x)
  BY DEF Emit, fields
<1> HIDE DEF x
<1>7. /\ Len(s) \in Nat \ {0} /\ Len(Append(s, x)) = Len(s) + 1
      /\ \A k \in 1 .. Len(s) : Append(s, x)[k] = s[k]
      /\ Append(s, x)[Len(s) + 1] = x
  BY <1>5, WalkAppends
<1> QED
  BY <1>2, <1>4, <1>6, <1>7 DEF GrowsAt, Extends

LEMMA ExtendsMore ==
  ASSUME NEW s, NEW t, NEW u, IsWalk(s), IsWalk(t), IsWalk(u), Extends(t, u)
  PROVE  /\ Extends(s, t) => Extends(s, u)
         /\ \A time : GrowsAt(s, t, time) => GrowsAt(s, u, time)
<1>1. Len(s) \in Nat /\ Len(t) \in Nat /\ Len(u) \in Nat
  BY WalkLast
<1> QED
  BY <1>1 DEF Extends, GrowsAt

LEMMA ResolveExtends ==
  ASSUME NEW s, IsWalk(s), NEW outcome, NEW reviewed, NEW time \in Int, NEW trigger,
         NEW late \in BOOLEAN
  PROVE  Extends(s, Resolve(s, outcome, reviewed, time, trigger, late))
<1>1. \A type, change : Extends(s, Emit(s, type, trigger, time, change))
  BY EmitGrows
<1> QED
  BY <1>1 DEF Resolve

LEMMA FinalGatesExtend ==
  ASSUME NEW s, IsWalk(s), NEW t \in Int, NEW evidence_,
         evidence_ # NoEvidence => evidence_.time \in Int
  PROVE  Extends(s, FinalGates(s, t, evidence_))
<1> DEFINE outcome == ResolveFinalGates(evidence_)
           time == evidence_.time
           blocked == Emit(s, "BLOCKED", NoTrigger, t,
                           [primary |-> "BTMM_BLOCKED", blocked |-> "LIQUIDITY_REVIEW_PENDING"])
           late == Resolve(blocked, outcome, time, time, Reviewed(time), TRUE)
<1>1. \A type, trigger, change : Extends(s, Emit(s, type, trigger, t, change))
  BY EmitGrows
<1>2. TRUE \in BOOLEAN /\ FALSE \in BOOLEAN
  OBVIOUS
<1>3. CASE evidence_ = NoEvidence
  BY <1>1, <1>3 DEF FinalGates
<1>4. CASE evidence_ # NoEvidence
  <2>1. IsWalk(blocked) /\ Extends(s, blocked) /\ time \in Int
    BY <1>1, <1>4, EmitWalk
  <2>2. FinalGates(s, t, evidence_)
          \in {late, Resolve(s, outcome, time, t, NoTrigger, FALSE)}
    BY <1>4 DEF FinalGates
  <2> HIDE DEF blocked, outcome, time
  <2>3. Extends(s, Resolve(s, outcome, time, t, NoTrigger, FALSE))
    BY <1>2, ResolveExtends
  <2>4. IsWalk(late) /\ Extends(blocked, late)
    BY <1>2, <2>1, ResolveExtends, ResolveEnds
  <2> HIDE DEF late
  <2>5. Extends(s, late)
    BY <2>1, <2>4, ExtendsMore
  <2> QED
    BY <2>2, <2>3, <2>5
<1> QED
  BY <1>3, <1>4

LEMMA AutomaticExtends ==
  ASSUME NEW s, IsWalk(s), NEW events_
  PROVE  Extends(s, WithAutomaticEvidence(s, events_))
<1>1. PICK S : (\A x \in S : IsStep(x)) /\ s \in Seq(S) /\ s # << >>
  BY DEF IsWalk
<1>2. \A x : Len(Append(s, x)) = Len(s) + 1 /\ \A k \in 1 .. Len(s) : Append(s, x)[k] = s[k]
  BY <1>1
<1>3. Extends(s, s) /\ \A x : Extends(s, Append(s, x))
  BY <1>1, <1>2 DEF Extends
<1> QED
  BY <1>3 DEF WithAutomaticEvidence

\* The gates extend a walk at the close of the window.
LEMMA GatesGrow ==
  ASSUME NEW s, IsWalk(s), NEW tier, NEW close \in Int, NEW events_, NEW evidence_,
         evidence_ # NoEvidence => evidence_.time \in Int
  PROVE  GrowsAt(s, AfterReaction(s, tier, close, events_, evidence_), TimeOf(close))
<1> DEFINE t == TimeOf(close)
           Gate(type, change, from) == Emit(from, type, Candle(close), TimeOf(close), change)
           weak == Gate("WEAK_REACTION", Cancelled("WEAK_REACTION"), s)
           passed == Gate("REACTION_GATE_CONFIRMED", [time |-> TimeOf(close)], s)
           slow == Gate("REACTION_SPEED_FAILED", Cancelled("REACTION_SPEED_FAILED"), passed)
           fast == Gate("REACTION_SPEED_GATE_CONFIRMED", [stage |-> "FINAL_GATE_EVALUATION"], passed)
           auto == WithAutomaticEvidence(fast, events_)
           final == FinalGates(auto, t, evidence_)
<1>1. t \in Int
  BY DEF TimeOf
<1>2. GrowsAt(s, weak, t)
  BY <1>1, EmitGrows
<1>3. IsWalk(passed) /\ GrowsAt(s, passed, t)
  BY <1>1, EmitWalk, EmitGrows
<1> HIDE DEF passed
<1>4. IsWalk(slow) /\ Extends(passed, slow)
  BY <1>1, <1>3, EmitWalk, EmitGrows
<1>5. IsWalk(fast) /\ Extends(passed, fast)
  BY <1>1, <1>3, EmitWalk, EmitGrows
<1> HIDE DEF slow, fast
<1>6. IsWalk(auto) /\ Extends(fast, auto)
  BY <1>5, AutomaticWalk, AutomaticExtends
<1> HIDE DEF auto
<1>7. IsWalk(final) /\ Extends(auto, final)
  BY <1>1, <1>6, FinalGatesEnd, FinalGatesExtend
<1>8. AfterReaction(s, tier, close, events_, evidence_)
        = IF tier = "weak" THEN weak ELSE IF tier = "slow" THEN slow ELSE final
  BY DEF AfterReaction, passed, slow, fast, auto
<1> HIDE DEF weak, final
<1>9. GrowsAt(s, slow, t)
  BY <1>3, <1>4, ExtendsMore
<1>10. GrowsAt(s, fast, t)
  BY <1>3, <1>5, ExtendsMore
<1>11. GrowsAt(s, auto, t)
  BY <1>5, <1>6, <1>10, ExtendsMore
<1>12. GrowsAt(s, final, t)
  BY <1>6, <1>7, <1>11, ExtendsMore
<1> QED
  BY <1>2, <1>8, <1>9, <1>12

\* What the scans find later extends the walk later.
LEMMA StepsGrow ==
  ASSUME NEW f, NEW g, NEW at \in Nat \cup {None}, Precedes(f, g, at),
         g.forming \in Int, g.interaction \in Int, g.close \in Int,
         NEW a \in Int, NEW events_, NEW evidence_,
         evidence_ # NoEvidence => evidence_.time \in Int
  PROVE  LET s == Steps(f, a, events_, evidence_)
             t == Steps(g, a, events_, evidence_)
         IN  /\ IsWalk(s) /\ IsWalk(t)
             /\ s = t \/ \E time \in Int : time >= TimeOf(at + 1) /\ GrowsAt(s, t, time)
<1> DEFINE s == Steps(f, a, events_, evidence_)
           t == Steps(g, a, events_, evidence_)
           first == <<InitialStep(a)>>
           forming == Emit(first, "ENTERED_FORMING", Candle(g.forming), TimeOf(g.forming),
                           [primary |-> "BTMM_FORMING", stage |-> "POI_INTERACTION"])
           reason == "INTERACTION_INELIGIBLE"
           out == Emit(forming, reason, Candle(g.interaction), TimeOf(g.interaction),
                       Cancelled(reason))
           eligible == Emit(forming, "ACCURACY_GATE_CONFIRMED", Candle(g.interaction),
                            TimeOf(g.interaction), [stage |-> "REACTION_MONITORING"])
           final == AfterReaction(eligible, g.tier, g.close, events_, evidence_)
<1>1. /\ TimeOf(g.forming) \in Int /\ TimeOf(g.interaction) \in Int /\ TimeOf(g.close) \in Int
      /\ g.forming > at => g.forming # None /\ TimeOf(g.forming) >= TimeOf(at + 1)
      /\ g.interaction > at => g.interaction # None /\ TimeOf(g.interaction) >= TimeOf(at + 1)
      /\ g.close > at => g.close # None /\ TimeOf(g.close) >= TimeOf(at + 1)
  BY DEF TimeOf, None
<1>2. IsWalk(first)
  <2> DEFINE x == InitialStep(a)
  <2>1. IsStep(x)
    BY DEF IsStep, InitialStep
  <2> HIDE DEF x
  <2> QED
    BY <2>1, WalkOfOne DEF x
<1>3. t = IF g.forming = None THEN first
          ELSE IF g.interaction = None THEN forming
          ELSE IF g.class # "ELIGIBLE" THEN out
          ELSE IF g.close = None THEN eligible ELSE final
  BY DEF Steps, AfterInteraction
<1>4. \A x : /\ x = Found(None, None, "NONE", None, "NONE") =>
                  Steps(x, a, events_, evidence_) = first
             /\ x = Found(g.forming, None, "NONE", None, "NONE") /\ g.forming # None =>
                  Steps(x, a, events_, evidence_) = forming
             /\ x = Found(g.forming, g.interaction, "ELIGIBLE", None, "NONE")
                /\ g.forming # None /\ g.interaction # None =>
                  Steps(x, a, events_, evidence_) = eligible
  BY DEF Steps, AfterInteraction, Found
<1> HIDE DEF first
<1>5. IsWalk(forming) /\ GrowsAt(first, forming, TimeOf(g.forming))
  BY <1>1, <1>2, EmitWalk, EmitGrows
<1> HIDE DEF forming
<1>6. IsWalk(out) /\ GrowsAt(forming, out, TimeOf(g.interaction)) /\ Extends(forming, out)
  BY <1>1, <1>5, EmitWalk, EmitGrows
<1>7. IsWalk(eligible) /\ GrowsAt(forming, eligible, TimeOf(g.interaction))
      /\ Extends(forming, eligible)
  BY <1>1, <1>5, EmitWalk, EmitGrows
<1> HIDE DEF out, eligible
<1>8. IsWalk(final) /\ GrowsAt(eligible, final, TimeOf(g.close))
  BY <1>1, <1>7, GatesWalk, GatesGrow
<1> HIDE DEF final
<1>9. Extends(eligible, final)
  BY <1>8 DEF GrowsAt
<1>10. GrowsAt(forming, final, TimeOf(g.interaction)) /\ Extends(forming, final)
  BY <1>5, <1>7, <1>8, <1>9, ExtendsMore
<1>11. /\ GrowsAt(first, out, TimeOf(g.forming)) /\ GrowsAt(first, eligible, TimeOf(g.forming))
       /\ GrowsAt(first, final, TimeOf(g.forming))
  BY <1>2, <1>5, <1>6, <1>7, <1>8, <1>10, ExtendsMore
<1>12. IsWalk(t)
  BY <1>2, <1>3, <1>5, <1>6, <1>7, <1>8
<1> HIDE DEF t
<1>13. CASE f = g
  BY <1>12, <1>13 DEF t
<1>14. CASE f = Found(None, None, "NONE", None, "NONE") /\ g.forming > at
  <2>1. s = first
    BY <1>4, <1>14
  <2>2. t # first => GrowsAt(first, t, TimeOf(g.forming))
    BY <1>3, <1>5, <1>11
  <2> QED
    BY <1>1, <1>2, <1>12, <1>14, <2>1, <2>2 DEF t
<1>15. CASE /\ f = Found(g.forming, None, "NONE", None, "NONE") /\ g.forming # None
            /\ g.interaction > at
  <2>1. s = forming
    BY <1>4, <1>15
  <2>2. GrowsAt(forming, t, TimeOf(g.interaction))
    BY <1>1, <1>3, <1>6, <1>7, <1>10, <1>15
  <2> QED
    BY <1>1, <1>5, <1>12, <1>15, <2>1, <2>2 DEF t
<1>16. CASE /\ f = Found(g.forming, g.interaction, "ELIGIBLE", None, "NONE")
            /\ g.forming # None /\ g.interaction # None /\ g.class = "ELIGIBLE"
            /\ g.close > at
  <2>1. s = eligible
    BY <1>4, <1>16
  <2>2. GrowsAt(eligible, t, TimeOf(g.close))
    BY <1>1, <1>3, <1>8, <1>16
  <2> QED
    BY <1>1, <1>7, <1>12, <1>16, <2>1, <2>2 DEF t
<1> QED
  BY <1>13, <1>14, <1>15, <1>16 DEF Precedes

LEMMA KeptIs ==
  ASSUME NEW s, NEW time \in Int, IsWalk(s), NEW n, IsKept(s, time, n)
  PROVE  KeptBefore(s, time) = SubSeq(s, 1, n)
<1>1. PICK m : IsKept(s, time, m) /\ KeptBefore(s, time) = SubSeq(s, 1, m)
  BY KeptWalk
<1>2. Len(s) \in Nat /\ \A k \in 1 .. Len(s) : s[k].fields.time \in Int
  BY WalkLast DEF IsStep
<1>3. ASSUME NEW i, NEW j, IsKept(s, time, i), IsKept(s, time, j), i < j PROVE FALSE
  <2>1. i \in 1 .. Len(s) /\ j \in 1 .. Len(s) /\ i + 1 \in 2 .. j /\ i < Len(s)
    BY <1>2, <1>3 DEF IsKept
  <2>2. s[i + 1].fields.time < time /\ s[i + 1].fields.time >= time
    BY <1>3, <2>1 DEF IsKept
  <2>3. s[i + 1].fields.time \in Int
    BY <1>2, <2>1
  <2> QED
    BY <2>2, <2>3
<1>4. m \in Nat /\ n \in Nat
  BY <1>1, <1>2 DEF IsKept
<1>5. ~ (m < n) /\ ~ (n < m)
  BY <1>1, <1>3
<1>6. m = n
  BY <1>4, <1>5
<1> QED
  BY <1>1, <1>6

LEMMA SameKept ==
  ASSUME NEW s, NEW t, IsWalk(s), IsWalk(t), NEW at \in Int, NEW time \in Int, time >= at,
         GrowsAt(s, t, time)
  PROVE  KeptBefore(s, at) = KeptBefore(t, at)
<1>1. PICK n : IsKept(s, at, n)
  BY KeptWalk
<1>2. Len(s) \in Nat /\ Len(t) \in Nat /\ n \in 1 .. Len(s) /\ n \in 1 .. Len(t)
      /\ \A k \in 1 .. Len(s) : t[k] = s[k]
  BY <1>1, WalkLast DEF IsKept, GrowsAt, Extends
<1>3. IsKept(t, at, n)
  <2>1. CASE n < Len(s)
    BY <1>1, <1>2, <2>1, SMTT(30) DEF IsKept
  <2>2. CASE n = Len(s)
    BY <1>1, <1>2, <2>2 DEF IsKept, GrowsAt
  <2> QED
    BY <1>2, <2>1, <2>2
<1>4. SubSeq(s, 1, n) = SubSeq(t, 1, n)
  <2>1. PICK S : s \in Seq(S)
    BY DEF IsWalk
  <2>2. PICK T : t \in Seq(T)
    BY DEF IsWalk
  <2> DEFINE u == SubSeq(s, 1, n)
             v == SubSeq(t, 1, n)
             U == S \cup T
  <2>3. u \in Seq(U) /\ Len(u) = n /\ \A k \in 1 .. n : u[k] = s[k]
    BY <1>2, <2>1
  <2>4. v \in Seq(U) /\ Len(v) = n /\ \A k \in 1 .. n : v[k] = t[k]
    BY <1>2, <2>2
  <2>5. \A k \in 1 .. n : u[k] = v[k]
    BY <1>2, <2>3, <2>4
  <2> HIDE DEF u, v, U
  <2>6. u = v
    BY <2>3, <2>4, <2>5, SeqEqual
  <2> QED
    BY <2>6 DEF u, v
<1> QED
  BY <1>1, <1>3, <1>4, KeptIs

\* What a fitting cursor found is enough for the walk, rejected or not.
LEMMA SameCascade ==
  ASSUME NEW x, NEW h \in Seq(BtmmView), h # << >>, NEW a \in Int, NEW events_, NEW evidence_,
         evidence_ # NoEvidence => evidence_.time \in Int,
         CursorFits(x, h, a, GenuineAt(events_))
  PROVE  Cascade(FoundBy(x), a, events_, evidence_) = Cascade(Scan(h, a), a, events_, evidence_)
<1> DEFINE f == FoundBy(x)
           g == Scan(h, a)
           at == GenuineAt(events_)
           s == Steps(f, a, events_, evidence_)
           t == Steps(g, a, events_, evidence_)
<1>1. CASE at = None
  BY <1>1, InStepFound DEF CursorFits
<1>2. CASE at # None
  <2>1. at \in Nat /\ Precedes(f, g, at)
    BY <1>2 DEF CursorFits
  <2>2. g.forming \in Int /\ g.interaction \in Int /\ g.close \in Int
    BY ScanType DEF None
  <2> HIDE DEF f, g, at
  <2>3. IsWalk(s) /\ IsWalk(t)
        /\ (s = t \/ \E time \in Int : time >= TimeOf(at) /\ GrowsAt(s, t, time))
    <3>1. TimeOf(at + 1) \in Int /\ TimeOf(at) \in Int /\ TimeOf(at + 1) >= TimeOf(at)
      BY <2>1 DEF TimeOf
    <3>2. IsWalk(s) /\ IsWalk(t)
          /\ (s = t \/ \E time \in Int : time >= TimeOf(at + 1) /\ GrowsAt(s, t, time))
      BY <2>1, <2>2, StepsGrow
    <3> QED
      BY <3>1, <3>2
  <2> HIDE DEF s, t
  <2>4. KeptBefore(s, TimeOf(at)) = KeptBefore(t, TimeOf(at))
    BY <2>1, <2>3, SameKept DEF TimeOf
  <2>5. at # None
    BY <1>2
  <2>6. RejectIfInvalidated(s, at) = RejectIfInvalidated(t, at)
    BY <2>4, <2>5 DEF RejectIfInvalidated
  <2> QED
    BY <2>6 DEF Cascade, s, t, f, g, at
<1> QED
  BY <1>1, <1>2

-----------------------------------------------------------------------------
(*****************************************************************************)
(* What is read of a setup.                                                  *)
(*****************************************************************************)
\* A POI is invalidated once at most.
EventsOnce == "second events" \notin Allow

OneEvent == \A p \in DOMAIN walkEvents : Len(walkEvents[p]) <= 1

LEMMA OneOfNone == Len(<< >>) = 0 /\ \A e : Len(Append(<< >>, e)) = 1
<1>1. Len(<< >>) = 0
  OBVIOUS
<1>2. ASSUME NEW e PROVE Len(Append(<< >>, e)) = 1
  <2>1. << >> \in Seq({e})
    OBVIOUS
  <2> QED
    BY <1>1, <2>1
<1> QED
  BY <1>1, <1>2

LEMMA OneEventTurn ==
  ASSUME EventsOnce, OneEvent, NEW c, NEW d, NEW happened, NEW seen,
         Turn(c, d, happened, seen)
  PROVE  \A p \in DOMAIN Walk(WalksNow(d), happened) : Len(Walk(WalksNow(d), happened)[p]) <= 1
<1> DEFINE walks == WalksNow(d)
           walked == Walk(walks, happened)
<1>1. \A p \in DOMAIN happened : walks[p] = << >>
  BY TurnHappens, Zenon DEF EventsOnce
<1>2. \A p \in DOMAIN walks : walks[p] = IF p \in DOMAIN walkEvents THEN walkEvents[p] ELSE << >>
  BY DEF WalksNow, Over
<1> HIDE DEF walks
<1>3. \A p \in DOMAIN walks : Len(walks[p]) <= 1
  BY <1>2, OneOfNone DEF OneEvent
<1>4. /\ DOMAIN walked = DOMAIN walks
      /\ \A p \in DOMAIN walks :
           walked[p] = IF p \in DOMAIN happened
                       THEN Append(walks[p], [type |-> happened[p], at |-> total]) ELSE walks[p]
  BY DEF Walk
<1> HIDE DEF walked
<1>5. ASSUME NEW p \in DOMAIN walked PROVE Len(walked[p]) <= 1
  <2>1. CASE p \in DOMAIN happened
    <3> DEFINE e == [type |-> happened[p], at |-> total]
    <3>1. walked[p] = Append(<< >>, e)
      BY <1>1, <1>4, <2>1
    <3> HIDE DEF e
    <3>2. Len(walked[p]) = 1
      BY <3>1, OneOfNone
    <3> QED
      BY <3>2
  <2>2. CASE p \notin DOMAIN happened
    BY <1>3, <1>4, <2>2
  <2> QED
    BY <2>1, <2>2
<1> QED
  BY <1>5 DEF walked, walks

LEMMA OneEventEach ==
  ASSUME EventsOnce
  PROVE  Spec => []OneEvent
<1>1. Init => OneEvent
  <2> SUFFICES ASSUME Init PROVE OneEvent
    OBVIOUS
  <2>1. DOMAIN walkEvents = {}
    BY DEF Init
  <2> QED
    BY <2>1 DEF OneEvent
<1>2. OneEvent /\ [Next]_vars => OneEvent'
  <2> SUFFICES ASSUME OneEvent, [Next]_vars PROVE OneEvent'
    OBVIOUS
  <2>1. CASE UNCHANGED vars
    BY <2>1 DEF vars, environment, OneEvent
  <2>2. ASSUME NEW seen, OtherGroup(seen) PROVE OneEvent'
    BY <2>2 DEF OtherGroup, OneEvent
  <2>3. ASSUME NEW c, NEW d, NEW happened, NEW seen, Turn(c, d, happened, seen),
               Group(c, d, happened, Walk(WalksNow(d), happened), seen)
        PROVE  OneEvent'
    <3>1. walkEvents' = Walk(WalksNow(d), happened)
      BY <2>3 DEF Group
    <3>2. \A p \in DOMAIN Walk(WalksNow(d), happened) : Len(Walk(WalksNow(d), happened)[p]) <= 1
      BY <2>3, OneEventTurn
    <3> QED
      BY <3>1, <3>2 DEF OneEvent
  <2> QED
    BY <2>1, <2>2, <2>3, StepCases
<1> QED
  BY <1>1, <1>2, PTL DEF Spec

\* What is relayed of a walk of one event is the walk.
LEMMA RelayedWalk ==
  ASSUME NEW relayed, NEW walk, NEW known, NEW n, RelayFits(relayed, walk, known, n),
         Len(walk) <= 1
  PROVE  known = walk
<1>1. CASE relayed
  <2>1. PICK S : walk \in Seq(S)
    BY <1>1 DEF RelayFits
  <2>2. walk # << >> /\ known = <<walk[1]>>
    BY <1>1 DEF RelayFits
  <2>3. Len(walk) = 1
    BY <2>1, <2>2
  <2> DEFINE e == walk[1]
  <2>4. <<e>> \in Seq({e}) /\ Len(<<e>>) = 1 /\ <<e>>[1] = e
    OBVIOUS
  <2>5. walk \in Seq(S \cup {e}) /\ <<e>> \in Seq(S \cup {e})
    BY <2>1
  <2> DEFINE w == <<e>>
             T == S \cup {e}
  <2>6. w \in Seq(T) /\ walk \in Seq(T) /\ Len(w) = Len(walk)
        /\ \A k \in 1 .. Len(w) : w[k] = walk[k]
    BY <2>3, <2>5
  <2> HIDE DEF w, T
  <2>7. w = walk
    BY <2>6, SeqEqual
  <2> QED
    BY <2>2, <2>7 DEF w
<1>2. CASE ~ relayed
  BY <1>2 DEF RelayFits
<1> QED
  BY <1>1, <1>2

\* What is read of a setup with a fitting cursor is its batch lifecycle.
Reads(x, s, h, events_, evidence_) ==
  /\ s \in PoiSpecs /\ h \in Seq(Candles) /\ h # << >>
  /\ evidence_ # NoEvidence => evidence_.time \in Int
  /\ CursorFits(x, ViewsOf(h, s.zone), s.available, GenuineAt(events_))

LEMMA FitsReads ==
  ASSUME NEW x, NEW s, NEW h, NEW events_, NEW evidence_, Reads(x, s, h, events_, evidence_)
  PROVE  MaterializeCursor(x, s.available, events_, evidence_) = BatchOf(h, s, events_, evidence_)
<1> DEFINE f == ViewsOf(h, s.zone)
           a == s.available
<1>1. a \in Int /\ f \in Seq(BtmmView) /\ f # << >>
  BY ViewsType DEF Reads
<1>2. CursorFits(x, f, a, GenuineAt(events_)) /\ (evidence_ # NoEvidence => evidence_.time \in Int)
  BY DEF Reads
<1> HIDE DEF f, a
<1>3. Cascade(FoundBy(x), a, events_, evidence_) = Cascade(Scan(f, a), a, events_, evidence_)
  BY <1>1, <1>2, SameCascade
<1> QED
  BY <1>3 DEF BatchOf, RunBtmmLifecycle, MaterializeCursor, FoundBy, f, a

\* What the engine relays of a present setup is its walk and its evidence.
LEMMA RelayedAll ==
  ASSUME ReplayInv, OneEvent, NEW p \in DOMAIN specs
  PROVE  /\ specs[p] \in PoiSpecs /\ candles \in Seq(Candles) /\ candles # << >>
         /\ CursorFits(cursors[p], ViewsOf(candles, specs[p].zone), specs[p].available,
                       GenuineAt(poiTransitions[p]))
         /\ poiTransitions[p] = walkEvents[p]
         /\ visible[p] # NoEvidence => visible[p].time \in Int
<1>1. SetupFits(p) /\ candles \in Seq(Candles) /\ candles # << >>
      /\ DOMAIN walkEvents = DOMAIN specs
  BY DEF ReplayInv, DomainsFit
<1>2. RelayFits(p \in relayedTransitions, walkEvents[p], poiTransitions[p], total)
      /\ Len(walkEvents[p]) <= 1
  BY <1>1 DEF SetupFits, OneEvent
<1>3. poiTransitions[p] = walkEvents[p]
  BY <1>2, RelayedWalk
<1> QED
  BY <1>1, <1>3 DEF SetupFits, EvidenceFits

\* A step with a candle that fails no assertion.
LEMMA CandleStep ==
  ASSUME Inv, Next, candles' # candles, ~ failed'
  PROVE  /\ Inv'
         /\ \E c, d, happened, seen :
              /\ Turn(c, d, happened, seen)
              /\ Group(c, d, happened, Walk(WalksNow(d), happened), seen)
<1>1. \A seen : OtherGroup(seen) => candles' = candles
  BY DEF OtherGroup
<1>2. PICK c, d, happened, seen :
        /\ Turn(c, d, happened, seen)
        /\ Group(c, d, happened, Walk(WalksNow(d), happened), seen)
  BY <1>1, StepCases
<1>3. Inv'
  BY <1>2, GroupKeepsInv
<1> QED
  BY <1>2, <1>3

\* After every candle what the engine reads of each setup, rejected, frozen or
\* untouched for long, is the batch lifecycle of the whole stream, if a POI is
\* invalidated once at most (the run btmm_replay_second_event shows that a second
\* event breaks it): lifecycle_scheduler.py's "reproduces analyze_btmm exactly".
THEOREM EngineIsBatch ==
  ASSUME EventsOnce
  PROVE  Spec => ReadIsBatchAtCandle
<1> DEFINE Same(p) ==
             MaterializeCursor(cursors'[p], specs'[p].available, poiTransitions'[p],
                               reviewedEvidence'[p])
               = BatchOf(candles', specs'[p], walkEvents'[p], visible'[p])
           Good == failed \/ Inv
<1>1. Good /\ Good' /\ OneEvent' /\ [Next]_vars =>
        [candles' # candles /\ ~ failed' => \A p \in DOMAIN specs' : Same(p)]_vars
  <2> SUFFICES ASSUME Good, OneEvent', Next, candles' # candles, ~ failed', NEW p \in DOMAIN specs'
               PROVE  Same(p)
    OBVIOUS
  <2>1. Inv
    BY StepCases
  <2>2. PICK c, d, happened, seen :
          /\ Turn(c, d, happened, seen)
          /\ Group(c, d, happened, Walk(WalksNow(d), happened), seen)
    BY <2>1, CandleStep
  <2>3. Inv'
    BY <2>1, CandleStep
  <2>4. /\ SetupFits(p)' /\ candles' \in Seq(Candles) /\ candles' # << >>
        /\ DOMAIN walkEvents' = DOMAIN specs'
    BY <2>3 DEF Inv, ReplayInv, DomainsFit
  <2>5. /\ specs'[p] \in PoiSpecs
        /\ CursorFits(cursors'[p], ViewsOf(candles', specs'[p].zone), specs'[p].available,
                      GenuineAt(poiTransitions'[p]))
        /\ RelayFits(p \in relayedTransitions', walkEvents'[p], poiTransitions'[p], total')
        /\ EvidenceFits(p \in relayedEvidence', visible'[p], reviewedEvidence'[p])
    BY <2>4 DEF SetupFits, CursorFits, RelayFits, EvidenceFits, ViewsOf
  <2>6. poiTransitions'[p] = walkEvents'[p]
    <3>1. Len(walkEvents'[p]) <= 1
      BY <2>4 DEF OneEvent
    <3> QED
      BY <2>5, <3>1, RelayedWalk
  <2>7. reviewedEvidence'[p] = visible'[p]
    <3>1. /\ specs' = Revised(specs, d) /\ visible' = seen
          /\ reviewedEvidence' = EvidenceAfter(d, seen)
      BY <2>2, GroupState
    <3>2. \A q \in DOMAIN Revised(specs, d) : EvidenceAfter(d, seen)[q] = seen[q]
      BY <2>1, <2>2, TurnEvidence DEF Inv
    <3> QED
      BY <3>1, <3>2
  <2>8. visible'[p] # NoEvidence => visible'[p].time \in Int
    BY <2>5 DEF EvidenceFits
  <2>9. MaterializeCursor(cursors'[p], specs'[p].available, poiTransitions'[p], visible'[p])
          = BatchOf(candles', specs'[p], poiTransitions'[p], visible'[p])
    <3> DEFINE x == cursors'[p]
               s == specs'[p]
               h == candles'
               walk == poiTransitions'[p]
               e == visible'[p]
    <3>1. Reads(x, s, h, walk, e)
      BY <2>4, <2>5, <2>8 DEF Reads
    <3> HIDE DEF x, s, h, walk, e
    <3>2. MaterializeCursor(x, s.available, walk, e) = BatchOf(h, s, walk, e)
      BY <3>1, FitsReads
    <3> QED
      BY <3>2 DEF x, s, h, walk, e
  <2> QED
    BY <2>6, <2>7, <2>9
<1>2. Spec => []Good
  BY InvUntilFailure
<1>3. Spec => []OneEvent
  BY OneEventEach
<1>4. Spec => [][Next]_vars
  BY PTL DEF Spec
<1> QED
  BY <1>1, <1>2, <1>3, <1>4, PTL DEF ReadIsBatchAtCandle

\* A setup that a candle does not wake has the batch lifecycle it had before, but
\* for evidence that becomes visible once it is frozen, if a POI is invalidated
\* once at most: no wake of the event-driven scheduler is lost.
THEOREM WakesLoseNothing ==
  ASSUME EventsOnce
  PROVE  Spec => WokenUnlessFrozen
<1> DEFINE Same(p) == BatchOf(candles', specs'[p], walkEvents'[p], visible'[p]) = Batch(p)
           Good == failed \/ Inv
<1>1. Good /\ Good' /\ OneEvent /\ OneEvent' /\ [Next]_vars =>
        [candles' # candles /\ ~ failed' =>
           \A p \in DOMAIN specs \cap DOMAIN specs' :
             BatchOf(candles', specs'[p], walkEvents'[p], visible'[p]) # Batch(p)
               => \/ p \in woken'
                  \/ regs[p].stage = "FROZEN" /\ visible'[p] # visible[p]]_vars
  <2> SUFFICES ASSUME Good, OneEvent, OneEvent', Next, candles' # candles, ~ failed',
                      NEW p \in DOMAIN specs \cap DOMAIN specs', p \notin woken',
                      ~ (regs[p].stage = "FROZEN" /\ visible'[p] # visible[p])
               PROVE  Same(p)
    OBVIOUS
  <2>1. Inv /\ ReplayInv
    BY StepCases DEF Inv
  <2>2. PICK c, d, happened, seen :
          /\ Turn(c, d, happened, seen)
          /\ Group(c, d, happened, Walk(WalksNow(d), happened), seen)
    BY <2>1, CandleStep
  <2> DEFINE next == Revised(specs, d)
             after == After(c, d, happened, seen)
             known == Known(d, happened)
             walked == Walk(WalksNow(d), happened)
             h == candles
             s == specs[p]
             H == Append(candles, c)
             x == cursors[p]
             walk == walkEvents[p]
             e == visible[p]
  <2>3. /\ candles' = H /\ specs' = next /\ walkEvents' = walked /\ visible' = seen
        /\ woken' = DOMAIN after
    BY <2>2, GroupState
  <2>4. c \in Candles
    BY <2>1, <2>2, TurnSpecs
  <2>5. /\ SetupFits(p) /\ h \in Seq(Candles) /\ h # << >>
        /\ DOMAIN walkEvents = DOMAIN specs
    BY <2>1 DEF ReplayInv, DomainsFit
  <2>6. H \in Seq(Candles) /\ H # << >>
    BY <2>4, <2>5
  <2>7. p \in DOMAIN next \ DOMAIN after
    BY <2>3
  <2> HIDE DEF next, after, known, walked
  <2>8. /\ next[p] = s
        /\ known[p] = poiTransitions[p]
        /\ CursorFits(x, ViewsOf(H, next[p].zone), next[p].available, GenuineAt(known[p]))
        /\ p \notin DOMAIN happened \ relayedTransitions
        /\ p \in ReviewNow(seen) => regs[p].stage = "FROZEN"
    <3>1. /\ \A q \in DOMAIN next :
               CursorFits(CursorThen(after, q), ViewsOf(H, next[q].zone), next[q].available,
                          GenuineAt(known[q]))
          /\ \A q \in DOMAIN next \ DOMAIN after :
               /\ q \in DOMAIN specs /\ next[q] = specs[q]
               /\ known[q] = poiTransitions[q]
               /\ q \notin DOMAIN happened \ relayedTransitions
               /\ q \in ReviewNow(seen) => regs[q].stage = "FROZEN"
      BY <2>1, <2>2, TurnCursors DEF next, after, known
    <3>2. CursorThen(after, p) = x
      BY <2>7 DEF CursorThen
    <3> QED
      BY <2>7, <3>1, <3>2
  <2>9. /\ RelayFits(p \in relayedTransitions, walk, poiTransitions[p], total) /\ Len(walk) <= 1
        /\ EvidenceFits(p \in relayedEvidence, e, reviewedEvidence[p])
        /\ s \in PoiSpecs
        /\ CursorFits(x, ViewsOf(h, s.zone), s.available, GenuineAt(poiTransitions[p]))
    BY <2>5 DEF SetupFits, OneEvent
  <2>10. poiTransitions[p] = walk
    BY <2>9, RelayedWalk
  <2>11. seen[p] = e
    <3>1. \A q \in DOMAIN next : q \in DOMAIN specs /\ seen[q] # visible[q] => q \in ReviewNow(seen)
      BY <2>1, <2>2, TurnEvidence DEF next
    <3> QED
      BY <2>3, <2>7, <2>8, <3>1
  <2>12. walked[p] = walk
    <3>1. \A q \in DOMAIN next : q \notin DOMAIN happened /\ q \in DOMAIN specs => walked[q] = walkEvents[q]
      BY <2>1, <2>2, TurnWalks DEF next, walked
    <3>2. p \notin DOMAIN happened
      <4> SUFFICES ASSUME p \in DOMAIN happened PROVE FALSE
        OBVIOUS
      <4>1. walk # << >>
        BY <2>8, <2>9 DEF RelayFits
      <4>2. WalksNow(d)[p] = walk
        BY <2>5, <2>7 DEF WalksNow, Over, next
      <4>3. WalksNow(d)[p] = << >>
        BY <2>2, TurnHappens, Zenon DEF EventsOnce
      <4> QED
        BY <4>1, <4>2, <4>3
    <3> QED
      BY <2>7, <3>1, <3>2
  <2> HIDE DEF h, s, H, x, walk, e
  <2>13. e # NoEvidence => e.time \in Int
    BY <2>9 DEF EvidenceFits
  <2>14. MaterializeCursor(x, s.available, walk, e) = BatchOf(h, s, walk, e)
    <3>1. Reads(x, s, h, walk, e)
      BY <2>5, <2>9, <2>10, <2>13 DEF Reads
    <3> QED
      BY <3>1, FitsReads
  <2>15. MaterializeCursor(x, s.available, walk, e) = BatchOf(H, s, walk, e)
    <3>1. Reads(x, s, H, walk, e)
      BY <2>6, <2>8, <2>9, <2>10, <2>13 DEF Reads
    <3> QED
      BY <3>1, FitsReads
  <2>16. Batch(p) = BatchOf(h, s, walk, e)
    BY DEF Batch, h, s, walk, e
  <2>17. /\ candles' = H /\ specs'[p] = s /\ walkEvents'[p] = walk /\ visible'[p] = e
    BY <2>3, <2>8, <2>11, <2>12
  <2> QED
    BY <2>14, <2>15, <2>16, <2>17
<1>2. Spec => []Good
  BY InvUntilFailure
<1>3. Spec => []OneEvent
  BY OneEventEach
<1>4. Spec => [][Next]_vars
  BY PTL DEF Spec
<1> QED
  BY <1>1, <1>2, <1>3, <1>4, PTL DEF WokenUnlessFrozen

\* f holds what Only keeps of the first n elements of s.
IsOnly(f, s, S, n) ==
  f = [k \in 0 .. n |->
         IF k = 0 THEN << >>
         ELSE IF s[k] \in S THEN Append(f[k - 1], s[k]) ELSE f[k - 1]]

LEMMA OnlyExists ==
  ASSUME NEW s, NEW S, NEW n \in Nat
  PROVE  \E f : IsOnly(f, s, S, n)
<1> DEFINE M == {m \in Nat : \E f : IsOnly(f, s, S, m)}
<1>1. 0 \in M
  <2> DEFINE f == [k \in 0 .. 0 |-> << >>]
  <2>1. IsOnly(f, s, S, 0)
    BY DEF IsOnly
  <2> QED
    BY <2>1
<1>2. ASSUME NEW m \in M PROVE m + 1 \in M
  <2>1. PICK f : IsOnly(f, s, S, m)
    OBVIOUS
  <2> DEFINE g == [k \in 0 .. m + 1 |->
                     IF k = m + 1 THEN IF s[m + 1] \in S THEN Append(f[m], s[m + 1]) ELSE f[m]
                     ELSE f[k]]
  <2>2. \A k \in 0 .. m + 1 :
          g[k] = IF k = 0 THEN << >>
                 ELSE IF s[k] \in S THEN Append(g[k - 1], s[k]) ELSE g[k - 1]
    <3> SUFFICES ASSUME NEW k \in 0 .. m + 1
                 PROVE  g[k] = IF k = 0 THEN << >>
                               ELSE IF s[k] \in S THEN Append(g[k - 1], s[k]) ELSE g[k - 1]
      OBVIOUS
    <3>1. CASE k = m + 1
      BY <3>1
    <3>2. CASE k \in 0 .. m
      <4>1. f[k] = IF k = 0 THEN << >>
                   ELSE IF s[k] \in S THEN Append(f[k - 1], s[k]) ELSE f[k - 1]
        BY <2>1, <3>2 DEF IsOnly
      <4>2. g[k] = f[k] /\ (k # 0 => g[k - 1] = f[k - 1])
        BY <3>2
      <4> QED
        BY <4>1, <4>2
    <3> QED
      BY <3>1, <3>2
  <2>3. IsOnly(g, s, S, m + 1)
    <3>1. g = [k \in 0 .. m + 1 |-> g[k]]
      OBVIOUS
    <3> QED
      BY <2>2, <3>1 DEF IsOnly
  <2> QED
    BY <2>3
<1> HIDE DEF M
<1>3. M = Nat
  <2>1. M \in SUBSET Nat
    BY DEF M
  <2> QED
    BY <1>1, <1>2, <2>1, SetInduction
<1> QED
  BY <1>3 DEF M

\* The parts of s that Only keeps, step by step.
LEMMA OnlySteps ==
  ASSUME NEW s, NEW S, Len(s) \in Nat
  PROVE  \E f : /\ f[0] = << >> /\ Only(s, S) = f[Len(s)]
                /\ \A k \in 1 .. Len(s) :
                     f[k] = IF s[k] \in S THEN Append(f[k - 1], s[k]) ELSE f[k - 1]
<1> DEFINE f == CHOOSE g : IsOnly(g, s, S, Len(s))
<1>1. IsOnly(f, s, S, Len(s))
  BY OnlyExists
<1>2. Only(s, S) = f[Len(s)]
  BY DEF Only, IsOnly
<1> HIDE DEF f
<1>3. \A k \in 0 .. Len(s) :
        f[k] = IF k = 0 THEN << >>
               ELSE IF s[k] \in S THEN Append(f[k - 1], s[k]) ELSE f[k - 1]
  BY <1>1 DEF IsOnly
<1>4. f[0] = << >>
  BY <1>3
<1>5. ASSUME NEW k \in 1 .. Len(s)
      PROVE  f[k] = IF s[k] \in S THEN Append(f[k - 1], s[k]) ELSE f[k - 1]
  BY <1>3
<1> QED
  BY <1>2, <1>4, <1>5

\* u holds those of the first n elements of s that are in S.
Keeps(u, s, S, T, n) ==
  /\ u \in Seq(T)
  /\ \A i \in 1 .. Len(u) : \E j \in 1 .. n : u[i] = s[j] /\ s[j] \in S
  /\ \A j \in 1 .. n : s[j] \in S => \E i \in 1 .. Len(u) : u[i] = s[j]

LEMMA KeepsMore ==
  ASSUME NEW T, NEW s \in Seq(T), NEW S, NEW u, NEW m \in Nat, m + 1 <= Len(s),
         Keeps(u, s, S, T, m)
  PROVE  Keeps(IF s[m + 1] \in S THEN Append(u, s[m + 1]) ELSE u, s, S, T, m + 1)
<1> DEFINE x == s[m + 1]
           w == Append(u, x)
<1>1. m + 1 \in 1 .. Len(s) /\ x \in T
  OBVIOUS
<1>2. /\ u \in Seq(T) /\ Len(u) \in Nat
      /\ w \in Seq(T) /\ Len(w) = Len(u) + 1 /\ w[Len(u) + 1] = x
      /\ \A i \in 1 .. Len(u) : w[i] = u[i]
  BY <1>1 DEF Keeps
<1>3. x = s[m + 1]
  OBVIOUS
<1> HIDE DEF w, x
<1>4. CASE x \in S
  <2>1. ASSUME NEW i \in 1 .. Len(w) PROVE \E j \in 1 .. m + 1 : w[i] = s[j] /\ s[j] \in S
    <3>1. CASE i \in 1 .. Len(u)
      <4>1. PICK j \in 1 .. m : u[i] = s[j] /\ s[j] \in S
        BY <3>1 DEF Keeps
      <4>2. j \in 1 .. m + 1
        OBVIOUS
      <4>3. w[i] = s[j] /\ s[j] \in S
        BY <1>2, <3>1, <4>1
      <4> QED
        BY <4>2, <4>3
    <3>2. CASE i = Len(u) + 1
      <4>1. w[i] = s[m + 1] /\ s[m + 1] \in S
        BY <1>2, <1>3, <1>4, <3>2
      <4>2. m + 1 \in 1 .. m + 1
        OBVIOUS
      <4> QED
        BY <4>1, <4>2
    <3> QED
      BY <1>2, <3>1, <3>2
  <2>2. ASSUME NEW j \in 1 .. m + 1, s[j] \in S PROVE \E i \in 1 .. Len(w) : w[i] = s[j]
    <3>1. CASE j \in 1 .. m
      <4>1. PICK i \in 1 .. Len(u) : u[i] = s[j]
        BY <2>2, <3>1 DEF Keeps
      <4>2. i \in 1 .. Len(w) /\ w[i] = s[j]
        BY <1>2, <4>1
      <4> QED
        BY <4>2
    <3>2. CASE j = m + 1
      <4>1. Len(u) + 1 \in 1 .. Len(w) /\ w[Len(u) + 1] = s[j]
        BY <1>2, <1>3, <3>2
      <4> QED
        BY <4>1
    <3> QED
      BY <3>1, <3>2
  <2>3. Keeps(w, s, S, T, m + 1)
    BY <1>2, <2>1, <2>2 DEF Keeps
  <2> QED
    BY <1>4, <2>3 DEF w, x
<1>5. CASE x \notin S
  <2>1. \A j \in 1 .. m + 1 : s[j] \in S => j \in 1 .. m
    BY <1>3, <1>5
  <2>2. \A j \in 1 .. m : j \in 1 .. m + 1
    OBVIOUS
  <2>3. Keeps(u, s, S, T, m + 1)
    BY <2>1, <2>2 DEF Keeps
  <2> QED
    BY <1>3, <1>5, <2>3
<1> QED
  BY <1>4, <1>5

\* It keeps the elements that are in S, and no other.
LEMMA OnlyIs ==
  ASSUME NEW T, NEW s \in Seq(T), NEW S
  PROVE  Only(s, S) \in Seq(T) /\ ToSet(Only(s, S)) = ToSet(s) \cap S
<1>1. Len(s) \in Nat /\ DOMAIN s = 1 .. Len(s)
  OBVIOUS
<1>2. PICK f : /\ f[0] = << >> /\ Only(s, S) = f[Len(s)]
               /\ \A k \in 1 .. Len(s) :
                    f[k] = IF s[k] \in S THEN Append(f[k - 1], s[k]) ELSE f[k - 1]
  BY <1>1, OnlySteps
<1> DEFINE M == {m \in Nat : m <= Len(s) => Keeps(f[m], s, S, T, m)}
<1>3. 0 \in M
  <2>1. Keeps(<< >>, s, S, T, 0)
    BY DEF Keeps
  <2> QED
    BY <1>2, <2>1
<1>4. ASSUME NEW m \in M PROVE m + 1 \in M
  <2> SUFFICES ASSUME m + 1 <= Len(s) PROVE Keeps(f[m + 1], s, S, T, m + 1)
    OBVIOUS
  <2>1. m \in Nat /\ Keeps(f[m], s, S, T, m)
    BY <1>1
  <2>2. f[m + 1] = IF s[m + 1] \in S THEN Append(f[m], s[m + 1]) ELSE f[m]
    BY <1>1, <1>2, <2>1
  <2> QED
    BY <2>1, <2>2, KeepsMore
<1> HIDE DEF M
<1>5. M = Nat
  <2>1. M \in SUBSET Nat
    BY DEF M
  <2> QED
    BY <1>3, <1>4, <2>1, SetInduction
<1> DEFINE o == Only(s, S)
<1>6. Keeps(o, s, S, T, Len(s))
  BY <1>1, <1>2, <1>5 DEF M
<1> HIDE DEF o
<1>7. o \in Seq(T)
  BY <1>6 DEF Keeps
<1>8. DOMAIN o = 1 .. Len(o)
  BY <1>7
<1>9. ToSet(o) \subseteq ToSet(s) \cap S
  BY <1>1, <1>6, <1>8 DEF ToSet, Keeps
<1>10. ToSet(s) \cap S \subseteq ToSet(o)
  <2> SUFFICES ASSUME NEW j \in 1 .. Len(s), s[j] \in S PROVE s[j] \in ToSet(o)
    BY <1>1 DEF ToSet
  <2>1. PICK i \in 1 .. Len(o) : o[i] = s[j]
    BY <1>6 DEF Keeps
  <2> QED
    BY <1>8, <2>1 DEF ToSet
<1> QED
  BY <1>7, <1>9, <1>10 DEF o

-----------------------------------------------------------------------------
(*****************************************************************************)
(* What a walk publishes.                                                    *)
(*****************************************************************************)
\* Each type is published once at most, and is one of Ts.
Once(steps, Ts) ==
  \A k \in 1 .. Len(steps) :
    /\ steps[k].type \in Ts \cup {"NONE"}
    /\ \A j \in 1 .. Len(steps) :
         steps[j].type = steps[k].type => j = k \/ steps[k].type = "NONE"

LEMMA AppendOnce ==
  ASSUME NEW s, IsWalk(s), NEW Ts, Once(s, Ts), NEW x, IsStep(x), x.type = "NONE" \/ x.type \notin Ts
  PROVE  Once(Append(s, x), Ts \cup {x.type})
<1> DEFINE w == Append(s, x)
<1>1. /\ Len(s) \in Nat \ {0} /\ Len(w) = Len(s) + 1
      /\ \A k \in 1 .. Len(s) : w[k] = s[k]
      /\ w[Len(s) + 1] = x
  BY WalkAppends
<1> HIDE DEF w
<1>2. \A k \in 1 .. Len(w) : k \in 1 .. Len(s) \/ k = Len(s) + 1
  BY <1>1
<1> QED
  BY <1>1, <1>2 DEF Once, w

LEMMA EmitOnce ==
  ASSUME NEW s, IsWalk(s), NEW Ts, Once(s, Ts), NEW type, type \notin Ts, NEW trigger,
         NEW time \in Int, NEW change
  PROVE  Once(Emit(s, type, trigger, time, change), Ts \cup {type})
<1> DEFINE fields == Changed(LastFields(s), change, time)
           x == [type |-> type, trigger |-> trigger, fields |-> fields]
<1>1. {"primary", "time", "blocked"} \subseteq DOMAIN LastFields(s)
  BY WalkLast DEF IsStep
<1>2. fields.time = time /\ {"primary", "time", "blocked"} \subseteq DOMAIN fields
  BY <1>1 DEF Changed
<1> HIDE DEF fields
<1>3. x.fields = fields /\ x.type = type
  OBVIOUS
<1>4. IsStep(x)
  BY <1>2, <1>3 DEF IsStep
<1>5. Emit(s, type, trigger, time, change) = Append(s, x)
  BY DEF Emit, fields
<1> HIDE DEF x
<1> QED
  BY <1>3, <1>4, <1>5, AppendOnce

LEMMA OnceMore ==
  ASSUME NEW s, NEW Ts, NEW Us, Once(s, Ts), Ts \subseteq Us
  PROVE  Once(s, Us)
BY DEF Once

\* The types of the steps that the price scans and the gates of the reaction lead
\* to, and of those the final gates lead to after them.
ScanTypes == {"ENTERED_FORMING", "INTERACTION_INELIGIBLE", "ACCURACY_GATE_CONFIRMED"}

ReactionTypes ==
  ScanTypes \cup {"WEAK_REACTION", "REACTION_GATE_CONFIRMED", "REACTION_SPEED_FAILED",
                  "REACTION_SPEED_GATE_CONFIRMED"}

Reasons == {"NO_LIQUIDITY_EVIDENCE", "CONTEXT_REJECTED", "SESSION_INACTIVE",
            "VOLUME_PILLAR_FAILED"}

StepTypes == ReactionTypes \cup Reasons \cup {"BLOCKED", "CONFIRMED", "RESUMED_FORMING"}

\* What was published before the final gates decide: "BLOCKED" if late.
LEMMA ResolveOnce ==
  ASSUME NEW s, IsWalk(s), NEW e, NEW reviewed, NEW time \in Int, NEW trigger,
         NEW late \in BOOLEAN, NEW Ts,
         Once(s, Ts), Ts \subseteq ReactionTypes \cup (IF late THEN {"BLOCKED"} ELSE {})
  PROVE  Once(Resolve(s, ResolveFinalGates(e), reviewed, time, trigger, late), StepTypes)
<1> DEFINE outcome == ResolveFinalGates(e)
           type == IF outcome.kind = "CANCEL" THEN outcome.reason
                   ELSE IF outcome.kind = "CONFIRM" THEN "CONFIRMED"
                   ELSE IF late THEN "RESUMED_FORMING" ELSE "BLOCKED"
<1>1. outcome.kind = "CANCEL" => outcome.reason \in Reasons
  BY DEF ResolveFinalGates, Reasons
<1>2. \E change : Resolve(s, outcome, reviewed, time, trigger, late)
                    = Emit(s, type, trigger, time, change)
  BY DEF Resolve
<1> HIDE DEF outcome
<1>3. type \in StepTypes /\ type \notin Ts
  BY <1>1 DEF StepTypes, ReactionTypes, ScanTypes, Reasons
<1> HIDE DEF type
<1>4. PICK change : Resolve(s, outcome, reviewed, time, trigger, late)
                      = Emit(s, type, trigger, time, change)
  BY <1>2
<1>5. Once(Emit(s, type, trigger, time, change), Ts \cup {type})
  BY <1>3, EmitOnce
<1>6. Ts \cup {type} \subseteq StepTypes
  BY <1>3 DEF StepTypes
<1>7. Once(Emit(s, type, trigger, time, change), StepTypes)
  BY <1>5, <1>6, OnceMore
<1> QED
  BY <1>4, <1>7 DEF outcome

LEMMA FinalGatesOnce ==
  ASSUME NEW s, IsWalk(s), Once(s, ReactionTypes), NEW t \in Int, NEW evidence_,
         evidence_ # NoEvidence => evidence_.time \in Int
  PROVE  Once(FinalGates(s, t, evidence_), StepTypes)
<1> DEFINE time == evidence_.time
           blocked == Emit(s, "BLOCKED", NoTrigger, t,
                           [primary |-> "BTMM_BLOCKED", blocked |-> "LIQUIDITY_REVIEW_PENDING"])
           none == "NO_LIQUIDITY_EVIDENCE"
<1>1. "BLOCKED" \notin ReactionTypes /\ none \notin ReactionTypes
      /\ ReactionTypes \cup {none} \subseteq StepTypes
  BY DEF ReactionTypes, ScanTypes, StepTypes, Reasons
<1>2. CASE evidence_ = NoEvidence
  <2>1. Once(Emit(s, none, NoTrigger, t, Cancelled(none)), ReactionTypes \cup {none})
    BY <1>1, EmitOnce
  <2>2. Once(Emit(s, none, NoTrigger, t, Cancelled(none)), StepTypes)
    BY <1>1, <2>1, OnceMore
  <2> QED
    BY <1>2, <2>2 DEF FinalGates
<1>3. CASE evidence_ # NoEvidence /\ time > t
  <2>1. IsWalk(blocked)
    BY EmitWalk
  <2>2. Once(blocked, ReactionTypes \cup {"BLOCKED"})
    BY <1>1, EmitOnce
  <2>3. FinalGates(s, t, evidence_)
          = Resolve(blocked, ResolveFinalGates(evidence_), time, time, Reviewed(time), TRUE)
    BY <1>3 DEF FinalGates
  <2>4. time \in Int /\ TRUE \in BOOLEAN
    BY <1>3
  <2> HIDE DEF blocked, time
  <2>5. Once(Resolve(blocked, ResolveFinalGates(evidence_), time, time, Reviewed(time), TRUE),
             StepTypes)
    BY <2>1, <2>2, <2>4, ResolveOnce
  <2> QED
    BY <2>3, <2>5
<1>4. CASE evidence_ # NoEvidence /\ ~ (time > t)
  <2>1. FinalGates(s, t, evidence_)
          = Resolve(s, ResolveFinalGates(evidence_), time, t, NoTrigger, FALSE)
    BY <1>4 DEF FinalGates
  <2>2. FALSE \in BOOLEAN
    OBVIOUS
  <2> HIDE DEF time
  <2>3. Once(Resolve(s, ResolveFinalGates(evidence_), time, t, NoTrigger, FALSE), StepTypes)
    BY <2>2, ResolveOnce
  <2> QED
    BY <2>1, <2>3
<1> QED
  BY <1>2, <1>3, <1>4

LEMMA AutomaticOnce ==
  ASSUME NEW s, IsWalk(s), NEW Ts, Once(s, Ts), NEW events_
  PROVE  Once(WithAutomaticEvidence(s, events_), Ts)
<1> DEFINE fields == [LastFields(s) EXCEPT !.automatic = TRUE]
           x == [type |-> "NONE", trigger |-> NoTrigger, fields |-> fields]
<1>1. {"primary", "time", "blocked"} \subseteq DOMAIN LastFields(s)
      /\ "time" \in DOMAIN LastFields(s) /\ LastFields(s).time \in Int
  BY WalkLast DEF IsStep
<1>2. DOMAIN fields = DOMAIN LastFields(s) /\ fields["time"] = LastFields(s)["time"]
  BY <1>1, Zenon
<1> HIDE DEF fields
<1>3. x.fields = fields /\ x.type = "NONE"
  OBVIOUS
<1>4. IsStep(x)
  BY <1>1, <1>2, <1>3 DEF IsStep
<1>5. WithAutomaticEvidence(s, events_) \in {s, Append(s, x)}
  BY DEF WithAutomaticEvidence, fields
<1> HIDE DEF x
<1>6. Once(Append(s, x), Ts \cup {x.type})
  BY <1>3, <1>4, AppendOnce
<1>7. Once(Append(s, x), Ts)
  BY <1>3, <1>6 DEF Once
<1> QED
  BY <1>5, <1>7

LEMMA GatesOnce ==
  ASSUME NEW s, IsWalk(s), Once(s, ScanTypes), NEW tier, NEW close \in Int, NEW events_,
         NEW evidence_, evidence_ # NoEvidence => evidence_.time \in Int
  PROVE  Once(AfterReaction(s, tier, close, events_, evidence_), StepTypes)
<1> DEFINE t == TimeOf(close)
           Gate(type, change, from) == Emit(from, type, Candle(close), TimeOf(close), change)
           weak == Gate("WEAK_REACTION", Cancelled("WEAK_REACTION"), s)
           passed == Gate("REACTION_GATE_CONFIRMED", [time |-> TimeOf(close)], s)
           slow == Gate("REACTION_SPEED_FAILED", Cancelled("REACTION_SPEED_FAILED"), passed)
           fast == Gate("REACTION_SPEED_GATE_CONFIRMED", [stage |-> "FINAL_GATE_EVALUATION"], passed)
           auto == WithAutomaticEvidence(fast, events_)
           final == FinalGates(auto, t, evidence_)
           Ps == ScanTypes \cup {"REACTION_GATE_CONFIRMED"}
<1>1. t \in Int
  BY DEF TimeOf
<1>2. /\ "WEAK_REACTION" \notin ScanTypes /\ "REACTION_GATE_CONFIRMED" \notin ScanTypes
      /\ "REACTION_SPEED_FAILED" \notin Ps /\ "REACTION_SPEED_GATE_CONFIRMED" \notin Ps
      /\ ScanTypes \cup {"WEAK_REACTION"} \subseteq StepTypes
      /\ Ps \cup {"REACTION_SPEED_FAILED"} \subseteq StepTypes
      /\ Ps \cup {"REACTION_SPEED_GATE_CONFIRMED"} \subseteq ReactionTypes
  BY DEF ScanTypes, ReactionTypes, StepTypes
<1>3. Once(weak, ScanTypes \cup {"WEAK_REACTION"})
  BY <1>1, <1>2, EmitOnce
<1>4. IsWalk(passed) /\ Once(passed, Ps)
  BY <1>1, <1>2, EmitOnce, EmitWalk
<1> HIDE DEF passed, Ps
<1>5. Once(slow, Ps \cup {"REACTION_SPEED_FAILED"})
  BY <1>1, <1>2, <1>4, EmitOnce
<1>6. IsWalk(fast) /\ Once(fast, Ps \cup {"REACTION_SPEED_GATE_CONFIRMED"})
  BY <1>1, <1>2, <1>4, EmitOnce, EmitWalk
<1> HIDE DEF weak, slow, fast
<1>7. Once(weak, StepTypes) /\ Once(slow, StepTypes) /\ Once(fast, ReactionTypes)
  BY <1>2, <1>3, <1>5, <1>6, OnceMore
<1>8. IsWalk(auto) /\ Once(auto, ReactionTypes)
  BY <1>6, <1>7, AutomaticWalk, AutomaticOnce
<1> HIDE DEF auto
<1>9. Once(final, StepTypes)
  BY <1>1, <1>8, FinalGatesOnce
<1>10. AfterReaction(s, tier, close, events_, evidence_)
        = IF tier = "weak" THEN weak ELSE IF tier = "slow" THEN slow ELSE final
  BY DEF AfterReaction, weak, passed, slow, fast, auto
<1> HIDE DEF final
<1> QED
  BY <1>7, <1>9, <1>10

LEMMA StepsOnce ==
  ASSUME NEW found, found.forming \in Int, found.interaction \in Int, found.close \in Int,
         NEW a \in Int, NEW events_, NEW evidence_,
         evidence_ # NoEvidence => evidence_.time \in Int
  PROVE  Once(Steps(found, a, events_, evidence_), StepTypes)
<1> DEFINE x == InitialStep(a)
           first == <<x>>
           entered == [primary |-> "BTMM_FORMING", stage |-> "POI_INTERACTION"]
           forming == Emit(first, "ENTERED_FORMING", Candle(found.forming),
                           TimeOf(found.forming), entered)
           reason == "INTERACTION_INELIGIBLE"
           out == Emit(forming, reason, Candle(found.interaction), TimeOf(found.interaction),
                       Cancelled(reason))
           eligible == Emit(forming, "ACCURACY_GATE_CONFIRMED", Candle(found.interaction),
                            TimeOf(found.interaction), [stage |-> "REACTION_MONITORING"])
           final == AfterReaction(eligible, found.tier, found.close, events_, evidence_)
           Fs == {} \cup {"ENTERED_FORMING"}
<1>1. TimeOf(found.forming) \in Int /\ TimeOf(found.interaction) \in Int
  BY DEF TimeOf
<1>2. IsWalk(first) /\ Once(first, {})
  <2>1. IsStep(x) /\ x.type = "NONE"
    BY DEF IsStep, InitialStep
  <2> HIDE DEF x
  <2>2. Once(first, {})
    BY <2>1 DEF Once
  <2> QED
    BY <2>1, <2>2, WalkOfOne
<1> HIDE DEF first
<1>3. /\ "ENTERED_FORMING" \notin {}
      /\ reason \notin Fs /\ "ACCURACY_GATE_CONFIRMED" \notin Fs
      /\ Fs \subseteq StepTypes /\ Fs \cup {reason} \subseteq StepTypes
      /\ Fs \cup {"ACCURACY_GATE_CONFIRMED"} \subseteq ScanTypes
      /\ {} \subseteq StepTypes /\ ScanTypes \subseteq StepTypes
  BY DEF ScanTypes, ReactionTypes, StepTypes
<1>4. IsWalk(forming) /\ Once(forming, Fs)
  BY <1>1, <1>2, <1>3, EmitWalk, EmitOnce
<1> HIDE DEF forming, Fs
<1>5. Once(out, Fs \cup {reason})
  BY <1>1, <1>3, <1>4, EmitOnce
<1>6. IsWalk(eligible) /\ Once(eligible, Fs \cup {"ACCURACY_GATE_CONFIRMED"})
  BY <1>1, <1>3, <1>4, EmitWalk, EmitOnce
<1> HIDE DEF eligible, out
<1>7. Once(first, StepTypes) /\ Once(forming, StepTypes) /\ Once(out, StepTypes)
      /\ Once(eligible, ScanTypes)
  BY <1>2, <1>3, <1>4, <1>5, <1>6, OnceMore
<1>8. Once(eligible, StepTypes) /\ Once(final, StepTypes)
  BY <1>3, <1>6, <1>7, OnceMore, GatesOnce
<1>9. Steps(found, a, events_, evidence_)
        = IF found.forming = None THEN first
          ELSE IF found.interaction = None THEN forming
          ELSE IF found.class # "ELIGIBLE" THEN out
          ELSE IF found.close = None THEN eligible ELSE final
  BY DEF Steps, AfterInteraction, first, forming, eligible, out
<1> HIDE DEF final
<1> QED
  BY <1>7, <1>8, <1>9

\* A rejection cuts the walk and publishes one type more.
LEMMA RejectedOnce ==
  ASSUME NEW s, IsWalk(s), Once(s, StepTypes), NEW at \in Nat \cup {None}
  PROVE  /\ IsWalk(RejectIfInvalidated(s, at))
         /\ \E Ts : Once(RejectIfInvalidated(s, at), Ts)
<1>1. CASE at = None
  BY <1>1 DEF RejectIfInvalidated
<1>2. CASE at # None
  <2> DEFINE time == TimeOf(at)
             kept == KeptBefore(s, time)
             change == [primary |-> "BTMM_CANCELLED", cancel |-> "POI_REJECTED",
                        blocked |-> "NONE"]
             new == Emit(kept, "POI_REJECTED", Candle(at), time, change)
  <2>1. time \in Int /\ at \in Nat
    BY <1>2 DEF TimeOf
  <2>2. PICK n : IsKept(s, time, n) /\ kept = SubSeq(s, 1, n) /\ IsWalk(SubSeq(s, 1, n))
    BY <2>1, KeptWalk
  <2>3. n \in 1 .. Len(s) /\ Len(s) \in Nat
    BY <2>2, WalkLast DEF IsKept
  <2>4. PICK S : s \in Seq(S)
    BY DEF IsWalk
  <2>5. Len(kept) = n /\ \A k \in 1 .. n : kept[k] = s[k] /\ k \in 1 .. Len(s)
    BY <2>2, <2>3, <2>4
  <2>6. IsWalk(kept) /\ Once(kept, StepTypes)
    BY <2>2, <2>5 DEF Once
  <2>7. "POI_REJECTED" \notin StepTypes
    BY DEF StepTypes, ReactionTypes, ScanTypes, Reasons
  <2> HIDE DEF kept, time, change
  <2>8. Once(new, StepTypes \cup {"POI_REJECTED"}) /\ IsWalk(new)
    BY <2>1, <2>6, <2>7, EmitOnce, EmitWalk
  <2>9. RejectIfInvalidated(s, at) \in {kept, new}
    BY <1>2 DEF RejectIfInvalidated, kept, time, change
  <2> HIDE DEF new
  <2> QED
    BY <2>6, <2>8, <2>9
<1> QED
  BY <1>1, <1>2

\* The transitions ts are a sequence, and none has the key of another.
Keyed(ts) ==
  /\ \E A : ts \in Seq(A)
  /\ \A t \in ToSet(ts), u \in ToSet(ts) : Key(t) = Key(u) => t = u

LEMMA WalkKeyed ==
  ASSUME NEW s, IsWalk(s), NEW Ts, Once(s, Ts)
  PROVE  Keyed(WalkResult(s).transitions)
<1> DEFINE ts == WalkResult(s).transitions
           shown == Published(s)
<1>1. PICK S : s \in Seq(S)
  BY DEF IsWalk
<1>2. shown \in Seq(S) /\ ToSet(shown) = ToSet(s) \cap {x \in ToSet(s) : x.type # "NONE"}
  BY <1>1, OnlyIs DEF Published
<1>3. ts = [k \in 1 .. Len(shown) |-> Transition(shown[k])]
  BY DEF WalkResult
<1> HIDE DEF shown, ts
<1>4. ts \in Seq({Transition(x) : x \in S}) /\ Len(ts) = Len(shown)
      /\ \A k \in 1 .. Len(shown) : ts[k] = Transition(shown[k])
  <2>1. Len(shown) \in Nat /\ \A k \in 1 .. Len(shown) : shown[k] \in S
    BY <1>2
  <2> QED
    BY <1>3, <2>1
<1>5. ASSUME NEW t \in ToSet(ts)
      PROVE  \E i \in 1 .. Len(s) : t = Transition(s[i]) /\ s[i].type # "NONE"
  <2>1. PICK k \in 1 .. Len(shown) : t = Transition(shown[k])
    BY <1>4 DEF ToSet
  <2>2. shown[k] \in ToSet(shown)
    BY <1>2 DEF ToSet
  <2>3. PICK i \in DOMAIN s : shown[k] = s[i]
    BY <1>2, <2>2 DEF ToSet
  <2>4. i \in 1 .. Len(s)
    BY <1>1, <2>3
  <2>5. shown[k].type # "NONE"
    BY <1>2, <2>2
  <2> QED
    BY <2>1, <2>3, <2>4, <2>5
<1>6. ASSUME NEW t \in ToSet(ts), NEW u \in ToSet(ts), Key(t) = Key(u) PROVE t = u
  <2>1. PICK i \in 1 .. Len(s) : t = Transition(s[i]) /\ s[i].type # "NONE"
    BY <1>5
  <2>2. PICK j \in 1 .. Len(s) : u = Transition(s[j]) /\ s[j].type # "NONE"
    BY <1>5
  <2>3. t.type = s[i].type /\ u.type = s[j].type
    BY <2>1, <2>2 DEF Transition
  <2>4. t.type = u.type
    BY <1>6 DEF Key
  <2>5. i = j
    BY <2>1, <2>2, <2>3, <2>4 DEF Once
  <2> QED
    BY <2>1, <2>2, <2>5
<1> QED
  BY <1>4, <1>6 DEF Keyed, ts

LEMMA CascadeKeyed ==
  ASSUME NEW found, found.forming \in Int, found.interaction \in Int, found.close \in Int,
         NEW a \in Int, NEW events_, GenuineAt(events_) \in Nat \cup {None}, NEW evidence_,
         evidence_ # NoEvidence => evidence_.time \in Int
  PROVE  Keyed(Cascade(found, a, events_, evidence_).transitions)
<1> DEFINE steps == Steps(found, a, events_, evidence_)
           final == RejectIfInvalidated(steps, GenuineAt(events_))
<1>1. IsWalk(steps) /\ Once(steps, StepTypes)
  BY StepsWalk, StepsOnce
<1> HIDE DEF steps
<1>2. IsWalk(final) /\ \E Ts : Once(final, Ts)
  BY <1>1, RejectedOnce
<1> HIDE DEF final
<1>3. Keyed(WalkResult(final).transitions)
  BY <1>2, WalkKeyed
<1> QED
  BY <1>3 DEF Cascade, final, steps

\* The ledger holds what is merged into it, and stays a sequence.
LEMMA MergeHolds ==
  ASSUME NEW old, \E A : old \in Seq(A), NEW new, Keyed(new)
  PROVE  /\ \E A : Merge(old, new) \in Seq(A)
         /\ ToSet(new) \subseteq ToSet(Merge(old, new))
<1>1. PICK A : old \in Seq(A)
  OBVIOUS
<1>2. PICK B : new \in Seq(B)
  BY DEF Keyed
<1> DEFINE fresh == {t \in ToSet(new) : \A k \in 1 .. Len(old) : Key(old[k]) # Key(t)}
           Current(t) == IF \E u \in ToSet(new) : Key(u) = Key(t)
                         THEN CHOOSE u \in ToSet(new) : Key(u) = Key(t) ELSE t
           head == [k \in 1 .. Len(old) |-> Current(old[k])]
           tail == Only(new, fresh)
           C == {Current(old[k]) : k \in 1 .. Len(old)} \cup B
           merged == head \o tail
<1>3. Merge(old, new) = merged
  BY DEF Merge
<1>4. tail \in Seq(B) /\ ToSet(tail) = ToSet(new) \cap fresh
  BY <1>2, OnlyIs
<1>5. ASSUME NEW t \in ToSet(new), NEW k \in 1 .. Len(old), Key(old[k]) = Key(t)
      PROVE  Current(old[k]) = t
  BY <1>5 DEF Keyed
<1>6. Len(old) \in Nat /\ head \in Seq(C) /\ Len(head) = Len(old)
      /\ \A k \in 1 .. Len(old) : head[k] = Current(old[k])
  BY <1>1
<1> HIDE DEF head, tail, Current
<1>7. tail \in Seq(C) /\ Len(tail) \in Nat
  BY <1>4
<1> HIDE DEF C
<1>8. /\ merged \in Seq(C) /\ Len(merged) = Len(head) + Len(tail)
      /\ \A k \in 1 .. Len(head) : merged[k] = head[k]
      /\ \A k \in 1 .. Len(tail) : merged[Len(head) + k] = tail[k]
  BY <1>6, <1>7, SMTT(30)
<1> HIDE DEF merged
<1>9. DOMAIN merged = 1 .. Len(merged) /\ DOMAIN tail = 1 .. Len(tail)
  BY <1>7, <1>8
<1>10. ASSUME NEW t \in ToSet(new) PROVE t \in ToSet(merged)
  <2>1. CASE \E k \in 1 .. Len(old) : Key(old[k]) = Key(t)
    <3>1. PICK k \in 1 .. Len(old) : Key(old[k]) = Key(t)
      BY <2>1
    <3>2. merged[k] = t /\ k \in 1 .. Len(merged)
      BY <1>5, <1>6, <1>7, <1>8, <3>1
    <3> QED
      BY <1>9, <3>2 DEF ToSet
  <2>2. CASE ~ \E k \in 1 .. Len(old) : Key(old[k]) = Key(t)
    <3>1. t \in ToSet(tail)
      BY <1>4, <2>2
    <3>2. PICK k \in 1 .. Len(tail) : tail[k] = t
      BY <1>9, <3>1 DEF ToSet
    <3>3. merged[Len(head) + k] = t /\ Len(head) + k \in 1 .. Len(merged)
      BY <1>6, <1>7, <1>8, <3>2
    <3> QED
      BY <1>9, <3>3 DEF ToSet
  <2> QED
    BY <2>1, <2>2
<1> QED
  BY <1>3, <1>8, <1>10

-----------------------------------------------------------------------------
(*****************************************************************************)
(* The ledger.                                                               *)
(*****************************************************************************)
\* What is read of a setup is in the ledger, unless it is evidence that found the
\* setup frozen.
LedgerFits ==
  \A p \in DOMAIN specs :
    /\ \E A : ledger[p] \in Seq(A)
    /\ (regs[p].stage = "FROZEN" => reviewedEvidence[p] = NoEvidence) =>
         ToSet(Read(p).transitions) \subseteq ToSet(ledger[p])

LEMMA FitsKeyed ==
  ASSUME NEW x, NEW h, Len(h) \in Nat, NEW a \in Int, NEW events_, NEW evidence_,
         evidence_ # NoEvidence => evidence_.time \in Int,
         CursorFits(x, h, a, GenuineAt(events_))
  PROVE  Keyed(MaterializeCursor(x, a, events_, evidence_).transitions)
<1>1. x \in Shaped /\ GenuineAt(events_) \in Nat \cup {None}
  BY DEF CursorFits, InStep
<1> DEFINE found == FoundBy(x)
<1>2. found.forming \in Int /\ found.interaction \in Int /\ found.close \in Int
  BY <1>1 DEF FoundBy, Found, Shaped, None
<1>3. MaterializeCursor(x, a, events_, evidence_) = Cascade(found, a, events_, evidence_)
  BY DEF MaterializeCursor, FoundBy
<1> HIDE DEF found
<1> QED
  BY <1>1, <1>2, <1>3, CascadeKeyed

LEMMA GroupLedger ==
  ASSUME Inv, LedgerFits, NEW c, NEW d, NEW happened, NEW seen, Turn(c, d, happened, seen),
         Group(c, d, happened, Walk(WalksNow(d), happened), seen), ~ failed'
  PROVE  LedgerFits'
<1> DEFINE next == Revised(specs, d)
           after == After(c, d, happened, seen)
           known == Known(d, happened)
           evid == EvidenceAfter(d, seen)
           walks == Walks(after, next, known, evid)
           newRegs == Regs(after, next, known, walks)
           old(p) == IF p \in DOMAIN ledger THEN ledger[p] ELSE << >>
           H == Append(candles, c)
<1>1. /\ specs' = next /\ poiTransitions' = known /\ reviewedEvidence' = evid
      /\ Commit(d, after, next, known, evid, walks, newRegs)
  BY GroupState
<1>2. ReplayInv /\ candles \in Seq(Candles) /\ c \in Candles
      /\ DOMAIN ledger = DOMAIN specs
  BY TurnSpecs DEF Inv, ReplayInv, DomainsFit
<1>3. /\ DOMAIN after \subseteq DOMAIN next
      /\ \A p \in DOMAIN next :
           CursorFits(CursorThen(after, p), ViewsOf(H, next[p].zone), next[p].available,
                      GenuineAt(known[p]))
      /\ \A p \in DOMAIN next \ DOMAIN after :
           /\ p \in DOMAIN specs /\ next[p] = specs[p]
           /\ known[p] = poiTransitions[p]
           /\ p \in ReviewNow(seen) => regs[p].stage = "FROZEN"
  BY <1>2, TurnCursors
<1>4. \A p \in DOMAIN next :
        /\ EvidenceFits(p \in relayedEvidence \cup ReviewNow(seen), seen[p], evid[p])
        /\ evid[p] = seen[p]
        /\ p \in DOMAIN specs /\ p \notin ReviewNow(seen) => evid[p] = reviewedEvidence[p]
        /\ next[p] \in PoiSpecs
  <2>1. \A p \in DOMAIN next :
          /\ EvidenceFits(p \in relayedEvidence \cup ReviewNow(seen), seen[p], evid[p])
          /\ evid[p] = seen[p]
          /\ p \in DOMAIN specs /\ p \notin ReviewNow(seen) =>
               evid[p] = reviewedEvidence[p] /\ seen[p] = visible[p]
    <3>1. \A p \in DOMAIN Revised(specs, d) :
            /\ EvidenceFits(p \in relayedEvidence \cup ReviewNow(seen), seen[p],
                            EvidenceAfter(d, seen)[p])
            /\ EvidenceAfter(d, seen)[p] = seen[p]
            /\ p \in DOMAIN specs /\ p \notin ReviewNow(seen) =>
                 EvidenceAfter(d, seen)[p] = reviewedEvidence[p] /\ seen[p] = visible[p]
            /\ p \in DOMAIN specs /\ seen[p] # visible[p] => p \in ReviewNow(seen)
      BY <1>2, TurnEvidence
    <3> QED
      BY <3>1
  <2>2. \A p \in DOMAIN next : next[p] \in PoiSpecs
    BY <1>2, TurnSpecs
  <2> HIDE DEF next, evid
  <2> QED
    BY <2>1, <2>2
<1>5. ReviewNow(seen) \subseteq {p \in DOMAIN seen : seen[p] # NoEvidence}
  BY DEF ReviewNow
<1>6. DOMAIN walks = DOMAIN after /\ DOMAIN newRegs = DOMAIN after
  BY DEF Walks, Regs
<1>7. \A p \in DOMAIN after :
        walks[p] = MaterializeCursor(after[p], next[p].available, known[p], evid[p])
  BY DEF Walks
<1> HIDE DEF next, after, known, evid, walks, newRegs
<1>8. \A p \in DOMAIN next :
        /\ cursors'[p] = IF p \in DOMAIN after THEN after[p] ELSE cursors[p]
        /\ regs'[p] = IF p \in DOMAIN newRegs THEN newRegs[p] ELSE regs[p]
        /\ ledger'[p] = IF p \in DOMAIN walks THEN Merge(old(p), walks[p].transitions) ELSE old(p)
  BY <1>1 DEF Commit
<1>9. \A p \in DOMAIN next : \E A : old(p) \in Seq(A)
  <2>1. << >> \in Seq({})
    OBVIOUS
  <2> QED
    BY <1>2, <2>1 DEF LedgerFits
<1> HIDE DEF old
<1>10. ASSUME NEW p \in DOMAIN next
       PROVE  /\ \E A : ledger'[p] \in Seq(A)
              /\ (regs'[p].stage = "FROZEN" => evid[p] = NoEvidence) =>
                   ToSet(MaterializeCursor(cursors'[p], next[p].available, known[p],
                                           evid[p]).transitions)
                     \subseteq ToSet(ledger'[p])
  <2>1. CASE p \in DOMAIN after
    <3>1. Keyed(walks[p].transitions)
      <4>1. H \in Seq(Candles) /\ H # << >>
        BY <1>2
      <4>2. ViewsOf(H, next[p].zone) \in Seq(BtmmView) /\ next[p].available \in Int
        BY <1>4, <4>1, ViewsType
      <4> DEFINE h == ViewsOf(H, next[p].zone)
                 a == next[p].available
                 x == after[p]
                 walk == known[p]
                 e == evid[p]
      <4>3. CursorFits(x, h, a, GenuineAt(walk))
        BY <1>3, <2>1 DEF CursorThen
      <4>4. e # NoEvidence => e.time \in Int
        BY <1>4 DEF EvidenceFits
      <4>5. Len(h) \in Nat /\ a \in Int
        BY <4>2
      <4>6. walks[p] = MaterializeCursor(x, a, walk, e)
        BY <1>7, <2>1
      <4> HIDE DEF h, a, x, walk, e
      <4>7. Keyed(MaterializeCursor(x, a, walk, e).transitions)
        BY <4>3, <4>4, <4>5, FitsKeyed
      <4> QED
        BY <4>6, <4>7
    <3>2. ledger'[p] = Merge(old(p), walks[p].transitions)
      BY <1>6, <1>8, <2>1
    <3>3. /\ \E A : Merge(old(p), walks[p].transitions) \in Seq(A)
          /\ ToSet(walks[p].transitions) \subseteq ToSet(Merge(old(p), walks[p].transitions))
      BY <1>9, <3>1, MergeHolds
    <3>4. walks[p] = MaterializeCursor(cursors'[p], next[p].available, known[p], evid[p])
      BY <1>7, <1>8, <2>1
    <3> QED
      BY <3>2, <3>3, <3>4
  <2>2. CASE p \notin DOMAIN after
    <3>1. /\ p \in DOMAIN specs /\ next[p] = specs[p] /\ known[p] = poiTransitions[p]
          /\ p \in ReviewNow(seen) => regs[p].stage = "FROZEN"
      BY <1>3, <2>2
    <3>2. cursors'[p] = cursors[p] /\ regs'[p] = regs[p] /\ ledger'[p] = ledger[p]
      <4>1. old(p) = ledger[p]
        BY <1>2, <3>1 DEF old
      <4> QED
        BY <1>6, <1>8, <2>2, <4>1
    <3>3. \E A : ledger[p] \in Seq(A)
      BY <3>1 DEF LedgerFits
    <3>4. CASE p \in ReviewNow(seen)
      <4>1. regs'[p].stage = "FROZEN" /\ evid[p] # NoEvidence
        BY <1>4, <1>5, <3>1, <3>2, <3>4
      <4> QED
        BY <3>2, <3>3, <4>1
    <3>5. CASE p \notin ReviewNow(seen)
      <4>1. evid[p] = reviewedEvidence[p]
        BY <1>4, <3>1, <3>5
      <4>2. (regs[p].stage = "FROZEN" => reviewedEvidence[p] = NoEvidence) =>
              ToSet(Read(p).transitions) \subseteq ToSet(ledger[p])
        BY <3>1 DEF LedgerFits
      <4>3. Read(p) = MaterializeCursor(cursors'[p], next[p].available, known[p], evid[p])
        BY <3>1, <3>2, <4>1 DEF Read
      <4> QED
        BY <3>2, <3>3, <4>1, <4>2, <4>3
    <3> QED
      BY <3>4, <3>5
  <2> QED
    BY <2>1, <2>2
<1> QED
  BY <1>1, <1>10 DEF LedgerFits, Read

\* The engine as it is reads and holds the same.
LEMMA SameLedger ==
  ASSUME LedgerFits,
         UNCHANGED <<specs, cursors, regs, poiTransitions, reviewedEvidence, ledger>>
  PROVE  LedgerFits'
BY DEF LedgerFits, Read

LEMMA LedgerUntilFailure == Spec => [](failed \/ (Inv /\ LedgerFits))
<1>1. Init => failed \/ (Inv /\ LedgerFits)
  <2> SUFFICES ASSUME Init PROVE Inv /\ LedgerFits
    OBVIOUS
  <2>1. DOMAIN specs = {}
    BY DEF Init
  <2> QED
    BY <2>1, InitInv DEF LedgerFits
<1>2. (failed \/ Inv) /\ (failed \/ Inv)' /\ (failed \/ (Inv /\ LedgerFits)) /\ [Next]_vars =>
        (failed \/ (Inv /\ LedgerFits))'
  <2> SUFFICES ASSUME failed \/ (Inv /\ LedgerFits), (failed \/ Inv)', [Next]_vars, ~ failed'
               PROVE  LedgerFits'
    OBVIOUS
  <2>1. CASE UNCHANGED vars
    <3>1. failed' = failed
          /\ UNCHANGED <<specs, cursors, regs, poiTransitions, reviewedEvidence, ledger>>
      BY <2>1 DEF vars, environment, engine, scheduler
    <3> QED
      BY <3>1, SameLedger
  <2>2. CASE Next
    <3>1. Inv /\ LedgerFits
      BY <2>2, StepCases
    <3>2. ASSUME NEW seen, OtherGroup(seen) PROVE LedgerFits'
      <4>1. UNCHANGED <<specs, cursors, regs, poiTransitions, reviewedEvidence, ledger>>
        BY <3>2 DEF OtherGroup, engine, scheduler
      <4> QED
        BY <3>1, <4>1, SameLedger
    <3>3. ASSUME NEW c, NEW d, NEW happened, NEW seen, Turn(c, d, happened, seen),
                 Group(c, d, happened, Walk(WalksNow(d), happened), seen)
          PROVE  LedgerFits'
      BY <3>1, <3>3, GroupLedger
    <3> QED
      BY <2>2, <3>2, <3>3, StepCases
  <2> QED
    BY <2>1, <2>2
<1> QED
  BY <1>1, <1>2, InvUntilFailure, PTL DEF Spec

\* As long as no assertion has failed, every transition of the batch lifecycle of
\* a setup is in the ledger it publishes from, though only the setups a candle
\* touched are merged into it, but for evidence that found the setup frozen, if a
\* POI is invalidated once at most: what _all_lifecycle_transitions_sorted flattens
\* misses nothing that analyze_btmm publishes.
THEOREM LedgerMissesNothing ==
  ASSUME EventsOnce
  PROVE  Spec => [](NoAssertionFails => NothingUnpublished)
<1>1. (failed \/ (Inv /\ LedgerFits)) /\ OneEvent => (NoAssertionFails => NothingUnpublished)
  <2> SUFFICES ASSUME Inv, LedgerFits, OneEvent, NEW p \in DOMAIN specs,
                      visible[p] = reviewedEvidence[p],
                      regs[p].stage = "FROZEN" => visible[p] = NoEvidence
               PROVE  ToSet(Batch(p).transitions) \subseteq ToSet(ledger[p])
    BY DEF NoAssertionFails, NothingUnpublished
  <2> DEFINE x == cursors[p]
             s == specs[p]
             h == candles
             walk == walkEvents[p]
             e == visible[p]
  <2>1. ReplayInv
    BY DEF Inv
  <2>2. /\ Reads(x, s, h, walk, e) /\ poiTransitions[p] = walk
    BY <2>1, RelayedAll DEF Reads
  <2>3. Read(p) = MaterializeCursor(x, s.available, walk, e)
    BY <2>2 DEF Read
  <2>4. Batch(p) = BatchOf(h, s, walk, e)
    BY DEF Batch
  <2> HIDE DEF x, s, h, walk, e
  <2>5. MaterializeCursor(x, s.available, walk, e) = BatchOf(h, s, walk, e)
    BY <2>2, FitsReads
  <2>6. ToSet(Read(p).transitions) \subseteq ToSet(ledger[p])
    BY DEF LedgerFits
  <2> QED
    BY <2>3, <2>4, <2>5, <2>6
<1> QED
  BY <1>1, LedgerUntilFailure, OneEventEach, PTL

-----------------------------------------------------------------------------
(*****************************************************************************)
(* What is withdrawn.                                                        *)
(*****************************************************************************)
\* What Only keeps of a sequence that goes on.
LEMMA OnlyGoesOn ==
  ASSUME NEW T, NEW s \in Seq(T), NEW t \in Seq(T), Extends(s, t), NEW S, NEW R,
         \A k \in 1 .. Len(s) : s[k] \in S <=> t[k] \in R
  PROVE  /\ Only(s, S) \in Seq(T) /\ Only(t, R) \in Seq(T) /\ Extends(Only(s, S), Only(t, R))
         /\ Len(t) = Len(s) + 1 =>
              Only(t, R) = IF t[Len(t)] \in R THEN Append(Only(s, S), t[Len(t)]) ELSE Only(s, S)
<1> DEFINE n == Len(s)
           m == Len(t)
<1>1. /\ n \in Nat /\ m \in Nat /\ n <= m
      /\ \A k \in 1 .. n : s[k] \in T /\ t[k] = s[k] /\ k \in 1 .. m
      /\ \A k \in 1 .. m : t[k] \in T
  BY DEF Extends
<1>2. PICK f : /\ f[0] = << >> /\ Only(s, S) = f[n]
               /\ \A k \in 1 .. n : f[k] = IF s[k] \in S THEN Append(f[k - 1], s[k]) ELSE f[k - 1]
  BY <1>1, OnlySteps
<1>3. PICK g : /\ g[0] = << >> /\ Only(t, R) = g[m]
               /\ \A k \in 1 .. m : g[k] = IF t[k] \in R THEN Append(g[k - 1], t[k]) ELSE g[k - 1]
  BY <1>1, OnlySteps
<1> HIDE DEF n, m
<1> DEFINE A == {k \in Nat : k <= n => f[k] = g[k]}
<1>4. A = Nat
  <2>1. 0 \in A
    BY <1>2, <1>3
  <2>2. ASSUME NEW k \in A PROVE k + 1 \in A
    <3> SUFFICES ASSUME k + 1 <= n PROVE f[k + 1] = g[k + 1]
      OBVIOUS
    <3>1. k \in Nat /\ f[k] = g[k] /\ k + 1 \in 1 .. n /\ k + 1 \in 1 .. m
      BY <1>1
    <3>2. t[k + 1] = s[k + 1] /\ (s[k + 1] \in S <=> t[k + 1] \in R)
      BY <1>1, <3>1 DEF n
    <3>3. f[k + 1] = IF s[k + 1] \in S THEN Append(f[k], s[k + 1]) ELSE f[k]
      BY <1>2, <3>1
    <3>4. g[k + 1] = IF t[k + 1] \in R THEN Append(g[k], t[k + 1]) ELSE g[k]
      BY <1>3, <3>1
    <3> QED
      BY <3>1, <3>2, <3>3, <3>4
  <2>3. A \in SUBSET Nat
    OBVIOUS
  <2> HIDE DEF A
  <2> QED
    BY <2>1, <2>2, <2>3, SetInduction
<1>5. f[n] = g[n]
  BY <1>1, <1>4
<1> DEFINE B == {k \in Nat : n + k <= m => g[n + k] \in Seq(T) /\ Extends(g[n], g[n + k])}
<1>6. g[n] \in Seq(T)
  BY <1>2, <1>5, OnlyIs
<1>7. B = Nat
  <2>1. 0 \in B
    BY <1>1, <1>6 DEF Extends
  <2>2. ASSUME NEW k \in B PROVE k + 1 \in B
    <3> SUFFICES ASSUME n + (k + 1) <= m
                 PROVE  g[n + (k + 1)] \in Seq(T) /\ Extends(g[n], g[n + (k + 1)])
      OBVIOUS
    <3> DEFINE j == n + k
    <3>1. k \in Nat /\ g[j] \in Seq(T) /\ Extends(g[n], g[j])
          /\ n + (k + 1) = j + 1 /\ j + 1 \in 1 .. m /\ j \in Nat
      BY <1>1
    <3> HIDE DEF j
    <3>2. g[j + 1] = IF t[j + 1] \in R THEN Append(g[j], t[j + 1]) ELSE g[j]
      <4> DEFINE i == j + 1
      <4>1. i \in 1 .. m /\ i - 1 = j
        BY <3>1
      <4> HIDE DEF i
      <4>2. g[i] = IF t[i] \in R THEN Append(g[j], t[i]) ELSE g[j]
        BY <1>3, <4>1
      <4> QED
        BY <4>2 DEF i
    <3>3. t[j + 1] \in T
      BY <1>1, <3>1
    <3>4. CASE t[j + 1] \in R
      <4> DEFINE x == t[j + 1]
                 u == g[j]
                 v == g[n]
                 w == Append(u, x)
      <4>1. /\ u \in Seq(T) /\ v \in Seq(T) /\ w \in Seq(T) /\ Len(w) = Len(u) + 1
            /\ \A i \in 1 .. Len(u) : w[i] = u[i]
        BY <1>6, <3>1, <3>3
      <4>2. g[j + 1] = w /\ Extends(v, u)
        BY <3>1, <3>2, <3>4
      <4>3. Len(u) \in Nat /\ Len(v) \in Nat
        BY <4>1
      <4> HIDE DEF u, v, w
      <4>4. Extends(v, w)
        BY <4>1, <4>2, <4>3 DEF Extends
      <4> QED
        BY <3>1, <4>1, <4>2, <4>4 DEF v
    <3>5. CASE t[j + 1] \notin R
      BY <3>1, <3>2, <3>5
    <3> QED
      BY <3>4, <3>5
  <2>3. B \in SUBSET Nat
    OBVIOUS
  <2> HIDE DEF B
  <2> QED
    BY <2>1, <2>2, <2>3, SetInduction
<1>8. g[m] \in Seq(T) /\ Extends(g[n], g[m])
  <2> DEFINE k == m - n
  <2>1. k \in Nat /\ n + k = m
    BY <1>1
  <2>2. k \in B
    BY <1>7, <2>1
  <2> HIDE DEF k
  <2>3. g[n + k] \in Seq(T) /\ Extends(g[n], g[n + k])
    BY <1>1, <2>1, <2>2
  <2> QED
    BY <2>1, <2>3
<1>9. m = n + 1 => g[m] = IF t[m] \in R THEN Append(g[n], t[m]) ELSE g[n]
  <2> SUFFICES ASSUME m = n + 1
               PROVE  g[m] = IF t[m] \in R THEN Append(g[n], t[m]) ELSE g[n]
    OBVIOUS
  <2>1. m \in 1 .. m /\ m - 1 = n
    BY <1>1
  <2> QED
    BY <1>3, <2>1
<1> QED
  BY <1>2, <1>3, <1>5, <1>6, <1>8, <1>9 DEF n, m

\* What is shown of a walk.
Shown(steps) == WalkResult(steps).transitions

LEMMA ShownIs ==
  ASSUME NEW S, NEW s \in Seq(S)
  PROVE  /\ Published(s) \in Seq(S)
         /\ Shown(s) \in Seq({Transition(x) : x \in S})
         /\ Shown(s) = [k \in 1 .. Len(Published(s)) |-> Transition(Published(s)[k])]
         /\ Len(Shown(s)) = Len(Published(s))
<1> DEFINE o == Published(s)
<1>1. o \in Seq(S)
  BY OnlyIs DEF Published
<1>2. Shown(s) = [k \in 1 .. Len(o) |-> Transition(o[k])]
  BY DEF Shown, WalkResult
<1> HIDE DEF o
<1>3. Len(o) \in Nat /\ \A k \in 1 .. Len(o) : o[k] \in S
  BY <1>1
<1> DEFINE w == [k \in 1 .. Len(o) |-> Transition(o[k])]
<1>4. w \in Seq({Transition(x) : x \in S}) /\ Len(w) = Len(o)
  BY <1>3
<1> HIDE DEF w
<1>5. Shown(s) = w
  BY <1>2 DEF w
<1> QED
  BY <1>1, <1>2, <1>4, <1>5 DEF o

\* A step more shows a transition more, unless it publishes nothing.
LEMMA ShownAppend ==
  ASSUME NEW s, IsWalk(s), NEW x, IsStep(x)
  PROVE  Shown(Append(s, x))
           = IF x.type = "NONE" THEN Shown(s) ELSE Append(Shown(s), Transition(x))
<1>1. PICK S : s \in Seq(S)
  BY DEF IsWalk
<1> DEFINE T == S \cup {x}
           t == Append(s, x)
           R(u) == {y \in ToSet(u) : y.type # "NONE"}
<1>2. /\ s \in Seq(T) /\ t \in Seq(T) /\ Len(t) = Len(s) + 1 /\ t[Len(t)] = x
      /\ Len(s) \in Nat /\ \A k \in 1 .. Len(s) : t[k] = s[k]
  BY <1>1
<1>3. DOMAIN s = 1 .. Len(s) /\ DOMAIN t = 1 .. Len(t)
  BY <1>2
<1> HIDE DEF t, T
<1>4. Extends(s, t)
  BY <1>2 DEF Extends
<1>5. \A k \in 1 .. Len(s) : s[k] \in R(s) <=> t[k] \in R(t)
  BY <1>2, <1>3 DEF ToSet
<1>6. t[Len(t)] \in R(t) <=> x.type # "NONE"
  BY <1>2, <1>3 DEF ToSet
<1>7. Only(t, R(t)) = IF t[Len(t)] \in R(t) THEN Append(Only(s, R(s)), t[Len(t)]) ELSE Only(s, R(s))
  <2> DEFINE A == R(s)
             B == R(t)
  <2>1. \A k \in 1 .. Len(s) : s[k] \in A <=> t[k] \in B
    BY <1>5
  <2> HIDE DEF A, B
  <2>2. Only(t, B) = IF t[Len(t)] \in B THEN Append(Only(s, A), t[Len(t)]) ELSE Only(s, A)
    BY <1>2, <1>4, <2>1, OnlyGoesOn
  <2> QED
    BY <2>2 DEF A, B
<1>8. Published(t) = IF x.type = "NONE" THEN Published(s) ELSE Append(Published(s), x)
  BY <1>2, <1>6, <1>7 DEF Published
<1> DEFINE o == Published(s)
           p == Published(t)
           U == {Transition(y) : y \in T}
<1>9. /\ o \in Seq(T) /\ p \in Seq(T)
      /\ Shown(s) \in Seq(U) /\ Shown(t) \in Seq(U)
      /\ Len(Shown(s)) = Len(o) /\ Len(Shown(t)) = Len(p)
      /\ \A k \in 1 .. Len(o) : Shown(s)[k] = Transition(o[k])
      /\ \A k \in 1 .. Len(p) : Shown(t)[k] = Transition(p[k])
  BY <1>2, ShownIs
<1>10. x \in T
  BY DEF T
<1> HIDE DEF o, p
<1>11. CASE x.type = "NONE"
  <2>1. p = o
    BY <1>8, <1>11 DEF o, p
  <2>2. Shown(t) = Shown(s)
    BY <1>9, <2>1, SeqEqual
  <2> QED
    BY <1>11, <2>2 DEF t
<1>12. CASE x.type # "NONE"
  <2>1. p = Append(o, x)
    BY <1>8, <1>12 DEF o, p
  <2> DEFINE w == Append(Shown(s), Transition(x))
  <2>2. /\ Len(p) = Len(o) + 1 /\ Len(o) \in Nat /\ p[Len(o) + 1] = x
        /\ \A k \in 1 .. Len(o) : p[k] = o[k]
    BY <1>9, <1>10, <2>1
  <2>3. Transition(x) \in U
    BY <1>10
  <2> HIDE DEF U
  <2>4. /\ w \in Seq(U) /\ Len(w) = Len(o) + 1 /\ w[Len(o) + 1] = Transition(x)
        /\ \A k \in 1 .. Len(o) : w[k] = Shown(s)[k]
    BY <1>9, <2>2, <2>3
  <2> HIDE DEF w
  <2>5. \A k \in 1 .. Len(w) : w[k] = Shown(t)[k]
    <3> SUFFICES ASSUME NEW k \in 1 .. Len(w) PROVE w[k] = Shown(t)[k]
      OBVIOUS
    <3>1. CASE k \in 1 .. Len(o)
      BY <1>9, <2>2, <2>4, <3>1
    <3>2. CASE k = Len(o) + 1
      BY <1>9, <2>2, <2>4, <3>2
    <3> QED
      BY <2>2, <2>4, <3>1, <3>2
  <2>6. w = Shown(t)
    BY <1>9, <2>2, <2>4, <2>5, SeqEqual
  <2> QED
    BY <1>12, <2>6 DEF w, t
<1> QED
  BY <1>11, <1>12

\* A walk that goes on shows what it showed, and more.
LEMMA ShownGrows ==
  ASSUME NEW s, IsWalk(s), NEW t, IsWalk(t), Extends(s, t)
  PROVE  IsPrefix(Shown(s), Shown(t))
<1>1. PICK S : s \in Seq(S)
  BY DEF IsWalk
<1>2. PICK U : t \in Seq(U)
  BY DEF IsWalk
<1> DEFINE T == S \cup U
           A == {y \in ToSet(s) : y.type # "NONE"}
           B == {y \in ToSet(t) : y.type # "NONE"}
<1>3. s \in Seq(T) /\ t \in Seq(T) /\ Len(s) \in Nat /\ Len(t) \in Nat
  BY <1>1, <1>2
<1>4. DOMAIN s = 1 .. Len(s) /\ DOMAIN t = 1 .. Len(t)
  BY <1>3
<1> HIDE DEF T
<1>5. \A k \in 1 .. Len(s) : s[k] \in A <=> t[k] \in B
  BY <1>3, <1>4 DEF ToSet, Extends
<1> HIDE DEF A, B
<1>6. Extends(Only(s, A), Only(t, B))
  BY <1>3, <1>5, OnlyGoesOn
<1> DEFINE o == Published(s)
           p == Published(t)
           u == Shown(s)
           v == Shown(t)
           X == {Transition(y) : y \in T}
<1>7. Extends(o, p)
  BY <1>6 DEF Published, A, B
<1>8. /\ o \in Seq(T) /\ p \in Seq(T) /\ u \in Seq(X) /\ v \in Seq(X)
      /\ Len(u) = Len(o) /\ Len(v) = Len(p)
      /\ \A k \in 1 .. Len(o) : u[k] = Transition(o[k])
      /\ \A k \in 1 .. Len(p) : v[k] = Transition(p[k])
  BY <1>3, ShownIs
<1> HIDE DEF o, p, u, v, X
<1>9. Len(o) \in Nat /\ Len(p) \in Nat /\ Len(u) <= Len(v)
      /\ \A k \in 1 .. Len(u) : u[k] = v[k]
  BY <1>7, <1>8 DEF Extends
<1> DEFINE a == SubSeq(u, 1, Len(u))
           b == SubSeq(v, 1, Len(u))
<1>10. /\ a \in Seq(X) /\ b \in Seq(X) /\ Len(a) = Len(u) /\ Len(b) = Len(u)
       /\ \A k \in 1 .. Len(u) : a[k] = u[k] /\ b[k] = v[k]
  BY <1>8, <1>9
<1> HIDE DEF a, b
<1>11. a = b
  BY <1>9, <1>10, SeqEqual
<1> QED
  BY <1>9, <1>11 DEF IsPrefix, a, b, u, v

-----------------------------------------------------------------------------
(*****************************************************************************)
(* What a false invalidation changes of a walk: nothing that is published.   *)
(*****************************************************************************)
\* Walks that show the same and go on the same.
Alike(s, t) ==
  /\ IsWalk(s) /\ IsWalk(t) /\ Shown(s) = Shown(t)
  /\ DOMAIN LastFields(s) = DOMAIN LastFields(t)
  /\ \A f \in DOMAIN LastFields(s) \ {"automatic"} : LastFields(s)[f] = LastFields(t)[f]

\* The step that emit adds.
StepOf(s, type, trigger, time, change) ==
  [type |-> type, trigger |-> trigger, fields |-> Changed(LastFields(s), change, time)]

LEMMA EmitStep ==
  ASSUME NEW s, IsWalk(s), NEW type, NEW trigger, NEW time \in Int, NEW change
  PROVE  LET x == StepOf(s, type, trigger, time, change) IN
         /\ IsStep(x) /\ Emit(s, type, trigger, time, change) = Append(s, x)
         /\ x.fields.time = time /\ IsWalk(Append(s, x)) /\ LastFields(Append(s, x)) = x.fields
         /\ x.type = type /\ x.trigger = trigger /\ x.fields = Changed(LastFields(s), change, time)
<1> DEFINE fields == Changed(LastFields(s), change, time)
           x == StepOf(s, type, trigger, time, change)
<1>1. {"primary", "time", "blocked"} \subseteq DOMAIN LastFields(s)
  BY WalkLast DEF IsStep
<1>2. fields.time = time /\ {"primary", "time", "blocked"} \subseteq DOMAIN fields
  BY <1>1 DEF Changed
<1> HIDE DEF fields
<1>3. x.fields = fields /\ x.type = type /\ x.trigger = trigger
  BY DEF StepOf, fields
<1>4. Emit(s, type, trigger, time, change) = Append(s, x)
  BY DEF Emit, StepOf
<1> HIDE DEF x
<1>5. IsStep(x)
  BY <1>2, <1>3 DEF IsStep
<1>6. IsWalk(Append(s, x)) /\ LastFields(Append(s, x)) = x.fields
  BY <1>5, WalkAppends
<1> QED
  BY <1>2, <1>3, <1>4, <1>5, <1>6 DEF x, fields

LEMMA EmitAlike ==
  ASSUME NEW s, NEW t, Alike(s, t), NEW type, NEW trigger, NEW time \in Int, NEW change
  PROVE  Alike(Emit(s, type, trigger, time, change), Emit(t, type, trigger, time, change))
<1> DEFINE x == StepOf(s, type, trigger, time, change)
           y == StepOf(t, type, trigger, time, change)
           u == Append(s, x)
           v == Append(t, y)
           fx == Changed(LastFields(s), change, time)
           fy == Changed(LastFields(t), change, time)
<1>1. IsWalk(s) /\ IsWalk(t)
  BY DEF Alike
<1>2. /\ IsStep(x) /\ Emit(s, type, trigger, time, change) = u
      /\ x.fields.time = time /\ IsWalk(u) /\ LastFields(u) = fx
      /\ x.type = type /\ x.trigger = trigger /\ x.fields = fx
  BY <1>1, EmitStep
<1>3. /\ IsStep(y) /\ Emit(t, type, trigger, time, change) = v
      /\ y.fields.time = time /\ IsWalk(v) /\ LastFields(v) = fy
      /\ y.type = type /\ y.trigger = trigger /\ y.fields = fy
  BY <1>1, EmitStep
<1>4. DOMAIN fx = DOMAIN fy /\ \A f \in DOMAIN fx \ {"automatic"} : fx[f] = fy[f]
  BY DEF Alike, Changed
<1> HIDE DEF x, y, fx, fy
<1>5. "blocked" \in DOMAIN fx \ {"automatic"}
  BY <1>2 DEF IsStep
<1>6. fx.blocked = fy.blocked
  BY <1>4, <1>5
<1>7. Transition(x) = Transition(y)
  BY <1>2, <1>3, <1>6 DEF Transition
<1>8. Shown(u) = Shown(v)
  <2>1. Shown(u) = IF x.type = "NONE" THEN Shown(s) ELSE Append(Shown(s), Transition(x))
    BY <1>1, <1>2, ShownAppend
  <2>2. Shown(v) = IF y.type = "NONE" THEN Shown(t) ELSE Append(Shown(t), Transition(y))
    BY <1>1, <1>3, ShownAppend
  <2>3. Shown(s) = Shown(t)
    BY DEF Alike
  <2> QED
    BY <1>2, <1>3, <1>7, <2>1, <2>2, <2>3
<1> HIDE DEF u, v
<1>9. Alike(u, v)
  BY <1>2, <1>3, <1>4, <1>8 DEF Alike
<1> QED
  BY <1>2, <1>3, <1>9

LEMMA ResolveAlike ==
  ASSUME NEW s, NEW t, Alike(s, t), NEW outcome, NEW reviewed, NEW time \in Int, NEW trigger,
         NEW late \in BOOLEAN
  PROVE  Alike(Resolve(s, outcome, reviewed, time, trigger, late),
               Resolve(t, outcome, reviewed, time, trigger, late))
<1>1. \A type, change : Alike(Emit(s, type, trigger, time, change),
                              Emit(t, type, trigger, time, change))
  BY EmitAlike
<1> QED
  BY <1>1 DEF Resolve

LEMMA FinalGatesAlike ==
  ASSUME NEW s, NEW t, Alike(s, t), NEW at \in Int, NEW evidence_,
         evidence_ # NoEvidence => evidence_.time \in Int
  PROVE  Alike(FinalGates(s, at, evidence_), FinalGates(t, at, evidence_))
<1> DEFINE outcome == ResolveFinalGates(evidence_)
           time == evidence_.time
           reason == "NO_LIQUIDITY_EVIDENCE"
           Without(u) == Emit(u, reason, NoTrigger, at, Cancelled(reason))
           Blocked(u) == Emit(u, "BLOCKED", NoTrigger, at,
                              [primary |-> "BTMM_BLOCKED", blocked |-> "LIQUIDITY_REVIEW_PENDING"])
           Late(u) == Resolve(u, outcome, time, time, Reviewed(time), TRUE)
           InTime_(u) == Resolve(u, outcome, time, at, NoTrigger, FALSE)
<1>1. \A u : FinalGates(u, at, evidence_)
               = IF evidence_ = NoEvidence THEN Without(u)
                 ELSE IF time > at THEN Late(Blocked(u)) ELSE InTime_(u)
  BY DEF FinalGates
<1>2. Alike(Without(s), Without(t)) /\ Alike(Blocked(s), Blocked(t))
  BY EmitAlike
<1>3. TRUE \in BOOLEAN /\ FALSE \in BOOLEAN
  OBVIOUS
<1> HIDE DEF outcome, time, Without, Blocked
<1>4. Alike(InTime_(s), InTime_(t))
  BY <1>3, ResolveAlike
<1>5. evidence_ # NoEvidence => Alike(Late(Blocked(s)), Late(Blocked(t)))
  <2> SUFFICES ASSUME evidence_ # NoEvidence PROVE Alike(Late(Blocked(s)), Late(Blocked(t)))
    OBVIOUS
  <2>1. time \in Int
    BY DEF time
  <2> QED
    BY <1>2, <1>3, <2>1, ResolveAlike
<1> HIDE DEF Late, InTime_
<1> QED
  BY <1>1, <1>2, <1>4, <1>5

LEMMA AutomaticAlike ==
  ASSUME NEW s, IsWalk(s), NEW E, NEW F
  PROVE  Alike(WithAutomaticEvidence(s, E), WithAutomaticEvidence(s, F))
<1> DEFINE old == LastFields(s)
           fields == [old EXCEPT !.automatic = TRUE]
           x == [type |-> "NONE", trigger |-> NoTrigger, fields |-> fields]
           t == Append(s, x)
<1>1. {"primary", "time", "blocked"} \subseteq DOMAIN old /\ "time" \in DOMAIN old
      /\ old.time \in Int
  BY WalkLast DEF IsStep
<1>2. WithAutomaticEvidence(s, E) \in {s, t} /\ WithAutomaticEvidence(s, F) \in {s, t}
  BY DEF WithAutomaticEvidence
<1> HIDE DEF old
<1>3. DOMAIN fields = DOMAIN old /\ \A f \in DOMAIN old \ {"automatic"} : fields[f] = old[f]
  BY Zenon
<1> HIDE DEF fields
<1>4. x.fields = fields /\ x.type = "NONE"
  OBVIOUS
<1>5. fields["time"] = old["time"]
  BY <1>1, <1>3
<1>6. IsStep(x)
  BY <1>1, <1>3, <1>4, <1>5 DEF IsStep
<1> HIDE DEF x
<1>7. IsWalk(t) /\ LastFields(t) = fields
  BY <1>4, <1>6, WalkAppends
<1>8. Shown(t) = Shown(s)
  BY <1>4, <1>6, ShownAppend
<1> HIDE DEF t
<1>9. Alike(s, s) /\ Alike(t, t) /\ Alike(s, t) /\ Alike(t, s)
  BY <1>3, <1>7, <1>8 DEF Alike, old
<1> QED
  BY <1>2, <1>9

LEMMA StepsAlike ==
  ASSUME NEW f, f.forming \in Int, f.interaction \in Int, f.close \in Int,
         NEW a \in Int, NEW E, NEW F, NEW evidence_,
         evidence_ # NoEvidence => evidence_.time \in Int
  PROVE  Shown(Steps(f, a, E, evidence_)) = Shown(Steps(f, a, F, evidence_))
<1> DEFINE first == <<InitialStep(a)>>
           forming == Emit(first, "ENTERED_FORMING", Candle(f.forming), TimeOf(f.forming),
                           [primary |-> "BTMM_FORMING", stage |-> "POI_INTERACTION"])
           eligible == Emit(forming, "ACCURACY_GATE_CONFIRMED", Candle(f.interaction),
                            TimeOf(f.interaction), [stage |-> "REACTION_MONITORING"])
           t == TimeOf(f.close)
           Gate(type, change, from) == Emit(from, type, Candle(f.close), TimeOf(f.close), change)
           passed == Gate("REACTION_GATE_CONFIRMED", [time |-> TimeOf(f.close)], eligible)
           fast == Gate("REACTION_SPEED_GATE_CONFIRMED", [stage |-> "FINAL_GATE_EVALUATION"], passed)
           Final(X) == FinalGates(WithAutomaticEvidence(fast, X), t, evidence_)
<1>1. TimeOf(f.forming) \in Int /\ TimeOf(f.interaction) \in Int /\ t \in Int
  BY DEF TimeOf
<1>2. IsWalk(first)
  <2> DEFINE x == InitialStep(a)
  <2>1. IsStep(x)
    BY DEF IsStep, InitialStep
  <2> HIDE DEF x
  <2> QED
    BY <2>1, WalkOfOne DEF x
<1>3. \/ Steps(f, a, E, evidence_) = Steps(f, a, F, evidence_)
      \/ /\ Steps(f, a, E, evidence_) = Final(E)
         /\ Steps(f, a, F, evidence_) = Final(F)
  BY DEF Steps, AfterInteraction, AfterReaction
<1> HIDE DEF first
<1>4. IsWalk(forming)
  BY <1>1, <1>2, EmitWalk
<1> HIDE DEF forming
<1>5. IsWalk(eligible)
  BY <1>1, <1>4, EmitWalk
<1> HIDE DEF eligible
<1>6. IsWalk(passed)
  BY <1>1, <1>5, EmitWalk
<1> HIDE DEF passed
<1>7. IsWalk(fast)
  BY <1>1, <1>6, EmitWalk
<1> HIDE DEF fast, t
<1>8. Alike(WithAutomaticEvidence(fast, E), WithAutomaticEvidence(fast, F))
  BY <1>7, AutomaticAlike
<1>9. Alike(Final(E), Final(F))
  BY <1>1, <1>8, FinalGatesAlike
<1> HIDE DEF Final
<1>10. Shown(Final(E)) = Shown(Final(F))
  BY <1>9 DEF Alike
<1> QED
  BY <1>3, <1>10

-----------------------------------------------------------------------------
(*****************************************************************************)
(* The times of a walk.                                                      *)
(*****************************************************************************)
\* Every step but the first, and the last, is before the time b.
Timed(s, b) ==
  LastFields(s).time < b /\ \A k \in 2 .. Len(s) : s[k].fields.time < b

LEMMA AppendTimed ==
  ASSUME NEW s, IsWalk(s), NEW b \in Int, Timed(s, b), NEW x, IsStep(x), x.fields.time < b
  PROVE  Timed(Append(s, x), b)
<1> DEFINE t == Append(s, x)
<1>1. /\ LastFields(t) = x.fields /\ Len(s) \in Nat \ {0} /\ Len(t) = Len(s) + 1
      /\ \A k \in 1 .. Len(s) : t[k] = s[k]
      /\ t[Len(s) + 1] = x
  BY WalkAppends
<1> HIDE DEF t
<1>2. ASSUME NEW k \in 2 .. Len(t) PROVE t[k].fields.time < b
  <2>1. CASE k \in 2 .. Len(s)
    BY <1>1, <2>1 DEF Timed
  <2>2. CASE k = Len(s) + 1
    BY <1>1, <2>2
  <2> QED
    BY <1>1, <2>1, <2>2
<1> QED
  BY <1>1, <1>2 DEF Timed, t

LEMMA EmitTimed ==
  ASSUME NEW s, IsWalk(s), NEW b \in Int, Timed(s, b), NEW type, NEW trigger, NEW time \in Int,
         time < b, NEW change
  PROVE  Timed(Emit(s, type, trigger, time, change), b)
<1> DEFINE x == StepOf(s, type, trigger, time, change)
<1>1. /\ IsStep(x) /\ Emit(s, type, trigger, time, change) = Append(s, x)
      /\ x.fields.time = time
  BY EmitStep
<1> HIDE DEF x
<1>2. Timed(Append(s, x), b)
  BY <1>1, AppendTimed
<1> QED
  BY <1>1, <1>2

LEMMA ResolveTimed ==
  ASSUME NEW s, IsWalk(s), NEW b \in Int, Timed(s, b), NEW outcome, NEW reviewed,
         NEW time \in Int, time < b, NEW trigger, NEW late \in BOOLEAN
  PROVE  Timed(Resolve(s, outcome, reviewed, time, trigger, late), b)
<1>1. \A type, change : Timed(Emit(s, type, trigger, time, change), b)
  BY EmitTimed
<1> QED
  BY <1>1 DEF Resolve

LEMMA FinalGatesTimed ==
  ASSUME NEW s, IsWalk(s), NEW b \in Int, Timed(s, b), NEW t \in Int, t < b, NEW evidence_,
         evidence_ # NoEvidence => evidence_.time \in Int /\ evidence_.time < b
  PROVE  Timed(FinalGates(s, t, evidence_), b)
<1> DEFINE outcome == ResolveFinalGates(evidence_)
           time == evidence_.time
           reason == "NO_LIQUIDITY_EVIDENCE"
           without == Emit(s, reason, NoTrigger, t, Cancelled(reason))
           blocked == Emit(s, "BLOCKED", NoTrigger, t,
                           [primary |-> "BTMM_BLOCKED", blocked |-> "LIQUIDITY_REVIEW_PENDING"])
           late == Resolve(blocked, outcome, time, time, Reviewed(time), TRUE)
           intime == Resolve(s, outcome, time, t, NoTrigger, FALSE)
<1>1. FinalGates(s, t, evidence_)
        = IF evidence_ = NoEvidence THEN without ELSE IF time > t THEN late ELSE intime
  BY DEF FinalGates
<1>2. Timed(without, b) /\ Timed(blocked, b) /\ IsWalk(blocked)
  BY EmitTimed, EmitWalk
<1>3. TRUE \in BOOLEAN /\ FALSE \in BOOLEAN
  OBVIOUS
<1>4. evidence_ # NoEvidence => time \in Int /\ time < b
  OBVIOUS
<1> HIDE DEF outcome, time, without, blocked
<1>5. Timed(intime, b)
  BY <1>3, ResolveTimed
<1>6. evidence_ # NoEvidence => Timed(late, b)
  BY <1>2, <1>3, <1>4, ResolveTimed
<1> HIDE DEF late, intime
<1> QED
  BY <1>1, <1>2, <1>5, <1>6

LEMMA AutomaticTimed ==
  ASSUME NEW s, IsWalk(s), NEW b \in Int, Timed(s, b), NEW events_
  PROVE  Timed(WithAutomaticEvidence(s, events_), b)
<1> DEFINE old == LastFields(s)
           fields == [old EXCEPT !.automatic = TRUE]
           x == [type |-> "NONE", trigger |-> NoTrigger, fields |-> fields]
<1>1. {"primary", "time", "blocked"} \subseteq DOMAIN old /\ "time" \in DOMAIN old
      /\ old.time \in Int /\ old.time < b
  BY WalkLast DEF IsStep, Timed
<1>2. WithAutomaticEvidence(s, events_) \in {s, Append(s, x)}
  BY DEF WithAutomaticEvidence
<1> HIDE DEF old
<1>3. DOMAIN fields = DOMAIN old /\ fields["time"] = old["time"]
  BY <1>1, Zenon
<1> HIDE DEF fields
<1>4. x.fields = fields
  OBVIOUS
<1>5. IsStep(x) /\ x.fields.time < b
  BY <1>1, <1>3, <1>4 DEF IsStep
<1> HIDE DEF x
<1>6. Timed(Append(s, x), b)
  BY <1>5, AppendTimed
<1> QED
  BY <1>2, <1>6

LEMMA StepsTimed ==
  ASSUME NEW f, f.forming \in Int, f.interaction \in Int, f.close \in Int, NEW b \in Int,
         TimeOf(f.forming) < b, TimeOf(f.interaction) < b, TimeOf(f.close) < b,
         NEW a \in Int, NEW events_, NEW evidence_,
         evidence_ # NoEvidence => evidence_.time \in Int /\ evidence_.time < b
  PROVE  \A k \in 2 .. Len(Steps(f, a, events_, evidence_)) :
           Steps(f, a, events_, evidence_)[k].fields.time < b
<1> DEFINE first == <<InitialStep(a)>>
           forming == Emit(first, "ENTERED_FORMING", Candle(f.forming), TimeOf(f.forming),
                           [primary |-> "BTMM_FORMING", stage |-> "POI_INTERACTION"])
           reason == "INTERACTION_INELIGIBLE"
           out == Emit(forming, reason, Candle(f.interaction), TimeOf(f.interaction),
                       Cancelled(reason))
           eligible == Emit(forming, "ACCURACY_GATE_CONFIRMED", Candle(f.interaction),
                            TimeOf(f.interaction), [stage |-> "REACTION_MONITORING"])
           t == TimeOf(f.close)
           Gate(type, change, from) == Emit(from, type, Candle(f.close), TimeOf(f.close), change)
           weak == Gate("WEAK_REACTION", Cancelled("WEAK_REACTION"), eligible)
           passed == Gate("REACTION_GATE_CONFIRMED", [time |-> TimeOf(f.close)], eligible)
           slow == Gate("REACTION_SPEED_FAILED", Cancelled("REACTION_SPEED_FAILED"), passed)
           fast == Gate("REACTION_SPEED_GATE_CONFIRMED", [stage |-> "FINAL_GATE_EVALUATION"], passed)
           auto == WithAutomaticEvidence(fast, events_)
           final == FinalGates(auto, t, evidence_)
           steps == Steps(f, a, events_, evidence_)
<1>1. TimeOf(f.forming) \in Int /\ TimeOf(f.interaction) \in Int /\ t \in Int
  BY DEF TimeOf
<1>2. IsWalk(first) /\ Len(first) = 1
  <2> DEFINE x == InitialStep(a)
  <2>1. IsStep(x)
    BY DEF IsStep, InitialStep
  <2> HIDE DEF x
  <2>2. Len(<<x>>) = 1 /\ IsWalk(<<x>>)
    BY <2>1, WalkOfOne
  <2> QED
    BY <2>2 DEF x
<1>3. steps \in {first, forming, out, eligible, weak, slow, final}
  BY DEF Steps, AfterInteraction, AfterReaction
<1> HIDE DEF first
<1>4. IsWalk(forming) /\ Timed(forming, b)
  <2> DEFINE change == [primary |-> "BTMM_FORMING", stage |-> "POI_INTERACTION"]
             x == StepOf(first, "ENTERED_FORMING", Candle(f.forming), TimeOf(f.forming), change)
  <2>1. /\ IsStep(x) /\ forming = Append(first, x) /\ x.fields.time = TimeOf(f.forming)
        /\ IsWalk(forming) /\ LastFields(forming) = x.fields
    <3> DEFINE type == "ENTERED_FORMING"
               trigger == Candle(f.forming)
               time == TimeOf(f.forming)
    <3>1. time \in Int
      BY <1>1
    <3> HIDE DEF type, trigger, time, change
    <3>2. LET y == StepOf(first, type, trigger, time, change) IN
          /\ IsStep(y) /\ Emit(first, type, trigger, time, change) = Append(first, y)
          /\ y.fields.time = time /\ IsWalk(Append(first, y))
          /\ LastFields(Append(first, y)) = y.fields
      BY <1>2, <3>1, EmitStep
    <3> QED
      BY <3>2 DEF type, trigger, time, change
  <2> HIDE DEF x, forming
  <2>2. Len(forming) = 2 /\ forming[2] = x
    <3>1. Len(Append(first, x)) = Len(first) + 1 /\ Append(first, x)[Len(first) + 1] = x
      BY <1>2, <2>1, WalkAppends
    <3> QED
      BY <1>2, <2>1, <3>1
  <2>3. \A k \in 2 .. Len(forming) : forming[k].fields.time < b
    BY <2>1, <2>2
  <2> QED
    BY <2>1, <2>3 DEF Timed
<1> HIDE DEF forming
<1>5. IsWalk(eligible) /\ Timed(eligible, b) /\ Timed(out, b)
  BY <1>1, <1>4, EmitWalk, EmitTimed
<1> HIDE DEF eligible, out
<1>6. IsWalk(passed) /\ Timed(passed, b) /\ Timed(weak, b)
  BY <1>1, <1>5, EmitWalk, EmitTimed
<1> HIDE DEF passed, weak
<1>7. IsWalk(fast) /\ Timed(fast, b) /\ Timed(slow, b)
  BY <1>1, <1>6, EmitWalk, EmitTimed
<1> HIDE DEF fast, slow
<1>8. IsWalk(auto) /\ Timed(auto, b)
  BY <1>7, AutomaticWalk, AutomaticTimed
<1> HIDE DEF auto
<1>9. Timed(final, b)
  BY <1>1, <1>8, FinalGatesTimed
<1> HIDE DEF final, steps
<1>10. steps = first \/ Timed(steps, b)
  BY <1>3, <1>4, <1>5, <1>6, <1>7, <1>9
<1>11. ASSUME steps = first, NEW k \in 2 .. Len(steps) PROVE FALSE
  <2>1. Len(steps) = 1
    BY <1>2, <1>11
  <2>2. k \in 2 .. 1
    BY <2>1
  <2> QED
    BY <2>2
<1>12. \A k \in 2 .. Len(steps) : steps[k].fields.time < b
  BY <1>10, <1>11 DEF Timed
<1> QED
  BY <1>12 DEF steps

\* A walk that only goes on from the candle of an invalidation on is kept by it.
LEMMA CutGrows ==
  ASSUME NEW s, IsWalk(s), NEW t, IsWalk(t), NEW at \in Nat,
         \A k \in 2 .. Len(s) : s[k].fields.time < TimeOf(at),
         s = t \/ \E time \in Int : time >= TimeOf(at) /\ GrowsAt(s, t, time)
  PROVE  IsWalk(RejectIfInvalidated(t, at)) /\ Extends(s, RejectIfInvalidated(t, at))
<1> DEFINE b == TimeOf(at)
           n == Len(s)
           kept == KeptBefore(t, b)
           change == [primary |-> "BTMM_CANCELLED", cancel |-> "POI_REJECTED", blocked |-> "NONE"]
           new == Emit(kept, "POI_REJECTED", Candle(at), b, change)
<1>1. b \in Int /\ at # None
  BY DEF TimeOf, None
<1>2. n \in Nat \ {0} /\ Len(t) \in Nat
  BY WalkLast
<1>3. IsKept(t, b, n) /\ \A k \in 1 .. n : t[k] = s[k]
  <2>1. CASE s = t
    BY <1>2, <2>1 DEF IsKept
  <2>2. CASE s # t
    <3>1. PICK time \in Int : time >= b /\ GrowsAt(s, t, time)
      BY <2>2
    <3> QED
      BY <1>2, <3>1 DEF IsKept, GrowsAt, Extends
  <2> QED
    BY <2>1, <2>2
<1>4. kept = SubSeq(t, 1, n)
  BY <1>1, <1>3, KeptIs
<1>5. IsWalk(kept)
  BY <1>1, KeptWalk
<1>6. PICK S : t \in Seq(S)
  BY DEF IsWalk
<1>7. n \in 1 .. Len(t)
  BY <1>3 DEF IsKept
<1>8. Len(kept) = n /\ \A k \in 1 .. n : kept[k] = t[k]
  BY <1>2, <1>4, <1>6, <1>7
<1> HIDE DEF kept, n
<1>9. Extends(s, kept)
  BY <1>2, <1>3, <1>8 DEF Extends, n
<1> HIDE DEF b, change
<1>10. IsWalk(new) /\ Extends(kept, new)
  BY <1>1, <1>5, EmitWalk, EmitGrows
<1> HIDE DEF new
<1>11. Extends(s, new)
  BY <1>5, <1>9, <1>10, ExtendsMore
<1>12. RejectIfInvalidated(t, at) \in {kept, new}
  BY <1>1 DEF RejectIfInvalidated, kept, new, change, b
<1> QED
  BY <1>5, <1>9, <1>10, <1>11, <1>12

-----------------------------------------------------------------------------
\* The genuine invalidation of a walk that goes on.
LEMMA GenuineLater ==
  ASSUME NEW T, NEW E \in Seq(T), \A k \in 1 .. Len(E) : E[k].at \in Nat,
         NEW x, x.at \in Nat
  PROVE  /\ GenuineAt(E) = None \/ \E k \in 1 .. Len(E) : GenuineAt(E) = E[k].at
         /\ GenuineAt(E) = None => GenuineAt(Append(E, x)) \in {None, x.at}
<1> DEFINE type == "GENUINE_INVALIDATION_CONFIRMED"
           At(W) == {W[k].at : k \in {i \in 1 .. Len(W) : W[i].type = type}}
           F == Append(E, x)
<1>1. \A W : GenuineAt(W) = IF At(W) = {} THEN None
                             ELSE CHOOSE i \in At(W) : \A j \in At(W) : i <= j
  BY DEF GenuineAt
<1>2. /\ Len(E) \in Nat /\ Len(F) = Len(E) + 1 /\ F[Len(E) + 1] = x
      /\ \A k \in 1 .. Len(E) : F[k] = E[k]
  OBVIOUS
<1>3. At(E) \in SUBSET Nat
  OBVIOUS
<1>4. At(F) \subseteq At(E) \cup {x.at}
  <2> HIDE DEF F
  <2> SUFFICES ASSUME NEW k \in 1 .. Len(F), F[k].type = type
               PROVE  F[k].at \in At(E) \cup {x.at}
    OBVIOUS
  <2>1. CASE k \in 1 .. Len(E)
    BY <1>2, <2>1
  <2>2. CASE k = Len(E) + 1
    BY <1>2, <2>2
  <2> QED
    BY <1>2, <2>1, <2>2
<1>5. \A i \in At(E) : \E k \in 1 .. Len(E) : i = E[k].at
  OBVIOUS
<1>6. None \notin Nat
  BY DEF None
<1> HIDE DEF At, F
<1>7. ASSUME NEW A \in SUBSET Nat, A # {}
      PROVE  (CHOOSE i \in A : \A j \in A : i <= j) \in A
  <2>1. \E i \in A : \A j \in A : i <= j
    BY <1>7, LeastNat
  <2> QED
    BY <2>1
<1>8. CASE At(E) = {}
  <2>1. At(F) = {} \/ At(F) = {x.at}
    BY <1>4, <1>8
  <2>2. At(F) = {x.at} => GenuineAt(F) = x.at
    <3> DEFINE A == At(F)
    <3> SUFFICES ASSUME A = {x.at} PROVE GenuineAt(F) = x.at
      OBVIOUS
    <3>1. A \in SUBSET Nat /\ A # {}
      OBVIOUS
    <3> HIDE DEF A
    <3>2. (CHOOSE i \in A : \A j \in A : i <= j) \in A
      BY <1>7, <3>1
    <3>3. GenuineAt(F) = CHOOSE i \in A : \A j \in A : i <= j
      BY <1>1, <3>1 DEF A
    <3> QED
      BY <3>2, <3>3
  <2> QED
    BY <1>1, <1>8, <2>1, <2>2 DEF F
<1>9. CASE At(E) # {}
  <2> DEFINE A == At(E)
  <2>1. A \in SUBSET Nat /\ A # {}
    BY <1>3, <1>9
  <2>2. GenuineAt(E) = CHOOSE i \in A : \A j \in A : i <= j
    BY <1>1, <2>1
  <2> HIDE DEF A
  <2>3. GenuineAt(E) \in A
    BY <1>7, <2>1, <2>2
  <2>4. GenuineAt(E) # None
    BY <1>6, <2>1, <2>3
  <2> QED
    BY <1>5, <2>3, <2>4 DEF A
<1> QED
  BY <1>8, <1>9

\* What was found of a setup before the candle n, and what the candle found; the
\* invalidations E then and F now, and the evidence.
Finds(f, g, n) ==
  /\ f.forming \in Int /\ f.interaction \in Int /\ f.close \in Int
  /\ g.forming \in Int /\ g.interaction \in Int /\ g.close \in Int
  /\ f.forming < n /\ f.interaction < n /\ f.close < n
  /\ Precedes(f, g, n - 1)

Happens(E, F, n) ==
  \/ F = E /\ GenuineAt(E) \in {None} \cup 0 .. n - 1
  \/ GenuineAt(E) = None /\ GenuineAt(F) \in {None, n}

SeesLater(f, e, now, n) ==
  /\ e # NoEvidence => e.time \in Int /\ e.time < TimeOf(n)
  /\ now # NoEvidence => now.time \in Int
  /\ now = e \/ f.close = None

LEMMA CascadeGrows ==
  ASSUME NEW f, NEW g, NEW n \in Nat, Finds(f, g, n), NEW a \in Int,
         NEW E, NEW F, Happens(E, F, n), NEW e, NEW now, SeesLater(f, e, now, n)
  PROVE  IsPrefix(Cascade(f, a, E, e).transitions, Cascade(g, a, F, now).transitions)
<1> DEFINE s0 == Steps(f, a, E, e)
           s == Steps(f, a, F, now)
           t == Steps(g, a, F, now)
           b == TimeOf(n)
<1>1. b \in Int /\ TimeOf(f.forming) < b /\ TimeOf(f.interaction) < b /\ TimeOf(f.close) < b
  BY DEF TimeOf, Finds
<1>2. Steps(f, a, F, now) = Steps(f, a, F, e)
  BY DEF SeesLater, Steps, AfterInteraction
<1>3. e # NoEvidence => e.time \in Int
  BY DEF SeesLater
<1>4. /\ f.forming \in Int /\ f.interaction \in Int /\ f.close \in Int
      /\ g.forming \in Int /\ g.interaction \in Int /\ g.close \in Int
      /\ Precedes(f, g, n - 1) /\ n - 1 \in Nat \cup {None} /\ n - 1 + 1 = n
  BY DEF Finds, None
<1>5. IsWalk(s0)
  BY <1>3, <1>4, StepsWalk
<1>6. Shown(s0) = Shown(s)
  <2>1. Shown(Steps(f, a, E, e)) = Shown(Steps(f, a, F, e))
    BY <1>3, <1>4, StepsAlike
  <2> QED
    BY <1>2, <2>1
<1>7. \A k \in 2 .. Len(s) : s[k].fields.time < b
  <2>1. e # NoEvidence => e.time \in Int /\ e.time < b
    BY DEF SeesLater
  <2> HIDE DEF b
  <2>2. \A k \in 2 .. Len(Steps(f, a, F, e)) : Steps(f, a, F, e)[k].fields.time < b
    BY <1>1, <1>4, <2>1, StepsTimed
  <2> QED
    BY <1>2, <2>2
<1>8. IsWalk(s) /\ IsWalk(t)
      /\ (s = t \/ \E time \in Int : time >= b /\ GrowsAt(s, t, time))
  <2> DEFINE m == n - 1
  <2>1. now # NoEvidence => now.time \in Int
    BY DEF SeesLater
  <2>2. m \in Nat \cup {None} /\ Precedes(f, g, m) /\ m + 1 = n
    BY <1>4
  <2> HIDE DEF m
  <2>3. LET u == Steps(f, a, F, now)
            v == Steps(g, a, F, now)
        IN  /\ IsWalk(u) /\ IsWalk(v)
            /\ u = v \/ \E time \in Int : time >= TimeOf(m + 1) /\ GrowsAt(u, v, time)
    BY <1>4, <2>1, <2>2, StepsGrow
  <2> QED
    BY <2>2, <2>3
<1>9. \A ss : WalkResult(ss).transitions = Shown(ss)
  BY DEF Shown
<1>10. /\ Cascade(f, a, E, e).transitions = Shown(RejectIfInvalidated(s0, GenuineAt(E)))
       /\ Cascade(g, a, F, now).transitions = Shown(RejectIfInvalidated(t, GenuineAt(F)))
  BY <1>9 DEF Cascade
<1>11. F = E /\ e = now => s0 = s
  OBVIOUS
<1>12. F = E => s0 = s
  BY <1>2
<1> HIDE DEF s0, s, t
<1>13. GenuineAt(E) = None => RejectIfInvalidated(s0, GenuineAt(E)) = s0
  BY DEF RejectIfInvalidated
<1>14. CASE GenuineAt(E) = None /\ GenuineAt(F) = None
  <2>1. RejectIfInvalidated(t, GenuineAt(F)) = t
    BY <1>14 DEF RejectIfInvalidated
  <2>2. Extends(s, t)
    <3>1. Len(s) \in Nat
      BY <1>8, WalkLast
    <3> QED
      BY <1>8, <3>1 DEF GrowsAt, Extends
  <2>3. IsPrefix(Shown(s), Shown(t))
    BY <1>8, <2>2, ShownGrows
  <2> QED
    BY <1>6, <1>10, <1>13, <1>14, <2>1, <2>3
<1>15. CASE GenuineAt(E) = None /\ GenuineAt(F) = n
  <2> DEFINE u == RejectIfInvalidated(t, n)
  <2>1. IsWalk(u) /\ Extends(s, u)
    BY <1>7, <1>8, CutGrows
  <2> HIDE DEF u
  <2>2. IsPrefix(Shown(s), Shown(u))
    BY <1>8, <2>1, ShownGrows
  <2> QED
    BY <1>6, <1>10, <1>13, <1>15, <2>2 DEF u
<1>16. CASE F = E /\ GenuineAt(E) \in 0 .. n - 1
  <2> DEFINE at == GenuineAt(E)
  <2>1. at \in Nat /\ at <= n - 1 /\ at # None
    BY <1>16 DEF None
  <2>2. TimeOf(at) \in Int /\ TimeOf(at) <= b
    BY <2>1 DEF TimeOf
  <2> HIDE DEF at, b
  <2>3. KeptBefore(s, TimeOf(at)) = KeptBefore(t, TimeOf(at))
    <3>1. CASE s = t
      BY <3>1
    <3>2. CASE s # t
      <4>1. PICK time \in Int : time >= b /\ GrowsAt(s, t, time)
        BY <1>8, <3>2
      <4>2. time >= TimeOf(at)
        BY <1>1, <2>2, <4>1
      <4> QED
        BY <1>8, <2>2, <4>1, <4>2, SameKept
    <3> QED
      BY <3>1, <3>2
  <2> DEFINE u == RejectIfInvalidated(s, at)
  <2>4. RejectIfInvalidated(t, at) = u
    BY <2>1, <2>3 DEF RejectIfInvalidated
  <2>5. IsWalk(u)
    BY <1>8, <2>1, RejectedEnds
  <2> HIDE DEF u
  <2>6. Extends(u, u)
    <3>1. Len(u) \in Nat
      BY <2>5, WalkLast
    <3> QED
      BY <3>1 DEF Extends
  <2>7. IsPrefix(Shown(u), Shown(u))
    BY <2>5, <2>6, ShownGrows
  <2>8. s0 = s /\ GenuineAt(F) = at /\ GenuineAt(E) = at
    BY <1>12, <1>16 DEF at
  <2> QED
    BY <1>10, <2>4, <2>7, <2>8 DEF u
<1> QED
  BY <1>14, <1>15, <1>16 DEF Happens

\* What happened and what was seen did so before the coming candle.
FeedPast ==
  /\ events \in Seq([type : Invalidations, at : Nat])
  /\ \A k \in 1 .. Len(events) : events[k].at < Len(history)
  /\ evidence # NoEvidence => evidence.time \in Int /\ evidence.time < TimeOf(Len(history))

\* What a candle does to the events and the evidence.
LEMMA FeedTurn ==
  ASSUME FeedInv, FeedPast, NEW v \in Views, NEW happened \in Invalidations \cup {"NONE"},
         NEW seen \in Arrivals \cup {NoEvidence}, Feed(v, happened, seen)
  PROVE  /\ Happens(events, events', Len(history))
         /\ FeedPast'
         /\ evidence' # NoEvidence => evidence'.time \in Int
<1> DEFINE n == Len(history)
           x == [type |-> happened, at |-> n]
           Events == [type : Invalidations, at : Nat]
<1>1. n \in Nat /\ history' = Append(history, v) /\ Len(history') = n + 1
  <2>1. v \in BtmmView
    BY FeedAssumption
  <2> QED
    BY <2>1 DEF Feed, FeedInv
<1>0. events \in Seq(Events) /\ \A k \in 1 .. Len(events) : events[k].at \in Nat /\ events[k].at < n
  <2>1. events \in Seq(Events)
    BY DEF FeedPast
  <2>2. ASSUME NEW k \in 1 .. Len(events) PROVE events[k].at \in Nat /\ events[k].at < n
    <3>1. events[k] \in Events
      <4> HIDE DEF Events
      <4> QED
        BY <2>1
    <3>2. events[k].at < n
      BY DEF FeedPast
    <3> QED
      BY <3>1, <3>2
  <2> HIDE DEF n, Events
  <2> QED
    BY <2>1, <2>2
<1>2. \/ events' = events
      \/ happened \in Invalidations /\ GenuineAt(events) = None /\ events' = Append(events, x)
  BY DEF Feed, MayEnd
<1>3. /\ GenuineAt(events) = None \/ \E k \in 1 .. Len(events) : GenuineAt(events) = events[k].at
      /\ GenuineAt(events) = None => GenuineAt(Append(events, x)) \in {None, n}
  <2>1. x.at = n /\ x.at \in Nat
    BY <1>1
  <2>2. events \in Seq(Events) /\ \A k \in 1 .. Len(events) : events[k].at \in Nat
    <3> HIDE DEF n, Events
    <3> QED
      BY <1>0
  <2> HIDE DEF x, Events
  <2>3. /\ GenuineAt(events) = None \/ \E k \in 1 .. Len(events) : GenuineAt(events) = events[k].at
        /\ GenuineAt(events) = None => GenuineAt(Append(events, x)) \in {None, x.at}
    BY <2>1, <2>2, GenuineLater
  <2> QED
    BY <2>1, <2>3
<1>4. GenuineAt(events) \in {None} \cup 0 .. n - 1
  <2> HIDE DEF n, Events
  <2> QED
    BY <1>0, <1>1, <1>3
<1>5. Happens(events, events', n)
  BY <1>2, <1>3, <1>4 DEF Happens
<1>6. /\ events' \in Seq(Events)
      /\ \A k \in 1 .. Len(events') : events'[k].at < n + 1
  <2>1. events \in Seq(Events) /\ Len(events) \in Nat
    <3> HIDE DEF n, Events
    <3> QED
      BY <1>0
  <2>2. x.at = n
    OBVIOUS
  <2>6. \A k \in 1 .. Len(events) : events[k].at \in Int /\ events[k].at < n
    <3> HIDE DEF n, Events
    <3> QED
      BY <1>0
  <2>3. happened \in Invalidations => x \in Events
    BY <1>1
  <2> HIDE DEF n, x, Events
  <2>4. CASE events' = events
    <3>1. ASSUME NEW k \in 1 .. Len(events) PROVE events[k].at < n + 1
      BY <1>1, <2>6
    <3> QED
      BY <2>1, <2>4, <3>1
  <2>5. CASE happened \in Invalidations /\ events' = Append(events, x)
    <3> DEFINE w == Append(events, x)
    <3>1. /\ w \in Seq(Events) /\ Len(w) = Len(events) + 1 /\ w[Len(events) + 1] = x
          /\ \A k \in 1 .. Len(events) : w[k] = events[k]
      <4>1. x \in Events
        BY <2>3, <2>5
      <4> QED
        BY <2>1, <4>1
    <3> HIDE DEF w
    <3>2. ASSUME NEW k \in 1 .. Len(w) PROVE w[k].at < n + 1
      <4>1. CASE k \in 1 .. Len(events)
        BY <1>1, <2>6, <3>1, <4>1, SMTT(30)
      <4>2. CASE k = Len(events) + 1
        BY <1>1, <2>2, <3>1, <4>2
      <4> QED
        BY <2>1, <3>1, <4>1, <4>2
    <3> QED
      BY <2>5, <3>1, <3>2 DEF w
  <2> QED
    BY <1>2, <2>4, <2>5
<1>7. evidence' # NoEvidence => evidence'.time \in Int /\ evidence'.time < TimeOf(n + 1)
  <2>1. TimeOf(n) \in Int /\ TimeOf(n + 1) \in Int /\ TimeOf(n) < TimeOf(n + 1)
    BY <1>1 DEF TimeOf
  <2>2. \/ evidence' = evidence
        \/ MaySee(seen, TimeOf(n)) /\ evidence' = seen
    BY DEF Feed
  <2>3. evidence # NoEvidence => evidence.time \in Int /\ evidence.time < TimeOf(n)
    BY DEF FeedPast
  <2> HIDE DEF n
  <2>4. CASE evidence' = evidence
    BY <2>1, <2>3, <2>4
  <2>5. CASE MaySee(seen, TimeOf(n)) /\ evidence' = seen
    <3>1. seen.time \in {TimeOf(n) - 1, TimeOf(n)}
      BY <2>5 DEF MaySee
    <3> QED
      BY <2>1, <2>5, <3>1
  <2> QED
    BY <2>2, <2>4, <2>5
<1> QED
  BY <1>1, <1>5, <1>6, <1>7 DEF FeedPast

LEMMA FeedPastAlways == FeedSpec => []FeedPast
<1>1. FeedInit => FeedPast
  <2> SUFFICES ASSUME FeedInit PROVE FeedPast
    OBVIOUS
  <2>1. events = << >> /\ evidence = NoEvidence
    BY DEF FeedInit
  <2> QED
    BY <2>1 DEF FeedPast
<1>2. FeedInv /\ FeedPast /\ [FeedNext]_feedVars => FeedPast'
  <2>1. ASSUME FeedInv, FeedPast, FeedNext PROVE FeedPast'
    BY <2>1, FeedTurn DEF FeedNext
  <2>2. ASSUME FeedPast, UNCHANGED feedVars PROVE FeedPast'
    BY <2>2 DEF FeedPast, feedVars
  <2> QED
    BY <2>1, <2>2
<1> QED
  BY <1>1, <1>2, Invariance, PTL DEF FeedSpec

\* What a setup has published stays, in its order, but for evidence that becomes
\* visible after the reaction window closed: however the scans go on and whenever
\* the source POI is invalidated, the next walk only adds transitions.
THEOREM PublishedStays == FeedSpec => RewrittenOnlyByLateEvidence
<1> DEFINE Stays == \/ IsPrefix(result.transitions, result'.transitions)
                    \/ evidence' # evidence /\ cursor.close # None
<1>1. FeedInv /\ FeedInv' /\ FeedPast /\ [FeedNext]_feedVars => [Stays]_feedVars
  <2> SUFFICES ASSUME FeedInv, FeedInv', FeedPast, FeedNext,
                      ~ (evidence' # evidence /\ cursor.close # None)
               PROVE  IsPrefix(result.transitions, result'.transitions)
    OBVIOUS
  <2>1. PICK v \in Views, happened \in Invalidations \cup {"NONE"},
             seen \in Arrivals \cup {NoEvidence} : Feed(v, happened, seen)
    BY DEF FeedNext
  <2> DEFINE n == Len(history)
             a == available
             f == FoundBy(cursor)
             g == FoundBy(cursor')
             E == events
             F == events'
             e == evidence
             now == evidence'
  <2>2. /\ available' = a /\ history' = Append(history, v) /\ v \in BtmmView
        /\ history \in Seq(BtmmView) /\ n \in Nat /\ a \in Int
        /\ Scans(cursor, history, a)
    BY <2>1, FeedAssumption DEF Feed, FeedInv
  <2>3. Scans(cursor', Append(history, v), a) /\ Append(history, v) \in Seq(BtmmView)
    <3>1. Scans(cursor', history', available')
      BY DEF FeedInv, Scans, FormingFound, InteractionFound, StartFound, WindowFound
    <3> QED
      BY <2>2, <3>1
  <2>4. f = Scan(history, a) /\ g = Scan(Append(history, v), a)
    BY <2>2, <2>3, FoundIsScan DEF FoundBy
  <2>5. Finds(f, g, n)
    <3>1. Precedes(f, g, n - 1)
      BY <2>2, <2>4, ScanGrows
    <3>2. /\ cursor.forming \in 0 .. n - 1 \cup {None}
          /\ cursor.interaction \in 0 .. n - 1 \cup {None}
          /\ cursor.close \in 0 .. n - 1 \cup {None}
      BY <2>2, FindsInOrder
    <3>3. cursor' \in Shaped
      BY <2>3 DEF Scans
    <3>4. /\ f.forming = cursor.forming /\ f.interaction = cursor.interaction
          /\ f.close = cursor.close
          /\ g.forming = cursor'.forming /\ g.interaction = cursor'.interaction
          /\ g.close = cursor'.close
      BY DEF FoundBy, Found
    <3>5. /\ cursor'.forming \in Int /\ cursor'.interaction \in Int /\ cursor'.close \in Int
      BY <3>3 DEF Shaped, None
    <3> HIDE DEF f, g, n
    <3>6. /\ cursor.forming \in Int /\ cursor.forming < n
          /\ cursor.interaction \in Int /\ cursor.interaction < n
          /\ cursor.close \in Int /\ cursor.close < n
      BY <2>2, <3>2 DEF None
    <3> QED
      BY <3>1, <3>4, <3>5, <3>6 DEF Finds
  <2>6. Happens(E, F, n) /\ (now # NoEvidence => now.time \in Int)
    BY <2>1, FeedTurn
  <2>7. SeesLater(f, e, now, n)
    <3>1. f.close = cursor.close
      BY DEF FoundBy, Found
    <3> QED
      BY <2>6, <3>1 DEF SeesLater, FeedPast
  <2>8. result = Cascade(f, a, E, e) /\ result' = Cascade(g, a, F, now)
    BY <2>2 DEF FeedInv, MaterializeCursor, FoundBy
  <2> HIDE DEF n, a, f, g, E, F, e, now
  <2>9. IsPrefix(Cascade(f, a, E, e).transitions, Cascade(g, a, F, now).transitions)
    BY <2>2, <2>5, <2>6, <2>7, CascadeGrows
  <2> QED
    BY <2>8, <2>9
<1>2. FeedSpec => [][FeedNext]_feedVars
  BY PTL DEF FeedSpec
<1> QED
  BY <1>1, <1>2, Invariance, FeedPastAlways, PTL DEF RewrittenOnlyByLateEvidence
=============================================================================
