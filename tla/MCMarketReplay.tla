--------------------------- MODULE MCMarketReplay ---------------------------
(***************************************************************************)
(* Market tapes for TLC: each opening is played candle by candle, then     *)
(* every continuation of Extra candles out of a few shapes.                 *)
(***************************************************************************)
EXTENDS MarketReplay

CONSTANTS Extra, Openings

MCConfig ==
  [atrPeriod |-> 2, pivotTie |-> 2, meaningfulReversal |-> 50, equalLevel |-> 10,
   zoneDepth |-> 10, touchTolerance |-> 5, pierceTolerance |-> 15,
   reactionWindow |-> 5, reactionAtrRatio |-> 75, reactionClearance |-> 100,
   reactionEfficiency |-> 50, reactionShare |-> 60,
   relationshipTolerance |-> 10,
   contextWindow |-> 4, displacementFast |-> 150, displacementVeryFast |-> 200,
   idOrder |-> 1]

\* A candle in ticks.
C(open, high, low, close) ==
  [open |-> 100 * open, high |-> 100 * high, low |-> 100 * low, close |-> 100 * close]

\* Relative to the last close: a rise, a fall, a spike either way, a pause.
Shapes(close) ==
  LET At(o, h, l, c) == [open |-> close + 100 * o, high |-> close + 100 * h,
                         low |-> close + 100 * l, close |-> close + 100 * c]
  IN  {At(0, 3, 0, 2), At(0, 0, -3, -2), At(0, 4, 0, 0), At(0, 0, -4, 0), At(0, 1, -1, 0)}

MCFeed(cs) ==
  {o[Len(cs) + 1] : o \in {t \in Openings : Len(cs) < Len(t) /\ IsPrefix(cs, t)}}
    \cup IF \E o \in Openings : Len(o) <= Len(cs) /\ Len(cs) < Len(o) + Extra /\ IsPrefix(o, cs)
           THEN Shapes(Last(cs).close)
           ELSE {}

\* A low superseded by a lower one after it was confirmed.
Repaint == <<C(20,20,16,16), C(16,16,11,12), C(12,12,8,8), C(8,13,8,12), C(12,12,10,11),
             C(11,12,7,7), C(7,9,7,8), C(8,12,7,12)>>
\* A swing inserted before others that are already confirmed.
BackDated == <<C(20,21,16,16), C(16,16,15,15), C(15,19,15,19), C(19,24,19,23), C(23,24,19,19),
               C(19,23,19,23), C(23,24,23,24), C(24,29,24,28), C(28,29,23,24)>>
\* Equal lows.
EqualLows == <<C(20,20,19,19), C(19,19,18,18), C(18,18,16,17), C(17,19,17,18), C(18,18,16,17),
               C(17,18,17,18), C(18,18,16,17), C(17,18,17,18)>>
\* A break of structure upwards.
Bos == <<C(20,22,20,22), C(22,22,20,20), C(20,21,19,21), C(21,23,21,22), C(22,22,21,21),
         C(21,23,21,23), C(23,25,23,24), C(24,25,23,23), C(23,25,22,24), C(24,26,24,26)>>
\* A change of character downwards.
Choch == <<C(20,21,16,17), C(17,18,14,14), C(14,16,13,16), C(16,19,16,18), C(18,18,15,15),
           C(15,17,14,17), C(17,20,17,19), C(19,19,16,16), C(16,16,14,15), C(15,15,13,13)>>
\* A break that is withdrawn with its swing.
Withdrawn == <<C(20,20,18,19), C(19,21,19,21), C(21,22,19,19), C(19,19,17,18), C(18,19,17,19),
               C(19,20,17,17), C(17,17,16,16), C(16,18,16,17), C(17,17,16,16), C(16,16,13,14),
               C(14,15,14,15)>>
\* Zones with touches.
Zones == <<C(20,24,20,24), C(24,24,20,20), C(20,21,19,21), C(21,21,17,17), C(17,21,17,21),
           C(21,21,20,20), C(20,24,20,24), C(24,24,23,23), C(23,24,23,24), C(24,28,23,28),
           C(28,29,27,29), C(29,29,25,25), C(25,25,23,24), C(24,25,24,25), C(25,26,25,26)>>

\* Zones with two touches.
TwoTouches == <<C(20,20,19,19), C(19,19,17,17), C(17,19,17,18), C(18,19,18,19), C(19,23,19,22),
                C(22,22,20,20), C(20,21,17,18), C(18,20,17,19), C(19,21,19,20), C(20,21,18,19),
                C(19,20,17,17), C(17,19,17,18), C(18,18,17,17)>>
\* Two swings of a type confirmed by the same candle.
SameCandle == <<C(20,23,16,19), C(19,20,16,20), C(20,23,19,19), C(19,21,16,21), C(21,23,21,23),
                C(23,25,23,25), C(25,28,23,23), C(23,24,23,24), C(24,24,22,22)>>

\* The tape upside down.
Mirror(tape) ==
  LET Flip(price) == 4000 - price
  IN  [i \in DOMAIN tape |-> [open |-> Flip(tape[i].open), high |-> Flip(tape[i].low),
                              low |-> Flip(tape[i].high), close |-> Flip(tape[i].close)]]

Tapes == {Repaint, BackDated, EqualLows, Bos, Choch, Withdrawn, Zones, TwoTouches, SameCandle}
\* A run of equal highs that a swing inserted later belongs to.
Inserted == <<C(35,35,33,33), C(33,33,32,32), C(32,34,27,34), C(34,34,33,33), C(33,33,27,33),
              C(33,33,33,33), C(33,34,33,33), C(33,33,33,33), C(33,34,33,33), C(33,33,33,33),
              C(33,34,33,33), C(33,33,32,32)>>
InsertedOpenings == {Inserted}

\* A break that is withdrawn when a low is inserted before the one it broke.
Undone == <<C(300,320,300,316), C(316,340,310,336), C(336,400,330,340), C(340,344,260,264),
            C(264,270,220,224), C(224,230,200,220), C(220,260,216,256), C(256,280,252,276),
            C(276,300,270,280), C(280,284,60,62), C(62,65,50,55), C(55,64,52,62), C(62,72,52,62),
            C(62,65,62,64), C(64,65,62,63), C(63,64,60,62), C(62,65,61,63), C(63,65,61,63),
            C(63,65,61,63), C(63,63,58,58), C(58,90,56,60)>>

MCOpenings == Tapes \cup {Mirror(t) : t \in Tapes} \cup {Undone}
=============================================================================
