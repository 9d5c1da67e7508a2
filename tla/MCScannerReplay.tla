-------------------------- MODULE MCScannerReplay --------------------------
(***************************************************************************)
(* Two timeframes of up to three candles, in step, late, out of order and  *)
(* absent.                                                                 *)
(***************************************************************************)
EXTENDS ScannerReplay

C(event, available) == [event |-> event, available |-> available]

MCTimeframes == <<"M15", "H1">>
MCBtmmEligible == {"M15", "H1"}
MCRequirements == {{}, {"M15"}}
MCEvidence ==
  {[timeframe |-> "M15", available |-> 2], [timeframe |-> "H1", available |-> 2],
   [timeframe |-> "H1", available |-> 5]}

Both(m, h) == "M15" :> m @@ "H1" :> h

\* Groups of several candles; a group with two candles of one timeframe; one
\* timeframe ending early; a candle available before an earlier one.
MCInputs ==
  {Both(<<C(1, 1), C(2, 2), C(3, 3)>>, <<C(0, 1), C(3, 3)>>),
   Both(<<C(1, 2), C(2, 2), C(3, 5)>>, <<C(0, 2)>>),
   Both(<<C(1, 1), C(2, 4)>>, <<C(1, 3), C(2, 3)>>),
   Both(<<C(1, 3), C(2, 2)>>, <<C(1, 1)>>),
   Both(<<>>, <<>>), Both(<<C(1, 1)>>, <<>>),
   "H1" :> <<C(1, 1), C(2, 2)>>, "H1" :> <<C(1, 0), C(2, 1)>>, <<>>}
=============================================================================
