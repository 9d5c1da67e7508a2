----------------------------- MODULE EqualLevels -----------------------------
(***************************************************************************)
(* Clusters of equal highs and lows: the batch sweep of                    *)
(* domain/equal_levels.py, and the sweep of domain/analyzer.py that resumes *)
(* from a checkpoint of the previous one.                                  *)
(***************************************************************************)
EXTENDS Swings

ASSUME EqualLevelConfig == Config.equalLevel \in Nat

OfType(swings, type) == SelectSeq(swings, LAMBDA s : s.type = type)

Prices(members) == {s.price : s \in Range(members)}
Spread(members) == Max(Prices(members)) - Min(Prices(members))
ReferenceAtr(members) == Median([i \in DOMAIN members |-> members[i].atr])

WithinTolerance(members) ==
  100 * Spread(members) <= Config.equalLevel * ReferenceAtr(members)

Cluster(members) ==
  [type |-> members[1].type,
   members |-> [i \in DOMAIN members |-> SwingId(members[i])],
   atr |-> ReferenceAtr(members),
   bottom |-> Min(Prices(members)),
   top |-> Max(Prices(members)),
   confirmed |-> Max({s.confirmed : s \in Range(members)})]

CloseCluster(results, members) ==
  IF Len(members) < 2 THEN results ELSE Append(results, Cluster(members))

ByConfirmation(candidates) == SortSeq(candidates, LAMBDA c, d : c.confirmed < d.confirmed)

-----------------------------------------------------------------------------
(* The batch sweep.                                                        *)

SweepOneType(swings) ==
  LET Step(acc, s) ==
        IF WithinTolerance(Append(acc.members, s))
          THEN [acc EXCEPT !.members = Append(@, s)]
          ELSE [results |-> CloseCluster(acc.results, acc.members), members |-> <<s>>]
      swept == FoldLeft(Step, [results |-> <<>>, members |-> <<>>], SortSeq(swings, ConfirmedBefore))
  IN  CloseCluster(swept.results, swept.members)

DetectEqualLevelClusters(swings) ==
  ByConfirmation(SweepOneType(OfType(swings, High)) \o SweepOneType(OfType(swings, Low)))

-----------------------------------------------------------------------------
(* The resumed sweep.  A checkpoint [index, emitted] is the start of a run *)
(* and the number of clusters emitted before it.                           *)

EmptyCache == [swings |-> <<>>, checkpoints |-> <<>>, candidates |-> <<>>]

CommonPrefixLength(s, t) == Len(LongestCommonPrefix({s, t}))

\* The last checkpoint at or before the unchanged prefix, 0 if there is none.
ResumeAt(previous, sorted) ==
  LET prefix == CommonPrefixLength(previous.swings, sorted)
  IN  Max({0} \cup {k \in DOMAIN previous.checkpoints :
                      \A l \in 1..k : previous.checkpoints[l].index <= prefix + 1})

SweepIncremental(previous, swings) ==
  LET sorted == SortSeq(swings, ConfirmedBefore)
      k      == ResumeAt(previous, sorted)
      from   == IF k = 0 THEN [index |-> 1, emitted |-> 0] ELSE previous.checkpoints[k]
      Start(acc, i) ==
        [acc EXCEPT !.checkpoints = Append(@, [index |-> i, emitted |-> Len(acc.candidates)]),
                    !.members = <<sorted[i]>>]
      Step(acc, i) ==
        IF acc.members = <<>>
          THEN Start(acc, i)
          ELSE IF WithinTolerance(Append(acc.members, sorted[i]))
                 THEN [acc EXCEPT !.members = Append(@, sorted[i])]
                 ELSE Start([acc EXCEPT !.candidates = CloseCluster(@, acc.members)], i)
      swept == FoldLeft(Step,
                        [candidates |-> SubSeq(previous.candidates, 1, from.emitted),
                         checkpoints |-> SubSeq(previous.checkpoints, 1, k - 1),
                         members |-> <<>>],
                        [i \in 1..(Len(sorted) + 1 - from.index) |-> from.index + i - 1])
  IN  IF sorted = <<>>
        THEN EmptyCache
        ELSE [swings |-> sorted, checkpoints |-> swept.checkpoints,
              candidates |-> CloseCluster(swept.candidates, swept.members)]

CombinedClusters(caches) == ByConfirmation(caches[High].candidates \o caches[Low].candidates)
=============================================================================
