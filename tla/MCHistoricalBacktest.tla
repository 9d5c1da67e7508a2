------------------------ MODULE MCHistoricalBacktest ------------------------
(* Instances of HistoricalBacktest for TLC. *)
EXTENDS HistoricalBacktest

MCOrdinary == <<"manifest_echo", "replay_result", "execution_summary">>
=============================================================================
