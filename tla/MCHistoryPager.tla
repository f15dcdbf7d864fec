--------------------------- MODULE MCHistoryPager ---------------------------
(* Downloads over at most five bars, in pages of two.                      *)
EXTENDS HistoryPager

MCTimes == {-1, 0, 3, 6}
=============================================================================
