---------------------------- MODULE MCMarketData ----------------------------
(* Two files of up to four lines: a header, a bar of a time that two lines *)
(* have (one of an instrument that begins with a digit), an open bar, one  *)
(* of an unreadable time, a line of three fields and an empty line.        *)
EXTENDS MarketData, TLC

LineOf(fields, digit, numbers, confirm, third, fourth, ninth) ==
  [fields |-> fields, digit |-> digit, numbers |-> numbers, confirm |-> confirm,
   time |-> (2 :> third @@ 3 :> fourth @@ 8 :> ninth)]

SomeLines ==
  { LineOf(10, FALSE, FALSE, FALSE, 0, 0, 0),
    LineOf(10, FALSE, TRUE, TRUE, 0, 1, 1),
    LineOf(10, TRUE, TRUE, TRUE, 2, 1, 1),
    LineOf(10, FALSE, TRUE, FALSE, 1, 2, 2),
    LineOf(10, FALSE, TRUE, TRUE, 1, 0, 0),
    LineOf(3, TRUE, TRUE, FALSE, 1, 0, 0),
    LineOf(0, FALSE, FALSE, FALSE, 0, 0, 0) }
=============================================================================
