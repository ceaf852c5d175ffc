---------------------------- MODULE MCDailyRisk ----------------------------
(* Equities on both sides of every threshold, for TLC. *)
EXTENDS DailyRisk

\* In cents: below the initial cash of 500 USDT; 5, 7 and 10 per cent below 600;
\* the edge of the first and second tier with 3, 5 and 7 per cent below 1040;
\* the edge of the second and third tier with 2, 4 and 5 per cent below 10400.
EdgeEquities ==
  { 0, 45000, 46500, 50000,
    54000, 54001, 55800, 55801, 57000, 57001, 60000,
    96720, 98800, 99800, 100000, 100500, 100880, 104000,
    988000, 998400, 999999, 1000000, 1019200, 1040000 }

=============================================================================
