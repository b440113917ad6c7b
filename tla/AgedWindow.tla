----------------------------- MODULE AgedWindow ------------------------------
(***************************************************************************)
(* What the rolling window promises to the breaker: a window indexed by    *)
(* age, with the counts of the last WindowSecs seconds and, until the      *)
(* current second has a record, of the second before those.                *)
(***************************************************************************)
EXTENDS LatencyWindow

VARIABLE win

Init == win = EmptyWindow

Record == \E o \in Outcomes, b \in Bands : win' = RecordAged(win, o, b)

Tick == win' = SecondPasses(win)

Reset == win' = EmptyWindow

Next == Record \/ Tick \/ Reset

Spec == Init /\ [][Next]_win

==============================================================================
