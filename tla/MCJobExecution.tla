--------------------------- MODULE MCJobExecution ---------------------------
(* Instances of JobExecution for TLC: one or two variants of the ladder.   *)
EXTENDS JobExecution, TLC

OneRung  == <<"240p">>
TwoRungs == <<"240p", "360p">>
AllEvents == PossibleEvents
NoAudio   == {FALSE}
WithAudio == {TRUE}
AnyInput  == {FALSE, TRUE}

Goroutines == Permutations(Runs)
=============================================================================
