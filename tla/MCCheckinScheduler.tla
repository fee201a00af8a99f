------------------------- MODULE MCCheckinScheduler -------------------------
(* A day of five minutes: an unsorted list with a duplicate, midnight as a *)
(* slot, and a list of which nothing parses.                               *)
EXTENDS CheckinScheduler

MCSpecs   == {<<1, 3>>, <<4, 1, 4, 2>>, <<0, 9>>, <<7>>}
MCDefault == <<1, 3>>
=============================================================================
