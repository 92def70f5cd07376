----------------------------- MODULE MCEncoder ------------------------------
(* Instances of Encoder for TLC: the two lowest rungs of the ladder.       *)
EXTENDS Encoder

TwoRungs == <<[name |-> "240p", width |-> 426, height |-> 240],
              [name |-> "360p", width |-> 640, height |-> 360]>>
OneBitrate   == <<"192k">>
OneThumbnail == <<"thumb_1">>

\* The sprite sheet and the clip, passed over as a track is, are left out.
NoExtras == << >>

\* One without audio that fits both rungs, and one with audio that fits one.
SomeInputs == {[width |-> 640, height |-> 360, audio |-> FALSE],
               [width |-> 426, height |-> 240, audio |-> TRUE]}
=============================================================================
