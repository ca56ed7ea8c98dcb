----------------------------- MODULE MCBucketTags -----------------------------
(* An instance of BucketTags: 3 ns are a us, 27 are a second, 54 a minute   *)
(* and 108 an hour.                                                         *)
EXTENDS BucketTags

\* Linear bounds, some of them closer to each other than the texts can tell.
MCHistograms == {<<a, a + w, a + 2 * w>> : a \in -30 .. 220, w \in 1 .. 30}
MCFewHistograms == {<<a>> : a \in 0 .. 30}
MCTags == {<<"a", "1">>}
MCInt64Min == -1000
=============================================================================
