--------------------------- MODULE MCChannelBuffer --------------------------
(* Small sets of threads around one channel_buffer. *)
EXTENDS ChannelBuffer, TLC
CONSTANTS g1, g2, p1, i1, i2, c1, v1, v2

OneGetter == {g1}
TwoGetters == {g1, g2}
NoPoller == {}
OnePoller == {p1}
OneInserter == {i1}
TwoInserters == {i1, i2}
OneCloser == {c1}
OneItem == {v1}
TwoItems == {v1, v2}

ThreadSymmetry ==
  Permutations(TwoGetters) \cup Permutations(TwoInserters) \cup Permutations(TwoItems)
=============================================================================
