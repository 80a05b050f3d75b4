--------------------------- MODULE MCCaptureDecode ---------------------------
(***************************************************************************)
(* A Samsung tag met under two addresses, an Apple tag that is masked and  *)
(* a phone; one channel and up to two windows, or two channels and one.    *)
(***************************************************************************)
EXTENDS CaptureDecode

CONSTANTS w1, w2, parent, m1, m2, m3, m4, id, ff

MCOptions ==
  {[kind |-> "legacy", crc |-> TRUE, tags |-> "none",
    channels |-> <<37>>, max |-> 1],
   [kind |-> "mobile", crc |-> TRUE, tags |-> "only-tags",
    channels |-> <<37, 38>>, max |-> 1],
   [kind |-> "legacy", crc |-> FALSE, tags |-> "drop-tags",
    channels |-> <<37, 38>>, max |-> 0]}

MCAdverts ==
  {[mac |-> m1, eco |-> "SAMSUNG", variant |-> None, priv |-> id],
   [mac |-> m2, eco |-> "SAMSUNG", variant |-> None, priv |-> id],
   [mac |-> m3, eco |-> "APPLE", variant |-> ff, priv |-> None],
   [mac |-> m4, eco |-> "UNKNOWN", variant |-> None, priv |-> None]}

MCKey == [p \in {w1, w2, parent} |-> p]

MCSymmetry == Permutations({w1, w2})

=============================================================================
