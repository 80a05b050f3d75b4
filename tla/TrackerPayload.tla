--------------------------- MODULE TrackerPayload ---------------------------
(***************************************************************************)
(* What the offline tools read out of a payload.  Aircatch.py,             *)
(* scenario_gen.py and ble_sniffer.py each hold a copy of these parsers.   *)
(*                                                                         *)
(* A payload is abstracted to what the parsers find in its bytes:          *)
(*   at6, at8  the AD structures met by a walk that starts at byte 6 or 8  *)
(*             (the walk ends at a zero length or an overrun, and so does  *)
(*             the sequence);                                              *)
(*   marks     the hex substrings the tools search for that it contains.   *)
(* An AD structure is the ecosystem its type and UUID stand for, and the   *)
(* private id when it is Samsung service data of at least 12 bytes.        *)
(***************************************************************************)
EXTENDS SequencesExt, Integers

CONSTANTS
  PrivId,   \* Samsung private ids
  NoPriv    \* the empty string

Ecosystem == {"APPLE", "GOOGLE", "TILE", "SAMSUNG"}

\* parse_ad_structures: the first structure that stands for an ecosystem.
ParseAds(ads) ==
  LET i == SelectInSeq(ads, LAMBDA a : a.eco \in Ecosystem)
  IN  IF i = 0 THEN "UNKNOWN" ELSE ads[i].eco

\* Layout A (AdvA, structures) is tried before layout B (header, AdvA,
\* structures), whatever the payload's layout is.
EcoOf(pay) ==
  LET eco == ParseAds(pay.at6)
  IN  IF eco # "UNKNOWN" THEN eco ELSE ParseAds(pay.at8)

\* extract_from_ad: the first Samsung structure long enough for an id.
ExtractPriv(ads) ==
  LET i == SelectInSeq(ads, LAMBDA a : a.priv # NoPriv)
  IN  IF i = 0 THEN NoPriv ELSE ads[i].priv

PrivOf(pay) ==
  LET priv == ExtractPriv(pay.at6)
  IN  IF priv # NoPriv THEN priv ELSE ExtractPriv(pay.at8)

Matches(pay, tags) == pay.marks \cap tags # {}

=============================================================================
