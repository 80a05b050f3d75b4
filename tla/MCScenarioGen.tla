--------------------------- MODULE MCScenarioGen ---------------------------
(***************************************************************************)
(* Three small captures.  Street has every kind of device: an adversary    *)
(* that marks its packets and changes its MAC, an Apple tag with a MAC of  *)
(* its own, a Samsung tag under two MACs, and two passers-by.  Room has no *)
(* passer-by.  Lab has unsorted rows, a bad CRC, a payload with a header   *)
(* and a Samsung packet too short for a private id.                        *)
(***************************************************************************)
EXTENDS ScenarioGen

Ad(eco, priv) == [eco |-> eco, priv |-> priv]
LayoutA(ad, marks) == [at6 |-> <<ad>>, at8 |-> <<>>, marks |-> marks]
LayoutB(ad, marks) ==
  [at6 |-> <<Ad("UNKNOWN", NoPriv)>>, at8 |-> <<ad>>, marks |-> marks]
Plain == [at6 |-> <<Ad("UNKNOWN", NoPriv)>>, at8 |-> <<>>, marks |-> {}]

Rx(t, mac, pay) == [t |-> t, mac |-> mac, crc |-> TRUE, pay |-> pay]
Bad(t, mac, pay) == [t |-> t, mac |-> mac, crc |-> FALSE, pay |-> pay]

Apple(marks) == LayoutA(Ad("APPLE", NoPriv), marks)
Samsung == LayoutA(Ad("SAMSUNG", "p"), {})

Street == <<
  Rx(0, "adv1", Apple({"ff"})), Rx(0, "apple", Apple({})),
  Rx(1, "sam1", Samsung), Rx(1, "walk1", Plain), Rx(2, "adv2", Apple({"ff"})),
  Rx(3, "walk2", Plain), Rx(3, "apple", Apple({})), Rx(4, "sam1", Samsung),
  Rx(5, "adv2", Apple({"ff"})), Rx(5, "sam2", Samsung),
  Rx(6, "apple", Apple({})), Rx(7, "sam2", Samsung),
  Rx(8, "adv3", Apple({"ff"}))>>

Room == <<
  Rx(0, "adv1", Apple({"ff", "fe"})), Rx(1, "apple", Apple({})),
  Rx(2, "adv2", Apple({"fe"})), Rx(5, "adv2", Apple({"ff"})),
  Rx(7, "apple", Apple({}))>>

Lab == <<
  Rx(4, "tile", LayoutB(Ad("TILE", NoPriv), {})), Rx(0, "walk1", Plain),
  Rx(1, "tile", LayoutB(Ad("TILE", NoPriv), {})), Bad(2, "walk3", Plain),
  Rx(3, "sam1", LayoutA(Ad("SAMSUNG", NoPriv), {})), Rx(3, "walk2", Plain),
  Rx(5, "goog", LayoutB(Ad("GOOGLE", NoPriv), {})), Rx(8, "walk4", Plain),
  Rx(7, "tile", LayoutB(Ad("TILE", NoPriv), {})), Rx(9, "sam1", Samsung)>>

MCCaptures == {Street, Room, Lab}

\* Typed in: a device that is no candidate, and one named twice.
MCExplicit == {
  [NoSelection EXCEPT !.apple = {"adv2"}, !.privs = {"p"}],
  [NoSelection EXCEPT !.tags = {"ff", "fe"}, !.google = {"goog"}]}

MCPeriods == <<2, 3>>

=============================================================================
