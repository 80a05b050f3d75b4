---------------------------- MODULE MCAirDetect ----------------------------
(***************************************************************************)
(* Files of a few packets each.  A block is 12 long, DUR_MIN 9, and a      *)
(* segment window 2, in the proportions of the code (2400, 1700, 120).     *)
(*   tail    an adversary that renames itself with every packet, and then  *)
(*           a block of which the filters leave nothing                    *)
(*   late    passers-by that look like an adversary, which comes later     *)
(*   few     an adversary with four segments, its number not in the path   *)
(*   quiet   two tags that keep their MACs, bad packets, a Samsung tag     *)
(*   nocfo   three segments without CFO                                    *)
(***************************************************************************)
EXTENDS AirDetect

Ad(eco, priv) == [eco |-> eco, priv |-> priv]
Pay(ad, marks) == [at6 |-> <<ad>>, at8 |-> <<>>, marks |-> marks]
Adv == Pay(Ad("APPLE", NoPriv), {"adv"})
Apple == Pay(Ad("APPLE", NoPriv), {})
Busy == Pay(Ad("GOOGLE", NoPriv), {"aafe40"})
Samsung == Pay(Ad("SAMSUNG", "p"), {})

Rx(t, mac, pay) == [t |-> t, mac |-> mac, pay |-> pay, crc |-> TRUE,
                    cfo |-> TRUE]

MCPackets ==
  [tail |-> <<Rx(0, "a", Adv), Rx(2, "b", Adv), Rx(4, "c", Adv),
              Rx(6, "d", Adv), Rx(9, "e", Adv), Rx(14, "g", Busy)>>,
   late |-> <<Rx(0, "a", Apple), Rx(2, "b", Apple), Rx(4, "c", Apple),
              Rx(6, "b", Apple), Rx(9, "d", Apple), Rx(13, "e", Adv)>>,
   few |-> <<Rx(0, "a", Adv), Rx(3, "b", Adv), Rx(6, "c", Adv),
             Rx(9, "d", Adv)>>,
   quiet |-> <<Rx(0, "a", Apple), Rx(5, "a", Apple), Rx(9, "a", Apple),
               Rx(3, "x", Samsung), Rx(6, "y", Samsung),
               [Rx(7, "z", Adv) EXCEPT !.crc = FALSE], Rx(30, "a", Apple)>>,
   nocfo |-> <<Rx(0, "a", Apple), [Rx(2, "b", Apple) EXCEPT !.cfo = FALSE],
               Rx(4, "c", Apple)>>]

Named(adv, apple) == [adv |-> adv, apple |-> apple, google |-> 0,
                      samsung |-> 0, tile |-> 0]
MCName == [tail |-> Named(1, 0), late |-> Named(1, 1), few |-> Named(-1, 0),
           quiet |-> Named(0, 0), nocfo |-> Named(0, 0)]

MCInputs == {<<<<"tail", "quiet">>, <<"late">>>>,
             <<<<"late", "quiet">>, <<"few">>>>, <<<<"nocfo", "tail">>>>,
             <<<<"nocfo">>>>}

MCDefaults ==
  [window |-> 2, block |-> 12, step |-> 12, dur |-> 9, dens |-> 115]

\* A block shorter than DUR_MIN, and one that is not.
MCGrid == <<[window |-> 2, block |-> 5, dens |-> 80],
            [window |-> 3, block |-> 10, dens |-> 115]>>

MCOverrides == {None, 300}

=============================================================================
