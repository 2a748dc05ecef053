-------------------------------- MODULE MCDpb --------------------------------
(* Settings for Dpb. *)
EXTENDS Dpb

Conf(ref, bframes, pyramid, tight, open, fields, cap) ==
    [ref |-> ref, bframes |-> bframes, pyramid |-> pyramid, tight |-> tight,
     open |-> open, fields |-> fields, cap |-> cap]

\* The pyramid with the wide and the tight window, flat runs, a ring the window
\* shrinks, and field pairs, one in a window the cap shrinks.
DpbConfigs ==
    {Conf(1, 3, TRUE, FALSE, TRUE, FALSE, 15),
     Conf(2, 3, TRUE, TRUE, TRUE, FALSE, 15),
     Conf(2, 2, FALSE, TRUE, TRUE, FALSE, 15),
     Conf(4, 1, FALSE, TRUE, FALSE, FALSE, 3),
     Conf(1, 3, TRUE, FALSE, TRUE, TRUE, 15),
     Conf(4, 3, TRUE, FALSE, FALSE, TRUE, 5),
     Conf(2, 2, FALSE, TRUE, FALSE, TRUE, 15)}
=============================================================================
