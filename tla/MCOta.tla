-------------------------------- MODULE MCOta --------------------------------
(* Ota with announcements: sound ones with either hash, ones where less is announced
   than comes, of the upload or of the firmware, and one for another board.  The image
   that is sent has the header of the one that runs in it as well. *)
EXTENDS Ota

CONSTANTS old, a

MCInside == [i \in Images |-> IF i = a THEN {old} ELSE {}]

Announce(images, parts, units, hash) ==
    {[image |-> i, parts |-> parts, units |-> units, hash |-> hash] : i \in images}

MCOffers ==
    Announce(Fitting \cap Files, Parts, Parts, "file")
    \cup Announce(Fitting \cap Files, Parts, Parts, "firmware")
    \cup Announce(Fitting \cap Files, Parts - 1, Parts, "firmware")
    \cup Announce(Fitting \cap Files, Parts, Parts - 1, "firmware")
    \cup Announce(Alien \cap Files, Parts, Parts, "firmware")
=============================================================================
