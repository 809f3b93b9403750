--------------------------- MODULE InterfaceTurns ---------------------------
(***************************************************************************)
(* What net_monitor promises of the two things it controls, the published  *)
(* state and the Wi-Fi radio, in the modes that use the cable: state       *)
(* ETHERNET and the radio take turns, and one turn has ended before the    *)
(* other begins ("break before make").  What the mode does not allow never *)
(* has a turn.                                                             *)
(*                                                                         *)
(* It promises nothing of addresses: Ethernet takes and keeps its own      *)
(* without asking net_monitor, also in a turn of the radio.                *)
(***************************************************************************)
VARIABLES
    allowed,   \* whose turn it may be; fixed for one boot
    turn       \* whose turn it is, or "none"

turnVars == <<allowed, turn>>

Sides == {"ethernet", "radio"}

Init ==
    /\ allowed \in SUBSET Sides
    /\ turn = "none"

Begin(side) ==
    /\ turn = "none"
    /\ side \in allowed
    /\ turn' = side
    /\ UNCHANGED allowed

End ==
    /\ turn # "none"
    /\ turn' = "none"
    /\ UNCHANGED allowed

Next == End \/ \E side \in Sides : Begin(side)

Spec == Init /\ [][Next]_turnVars
=============================================================================
