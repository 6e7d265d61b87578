------------------------------- MODULE MCRma --------------------------------
(***************************************************************************)
(* Two messages, with one buffer each or with both buffers in one of them. *)
(***************************************************************************)
EXTENDS Rma, TLC

CONSTANTS m1, m2, r11, r12, r21, a11, a12, a21

MCBodies ==
    {m1 :> <<"plain", "ndarray">> @@ m2 :> <<"bytes", "small bytes">>,
     m1 :> <<"ndarray", "plain", "bytearray">> @@ m2 :> <<"plain">>}
MCReadOp == m1 :> <<r11, r12>> @@ m2 :> <<r21>>
MCAckOp == m1 :> <<a11, a12>> @@ m2 :> <<a21>>
=============================================================================
