------------------------------ MODULE MCFrame -------------------------------
(***************************************************************************)
(* Instance of Receive, and with it of Frame, for TLC: data lengths around *)
(* those where the header of the data, of the message or of the packet     *)
(* grows by a byte.                                                        *)
(***************************************************************************)
EXTENDS Receive

MCDataLen == {0, 8, 9, 11, 12, 240, 243, 65516, 65519, 65523, 65560, 65600}
=============================================================================
