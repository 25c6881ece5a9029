----------------------------- MODULE MCBoxSend -----------------------------
(* Small instances of BoxSend: two boxes to a packet, up to three packets  *)
(* to a picture.                                                           *)
EXTENDS BoxSend

=============================================================================
