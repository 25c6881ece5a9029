---------------------------- MODULE MCRtspLogin ----------------------------
(* Small instance of RtspLogin: two cut answers, one unasked message and   *)
(* one nonce given up, in any order.                                       *)
EXTENDS RtspLogin

FewUpsets == [u \in Upsets |-> IF u = "cut" THEN 2 ELSE 1]
=============================================================================
