------------------------------ MODULE MCMailbox ------------------------------
(* Two threads, two interrupt lines and three channel objects: enough for  *)
(* both threads to create on the same line, for -EBUSY, and for a channel  *)
(* to be destroyed and its line reused.                                     *)
EXTENDS Mailbox

MCIrqs == {1, 2}
=============================================================================
