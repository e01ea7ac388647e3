----------------------------- MODULE MC_Mailbox -----------------------------
(* Two clients' requests, three doorbells (a timeout, the late answer to it,  *)
(* and a request after both) and two restarts, of either side.                *)
EXTENDS Mailbox
=============================================================================
