---------------------------- MODULE MC_Loopback ----------------------------
(* The FIFOs are as deep as the hardware's; recal_k takes fewer samples and   *)
(* waits fewer seconds than in the code, which changes nothing but the length.*)
EXTENDS Loopback
=============================================================================
