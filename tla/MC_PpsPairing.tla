--------------------------- MODULE MC_PpsPairing ---------------------------
(* A receiver whose sentences name the second before their pulse, and enough *)
(* disturbances for a lost sentence, the missed pulse after it, and both     *)
(* again before things settle.                                               *)
EXTENDS PpsPairing
PreviousSecond == -1
Outages == {"lose", "miss"}
AllFaults == {"lose", "miss", "late", "glitch"}
=============================================================================
