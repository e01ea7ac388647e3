--------------------------- MODULE MC_NtpExchange ---------------------------
(* A client whose clock gains and loses, far behind or ahead when it starts, *)
(* among strangers, with a short format that a holdover overflows.           *)
EXTENDS NtpExchange
ClockSkews == {-8, 6}
Gains == {-2, 0, 1}
OwnTimeSlow == {0, 3}
Stranger(mode, version, stratum) ==
  [Request(Start) EXCEPT !.mode = mode, !.version = version, !.stratum = stratum]
Others == {Stranger("client", 5, 0), Stranger("server", 4, 16)}
=============================================================================
