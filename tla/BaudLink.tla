------------------------------ MODULE BaudLink ------------------------------
(***************************************************************************)
(* Bringing the UART and the receiver to the fast rate at boot              *)
(* (establish_gnss_link of pico-ntp, establish_link of pico-gnss), or the   *)
(* UART to whatever rate it is at (follow_baud of the examples).  The       *)
(* receiver starts at the slow rate when it is powered up and keeps its     *)
(* rate over a restart of the firmware; its command has no answer, may not  *)
(* arrive, and is obeyed some time later.                                  *)
(***************************************************************************)
EXTENDS Integers

CONSTANT
  MaxFaults \* bound on lost commands, losses of power and restarts

ASSUME LinkAssumption == MaxFaults \in Nat

VARIABLES
  firmware, \* the program flashed
  port,     \* the UART's rate
  rate,     \* the receiver's rate
  talking,  \* the receiver sends sentences
  command,  \* PMTK251 has reached the receiver, which has not switched yet
  stage,    \* where the establishing stands, or how it ended
  agreed,   \* port and receiver have been at one rate since the port was set
  tidy,     \* history: since this boot no loss of power, and the receiver
            \* switched before the last probe had found it
  faults    \* disturbances so far

receiver == <<rate, talking, command>>
link == <<firmware, port, receiver, stage, agreed, tidy, faults>>

Firmwares == {"pico-ntp", "pico-gnss", "example"}
Rates == {"slow", "fast"}
Probes == {"probe1", "probe2"}
Ends == {"raised", "kept", "lost"}

Framing == talking /\ rate = port
Established == stage \in Ends
Trusted == firmware = "pico-ntp" /\ stage = "raised"

\* where a first probe that hears nothing leaves the port: mt3333.rs sets it back
LostPort == IF firmware = "pico-ntp" THEN "fast" ELSE "slow"

Fault == faults < MaxFaults /\ faults' = faults + 1

SetPort(r) == port' = r /\ agreed' = (talking /\ rate = r)
-----------------------------------------------------------------------------
(* probe_gnss_baud: the slow rate, then the fast one, up to 3 s of listening  *)
(* at each.  A sentence a second: a rate that matched all the while is heard. *)
Heard ==
  /\ stage \in Probes /\ Framing
  /\ \/ /\ port = "fast" /\ stage' = "raised"
        /\ UNCHANGED <<command, faults>>
     \/ /\ port = "slow" /\ (stage = "probe2" \/ firmware = "example") /\ stage' = "kept"
        /\ UNCHANGED <<command, faults>>
     \/ /\ port = "slow" /\ stage = "probe1" /\ firmware # "example" /\ stage' = "wait"
        /\ \/ command' = TRUE /\ UNCHANGED faults
           \/ Fault /\ UNCHANGED command
  /\ UNCHANGED <<firmware, port, rate, talking, agreed, tidy>>

NotHeard ==
  /\ stage \in Probes /\ ~agreed
  /\ \/ port = "slow" /\ SetPort("fast") /\ UNCHANGED stage
     \/ /\ port = "fast" /\ stage' = "lost"
        /\ SetPort(IF stage = "probe1" THEN LostPort ELSE "slow")
  /\ UNCHANGED <<firmware, receiver, tidy, faults>>

\* mutant: the command is taken to have worked
WaitedTrusts ==
  /\ stage = "wait" /\ stage' = "raised" /\ SetPort("fast")
  /\ UNCHANGED <<firmware, receiver, tidy, faults>>

(* 500 ms after the command: probe again, from the slow rate.                 *)
Waited ==
  /\ stage = "wait" /\ stage' = "probe2" /\ SetPort("slow")
  /\ UNCHANGED <<firmware, receiver, tidy, faults>>

(* The firmware starts over, or another is flashed; the receiver stays as it is. *)
Restart ==
  /\ Fault
  /\ stage' = "probe1" /\ SetPort("slow")
  /\ tidy' = TRUE /\ firmware' \in Firmwares
  /\ UNCHANGED receiver
-----------------------------------------------------------------------------
(* The receiver.                                                             *)
Switch ==
  /\ talking /\ command
  /\ rate' = "fast" /\ command' = FALSE
  /\ agreed' = FALSE
  /\ tidy' = (tidy /\ stage \notin Ends)
  /\ UNCHANGED <<firmware, port, talking, stage, faults>>

PowerLoss ==
  /\ Fault
  /\ rate' = "slow" /\ talking' = FALSE /\ command' = FALSE
  /\ agreed' = FALSE /\ tidy' = FALSE
  /\ UNCHANGED <<firmware, port, stage>>

PowerUp ==
  /\ ~talking /\ talking' = TRUE
  /\ UNCHANGED <<firmware, port, rate, command, stage, agreed, tidy, faults>>

LinkInit ==
  /\ firmware \in Firmwares
  /\ port = "slow" /\ stage = "probe1"
  /\ rate \in Rates /\ talking \in BOOLEAN /\ (~talking => rate = "slow")
  /\ command = FALSE
  /\ agreed = (talking /\ rate = "slow")
  /\ tidy = TRUE /\ faults = 0

Probing == Heard \/ NotHeard \/ Waited
-----------------------------------------------------------------------------
LinkTypeOK ==
  /\ firmware \in Firmwares
  /\ port \in Rates /\ rate \in Rates /\ talking \in BOOLEAN /\ command \in BOOLEAN
  /\ stage \in Probes \union Ends \union {"wait"}
  /\ agreed \in BOOLEAN /\ tidy \in BOOLEAN /\ faults \in 0..MaxFaults

\* Whatever the receiver's rate was at boot, and whether or not the command
\* arrived, the port is at the receiver's rate once the probe has found it
\* (pico-ntp main.rs:557-559, mt3333.rs:131-133) - unless the receiver switches
\* after the last probe has found it at the slow rate, or loses power.  And one
\* that comes up only after pico-gnss or an example has given up is heard all the same
\* (mt3333.rs:136-138).
PortFollows ==
  /\ stage \in {"raised", "kept"} /\ tidy => port = rate
  /\ firmware # "pico-ntp" /\ stage = "lost" /\ tidy /\ talking => Framing
=============================================================================
