---------------------------- MODULE MCUDPProbe ----------------------------
(* Clock skews for the runs of UDPProbe. *)
EXTENDS UDPProbe

MCSkews == {-1, 0, 1}
=============================================================================
