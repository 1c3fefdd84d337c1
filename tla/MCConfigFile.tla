---------------------------- MODULE MCConfigFile ----------------------------
(* Initial files for the runs of ConfigFile and NodeFiles: one that the    *)
(* daemon accepts, one with a peer listed twice and one with unsound       *)
(* settings.                                                               *)
EXTENDS ConfigFile

CONSTANTS a, b

MCGood == [peers |-> <<a>>, users |-> <<>>, sound |-> TRUE]
MCTwice == [peers |-> <<a, a>>, users |-> <<b>>, sound |-> TRUE]
MCUnsound == [peers |-> <<>>, users |-> <<a>>, sound |-> FALSE]

MCInitConfigs == {MCGood, MCTwice, MCUnsound}
MCOneConfig == {MCGood}
=============================================================================
