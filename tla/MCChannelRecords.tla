-------------------------- MODULE MCChannelRecords --------------------------
(* An instance of ChannelRecords for TLC: what new channels ask for, an     *)
(* account or none, and the number 2.                                       *)
EXTENDS ChannelRecords, TLC

MCWants == {<<None, 2>>, <<2, 2>>}
=============================================================================
