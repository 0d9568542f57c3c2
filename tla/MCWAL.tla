------------------------------- MODULE MCWAL -------------------------------
(* WAL on a small instance: a single put, a group of two transactions and a *)
(* transaction of two updates.                                              *)
EXTENDS WAL

CONSTANTS a, b

MCGroups == {<<<<a>>>>, <<<<a>>, <<b>>>>, <<<<b, a>>>>}
PowerGroups == {<<<<a>>>>, <<<<a>>, <<b>>>>}

=============================================================================
