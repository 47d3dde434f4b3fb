--------------------------- MODULE MCSourceJoins ----------------------------
(***************************************************************************)
(* Instances of SourceJoins for TLC.                                       *)
(***************************************************************************)
EXTENDS SourceJoins

CONSTANTS n1, v4

(* No entry; a name and a literal that is not IPv6; a name and one that is *)
(* IPv6.                                                                   *)
Lists == {<<>>, <<n1, v4>>, <<n1, 2>>}
=============================================================================
