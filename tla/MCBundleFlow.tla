---------------------------- MODULE MCBundleFlow ----------------------------
(***************************************************************************)
(* An instance of BundleFlow for TLC.                                      *)
(***************************************************************************)
EXTENDS BundleFlow

CONSTANTS s1, s2

Frame(txid, ef, len, subtree) ==
  [txid |-> txid, subtree |-> subtree, tx |-> [i \in 1..len |-> [txid |-> txid, ef |-> ef]]]

(* Two short transactions and one that no member can hold, in one group of *)
(* the fabric that the relay splits; one in Extended Format.               *)
MCFrames == {Frame(0, FALSE, 1, s1), Frame(1, FALSE, 2, s1), Frame(2, FALSE, 8, s1),
             Frame(3, TRUE, 1, s2)}

MCBits == [fabric |-> 1, edge |-> 2]
MCMaxBytes == [fabric |-> 8, edge |-> 6]
MCMaxCount == [fabric |-> 0, edge |-> 2]
=============================================================================
