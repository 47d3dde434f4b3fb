------------------------------- MODULE MCLane -------------------------------
(***************************************************************************)
(* Streams of every class, written by encoders that follow the grammars    *)
(* and share nothing with the walkers: transactions standard and Extended, *)
(* with short and long VarInts, subtrees, blocks, BEEF records and         *)
(* deliveries, headers; complete, torn anywhere, or followed by bytes that *)
(* are no object of the class.                                             *)
(***************************************************************************)
EXTENDS Lane

(* A number as a VarInt with this many bytes after the first.              *)
VarIntOf(n, more) ==
  IF more = 0 THEN <<n>> ELSE <<12 + more>> \o [i \in 1..more |-> (n \div 16^(i - 1)) % 16]

ScriptOf(s, more) == VarIntOf(Len(s), more) \o s

(* t: ef, more, ins (script and spent script), outs (scripts).             *)
TxOf(t) ==
  <<1>> \o (IF t.ef THEN <<0, 0, 14>> ELSE <<>>) \o VarIntOf(Len(t.ins), t.more)
  \o FlattenSeq([i \in DOMAIN t.ins |->
       <<2>> \o ScriptOf(t.ins[i][1], t.more) \o <<3>>
       \o (IF t.ef THEN <<4>> \o ScriptOf(t.ins[i][2], t.more) ELSE <<>>)])
  \o VarIntOf(Len(t.outs), 0)
  \o FlattenSeq([i \in DOMAIN t.outs |-> <<5>> \o ScriptOf(t.outs[i], t.more)]) \o <<6>>

Standard(t) == TxOf([t EXCEPT !.ef = FALSE])

Plain == [ef |-> FALSE, more |-> 0, ins |-> <<<< <<9>>, <<>> >>>>, outs |-> <<<<>>>>]
Wide == [ef |-> FALSE, more |-> 2, ins |-> <<<< <<>>, <<>> >>>>, outs |-> <<<<0>>>>]
Extended == [ef |-> TRUE, more |-> 0, ins |-> <<<< <<>>, <<0, 0, 14>> >>, << <<7>>, <<>> >>>>, outs |-> <<<<8>>>>]
ExtendedWide == [ef |-> TRUE, more |-> 1, ins |-> <<<< <<1>>, <<5>> >>>>, outs |-> <<<<>>, <<2>>>>]

SubtreeOf(root, nodes) == <<root, 0, Len(nodes)>> \o nodes

BlockOf(roots, coinbase, bump) ==
  <<1, 2, 3, 4, 0, Len(roots)>> \o roots \o coinbase \o <<7, 0, Len(bump)>> \o bump

Of(c, objects, tail, kind) ==
  [cls |-> c, objects |-> objects, tail |-> tail, kind |-> kind, wrong |-> 0]

(* Bytes that could go on to be an object, and then bytes that rule it out. *)
Bad(w, ok, wrong) == [w EXCEPT !.tail = ok \o wrong, !.kind = "bad", !.wrong = Len(wrong)]

Txs(ts, tail, kind) ==
  [standard |-> [i \in DOMAIN ts |-> Standard(ts[i])]] @@ Of("tx", [i \in DOMAIN ts |-> TxOf(ts[i])], tail, kind)

(* Every way to tear an object.                                            *)
Torn(obj) == {SubSeq(obj, 1, k) : k \in 1..Len(obj) - 1}

(* A marker that is none, a script longer than an int32, no outputs; the   *)
(* first two also cut before the end of their field.                       *)
TxInputs ==
  {Txs(ts, <<>>, "whole") : ts \in {<<Plain, Extended>>, <<ExtendedWide, Wide>>, <<Plain, Plain, Plain>>}}
  \cup {Txs(<<Plain>>, t, "torn") : t \in Torn(TxOf(Extended))}
  \cup {Bad(Txs(<<Wide>>, <<>>, "whole"), t[1], t[2]) :
          t \in {<<<<1, 0>>, <<13>>>>, <<<<1, 0>>, <<13, 1>>>>, <<<<1, 0, 0>>, <<13>>>>,
                 <<<<1, 1, 2, 15, 0>>, <<7>>>>, <<<<1, 1, 2, 15, 0>>, <<7, 0>>>>,
                 <<<<1, 1, 2, 0, 3>>, <<0>>>>}}

Block == BlockOf(<<1>>, TxOf(Plain), <<5>>)

BulkInputs ==
  {Of("subtree", <<SubtreeOf(3, <<1, 2>>), SubtreeOf(4, <<>>), SubtreeOf(0, <<5>>)>>, <<>>, "whole"),
   Of("subtree", <<SubtreeOf(3, <<1>>)>>, <<1, 0>>, "torn"),
   Of("block", <<Block, BlockOf(<<>>, TxOf(Extended), <<>>)>>, <<>>, "whole"),
   Of("header", <<<<0, 14>>, <<1, 1>>, <<0, 0>>>>, <<>>, "whole"),
   Of("header", <<<<1, 2>>>>, <<3>>, "torn")}
  \cup {Of("block", <<>>, t, "torn") : t \in Torn(Block)}
  \cup {Bad(Of("subtree", <<SubtreeOf(3, <<1>>)>>, <<>>, "whole"), <<1>>, w) : w \in {<<8>>, <<8, 0, 1>>}}
  \cup {Bad(Of("block", <<Block>>, <<>>, "whole"), t[1], t[2]) :
          t \in {<<<<1, 2, 3, 4>>, <<9>>>>, <<<<1, 2, 3, 4>>, <<9, 0>>>>,
                 <<<<1, 2, 3, 4, 0, 0, 1, 0>>, <<13>>>>, <<<<1, 2, 3, 4, 0, 0, 1, 0>>, <<13, 1>>>>}}

Records(topics, objects, tail, kind) ==
  [topics |-> topics]
  @@ Of("beef", [i \in DOMAIN topics |-> EncodeBEEFRecord(topics[i], objects[i])], tail, kind)

Names == <<<<1>>, <<2, 3>>>>

BEEFInputs ==
  {Records(<<Names, <<<<4>>>>>>, <<<<9, 9>>, <<11, 15>>>>, <<>>, "whole")}
  \cup {Records(<<<<<<4>>>>>>, <<<<9>>>>, t, "torn") : t \in Torn(EncodeBEEFRecord(Names, <<9>>))}
  \cup {Bad(Records(<<Names>>, <<<<9>>>>, <<>>, "whole"), t[1], t[2]) :
          t \in {<<<<>>, <<5>>>>, <<<<>>, <<5, 5>>>>, <<<<11>>, <<14>>>>, <<<<11, 15>>, <<2>>>>,
                 <<<<11, 15>>, <<2, 1>>>>, <<<<11, 15, 1>>, <<3>>>>, <<<<11, 15, 1, 1>>, <<0>>>>,
                 <<<<11, 15, 1, 1, 1, 1>>, <<0>>>>}}
  \cup {Of("delivery", <<EncodeBEEFDelivery(3, <<9>>), EncodeBEEFDelivery(4, <<8, 8, 8>>)>>, <<>>, "whole"),
        Bad(Of("delivery", <<EncodeBEEFDelivery(3, <<9>>)>>, <<>>, "whole"), <<1>>, <<0>>)}

MCInputs == TxInputs \cup BulkInputs \cup BEEFInputs
=============================================================================
