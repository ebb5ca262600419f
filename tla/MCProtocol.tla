----------------------------- MODULE MCProtocol -----------------------------
(***************************************************************************)
(* Messages for Protocol: with Base 2 a word is 16 and the header 8 bytes, *)
(* so 8 bytes of data are the first whose frame wraps and 16 the first     *)
(* whose length does.                                                      *)
(***************************************************************************)
EXTENDS Protocol

Pattern(n) == [i \in 1 .. n |-> (i + n) % Base]

MCMessages ==
  {[MsgID |-> 5, Data |-> <<>>], [MsgID |-> 15, Data |-> <<0>>],
   [MsgID |-> 0, Data |-> Pattern(2)], [MsgID |-> 1, Data |-> Pattern(3)],
   [MsgID |-> 10, Data |-> Pattern(8)], [MsgID |-> 3, Data |-> Pattern(17)]}
=============================================================================
