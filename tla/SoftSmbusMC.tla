---------------------------- MODULE SoftSmbusMC ----------------------------
(***************************************************************************)
(* SoftSmbus with bytes of three bits.                                     *)
(***************************************************************************)
EXTENDS SoftSmbus

MCOwn == <<1, 0, 0>>
MCAddresses == {MCOwn, <<0, 1, 0>>}
MCSettings == {<<0, 1, 1>>, <<1, 1, 0>>}
MCValues == {<<1, 0, 0>>}
MCAnswer == [c \in {<<0, 0, 1>>} |-> <<<<0, 0, 0>>, <<0, 0, 0>>, <<0, 1, 0>>>>]
=============================================================================
