------------------------------- MODULE MCGuard -------------------------------
(* An instance of Guard: a throttle without a burst, which set_config      *)
(* corrects, and none.                                                     *)
EXTENDS Guard

MCConfigs == {<<0, 0>>, <<2, 0>>}
==============================================================================
