--------------------------- MODULE MCBridgeNetwork ---------------------------
EXTENDS BridgeNetwork, TLC

CONSTANTS c1, c2

(* One container asks for two ports, the other for none: it gets the default. *)
SomeBindings == (c1 :> <<80, 81>>) @@ (c2 :> <<>>)

(* Two managed forwards, or one of the user, with traffic but no bridge       *)
(* containers; bridge containers beside a managed forward; and bridge         *)
(* containers whose socats are slow.                                          *)
AllSettings ==
    {[slots |-> {1, 2}, handles |-> {"pushing"},
      clients |-> TRUE, tasks |-> FALSE, slow |-> FALSE],
     [slots |-> {1}, handles |-> {"user"},
      clients |-> TRUE, tasks |-> FALSE, slow |-> FALSE],
     [slots |-> {1}, handles |-> {"pushing"},
      clients |-> FALSE, tasks |-> TRUE, slow |-> FALSE],
     [slots |-> {}, handles |-> {}, clients |-> FALSE, tasks |-> TRUE, slow |-> TRUE]}
=============================================================================
