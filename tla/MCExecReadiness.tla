--------------------------- MODULE MCExecReadiness ---------------------------
(* Instances of ExecReadiness for TLC. *)
EXTENDS ExecReadiness, TLC

CONSTANTS a1, a2

SomeTests ==
    {<<>>, <<"NONE">>, <<"CMD">>, <<"CMD", "x">>, <<"CMD-SHELL">>, <<"CMD-SHELL", "x">>, <<"x">>}

OpsOf == [c \in Callers |->
    IF c = a1 THEN {"exec"}
    ELSE {"probe", "wait_image", "wait_exec", "wait_running", "wait_tcp"}]
=============================================================================
