---------------------------- MODULE MCCameraLogic ----------------------------
(* Instances of CameraLogic for TLC. *)
EXTENDS CameraLogic

CONSTANTS s1, s2

MCServers == {s1, s2}

Acc(t, m, p) == [tariff |-> t, money |-> m, privileged |-> p]
Online == Acc(1, TRUE, FALSE)
Broke == Acc(2, FALSE, FALSE)
Payer == Acc(2, TRUE, FALSE)
Vip == Acc(1, FALSE, TRUE)
MCAccounts == {Online, Broke, Payer, Vip}

Msg(t, a, s) == [type |-> t, arg |-> a, ms |-> s, account |-> Online]
Cmd(mo, acc) == [type |-> "command", arg |-> mo, ms |-> Nil, account |-> acc]

\* Each kind of message, with each outcome of the checks it meets.
MCContents ==
    {Msg("deviceState", "streamingOn", s) : s \in MCServers}
    \cup {Msg("deviceState", a, Nil) : a \in {"on", "streamingOff"}}
    \cup {Msg("sensorData", "on", s) : s \in {s1, Nil}}
    \cup {Msg("sensorData", "off", s1)}
    \cup {Msg("cloudStreaming", "streamingOff", Nil)}
    \cup {Cmd("continuous", acc) : acc \in MCAccounts \ {Broke}}
    \cup {Cmd("motion", Payer)}
=============================================================================
