------------------------------- MODULE MCPush -------------------------------
(* The push worker with two tasks and one push that stale tasks contend for *)
(* while the device's token is replaced.                                    *)
EXTENDS PushOutbox
=============================================================================
