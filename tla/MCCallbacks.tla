----------------------------- MODULE MCCallbacks -----------------------------
(* The callback worker with two tasks over two answers of one request and   *)
(* the answer of another.                                                   *)
EXTENDS CallbackOutbox

CONSTANTS r1, r2

Answers == {<<r1, 2>>, <<r1, 3>>, <<r2, 2>>}
=============================================================================
