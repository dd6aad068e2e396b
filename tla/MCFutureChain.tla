---------------------------- MODULE MCFutureChain ----------------------------
(* A chain of up to three then() calls: a first, a middle and a last         *)
(* future, whose callback takes a FutureResult.                             *)
EXTENDS FutureChain

LastHandles == {MaxChain}
=============================================================================
