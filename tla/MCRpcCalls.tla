------------------------------ MODULE MCRpcCalls ------------------------------
(***************************************************************************)
(* RpcCalls for the runs that check safety only: no call is special, so    *)
(* the calls may be permuted.                                              *)
(***************************************************************************)
EXTENDS RpcCalls, TLC

CallSymmetry == Permutations(Calls)
=============================================================================
