----------------------------- MODULE MCPbaStore -----------------------------
(* Model checking of PbaStore: the configurations MCPbaStore*.cfg.         *)
EXTENDS PbaStore

(* Of the last response only that to a read at the start of a block is     *)
(* looked at by a property, and nothing the store does depends on it.      *)
SeenResponse ==
  IF resp.cmd = "READ" /\ resp.err = 0 /\ BLOCKOFF(resp.offset) = 0 THEN resp ELSE [cmd |-> "NONE"]

StoreView == <<entries, blocks, ID, writing, hung, SeenResponse>>

=============================================================================
