----------------------------- MODULE MCPbaMount -----------------------------
(* Model checking of PbaMount: the configurations MCPbaMount*.cfg.         *)
EXTENDS PbaMount

=============================================================================
