------------------------------ MODULE MCEvalRun ------------------------------
(* The instance of EvalRun for TLC; its constants are all in the cfg.      *)
EXTENDS EvalRun
=============================================================================
