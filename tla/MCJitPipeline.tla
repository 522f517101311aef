---------------------------- MODULE MCJitPipeline ----------------------------
(* JitPipeline with small limits.                                          *)
EXTENDS JitPipeline

OneOrTwo == {1, 2}
=============================================================================
