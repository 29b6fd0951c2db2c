------------------------- MODULE MCReleasePipeline -------------------------
(* Constants for ReleasePipeline: a repository of one package, and of two.  *)
EXTENDS ReleasePipeline

CONSTANTS khipu, other

MCDeclarations == {{khipu}, {khipu, other}}
=============================================================================
