-------------------------- MODULE MCPipelineConfig --------------------------
EXTENDS PipelineConfig, TLC

CONSTANTS k1, k2, dev, prod, host, uri

Symmetry == Permutations(Clients)
=============================================================================
