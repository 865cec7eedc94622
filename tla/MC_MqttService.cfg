\* Two connections through FactoryBuilder2, each accepted with or without a
\* deadline; every outcome of the handshake, the handler factory and the
\* dispatcher.  No symmetry: TLC does not combine it with liveness.
CONSTANTS
  c1 = c1
  c2 = c2
  Conns <- MCConns
  Timeouts <- MCTimeouts
  Builder2 = TRUE
SPECIFICATION MCSpec
PROPERTY Refinement
PROPERTY SetupBounded
