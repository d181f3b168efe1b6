CONSTANTS
  UVM_PUSHBUFFER_CHUNKS = 2
  UVM_PUSHBUFFER_CHUNK_SIZE = 4
  UVM_MAX_PUSH_SIZE = 2
  Pushes = {p1, p2, p3}
  Gpfifos = {g1, g2, g3}
  NULL = NULL
SPECIFICATION Spec
VIEW View
SYMMETRY Symmetry
INVARIANTS NoOverwrite BitmapsExact ClaimCanSucceed
