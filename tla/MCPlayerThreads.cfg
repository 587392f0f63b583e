SPECIFICATION Spec
CONSTANTS
  Kinds = {"av", "bad"}
  MaxStreams = 3
INVARIANT
  OneDecodingThread
