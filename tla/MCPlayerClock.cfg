SPECIFICATION Spec
CONSTANTS
  Kinds = {"av", "music"}
  MaxStreams = 2
PROPERTY
  RaisedForOneFile
