---------------------------- MODULE MCPictureQueue ----------------------------
(* The one slot of the program; frames of three sizes, one of them higher  *)
(* than a buffer; two streams, of which the second meets what the first    *)
(* left behind.                                                            *)
EXTENDS PictureQueue
=============================================================================
