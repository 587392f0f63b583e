--------------------------- MODULE MCFileSelector ---------------------------
(* Three lines, at most five files in a list: lists that are empty, have a *)
(* single file, fit the screen, exceed it, or fill media_file_list.        *)
EXTENDS FileSelector
=============================================================================
