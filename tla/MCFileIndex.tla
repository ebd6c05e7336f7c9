----------------------------- MODULE MCFileIndex ------------------------------
(***************************************************************************)
(* FileIndex on two files and two or three words.  Two files are needed    *)
(* for a row to keep one file when it loses the other; two words for a     *)
(* FILE2KEYWORD row that keeps a half of them, three for a word to survive *)
(* in it.                                                                  *)
(***************************************************************************)
EXTENDS FileIndex
===============================================================================
