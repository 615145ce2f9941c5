------------------------------- MODULE MCTextBuf -------------------------------
(* Model checking instance of TextBuf: letters, a two byte character and    *)
(* line breaks.                                                             *)
EXTENDS TextBuf
MCLoads == {<<Lead, Cont, Break>>}
MCInserts == {<<>>, <<Letter>>, <<Break>>, <<Lead, Cont>>}
================================================================================
