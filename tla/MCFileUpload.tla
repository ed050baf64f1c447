---------------------------- MODULE MCFileUpload ----------------------------
(* FileUpload for TLC: files of two chunks, the registered one and one that  *)
(* differs in its second chunk.                                              *)
EXTENDS FileUpload
Registered == <<"a", "b">>
TwoSources == {<<"a", "b">>, <<"a", "x">>}
=============================================================================
