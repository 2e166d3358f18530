------------------------------ MODULE MCTransfer ------------------------------
(* A login directory with a subdirectory, and a file of one name in both.     *)
EXTENDS Transfer

MCHome  == <<"home">>
MCDirs  == {<<>>, <<"home">>, <<"home", "sub">>}
MCFiles == {<<"home", "f">>, <<"home", "sub", "f">>}
===============================================================================
