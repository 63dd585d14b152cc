------------------------------ MODULE MCJsonScan ------------------------------
(* A key of one letter, strings that hold it, another, or an escaped quote *)
(* and the key; a number, and a word that is not a value.                  *)
EXTENDS JsonScan

MCStrings == {<<Q, "k", Q>>, <<Q, "j", Q>>, <<Q, Backslash, Q, "k", Q>>}
MCScalars == {<<"1">>, <<"nul">>}
MCMalformed == {<<"nul">>}
MCKey == <<"k">>
=============================================================================
