------------------------------ MODULE MCMessagePath ------------------------------
(* MessagePath with short patterns and texts, for TLC.                     *)
EXTENDS MessagePath

CONSTANT MaxPattern

ShortDefault == <<"%", "l", "%", "#", " ", "%", "v">>
ShortPatterns == SeqOf({"%", "+", "v", "x"}, MaxPattern)
SomeParts == {<<"%">>, <<"v", "a", "a">>}
===============================================================================
