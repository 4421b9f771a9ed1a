----------------------------- MODULE MCRedactor -----------------------------
(* TLC instance of StreamingRedactor: every stream of up to MaxInput bytes   *)
(* over two letters, cut into chunks in every way; secrets that contain,     *)
(* overlap and repeat one another.                                           *)
EXTENDS StreamingRedactor

MCPatterns == {<<"a", "b">>, <<"a", "b", "a">>, <<"b", "b">>}
MCRedaction == <<"[", "]">>

\* The hypothesis under which NoSecretInOutput is proved holds here.
ASSUME ApartFromRedaction
=============================================================================
