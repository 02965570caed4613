----------------------------- MODULE MC_FlarmLink -----------------------------
(* Payloads of up to two bytes, with and without escapes and one longer than *)
(* the frame buffer; text whose last byte happens to be the STARTFRAME 's'.  *)
(* Every cut of the stream into read() results is tried.                     *)
EXTENDS FlarmLink

SomePayloads == {<<>>, <<Plain>>, <<Escape>>, <<Plain, Start>>, <<Plain, Plain, Plain>>}
SomeChatter  == {<<>>, <<Plain, Start>>}
=============================================================================
