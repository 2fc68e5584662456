---------------------------- MODULE MCInputPath ----------------------------
(***************************************************************************)
(* Three lines through buffers of a few characters.  The longer advice     *)
(* line does not fit the console buffer at once and its pid has a proper   *)
(* prefix; the typed lines use the three editing characters.  The router's *)
(* buffer overflows only when a newline was dropped and two lines joined.  *)
(***************************************************************************)
EXTENDS InputPath

MCAdviceLines == {<<"A", "1", "2">>, <<"A", "2">>}
MCKeyLines == {<<"x", "^U">>, <<"^H", "^D">>}
============================================================================
