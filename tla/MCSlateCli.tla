----------------------------- MODULE MCSlateCli -----------------------------
(* Lines an SSE server sends: an event, the empty line after it, a data     *)
(* line without payload and an event with blanks and a carriage return.     *)
EXTENDS SlateCli

MCEmitted == <<
  <<"da", "ta:", "x", NL>>,
  <<NL>>,
  <<"da", "ta:", CR, NL>>,
  <<"da", "ta:", "space", "y", "space", CR, NL>>>>
=============================================================================
