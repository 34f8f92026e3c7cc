----------------------------- MODULE MCRecording -----------------------------
(* Recording for the model checker: its handlers are model values.           *)
EXTENDS Recording

CONSTANTS h1, h2

TwoHandlers == {h1, h2}
=============================================================================
