---------------------------- MODULE MCTranscript ----------------------------
(* Tails of three units over lines of one or two: tails that begin at, in   *)
(* and behind a line, and a use that is left behind by its result.          *)
EXTENDS Transcript

MCSizes == [text |-> {1, 2}, use |-> {1}, result |-> {1}, none |-> {2}]
=============================================================================
