-------------------------------- MODULE MCRound --------------------------------
(* Round on small instances: two investigators, the lead first. *)
EXTENDS Round

CONSTANTS lead, second

MCOrder == <<lead, second>>
================================================================================
