--------------------------- MODULE JammedPayloads ---------------------------
(* What a poke carries in a jammed atom: a noun, or an atom that cue cannot   *)
(* decode.  The grafts cue it under mule, so that the second is an error.     *)

CONSTANTS Nouns, Malformed

ASSUME PayloadsAssumption == Malformed \notin Nouns

JammedAtoms == Nouns \cup {Malformed}

=============================================================================
