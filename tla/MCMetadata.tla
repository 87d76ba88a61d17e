----------------------------- MODULE MCMetadata -----------------------------
(* Instances of MetadataClient for TLC.                                    *)
EXTENDS MetadataClient

CONSTANTS c1, c2, c3

MCUrlOf  == [c \in {c1, c2, c3} |-> "u1"]
MCPathOf == [u \in {"u1", "u2"} |-> "p"]
=============================================================================
