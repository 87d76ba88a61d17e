------------------------------- MODULE Vinyl -------------------------------
(***************************************************************************)
(* Sides and positions of a record: crates/types/src/vinyl.rs.             *)
(*                                                                         *)
(* A side is its index, 0 for A, 25 for Z; a letter is its place in the    *)
(* alphabet, counted the same way, so from_letter and letter are the       *)
(* identity on what they accept.  NoSide stands for None.                  *)
(***************************************************************************)
EXTENDS Integers, Sequences

SidesPerDisc == 2
MaxSides     == 26
NoSide       == -1

Side == 0 .. MaxSides - 1

FromIndex(index) == IF index < MaxSides THEN index ELSE NoSide

Disc(side) == side \div SidesPerDisc + 1

Faces == {"first", "second"}
Face(side) == IF side % SidesPerDisc = 0 THEN "first" ELSE "second"

(* on_disc: None for disc 0 and past side Z.                               *)
OnDisc(disc, face) ==
  IF disc = 0 THEN NoSide
  ELSE FromIndex((disc - 1) * SidesPerDisc + IF face = "first" THEN 0 ELSE 1)

NextSide(side) == FromIndex(side + 1)

(* for_discs: two sides a disc, twenty-six at most.                        *)
ForDiscs(discs) ==
  [i \in 1 .. (IF discs * SidesPerDisc < MaxSides
               THEN discs * SidesPerDisc ELSE MaxSides) |-> i - 1]

Position(side, number) == [side |-> side, number |-> number]
=============================================================================
