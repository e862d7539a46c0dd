----------------------------- MODULE MCS2Parser -----------------------------
(***************************************************************************)
(* A pole, a latitude and an infinity would make four points and more; two *)
(* numbers make the same cases: two pairs with one point, a pair with a    *)
(* NaN for its point, and one with a point of its own.                     *)
(***************************************************************************)
EXTENDS S2Parser

CONSTANTS near, far, pole, place, nan

MCNumbers == {near, far}

MCValidLatLngs == (MCNumbers \X MCNumbers) \ {<<far, near>>}

MCS2Points == {pole, place, nan}

MCNaNPoints == {nan}

MCToPoint ==
  [p \in MCNumbers \X MCNumbers |->
     IF p = <<far, near>> THEN nan ELSE IF p = <<near, near>> THEN place ELSE pole]
=============================================================================
