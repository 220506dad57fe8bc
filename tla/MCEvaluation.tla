--------------------------- MODULE MCEvaluation -----------------------------
(* Lists of none, one and two entries, equal ones, and similarities that    *)
(* are closer than the tolerance.                                           *)
EXTENDS Evaluation

Lists == {<<>>, <<2>>, <<2, 3>>, <<3, 3>>}

Similarities == {<<>>, <<0>>, <<0, 4>>, <<4, 3>>}

=============================================================================
