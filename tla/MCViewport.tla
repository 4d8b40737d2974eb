----------------------------- MODULE MCViewport -----------------------------
(* Viewport on a small instance. *)
EXTENDS Viewport

(* A place in the text, one in its last line, and one that no text has. *)
SomePlaces == {<<1, 2>>, <<2, 1>>, <<9, 9>>}

=============================================================================
