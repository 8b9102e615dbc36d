--------------------------- MODULE MCReplayIndex ---------------------------
(* Bounds for model checking ReplayIndex: pages from the first frame, from *)
(* the second and from the end.                                            *)
EXTENDS ReplayIndex

SomePages == {<<0, 2>>, <<1, 1>>, <<-1, 1>>}
=============================================================================
