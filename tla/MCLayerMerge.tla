----------------------------- MODULE MCLayerMerge -----------------------------
(* A small instance of LayerMerge: a file of the root, and a directory with a
   name on either side of the markers. *)
EXTENDS LayerMerge

SmallPaths == {<<3>>, <<4>>, <<4, 1>>, <<4, 3>>}
TheFile == <<4, 3>>
==============================================================================
