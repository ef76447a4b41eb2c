---------------------------- MODULE MCPublication ----------------------------
(* An instance of Publication for TLC: an existing file, written twice, and *)
(* a new one.                                                               *)
EXTENDS Publication, TLC

CONSTANTS old, new1, new2, outside, edited, created, check

MCPaths == {edited, created}
MCOriginal == (edited :> old) @@ (created :> Missing)
MCWritesOf == (edited :> {new1}) @@ (created :> {new1})
=============================================================================
