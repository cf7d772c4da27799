-------------------------- MODULE MCResourceLifetime --------------------------
(* Main makes a mesh and a texture, the loader a mesh, a texture and another *)
(* mesh. Both ask for the texture k1; the loader, when it lost the race or    *)
(* without having tried, for k2. So there are three slots at most. Pages of   *)
(* 10 bytes and vertices of 3: a page holds three vertices and a byte is left *)
(* over, as 32 MiB is no multiple of the vertex size; an index page holds 9   *)
(* indices. In the orders of the three meshes a page is filled exactly, is    *)
(* too short for the next mesh, is used again later, and one mesh's indices   *)
(* exceed a page.                                                             *)
EXTENDS ResourceLifetime, TLC

CONSTANTS k1, k2

MCKeys == (Main :> {k1}) @@ (Loader :> {k1, k2})

MCTextures == {<<Main, 2>>, <<Loader, 2>>}

MCMeshes == {<<Main, 1>>, <<Loader, 1>>, <<Loader, 3>>}

MCShape == (<<Main, 1>> :> <<2, 6>>) @@ (<<Loader, 1>> :> <<1, 3>>)
           @@ (<<Loader, 3>> :> <<2, 12>>)

MCMeshShapes == {<<2, 6>>, <<1, 3>>, <<2, 12>>}
=============================================================================
