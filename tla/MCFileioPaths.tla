--------------------------- MODULE MCFileioPaths ---------------------------
(* Model-checking instance of FileioPaths. *)
EXTENDS FileioPaths

\* The second is within the first: its parent may be missing, and it may be a
\* file by then.
MCMounts == {<<"a">>, <<"a", "b">>}

\* Plain, nested, going up and down, to the mount point, above it, absolute.
MCPaths ==
    {<<"a">>, <<"a", "b">>, <<".", "b", "", "..", "a">>, <<"a", "..">>,
     <<"..", "c">>, <<"", "b">>}

MCOthers == {<<"c">>, <<"c", "a">>}
=============================================================================
