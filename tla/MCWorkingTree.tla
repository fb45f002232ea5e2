---------------------------- MODULE MCWorkingTree ----------------------------
(* A small baseline for WorkingTree: d/e/f and a free name n.                  *)
EXTENDS WorkingTree

MCPaths == {<<".git">>, <<"d">>, <<"d", "e">>, <<"d", "e", "f">>,
            <<"n">>, <<"n", "e">>, <<"n", "e", "f">>}
MCGitfile == <<".git">>
MCDirs    == {<<"d">>, <<"d", "e">>}
MCFiles   == {<<"d", "e", "f">>}
MCLinks   == {}
MCContents == {<<"new">>}
=============================================================================
