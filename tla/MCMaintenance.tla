--------------------------- MODULE MCMaintenance ---------------------------
(* An object of the worker's bureau and one of another, a file that is no   *)
(* object and a directory below the shards.                                 *)
EXTENDS Maintenance, TLC

MCSegments == {"own", "other", "partner", "aa", "digest", "note"}

MCKeys == {<<"own", "partner", "aa", "digest">>, <<"other", "partner", "aa", "digest">>}

MCStrays ==
    (<<"note">> :> "file") @@ (<<"own", "partner", "aa", "note">> :> "dir")
============================================================================
