----------------------------- MODULE MCCollect -----------------------------
(***************************************************************************)
(* Up to five containers and two workers: three of one image, one of       *)
(* another that sets no user, one with a user of its own.                  *)
(***************************************************************************)
EXTENDS Collect

MCImageOf == <<"app", "app", "app", "base", "app">>
MCConfigUser == <<"", "", "", "", "1000">>
MCImageUser == [m \in {"app", "base"} |-> IF m = "app" THEN "node" ELSE ""]
=============================================================================
