---- MODULE MCLiveFeed ----
(* The live feed of one market. *)
EXTENDS LiveFeed, TLC

CONSTANTS a, s1

MCBatch == s1 :> <<a>>
=============================
