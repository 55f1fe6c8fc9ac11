---- MODULE MCBookStream ----
(* Two markets that share one subscription, and the recorder of their stream. *)
EXTENDS WsRecorder, TLC

CONSTANTS a, b, s1

MCBatch == s1 :> <<a, b>>
Empty == [c \in Cell |-> 0]
MCRecordedFrom == {a :> [Empty EXCEPT ![<<"YES", 1>>] = 1] @@ b :> Empty}
=============================
