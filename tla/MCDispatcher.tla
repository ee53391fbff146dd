---------------------------- MODULE MCDispatcher ----------------------------
(***************************************************************************)
(* Two services for TLC, subscribed to the same two messages: x, of low    *)
(* priority and for everybody, and y, of high priority and for one         *)
(* process, so that a full queue now evicts and now refuses.               *)
(***************************************************************************)
EXTENDS Dispatcher, TLC

CONSTANTS a, b

MCServices == <<a, b>>
MCPublished == a :> {"x"} @@ b :> {"y"}
MCSubscribed == [s \in {a, b} |-> {"x", "y"}]
MCKinds == {[mid |-> "x", toAll |-> TRUE, prio |-> LOW],
            [mid |-> "y", toAll |-> FALSE, prio |-> HIGH]}
=============================================================================
