--------------------------- MODULE DmBodyPromise ---------------------------
(***************************************************************************)
(* What the body pipeline promises a reader of a conversation: a sent body *)
(* becomes available, stays available, and only a recall withdraws it.     *)
(***************************************************************************)
CONSTANT Msg

VARIABLE body

PromiseInit == body = [m \in Msg |-> "unsent"]

Send(m) == body[m] = "unsent" /\ body' = [body EXCEPT ![m] = "pending"]

Store(m) == body[m] = "pending" /\ body' = [body EXCEPT ![m] = "stored"]

Recall(m) ==
    body[m] \in {"pending", "stored"} /\ body' = [body EXCEPT ![m] = "recalled"]

PromiseNext == \E m \in Msg : Send(m) \/ Store(m) \/ Recall(m)

PromiseSpec ==
    /\ PromiseInit /\ [][PromiseNext]_body
    /\ \A m \in Msg : WF_body(Store(m))

=============================================================================
