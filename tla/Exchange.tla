------------------------------ MODULE Exchange ------------------------------
(***************************************************************************)
(* What an HTTP/2 connection promises its two applications about the       *)
(* requests of the client: a request is answered in full before the client *)
(* sees it closed without an error, and a request the client sees refused  *)
(* has not been and will not be answered.                                  *)
(***************************************************************************)
EXTENDS Naturals

CONSTANT Ids   \* the stream ids requests may get

VARIABLES client,   \* what the client's application knows of a request
          begun,    \* requests the server's application was told of
          ended     \* requests whose response went out in full

vars == <<client, begun, ended>>

Outcomes == {"none", "pending", "done", "refused", "failed"}

\* A request may have been made before, by the HTTP/1.1 Upgrade.
Init ==
  /\ client \in [Ids -> {"none", "pending"}]
  /\ begun \subseteq {i \in Ids : client[i] = "pending"} /\ ended = {}

\* A request may be told to the server until the client has seen it refused.
Begin(i) == client[i] \in {"pending", "failed"} /\ i \in begun' \ begun
End(i) == i \in begun /\ client[i] # "refused" /\ i \in ended' \ ended

\* A request may turn out not to be sendable in the step that makes it.
Outcome(i) ==
  \/ client[i] = "none" /\ client'[i] \in {"pending", "failed"}
  \/ client[i] = "pending" /\ client'[i] = "done" /\ i \in ended
  \/ client[i] = "pending" /\ client'[i] = "refused" /\ i \notin ended
  \/ client[i] = "pending" /\ client'[i] = "failed"

Next ==
  /\ client' \in [Ids -> Outcomes]
  /\ begun \subseteq begun' /\ \A i \in begun' \ begun : Begin(i)
  /\ ended \subseteq ended' /\ \A i \in ended' \ ended : End(i)
  /\ \A i \in Ids : client'[i] = client[i] \/ Outcome(i)

Spec == Init /\ [][Next]_vars
=============================================================================
