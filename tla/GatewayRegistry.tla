--------------------------- MODULE GatewayRegistry ---------------------------
(***************************************************************************)
(* What the Manager promises about the channels of gateways, without the   *)
(* event queue and the processor.  A gateway has one channel at most.      *)
(* Each is built for a gateway that joined, and for no more than one each  *)
(* time.  It is closed only when its gateway has left, even if it has come *)
(* back since, or when the server stops or has lost its connection.  The   *)
(* channel that is listed under a gateway is never replaced by another:    *)
(* it is open when it is listed, and is unlisted only when it is closed.   *)
(***************************************************************************)
EXTENDS Naturals

CONSTANT Gateways \* the gateways that may connect

VARIABLES online,   \* gateways that are connected and were seen to join
          joins,    \* how often each joined without a channel built for it
          served,   \* gateways with an open channel
          listed,   \* gateways whose channel can be found
          up,       \* the connection to the broker is open
          stopping  \* the server was told to stop

vars == <<online, joins, served, listed, up, stopping>>

Init ==
    /\ online = {}
    /\ joins = [g \in Gateways |-> 0]
    /\ served = {}
    /\ listed = {}
    /\ up = TRUE
    /\ stopping = FALSE

Join(g) ==
    /\ up /\ g \notin online
    /\ online' = online \cup {g}
    /\ joins' = [joins EXCEPT ![g] = @ + 1]
    /\ UNCHANGED <<served, listed, up, stopping>>

Leave(g) ==
    /\ online' = online \ {g}
    /\ UNCHANGED <<joins, served, listed, up, stopping>>

Open(g) ==
    /\ up /\ g \notin served \cup listed /\ joins[g] > 0
    /\ joins' = [joins EXCEPT ![g] = @ - 1]
    /\ served' = served \cup {g}
    /\ UNCHANGED <<online, listed, up, stopping>>

List(g) ==
    /\ g \in served \ listed
    /\ listed' = listed \cup {g}
    /\ UNCHANGED <<online, joins, served, up, stopping>>

Close(g) ==
    /\ g \in served \cap listed
    /\ g \notin online \/ joins[g] > 0 \/ stopping \/ ~up
    /\ served' = served \ {g}
    /\ UNCHANGED <<online, joins, listed, up, stopping>>

Unlist(g) ==
    /\ g \in listed \ served
    /\ listed' = listed \ {g}
    /\ UNCHANGED <<online, joins, served, up, stopping>>

Lose ==
    /\ up' = FALSE
    /\ UNCHANGED <<online, joins, served, listed, stopping>>

\* What was announced on a lost connection may never be heard of.
Forget ==
    /\ ~up
    /\ joins' \in [Gateways -> Nat]
    /\ \A g \in Gateways : joins'[g] <= joins[g]
    /\ UNCHANGED <<online, served, listed, up, stopping>>

Stop ==
    /\ stopping' = TRUE
    /\ UNCHANGED <<online, joins, served, listed, up>>

Next ==
    \/ \E g \in Gateways :
          Join(g) \/ Leave(g) \/ Open(g) \/ List(g) \/ Close(g) \/ Unlist(g)
    \/ Lose \/ Forget \/ Stop

Spec == Init /\ [][Next]_vars

=============================================================================
