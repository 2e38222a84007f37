----------------------------- MODULE RpcPromise -----------------------------
(***************************************************************************)
(* What GatewayChannel.DoRPC promises to its callers, without the broker,  *)
(* the reader goroutine or the table of pending calls.  A call returns     *)
(* once.  It returns the gateway's answer to that very call, or a timeout, *)
(* or a write error before anything was sent; it returns neither a message *)
(* nor an error only when the channel is being closed.                     *)
(***************************************************************************)

CONSTANTS Calls,  \* executions of DoRPC, each with its own correlation id
          Nil     \* Go's nil pointer

VARIABLES phase,     \* "idle", "active" or "returned", for each call
          answered,  \* the calls the gateway has published an answer to
          stopping,  \* GatewayChannel.Close has begun
          response,  \* the message a call returned
          err        \* the error a call returned

vars == <<phase, answered, stopping, response, err>>

Init ==
    /\ phase = [c \in Calls |-> "idle"]
    /\ answered = {}
    /\ stopping = FALSE
    /\ response = [c \in Calls |-> Nil]
    /\ err = [c \in Calls |-> "nil"]

Invoke(c) ==
    /\ phase[c] = "idle"
    /\ phase' = [phase EXCEPT ![c] = "active"]
    /\ UNCHANGED <<answered, stopping, response, err>>

Refuse(c) ==
    /\ phase[c] = "idle"
    /\ phase' = [phase EXCEPT ![c] = "returned"]
    /\ err' = [err EXCEPT ![c] = "write"]
    /\ UNCHANGED <<answered, stopping, response>>

Answer(c) ==
    /\ phase[c] # "idle"
    /\ answered' = answered \cup {c}
    /\ UNCHANGED <<phase, stopping, response, err>>

Stop ==
    /\ stopping' = TRUE
    /\ UNCHANGED <<phase, answered, response, err>>

Return(c) ==
    /\ phase[c] = "active"
    /\ phase' = [phase EXCEPT ![c] = "returned"]
    /\ \/ /\ c \in answered
          /\ response' = [response EXCEPT ![c] = c]
          /\ UNCHANGED err
       \/ /\ err' = [err EXCEPT ![c] = "timeout"]
          /\ UNCHANGED response
       \/ /\ stopping
          /\ UNCHANGED <<response, err>>
    /\ UNCHANGED <<answered, stopping>>

Next ==
    \/ \E c \in Calls : Invoke(c) \/ Refuse(c) \/ Answer(c) \/ Return(c)
    \/ Stop

Spec == Init /\ [][Next]_vars

=============================================================================
