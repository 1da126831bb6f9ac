------------------------------ MODULE Gateway -------------------------------
(***************************************************************************)
(* The connections a daemon makes to its OpenClaw gateway: connectGateway  *)
(* (agent/gateway.ts) and what may become of the promise it returns.       *)
(***************************************************************************)
CONSTANT Sockets

VARIABLE sock   \* sock[s]: how far the s-th call of connectGateway has come

Waiting == {"dialling", "challenged"}     \* the promise is not settled yet
Phase   == {"unused", "silent", "open", "closing", "gone"} \cup Waiting

GatewayInit == sock = [s \in Sockets |-> "unused"]

To(s, phase) == sock' = [sock EXCEPT ![s] = phase]

Dial(s) == sock[s] = "unused" /\ To(s, "dialling")

\* connect.challenge: the signed connect request is sent and is pending.
Challenge(s) == sock[s] = "dialling" /\ To(s, "challenged")

\* hello-ok: the promise resolves.
HelloOk(s) == sock[s] = "challenged" /\ To(s, "open")

\* connectTimeout; the error event; the gateway's refusal; the close of a socket whose
\* connect request is pending.
Rejects(s) == sock[s] \in Waiting /\ To(s, "gone")

\* The close of a socket that was never challenged clears the timeout and finds nothing
\* pending: the promise is never settled.
SilentClose(s) == sock[s] = "dialling" /\ To(s, "silent")

\* An open connection begins to close (readyState), and its close event.
Closing(s)    == sock[s] = "open" /\ To(s, "closing")
CloseEvent(s) == sock[s] = "closing" /\ To(s, "gone")
=============================================================================
