------------------------------ MODULE Transport ------------------------------
(***************************************************************************)
(* The HTTP transport of the SDK: _retry_with_backoff, _post and _get of   *)
(* arclasp/client.py.  Each caller has at most one call outstanding; a     *)
(* call sends up to MaxRetries + 1 attempts, and settles with the reply of *)
(* one of them or with a failure.                                          *)
(*                                                                         *)
(* An attempt the client gave up on (a timeout, a broken connection, a 5xx *)
(* or 429 answered by a gateway) may still be on its way to the backend:   *)
(* it stays in net and can be handled at any later time, also after the    *)
(* next attempts and after the call has settled.  A request that is never  *)
(* handled is a lost one.  The delay between two attempts (the backoff and *)
(* the Retry-After header) is not modelled: net delays every request by    *)
(* any amount already.                                                     *)
(***************************************************************************)
EXTENDS Naturals

CONSTANTS
  Callers,     \* the tasks that issue calls
  Ops,         \* the endpoints
  ReadOnly,    \* the endpoints of Ops that change nothing on the backend
  Replies,     \* what the backend may answer
  NoReply,     \* not a reply
  MaxRetries   \* ChainConfig.max_retries

VARIABLES
  net,     \* requests sent and not handled (yet)
  call,    \* the call each caller has outstanding
  reply    \* the reply that has arrived for the caller's latest attempt

Attempts == 1 .. MaxRetries + 1

Requests == [from : Callers, op : Ops, n : Attempts]

NoOp == "no_call"

Idle == [op |-> NoOp, n |-> 0]

TransportTypeOK ==
  /\ net \subseteq Requests
  /\ call \in [Callers -> [op : Ops, n : Attempts] \cup {Idle}]
  /\ reply \in [Callers -> Replies \cup {NoReply}]

TransportInit ==
  /\ net = {}
  /\ call = [c \in Callers |-> Idle]
  /\ reply = [c \in Callers |-> NoReply]

-----------------------------------------------------------------------------
(* How an attempt can fail, and which failures are retried. *)

Failures == {"timeout", "network_error", "http_5xx", "http_429",
             "http_4xx", "protocol_error", "undecodable"}

Retryable(f) == f \in {"timeout", "network_error", "http_5xx", "http_429"}

(* What settles the call: a retryable failure of the last attempt is the   *)
(* BackendUnavailableError of _handle_backend_failure, any other failure   *)
(* is raised as it is.                                                     *)
CallError(f) == IF Retryable(f) THEN "unavailable" ELSE "error"

Waiting(c) == call[c].n > 0

HasReply(c) == reply[c] # NoReply

Request(c) == [from |-> c, op |-> call[c].op, n |-> call[c].n]

(* Requests a new attempt or the end of c's call leaves on the way: reads  *)
(* have no effect that anybody waits for, so they are dropped here.        *)
LeftBehind(c) == {m \in net : m.from # c \/ m.op \notin ReadOnly}

-----------------------------------------------------------------------------
(* The client's side of a call. *)

BeginCall(c, o) ==
  /\ call' = [call EXCEPT ![c] = [op |-> o, n |-> 1]]
  /\ net' = net \cup {[from |-> c, op |-> o, n |-> 1]}
  /\ UNCHANGED reply

(* Mutant: one retry too many. *)
CanRetryOnceMore(c, f) == Retryable(f) /\ call[c].n <= MaxRetries + 1

CanRetry(c, f) == Retryable(f) /\ call[c].n <= MaxRetries

NextAttempt(c) == [op |-> call[c].op, n |-> call[c].n + 1]

(* The attempt failed and another one is due. *)
Resend(c) ==
  /\ call' = [call EXCEPT ![c] = NextAttempt(c)]
  /\ net' = LeftBehind(c) \cup
             {[from |-> c, op |-> call[c].op, n |-> call[c].n + 1]}
  /\ reply' = [reply EXCEPT ![c] = NoReply]

(* The call is over: by its reply, by a failure or by cancellation. *)
EndCall(c) ==
  /\ call' = [call EXCEPT ![c] = Idle]
  /\ net' = LeftBehind(c)
  /\ reply' = [reply EXCEPT ![c] = NoReply]

-----------------------------------------------------------------------------
(* The backend's side: request m has been handled and answered with r.     *)
(* Nobody reads the answer to an attempt the client gave up on.            *)
Answer(m, r) ==
  /\ net' = net \ {m}
  /\ reply' = IF m = Request(m.from) /\ ~HasReply(m.from)
                THEN [reply EXCEPT ![m.from] = r]
                ELSE reply
  /\ UNCHANGED call

=============================================================================
