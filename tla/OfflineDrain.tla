---------------------------- MODULE OfflineDrain ----------------------------
(***************************************************************************)
(* The offline buffer of a Chain and the coroutines that drain it,         *)
(* arclasp/chain.py: _buffer_event, _drain_buffer_to_backend,              *)
(* _drain_offline_buffer, and the drain wait of _complete.                 *)
(*                                                                         *)
(* Nothing public starts these helpers any more.  Who does is taken from   *)
(* their comments and tests: tasks of the chain buffer events, take it     *)
(* offline and start drains while it is open, one drain at a time.         *)
(***************************************************************************)
EXTENDS Naturals, Sequences, Functions

CONSTANTS
  Events,     \* the events that may be buffered, each once
  MaxEvents,  \* offline_buffer_max_events
  None        \* no event

ASSUME DrainAssumption == MaxEvents \in Nat \ {0} /\ None \notin Events

VARIABLES
  buffer,     \* _offline_buffer, the oldest event first
  offline,    \* _offline
  drain,      \* the coroutine of _drain_task, "idle" when it is done
  sending,    \* the event of the drain's outstanding _post
  owner,      \* where _complete is
  arrivals,   \* ghost: the events that were buffered, in order
  evicted,    \* ghost: those _buffer_event dropped
  discarded,  \* ghost: those the drain was told can never succeed
  instead,    \* ghost: <<e, f>>: the answer for e took f off the buffer
  inFlight,   \* events with an attempt under way, perhaps a late one
  ledger      \* the events the backend recorded, in order

drainVars == <<buffer, offline, drain, sending, owner, arrivals, evicted, discarded,
               instead, inFlight, ledger>>

Drains == {"idle", "fast", "offline", "asleep"}
Owners == {"open", "waiting", "completing", "closed"}

Init ==
  /\ buffer = << >>
  /\ offline = FALSE
  /\ drain = "idle"
  /\ sending = None
  /\ owner = "open"
  /\ arrivals = << >>
  /\ evicted = {}
  /\ discarded = {}
  /\ instead = {}
  /\ inFlight = {}
  /\ ledger = << >>

-----------------------------------------------------------------------------
(* The tasks of the chain. *)

(* Mutant: one event too many. *)
BufferEventLate(e) ==
  IF Len(buffer) > MaxEvents
    THEN buffer' = Append(Tail(buffer), e) /\ evicted' = evicted \cup {Head(buffer)}
    ELSE buffer' = Append(buffer, e) /\ evicted' = evicted

(* _buffer_event: a full buffer drops its oldest event. *)
BufferEvent(e) ==
  IF Len(buffer) >= MaxEvents
    THEN buffer' = Append(Tail(buffer), e) /\ evicted' = evicted \cup {Head(buffer)}
    ELSE buffer' = Append(buffer, e) /\ evicted' = evicted

Buffer(e) ==
  /\ owner # "closed"
  /\ e \notin Range(arrivals)
  /\ BufferEvent(e)
  /\ arrivals' = Append(arrivals, e)
  /\ UNCHANGED <<offline, drain, sending, owner, discarded, instead, inFlight, ledger>>

GoOffline ==
  /\ owner = "open"
  /\ ~offline
  /\ offline' = TRUE
  /\ UNCHANGED <<buffer, drain, sending, owner, arrivals, evicted, discarded, instead,
                 inFlight, ledger>>

(* The drain sends the oldest event of b. *)
Send(b) ==
  /\ sending' = Head(b)
  /\ inFlight' = inFlight \cup {Head(b)}

(* Both coroutines return at once if there is nothing to send; the fast    *)
(* one is for a chain that is online, the other for one that is not.       *)
StartDrain ==
  /\ owner = "open"
  /\ drain = "idle"
  /\ buffer # << >>
  /\ drain' = IF offline THEN "offline" ELSE "fast"
  /\ Send(buffer)
  /\ UNCHANGED <<buffer, offline, owner, arrivals, evicted, discarded, instead, ledger>>

-----------------------------------------------------------------------------
(* The drain.  Its code between two awaits is one step: the answer for one *)
(* event, pop(0), and the next event's _post.                              *)

Posting == drain \in {"fast", "offline"}

EndDrain == drain' = "idle" /\ sending' = None /\ UNCHANGED inFlight

(* After pop(0).  The offline drain ends by taking the chain online again. *)
Continue ==
  LET rest == Tail(buffer)
  IN  /\ buffer' = rest
      /\ instead' = instead \cup {<<sending, Head(buffer)>>}
      /\ IF rest = << >>
           THEN EndDrain /\ offline' = (offline /\ drain = "fast")
           ELSE Send(rest) /\ UNCHANGED <<drain, offline>>

Sent ==
  /\ Posting
  /\ sending \in Range(ledger)
  /\ Continue
  /\ UNCHANGED <<owner, arrivals, evicted, discarded, ledger>>

(* 400, 401, 403, 404, 422: the offline drain drops the event and goes on. *)
Discard ==
  /\ drain = "offline"
  /\ discarded' = discarded \cup {sending}
  /\ Continue
  /\ UNCHANGED <<owner, arrivals, evicted, ledger>>

(* Mutant: a failed event is dropped like a discarded one. *)
FailedGoesOn ==
  /\ Posting
  /\ Continue
  /\ UNCHANGED <<owner, arrivals, evicted, discarded, ledger>>

(* Mutant: a failed event goes to the end of the buffer. *)
FailedRequeues ==
  /\ Posting
  /\ buffer' = Append(Tail(buffer), Head(buffer))
  /\ drain' = IF drain = "fast" THEN "idle" ELSE "asleep"
  /\ sending' = None
  /\ UNCHANGED <<offline, owner, arrivals, evicted, discarded, instead, inFlight, ledger>>

(* Mutant: the offline drain gives up after a failure. *)
FailedGivesUp ==
  /\ Posting
  /\ drain' = "idle"
  /\ sending' = None
  /\ UNCHANGED <<buffer, offline, owner, arrivals, evicted, discarded, instead, inFlight,
                 ledger>>

(* Mutant: and takes the chain online. *)
FailedRecovers ==
  /\ Posting
  /\ drain' = "idle"
  /\ sending' = None
  /\ offline' = FALSE
  /\ UNCHANGED <<buffer, owner, arrivals, evicted, discarded, instead, inFlight, ledger>>

(* Any other failure, the 409 of a paused or closed chain among them: the  *)
(* event stays, the fast drain ends and the offline one sleeps.            *)
Failed ==
  /\ Posting
  /\ drain' = IF drain = "fast" THEN "idle" ELSE "asleep"
  /\ sending' = None
  /\ UNCHANGED <<buffer, offline, owner, arrivals, evicted, discarded, instead, inFlight,
                 ledger>>

(* After 30 seconds. *)
Wake ==
  /\ drain = "asleep"
  /\ drain' = "offline"
  /\ Send(buffer)
  /\ UNCHANGED <<buffer, offline, owner, arrivals, evicted, discarded, instead, ledger>>

-----------------------------------------------------------------------------
(* _complete. *)

(* A chain that is offline is not completed and its drain is cancelled; of *)
(* one that is online a running drain is waited for.                       *)
Complete ==
  /\ owner = "open"
  /\ IF offline
       THEN owner' = "closed" /\ EndDrain
       ELSE /\ owner' = IF drain = "idle" THEN "completing" ELSE "waiting"
            /\ UNCHANGED <<drain, sending, inFlight>>
  /\ UNCHANGED <<buffer, offline, arrivals, evicted, discarded, instead, ledger>>

DrainEnded ==
  /\ owner = "waiting"
  /\ drain = "idle"
  /\ owner' = "completing"
  /\ UNCHANGED <<buffer, offline, drain, sending, arrivals, evicted, discarded, instead,
                 inFlight, ledger>>

(* Mutant: the drain is left running. *)
WaitTimesOutOnly ==
  /\ owner = "waiting"
  /\ owner' = "completing"
  /\ UNCHANGED <<buffer, offline, drain, sending, arrivals, evicted, discarded, instead,
                 inFlight, ledger>>

(* wait_for cancels the drain it gives up on. *)
WaitTimesOut ==
  /\ owner = "waiting"
  /\ drain # "idle"
  /\ owner' = "completing"
  /\ EndDrain
  /\ UNCHANGED <<buffer, offline, arrivals, evicted, discarded, instead, ledger>>

(* The completion is confirmed or fails. *)
Completed ==
  /\ owner = "completing"
  /\ owner' = "closed"
  /\ UNCHANGED <<buffer, offline, drain, sending, arrivals, evicted, discarded, instead,
                 inFlight, ledger>>

-----------------------------------------------------------------------------
(* The backend records an event the first time it gets its key.  An        *)
(* attempt the client has given up on may arrive at any later time.        *)
Record(e) ==
  /\ e \in inFlight
  /\ e \notin Range(ledger)
  /\ ledger' = Append(ledger, e)
  /\ UNCHANGED <<buffer, offline, drain, sending, owner, arrivals, evicted, discarded,
                 instead, inFlight>>

DrainStep == Sent \/ Discard \/ Failed \/ Wake
OwnerStep == DrainEnded \/ WaitTimesOut \/ Completed
TaskStep == (\E e \in Events : Buffer(e)) \/ GoOffline \/ StartDrain \/ Complete

Next == TaskStep \/ DrainStep \/ OwnerStep \/ \E e \in Events : Record(e)

Spec == Init /\ [][Next]_drainVars

(* The loop resumes a coroutine whose answer, sleep or timeout is due.     *)
Fairness == WF_drainVars(OwnerStep) /\ WF_drainVars(Wake)

(* The backend is back: again and again it takes what it is sent.          *)
Recovery ==
  /\ SF_drainVars(Sent)
  /\ \A e \in Events : WF_drainVars(Record(e))

FairSpec == Spec /\ Fairness

-----------------------------------------------------------------------------
(* Properties. *)

DrainTypeOK ==
  /\ buffer \in Seq(Events) /\ Len(buffer) <= MaxEvents
  /\ offline \in BOOLEAN
  /\ drain \in Drains
  /\ sending \in IF Posting THEN Events ELSE {None}
  /\ owner \in Owners
  /\ arrivals \in Seq(Events)
  /\ evicted \subseteq Events
  /\ discarded \subseteq Events
  /\ instead \subseteq Events \X Events
  /\ inFlight \subseteq Events
  /\ ledger \in Seq(Events)

Recorded == Range(ledger)
Settled == Recorded \cup discarded

(* Buffered, and neither kept, recorded, reported as discarded nor as      *)
(* dropped.                                                                *)
Lost == Range(arrivals) \ (Range(buffer) \cup Settled \cup evicted)

(* Only eviction loses events, and no more than it drops: an event that    *)
(* vanishes unsent was taken off in the name of one that the buffer        *)
(* dropped while it was being sent, and whose sending then settled it.     *)
LossIsPaidFor ==
  \A f \in Lost :
    \E e \in evicted \cap Settled :
      /\ <<e, f>> \in instead
      /\ \A g \in Events : <<e, g>> \in instead => g = f

(* What was neither dropped nor discarded is recorded in the order of its  *)
(* arrival: nothing is sent past an event that failed ("so we don't        *)
(* interleave partial sends with later events", chain.py:833).             *)
Regular(e) == e \notin evicted \cup discarded

Before(s, e, f) == \E i, j \in DOMAIN s : i < j /\ s[i] = e /\ s[j] = f

OrderKept ==
  \A e, f \in Recorded :
    Regular(e) /\ Regular(f) /\ Before(ledger, e, f) => Before(arrivals, e, f)

(* The drain takes the chain online only when it is through with the      *)
(* buffer ("when all buffered events are successfully sent", chain.py:867, *)
(* but for the discarded), and then, unless some were dropped, none is     *)
(* missing.                                                                *)
OnlineWhenDrained ==
  [][offline /\ ~offline' =>
       /\ buffer' = << >>
       /\ evicted = {} => Range(arrivals) \subseteq Settled']_drainVars

(* The completion is sent when the drain has ended or was cancelled: it    *)
(* sends nothing next to it.  An attempt that it was cancelled in may      *)
(* still be under way, and be recorded beside the completion.              *)
QuietCompletion == owner \in {"completing", "closed"} => ~Posting /\ drain # "asleep"

(* If the backend comes back, so does the chain: the offline drain is      *)
(* through with the buffer, unless the chain is closed before.             *)
DrainRecovers ==
  Recovery =>
    (offline /\ drain \in {"offline", "asleep"} ~> ~offline \/ owner = "closed")

=============================================================================
