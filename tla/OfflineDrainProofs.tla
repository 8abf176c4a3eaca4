------------------------- MODULE OfflineDrainProofs -------------------------
(* Theorems about OfflineDrain, for any events and any size of the buffer. *)
EXTENDS OfflineDrain, FiniteSetTheorems, TLAPS

(***************************************************************************)
(* The inductive invariant.                                                *)
(***************************************************************************)

(* b holds distinct events in their order in a, and what else is in a      *)
(* comes before all of them.                                               *)
InOrder(b, a) ==
  /\ \A i, j \in DOMAIN b : b[i] = b[j] => i = j
  /\ Range(b) \subseteq Range(a)
  /\ \A i, j \in DOMAIN b : i < j => Before(a, b[i], b[j])
  /\ \A e \in Range(a) \ Range(b), f \in Range(b) : Before(a, e, f)

(* The buffer holds what arrived last, and nothing that it dropped.        *)
BufferInOrder ==
  /\ InOrder(buffer, arrivals)
  /\ evicted \subseteq Range(arrivals) \ Range(buffer)

(* Of the events in the buffer only the first can have been sent, and one  *)
(* that was sent has left the buffer settled or dropped.                   *)
OnlyTheHeadIsSent ==
  /\ Recorded \subseteq inFlight
  /\ inFlight \subseteq Range(arrivals)
  /\ \A i \in DOMAIN buffer : buffer[i] \in inFlight => i = 1
  /\ inFlight \ Range(buffer) \subseteq evicted \cup Settled

(* The drain sends the first event, unless that has been dropped under it. *)
SendingHead ==
  /\ drain # "idle" => buffer # << >>
  /\ Posting =>
       /\ sending \in inFlight
       /\ sending = Head(buffer) \/ (sending \in evicted /\ Head(buffer) \notin inFlight)

(* An event is answered once: the answer takes it, or another in its       *)
(* stead, off the buffer.                                                  *)
AnsweredOnce ==
  /\ \A e, f, g \in Events : <<e, f>> \in instead /\ <<e, g>> \in instead => f = g
  /\ \A e, f \in Events : <<e, f>> \in instead =>
       /\ e \in Range(arrivals) \ Range(buffer)
       /\ Posting => e # sending

(* Who is lost was taken off in the name of a dropped and settled event.   *)
LossIsNamed ==
  \A f \in Lost : \E e \in evicted \cap Settled : <<e, f>> \in instead

DrainInv ==
  /\ DrainTypeOK
  /\ BufferInOrder
  /\ OnlyTheHeadIsSent
  /\ SendingHead
  /\ AnsweredOnce
  /\ LossIsNamed
  /\ OrderKept

-----------------------------------------------------------------------------
(***************************************************************************)
(* Sequences of distinct elements.                                         *)
(***************************************************************************)

LEMMA TailFacts ==
  ASSUME NEW S, NEW b \in Seq(S), b # << >>
  PROVE  /\ Tail(b) \in Seq(S)
         /\ Len(Tail(b)) = Len(b) - 1
         /\ Head(b) = b[1] /\ Head(b) \in S /\ Head(b) \in Range(b)
         /\ \A i \in DOMAIN Tail(b) : i \in Nat /\ i + 1 \in DOMAIN b /\ Tail(b)[i] = b[i + 1]
         /\ Range(b) = Range(Tail(b)) \cup {Head(b)}
<1>1. /\ Len(b) \in Nat \ {0} /\ DOMAIN b = 1 .. Len(b)
      /\ Tail(b) \in Seq(S) /\ Len(Tail(b)) = Len(b) - 1
      /\ DOMAIN Tail(b) = 1 .. Len(b) - 1
      /\ \A i \in 1 .. Len(b) - 1 : Tail(b)[i] = b[i + 1]
      /\ Head(b) = b[1] /\ b[1] \in S
  OBVIOUS
<1>2. \A i \in DOMAIN b : i = 1 \/ (i - 1 \in DOMAIN Tail(b) /\ b[i] = Tail(b)[i - 1])
  BY <1>1
<1>3. \A i \in DOMAIN Tail(b) : i \in Nat /\ i + 1 \in DOMAIN b /\ Tail(b)[i] = b[i + 1]
  BY <1>1
<1>4. 1 \in DOMAIN b
  BY <1>1
<1>. QED
  BY <1>1, <1>2, <1>3, <1>4 DEF Range

LEMMA AppendFacts ==
  ASSUME NEW S, NEW b \in Seq(S), NEW x \in S
  PROVE  /\ Append(b, x) \in Seq(S)
         /\ Len(Append(b, x)) = Len(b) + 1
         /\ DOMAIN Append(b, x) = DOMAIN b \cup {Len(b) + 1}
         /\ \A i \in DOMAIN b : Append(b, x)[i] = b[i] /\ i \in Nat /\ i < Len(b) + 1
         /\ Append(b, x)[Len(b) + 1] = x
         /\ Range(Append(b, x)) = Range(b) \cup {x}
<1>1. /\ Append(b, x) \in Seq(S)
      /\ Len(Append(b, x)) = Len(b) + 1
      /\ DOMAIN Append(b, x) = DOMAIN b \cup {Len(b) + 1}
      /\ \A i \in DOMAIN b : Append(b, x)[i] = b[i] /\ i \in Nat /\ i < Len(b) + 1
      /\ Append(b, x)[Len(b) + 1] = x
  OBVIOUS
<1>. QED
  BY <1>1 DEF Range

LEMMA BeforeAppend ==
  ASSUME NEW S, NEW a \in Seq(S), NEW x \in S
  PROVE  /\ \A e, f : Before(a, e, f) => Before(Append(a, x), e, f)
         /\ \A e \in Range(a) : Before(Append(a, x), e, x)
         /\ \A e, f : Before(Append(a, x), e, f) /\ f # x => Before(a, e, f)
<1>1. /\ DOMAIN Append(a, x) = DOMAIN a \cup {Len(a) + 1}
      /\ \A i \in DOMAIN a : Append(a, x)[i] = a[i] /\ i \in Nat /\ i < Len(a) + 1
      /\ Append(a, x)[Len(a) + 1] = x
      /\ Len(a) \in Nat
  BY AppendFacts
<1>2. ASSUME NEW e, NEW f, Before(Append(a, x), e, f), f # x PROVE Before(a, e, f)
  <2>1. PICK i, j \in DOMAIN Append(a, x) : /\ i < j
                                            /\ Append(a, x)[i] = e
                                            /\ Append(a, x)[j] = f
    BY <1>2 DEF Before
  <2>2. j \in DOMAIN a
    BY <1>1, <1>2, <2>1
  <2>3. i \in DOMAIN a
    BY <1>1, <2>1, <2>2
  <2>. QED
    BY <1>1, <2>1, <2>2, <2>3 DEF Before
<1>. QED
  BY <1>1, <1>2 DEF Before, Range

(* The two things that are done to a buffer keep its order. *)
LEMMA TailInOrder ==
  ASSUME NEW S, NEW b \in Seq(S), NEW a \in Seq(S), b # << >>, InOrder(b, a)
  PROVE  InOrder(Tail(b), a) /\ Range(Tail(b)) = Range(b) \ {Head(b)}
<1>1. /\ Head(b) = b[1] /\ 1 \in DOMAIN b
      /\ \A i \in DOMAIN Tail(b) : i \in Nat /\ i + 1 \in DOMAIN b /\ Tail(b)[i] = b[i + 1]
      /\ \A i \in DOMAIN Tail(b) : 1 < i + 1
      /\ Range(b) = Range(Tail(b)) \cup {Head(b)}
  <2>1. \A i \in DOMAIN Tail(b) : 1 < i + 1
    OBVIOUS
  <2>. QED
    BY <2>1, TailFacts
<1>2. Range(Tail(b)) = Range(b) \ {Head(b)}
  <2>1. \A i \in DOMAIN Tail(b) : Tail(b)[i] # Head(b)
    BY <1>1 DEF InOrder
  <2>. QED
    BY <1>1, <2>1 DEF Range
<1>3. \A i, j \in DOMAIN Tail(b) : Tail(b)[i] = Tail(b)[j] => i = j
  BY <1>1 DEF InOrder
<1>4. \A i, j \in DOMAIN Tail(b) : i < j => Before(a, Tail(b)[i], Tail(b)[j])
  BY <1>1 DEF InOrder
<1>5. ASSUME NEW e \in Range(a) \ Range(Tail(b)), NEW f \in Range(Tail(b)) PROVE Before(a, e, f)
  <2>1. CASE e = Head(b)
    <3>1. PICK i \in DOMAIN Tail(b) : f = Tail(b)[i]
      BY DEF Range
    <3>. QED
      BY <2>1, <3>1, <1>1 DEF InOrder
  <2>2. CASE e # Head(b)
    BY <2>2, <1>1 DEF InOrder
  <2>. QED
    BY <2>1, <2>2
<1>. QED
  BY <1>1, <1>2, <1>3, <1>4, <1>5 DEF InOrder

LEMMA AppendInOrder ==
  ASSUME NEW S, NEW b \in Seq(S), NEW a \in Seq(S), NEW x \in S, x \notin Range(a), InOrder(b, a)
  PROVE  InOrder(Append(b, x), Append(a, x))
<1>. DEFINE c == Append(b, x)
            d == Append(a, x)
<1>1. /\ DOMAIN c = DOMAIN b \cup {Len(b) + 1}
      /\ \A i \in DOMAIN b : c[i] = b[i] /\ i \in Nat /\ i < Len(b) + 1
      /\ c[Len(b) + 1] = x
      /\ Len(b) \in Nat
      /\ Range(c) = Range(b) \cup {x} /\ Range(d) = Range(a) \cup {x}
  BY AppendFacts
<1>2. /\ \A e, f : Before(a, e, f) => Before(d, e, f)
      /\ \A e \in Range(a) : Before(d, e, x)
  BY BeforeAppend
<1>. HIDE DEF c, d
<1>3. \A i \in DOMAIN b : b[i] \in Range(a) /\ b[i] # x
  BY DEF InOrder, Range
<1>4. \A i, j \in DOMAIN c : c[i] = c[j] => i = j
  BY <1>1, <1>3 DEF InOrder
<1>5. \A i, j \in DOMAIN c : i < j => Before(d, c[i], c[j])
  BY <1>1, <1>2, <1>3 DEF InOrder
<1>6. \A e \in Range(d) \ Range(c), f \in Range(c) : Before(d, e, f)
  BY <1>1, <1>2 DEF InOrder
<1>7. Range(c) \subseteq Range(d)
  BY <1>1 DEF InOrder
<1>8. InOrder(c, d)
  BY <1>4, <1>5, <1>6, <1>7 DEF InOrder
<1>. QED
  BY <1>8 DEF c, d

-----------------------------------------------------------------------------
(***************************************************************************)
(* The steps.                                                              *)
(***************************************************************************)

(* An event is buffered, and a full buffer drops its first. *)
LEMMA BufferStep ==
  ASSUME DrainInv, NEW x \in Events, Buffer(x)
  PROVE  DrainInv'
<1>. DEFINE full == Len(buffer) >= MaxEvents
            kept == IF full THEN Tail(buffer) ELSE buffer
            dropped == IF full THEN {Head(buffer)} ELSE {}
<1>t. /\ buffer \in Seq(Events) /\ arrivals \in Seq(Events) /\ Len(buffer) <= MaxEvents
      /\ MaxEvents \in Nat \ {0} /\ Len(buffer) \in Nat
  BY DrainAssumption DEF DrainInv, DrainTypeOK
<1>1. /\ buffer' = Append(kept, x) /\ evicted' = evicted \cup dropped
      /\ arrivals' = Append(arrivals, x) /\ x \notin Range(arrivals)
      /\ UNCHANGED <<offline, drain, sending, owner, discarded, instead, inFlight, ledger>>
  BY DEF Buffer, BufferEvent
<1>2. /\ kept \in Seq(Events) /\ Len(kept) < MaxEvents
      /\ Range(kept) = Range(buffer) \ dropped
      /\ dropped \subseteq Range(buffer) /\ dropped \subseteq Events
      /\ InOrder(kept, arrivals)
      /\ \A i \in DOMAIN kept : kept[i] \in inFlight => i = 1 /\ ~full
  <2>1. CASE full
    <3>1. buffer # << >>
      BY <2>1, <1>t
    <3>2. InOrder(Tail(buffer), arrivals) /\ Range(Tail(buffer)) = Range(buffer) \ {Head(buffer)}
      BY <1>t, <3>1, TailInOrder DEF DrainInv, BufferInOrder
    <3>3. /\ Tail(buffer) \in Seq(Events)
          /\ Len(Tail(buffer)) = Len(buffer) - 1
          /\ Head(buffer) \in Events /\ Head(buffer) \in Range(buffer)
          /\ \A i \in DOMAIN Tail(buffer) :
               i \in Nat /\ i + 1 \in DOMAIN buffer /\ Tail(buffer)[i] = buffer[i + 1]
      BY <1>t, <3>1, TailFacts
    <3>4. \A i \in DOMAIN Tail(buffer) : i + 1 # 1
      BY <3>3
    <3>5. \A i \in DOMAIN Tail(buffer) : Tail(buffer)[i] \notin inFlight
      BY <3>3, <3>4 DEF DrainInv, OnlyTheHeadIsSent
    <3>. QED
      BY <2>1, <1>t, <3>2, <3>3, <3>5
  <2>2. CASE ~full
    BY <2>2, <1>t DEF DrainInv, BufferInOrder, OnlyTheHeadIsSent
  <2>. QED
    BY <2>1, <2>2
<1>. HIDE DEF full, kept, dropped
<1>3. /\ buffer' \in Seq(Events) /\ Len(buffer') = Len(kept) + 1
      /\ DOMAIN buffer' = DOMAIN kept \cup {Len(kept) + 1}
      /\ \A i \in DOMAIN kept : buffer'[i] = kept[i]
      /\ buffer'[Len(kept) + 1] = x
      /\ Range(buffer') = Range(kept) \cup {x}
  BY <1>1, <1>2, AppendFacts
<1>4. /\ arrivals' \in Seq(Events) /\ Range(arrivals') = Range(arrivals) \cup {x}
      /\ \A e, f : Before(arrivals, e, f) => Before(arrivals', e, f)
  BY <1>1, <1>t, AppendFacts, BeforeAppend
<1>5. InOrder(buffer', arrivals')
  BY <1>1, <1>2, <1>t, AppendInOrder
<1>6. Recorded' = Recorded /\ Settled' = Settled /\ (Posting' <=> Posting)
  BY <1>1 DEF Recorded, Settled, Posting
<1>7. buffer' # << >> /\ Head(buffer') = buffer'[1] /\ 1 \in DOMAIN buffer'
  <2>1. Len(buffer') \in Nat \ {0}
    BY <1>2, <1>3
  <2>. QED
    BY <2>1, <1>3
<1>8. x \notin inFlight /\ x \notin evicted /\ Range(buffer) \subseteq Range(arrivals)
  BY <1>1 DEF DrainInv, OnlyTheHeadIsSent, BufferInOrder, InOrder
<1>9. DrainTypeOK'
  BY <1>1, <1>2, <1>3, <1>4, <1>6, <1>t DEF DrainInv, DrainTypeOK
<1>10. BufferInOrder'
  BY <1>1, <1>2, <1>3, <1>4, <1>5, <1>8 DEF DrainInv, BufferInOrder
<1>11. \A i \in DOMAIN buffer' : buffer'[i] \in inFlight => i = 1 /\ ~full /\ i \in DOMAIN kept
  BY <1>2, <1>3, <1>8
<1>12. OnlyTheHeadIsSent'
  BY <1>1, <1>2, <1>3, <1>4, <1>6, <1>11 DEF DrainInv, OnlyTheHeadIsSent
<1>13. SendingHead'
  <2>1. CASE full
    BY <2>1, <1>1, <1>6, <1>7, <1>11 DEF DrainInv, SendingHead, full, dropped
  <2>2. ASSUME ~full, Posting PROVE Head(buffer') = Head(buffer)
    <3>1. kept = buffer /\ buffer # << >>
      BY <2>2 DEF kept, DrainInv, SendingHead, Posting
    <3>2. 1 \in DOMAIN kept /\ Head(buffer) = buffer[1]
      BY <3>1, <1>t
    <3>. QED
      BY <3>1, <3>2, <1>3, <1>7
  <2>3. CASE ~full
    BY <2>2, <2>3, <1>1, <1>6, <1>7 DEF DrainInv, SendingHead
  <2>. QED
    BY <2>1, <2>3
<1>14. AnsweredOnce'
  BY <1>1, <1>2, <1>3, <1>4, <1>6 DEF DrainInv, AnsweredOnce
<1>15. LossIsNamed'
  <2>1. Lost' \subseteq Lost
    BY <1>1, <1>2, <1>3, <1>4, <1>6 DEF Lost
  <2>. QED
    BY <2>1, <1>1, <1>6 DEF DrainInv, LossIsNamed
<1>16. OrderKept'
  BY <1>1, <1>4, <1>6 DEF DrainInv, OrderKept, Regular
<1>. QED
  BY <1>9, <1>10, <1>12, <1>13, <1>14, <1>15, <1>16 DEF DrainInv

(* Steps that leave the events where they are: the drain, if it was not    *)
(* posting, stays so, or goes on posting the same event.                   *)
EventsKept ==
  UNCHANGED <<buffer, arrivals, evicted, discarded, instead, inFlight, ledger>>

LEMMA ControlStep ==
  ASSUME DrainInv, EventsKept, offline' \in BOOLEAN, owner' \in Owners, drain' \in Drains,
         drain' # "idle" => drain # "idle",
         sending' = IF Posting' THEN sending ELSE None,
         Posting' => Posting
  PROVE  DrainInv'
<1>1. /\ UNCHANGED <<buffer, arrivals, evicted, discarded, instead, inFlight, ledger>>
      /\ Recorded' = Recorded /\ Settled' = Settled /\ Lost' = Lost
  BY DEF EventsKept, Recorded, Settled, Lost
<1>2. DrainTypeOK'
  BY <1>1 DEF DrainInv, DrainTypeOK
<1>3. BufferInOrder' /\ OnlyTheHeadIsSent' /\ LossIsNamed' /\ OrderKept'
  BY <1>1 DEF DrainInv, BufferInOrder, OnlyTheHeadIsSent, LossIsNamed, OrderKept, Regular
<1>4. SendingHead' /\ AnsweredOnce'
  BY <1>1 DEF DrainInv, SendingHead, AnsweredOnce
<1>. QED
  BY <1>2, <1>3, <1>4 DEF DrainInv

(* The drain sends the first event. *)
LEMMA SendStep ==
  ASSUME DrainInv, buffer # << >>, Send(buffer), drain' \in {"fast", "offline"},
         UNCHANGED <<buffer, offline, owner, arrivals, evicted, discarded, instead, ledger>>
  PROVE  DrainInv'
<1>1. /\ sending' = Head(buffer) /\ inFlight' = inFlight \cup {Head(buffer)}
      /\ Recorded' = Recorded /\ Settled' = Settled /\ Lost' = Lost /\ Posting'
  BY DEF Send, Recorded, Settled, Lost, Posting
<1>2. /\ Head(buffer) = buffer[1] /\ Head(buffer) \in Events /\ Head(buffer) \in Range(buffer)
      /\ 1 \in DOMAIN buffer
  <2>1. buffer \in Seq(Events)
    BY DEF DrainInv, DrainTypeOK
  <2>. QED
    BY <2>1, TailFacts
<1>3. DrainTypeOK'
  BY <1>1, <1>2 DEF DrainInv, DrainTypeOK, Drains
<1>4. BufferInOrder' /\ LossIsNamed' /\ OrderKept'
  BY <1>1 DEF DrainInv, BufferInOrder, LossIsNamed, OrderKept, Regular
<1>5. OnlyTheHeadIsSent'
  BY <1>1, <1>2 DEF DrainInv, OnlyTheHeadIsSent, BufferInOrder, InOrder
<1>6. SendingHead' /\ AnsweredOnce'
  BY <1>1, <1>2 DEF DrainInv, SendingHead, AnsweredOnce
<1>. QED
  BY <1>3, <1>4, <1>5, <1>6 DEF DrainInv

(* The drain goes on after an answer that settles what it was sending. *)
LEMMA ContinueStep ==
  ASSUME DrainInv, Posting, Continue,
         UNCHANGED <<owner, arrivals, evicted, ledger>>,
         discarded' \in SUBSET Events, discarded \subseteq discarded',
         sending \in Recorded \cup discarded'
  PROVE  DrainInv'
<1>. DEFINE h == Head(buffer)
            rest == Tail(buffer)
<1>t. buffer \in Seq(Events) /\ arrivals \in Seq(Events) /\ buffer # << >> /\ sending \in Events
      /\ Len(buffer) \in Nat /\ Len(buffer) <= MaxEvents
  BY DEF DrainInv, DrainTypeOK, SendingHead, Posting
<1>m. MaxEvents \in Nat
  BY DrainAssumption
<1>1. /\ rest \in Seq(Events) /\ Len(rest) = Len(buffer) - 1
      /\ h = buffer[1] /\ h \in Events /\ h \in Range(buffer)
      /\ \A i \in DOMAIN rest : i \in Nat /\ i + 1 \in DOMAIN buffer /\ rest[i] = buffer[i + 1]
      /\ Range(buffer) = Range(rest) \cup {h}
  BY <1>t, TailFacts
<1>2. InOrder(rest, arrivals) /\ Range(rest) = Range(buffer) \ {h}
  BY <1>t, TailInOrder DEF DrainInv, BufferInOrder
<1>3. \A i \in DOMAIN rest : rest[i] \notin inFlight
  <2>1. \A i \in DOMAIN rest : i + 1 # 1
    BY <1>1
  <2>. QED
    BY <1>1, <2>1 DEF DrainInv, OnlyTheHeadIsSent
<1>4. /\ buffer' = rest /\ instead' = instead \cup {<<sending, h>>}
      /\ UNCHANGED <<owner, arrivals, evicted, ledger>>
  BY DEF Continue
<1>5. Recorded' = Recorded /\ Settled \subseteq Settled' /\ sending \in Settled'
  BY DEF Recorded, Settled
<1>6. /\ sending \in inFlight
      /\ sending = h \/ (sending \in evicted /\ h \notin inFlight)
      /\ sending \in Range(arrivals) \ Range(rest)
  <2>1. sending \in inFlight /\ (sending = h \/ (sending \in evicted /\ h \notin inFlight))
    BY DEF DrainInv, SendingHead
  <2>. QED
    BY <2>1, <1>2 DEF DrainInv, BufferInOrder, OnlyTheHeadIsSent
<1>7. \/ /\ rest = << >> /\ drain' = "idle" /\ sending' = None /\ inFlight' = inFlight
         /\ offline' = (offline /\ drain = "fast")
      \/ /\ rest # << >> /\ drain' = drain /\ offline' = offline
         /\ sending' = Head(rest) /\ inFlight' = inFlight \cup {Head(rest)}
  BY DEF Continue, EndDrain, Send
<1>8. ASSUME rest # << >>
      PROVE  Head(rest) = rest[1] /\ Head(rest) \in Events /\ Head(rest) \in Range(rest)
  BY <1>1, <1>8, TailFacts
<1>. HIDE DEF h, rest
<1>9. offline' \in BOOLEAN
  <2>1. (offline /\ drain = "fast") \in BOOLEAN
    OBVIOUS
  <2>. QED
    BY <2>1, <1>7, Zenon DEF DrainInv, DrainTypeOK
<1>10. DrainTypeOK'
  <2>1. Len(rest) <= MaxEvents
    BY <1>1, <1>t, <1>m
  <2>2. /\ drain' \in Drains /\ inFlight' \subseteq Events
        /\ sending' \in IF Posting' THEN Events ELSE {None}
    BY <1>7, <1>8 DEF DrainInv, DrainTypeOK, Posting, Drains
  <2>. QED
    BY <1>1, <1>4, <1>9, <1>t, <2>1, <2>2 DEF DrainInv, DrainTypeOK
<1>11. BufferInOrder'
  BY <1>2, <1>4 DEF DrainInv, BufferInOrder
<1>12. OnlyTheHeadIsSent'
  <2>1. inFlight \ Range(rest) \subseteq evicted \cup Settled'
    BY <1>1, <1>5, <1>6 DEF DrainInv, OnlyTheHeadIsSent
  <2>2. Range(rest) \subseteq Range(arrivals)
    BY <1>2 DEF InOrder
  <2>3. \A i, j \in DOMAIN rest : rest[i] = rest[j] => i = j
    BY <1>2 DEF InOrder
  <2>4. CASE rest = << >>
    BY <2>1, <2>4, <1>3, <1>4, <1>5, <1>7 DEF DrainInv, OnlyTheHeadIsSent
  <2>5. CASE rest # << >>
    <3>1. 1 \in DOMAIN rest
      BY <2>5, <1>1
    <3>2. inFlight' = inFlight \cup {rest[1]} /\ rest[1] \in Range(rest)
      BY <2>5, <1>7, <1>8
    <3>3. \A i \in DOMAIN rest : rest[i] \in inFlight' => i = 1
      BY <3>1, <3>2, <2>3, <1>3
    <3>. QED
      BY <2>1, <2>2, <3>2, <3>3, <1>4, <1>5 DEF DrainInv, OnlyTheHeadIsSent
  <2>. QED
    BY <2>4, <2>5
<1>13. SendingHead'
  BY <1>4, <1>7 DEF SendingHead, Posting
<1>14. AnsweredOnce'
  <2>1. \A f, g \in Events : <<f, g>> \in instead' <=> <<f, g>> \in instead \/ (f = sending /\ g = h)
    BY <1>4
  <2>2. \A f \in Events : <<sending, f>> \notin instead
    BY <1>t DEF DrainInv, AnsweredOnce
  <2>3. \A e, f, g \in Events : <<e, f>> \in instead' /\ <<e, g>> \in instead' => f = g
    BY <2>1, <2>2 DEF DrainInv, AnsweredOnce
  <2>4. \A e, f \in Events : <<e, f>> \in instead' => e \in Range(arrivals) \ Range(rest)
    BY <2>1, <1>1, <1>6 DEF DrainInv, AnsweredOnce
  <2>5. Posting' => sending' \in Range(rest)
    BY <1>7, <1>8 DEF Posting
  <2>. QED
    BY <2>3, <2>4, <2>5, <1>4 DEF AnsweredOnce
<1>15. LossIsNamed'
  <2>1. Lost' \subseteq Lost \cup {h}
    BY <1>1, <1>4, <1>5 DEF Lost
  <2>2. h \in Lost' => sending # h /\ sending \in evicted'
    BY <1>4, <1>5, <1>6 DEF Lost
  <2>. QED
    BY <2>1, <2>2, <1>4, <1>5 DEF DrainInv, LossIsNamed
<1>16. OrderKept'
  BY <1>4, <1>5 DEF DrainInv, OrderKept, Regular
<1>. QED
  BY <1>10, <1>11, <1>12, <1>13, <1>14, <1>15, <1>16 DEF DrainInv

(* The backend records what it was sent, perhaps long ago.  An event that  *)
(* was neither dropped nor discarded is then still the first of the        *)
(* buffer, and everything recorded before it has left the buffer.          *)
LEMMA RecordStep ==
  ASSUME DrainInv, NEW x \in Events, Record(x)
  PROVE  DrainInv'
<1>t. /\ ledger \in Seq(Events) /\ arrivals \in Seq(Events) /\ buffer \in Seq(Events)
  BY DEF DrainInv, DrainTypeOK
<1>1. /\ x \in inFlight /\ x \notin Recorded /\ ledger' = Append(ledger, x)
      /\ UNCHANGED <<buffer, offline, drain, sending, owner, arrivals, evicted, discarded,
                     instead, inFlight>>
  BY DEF Record, Recorded
<1>2. ledger' \in Seq(Events) /\ Recorded' = Recorded \cup {x} /\ Settled' = Settled \cup {x}
      /\ (Posting' <=> Posting)
  BY <1>1, <1>t, AppendFacts DEF Recorded, Settled, Posting
<1>3. DrainTypeOK'
  BY <1>1, <1>2 DEF DrainInv, DrainTypeOK
<1>4. BufferInOrder' /\ OnlyTheHeadIsSent' /\ SendingHead' /\ AnsweredOnce'
  BY <1>1, <1>2 DEF DrainInv, BufferInOrder, OnlyTheHeadIsSent, SendingHead, AnsweredOnce
<1>5. LossIsNamed'
  <2>1. Lost' \subseteq Lost
    BY <1>1, <1>2 DEF Lost
  <2>. QED
    BY <2>1, <1>1, <1>2 DEF DrainInv, LossIsNamed
<1>6. OrderKept'
  <2>. SUFFICES ASSUME NEW e \in Recorded', NEW f \in Recorded', Regular(e), Regular(f),
                       Before(ledger', e, f)
                PROVE  Before(arrivals, e, f)
    BY <1>1 DEF OrderKept, Regular
  <2>1. CASE f # x
    <3>1. Before(ledger, e, f)
      BY <2>1, <1>1, <1>t, BeforeAppend
    <3>2. e \in Recorded /\ f \in Recorded
      BY <3>1 DEF Before, Recorded, Range
    <3>. QED
      BY <3>1, <3>2 DEF DrainInv, OrderKept
  <2>2. CASE f = x
    <3>1. e \in Recorded
      <4>1. /\ DOMAIN ledger' = DOMAIN ledger \cup {Len(ledger) + 1}
            /\ \A i \in DOMAIN ledger : ledger'[i] = ledger[i] /\ i \in Nat /\ i < Len(ledger) + 1
            /\ Len(ledger) \in Nat
        BY <1>1, <1>t, AppendFacts
      <4>2. PICK i, j \in DOMAIN ledger' : i < j /\ ledger'[i] = e
        BY DEF Before
      <4>3. i \in DOMAIN ledger
        BY <4>1, <4>2
      <4>. QED
        BY <4>1, <4>2, <4>3 DEF Recorded, Range
    <3>2. e # f /\ e \in inFlight /\ e \in Range(arrivals)
      BY <3>1, <2>2, <1>1 DEF DrainInv, OnlyTheHeadIsSent
    <3>3. PICK i \in DOMAIN buffer : f = buffer[i] /\ i = 1
      <4>1. f \in Range(buffer)
        BY <2>2, <1>1 DEF DrainInv, OnlyTheHeadIsSent, Settled, Regular
      <4>. QED
        BY <4>1, <2>2, <1>1 DEF DrainInv, OnlyTheHeadIsSent, Range
    <3>4. e \notin Range(buffer)
      BY <3>2, <3>3 DEF DrainInv, OnlyTheHeadIsSent, Range
    <3>5. f \in Range(buffer)
      BY <3>3 DEF Range
    <3>. QED
      BY <3>2, <3>4, <3>5 DEF DrainInv, BufferInOrder, InOrder
  <2>. QED
    BY <2>1, <2>2
<1>. QED
  BY <1>3, <1>4, <1>5, <1>6 DEF DrainInv

LEMMA DrainStepKeepsInv == DrainInv /\ [Next]_drainVars => DrainInv'
<1>. SUFFICES ASSUME DrainInv, [Next]_drainVars PROVE DrainInv'
  OBVIOUS
<1>t. /\ offline \in BOOLEAN /\ owner \in Owners /\ drain \in Drains
      /\ sending = IF Posting THEN sending ELSE None
  BY DEF DrainInv, DrainTypeOK
<1>1. ASSUME NEW e \in Events, Buffer(e) PROVE DrainInv'
  BY <1>1, BufferStep
<1>2. CASE GoOffline
  BY <1>2, <1>t, ControlStep DEF GoOffline, EventsKept, Posting
<1>3. CASE StartDrain
  BY <1>3, SendStep DEF StartDrain
<1>4. CASE Complete
  BY <1>4, <1>t, ControlStep DEF Complete, EventsKept, EndDrain, Posting, Owners, Drains
<1>5. CASE Sent
  BY <1>5, ContinueStep DEF Sent, Recorded, DrainInv, DrainTypeOK
<1>6. CASE Discard
  <2>1. Posting /\ sending \in Events
    BY <1>6 DEF Discard, Posting, DrainInv, DrainTypeOK
  <2>. QED
    BY <1>6, <2>1, ContinueStep DEF Discard, DrainInv, DrainTypeOK
<1>7. CASE Failed
  BY <1>7, <1>t, ControlStep DEF Failed, EventsKept, Posting, Drains
<1>8. CASE Wake
  BY <1>8, SendStep DEF Wake, DrainInv, SendingHead
<1>9. CASE DrainEnded \/ Completed
  BY <1>9, <1>t, ControlStep DEF DrainEnded, Completed, EventsKept, Posting, Owners
<1>10. CASE WaitTimesOut
  BY <1>10, <1>t, ControlStep DEF WaitTimesOut, EventsKept, EndDrain, Posting, Owners, Drains
<1>11. ASSUME NEW e \in Events, Record(e) PROVE DrainInv'
  BY <1>11, RecordStep
<1>12. CASE UNCHANGED drainVars
  BY <1>12, <1>t, ControlStep DEF drainVars, EventsKept, Posting
<1>. QED
  BY <1>1, <1>2, <1>3, <1>4, <1>5, <1>6, <1>7, <1>8, <1>9, <1>10, <1>11, <1>12
     DEF Next, TaskStep, DrainStep, OwnerStep

LEMMA DrainInvInitially == Init => DrainInv
<1>. SUFFICES ASSUME Init PROVE DrainInv
  OBVIOUS
<1>1. Range(buffer) = {} /\ Range(arrivals) = {} /\ Recorded = {}
  BY DEF Init, Recorded, Range
<1>2. DrainTypeOK
  <2>1. << >> \in Seq(Events) /\ Len(<< >>) = 0
    OBVIOUS
  <2>2. Len(buffer) <= MaxEvents
    BY <2>1, DrainAssumption DEF Init
  <2>. QED
    BY <2>1, <2>2 DEF Init, DrainTypeOK, Drains, Owners, Posting
<1>3. BufferInOrder
  BY <1>1 DEF Init, BufferInOrder, InOrder
<1>4. OnlyTheHeadIsSent /\ SendingHead /\ AnsweredOnce
  BY <1>1 DEF Init, OnlyTheHeadIsSent, SendingHead, AnsweredOnce, Posting
<1>5. LossIsNamed /\ OrderKept
  BY <1>1 DEF LossIsNamed, OrderKept, Lost
<1>. QED
  BY <1>2, <1>3, <1>4, <1>5 DEF DrainInv

LEMMA DrainInvariant == Spec => []DrainInv
BY DrainInvInitially, DrainStepKeepsInv, PTL DEF Spec

-----------------------------------------------------------------------------
(***************************************************************************)
(* The theorems.                                                           *)
(***************************************************************************)

(* The buffer never exceeds its limit, and the drain always has an event   *)
(* of the chain's in hand while it posts.                                  *)
THEOREM DrainTypeCorrect == Spec => []DrainTypeOK
<1>1. DrainInv => DrainTypeOK
  BY DEF DrainInv
<1>. QED
  BY <1>1, DrainInvariant, PTL

(* An event that vanishes unsent is paid for by one that the buffer        *)
(* dropped while it was being sent, and each of those pays for one event   *)
(* only, however drops, answers, failures and late records interleave.     *)
THEOREM LossesArePaidFor == Spec => []LossIsPaidFor
<1>1. DrainInv => LossIsPaidFor
  <2>. SUFFICES ASSUME DrainInv, NEW f \in Lost
                PROVE  \E e \in evicted \cap Settled :
                         /\ <<e, f>> \in instead
                         /\ \A g \in Events : <<e, g>> \in instead => g = f
    BY DEF LossIsPaidFor
  <2>1. PICK e \in evicted \cap Settled : <<e, f>> \in instead
    BY DEF DrainInv, LossIsNamed
  <2>2. e \in Events /\ f \in Events
    BY <2>1 DEF DrainInv, DrainTypeOK
  <2>. QED
    BY <2>1, <2>2 DEF DrainInv, AnsweredOnce
<1>. QED
  BY <1>1, DrainInvariant, PTL

(* So the drain loses at most one event for each that the buffer drops.    *)
THEOREM LossIsBounded == Spec => [](Cardinality(Lost) <= Cardinality(evicted))
<1>1. DrainInv => Cardinality(Lost) <= Cardinality(evicted)
  <2>. SUFFICES ASSUME DrainInv PROVE Cardinality(Lost) <= Cardinality(evicted)
    OBVIOUS
  <2>. DEFINE payer == [f \in Lost |-> CHOOSE e \in evicted : <<e, f>> \in instead]
  <2>1. \A f \in Lost : payer[f] \in evicted /\ <<payer[f], f>> \in instead
    BY DEF DrainInv, LossIsNamed
  <2>2. Lost \subseteq Events /\ evicted \subseteq Events /\ arrivals \in Seq(Events)
    BY DEF Lost, Range, DrainInv, DrainTypeOK
  <2>3. IsFiniteSet(evicted)
    <3>1. evicted \subseteq Range(arrivals)
      BY DEF DrainInv, BufferInOrder
    <3>2. IsFiniteSet(DOMAIN arrivals)
      <4>1. Len(arrivals) \in Nat /\ DOMAIN arrivals = 1 .. Len(arrivals)
        BY <2>2
      <4>. QED
        BY <4>1, FS_Interval
    <3>3. IsFiniteSet(Range(arrivals))
      <4>1. arrivals \in Surjection(DOMAIN arrivals, Range(arrivals))
        BY <2>2 DEF Surjection, Range
      <4>. QED
        BY <3>2, <4>1, FS_Surjection
    <3>. QED
      BY <3>1, <3>3, FS_Subset
  <2>4. payer \in Injection(Lost, evicted)
    <3>1. \A f, g \in Lost : payer[f] = payer[g] => f = g
      BY <2>1, <2>2 DEF DrainInv, AnsweredOnce
    <3>. QED
      BY <2>1, <3>1 DEF Injection, IsInjective
  <2>. QED
    BY <2>3, <2>4, FS_Injection
<1>. QED
  BY <1>1, DrainInvariant, PTL

(* Nothing is recorded past an event that failed: what was neither dropped *)
(* nor discarded is in the ledger in the order of its arrival.             *)
THEOREM OrderIsKept == Spec => []OrderKept
<1>1. DrainInv => OrderKept
  BY DEF DrainInv
<1>. QED
  BY <1>1, DrainInvariant, PTL

(* A chain's drain has ended, or was cancelled, before its completion is   *)
(* sent, and sends nothing next to it.                                     *)
THEOREM CompletionIsQuiet == Spec => []QuietCompletion
<1>1. Init => QuietCompletion
  BY DEF Init, QuietCompletion
<1>2. QuietCompletion /\ [Next]_drainVars => QuietCompletion'
  BY DEF QuietCompletion, Posting, Next, TaskStep, DrainStep, OwnerStep, drainVars,
         Buffer, GoOffline, StartDrain, Complete, Sent, Discard, Failed, Wake, Continue,
         EndDrain, DrainEnded, WaitTimesOut, Completed, Record
<1>. QED
  BY <1>1, <1>2, PTL DEF Spec

(* The chain comes back online only with its buffer drained, and, unless   *)
(* the buffer dropped something, with every event settled.                 *)
THEOREM OnlineOnlyWhenDrained == Spec => OnlineWhenDrained
<1>1. ASSUME DrainInv, [Next]_drainVars, offline, ~offline'
      PROVE  buffer' = << >> /\ (evicted = {} => Range(arrivals) \subseteq Settled')
  <2>1. Sent \/ Discard
    BY <1>1 DEF Next, TaskStep, DrainStep, OwnerStep, drainVars, Buffer, GoOffline, StartDrain,
                Complete, Failed, Wake, DrainEnded, WaitTimesOut, Completed, Record
  <2>2. Posting /\ Continue /\ evicted' = evicted /\ arrivals' = arrivals
    BY <2>1 DEF Sent, Discard, Posting
  <2>3. buffer' = << >>
    BY <1>1, <2>2 DEF Continue
  <2>4. ASSUME evicted = {} PROVE Range(arrivals) \subseteq Settled'
    <3>1. DrainInv'
      BY <1>1, DrainStepKeepsInv
    <3>2. Range(buffer') = {}
      BY <2>3 DEF Range
    <3>. QED
      BY <2>2, <2>4, <3>1, <3>2 DEF DrainInv, LossIsNamed, Lost
  <2>. QED
    BY <2>3, <2>4
<1>2. DrainInv /\ [Next]_drainVars =>
        [offline /\ ~offline' =>
           /\ buffer' = << >>
           /\ evicted = {} => Range(arrivals) \subseteq Settled']_drainVars
  BY <1>1
<1>. QED
  BY <1>2, DrainInvariant, PTL DEF Spec, OnlineWhenDrained

=============================================================================
