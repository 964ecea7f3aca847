----------------------------- MODULE SlackSocket -----------------------------
(***************************************************************************)
(* Mentions over Slack's socket (integrations/slack.rs): the socket a      *)
(* connection keeps between calls, the batch a call collects, the          *)
(* acknowledgement that makes Slack forget an envelope, and the fan-out of *)
(* the batch to every trigger of the connection (integrations/events.rs).  *)
(* Slack repeats what is not acknowledged on the next socket.              *)
(***************************************************************************)
EXTENDS Naturals, FiniteSets

CONSTANTS Mentions,    \* mentions of the app, by event id, that the filters of every trigger let through
          Bad,         \* envelopes that cannot be normalized
          Noise,       \* envelopes, pings and frames that are nothing to the trigger
          Triggers,    \* in the order list_enabled_triggers returns them
          BatchLimit,  \* SLACK_SOCKET_BATCH_LIMIT
          MaxBreaks    \* bound: broken sockets and reconnects, and failed calls

VARIABLES unacked,     \* what Slack still has to deliver
          stream,      \* "none", "open", "broken"
          call,        \* "idle", "loop", "enrich", "fanout"
          events,      \* of the call
          todo,        \* the triggers the fan-out still has to serve
          persisted,   \* by trigger: receipts of queued events ...
          overrun,     \* ... and of events dropped for a full queue
          excused,     \* mentions whose call failed after they were acknowledged
          faults

vars == <<unacked, stream, call, events, todo, persisted, overrun, excused, faults>>

Envelopes == Mentions \cup Bad \cup Noise

Init ==
  /\ unacked = Envelopes /\ stream = "none" /\ call = "idle" /\ events = {} /\ todo = {}
  /\ persisted = [t \in Triggers |-> {}] /\ overrun = persisted /\ excused = {} /\ faults = 0

\* connect, socket_state, next_batch: the lock on the connection's socket is held for the call.
Connect ==
  /\ call = "idle" /\ call' = "loop" /\ events' = {}
  /\ UNCHANGED <<unacked, stream, todo, persisted, overrun, excused, faults>>

\* ensure_socket: apps.connections.open and the handshake.
EnsureSocket ==
  /\ call = "loop" /\ stream = "none" /\ stream' = "open"
  /\ UNCHANGED <<unacked, call, events, todo, persisted, overrun, excused, faults>>

Fault == faults < MaxBreaks /\ faults' = faults + 1
CallFails == call' = "idle" /\ excused' = excused \cup events /\ events' = {}

\* open_socket_url or the handshake fails.
OpenFails ==
  /\ call = "loop" /\ stream = "none" /\ Fault /\ CallFails
  /\ UNCHANGED <<unacked, stream, todo, persisted, overrun>>

\* The time limit of one read: a call without events returns, one with events goes on.
ReadTimeout ==
  /\ call = "loop" /\ stream = "open"
  /\ call' = IF events = {} THEN "idle" ELSE "enrich"
  /\ UNCHANGED <<unacked, stream, events, todo, persisted, overrun, excused, faults>>

\* Mutant: a socket that breaks ends the call with an error, whatever it has collected.
ReadBrokenDropping ==
  /\ call = "loop" /\ stream = "broken" /\ stream' = "none"
  /\ call' = "idle" /\ events' = {}
  /\ UNCHANGED <<unacked, todo, persisted, overrun, excused, faults>>

\* Mutant: the broken socket stays.
ReadBrokenKeeping ==
  /\ call = "loop" /\ stream = "broken"
  /\ call' = IF events = {} THEN "idle" ELSE "enrich"
  /\ UNCHANGED <<unacked, stream, events, todo, persisted, overrun, excused, faults>>

\* The socket ends or fails: an error without events, a batch with them.
ReadBroken ==
  /\ call = "loop" /\ stream = "broken" /\ stream' = "none"
  /\ call' = IF events = {} THEN "idle" ELSE "enrich"
  /\ UNCHANGED <<unacked, events, todo, persisted, overrun, excused, faults>>

\* process_socket_message, a close or "disconnect": a new socket, or the batch first.
Reconnect ==
  /\ call = "loop" /\ stream = "open" /\ Fault /\ stream' = "none"
  /\ call' = IF events = {} THEN "loop" ELSE "enrich"
  /\ UNCHANGED <<unacked, events, todo, persisted, overrun, excused>>

\* process_socket_message: acknowledged before it is looked at.
ReceiveMention(e) ==
  /\ call = "loop" /\ stream = "open" /\ e \in unacked \cap Mentions
  /\ unacked' = unacked \ {e} /\ events' = events \cup {e}
  /\ call' = IF Cardinality(events') >= BatchLimit THEN "enrich" ELSE "loop"
  /\ UNCHANGED <<stream, todo, persisted, overrun, excused, faults>>

\* normalize_slack_mention returns nothing: another type, an edit, a bot, the app itself.
ReceiveNoise(e) ==
  /\ call = "loop" /\ stream = "open" /\ e \in unacked \cap Noise
  /\ unacked' = unacked \ {e}
  /\ UNCHANGED <<stream, call, events, todo, persisted, overrun, excused, faults>>

\* normalize_slack_mention fails after the acknowledgement: the call ends, its events with it.
ReceiveBad(e) ==
  /\ call = "loop" /\ stream = "open" /\ e \in unacked \cap Bad
  /\ unacked' = unacked \ {e} /\ CallFails
  /\ UNCHANGED <<stream, todo, persisted, overrun, faults>>

\* The acknowledgement cannot be sent: the envelope stays with Slack, the socket in its place.
AckFails(e) ==
  /\ call = "loop" /\ stream = "open" /\ e \in unacked /\ Fault
  /\ stream' = "broken" /\ CallFails
  /\ UNCHANGED <<unacked, todo, persisted, overrun>>

\* The acknowledgement is lost on its way: Slack repeats the envelope.
AckLost(e) ==
  /\ call = "loop" /\ stream = "open" /\ e \in unacked \cap Mentions /\ Fault
  /\ events' = events \cup {e} /\ stream' = "broken"
  /\ UNCHANGED <<unacked, call, todo, persisted, overrun, excused>>

Break ==
  /\ stream = "open" /\ Fault /\ stream' = "broken"
  /\ UNCHANGED <<unacked, call, events, todo, persisted, overrun, excused>>

\* The cancel flag, or ADAPTER_TIMEOUT: the call is dropped with its events.
Abandon ==
  /\ call \in {"loop", "enrich"} /\ Fault /\ CallFails
  /\ stream' \in IF call = "loop" THEN {"none", stream} ELSE {stream}
  /\ UNCHANGED <<unacked, todo, persisted, overrun>>

\* enrich_permalinks: links that cannot be had are left out.
EnrichPermalinks ==
  /\ call = "enrich" /\ call' = "fanout" /\ todo' = Triggers
  /\ UNCHANGED <<unacked, stream, events, persisted, overrun, excused, faults>>

First(s) == CHOOSE t \in s : \A u \in s : t <= u

Served(t) == persisted[t] \cup overrun[t]

\* sync: each trigger of the connection in turn.  An event with a receipt is a duplicate; for one without,
\* record_app_event finds room in the trigger's queue, or writes 'dropped_overrun' for good: a socket cannot be
\* asked again.  How full the queue is depends on what it is drained of meanwhile (AppEvents).
FanOut ==
  LET t == First(todo) IN
  /\ call = "fanout" /\ todo # {}
  /\ \E dropped \in SUBSET (events \ Served(t)) :
       /\ overrun' = [overrun EXCEPT ![t] = @ \cup dropped]
       /\ persisted' = [persisted EXCEPT ![t] = @ \cup (events \ (Served(t) \cup dropped))]
  /\ todo' = todo \ {t}
  /\ UNCHANGED <<unacked, stream, call, events, excused, faults>>

\* The database fails for one trigger: the ones after it are not served.
FanOutFails ==
  /\ call = "fanout" /\ todo # {} /\ Fault /\ CallFails /\ todo' = {}
  /\ UNCHANGED <<unacked, stream, persisted, overrun>>

Return ==
  /\ call = "fanout" /\ todo = {} /\ call' = "idle" /\ events' = {}
  /\ UNCHANGED <<unacked, stream, todo, persisted, overrun, excused, faults>>

Next ==
  \/ Connect \/ EnsureSocket \/ OpenFails \/ ReadTimeout \/ ReadBroken \/ Reconnect \/ Break \/ Abandon
  \/ \E e \in Envelopes :
       ReceiveMention(e) \/ ReceiveNoise(e) \/ ReceiveBad(e) \/ AckFails(e) \/ AckLost(e)
  \/ EnrichPermalinks \/ FanOut \/ FanOutFails \/ Return

Receive == \E e \in Envelopes : ReceiveMention(e) \/ ReceiveNoise(e) \/ ReceiveBad(e)
Caller == Connect \/ EnsureSocket \/ ReadBroken \/ EnrichPermalinks \/ FanOut \/ Return

\* The trigger loop calls again and again; Slack delivers what it has on an open socket.
Fairness == WF_vars(Caller) /\ SF_vars(Receive) /\ WF_vars(ReadTimeout)
Spec == Init /\ [][Next]_vars

-----------------------------------------------------------------------------
\* Every variable keeps its type.
TypeOK ==
  /\ unacked \subseteq Envelopes /\ events \subseteq Mentions /\ excused \subseteq Mentions
  /\ stream \in {"none", "open", "broken"} /\ call \in {"idle", "loop", "enrich", "fanout"}
  /\ Cardinality(events) <= BatchLimit
  /\ persisted \in [Triggers -> SUBSET Mentions] /\ overrun \in [Triggers -> SUBSET Mentions]

\* A mention Slack no longer has is in the call's batch, or every trigger of the connection has queued it or has
\* one receipt that says its queue was full, or its call failed: a socket that closes, breaks or fills the batch
\* loses none of them, and none is both queued and given up, however often Slack repeats it.
AckedIsKept ==
  /\ \A e \in Mentions \ unacked :
       e \in events \/ e \in excused \/ \A t \in Triggers : e \in Served(t)
  /\ \A t \in Triggers : persisted[t] \cap overrun[t] = {}

\* What makes AckedIsKept inductive: which events a call has at each of its places, and where the
\* batch still has room.
Batch ==
  /\ call = "idle" => events = {}
  /\ (call = "loop" /\ stream # "broken") => Cardinality(events) < BatchLimit
  /\ call = "fanout" => \A t \in Triggers \ todo : events \subseteq Served(t)

\* A mention is served in the end, whatever sockets break, unless the call that had acknowledged it
\* failed: every trigger queues it or gives it up with a receipt.
MentionIsServed ==
  \A e \in Mentions : <>(e \in excused \/ \A t \in Triggers : e \in Served(t))
=============================================================================
