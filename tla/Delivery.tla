------------------------------- MODULE Delivery -------------------------------
(***************************************************************************)
(* From a scan request to the screen: Engine._dispatch and the Dispatcher  *)
(* (pipeline/dispatcher.py) around the adapters, the retries of            *)
(* servers/http.py, the probes of web/serverprobe.py, the EventsBus        *)
(* (observ/events_bus.py) and the event stream of web/pages.py.            *)
(*                                                                         *)
(* Dispatches run beside each other and beside the probes of the web       *)
(* pages; each waits for its HTTP requests.  All that follows an answer,   *)
(* up to the publication, happens in one turn of the event loop.           *)
(***************************************************************************)
EXTENDS Adapters, SequencesExt, FiniteSets

CONSTANTS Adapted,      \* servers that have an adapter
          Request,      \* scan requests: server, mode, library, scanPath, file
          Probes,       \* bound: the probes tried, pairs of a server and
                        \* "test" or "libraries"
          Client,       \* browsers that follow the stream
          MaxCalls,     \* bound: dispatches and probes in one behaviour
          Capacity,     \* records the bus keeps
          RecentLimit,  \* of which recent() returns
          QueueMax      \* records a subscriber's queue holds

ASSUME BoundAssumption == {MaxCalls, Capacity, RecentLimit, QueueMax} \subseteq Nat \ {0}
ASSUME AdaptedAssumption == Adapted \subseteq Server
ASSUME AttemptsAssumption == RetryAttempts \in [Server -> Nat]
ASSUME RequestAssumption == \A q \in Request : q.server \in Server

VARIABLES calls,    \* dispatches and probes, in the order they began
          buffer,   \* numbers of the records the bus keeps
          records,  \* everything ever published: the call and its result
          stream,   \* state of each client's stream
          replay,   \* what it still has to replay
          queue,    \* its subscriber queue
          sent,     \* the number of the record it was sent last, or 0
          since     \* ghost: what had been published when it subscribed
bus == <<buffer, records>>
streams == <<stream, replay, queue, sent, since>>
vars == <<calls, bus, streams>>

Call == DOMAIN calls
Finished == {"ok", "failed", "raised"}
Running(c) == calls[c].at \notin Finished

Init == /\ calls = <<>>
        /\ buffer = <<>> /\ records = <<>>
        /\ stream = [c \in Client |-> "away"]
        /\ replay = [c \in Client |-> <<>>]
        /\ queue = [c \in Client |-> <<>>]
        /\ sent = [c \in Client |-> 0]
        /\ since = [c \in Client |-> 0]

----------------------------------------------------------------------------
(* Faults: one definition each with a bug in it, used by no specification. *)

RetriesOnce(c, outcome) == /\ outcome \in Retryable \cup {"4xx"}
                           /\ Len(calls[c].log) + 1 < Attempts(calls[c].server, calls[c].op)

ResponseIsOk(c, outcome) ==
    CASE outcome \in {"2xx", "4xx", "5xx"} -> "ok"
      [] outcome = "raised" /\ calls[c].op # "trigger" -> "raised"
      [] OTHER -> "failed"

ReplaceOldest(q, n) == IF Len(q) >= QueueMax THEN [q EXCEPT ![1] = n] ELSE Append(q, n)

----------------------------------------------------------------------------
(* EventsBus *)

Recent == SubSeq(buffer, Len(buffer) + 1 - (IF Len(buffer) < RecentLimit
                                            THEN Len(buffer) ELSE RecentLimit), Len(buffer))

Enqueue(q, n) == Append(IF Len(q) >= QueueMax THEN Tail(q) ELSE q, n)

Publish(c, result) ==
    LET n == Len(records) + 1
    IN /\ records' = Append(records, [call |-> c, ok |-> result = "ok"])
       /\ buffer' = Append(IF Len(buffer) >= Capacity THEN Tail(buffer) ELSE buffer, n)
       /\ queue' = [k \in Client |-> IF stream[k] \in {"live", "gone"}
                                     THEN Enqueue(queue[k], n) ELSE queue[k]]
       /\ UNCHANGED <<stream, replay, sent, since>>

----------------------------------------------------------------------------
(* request_with_retry, the adapter around it, and who asked *)

Retries(c, outcome) == /\ outcome \in Retryable
                       /\ Len(calls[c].log) + 1 < Attempts(calls[c].server, calls[c].op)

(* The Dispatcher turns whatever an adapter raises into a failed result; a *)
(* probe lets it through to its request.                                   *)
Result(c, outcome) ==
    CASE Success(outcome) -> "ok"
      [] outcome = "raised" /\ calls[c].op # "trigger" -> "raised"
      [] OTHER -> "failed"

Ends(c, result, log) ==
    /\ calls' = [calls EXCEPT ![c].at = result, ![c].log = log]
    /\ IF calls[c].op = "trigger" THEN Publish(c, result)
                                  ELSE UNCHANGED <<bus, streams>>

Answer(c, outcome) ==
    /\ calls[c].at = "asking"
    /\ LET log == Append(calls[c].log, outcome)
       IN \/ /\ Retries(c, outcome)
             /\ calls' = [calls EXCEPT ![c].log = log]
             /\ UNCHANGED <<bus, streams>>
          \/ /\ ~Retries(c, outcome)
             /\ Ends(c, Result(c, outcome), log)

(* A list of libraries that cannot be parsed fails although it arrived.    *)
Unparsable(c) ==
    /\ calls[c].at = "asking" /\ calls[c].op = "libraries"
    /\ Ends(c, "failed", Append(calls[c].log, "2xx"))

(* WebhookAdapter._send: nothing is sent without a url, or if a template   *)
(* fails; what is neither a TemplateError nor a ValueError is raised.      *)
Render(c) ==
    /\ calls[c].at = "rendering"
    /\ \/ /\ calls' = [calls EXCEPT ![c].at = "asking"]
          /\ UNCHANGED <<bus, streams>>
       \/ Ends(c, "failed", <<>>)
       \/ Ends(c, Result(c, "raised"), <<>>)

(* Engine._dispatch, from a debounced timer or straight from the loop      *)
Begins(op, s, asks) ==
    calls' = Append(calls, [op |-> op, server |-> s, asks |-> asks, log |-> <<>>,
                            at |-> IF NeedsRendering(s) THEN "rendering" ELSE "asking"])

Dispatch(q) ==
    /\ Len(calls) < MaxCalls
    /\ q.server \in Adapted
    /\ Begins("trigger", q.server, Adapter(TypeOf[q.server], "trigger", q))
    /\ UNCHANGED <<bus, streams>>

DispatchUnadapted(q) ==
    /\ Len(calls) < MaxCalls
    /\ q.server \notin Adapted
    /\ calls' = Append(calls, [op |-> "trigger", server |-> q.server, asks |-> None,
                               log |-> <<>>, at |-> "failed"])
    /\ Publish(Len(calls) + 1, "failed")

(* _with_adapter: a client of its own for each probe *)
TestServer(s) ==
    /\ Len(calls) < MaxCalls /\ <<s, "test">> \in Probes
    /\ Begins("test", s, Adapter(TypeOf[s], "test", None))
    /\ UNCHANGED <<bus, streams>>

ListLibraries(s) ==
    /\ Len(calls) < MaxCalls /\ <<s, "libraries">> \in Probes
    /\ SupportsDiscovery(s)
    /\ Begins("libraries", s, Adapter(TypeOf[s], "libraries", None))
    /\ UNCHANGED <<bus, streams>>

----------------------------------------------------------------------------
(* _event_generator: the snapshot is replayed before the subscription, so  *)
(* what is published meanwhile is missed.                                  *)

Connect(k) ==
    /\ stream[k] = "away"
    /\ stream' = [stream EXCEPT ![k] = "replaying"]
    /\ replay' = [replay EXCEPT ![k] = Recent]
    /\ UNCHANGED <<calls, bus, queue, sent, since>>

Replay(k) ==
    /\ stream[k] = "replaying" /\ replay[k] # <<>>
    /\ sent' = [sent EXCEPT ![k] = Head(replay[k])]
    /\ replay' = [replay EXCEPT ![k] = Tail(@)]
    /\ UNCHANGED <<calls, bus, stream, queue, since>>

Subscribe(k) ==
    /\ stream[k] = "replaying" /\ replay[k] = <<>>
    /\ stream' = [stream EXCEPT ![k] = "live"]
    /\ since' = [since EXCEPT ![k] = Len(records)]
    /\ UNCHANGED <<calls, bus, replay, queue, sent>>

Send(k) ==
    /\ stream[k] = "live" /\ queue[k] # <<>>
    /\ sent' = [sent EXCEPT ![k] = Head(queue[k])]
    /\ queue' = [queue EXCEPT ![k] = Tail(@)]
    /\ UNCHANGED <<calls, bus, stream, replay, since>>

(* A client that has left is noticed with the next record (is_disconnected *)
(* after the get) or when its response is cancelled; until then its queue  *)
(* goes on filling.                                                        *)
Leave(k) ==
    /\ stream[k] \in {"replaying", "live"}
    /\ stream' = [stream EXCEPT ![k] = IF @ = "live" THEN "gone" ELSE "away"]
    /\ replay' = [replay EXCEPT ![k] = <<>>]
    /\ sent' = [sent EXCEPT ![k] = 0] /\ since' = [since EXCEPT ![k] = 0]
    /\ UNCHANGED <<calls, bus, queue>>

Unsubscribe(k) ==
    /\ stream[k] = "gone"
    /\ stream' = [stream EXCEPT ![k] = "away"]
    /\ queue' = [queue EXCEPT ![k] = <<>>]
    /\ UNCHANGED <<calls, bus, replay, sent, since>>

----------------------------------------------------------------------------
Proceed(c) == (\E outcome \in Outcome : Answer(c, outcome)) \/ Unparsable(c) \/ Render(c)
Follow(k) == Replay(k) \/ Subscribe(k) \/ Send(k) \/ Unsubscribe(k)

Next == \/ \E c \in Call : Proceed(c)
        \/ \E q \in Request : Dispatch(q) \/ DispatchUnadapted(q)
        \/ \E s \in Server : TestServer(s) \/ ListLibraries(s)
        \/ \E k \in Client : Follow(k) \/ Connect(k) \/ Leave(k)

Spec == Init /\ [][Next]_vars

----------------------------------------------------------------------------
(* Properties *)

(* "Retry on transport errors + 5xx; never retry 4xx": a finished call was *)
(* tried again exactly as often as that says; a scan, and the test of a    *)
(* webhook, at most max(1, retry_attempts) times and not less often if all *)
(* attempts failed so; any other probe makes one request.                  *)
RetriesAsConfigured ==
    \A c \in Call :
        LET log == calls[c].log
            retried == calls[c].op = "trigger" \/ TypeOf[calls[c].server] = "webhook"
        IN /\ \A i \in 1 .. Len(log) - 1 : log[i] \in {"5xx", "transport"}
           /\ ~retried => Len(log) <= 1
           /\ retried => Len(log) <= 1 \/ Len(log) <= RetryAttempts[calls[c].server]
           /\ retried /\ calls[c].at = "failed" /\ log # <<>>
                /\ Last(log) \in {"5xx", "transport"}
                => Len(log) >= RetryAttempts[calls[c].server]

(* "One bad server never raises out of dispatch": every finished dispatch  *)
(* has published exactly one record, which says ok if and only if the last *)
(* request was answered with 2xx; a probe publishes none.                  *)
OneHonestRecord ==
    \A c \in Call :
        LET own == {n \in DOMAIN records : records[n].call = c}
        IN IF calls[c].op # "trigger" \/ Running(c)
           THEN own = {}
           ELSE /\ Cardinality(own) = 1
                /\ \A n \in own : records[n].ok <=> (calls[c].log # <<>>
                                                     /\ Last(calls[c].log) = "2xx")

(* A stream never repeats or reorders records, whatever its queue dropped; *)
(* and however slow it is, the newest record since it subscribed is among  *)
(* those it has been or will be sent ("the OLDEST queued record is         *)
(* dropped").                                                              *)
StreamCurrent ==
    \A k \in Client :
        LET all == <<sent[k]>> \o replay[k] \o queue[k]
        IN stream[k] \in {"replaying", "live"} =>
             /\ \A i, j \in DOMAIN all : i < j => all[i] < all[j]
             /\ stream[k] = "live" /\ Len(records) > since[k]
                  => Last(all) = Len(records)
===============================================================================
