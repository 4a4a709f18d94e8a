---------------------------- MODULE DeliveryProofs ----------------------------
(***************************************************************************)
(* TLAPS proofs about the delivery of scan requests and the event stream,  *)
(* for every set of servers, requests and clients, every retry_attempts    *)
(* and every size of the bus and of a subscriber's queue.                  *)
(***************************************************************************)
EXTENDS Delivery, FiniteSetTheorems, SequenceTheorems, TLAPS

(* The invariant *)

Op == {"trigger", "test", "libraries"}
Asks == {Adapter(TypeOf[s], "trigger", q) : s \in Server, q \in Request}
        \cup {Adapter(TypeOf[s], "test", None) : s \in Server}
        \cup {Adapter(TypeOf[s], "libraries", None) : s \in {t \in Server : SupportsDiscovery(t)}}
        \cup {None}
CallRow == [op : Op, server : Server, asks : Asks, log : Seq(Outcome),
            at : {"rendering", "asking"} \cup Finished]
RecordRow == [call : Nat, ok : BOOLEAN]

Typed == /\ calls \in Seq(CallRow)
         /\ records \in Seq(RecordRow)
         /\ stream \in [Client -> {"away", "replaying", "live", "gone"}]
         /\ replay \in [Client -> Seq(Nat)]
         /\ queue \in [Client -> Seq(Nat)]
         /\ sent \in [Client -> Nat]
         /\ since \in [Client -> Nat]

(* A call that is not over has failed so far with what is tried again, and *)
(* less often than it may.                                                 *)
Trying(call) ==
    /\ call.at = "rendering" => call.log = <<>>
    /\ call.at = "asking" => /\ \A i \in DOMAIN call.log : call.log[i] \in Retryable
                             /\ Len(call.log) < Attempts(call.server, call.op)

(* What RetriesAsConfigured says of one call. *)
Tried(call) ==
    LET retried == call.op = "trigger" \/ TypeOf[call.server] = "webhook"
    IN /\ \A i \in 1 .. Len(call.log) - 1 : call.log[i] \in {"5xx", "transport"}
       /\ ~retried => Len(call.log) <= 1
       /\ retried => Len(call.log) <= 1 \/ Len(call.log) <= RetryAttempts[call.server]
       /\ retried /\ call.at = "failed" /\ call.log # <<>>
            /\ Last(call.log) \in {"5xx", "transport"}
            => Len(call.log) >= RetryAttempts[call.server]

Retried == \A c \in Call : Trying(calls[c]) /\ Tried(calls[c])

(* Whether the record of a finished call should say ok *)
Arrived(call) == call.log # <<>> /\ Last(call.log) = "2xx"
Dispatched(call) == call.op = "trigger" /\ call.at \in Finished

(* The records and the finished dispatches correspond one to one. *)
Published ==
    /\ \A n \in DOMAIN records : /\ records[n].call \in Call
                                 /\ Dispatched(calls[records[n].call])
                                 /\ records[n].ok <=> Arrived(calls[records[n].call])
    /\ \A c \in Call : Dispatched(calls[c]) => \E n \in DOMAIN records : records[n].call = c
    /\ \A m, n \in DOMAIN records : records[m].call = records[n].call => m = n

(* Numbers of records, later than lo and not later than hi, in order *)
Rising(q, lo, hi) == /\ q \in Seq(Nat)
                     /\ \A i \in 1 .. Len(q) : lo < q[i] /\ q[i] <= hi
                     /\ \A i, j \in 1 .. Len(q) : i < j => q[i] < q[j]

(* What a client has yet to be sent is later than what it was sent, and    *)
(* while it is live ends with the newest record.                           *)
StreamOk(k) ==
    /\ sent[k] <= Len(records)
    /\ stream[k] # "replaying" => replay[k] = <<>>
    /\ stream[k] = "replaying" => Rising(replay[k], sent[k], Len(records))
    /\ stream[k] \in {"away", "replaying"} => queue[k] = <<>>
    /\ stream[k] \in {"away", "gone"} => sent[k] = 0
    /\ stream[k] = "live" => /\ Rising(queue[k], sent[k], Len(records))
                             /\ Len(records) > since[k] =>
                                  IF queue[k] = <<>> THEN sent[k] = Len(records)
                                                     ELSE Last(queue[k]) = Len(records)

Streams == /\ Rising(buffer, 0, Len(records))
           /\ \A k \in Client : StreamOk(k)

IInv == Typed /\ Retried /\ Published /\ Streams

----------------------------------------------------------------------------
(* Rising sequences *)

(* The head of a rising sequence is before its tail, which ends alike. *)
LEMMA RisingTail ==
    ASSUME NEW lo \in Nat, NEW hi \in Nat, NEW q, Rising(q, lo, hi), q # <<>>
    PROVE  /\ Head(q) \in Nat /\ lo < Head(q) /\ Head(q) <= hi
           /\ Rising(Tail(q), Head(q), hi) /\ Rising(Tail(q), lo, hi)
           /\ IF Tail(q) = <<>> THEN Last(q) = Head(q) ELSE Last(q) = Last(Tail(q))
<1>1. q \in Seq(Nat)
  BY DEF Rising
<1>2. /\ Tail(q) \in Seq(Nat) /\ Len(Tail(q)) = Len(q) - 1 /\ Len(q) \in Nat \ {0}
      /\ \A i \in 1 .. Len(Tail(q)) : Tail(q)[i] = q[i + 1]
      /\ Head(q) = q[1]
  <2>1. Len(q) \in Nat \ {0}
    BY <1>1, EmptySeq
  <2>2. Head(q) = q[1]
    BY <1>1, <2>1
  <2>3. /\ Tail(q) \in Seq(Nat) /\ Len(Tail(q)) = Len(q) - 1
        /\ \A i \in 1 .. Len(Tail(q)) : Tail(q)[i] = q[i + 1]
    BY <1>1, HeadTailProperties
  <2> QED
    BY <2>1, <2>2, <2>3
<1>3. \A i \in 1 .. Len(Tail(q)) : Tail(q)[i] \in Nat /\ i + 1 \in 1 .. Len(q)
  BY <1>2, ElementOfSeq
<1>4. Tail(q) = <<>> <=> Len(q) = 1
  <2>1. Tail(q) # <<>> => Len(Tail(q)) \in Nat \ {0}
    BY <1>2, EmptySeq
  <2>2. Tail(q) = <<>> => Len(Tail(q)) = 0
    BY EmptySeq
  <2> QED
    BY <1>2, <2>1, <2>2
<1>5. Head(q) \in Nat /\ lo < Head(q) /\ Head(q) <= hi
  BY <1>1, <1>2, ElementOfSeq DEF Rising
<1>6. \A i \in 1 .. Len(Tail(q)) : lo < Tail(q)[i] /\ Head(q) < Tail(q)[i] /\ Tail(q)[i] <= hi
  BY <1>1, <1>2, <1>3 DEF Rising
<1>7. \A i, j \in 1 .. Len(Tail(q)) : i < j => Tail(q)[i] < Tail(q)[j]
  BY <1>1, <1>2, <1>3 DEF Rising
<1>8. IF Tail(q) = <<>> THEN Last(q) = Head(q) ELSE Last(q) = Last(Tail(q))
  <2>1. CASE Tail(q) = <<>>
    BY <1>2, <1>4, <2>1 DEF Last
  <2>2. CASE Tail(q) # <<>>
    <3>1. Len(Tail(q)) \in 1 .. Len(Tail(q)) /\ Len(Tail(q)) + 1 = Len(q)
      BY <1>2, <1>4, <2>2
    <3> QED
      BY <1>2, <2>2, <3>1 DEF Last
  <2> QED
    BY <2>1, <2>2
<1> QED
  BY <1>2, <1>5, <1>6, <1>7, <1>8 DEF Rising

(* What is newer than all of a rising sequence may be appended. *)
LEMMA RisingAppend ==
    ASSUME NEW lo \in Nat, NEW hi \in Nat, lo <= hi, NEW q, Rising(q, lo, hi)
    PROVE  /\ Rising(Append(q, hi + 1), lo, hi + 1)
           /\ Append(q, hi + 1) # <<>> /\ Last(Append(q, hi + 1)) = hi + 1
<1> DEFINE r == Append(q, hi + 1)
<1>1. q \in Seq(Nat) /\ Len(q) \in Nat
  BY LenProperties DEF Rising
<1>2. /\ r \in Seq(Nat) /\ r # <<>> /\ Len(r) = Len(q) + 1
      /\ \A i \in 1 .. Len(q) : r[i] = q[i]
      /\ r[Len(q) + 1] = hi + 1
  BY <1>1, AppendProperties
<1>3. \A i \in 1 .. Len(q) : q[i] \in Nat /\ lo < q[i] /\ q[i] <= hi
  BY <1>1, ElementOfSeq DEF Rising
<1>4. \A i \in 1 .. Len(r) : i \in 1 .. Len(q) \/ i = Len(q) + 1
  BY <1>1, <1>2
<1>5. \A i \in 1 .. Len(r) : lo < r[i] /\ r[i] <= hi + 1
  BY <1>1, <1>2, <1>3, <1>4
<1>6. \A i, j \in 1 .. Len(r) : i < j => r[i] < r[j]
  <2> SUFFICES ASSUME NEW i \in 1 .. Len(r), NEW j \in 1 .. Len(r), i < j
               PROVE  r[i] < r[j]
    OBVIOUS
  <2>1. i \in 1 .. Len(q)
    BY <1>1, <1>2
  <2>2. CASE j \in 1 .. Len(q)
    BY <1>2, <2>1, <2>2 DEF Rising
  <2>3. CASE j = Len(q) + 1
    BY <1>2, <1>3, <2>1, <2>3
  <2> QED
    BY <1>4, <2>2, <2>3
<1>7. Last(r) = hi + 1
  BY <1>2 DEF Last
<1> HIDE DEF r
<1>8. Rising(r, lo, hi + 1)
  BY <1>2, <1>5, <1>6 DEF Rising
<1> QED
  BY <1>2, <1>7, <1>8 DEF r

(* A full queue loses its oldest record to the newest. *)
LEMMA RisingEnqueue ==
    ASSUME NEW lo \in Nat, NEW hi \in Nat, lo <= hi, NEW q, Rising(q, lo, hi),
           NEW room \in Nat \ {0}
    PROVE  LET r == Append(IF Len(q) >= room THEN Tail(q) ELSE q, hi + 1)
           IN  Rising(r, lo, hi + 1) /\ r # <<>> /\ Last(r) = hi + 1
<1>1. CASE Len(q) >= room
  <2>1. q # <<>>
    BY <1>1, EmptySeq
  <2>2. Rising(Tail(q), lo, hi)
    BY <2>1, RisingTail
  <2> QED
    BY <1>1, <2>2, RisingAppend
<1>2. CASE ~(Len(q) >= room)
  BY <1>2, RisingAppend
<1> QED
  BY <1>1, <1>2

(* The snapshot of the bus is the rising end of a rising buffer. *)
LEMMA RecentRises == Streams /\ Typed => Rising(Recent, 0, Len(records))
<1> SUFFICES ASSUME Streams, Typed PROVE Rising(Recent, 0, Len(records))
  OBVIOUS
<1> DEFINE m == Len(buffer) + 1 - (IF Len(buffer) < RecentLimit THEN Len(buffer) ELSE RecentLimit)
           n == Len(buffer)
<1>1. buffer \in Seq(Nat) /\ n \in Nat /\ RecentLimit \in Nat \ {0}
  <2>1. buffer \in Seq(Nat)
    BY DEF Streams, Rising
  <2> QED
    BY <2>1, BoundAssumption, LenProperties
<1>2. m \in Int /\ n \in Int /\ 1 <= m /\ m <= n + 1
  <2>1. CASE Len(buffer) < RecentLimit
    BY <1>1, <2>1
  <2>2. CASE ~(Len(buffer) < RecentLimit)
    BY <1>1, <2>2
  <2> QED
    BY <2>1, <2>2
<1>3. Recent = SubSeq(buffer, m, n)
  BY DEF Recent
<1> HIDE DEF m, n
<1>4. \A i \in m .. n : i \in 1 .. Len(buffer) /\ buffer[i] \in Nat
  BY <1>1, <1>2, ElementOfSeq DEF n
<1>5. /\ Recent \in Seq(Nat)
      /\ Len(Recent) = IF m <= n THEN n - m + 1 ELSE 0
      /\ \A i \in 1 .. n - m + 1 : Recent[i] = buffer[m + i - 1]
  BY <1>2, <1>3, <1>4, SubSeqProperties
<1>6. \A i \in 1 .. Len(Recent) : Recent[i] = buffer[m + i - 1] /\ m + i - 1 \in 1 .. Len(buffer)
  BY <1>1, <1>2, <1>5 DEF n
<1>7. \A i \in 1 .. Len(Recent) : 0 < Recent[i] /\ Recent[i] <= Len(records)
  BY <1>6 DEF Streams, Rising
<1>8. \A i, j \in 1 .. Len(Recent) : i < j => Recent[i] < Recent[j]
  <2> SUFFICES ASSUME NEW i \in 1 .. Len(Recent), NEW j \in 1 .. Len(Recent), i < j
               PROVE  Recent[i] < Recent[j]
    OBVIOUS
  <2>1. m + i - 1 < m + j - 1
    BY <1>2
  <2> QED
    BY <1>6, <2>1 DEF Streams, Rising
<1> QED
  BY <1>5, <1>7, <1>8 DEF Rising

----------------------------------------------------------------------------
(* Calls *)

(* max(1, retry_attempts), where a call is tried again at all *)
LEMMA AttemptsAre ==
    ASSUME NEW s \in Server, NEW op \in Op
    PROVE  LET retried == op = "trigger" \/ TypeOf[s] = "webhook"
           IN  /\ Attempts(s, op) \in Nat \ {0}
               /\ RetryAttempts[s] \in Nat
               /\ ~retried => Attempts(s, op) = 1
               /\ retried => /\ RetryAttempts[s] <= Attempts(s, op)
                             /\ Attempts(s, op) <= 1 \/ Attempts(s, op) = RetryAttempts[s]
BY AttemptsAssumption DEF Attempts

(* A call is a row of the log of calls. *)
LEMMA CallIsRow == Typed => /\ Call = 1 .. Len(calls) /\ Len(calls) \in Nat
                            /\ \A c \in Call : calls[c] \in CallRow
BY LenProperties, ElementOfSeq DEF Typed, Call

(* What changes in the log when a call gets on. *)
LEMMA SetCall ==
    ASSUME Typed, NEW c \in Call, NEW result \in {"rendering", "asking"} \cup Finished, NEW log \in Seq(Outcome),
           calls' = [calls EXCEPT ![c].at = result, ![c].log = log]
    PROVE  /\ calls' \in Seq(CallRow)
           /\ Call' = Call
           /\ calls'[c] = [calls[c] EXCEPT !.at = result, !.log = log]
           /\ \A b \in Call \ {c} : calls'[b] = calls[b]
<1> DEFINE row == [calls[c] EXCEPT !.at = result, !.log = log]
<1>1. calls \in Seq(CallRow) /\ c \in 1 .. Len(calls) /\ calls[c] \in CallRow
  BY CallIsRow DEF Typed
<1>2. row \in CallRow
  BY <1>1 DEF CallRow
<1>3. calls' = [calls EXCEPT ![c] = row]
  BY <1>1 DEF CallRow
<1>4. /\ calls' \in Seq(CallRow) /\ Len(calls') = Len(calls)
      /\ \A j \in 1 .. Len(calls) : calls'[j] = IF j = c THEN row ELSE calls[j]
  <2> HIDE DEF row
  <2>1. /\ [calls EXCEPT ![c] = row] \in Seq(CallRow)
        /\ Len([calls EXCEPT ![c] = row]) = Len(calls)
        /\ \A j \in 1 .. Len(calls) : [calls EXCEPT ![c] = row][j] = IF j = c THEN row ELSE calls[j]
    BY <1>1, <1>2, ExceptSeq
  <2> QED
    BY <1>3, <2>1
<1>5. DOMAIN calls' = DOMAIN calls
  BY <1>3
<1> QED
  BY <1>1, <1>4, <1>5, CallIsRow DEF Call

(* What changes in the log when a call begins. *)
LEMMA AddCall ==
    ASSUME Typed, NEW row \in CallRow, calls' = Append(calls, row)
    PROVE  /\ calls' \in Seq(CallRow)
           /\ Len(calls) + 1 \notin Call
           /\ Call' = Call \cup {Len(calls) + 1}
           /\ calls'[Len(calls) + 1] = row
           /\ \A b \in Call : calls'[b] = calls[b]
<1>1. calls \in Seq(CallRow) /\ Len(calls) \in Nat /\ Call = 1 .. Len(calls)
  BY CallIsRow DEF Typed
<1>2. /\ calls' \in Seq(CallRow) /\ Len(calls') = Len(calls) + 1
      /\ \A i \in 1 .. Len(calls) : calls'[i] = calls[i]
      /\ calls'[Len(calls) + 1] = row
  BY <1>1, AppendProperties
<1>3. Call' = 1 .. Len(calls) + 1
  BY <1>2, LenProperties DEF Call
<1> QED
  BY <1>1, <1>2, <1>3

(* One more outcome, which is tried again or is the last. *)
LEMMA OneMoreTry ==
    ASSUME NEW call \in CallRow, NEW outcome \in Outcome, NEW result \in {"asking"} \cup Finished,
           call.at = "asking", Trying(call),
           result = "asking" => outcome \in Retryable /\ Len(call.log) + 1 < Attempts(call.server, call.op),
           result # "asking" => \/ outcome \notin Retryable
                                \/ ~(Len(call.log) + 1 < Attempts(call.server, call.op))
    PROVE  LET new == [call EXCEPT !.at = result, !.log = Append(call.log, outcome)]
           IN  Trying(new) /\ Tried(new)
<1> DEFINE log == Append(call.log, outcome)
           new == [call EXCEPT !.at = result, !.log = log]
           n == Attempts(call.server, call.op)
           retried == call.op = "trigger" \/ TypeOf[call.server] = "webhook"
<1>1. /\ call.log \in Seq(Outcome) /\ Len(call.log) \in Nat
      /\ call.server \in Server /\ call.op \in Op
  BY LenProperties DEF CallRow
<1>2. /\ log \in Seq(Outcome) /\ log # <<>> /\ Len(log) = Len(call.log) + 1
      /\ \A i \in 1 .. Len(call.log) : log[i] = call.log[i]
      /\ log[Len(call.log) + 1] = outcome
  BY <1>1, AppendProperties
<1>3. DOMAIN log = 1 .. Len(log) /\ DOMAIN call.log = 1 .. Len(call.log)
  BY <1>1, <1>2, LenProperties
<1>4. new.op = call.op /\ new.server = call.server /\ new.at = result /\ new.log = log
  BY DEF CallRow
<1>5. /\ n \in Nat \ {0} /\ RetryAttempts[call.server] \in Nat
      /\ ~retried => n = 1
      /\ retried => /\ RetryAttempts[call.server] <= n
                    /\ n <= 1 \/ n = RetryAttempts[call.server]
  BY <1>1, AttemptsAre
<1>6. (\A i \in 1 .. Len(call.log) : call.log[i] \in Retryable) /\ Len(call.log) < n
  BY <1>3 DEF Trying
<1> HIDE DEF log, new, n, retried
<1>7. Trying(new)
  <2>1. result # "rendering"
    BY DEF Finished
  <2>2. ASSUME result = "asking" PROVE (\A i \in 1 .. Len(log) : log[i] \in Retryable) /\ Len(log) < n
    BY <1>1, <1>2, <1>6, <2>2 DEF n
  <2> QED
    BY <1>3, <1>4, <2>1, <2>2 DEF Trying, n
<1>8. Tried(new)
  <2>1. \A i \in 1 .. Len(log) - 1 : log[i] \in {"5xx", "transport"}
    BY <1>1, <1>2, <1>6 DEF Retryable
  <2>2. Len(log) <= n
    BY <1>1, <1>2, <1>5, <1>6
  <2>3. Last(log) = outcome
    BY <1>2 DEF Last
  <2>4. result = "failed" /\ Last(log) \in {"5xx", "transport"} => Len(log) = n
    BY <1>1, <1>2, <1>5, <1>6, <2>3 DEF Retryable, n
  <2>5. Len(log) \in Nat
    BY <1>1, <1>2
  <2> QED
    BY <1>4, <1>5, <2>1, <2>2, <2>4, <2>5 DEF Tried, retried
<1> QED
  BY <1>7, <1>8 DEF new, log

----------------------------------------------------------------------------
(* Records *)

(* A record that is published is new to the bus and to every live stream. *)
LEMMA PublishStreams ==
    ASSUME Typed, Streams, NEW c \in Nat, NEW result, Publish(c, result)
    PROVE  /\ records' \in Seq(RecordRow)
           /\ Len(records) \in Nat
           /\ DOMAIN records = 1 .. Len(records)
           /\ DOMAIN records' = 1 .. Len(records) + 1
           /\ \A n \in DOMAIN records : records'[n] = records[n]
           /\ records'[Len(records) + 1] = [call |-> c, ok |-> result = "ok"]
           /\ queue' \in [Client -> Seq(Nat)]
           /\ UNCHANGED <<stream, replay, sent, since>>
           /\ Streams'
<1> DEFINE row == [call |-> c, ok |-> result = "ok"]
<1>1. row \in RecordRow /\ records \in Seq(RecordRow) /\ Len(records) \in Nat /\ DOMAIN records = 1 .. Len(records)
  <2>1. row \in RecordRow /\ records \in Seq(RecordRow)
    BY DEF RecordRow, Typed
  <2> QED
    BY <2>1, LenProperties
<1>2. /\ records' = Append(records, row)
      /\ buffer' = Append(IF Len(buffer) >= Capacity THEN Tail(buffer) ELSE buffer, Len(records) + 1)
      /\ queue' = [k \in Client |-> IF stream[k] \in {"live", "gone"}
                                    THEN Enqueue(queue[k], Len(records) + 1) ELSE queue[k]]
      /\ UNCHANGED <<stream, replay, sent, since>>
  BY DEF Publish
<1> HIDE DEF row
<1>3. /\ records' \in Seq(RecordRow) /\ Len(records') = Len(records) + 1
      /\ \A n \in 1 .. Len(records) : records'[n] = records[n]
      /\ records'[Len(records) + 1] = row
  BY <1>1, <1>2, AppendProperties
<1>4. DOMAIN records' = 1 .. Len(records) + 1
  BY <1>3, LenProperties
<1>5. Rising(buffer', 0, Len(records'))
  <2>1. Capacity \in Nat \ {0}
    BY BoundAssumption
  <2> QED
    BY <1>1, <1>2, <1>3, <2>1, RisingEnqueue DEF Streams
<1>6. queue' \in [Client -> Seq(Nat)]
  <2> SUFFICES ASSUME NEW k \in Client PROVE queue'[k] \in Seq(Nat)
    BY <1>2
  <2>1. queue[k] \in Seq(Nat)
    BY DEF Typed
  <2>2. queue[k] # <<>> => Tail(queue[k]) \in Seq(Nat)
    BY <2>1, HeadTailProperties
  <2>3. Len(queue[k]) >= QueueMax => queue[k] # <<>>
    BY <2>1, BoundAssumption, EmptySeq
  <2>4. Enqueue(queue[k], Len(records) + 1) \in Seq(Nat)
    BY <1>1, <2>1, <2>2, <2>3, AppendProperties DEF Enqueue
  <2> QED
    BY <1>2, <2>1, <2>4
<1>7. ASSUME NEW k \in Client PROVE StreamOk(k)'
  <2>1. StreamOk(k) /\ sent[k] \in Nat /\ replay[k] \in Seq(Nat) /\ queue[k] \in Seq(Nat) /\ since[k] \in Nat
    BY DEF Streams, Typed
  <2>2. CASE stream[k] = "live"
    <3>1. Rising(queue[k], sent[k], Len(records)) /\ sent[k] <= Len(records)
      BY <2>1, <2>2 DEF StreamOk
    <3>2. QueueMax \in Nat \ {0}
      BY BoundAssumption
    <3>3. LET q == Enqueue(queue[k], Len(records) + 1)
          IN  Rising(q, sent[k], Len(records) + 1) /\ q # <<>> /\ Last(q) = Len(records) + 1
      BY <1>1, <2>1, <3>1, <3>2, RisingEnqueue DEF Enqueue
    <3>4. queue'[k] = Enqueue(queue[k], Len(records) + 1)
      BY <1>2, <2>2
    <3> QED
      BY <1>1, <1>2, <1>3, <2>1, <2>2, <3>3, <3>4 DEF StreamOk
  <2>3. CASE stream[k] = "replaying"
    <3>1. Rising(replay[k], sent[k], Len(records))
      BY <2>1, <2>3 DEF StreamOk
    <3>2. Rising(replay[k], sent[k], Len(records) + 1)
      BY <1>1, <2>1, <3>1, ElementOfSeq DEF Rising
    <3>3. queue'[k] = queue[k]
      BY <1>2, <2>3
    <3> QED
      BY <1>1, <1>2, <1>3, <2>1, <2>3, <3>2, <3>3 DEF StreamOk
  <2>4. CASE stream[k] \notin {"live", "replaying"}
    <3>1. stream[k] = "away" => queue'[k] = queue[k]
      BY <1>2
    <3>2. /\ stream'[k] = stream[k] /\ stream[k] # "live" /\ stream[k] # "replaying"
          /\ sent'[k] = sent[k] /\ replay'[k] = <<>>
      BY <1>2, <2>1, <2>4 DEF StreamOk
    <3>3. sent[k] <= Len(records')
      BY <1>1, <1>3, <2>1 DEF StreamOk
    <3> QED
      BY <2>1, <3>1, <3>2, <3>3 DEF StreamOk
  <2> QED
    BY <2>2, <2>3, <2>4
<1> QED
  BY <1>1, <1>2, <1>3, <1>4, <1>5, <1>6, <1>7 DEF Streams, row

(* Calls that are no finished dispatch before or after need no record. *)
LEMMA NoRecordNeeded ==
    ASSUME Published, records' = records, Call \subseteq Call',
           \A b \in Call : Dispatched(calls[b]) => calls'[b] = calls[b],
           \A b \in Call' : Dispatched(calls'[b]) => b \in Call /\ Dispatched(calls[b])
    PROVE  Published'
BY DEF Published

(* A dispatch that ends needs one record of its own. *)
LEMMA OneRecordNeeded ==
    ASSUME Typed, Published, NEW c, NEW n, n \notin DOMAIN records,
           DOMAIN records' = DOMAIN records \cup {n},
           \A m \in DOMAIN records : records'[m] = records[m],
           Call' = Call \cup {c}, \A b \in Call \ {c} : calls'[b] = calls[b],
           c \in Call => ~Dispatched(calls[c]), Dispatched(calls'[c]),
           records'[n].call = c, records'[n].ok <=> Arrived(calls'[c])
    PROVE  Published'
<1>1. \A m \in DOMAIN records : records[m].call \in Call \ {c}
  BY DEF Published
<1>2. \A m \in DOMAIN records' : /\ records'[m].call \in Call'
                                 /\ Dispatched(calls'[records'[m].call])
                                 /\ records'[m].ok <=> Arrived(calls'[records'[m].call])
  BY <1>1 DEF Published
<1>3. ASSUME NEW b \in Call', Dispatched(calls'[b]) PROVE \E m \in DOMAIN records' : records'[m].call = b
  <2>1. CASE b = c
    BY <2>1
  <2>2. CASE b # c
    <3>1. PICK m \in DOMAIN records : records[m].call = b
      BY <1>3, <2>2 DEF Published
    <3> QED
      BY <3>1
  <2> QED
    BY <2>1, <2>2
<1>4. \A l, m \in DOMAIN records' : records'[l].call = records'[m].call => l = m
  BY <1>1 DEF Published
<1> QED
  BY <1>2, <1>3, <1>4 DEF Published

----------------------------------------------------------------------------
(* The invariant is inductive *)

(* Nothing is called, published or followed at first. *)
LEMMA InitInv == Init => IInv
<1> SUFFICES ASSUME Init PROVE IInv
  OBVIOUS
<1>1. DOMAIN calls = {} /\ DOMAIN records = {} /\ Len(records) = 0 /\ Len(buffer) = 0
  BY DEF Init
<1>2. Typed
  BY EmptySeq DEF Init, Typed
<1>3. Retried /\ Published
  BY <1>1 DEF Retried, Published, Call
<1>4. Rising(buffer, 0, Len(records))
  BY <1>1, EmptySeq DEF Init, Rising
<1>5. \A k \in Client : StreamOk(k)
  BY <1>1 DEF Init, StreamOk
<1> QED
  BY <1>2, <1>3, <1>4, <1>5 DEF IInv, Streams

(* What a call that gets on does to its row. *)
LEMMA RetriedSet ==
    ASSUME Retried, NEW c \in Call, NEW row, Call' = Call, calls'[c] = row, Trying(row), Tried(row),
           \A b \in Call \ {c} : calls'[b] = calls[b]
    PROVE  Retried'
BY DEF Retried, Trying, Tried

(* Without a record nothing changes for the streams. *)
LEMMA SameStreams == Typed /\ Streams /\ UNCHANGED <<bus, streams>> => Streams'
BY DEF Streams, StreamOk, Rising, bus, streams

(* A call that goes on leaves the bus alone. *)
LEMMA GoesOn ==
    ASSUME IInv, NEW c \in Call, NEW result \in {"rendering", "asking"}, NEW log \in Seq(Outcome),
           calls' = [calls EXCEPT ![c].at = result, ![c].log = log], UNCHANGED <<bus, streams>>,
           calls[c].at \notin Finished,
           LET new == [calls[c] EXCEPT !.at = result, !.log = log] IN Trying(new) /\ Tried(new)
    PROVE  IInv'
<1>1. /\ calls' \in Seq(CallRow)
      /\ Call' = Call
      /\ calls'[c] = [calls[c] EXCEPT !.at = result, !.log = log]
      /\ \A b \in Call \ {c} : calls'[b] = calls[b]
  BY SetCall DEF IInv
<1>2. calls'[c].at = result
  BY <1>1, CallIsRow DEF IInv, CallRow
<1>3. Typed'
  BY <1>1 DEF IInv, Typed, bus, streams
<1>4. Retried'
  BY <1>1, RetriedSet DEF IInv
<1>5. ~Dispatched(calls[c]) /\ ~Dispatched(calls'[c]) /\ records' = records
  BY <1>2 DEF Dispatched, Finished, bus
<1>6. Published'
  BY <1>1, <1>5, NoRecordNeeded DEF IInv
<1>7. Streams'
  BY SameStreams DEF IInv
<1> QED
  BY <1>3, <1>4, <1>6, <1>7 DEF IInv

(* A call that ends: a dispatch publishes its record in the same step. *)
LEMMA EndsInv ==
    ASSUME IInv, NEW c \in Call, NEW result \in Finished, NEW log \in Seq(Outcome), Ends(c, result, log),
           calls[c].at \notin Finished,
           LET new == [calls[c] EXCEPT !.at = result, !.log = log] IN Trying(new) /\ Tried(new),
           calls[c].op = "trigger" => (result = "ok" <=> (log # <<>> /\ Last(log) = "2xx"))
    PROVE  IInv'
<1>1. /\ calls' \in Seq(CallRow)
      /\ Call' = Call
      /\ calls'[c] = [calls[c] EXCEPT !.at = result, !.log = log]
      /\ \A b \in Call \ {c} : calls'[b] = calls[b]
  BY SetCall DEF IInv, Ends
<1>2. calls'[c].at = result /\ calls'[c].op = calls[c].op /\ calls'[c].log = log /\ c \in Nat
  BY <1>1, CallIsRow DEF IInv, CallRow
<1>3. Retried'
  BY <1>1, RetriedSet DEF IInv
<1>4. ~Dispatched(calls[c])
  BY DEF Dispatched
<1>5. CASE calls[c].op = "trigger"
  <2>1. Publish(c, result)
    BY <1>5 DEF Ends
  <2>2. /\ records' \in Seq(RecordRow)
        /\ DOMAIN records' = DOMAIN records \cup {Len(records) + 1} /\ Len(records) + 1 \notin DOMAIN records
        /\ \A n \in DOMAIN records : records'[n] = records[n]
        /\ records'[Len(records) + 1] = [call |-> c, ok |-> result = "ok"]
        /\ queue' \in [Client -> Seq(Nat)]
        /\ UNCHANGED <<stream, replay, sent, since>>
        /\ Streams'
    <3>1. Typed /\ Streams
      BY DEF IInv
    <3>2. /\ records' \in Seq(RecordRow) /\ Len(records) \in Nat
          /\ DOMAIN records = 1 .. Len(records) /\ DOMAIN records' = 1 .. Len(records) + 1
          /\ \A n \in DOMAIN records : records'[n] = records[n]
          /\ records'[Len(records) + 1] = [call |-> c, ok |-> result = "ok"]
          /\ queue' \in [Client -> Seq(Nat)]
          /\ UNCHANGED <<stream, replay, sent, since>>
          /\ Streams'
      BY <1>2, <2>1, <3>1, PublishStreams, Zenon
    <3>3. DOMAIN records' = DOMAIN records \cup {Len(records) + 1} /\ Len(records) + 1 \notin DOMAIN records
      BY <3>2
    <3> QED
      BY <3>2, <3>3
  <2>3. Typed'
    BY <1>1, <2>2 DEF IInv, Typed
  <2>4. Dispatched(calls'[c])
    BY <1>2, <1>5 DEF Dispatched
  <2> HIDE DEF Dispatched
  <2>5. /\ records'[Len(records) + 1].call = c
        /\ records'[Len(records) + 1].ok <=> Arrived(calls'[c])
    <3>1. records'[Len(records) + 1].call = c /\ records'[Len(records) + 1].ok = (result = "ok")
      BY <2>2
    <3>2. (result = "ok") <=> Arrived(calls'[c])
      BY <1>2, <1>5 DEF Arrived
    <3> QED
      BY <3>1, <3>2, Zenon
  <2>6. Published'
    <3>1. Typed /\ Published
      BY DEF IInv
    <3>2. Call' = Call \cup {c}
      BY <1>1
    <3> QED
      BY <1>1, <1>4, <2>2, <2>4, <2>5, <3>1, <3>2, OneRecordNeeded, ZenonT(40)
  <2> QED
    BY <1>3, <2>2, <2>3, <2>6 DEF IInv
<1>6. CASE calls[c].op # "trigger"
  <2>1. UNCHANGED <<bus, streams>>
    BY <1>6 DEF Ends
  <2>2. Typed'
    BY <1>1, <2>1 DEF IInv, Typed, bus, streams
  <2>3. ~Dispatched(calls'[c]) /\ records' = records
    BY <1>2, <1>6, <2>1 DEF Dispatched, bus
  <2>4. Published'
    BY <1>1, <1>4, <2>3, NoRecordNeeded DEF IInv
  <2>5. Streams'
    BY <2>1, SameStreams DEF IInv
  <2> QED
    BY <1>3, <2>2, <2>4, <2>5 DEF IInv
<1> QED
  BY <1>5, <1>6

(* A call that has not asked anything yet may ask, or fail unasked. *)
LEMMA NothingTried ==
    ASSUME NEW row \in CallRow, row.log = <<>>
    PROVE  Trying(row) /\ Tried(row)
<1>1. Len(row.log) = 0 /\ DOMAIN row.log = {}
  OBVIOUS
<1>2. Attempts(row.server, row.op) \in Nat \ {0}
  BY AttemptsAre DEF CallRow
<1> QED
  BY <1>1, <1>2 DEF Trying, Tried

(* Retried holds of a new call, too. *)
LEMMA RetriedAdd ==
    ASSUME Retried, NEW c, c \notin Call, Call' = Call \cup {c}, NEW row, calls'[c] = row,
           Trying(row), Tried(row), \A b \in Call : calls'[b] = calls[b]
    PROVE  Retried'
BY DEF Retried, Trying, Tried

(* A call begins. *)
LEMMA BeginsInv ==
    ASSUME IInv, NEW row \in CallRow, row.log = <<>>, row.at \in {"rendering", "asking"},
           calls' = Append(calls, row), UNCHANGED <<bus, streams>>
    PROVE  IInv'
<1> DEFINE c == Len(calls) + 1
<1>1. /\ calls' \in Seq(CallRow) /\ c \notin Call /\ Call' = Call \cup {c}
      /\ calls'[c] = row /\ \A b \in Call : calls'[b] = calls[b]
  BY AddCall DEF IInv
<1> HIDE DEF c
<1>2. Typed'
  BY <1>1 DEF IInv, Typed, bus, streams
<1>3. Retried'
  BY <1>1, NothingTried, RetriedAdd DEF IInv
<1>4. ~Dispatched(calls'[c]) /\ records' = records
  BY <1>1 DEF Dispatched, Finished, bus
<1>5. Published'
  BY <1>1, <1>4, NoRecordNeeded DEF IInv
<1>6. Streams'
  BY SameStreams DEF IInv
<1> QED
  BY <1>2, <1>3, <1>5, <1>6 DEF IInv

(* What any of the four ways to begin asks is what its adapter asks. *)
LEMMA BeginsRow ==
    ASSUME NEW op \in Op, NEW s \in Server, NEW asks \in Asks, Begins(op, s, asks),
           IInv, UNCHANGED <<bus, streams>>
    PROVE  IInv'
<1> DEFINE row == [op |-> op, server |-> s, asks |-> asks, log |-> <<>>,
                  at |-> IF NeedsRendering(s) THEN "rendering" ELSE "asking"]
<1>1. row \in CallRow /\ row.log = <<>> /\ row.at \in {"rendering", "asking"}
  BY EmptySeq DEF CallRow
<1>2. calls' = Append(calls, row)
  BY DEF Begins
<1> QED
  BY <1>1, <1>2, BeginsInv

(* A scan request is dispatched to its adapter. *)
LEMMA DispatchInv == ASSUME IInv, NEW q \in Request, Dispatch(q) PROVE IInv'
<1>1. q.server \in Server /\ Adapter(TypeOf[q.server], "trigger", q) \in Asks
  BY RequestAssumption DEF Asks
<1>2. Begins("trigger", q.server, Adapter(TypeOf[q.server], "trigger", q)) /\ UNCHANGED <<bus, streams>>
  BY DEF Dispatch
<1> QED
  BY <1>1, <1>2, BeginsRow DEF Op

(* A server is tested. *)
LEMMA TestServerInv == ASSUME IInv, NEW s \in Server, TestServer(s) PROVE IInv'
<1>1. Adapter(TypeOf[s], "test", None) \in Asks
  BY DEF Asks
<1>2. Begins("test", s, Adapter(TypeOf[s], "test", None)) /\ UNCHANGED <<bus, streams>>
  BY DEF TestServer
<1> QED
  BY <1>1, <1>2, BeginsRow DEF Op

(* A server is asked for its libraries. *)
LEMMA ListLibrariesInv == ASSUME IInv, NEW s \in Server, ListLibraries(s) PROVE IInv'
<1>1. Adapter(TypeOf[s], "libraries", None) \in Asks
  BY DEF Asks, ListLibraries
<1>2. Begins("libraries", s, Adapter(TypeOf[s], "libraries", None)) /\ UNCHANGED <<bus, streams>>
  BY DEF ListLibraries
<1> QED
  BY <1>1, <1>2, BeginsRow DEF Op

(* A request for a server without an adapter fails at once, with a record. *)
LEMMA DispatchUnadaptedInv == ASSUME IInv, NEW q \in Request, DispatchUnadapted(q) PROVE IInv'
<1> DEFINE c == Len(calls) + 1
           row == [op |-> "trigger", server |-> q.server, asks |-> None, log |-> <<>>, at |-> "failed"]
<1>1. row \in CallRow /\ row.log = <<>> /\ row.op = "trigger" /\ row.at = "failed"
  BY RequestAssumption, EmptySeq DEF CallRow, Op, Asks, Finished
<1>2. calls' = Append(calls, row) /\ Publish(c, "failed")
  BY DEF DispatchUnadapted
<1>3. c \in Nat
  BY CallIsRow DEF IInv
<1> HIDE DEF row
<1>4. /\ calls' \in Seq(CallRow) /\ c \notin Call /\ Call' = Call \cup {c}
      /\ calls'[c] = row /\ \A b \in Call : calls'[b] = calls[b]
  BY <1>1, <1>2, AddCall DEF IInv
<1> HIDE DEF c
<1>5. /\ records' \in Seq(RecordRow) /\ Len(records) \in Nat
      /\ DOMAIN records = 1 .. Len(records) /\ DOMAIN records' = 1 .. Len(records) + 1
      /\ \A n \in DOMAIN records : records'[n] = records[n]
      /\ records'[Len(records) + 1] = [call |-> c, ok |-> "failed" = "ok"]
      /\ queue' \in [Client -> Seq(Nat)]
      /\ UNCHANGED <<stream, replay, sent, since>>
      /\ Streams'
  <2>1. Typed /\ Streams
    BY DEF IInv
  <2> QED
    BY <1>2, <1>3, <2>1, PublishStreams, Zenon
<1>6. DOMAIN records' = DOMAIN records \cup {Len(records) + 1} /\ Len(records) + 1 \notin DOMAIN records
  BY <1>5
<1>7. Typed'
  BY <1>4, <1>5 DEF IInv, Typed
<1>8. Retried'
  BY <1>1, <1>4, NothingTried, RetriedAdd DEF IInv
<1>9. Dispatched(calls'[c]) /\ ~Arrived(calls'[c])
  BY <1>1, <1>4 DEF Dispatched, Arrived, Finished
<1>10. records'[Len(records) + 1].call = c /\ (records'[Len(records) + 1].ok <=> Arrived(calls'[c]))
  <2>1. records'[Len(records) + 1].call = c /\ records'[Len(records) + 1].ok = ("failed" = "ok")
    BY <1>5
  <2>2. ("failed" = "ok") <=> FALSE
    OBVIOUS
  <2> QED
    BY <1>9, <2>1, <2>2, Zenon
<1>11. Published'
  <2>1. Typed /\ Published
    BY DEF IInv
  <2> QED
    BY <1>4, <1>5, <1>6, <1>9, <1>10, <2>1, OneRecordNeeded, ZenonT(40)
<1> QED
  BY <1>5, <1>7, <1>8, <1>11 DEF IInv

(* An outcome ends a call, or it is tried again. *)
LEMMA AnswerInv ==
    ASSUME IInv, NEW c \in Call, NEW outcome \in Outcome, Answer(c, outcome)
    PROVE  IInv'
<1> DEFINE log == Append(calls[c].log, outcome)
<1>1. calls[c] \in CallRow /\ calls[c].at = "asking" /\ Trying(calls[c])
  BY CallIsRow DEF IInv, Retried, Answer
<1>2. log \in Seq(Outcome)
  BY <1>1, AppendProperties DEF CallRow
<1>3. CASE Retries(c, outcome) /\ calls' = [calls EXCEPT ![c].log = log] /\ UNCHANGED <<bus, streams>>
  <2>1. calls' = [calls EXCEPT ![c].at = "asking", ![c].log = log]
    BY <1>1, <1>3 DEF CallRow
  <2>2. LET new == [calls[c] EXCEPT !.at = "asking", !.log = log] IN Trying(new) /\ Tried(new)
    BY <1>1, <1>3, OneMoreTry DEF Retries
  <2> HIDE DEF log
  <2> QED
    BY <1>1, <1>2, <1>3, <2>1, <2>2, GoesOn DEF Finished
<1>4. CASE ~Retries(c, outcome) /\ Ends(c, Result(c, outcome), log)
  <2>1. /\ Result(c, outcome) \in Finished
        /\ calls[c].op = "trigger" => (Result(c, outcome) = "ok" <=> outcome = "2xx")
    BY DEF Result, Success, Finished
  <2>2. log # <<>> /\ Last(log) = outcome
    <3>1. Len(calls[c].log) \in Nat /\ calls[c].log \in Seq(Outcome)
      BY <1>1, LenProperties DEF CallRow
    <3> QED
      BY <3>1, AppendProperties DEF Last
  <2>3. outcome \notin Retryable \/ ~(Len(calls[c].log) + 1 < Attempts(calls[c].server, calls[c].op))
    BY <1>4 DEF Retries
  <2>4. Result(c, outcome) # "asking"
    BY <2>1 DEF Finished
  <2>5. LET new == [calls[c] EXCEPT !.at = Result(c, outcome), !.log = log] IN Trying(new) /\ Tried(new)
    BY <1>1, <2>1, <2>3, <2>4, OneMoreTry
  <2> HIDE DEF log
  <2> QED
    BY <1>1, <1>2, <1>4, <2>1, <2>2, <2>5, EndsInv DEF Finished
<1> QED
  BY <1>3, <1>4 DEF Answer

(* A list of libraries that makes no sense ends the probe. *)
LEMMA UnparsableInv == ASSUME IInv, NEW c \in Call, Unparsable(c) PROVE IInv'
<1> DEFINE log == Append(calls[c].log, "2xx")
<1>1. calls[c] \in CallRow /\ calls[c].at = "asking" /\ calls[c].op = "libraries" /\ Trying(calls[c])
  BY CallIsRow DEF IInv, Retried, Unparsable
<1>2. "2xx" \in Outcome /\ "2xx" \notin Retryable /\ "failed" \in Finished
  BY DEF Outcome, Retryable, Finished
<1>3. log \in Seq(Outcome)
  BY <1>1, <1>2, AppendProperties DEF CallRow
<1>4. LET new == [calls[c] EXCEPT !.at = "failed", !.log = log] IN Trying(new) /\ Tried(new)
  BY <1>1, <1>2, OneMoreTry
<1>5. Ends(c, "failed", log)
  BY DEF Unparsable
<1> HIDE DEF log
<1> QED
  BY <1>1, <1>2, <1>3, <1>4, <1>5, EndsInv DEF Finished

(* A webhook that is rendered is asked; one that is not fails unasked. *)
LEMMA RenderInv == ASSUME IInv, NEW c \in Call, Render(c) PROVE IInv'
<1>1. calls[c] \in CallRow /\ calls[c].at = "rendering" /\ calls[c].log = <<>>
  BY CallIsRow DEF IInv, Retried, Render, Trying
<1>2. ASSUME NEW result \in {"asking"} \cup Finished
      PROVE  LET new == [calls[c] EXCEPT !.at = result, !.log = <<>>] IN Trying(new) /\ Tried(new)
  <2> DEFINE new == [calls[c] EXCEPT !.at = result, !.log = <<>>]
  <2>1. new \in CallRow /\ new.log = <<>>
    BY <1>1, EmptySeq DEF CallRow
  <2> HIDE DEF new
  <2>2. Trying(new) /\ Tried(new)
    BY <2>1, NothingTried
  <2> QED
    BY <2>2 DEF new
<1>3. <<>> \in Seq(Outcome)
  BY EmptySeq
<1>4. CASE calls' = [calls EXCEPT ![c].at = "asking"] /\ UNCHANGED <<bus, streams>>
  <2>1. calls' = [calls EXCEPT ![c].at = "asking", ![c].log = <<>>]
    BY <1>1, <1>4 DEF CallRow
  <2> QED
    BY <1>1, <1>2, <1>3, <1>4, <2>1, GoesOn DEF Finished
<1>5. ASSUME NEW result \in {"failed", "raised"}, Ends(c, result, <<>>) PROVE IInv'
  <2>1. result \in Finished /\ result # "ok"
    BY DEF Finished
  <2> QED
    BY <1>1, <1>2, <1>3, <1>5, <2>1, EndsInv DEF Finished
<1>6. Result(c, "raised") \in {"failed", "raised"}
  BY DEF Result, Success
<1> QED
  BY <1>4, <1>5, <1>6 DEF Render

(* The streams change neither the calls nor the bus. *)
LEMMA StreamStep ==
    ASSUME IInv, NEW k \in Client, UNCHANGED <<calls, bus>>, StreamOk(k)',
           stream' \in [Client -> {"away", "replaying", "live", "gone"}],
           replay' \in [Client -> Seq(Nat)], queue' \in [Client -> Seq(Nat)],
           sent' \in [Client -> Nat], since' \in [Client -> Nat],
           \A j \in Client \ {k} : /\ stream'[j] = stream[j] /\ replay'[j] = replay[j]
                                   /\ queue'[j] = queue[j] /\ sent'[j] = sent[j]
                                   /\ since'[j] = since[j]
    PROVE  IInv'
<1>1. calls' = calls /\ records' = records /\ buffer' = buffer
  BY DEF bus
<1>2. Typed'
  BY <1>1 DEF IInv, Typed
<1>3. Retried' /\ Published'
  BY <1>1 DEF IInv, Retried, Published, Call
<1>4. ASSUME NEW j \in Client \ {k} PROVE StreamOk(j)'
  <2>1. StreamOk(j) /\ j \in Client \ {k}
    BY <1>4 DEF IInv, Streams
  <2>2. /\ stream'[j] = stream[j] /\ replay'[j] = replay[j] /\ queue'[j] = queue[j]
        /\ sent'[j] = sent[j] /\ since'[j] = since[j] /\ records' = records
    BY <1>1, <2>1
  <2> QED
    BY <2>1, <2>2 DEF StreamOk
<1>5. Rising(buffer', 0, Len(records'))
  BY <1>1 DEF IInv, Streams
<1> QED
  BY <1>2, <1>3, <1>4, <1>5 DEF IInv, Streams

(* A browser opens the page: the snapshot is taken. *)
LEMMA ConnectInv == ASSUME IInv, NEW k \in Client, Connect(k) PROVE IInv'
<1>1. /\ Typed /\ Streams /\ StreamOk(k) /\ stream[k] = "away" /\ UNCHANGED <<calls, bus, queue, sent, since>>
      /\ stream' = [stream EXCEPT ![k] = "replaying"] /\ replay' = [replay EXCEPT ![k] = Recent]
  BY DEF IInv, Streams, Connect
<1>2. Rising(Recent, 0, Len(records))
  BY <1>1, RecentRises
<1>3. stream'[k] = "replaying" /\ replay'[k] = Recent /\ sent'[k] = 0 /\ queue'[k] = <<>> /\ records' = records
  BY <1>1 DEF Typed, StreamOk, bus
<1>4. StreamOk(k)'
  BY <1>1, <1>2, <1>3 DEF StreamOk
<1>5. Recent \in Seq(Nat)
  BY <1>2 DEF Rising
<1> QED
  BY <1>1, <1>4, <1>5, StreamStep DEF Typed

(* One record of the snapshot is sent. *)
LEMMA ReplayInv == ASSUME IInv, NEW k \in Client, Replay(k) PROVE IInv'
<1>1. /\ Typed /\ StreamOk(k) /\ stream[k] = "replaying" /\ replay[k] # <<>>
      /\ UNCHANGED <<calls, bus, stream, queue, since>>
      /\ sent' = [sent EXCEPT ![k] = Head(replay[k])] /\ replay' = [replay EXCEPT ![k] = Tail(replay[k])]
  BY DEF IInv, Streams, Replay
<1>2. Len(records) \in Nat /\ sent[k] \in Nat /\ replay[k] \in Seq(Nat)
  BY <1>1, LenProperties DEF Typed
<1>3. Rising(replay[k], sent[k], Len(records))
  BY <1>1 DEF StreamOk
<1>4. /\ Head(replay[k]) \in Nat /\ Head(replay[k]) <= Len(records)
      /\ Rising(Tail(replay[k]), Head(replay[k]), Len(records))
  BY <1>1, <1>2, <1>3, RisingTail
<1>5. /\ stream'[k] = "replaying" /\ replay'[k] = Tail(replay[k]) /\ sent'[k] = Head(replay[k])
      /\ queue'[k] = <<>> /\ records' = records
  BY <1>1 DEF Typed, StreamOk, bus
<1>6. StreamOk(k)'
  BY <1>4, <1>5 DEF StreamOk
<1>7. Tail(replay[k]) \in Seq(Nat)
  BY <1>4 DEF Rising
<1> QED
  BY <1>1, <1>4, <1>6, <1>7, StreamStep DEF Typed

(* The snapshot is sent: the stream subscribes. *)
LEMMA SubscribeInv == ASSUME IInv, NEW k \in Client, Subscribe(k) PROVE IInv'
<1>1. /\ Typed /\ StreamOk(k) /\ stream[k] = "replaying" /\ replay[k] = <<>>
      /\ UNCHANGED <<calls, bus, replay, queue, sent>>
      /\ stream' = [stream EXCEPT ![k] = "live"] /\ since' = [since EXCEPT ![k] = Len(records)]
  BY DEF IInv, Streams, Subscribe
<1>2. Len(records) \in Nat /\ Len(<<>>) = 0 /\ <<>> \in Seq(Nat)
  BY <1>1, LenProperties, EmptySeq DEF Typed
<1>3. /\ stream'[k] = "live" /\ replay'[k] = <<>> /\ sent'[k] = sent[k] /\ since'[k] = Len(records)
      /\ queue'[k] = <<>> /\ records' = records
  BY <1>1 DEF Typed, StreamOk, bus
<1>4. Rising(<<>>, sent[k], Len(records))
  BY <1>2 DEF Rising
<1>5. StreamOk(k)'
  BY <1>1, <1>2, <1>3, <1>4 DEF StreamOk
<1> QED
  BY <1>1, <1>2, <1>5, StreamStep DEF Typed

(* One record of the queue is sent. *)
LEMMA SendInv == ASSUME IInv, NEW k \in Client, Send(k) PROVE IInv'
<1>1. /\ Typed /\ StreamOk(k) /\ stream[k] = "live" /\ queue[k] # <<>>
      /\ UNCHANGED <<calls, bus, stream, replay, since>>
      /\ sent' = [sent EXCEPT ![k] = Head(queue[k])] /\ queue' = [queue EXCEPT ![k] = Tail(queue[k])]
  BY DEF IInv, Streams, Send
<1>2. Len(records) \in Nat /\ sent[k] \in Nat /\ queue[k] \in Seq(Nat)
  BY <1>1, LenProperties DEF Typed
<1>3. Rising(queue[k], sent[k], Len(records))
  BY <1>1 DEF StreamOk
<1>4. /\ Head(queue[k]) \in Nat /\ Head(queue[k]) <= Len(records)
      /\ Rising(Tail(queue[k]), Head(queue[k]), Len(records))
      /\ IF Tail(queue[k]) = <<>> THEN Last(queue[k]) = Head(queue[k])
                                  ELSE Last(queue[k]) = Last(Tail(queue[k]))
  BY <1>1, <1>2, <1>3, RisingTail
<1>5. /\ stream'[k] = "live" /\ replay'[k] = <<>> /\ sent'[k] = Head(queue[k]) /\ since'[k] = since[k]
      /\ queue'[k] = Tail(queue[k]) /\ records' = records
  BY <1>1 DEF Typed, StreamOk, bus
<1>6. Len(records) > since[k] => Last(queue[k]) = Len(records)
  BY <1>1 DEF StreamOk
<1>7. StreamOk(k)'
  BY <1>4, <1>5, <1>6 DEF StreamOk
<1>8. Tail(queue[k]) \in Seq(Nat)
  BY <1>4 DEF Rising
<1> QED
  BY <1>1, <1>4, <1>7, <1>8, StreamStep DEF Typed

(* A browser leaves; its queue stays until that is noticed. *)
LEMMA LeaveInv == ASSUME IInv, NEW k \in Client, Leave(k) PROVE IInv'
<1>1. /\ Typed /\ StreamOk(k) /\ stream[k] \in {"replaying", "live"}
      /\ UNCHANGED <<calls, bus, queue>>
      /\ stream' = [stream EXCEPT ![k] = IF stream[k] = "live" THEN "gone" ELSE "away"]
      /\ replay' = [replay EXCEPT ![k] = <<>>]
      /\ sent' = [sent EXCEPT ![k] = 0] /\ since' = [since EXCEPT ![k] = 0]
  BY DEF IInv, Streams, Leave
<1>2. Len(records) \in Nat /\ <<>> \in Seq(Nat)
  BY <1>1, LenProperties, EmptySeq DEF Typed
<1>3. /\ stream'[k] = IF stream[k] = "live" THEN "gone" ELSE "away"
      /\ replay'[k] = <<>> /\ sent'[k] = 0 /\ queue'[k] = queue[k] /\ records' = records
      /\ stream[k] = "replaying" => queue[k] = <<>>
  BY <1>1 DEF Typed, StreamOk, bus
<1>4. StreamOk(k)'
  BY <1>1, <1>2, <1>3 DEF StreamOk
<1> QED
  BY <1>1, <1>2, <1>4, StreamStep DEF Typed

(* The subscription ends. *)
LEMMA UnsubscribeInv == ASSUME IInv, NEW k \in Client, Unsubscribe(k) PROVE IInv'
<1>1. /\ Typed /\ StreamOk(k) /\ stream[k] = "gone" /\ UNCHANGED <<calls, bus, replay, sent, since>>
      /\ stream' = [stream EXCEPT ![k] = "away"] /\ queue' = [queue EXCEPT ![k] = <<>>]
  BY DEF IInv, Streams, Unsubscribe
<1>2. Len(records) \in Nat /\ <<>> \in Seq(Nat)
  BY <1>1, LenProperties, EmptySeq DEF Typed
<1>3. /\ stream'[k] = "away" /\ replay'[k] = <<>> /\ sent'[k] = 0 /\ queue'[k] = <<>> /\ records' = records
  BY <1>1 DEF Typed, StreamOk, bus
<1>4. StreamOk(k)'
  BY <1>1, <1>2, <1>3 DEF StreamOk
<1> QED
  BY <1>1, <1>2, <1>4, StreamStep DEF Typed

(* Every step preserves the invariant. *)
LEMMA NextInv == IInv /\ [Next]_vars => IInv'
<1> SUFFICES ASSUME IInv, [Next]_vars PROVE IInv'
  OBVIOUS
<1>1. ASSUME NEW c \in Call, Proceed(c) PROVE IInv'
  BY <1>1, AnswerInv, UnparsableInv, RenderInv DEF Proceed
<1>2. ASSUME NEW q \in Request, Dispatch(q) \/ DispatchUnadapted(q) PROVE IInv'
  BY <1>2, DispatchInv, DispatchUnadaptedInv
<1>3. ASSUME NEW s \in Server, TestServer(s) \/ ListLibraries(s) PROVE IInv'
  BY <1>3, TestServerInv, ListLibrariesInv
<1>4. ASSUME NEW k \in Client, Follow(k) \/ Connect(k) \/ Leave(k) PROVE IInv'
  BY <1>4, ReplayInv, SubscribeInv, SendInv, UnsubscribeInv, ConnectInv, LeaveInv DEF Follow
<1>5. CASE UNCHANGED vars
  <2>1. UNCHANGED <<calls, bus, streams>>
    BY <1>5 DEF vars
  <2> QED
    BY <2>1 DEF IInv, Typed, Retried, Published, Streams, StreamOk, Rising, Call, bus, streams
<1> QED
  BY <1>1, <1>2, <1>3, <1>4, <1>5 DEF Next

----------------------------------------------------------------------------
(* Theorems *)

(* The invariant holds in every reachable state. *)
THEOREM Invariance == Spec => []IInv
BY InitInv, NextInv, PTL DEF Spec

(* Whatever a backend answers and however often a server is configured to  *)
(* be tried, only transport errors and 5xx are tried again, as often as    *)
(* configured and never more often than that.                              *)
THEOREM RetriesAreBounded == Spec => []RetriesAsConfigured
<1>1. IInv => RetriesAsConfigured
  BY DEF IInv, Retried, Tried, RetriesAsConfigured
<1> QED
  BY <1>1, Invariance, PTL

(* Every finished dispatch has its one record, whatever was raised, and    *)
(* the record says what the backend said.                                  *)
THEOREM RecordsAreHonest == Spec => []OneHonestRecord
<1>1. ASSUME IInv, NEW c \in Call, calls[c].op # "trigger" \/ Running(c)
      PROVE  {n \in DOMAIN records : records[n].call = c} = {}
  BY <1>1 DEF IInv, Published, Dispatched, Running
<1>2. ASSUME IInv, NEW c \in Call, ~(calls[c].op # "trigger" \/ Running(c))
      PROVE  LET own == {n \in DOMAIN records : records[n].call = c}
             IN  /\ Cardinality(own) = 1
                 /\ \A n \in own : records[n].ok <=> (calls[c].log # <<>> /\ Last(calls[c].log) = "2xx")
  <2> DEFINE own == {n \in DOMAIN records : records[n].call = c}
  <2>1. PICK m \in DOMAIN records : records[m].call = c
    BY <1>2 DEF IInv, Published, Dispatched, Running
  <2>2. own = {m}
    BY <1>2, <2>1 DEF IInv, Published
  <2>3. Cardinality(own) = 1
    BY <2>2, FS_Singleton
  <2>4. \A n \in own : records[n].ok <=> (calls[c].log # <<>> /\ Last(calls[c].log) = "2xx")
    BY <1>2 DEF IInv, Published, Arrived
  <2> QED
    BY <2>3, <2>4
<1>3. IInv => OneHonestRecord
  BY <1>1, <1>2, Zenon DEF OneHonestRecord
<1> QED
  BY <1>3, Invariance, PTL

(* A stream never goes back, and a slow one still ends with the newest     *)
(* record, whatever its queue of QueueMax records has dropped.             *)
THEOREM StreamsStayCurrent == Spec => []StreamCurrent
<1>1. ASSUME IInv, NEW k \in Client, stream[k] \in {"replaying", "live"}
      PROVE  LET all == <<sent[k]>> \o replay[k] \o queue[k]
             IN  /\ \A i, j \in DOMAIN all : i < j => all[i] < all[j]
                 /\ stream[k] = "live" /\ Len(records) > since[k] => Last(all) = Len(records)
  <2> DEFINE rest == IF stream[k] = "live" THEN queue[k] ELSE replay[k]
             all == <<sent[k]>> \o rest
  <2>1. StreamOk(k) /\ sent[k] \in Nat /\ replay[k] \in Seq(Nat) /\ queue[k] \in Seq(Nat)
    BY <1>1 DEF IInv, Typed, Streams
  <2>2. <<sent[k]>> \in Seq(Nat) /\ Len(<<sent[k]>>) = 1 /\ <<sent[k]>>[1] = sent[k]
    BY <2>1
  <2>3. Rising(rest, sent[k], Len(records)) /\ rest \in Seq(Nat)
    BY <1>1, <2>1 DEF StreamOk
  <2>4. <<sent[k]>> \o replay[k] \o queue[k] = all
    <3>1. CASE stream[k] = "live"
      <4>1. replay[k] = <<>> /\ <<sent[k]>> \o <<>> = <<sent[k]>>
        BY <2>1, <2>2, <3>1, ConcatEmptySeq DEF StreamOk
      <4> QED
        BY <3>1, <4>1
    <3>2. CASE stream[k] = "replaying"
      <4>1. queue[k] = <<>> /\ <<sent[k]>> \o replay[k] \in Seq(Nat)
        BY <2>1, <2>2, <3>2, ConcatProperties DEF StreamOk
      <4>2. (<<sent[k]>> \o replay[k]) \o <<>> = <<sent[k]>> \o replay[k]
        BY <4>1, ConcatEmptySeq
      <4> QED
        BY <3>2, <4>1, <4>2
    <3> QED
      BY <1>1, <3>1, <3>2
  <2> HIDE DEF rest
  <2>5. Len(rest) \in Nat /\ \A i \in 1 .. Len(rest) : rest[i] \in Nat
    BY <2>3, LenProperties, ElementOfSeq
  <2>6. /\ all \in Seq(Nat) /\ Len(all) = Len(rest) + 1
        /\ \A i \in 1 .. Len(rest) + 1 : all[i] = IF i <= 1 THEN sent[k] ELSE rest[i - 1]
    BY <2>2, <2>3, <2>5, ConcatProperties
  <2>7. DOMAIN all = 1 .. Len(rest) + 1
    BY <2>6, LenProperties
  <2> HIDE DEF all
  <2>8. ASSUME NEW i \in DOMAIN all, NEW j \in DOMAIN all, i < j PROVE all[i] < all[j]
    <3>1. j - 1 \in 1 .. Len(rest) /\ all[j] = rest[j - 1]
      BY <2>5, <2>6, <2>7, <2>8
    <3>2. CASE i = 1
      <4>1. all[i] = sent[k]
        BY <2>5, <2>6, <3>2
      <4>2. sent[k] < rest[j - 1]
        BY <2>3, <3>1 DEF Rising
      <4> QED
        BY <3>1, <4>1, <4>2
    <3>3. CASE i # 1
      <4>1. i - 1 \in 1 .. Len(rest) /\ all[i] = rest[i - 1] /\ i - 1 < j - 1
        BY <2>5, <2>6, <2>7, <2>8, <3>3
      <4> QED
        BY <2>3, <3>1, <4>1 DEF Rising
    <3> QED
      BY <3>2, <3>3
  <2>9. ASSUME stream[k] = "live", Len(records) > since[k] PROVE Last(all) = Len(records)
    <3>1. rest = queue[k] /\ IF queue[k] = <<>> THEN sent[k] = Len(records) ELSE Last(queue[k]) = Len(records)
      BY <2>1, <2>9 DEF StreamOk, rest
    <3>2. CASE rest = <<>>
      BY <2>6, <3>1, <3>2, EmptySeq DEF Last
    <3>3. CASE rest # <<>>
      <4>1. Len(rest) \in Nat \ {0}
        BY <2>3, <3>3, EmptySeq
      <4>2. Len(rest) + 1 \in 1 .. Len(rest) + 1 /\ ~(Len(rest) + 1 <= 1) /\ (Len(rest) + 1) - 1 = Len(rest)
        BY <4>1
      <4>3. Last(all) = rest[Len(rest)]
        BY <2>6, <4>2 DEF Last
      <4> QED
        BY <3>1, <3>3, <4>3 DEF Last
    <3> QED
      BY <3>2, <3>3
  <2> QED
    BY <2>4, <2>8, <2>9
<1>2. IInv => StreamCurrent
  BY <1>1, Zenon DEF StreamCurrent
<1> QED
  BY <1>2, Invariance, PTL
==============================================================================
