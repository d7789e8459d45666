---------------------------- MODULE CollectorProofs ----------------------------
(***************************************************************************)
(* Theorems about Collector, for any clients, requests, bounds and sizes   *)
(* of the two semaphores.                                                  *)
(*                                                                         *)
(* The books are sums of cardinalities; a step moves one client from one   *)
(* set to another or one record in or out, which GotoCounts and Counted    *)
(* turn into arithmetic. What makes them balance is in HandlerInv: a       *)
(* record a handler is about to produce was never accepted before, since   *)
(* attempts and positions only grow, and the record of a running callback  *)
(* is still in the client's buffer.                                        *)
(***************************************************************************)
EXTENDS Collector, FiniteSetTheorems, TLAPS

Labels == {"none", "span", "acquired", "marshal", "unwind"}

Working == {c \in Clients : call[c] \in {"acquired", "marshal", "unwind"}}
Active  == {c \in Clients : call[c] # "none"}

\* Records that no counter knows yet.
Uncounted == IF promise.step = "unbuffer" THEN buffered \ {promise.rec} ELSE buffered

D(b) == IF b THEN 1 ELSE 0

\* What a handler and a callback may rely on.
HandlerInv ==
    /\ \A c \in Clients : call[c] # "none" => server \in {"serving", "draining"}
    /\ \A c \in Clients : call[c] \in {"acquired", "marshal", "unwind"} =>
          at[c] \in DOMAIN Request[c]
    /\ \A c \in Clients : call[c] = "unwind" => Request[c][at[c]] = "unmarshalable"
    /\ \A c \in Clients : \A k \in 1..MaxAttempts : \A i \in 1..Len(Request[c]) :
          <<c, k, i>> \in accepted => k <= try[c] /\ (k = try[c] /\ call[c] # "none" => i < at[c])
    /\ \A c \in Clients : call[c] # "none" => try[c] >= 1
    /\ IsFiniteSet(buffered) /\ buffered \subseteq accepted
    /\ promise # NoPromise => /\ promise.rec \in buffered /\ promise.step # "idle"
                              /\ promise.result = "ok" => promise.rec \in topic
                              /\ (promise.step = "unbuffer" /\ promise.result # "ok") =>
                                    <<promise.rec, promise.result>> \in dropped

\* Where each accepted record is.
Kept(r) == \/ r \in topic \cup buffered \cup gone
           \/ \E why \in {"timeout", "closed"} : <<r, why>> \in dropped

\* What the answers are made of.
AnswerInv ==
    /\ \A r \in accepted : Kept(r)
    /\ \A c \in Clients : (call[c] # "none" /\ ~full[c]) =>
          \A i \in 1..Len(Request[c]) :
             (i < at[c] /\ Request[c][i] = "good") => <<c, try[c], i>> \in accepted
    /\ \A c \in Clients : (call[c] # "none" /\ full[c]) =>
          \E i \in 1..Len(Request[c]) : i < at[c] /\ <<c, try[c], i>> \notin accepted
    /\ \A c \in Clients : reply[c] # "none" => call[c] = "none"
    /\ \A c \in Clients : reply[c] = "ok" =>
          \A i \in 1..Len(Request[c]) : Request[c][i] = "good" => <<c, try[c], i>> \in accepted
    /\ ExhaustedMeansRefused

Books == SlotsConserved /\ GaugeTracksSlots /\ SpansAccounted

\* The books, in the sets the lemmas below count.
BooksAsSums ==
    /\ inflight = Cardinality(At("acquired")) + Cardinality(At("marshal"))
                  + Cardinality(Holding)
    /\ sem = Cardinality(Active)
    /\ gauge + Cardinality(At("acquired"))
         = inflight + Cardinality(At("unwind")) + D(promise.step = "count")
    /\ count["received"] =
           count["invalid"] + count["buffer_full"] + count["marshal_error"]
         + count["produce_failed"] + count["published"]
         + Cardinality(Working) + Cardinality(Uncounted)

Numbers ==
    /\ sem \in 0..MaxConcurrentExports /\ inflight \in 0..MaxInFlight /\ gauge \in Nat
    /\ count \in [Counters -> Nat]

IInv == TypeOK /\ HandlerInv /\ Books /\ AnswerInv

-----------------------------------------------------------------------------
(* Counting *)

\* One element more or less.
LEMMA Counted ==
    ASSUME NEW S, NEW T, NEW x, IsFiniteSet(S), \A y : y # x => (y \in S <=> y \in T)
    PROVE  /\ IsFiniteSet(T) /\ Cardinality(S) \in Nat /\ Cardinality(T) \in Nat
           /\ Cardinality(T) = Cardinality(S) + D(x \in T) - D(x \in S)
<1> DEFINE C == S \ {x}
<1>1. IsFiniteSet(C) /\ Cardinality(C) = Cardinality(S) - D(x \in S) /\ Cardinality(S) \in Nat
  BY FS_RemoveElement, FS_CardinalityType DEF D
<1>2. T = IF x \in T THEN C \cup {x} ELSE C
  OBVIOUS
<1>3. x \notin C
  OBVIOUS
<1> HIDE DEF C
<1>4. IsFiniteSet(C \cup {x}) /\ Cardinality(C \cup {x}) = Cardinality(C) + 1
  BY <1>1, <1>3, FS_AddElement
<1>5. CASE x \in T
  <2>1. T = C \cup {x}
    BY <1>2, <1>5
  <2>2. IsFiniteSet(T) /\ Cardinality(T) = Cardinality(C) + 1
    BY <1>4, <2>1
  <2>3. D(x \in T) = 1 /\ D(x \in S) \in {0, 1}
    BY <1>5 DEF D
  <2>4. Cardinality(C) \in Nat /\ Cardinality(T) \in Nat
    BY <1>1, <2>2, FS_CardinalityType
  <2> QED BY <1>1, <2>2, <2>3, <2>4
<1>6. CASE x \notin T
  <2>1. T = C
    BY <1>2, <1>6
  <2> QED BY <1>1, <1>6, <2>1, FS_CardinalityType DEF D
<1> QED BY <1>5, <1>6

\* Sets of clients are finite.
LEMMA ClientSets ==
    /\ \A l : IsFiniteSet(At(l)) /\ Cardinality(At(l)) \in Nat
    /\ IsFiniteSet(Working) /\ Cardinality(Working) \in Nat
    /\ IsFiniteSet(Active) /\ Cardinality(Active) \in Nat
<1>1. ASSUME NEW S \in SUBSET Clients PROVE IsFiniteSet(S) /\ Cardinality(S) \in Nat
  BY CollectorAssumption, FS_Subset, FS_CardinalityType
<1>2. (\A l : At(l) \in SUBSET Clients) /\ Working \in SUBSET Clients /\ Active \in SUBSET Clients
  BY DEF At, Working, Active
<1> QED BY <1>1, <1>2

\* A handler that moves on counts where it went and no longer where it was.
LEMMA GotoCounts ==
    ASSUME NEW c \in Clients, NEW l \in Labels, call \in [Clients -> Labels], Goto(c, l)
    PROVE  /\ \A k \in Labels :
                /\ Cardinality(At(k))' = Cardinality(At(k)) + D(l = k) - D(call[c] = k)
                /\ Cardinality(At(k))' \in Nat
           /\ Cardinality(Active)' \in Nat
           /\ Cardinality(Working)' = Cardinality(Working)
                + D(l \in {"acquired", "marshal", "unwind"})
                - D(call[c] \in {"acquired", "marshal", "unwind"})
           /\ Cardinality(Active)' = Cardinality(Active) + D(l # "none") - D(call[c] # "none")
<1>1. call' = [call EXCEPT ![c] = l]
  BY DEF Goto
<1>2. ASSUME NEW k \in Labels
      PROVE  /\ Cardinality(At(k))' = Cardinality(At(k)) + D(l = k) - D(call[c] = k)
             /\ Cardinality(At(k))' \in Nat
  <2> DEFINE S == At(k)  T == At(k)'
  <2>1. \A y : y # c => (y \in S <=> y \in T)
    BY <1>1 DEF At
  <2>2. (c \in T <=> l = k) /\ (c \in S <=> call[c] = k)
    BY <1>1 DEF At
  <2>3. IsFiniteSet(S)
    BY ClientSets
  <2> HIDE DEF S, T
  <2>4. Cardinality(T) = Cardinality(S) + D(c \in T) - D(c \in S) /\ Cardinality(T) \in Nat
    BY <2>1, <2>3, Counted
  <2> QED BY <2>2, <2>4 DEF S, T, D
<1>3. Cardinality(Working)' = Cardinality(Working)
        + D(l \in {"acquired", "marshal", "unwind"})
        - D(call[c] \in {"acquired", "marshal", "unwind"})
  <2> DEFINE S == Working  T == Working'
  <2>1. \A y : y # c => (y \in S <=> y \in T)
    BY <1>1 DEF Working
  <2>2. /\ c \in T <=> l \in {"acquired", "marshal", "unwind"}
        /\ c \in S <=> call[c] \in {"acquired", "marshal", "unwind"}
    BY <1>1 DEF Working
  <2>3. IsFiniteSet(S)
    BY ClientSets
  <2> HIDE DEF S, T
  <2>4. Cardinality(T) = Cardinality(S) + D(c \in T) - D(c \in S) /\ Cardinality(T) \in Nat
    BY <2>1, <2>3, Counted
  <2> QED BY <2>2, <2>4 DEF S, T, D
<1>4. /\ Cardinality(Active)' = Cardinality(Active) + D(l # "none") - D(call[c] # "none")
      /\ Cardinality(Active)' \in Nat
  <2> DEFINE S == Active  T == Active'
  <2>1. \A y : y # c => (y \in S <=> y \in T)
    BY <1>1 DEF Active
  <2>2. (c \in T <=> l # "none") /\ (c \in S <=> call[c] # "none")
    BY <1>1 DEF Active
  <2>3. IsFiniteSet(S)
    BY ClientSets
  <2> HIDE DEF S, T
  <2>4. Cardinality(T) = Cardinality(S) + D(c \in T) - D(c \in S) /\ Cardinality(T) \in Nat
    BY <2>1, <2>3, Counted
  <2> QED BY <2>2, <2>4 DEF S, T, D
<1> QED BY <1>2, <1>3, <1>4

\* A record is a client, an attempt and a position.
LEMMA RecordParts ==
    /\ \A c \in Clients : \A k \in 1..MaxAttempts : \A i \in 1..Len(Request[c]) : <<c, k, i>> \in Record
    /\ \A r \in Record : \E c \in Clients : \E k \in 1..MaxAttempts : \E i \in 1..Len(Request[c]) :
          r = <<c, k, i>>
<1>1. ASSUME NEW c \in Clients, NEW k \in 1..MaxAttempts, NEW i \in 1..Len(Request[c])
      PROVE  <<c, k, i>> \in Record
  <2>1. <<c, k, i>> \in {c} \X (1..MaxAttempts) \X (1..Len(Request[c]))
    OBVIOUS
  <2> QED BY <2>1 DEF Record
<1>2. ASSUME NEW r \in Record
      PROVE  \E c \in Clients : \E k \in 1..MaxAttempts : \E i \in 1..Len(Request[c]) :
          r = <<c, k, i>>
  <2>1. PICK c \in Clients : r \in {c} \X (1..MaxAttempts) \X (1..Len(Request[c]))
    BY DEF Record
  <2> QED BY <2>1
<1> QED BY <1>1, <1>2

\* Requests are sequences of the three kinds of spans.
LEMMA RequestType ==
    \A c \in Clients : /\ Len(Request[c]) \in Nat /\ DOMAIN Request[c] = 1..Len(Request[c])
                       /\ \A i \in 1..Len(Request[c]) :
                             Request[c][i] \in {"good", "invalid", "unmarshalable"}
BY CollectorAssumption

\* The producer's callback is one of a record or none.
LEMMA PromiseIdle == NoPromise.step = "idle" /\ NoPromise.result = "ok"
BY DEF NoPromise

\* The books do not look inside the sets.
LEMMA BooksNamed == (Books <=> BooksAsSums) /\ (Books' <=> BooksAsSums')
BY DEF Books, BooksAsSums, SlotsConserved, GaugeTracksSlots, SpansAccounted, Active, Working, Uncounted, D

-----------------------------------------------------------------------------
(* The invariant is inductive *)

\* The invariant holds when the collector starts.
LEMMA InitInv == Init => IInv
<1> SUFFICES ASSUME Init PROVE IInv
  OBVIOUS
<1> USE CollectorAssumption
<1>1. TypeOK
  <2>1. /\ server = "serving" /\ promise = NoPromise /\ crashes = 0 /\ attempts = 0
        /\ sem = 0 /\ inflight = 0 /\ gauge = 0
    BY DEF Init
  <2>2. try \in [Clients -> {0}] /\ reply \in [Clients -> {"none"}] /\ call \in [Clients -> {"none"}]
        /\ full \in [Clients -> {FALSE}]
    BY DEF Init
  <2>3. at \in [Clients -> Nat] /\ \A c \in Clients : at[c] \in 1..Len(Request[c]) + 1
    BY RequestType DEF Init
  <2>4. buffered = {} /\ topic = {} /\ accepted = {} /\ gone = {} /\ dropped = {}
    BY DEF Init
  <2>5. count \in [Counters -> Nat]
    BY DEF Init, Zero
  <2>6. 0 \in 0..MaxAttempts /\ 0 \in 0..MaxConcurrentExports /\ 0 \in 0..MaxInFlight /\ 0 \in 0..MaxCrashes
        /\ 0 \in 0..0
    OBVIOUS
  <2>7. try \in [Clients -> 0..attempts]
    BY <2>1, <2>2, <2>6
  <2> QED BY <2>1, <2>2, <2>3, <2>4, <2>5, <2>6, <2>7 DEF TypeOK
<1>2. HandlerInv
  BY FS_EmptySet DEF Init, HandlerInv, NoPromise
<1>3. \A S : S = {} => Cardinality(S) = 0
  BY FS_EmptySet
<1>4. \A c \in Clients : call[c] = "none"
  BY DEF Init
<1>5. buffered = {} /\ promise.step = "idle" /\ inflight = 0 /\ sem = 0 /\ gauge = 0
  BY DEF Init, NoPromise
<1>6. /\ Cardinality(At("acquired")) = 0 /\ Cardinality(At("marshal")) = 0
      /\ Cardinality(At("unwind")) = 0
      /\ Cardinality(Working) = 0 /\ Cardinality(Active) = 0
      /\ Cardinality(Holding) = 0 /\ Cardinality(Uncounted) = 0
  <2>1. At("acquired") = {} /\ At("marshal") = {} /\ At("unwind") = {}
    BY <1>4 DEF At
  <2>2. Working = {} /\ Active = {}
    BY <1>4 DEF Working, Active
  <2>3. Holding = {} /\ Uncounted = {}
    BY <1>5 DEF Holding, Uncounted
  <2> QED BY <1>3, <2>1, <2>2, <2>3, Zenon
<1>8. Books
  <2>1. \A k \in Counters : count[k] = 0
    BY DEF Init, Zero
  <2>2. /\ count["received"] = 0 /\ count["invalid"] = 0 /\ count["buffer_full"] = 0
        /\ count["marshal_error"] = 0 /\ count["produce_failed"] = 0 /\ count["published"] = 0
    BY <2>1 DEF Counters
  <2>3. BooksAsSums
    BY <1>5, <1>6, <2>2 DEF BooksAsSums, D
  <2> QED BY <2>3, BooksNamed
<1>7. AnswerInv
  BY DEF Init, AnswerInv, ExhaustedMeansRefused
<1> QED BY <1>1, <1>2, <1>8, <1>7 DEF IInv

\* Types of the variables that clients and the server change.
LEMMA ClientTypes ==
    ASSUME TypeOK, Next
    PROVE  /\ server' \in {"serving", "draining", "closing", "exited"}
           /\ attempts' \in 0..MaxAttempts /\ try' \in [Clients -> 0..attempts']
           /\ reply' \in [Clients -> {"none", "ok", "exhausted", "lost"}]
           /\ call' \in [Clients -> Labels]
           /\ full' \in [Clients -> BOOLEAN]
           /\ crashes' \in 0..MaxCrashes
<1> USE CollectorAssumption DEF TypeOK, Labels, Goto
<1>1. ASSUME NEW c \in Clients, Admit(c) \/ RejectCall(c)
      PROVE  attempts' \in 0..MaxAttempts /\ try' \in [Clients -> 0..attempts']
  <2>1. attempts \in 0..MaxAttempts /\ attempts < MaxAttempts /\ attempts' = attempts + 1
        /\ try' = [try EXCEPT ![c] = @ + 1]
    BY <1>1 DEF Admit, RejectCall, MaySend
  <2>2. 0..attempts \subseteq 0..attempts'
    BY <2>1
  <2>3. try[c] + 1 \in 0..attempts'
    BY <2>1
  <2> QED BY <2>1, <2>2, <2>3
<1>2. ASSUME NEW c \in Clients, Admit(c) \/ RejectCall(c)
      PROVE  /\ reply' \in [Clients -> {"none", "ok", "exhausted", "lost"}]
             /\ call' \in [Clients -> Labels] /\ full' \in [Clients -> BOOLEAN]
             /\ server' = server /\ crashes' = crashes
  BY <1>2 DEF Admit, RejectCall
<1>3. ASSUME NEW c \in Clients, Handler(c)
      PROVE  /\ reply' \in [Clients -> {"none", "ok", "exhausted", "lost"}]
             /\ call' \in [Clients -> Labels] /\ full' \in [Clients -> BOOLEAN]
             /\ UNCHANGED <<server, attempts, try, crashes>>
  BY <1>3 DEF Handler, SkipInvalid, BufferFull, AcquireSlot, IncGauge, MarshalFails, Unwind,
              Produce, Return, clientVars
<1>4. ASSUME (\E r \in Record : BrokerAppends(r) \/ StartPromise(r)) \/ Callback
      PROVE  UNCHANGED <<server, attempts, try, crashes, reply, call, full>>
  BY <1>4 DEF BrokerAppends, StartPromise, Callback, CallbackReleases, CallbackCounts, Unbuffer, clientVars
<1>5. CASE Terminate \/ CloseProducer \/ Exit
  BY <1>5 DEF Terminate, CloseProducer, Exit
<1>6. CASE Crash
  BY <1>6 DEF Crash
<1> QED BY <1>1, <1>2, <1>3, <1>4, <1>5, <1>6 DEF Next

\* The loop counter of Export stays within the request.
LEMMA PositionType ==
    ASSUME TypeOK, HandlerInv, Next
    PROVE  at' \in [Clients -> Nat] /\ \A c \in Clients : at'[c] \in 1..Len(Request[c]) + 1
<1> USE DEF TypeOK
<1>0. \A c \in Clients : Len(Request[c]) \in Nat /\ 1 \in 1..Len(Request[c]) + 1
  BY RequestType
<1>1. ASSUME NEW c \in Clients, Admit(c) \/ RejectCall(c)
      PROVE  at' \in [Clients -> Nat] /\ \A d \in Clients : at'[d] \in 1..Len(Request[d]) + 1
  <2>1. at' = at \/ at' = [at EXCEPT ![c] = 1]
    BY <1>1 DEF Admit, RejectCall
  <2>2. at \in [Clients -> Nat] /\ \A d \in Clients : at[d] \in 1..Len(Request[d]) + 1
    OBVIOUS
  <2>3. CASE at' = at
    BY <2>2, <2>3
  <2>4. CASE at' = [at EXCEPT ![c] = 1]
    <3>1. at' \in [Clients -> Nat]
      BY <2>2, <2>4
    <3>2. \A d \in Clients : at'[d] = IF d = c THEN 1 ELSE at[d]
      BY <2>2, <2>4
    <3> QED BY <1>0, <2>2, <3>1, <3>2
  <2> QED BY <2>1, <2>3, <2>4
<1>2. ASSUME NEW c \in Clients, Handler(c)
      PROVE  at' \in [Clients -> Nat] /\ \A d \in Clients : at'[d] \in 1..Len(Request[d]) + 1
  <2>1. at' = at \/ (at' = [at EXCEPT ![c] = @ + 1] /\ at[c] <= Len(Request[c]))
    BY <1>2, RequestType DEF Handler, SkipInvalid, BufferFull, AcquireSlot, IncGauge, MarshalFails, Unwind,
                Produce, Return, NextSpan, AtSpan, HandlerInv
  <2>2. CASE at' = [at EXCEPT ![c] = @ + 1] /\ at[c] <= Len(Request[c])
    <3>1. at[c] + 1 \in 1..Len(Request[c]) + 1
      BY <1>0, <2>2
    <3> QED BY <2>2, <3>1
  <2> QED BY <2>1, <2>2
<1>3. ASSUME (\E r \in Record : BrokerAppends(r) \/ StartPromise(r)) \/ Callback
             \/ Terminate \/ CloseProducer \/ Exit
      PROVE  at' = at
  BY <1>3 DEF BrokerAppends, StartPromise, Callback, CallbackReleases, CallbackCounts, Unbuffer,
              Terminate, CloseProducer, Exit
<1>4. CASE Crash
  BY <1>0, <1>4 DEF Crash
<1> QED BY <1>1, <1>2, <1>3, <1>4 DEF Next

\* Types of the records and of the callback.
LEMMA RecordTypes ==
    ASSUME TypeOK, HandlerInv, Next
    PROVE  /\ buffered' \subseteq Record /\ topic' \subseteq Record
           /\ accepted' \subseteq Record /\ gone' \subseteq Record
           /\ dropped' \subseteq Record \X {"timeout", "closed"}
           /\ \/ promise' = NoPromise
              \/ promise' \in [rec : Record, result : {"ok", "timeout", "closed"},
                               step : {"release", "count", "unbuffer"}]
<1> USE DEF TypeOK
<1>1. ASSUME NEW c \in Clients, Produce(c) PROVE Rec(c) \in Record
  <2>1. try[c] \in 1..MaxAttempts /\ at[c] \in 1..Len(Request[c])
    BY <1>1, RequestType, CollectorAssumption DEF Produce, HandlerInv
  <2> QED BY <2>1, RecordParts DEF Rec
<1>2. ASSUME NEW c \in Clients, Produce(c)
      PROVE  /\ buffered' \subseteq Record /\ accepted' \subseteq Record
             /\ UNCHANGED <<topic, gone, dropped, promise>>
  BY <1>1, <1>2 DEF Produce, clientVars
<1>3. ASSUME NEW c \in Clients, Admit(c) \/ RejectCall(c) \/ SkipInvalid(c) \/ BufferFull(c) \/ AcquireSlot(c)
                 \/ IncGauge(c) \/ MarshalFails(c) \/ Unwind(c) \/ Return(c)
      PROVE  UNCHANGED <<buffered, topic, accepted, gone, dropped, promise>>
  BY <1>3 DEF Admit, RejectCall, SkipInvalid, BufferFull, AcquireSlot, IncGauge, MarshalFails, Unwind,
              Return, kafkaVars, clientVars
<1>4. ASSUME NEW r \in Record, BrokerAppends(r)
      PROVE  topic' \subseteq Record /\ UNCHANGED <<buffered, accepted, gone, dropped, promise>>
  BY <1>4 DEF BrokerAppends, clientVars
<1>5. ASSUME NEW r \in Record, StartPromise(r)
      PROVE  /\ promise' \in [rec : Record, result : {"ok", "timeout", "closed"},
                              step : {"release", "count", "unbuffer"}]
             /\ UNCHANGED <<buffered, topic, accepted, gone, dropped>>
  BY <1>5 DEF StartPromise, clientVars
<1>6. CASE Callback
  <2>0. promise # NoPromise
    BY <1>6 DEF Callback, CallbackReleases, CallbackCounts, Unbuffer, NoPromise
  <2>1. CASE CallbackReleases
    BY <2>0, <2>1 DEF CallbackReleases, clientVars
  <2>2. CASE CallbackCounts
    <3>1. promise' \in [rec : Record, result : {"ok", "timeout", "closed"},
                       step : {"release", "count", "unbuffer"}]
      BY <2>0, <2>2 DEF CallbackCounts
    <3>2. dropped' \subseteq Record \X {"timeout", "closed"}
      BY <2>0, <2>2 DEF CallbackCounts
    <3> QED BY <3>1, <3>2, <2>2 DEF CallbackCounts, clientVars
  <2>3. CASE Unbuffer
    BY <2>3 DEF Unbuffer, clientVars
  <2> QED BY <1>6, <2>1, <2>2, <2>3 DEF Callback
<1>7. CASE Terminate \/ CloseProducer \/ Exit \/ Crash
  BY <1>7 DEF Terminate, CloseProducer, Exit, Crash, kafkaVars
<1> QED BY <1>2, <1>3, <1>4, <1>5, <1>6, <1>7 DEF Next, Handler

-----------------------------------------------------------------------------
(* The books *)

\* What the sets count while nobody moves.
LEMMA CallStill ==
    ASSUME call' = call
    PROVE  /\ \A k \in Labels : Cardinality(At(k))' = Cardinality(At(k))
           /\ Cardinality(Working)' = Cardinality(Working)
           /\ Cardinality(Active)' = Cardinality(Active)
<1>1. \A k \in Labels : At(k)' = At(k)
  BY DEF At
<1>2. Working' = Working /\ Active' = Active
  BY DEF Working, Active
<1>3. \A S, T : S = T => Cardinality(S) = Cardinality(T)
  OBVIOUS
<1> QED BY <1>1, <1>2, <1>3, Zenon

\* The counts of records in flight change with the buffer and the promises only.
LEMMA HeldStill ==
    ASSUME buffered' = buffered, promise' = promise
    PROVE  Cardinality(Holding)' = Cardinality(Holding) /\ Cardinality(Uncounted)' = Cardinality(Uncounted)
<1>1. Holding' = Holding /\ Uncounted' = Uncounted
  BY DEF Holding, Uncounted
<1>2. \A S, T : S = T => Cardinality(S) = Cardinality(T)
  OBVIOUS
<1> QED BY <1>1, <1>2, Zenon

\* A counter goes up by one.
LEMMA Bumped ==
    ASSUME count \in [Counters -> Nat]
    PROVE  /\ \A k \in Counters : Bump(k) =>
                /\ count' \in [Counters -> Nat]
                /\ \A j \in Counters : count'[j] = count[j] + D(j = k)
           /\ \A k, l \in Counters : (k # l /\ BumpTwo(k, l)) =>
                /\ count' \in [Counters -> Nat]
                /\ \A j \in Counters : count'[j] = count[j] + D(j = k) + D(j = l)
BY DEF Bump, BumpTwo, D

\* What is known of the numbers before a step.
LEMMA BooksFacts ==
    ASSUME IInv
    PROVE  /\ BooksAsSums /\ Numbers
           /\ call \in [Clients -> Labels]
           /\ Cardinality(At("acquired")) \in Nat /\ Cardinality(At("marshal")) \in Nat
           /\ Cardinality(At("unwind")) \in Nat
           /\ Cardinality(Working) \in Nat /\ Cardinality(Active) \in Nat
           /\ IsFiniteSet(Holding) /\ Cardinality(Holding) \in Nat
           /\ IsFiniteSet(Uncounted) /\ Cardinality(Uncounted) \in Nat
           /\ promise.step = "idle" => promise = NoPromise
<1>1. IsFiniteSet(Holding) /\ IsFiniteSet(Uncounted)
  BY FS_RemoveElement DEF IInv, HandlerInv, Holding, Uncounted
<1>2. Numbers /\ call \in [Clients -> Labels]
  BY DEF IInv, TypeOK, Numbers, Labels
<1>3. promise.step = "idle" => promise = NoPromise
  BY DEF IInv, TypeOK
<1> QED BY <1>1, <1>2, <1>3, BooksNamed, ClientSets, FS_CardinalityType DEF IInv

\* Each kind of step keeps the sums. First the handlers that take or refuse.
LEMMA BooksHandler ==
    ASSUME IInv, NEW c \in Clients,
           Admit(c) \/ RejectCall(c) \/ SkipInvalid(c) \/ BufferFull(c) \/ AcquireSlot(c)
           \/ IncGauge(c) \/ MarshalFails(c) \/ Unwind(c) \/ Return(c)
    PROVE  BooksAsSums' /\ Numbers'
<1>1. buffered' = buffered /\ promise' = promise
  BY DEF Admit, RejectCall, SkipInvalid, BufferFull, AcquireSlot, IncGauge, MarshalFails, Unwind,
         Return, kafkaVars
<1>2. Cardinality(Holding)' = Cardinality(Holding) /\ Cardinality(Uncounted)' = Cardinality(Uncounted)
  BY <1>1, HeldStill
<1>0. call \in [Clients -> Labels] /\ count \in [Counters -> Nat] /\ promise'.step = promise.step
  BY <1>1, BooksFacts DEF Numbers
<1>a. /\ BooksAsSums /\ Numbers /\ MaxConcurrentExports \in Nat /\ MaxInFlight \in Nat
      /\ Cardinality(At("acquired")) \in Nat /\ Cardinality(At("marshal")) \in Nat
      /\ Cardinality(At("unwind")) \in Nat
      /\ Cardinality(Working) \in Nat /\ Cardinality(Active) \in Nat
      /\ Cardinality(Holding) \in Nat /\ Cardinality(Uncounted) \in Nat
      /\ D(promise.step = "count") \in Nat
  BY BooksFacts, CollectorAssumption DEF D
<1>b. /\ count["received"] \in Nat /\ count["invalid"] \in Nat /\ count["buffer_full"] \in Nat
      /\ count["marshal_error"] \in Nat /\ count["produce_failed"] \in Nat /\ count["published"] \in Nat
  BY <1>0 DEF Counters
<1>3. CASE Admit(c)
  <2>1. Goto(c, "span") /\ call[c] = "none" /\ sem' = sem + 1 /\ sem < MaxConcurrentExports
        /\ UNCHANGED <<inflight, gauge, count>>
    BY <1>3 DEF Admit, MaySend
  <2>2. /\ Cardinality(At("acquired"))' = Cardinality(At("acquired"))
        /\ Cardinality(At("marshal"))' = Cardinality(At("marshal"))
        /\ Cardinality(At("unwind"))' = Cardinality(At("unwind"))
        /\ Cardinality(Working)' = Cardinality(Working)
        /\ Cardinality(Active)' = Cardinality(Active) + 1
        /\ Cardinality(Active)' \in Nat
    BY <1>0, <1>a, <2>1, GotoCounts DEF Labels, D
  <2> QED BY <1>a, <1>b, <1>0, <1>2, <2>1, <2>2 DEF BooksAsSums, Numbers
<1>4. CASE RejectCall(c)
  <2>1. call' = call /\ Bump("rejected") /\ UNCHANGED <<sem, inflight, gauge>>
    BY <1>4 DEF RejectCall
  <2>2. Cardinality(At("acquired"))' = Cardinality(At("acquired")) /\ Cardinality(At("marshal"))' = Cardinality(At("marshal"))
        /\ Cardinality(At("unwind"))' = Cardinality(At("unwind"))
        /\ Cardinality(Working)' = Cardinality(Working) /\ Cardinality(Active)' = Cardinality(Active)
    BY <2>1, CallStill DEF Labels
  <2>3. /\ count'["received"] = count["received"]
        /\ count'["invalid"] = count["invalid"]
        /\ count'["buffer_full"] = count["buffer_full"]
        /\ count'["marshal_error"] = count["marshal_error"]
        /\ count'["produce_failed"] = count["produce_failed"]
        /\ count'["published"] = count["published"]
        /\ count' \in [Counters -> Nat]
    BY <1>0, <1>b, <2>1, Bumped DEF Counters, D
  <2> QED BY <1>a, <1>b, <1>0, <1>2, <2>1, <2>2, <2>3 DEF BooksAsSums, Numbers
<1>5. CASE SkipInvalid(c)
  <2>1. call' = call /\ BumpTwo("received", "invalid") /\ UNCHANGED <<sem, inflight, gauge>>
    BY <1>5 DEF SkipInvalid, clientVars
  <2>2. Cardinality(At("acquired"))' = Cardinality(At("acquired")) /\ Cardinality(At("marshal"))' = Cardinality(At("marshal"))
        /\ Cardinality(At("unwind"))' = Cardinality(At("unwind"))
        /\ Cardinality(Working)' = Cardinality(Working) /\ Cardinality(Active)' = Cardinality(Active)
    BY <2>1, CallStill DEF Labels
  <2>3. /\ count'["received"] = count["received"] + 1
        /\ count'["invalid"] = count["invalid"] + 1
        /\ count'["buffer_full"] = count["buffer_full"]
        /\ count'["marshal_error"] = count["marshal_error"]
        /\ count'["produce_failed"] = count["produce_failed"]
        /\ count'["published"] = count["published"]
        /\ count' \in [Counters -> Nat]
    BY <1>0, <1>b, <2>1, Bumped DEF Counters, D
  <2> QED BY <1>a, <1>b, <1>0, <1>2, <2>1, <2>2, <2>3 DEF BooksAsSums, Numbers
<1>6. CASE BufferFull(c)
  <2>1. call' = call /\ BumpTwo("received", "buffer_full") /\ UNCHANGED <<sem, inflight, gauge>>
    BY <1>6 DEF BufferFull, clientVars
  <2>2. Cardinality(At("acquired"))' = Cardinality(At("acquired")) /\ Cardinality(At("marshal"))' = Cardinality(At("marshal"))
        /\ Cardinality(At("unwind"))' = Cardinality(At("unwind"))
        /\ Cardinality(Working)' = Cardinality(Working) /\ Cardinality(Active)' = Cardinality(Active)
    BY <2>1, CallStill DEF Labels
  <2>3. /\ count'["received"] = count["received"] + 1
        /\ count'["invalid"] = count["invalid"]
        /\ count'["buffer_full"] = count["buffer_full"] + 1
        /\ count'["marshal_error"] = count["marshal_error"]
        /\ count'["produce_failed"] = count["produce_failed"]
        /\ count'["published"] = count["published"]
        /\ count' \in [Counters -> Nat]
    BY <1>0, <1>b, <2>1, Bumped DEF Counters, D
  <2>4. BooksAsSums'
    BY <1>a, <1>b, <1>0, <1>2, <2>1, <2>2, <2>3 DEF BooksAsSums
  <2> QED BY <1>a, <2>1, <2>3, <2>4 DEF Numbers
<1>7. CASE AcquireSlot(c)
  <2>1. Goto(c, "acquired") /\ call[c] = "span" /\ Bump("received") /\ inflight' = inflight + 1
        /\ inflight < MaxInFlight /\ UNCHANGED <<sem, gauge>>
    BY <1>7 DEF AcquireSlot, AtSpan, clientVars
  <2>2. /\ Cardinality(At("acquired"))' = Cardinality(At("acquired")) + 1
        /\ Cardinality(At("marshal"))' = Cardinality(At("marshal"))
        /\ Cardinality(At("unwind"))' = Cardinality(At("unwind"))
        /\ Cardinality(Working)' = Cardinality(Working) + 1
        /\ Cardinality(Active)' = Cardinality(Active)
        /\ Cardinality(Active)' \in Nat
    BY <1>0, <1>a, <2>1, GotoCounts DEF Labels, D
  <2>3. /\ count'["received"] = count["received"] + 1
        /\ count'["invalid"] = count["invalid"]
        /\ count'["buffer_full"] = count["buffer_full"]
        /\ count'["marshal_error"] = count["marshal_error"]
        /\ count'["produce_failed"] = count["produce_failed"]
        /\ count'["published"] = count["published"]
        /\ count' \in [Counters -> Nat]
    BY <1>0, <1>b, <2>1, Bumped DEF Counters, D
  <2> QED BY <1>a, <1>b, <1>0, <1>2, <2>1, <2>2, <2>3 DEF BooksAsSums, Numbers
<1>8. CASE IncGauge(c)
  <2>1. Goto(c, "marshal") /\ call[c] = "acquired" /\ gauge' = gauge + 1
        /\ UNCHANGED <<sem, inflight, count>>
    BY <1>8 DEF IncGauge, clientVars
  <2>2. /\ Cardinality(At("acquired"))' = Cardinality(At("acquired")) - 1
        /\ Cardinality(At("marshal"))' = Cardinality(At("marshal")) + 1
        /\ Cardinality(At("unwind"))' = Cardinality(At("unwind"))
        /\ Cardinality(Working)' = Cardinality(Working)
        /\ Cardinality(Active)' = Cardinality(Active)
        /\ Cardinality(Active)' \in Nat
    BY <1>0, <1>a, <2>1, GotoCounts DEF Labels, D
  <2> QED BY <1>a, <1>b, <1>0, <1>2, <2>1, <2>2 DEF BooksAsSums, Numbers
<1>9. CASE MarshalFails(c)
  <2>1. Goto(c, "unwind") /\ call[c] = "marshal" /\ inflight' = inflight - 1 /\ inflight > 0
        /\ UNCHANGED <<sem, gauge, count>>
    BY <1>9 DEF MarshalFails, clientVars
  <2>2. /\ Cardinality(At("acquired"))' = Cardinality(At("acquired"))
        /\ Cardinality(At("marshal"))' = Cardinality(At("marshal")) - 1
        /\ Cardinality(At("unwind"))' = Cardinality(At("unwind")) + 1
        /\ Cardinality(Working)' = Cardinality(Working)
        /\ Cardinality(Active)' = Cardinality(Active)
        /\ Cardinality(Active)' \in Nat
    BY <1>0, <1>a, <2>1, GotoCounts DEF Labels, D
  <2> QED BY <1>a, <1>b, <1>0, <1>2, <2>1, <2>2 DEF BooksAsSums, Numbers
<1>10. CASE Unwind(c)
  <2>1. Goto(c, "span") /\ call[c] = "unwind" /\ Bump("marshal_error") /\ gauge' = gauge - 1
        /\ UNCHANGED <<sem, inflight>>
    BY <1>10 DEF Unwind, clientVars
  <2>2. /\ Cardinality(At("acquired"))' = Cardinality(At("acquired"))
        /\ Cardinality(At("marshal"))' = Cardinality(At("marshal"))
        /\ Cardinality(At("unwind"))' = Cardinality(At("unwind")) - 1
        /\ Cardinality(Working)' = Cardinality(Working) - 1
        /\ Cardinality(Active)' = Cardinality(Active)
        /\ Cardinality(Active)' \in Nat
        /\ Cardinality(At("unwind"))' \in Nat
    BY <1>0, <1>a, <2>1, GotoCounts DEF Labels, D
  <2>3. /\ count'["received"] = count["received"]
        /\ count'["invalid"] = count["invalid"]
        /\ count'["buffer_full"] = count["buffer_full"]
        /\ count'["marshal_error"] = count["marshal_error"] + 1
        /\ count'["produce_failed"] = count["produce_failed"]
        /\ count'["published"] = count["published"]
        /\ count' \in [Counters -> Nat]
    BY <1>0, <1>b, <2>1, Bumped DEF Counters, D
  <2> QED BY <1>a, <1>b, <1>0, <1>2, <2>1, <2>2, <2>3 DEF BooksAsSums, Numbers
<1>11. CASE Return(c)
  <2>1. Goto(c, "none") /\ call[c] = "span" /\ sem' = sem - 1
        /\ UNCHANGED <<inflight, gauge, count>>
    BY <1>11 DEF Return
  <2>2. /\ Cardinality(At("acquired"))' = Cardinality(At("acquired"))
        /\ Cardinality(At("marshal"))' = Cardinality(At("marshal"))
        /\ Cardinality(At("unwind"))' = Cardinality(At("unwind"))
        /\ Cardinality(Working)' = Cardinality(Working)
        /\ Cardinality(Active)' = Cardinality(Active) - 1
        /\ Cardinality(Active)' \in Nat
    BY <1>0, <1>a, <2>1, GotoCounts DEF Labels, D
  <2> QED BY <1>a, <1>b, <1>0, <1>2, <2>1, <2>2 DEF BooksAsSums, Numbers
<1> QED BY <1>3, <1>4, <1>5, <1>6, <1>7, <1>8, <1>9, <1>10, <1>11

\* A record about to be produced is a new one.
LEMMA RecordIsNew ==
    ASSUME IInv, NEW c \in Clients, Produce(c)
    PROVE  Rec(c) \in Record /\ Rec(c) \notin accepted /\ Rec(c) \notin buffered
<1>1. try[c] \in 1..MaxAttempts /\ at[c] \in 1..Len(Request[c]) /\ at[c] \in Int
  BY RequestType, CollectorAssumption DEF Produce, IInv, HandlerInv, TypeOK
<1>2. Rec(c) \notin accepted
  BY <1>1 DEF Produce, IInv, HandlerInv, Rec
<1> QED BY <1>1, <1>2, RecordParts DEF Rec, IInv, HandlerInv

\* The books stay balanced when a handler hands a record to the producer.
LEMMA BooksProduce ==
    ASSUME IInv, NEW c \in Clients, Produce(c)
    PROVE  BooksAsSums' /\ Numbers'
<1>1. Rec(c) \notin buffered /\ (promise # NoPromise => promise.rec # Rec(c))
  BY RecordIsNew DEF IInv, HandlerInv
<1>2. /\ Goto(c, "span") /\ call[c] = "marshal" /\ buffered' = buffered \cup {Rec(c)}
      /\ UNCHANGED <<promise, sem, inflight, gauge, count>>
  BY DEF Produce, clientVars
<1>3. promise.step \in {"count", "unbuffer"} => promise # NoPromise
  BY DEF NoPromise
<1>4. Cardinality(Holding)' = Cardinality(Holding) + 1
  <2> DEFINE S == Holding  T == Holding'
  <2>1. \A y : y # Rec(c) => (y \in S <=> y \in T)
    BY <1>2 DEF Holding
  <2>2. Rec(c) \notin S /\ Rec(c) \in T
    BY <1>1, <1>2, <1>3 DEF Holding
  <2>3. IsFiniteSet(S)
    BY BooksFacts
  <2> HIDE DEF S, T
  <2>4. Cardinality(T) = Cardinality(S) + 1
    BY <2>1, <2>2, <2>3, Counted DEF D
  <2> QED BY <2>4 DEF S, T
<1>5. Cardinality(Uncounted)' = Cardinality(Uncounted) + 1
  <2> DEFINE S == Uncounted  T == Uncounted'
  <2>1. \A y : y # Rec(c) => (y \in S <=> y \in T)
    BY <1>2 DEF Uncounted
  <2>2. Rec(c) \notin S /\ Rec(c) \in T
    BY <1>1, <1>2, <1>3 DEF Uncounted
  <2>3. IsFiniteSet(S)
    BY BooksFacts
  <2> HIDE DEF S, T
  <2>4. Cardinality(T) = Cardinality(S) + 1
    BY <2>1, <2>2, <2>3, Counted DEF D
  <2> QED BY <2>4 DEF S, T
<1>6. /\ call \in [Clients -> Labels]
      /\ Cardinality(At("acquired")) \in Nat /\ Cardinality(At("marshal")) \in Nat
      /\ Cardinality(At("unwind")) \in Nat
      /\ Cardinality(Working) \in Nat /\ Cardinality(Active) \in Nat
  BY BooksFacts
<1>7. /\ Cardinality(At("acquired"))' = Cardinality(At("acquired"))
      /\ Cardinality(At("marshal"))' = Cardinality(At("marshal")) - 1
      /\ Cardinality(At("unwind"))' = Cardinality(At("unwind"))
      /\ Cardinality(Working)' = Cardinality(Working) - 1
      /\ Cardinality(Active)' = Cardinality(Active)
      /\ Cardinality(Active)' \in Nat
  BY <1>2, <1>6, GotoCounts DEF Labels, D
<1>8. /\ count["received"] \in Nat /\ count["invalid"] \in Nat /\ count["buffer_full"] \in Nat
      /\ count["marshal_error"] \in Nat /\ count["produce_failed"] \in Nat /\ count["published"] \in Nat
      /\ D(promise.step = "count") \in Nat
  BY BooksFacts DEF Numbers, Counters, D
<1>9. BooksAsSums /\ Numbers /\ Cardinality(Holding) \in Nat /\ Cardinality(Uncounted) \in Nat
  BY BooksFacts
<1>10. Numbers'
  BY <1>2, <1>9 DEF Numbers
<1>11. BooksAsSums'
  <2>1. /\ inflight \in Nat /\ gauge \in Nat /\ inflight' = inflight /\ gauge' = gauge
        /\ sem' = sem /\ promise' = promise /\ count' = count
    BY <1>2, <1>9, CollectorAssumption DEF Numbers
  <2> QED BY <2>1, <1>4, <1>5, <1>6, <1>7, <1>8, <1>9 DEF BooksAsSums
<1> QED BY <1>10, <1>11

\* They do when a broker appends, a promise starts or a callback runs.
LEMMA BooksKafka ==
    ASSUME IInv, (\E r \in Record : BrokerAppends(r) \/ StartPromise(r)) \/ Callback
    PROVE  BooksAsSums' /\ Numbers'
<1>1. call' = call /\ sem' = sem
  BY DEF BrokerAppends, StartPromise, Callback, CallbackReleases, CallbackCounts, Unbuffer, clientVars
<1> USE BooksFacts, <1>1, CallStill
<1>2. ASSUME NEW r \in Record, BrokerAppends(r) PROVE BooksAsSums' /\ Numbers'
  <2>1. UNCHANGED <<inflight, gauge, buffered, promise, count>>
    BY <1>2 DEF BrokerAppends
  <2> QED BY <2>1, HeldStill DEF BooksAsSums, Numbers, Labels
<1>3. ASSUME NEW r \in Record, StartPromise(r) PROVE BooksAsSums' /\ Numbers'
  <2>1. promise.step = "idle" /\ promise'.step = "release" /\ UNCHANGED <<inflight, gauge, buffered, count>>
    BY <1>3 DEF StartPromise, NoPromise
  <2>2. Holding' = Holding /\ Uncounted' = Uncounted
    BY <2>1 DEF Holding, Uncounted
  <2>3. \A S, T : S = T => Cardinality(S) = Cardinality(T)
    OBVIOUS
  <2>4. Cardinality(Holding)' = Cardinality(Holding) /\ Cardinality(Uncounted)' = Cardinality(Uncounted)
    BY <2>2, <2>3, Zenon
  <2> QED BY <2>1, <2>4 DEF BooksAsSums, Numbers, Labels, D
<1>4. promise # NoPromise => promise.rec \in buffered
  BY DEF IInv, HandlerInv
<1>5. CASE CallbackReleases
  <2>1. /\ promise.step = "release" /\ promise'.step = "count" /\ promise'.rec = promise.rec
        /\ inflight > 0 /\ inflight' = inflight - 1 /\ UNCHANGED <<gauge, buffered, count>>
        /\ promise.rec \in buffered
    BY <1>4, <1>5 DEF CallbackReleases, NoPromise, IInv, TypeOK
  <2>2. Cardinality(Uncounted)' = Cardinality(Uncounted)
    <3>1. Uncounted' = Uncounted
      BY <2>1 DEF Uncounted
    <3>2. \A S, T : S = T => Cardinality(S) = Cardinality(T)
      OBVIOUS
    <3> QED BY <3>1, <3>2, Zenon
  <2>3. Cardinality(Holding)' = Cardinality(Holding) - 1
    <3> DEFINE S == Holding  T == Holding'
    <3>1. \A y : y # promise.rec => (y \in S <=> y \in T)
      BY <2>1 DEF Holding
    <3>2. promise.rec \in S /\ promise.rec \notin T
      BY <2>1 DEF Holding
    <3>3. IsFiniteSet(S)
      OBVIOUS
    <3> HIDE DEF S, T
    <3>4. Cardinality(T) = Cardinality(S) - 1
      BY <3>1, <3>2, <3>3, Counted DEF D
    <3> QED BY <3>4 DEF S, T
  <2>4. /\ Cardinality(At("acquired"))' = Cardinality(At("acquired"))
        /\ Cardinality(At("marshal"))' = Cardinality(At("marshal"))
        /\ Cardinality(At("unwind"))' = Cardinality(At("unwind"))
        /\ Cardinality(Working)' = Cardinality(Working) /\ Cardinality(Active)' = Cardinality(Active)
    BY <1>1, CallStill DEF Labels
  <2>5. inflight \in Nat /\ MaxInFlight \in Nat /\ gauge \in Nat
    BY CollectorAssumption DEF Numbers
  <2>6. D(promise.step = "count") = 0 /\ D(promise'.step = "count") = 1
    BY <2>1 DEF D
  <2>7. BooksAsSums'
    BY <2>1, <2>2, <2>3, <2>4, <2>5, <2>6 DEF BooksAsSums
  <2>8. Numbers'
    BY <2>1, <2>5 DEF Numbers
  <2> QED BY <2>7, <2>8
<1>6. CASE CallbackCounts
  <2>1. /\ promise.step = "count" /\ promise'.step = "unbuffer" /\ promise'.rec = promise.rec
        /\ gauge' = gauge - 1 /\ UNCHANGED <<inflight, buffered>>
        /\ promise.rec \in buffered /\ (Bump("published") \/ Bump("produce_failed"))
    BY <1>4, <1>6 DEF CallbackCounts, NoPromise, IInv, TypeOK
  <2>a. /\ count["received"] \in Nat /\ count["invalid"] \in Nat /\ count["buffer_full"] \in Nat
        /\ count["marshal_error"] \in Nat /\ count["produce_failed"] \in Nat
        /\ count["published"] \in Nat /\ count \in [Counters -> Nat]
    BY DEF Numbers, Counters
  <2>b. /\ count'["produce_failed"] + count'["published"] = count["produce_failed"] + count["published"] + 1
        /\ count'["received"] = count["received"] /\ count'["invalid"] = count["invalid"]
        /\ count'["buffer_full"] = count["buffer_full"]
        /\ count'["marshal_error"] = count["marshal_error"]
        /\ count'["produce_failed"] \in Nat /\ count'["published"] \in Nat
        /\ count' \in [Counters -> Nat]
    BY <2>1, <2>a, Bumped DEF Counters, D
  <2>2. Cardinality(Holding)' = Cardinality(Holding)
    <3>1. Holding' = Holding
      BY <2>1 DEF Holding
    <3>2. \A S, T : S = T => Cardinality(S) = Cardinality(T)
      OBVIOUS
    <3> QED BY <3>1, <3>2, Zenon
  <2>3. Cardinality(Uncounted)' = Cardinality(Uncounted) - 1
    <3> DEFINE S == Uncounted  T == Uncounted'
    <3>1. \A y : y # promise.rec => (y \in S <=> y \in T)
      BY <2>1 DEF Uncounted
    <3>2. promise.rec \in S /\ promise.rec \notin T
      BY <2>1 DEF Uncounted
    <3>3. IsFiniteSet(S)
      OBVIOUS
    <3> HIDE DEF S, T
    <3>4. Cardinality(T) = Cardinality(S) - 1
      BY <3>1, <3>2, <3>3, Counted DEF D
    <3> QED BY <3>4 DEF S, T
  <2>4. /\ Cardinality(At("acquired"))' = Cardinality(At("acquired"))
        /\ Cardinality(At("marshal"))' = Cardinality(At("marshal"))
        /\ Cardinality(At("unwind"))' = Cardinality(At("unwind"))
        /\ Cardinality(Working)' = Cardinality(Working) /\ Cardinality(Active)' = Cardinality(Active)
    BY <1>1, CallStill DEF Labels
  <2> QED BY <2>1, <2>2, <2>3, <2>4, <2>a, <2>b DEF BooksAsSums, Numbers, D
<1>7. CASE Unbuffer
  <2>1. /\ promise.step = "unbuffer" /\ promise'.step = "idle" /\ buffered' = buffered \ {promise.rec}
        /\ UNCHANGED <<inflight, gauge, count>>
    BY <1>7 DEF Unbuffer, NoPromise
  <2>2. Holding' = Holding /\ Uncounted' = Uncounted
    BY <2>1 DEF Holding, Uncounted
  <2>3. \A S, T : S = T => Cardinality(S) = Cardinality(T)
    OBVIOUS
  <2>4. Cardinality(Holding)' = Cardinality(Holding) /\ Cardinality(Uncounted)' = Cardinality(Uncounted)
    BY <2>2, <2>3, Zenon
  <2> QED BY <2>1, <2>4 DEF BooksAsSums, Numbers, Labels, D
<1> QED BY <1>2, <1>3, <1>5, <1>6, <1>7 DEF Callback

\* They do when the process is told to stop, closes, exits or dies.
LEMMA BooksServer ==
    ASSUME IInv, Terminate \/ CloseProducer \/ Exit \/ Crash
    PROVE  BooksAsSums' /\ Numbers'
<1>1. CASE Terminate \/ CloseProducer \/ Exit
  <2>1. UNCHANGED <<call, sem, inflight, gauge, count, buffered, promise>>
    BY <1>1 DEF Terminate, CloseProducer, Exit, kafkaVars
  <2> QED BY <2>1, BooksFacts, CallStill, HeldStill DEF BooksAsSums, Numbers, Labels
<1>2. CASE Crash
  <2>1. /\ sem' = 0 /\ inflight' = 0 /\ gauge' = 0 /\ buffered' = {} /\ promise'.step = "idle"
        /\ \A c \in Clients : call'[c] = "none"
    BY <1>2 DEF Crash, NoPromise
  <2>2. count' \in [Counters -> Nat] /\ \A k \in Counters : count'[k] = 0
    BY <1>2 DEF Crash, Zero
  <2>3. At("acquired")' = {} /\ At("marshal")' = {} /\ At("unwind")' = {}
    BY <2>1 DEF At
  <2>4. Working' = {} /\ Active' = {}
    BY <2>1 DEF Working, Active
  <2>5. Holding' = {} /\ Uncounted' = {}
    BY <2>1 DEF Holding, Uncounted
  <2>6. \A S : S = {} => Cardinality(S) = 0
    BY FS_EmptySet
  <2>7. /\ Cardinality(At("acquired"))' = 0 /\ Cardinality(At("marshal"))' = 0
        /\ Cardinality(At("unwind"))' = 0 /\ Cardinality(Working)' = 0 /\ Cardinality(Active)' = 0
        /\ Cardinality(Holding)' = 0 /\ Cardinality(Uncounted)' = 0
    BY <2>3, <2>4, <2>5, <2>6, Zenon
  <2> QED BY <2>1, <2>2, <2>7, CollectorAssumption DEF BooksAsSums, Numbers, Counters, D
<1> QED BY <1>1, <1>2

\* So they do in every step.
LEMMA BooksStep ==
    ASSUME IInv, Next
    PROVE  Books' /\ Numbers'
BY BooksHandler, BooksProduce, BooksKafka, BooksServer, BooksNamed DEF Next, Handler

-----------------------------------------------------------------------------
(* The handlers and the callback *)

\* What a step of client c may touch: its own call, and nothing of Kafka's.
LEMMA HandlerQuiet ==
    ASSUME IInv, NEW c \in Clients,
           Admit(c) \/ RejectCall(c) \/ SkipInvalid(c) \/ BufferFull(c) \/ AcquireSlot(c)
           \/ IncGauge(c) \/ MarshalFails(c) \/ Unwind(c) \/ Return(c)
    PROVE  HandlerInv'
<1> USE DEF IInv, TypeOK, HandlerInv
<1>1. UNCHANGED <<server, buffered, promise, topic, accepted, dropped>>
  BY DEF Admit, RejectCall, SkipInvalid, BufferFull, AcquireSlot, IncGauge, MarshalFails, Unwind,
         Return, kafkaVars, clientVars
<1>2. \A d \in Clients : d # c => /\ call'[d] = call[d] /\ at'[d] = at[d] /\ try'[d] = try[d]
  BY DEF Admit, RejectCall, SkipInvalid, BufferFull, AcquireSlot, IncGauge, MarshalFails, Unwind,
         Return, clientVars, Goto, NextSpan
<1>3. /\ call'[c] # "none" => server \in {"serving", "draining"} /\ try'[c] >= 1
      /\ call'[c] \in {"acquired", "marshal", "unwind"} => at'[c] \in DOMAIN Request[c]
      /\ call'[c] = "unwind" => Request[c][at'[c]] = "unmarshalable"
  <2>1. CASE Admit(c)
    BY <2>1 DEF Admit, MaySend, Goto
  <2>2. CASE RejectCall(c)
    BY <2>2 DEF RejectCall, MaySend
  <2>3. CASE SkipInvalid(c) \/ BufferFull(c) \/ AcquireSlot(c)
    BY <2>3, RequestType DEF SkipInvalid, BufferFull, AcquireSlot, AtSpan, clientVars, Goto, NextSpan
  <2>4. CASE IncGauge(c) \/ MarshalFails(c) \/ Unwind(c) \/ Return(c)
    BY <2>4 DEF IncGauge, MarshalFails, Unwind, Return, clientVars, Goto
  <2> QED BY <2>1, <2>2, <2>3, <2>4
<1>4. ASSUME NEW k \in 1..MaxAttempts, NEW i \in 1..Len(Request[c]), <<c, k, i>> \in accepted
      PROVE  k <= try'[c] /\ (k = try'[c] /\ call'[c] # "none" => i < at'[c])
  <2>1. k <= try[c] /\ (k = try[c] /\ call[c] # "none" => i < at[c]) /\ try[c] \in Int /\ at[c] \in Int
        /\ k \in Int /\ i \in Int
    BY <1>4, RequestType
  <2>2. CASE Admit(c) \/ RejectCall(c)
    <3>1. try'[c] = try[c] + 1
      BY <2>2 DEF Admit, RejectCall
    <3> QED BY <2>1, <3>1
  <2>3. CASE SkipInvalid(c) \/ BufferFull(c) \/ AcquireSlot(c) \/ IncGauge(c) \/ MarshalFails(c) \/ Unwind(c)
    <3>1. try' = try /\ call[c] # "none" /\ (at'[c] = at[c] \/ at'[c] = at[c] + 1)
      BY <2>3 DEF SkipInvalid, BufferFull, AcquireSlot, IncGauge, MarshalFails, Unwind, AtSpan, NextSpan,
                  clientVars
    <3> QED BY <2>1, <3>1
  <2>4. CASE Return(c)
    <3>1. try' = try /\ call'[c] = "none"
      BY <2>4 DEF Return, Goto
    <3> QED BY <2>1, <3>1
  <2> QED BY <2>2, <2>3, <2>4
<1>5. \A d \in Clients :
        /\ call'[d] # "none" => server' \in {"serving", "draining"} /\ try'[d] >= 1
        /\ call'[d] \in {"acquired", "marshal", "unwind"} => at'[d] \in DOMAIN Request[d]
        /\ call'[d] = "unwind" => Request[d][at'[d]] = "unmarshalable"
  BY <1>1, <1>2, <1>3
<1>6. \A d \in Clients : \A k \in 1..MaxAttempts : \A i \in 1..Len(Request[d]) :
        <<d, k, i>> \in accepted => k <= try'[d] /\ (k = try'[d] /\ call'[d] # "none" => i < at'[d])
  BY <1>2, <1>4
<1>7. /\ IsFiniteSet(buffered) /\ buffered \subseteq accepted
      /\ promise # NoPromise => /\ promise.rec \in buffered /\ promise.step # "idle"
                                /\ promise.result = "ok" => promise.rec \in topic
                                /\ (promise.step = "unbuffer" /\ promise.result # "ok") =>
                                      <<promise.rec, promise.result>> \in dropped
  OBVIOUS
<1> HIDE DEF IInv, TypeOK, HandlerInv
<1> QED BY <1>1, <1>5, <1>6, <1>7 DEF HandlerInv

\* The record that is produced is the next one of its attempt.
LEMMA HandlerProduce ==
    ASSUME IInv, NEW c \in Clients, Produce(c)
    PROVE  HandlerInv'
<1>1. /\ Rec(c) = <<c, try[c], at[c]>> /\ call[c] = "marshal"
      /\ buffered' = buffered \cup {Rec(c)} /\ accepted' = accepted \cup {Rec(c)}
      /\ UNCHANGED <<server, try, promise, topic, dropped>>
  BY DEF Produce, clientVars, Rec
<1>2. /\ call'[c] = "span" /\ at'[c] = at[c] + 1
      /\ \A d \in Clients : d # c => call'[d] = call[d] /\ at'[d] = at[d]
  BY DEF Produce, Goto, NextSpan, IInv, TypeOK
<1>3. /\ \A d \in Clients : try[d] \in Nat /\ at[d] \in Nat
      /\ server \in {"serving", "draining"} /\ try[c] >= 1
  BY <1>1 DEF IInv, TypeOK, HandlerInv
<1>4. \A d \in Clients :
        /\ call'[d] # "none" => server' \in {"serving", "draining"} /\ try'[d] >= 1
        /\ call'[d] \in {"acquired", "marshal", "unwind"} => at'[d] \in DOMAIN Request[d]
        /\ call'[d] = "unwind" => Request[d][at'[d]] = "unmarshalable"
  BY <1>1, <1>2, <1>3 DEF IInv, HandlerInv
<1>5. ASSUME NEW d \in Clients, NEW k \in 1..MaxAttempts, NEW i \in 1..Len(Request[d]),
             <<d, k, i>> \in accepted'
      PROVE  k <= try'[d] /\ (k = try'[d] /\ call'[d] # "none" => i < at'[d])
  <2>1. CASE <<d, k, i>> \in accepted
    <3>1. k <= try[d] /\ (k = try[d] /\ call[d] # "none" => i < at[d])
      BY <2>1 DEF IInv, HandlerInv
    <3>2. k \in Int /\ i \in Int /\ (call'[d] # "none" => call[d] # "none") /\ at'[d] >= at[d]
      BY <1>1, <1>2, <1>3, RequestType
    <3> QED BY <1>1, <1>2, <1>3, <3>1, <3>2
  <2>2. CASE <<d, k, i>> = Rec(c)
    <3>1. d = c /\ k = try[c] /\ i = at[c]
      BY <1>1, <2>2
    <3> QED BY <1>1, <1>2, <1>3, <3>1
  <2> QED BY <1>1, <1>5, <2>1, <2>2
<1>6. IsFiniteSet(buffered') /\ buffered' \subseteq accepted'
  <2>1. IsFiniteSet(buffered) /\ buffered \subseteq accepted
    BY DEF IInv, HandlerInv
  <2> QED BY <1>1, <2>1, FS_AddElement
<1>7. promise' # NoPromise =>
         /\ promise'.rec \in buffered' /\ promise'.step # "idle"
         /\ promise'.result = "ok" => promise'.rec \in topic'
         /\ (promise'.step = "unbuffer" /\ promise'.result # "ok") =>
               <<promise'.rec, promise'.result>> \in dropped'
  BY <1>1 DEF IInv, HandlerInv
<1> QED BY <1>4, <1>5, <1>6, <1>7 DEF HandlerInv

\* The broker and the callback leave the handlers alone.
LEMMA HandlerKafka ==
    ASSUME IInv, (\E r \in Record : BrokerAppends(r) \/ StartPromise(r)) \/ Callback
    PROVE  HandlerInv'
<1>1. UNCHANGED <<server, try, call, at, accepted>>
  BY DEF BrokerAppends, StartPromise, Callback, CallbackReleases, CallbackCounts, Unbuffer, clientVars
<1>2. IsFiniteSet(buffered) /\ buffered \subseteq accepted
  BY DEF IInv, HandlerInv
<1>3. /\ IsFiniteSet(buffered') /\ buffered' \subseteq accepted'
      /\ promise' # NoPromise =>
           /\ promise'.rec \in buffered' /\ promise'.step # "idle"
           /\ promise'.result = "ok" => promise'.rec \in topic'
           /\ (promise'.step = "unbuffer" /\ promise'.result # "ok") =>
                 <<promise'.rec, promise'.result>> \in dropped'
  <2> USE <1>1, <1>2 DEF IInv, HandlerInv
  <2>1. CASE \E r \in Record : BrokerAppends(r)
    BY <2>1 DEF BrokerAppends
  <2>2. CASE \E r \in Record : StartPromise(r)
    BY <2>2 DEF StartPromise, NoPromise
  <2>3. promise # NoPromise => promise \in [rec : Record, result : {"ok", "timeout", "closed"},
                                             step : {"release", "count", "unbuffer"}]
    BY DEF TypeOK
  <2>4. CASE CallbackReleases
    BY <2>3, <2>4 DEF CallbackReleases, NoPromise
  <2>5. CASE CallbackCounts
    BY <2>3, <2>5 DEF CallbackCounts, NoPromise
  <2>6. CASE Unbuffer
    BY <2>6, FS_RemoveElement DEF Unbuffer, NoPromise
  <2> QED BY <2>1, <2>2, <2>4, <2>5, <2>6 DEF Callback
<1> QED BY <1>1, <1>3 DEF IInv, HandlerInv

\* GracefulStop waits for the handlers, and a crash ends them all.
LEMMA HandlerServer ==
    ASSUME IInv, Terminate \/ CloseProducer \/ Exit \/ Crash
    PROVE  HandlerInv'
<1>1. CASE Terminate \/ CloseProducer \/ Exit
  BY <1>1 DEF Terminate, CloseProducer, Exit, kafkaVars, IInv, HandlerInv
<1>2. CASE Crash
  <2>1. /\ \A c \in Clients : call'[c] = "none"
        /\ buffered' = {} /\ promise' = NoPromise /\ try' = try /\ accepted' = accepted
    BY <1>2 DEF Crash
  <2>2. IsFiniteSet(buffered')
    BY <2>1, FS_EmptySet
  <2> QED BY <2>1, <2>2 DEF IInv, HandlerInv
<1> QED BY <1>1, <1>2

\* No step takes a handler to where it may not stand.
LEMMA HandlerStep ==
    ASSUME IInv, Next
    PROVE  HandlerInv'
BY HandlerQuiet, HandlerProduce, HandlerKafka, HandlerServer DEF Next, Handler

-----------------------------------------------------------------------------
(* The answers *)

\* No record is forgotten before it is in the topic, in the log, or was in
\* memory when a process ended.
LEMMA KeptStep ==
    ASSUME IInv, Next
    PROVE  \A r \in accepted' : Kept(r)'
<1>1. \A r \in accepted : Kept(r)
  BY DEF IInv, AnswerInv
<1>2. ASSUME NEW c \in Clients, Produce(c) PROVE \A r \in accepted' : Kept(r)'
  BY <1>1, <1>2 DEF Produce, clientVars, Kept
<1>3. ASSUME NEW c \in Clients,
             Admit(c) \/ RejectCall(c) \/ SkipInvalid(c) \/ BufferFull(c) \/ AcquireSlot(c)
             \/ IncGauge(c) \/ MarshalFails(c) \/ Unwind(c) \/ Return(c)
      PROVE  \A r \in accepted' : Kept(r)'
  <2>1. UNCHANGED <<accepted, topic, buffered, gone, dropped>>
    BY <1>3 DEF Admit, RejectCall, SkipInvalid, BufferFull, AcquireSlot, IncGauge, MarshalFails, Unwind,
                Return, kafkaVars, clientVars
  <2> QED BY <1>1, <2>1 DEF Kept
<1>4. CASE (\E r \in Record : BrokerAppends(r) \/ StartPromise(r)) \/ CallbackReleases \/ CallbackCounts
  <2>1. /\ UNCHANGED <<accepted, buffered, gone>> /\ topic \subseteq topic' /\ dropped \subseteq dropped'
    BY <1>4 DEF BrokerAppends, StartPromise, CallbackReleases, CallbackCounts, clientVars
  <2> QED BY <1>1, <2>1 DEF Kept
<1>5. CASE Unbuffer
  <2>1. /\ UNCHANGED <<accepted, topic, gone, dropped>> /\ buffered' = buffered \ {promise.rec}
        /\ promise # NoPromise /\ promise.step = "unbuffer"
    BY <1>5 DEF Unbuffer, NoPromise, clientVars
  <2>2. promise.result \in {"ok", "timeout", "closed"}
    BY <2>1 DEF IInv, TypeOK
  <2>3. promise.rec \in topic \/ \E why \in {"timeout", "closed"} : <<promise.rec, why>> \in dropped
    BY <2>1, <2>2 DEF IInv, HandlerInv
  <2> QED BY <1>1, <2>1, <2>3 DEF Kept
<1>6. CASE Terminate \/ CloseProducer \/ Exit \/ Crash
  <2>1. /\ UNCHANGED <<accepted, topic, dropped>>
        /\ (buffered \subseteq buffered' /\ gone \subseteq gone') \/ gone' = gone \cup buffered
    BY <1>6 DEF Terminate, CloseProducer, Exit, Crash, kafkaVars
  <2> QED BY <1>1, <2>1 DEF Kept
<1> QED BY <1>2, <1>3, <1>4, <1>5, <1>6 DEF Next, Handler, Callback

\* What AnswerInv says of one client.
Answer(c) ==
    /\ (call[c] # "none" /\ ~full[c]) =>
          \A i \in 1..Len(Request[c]) :
             (i < at[c] /\ Request[c][i] = "good") => <<c, try[c], i>> \in accepted
    /\ (call[c] # "none" /\ full[c]) =>
          \E i \in 1..Len(Request[c]) : i < at[c] /\ <<c, try[c], i>> \notin accepted
    /\ reply[c] # "none" => call[c] = "none"
    /\ reply[c] = "ok" =>
          \A i \in 1..Len(Request[c]) : Request[c][i] = "good" => <<c, try[c], i>> \in accepted
    /\ (reply[c] = "exhausted" /\ Request[c] # <<>>) =>
          \E i \in 1..Len(Request[c]) : <<c, try[c], i>> \notin accepted

\* The invariant of the answers, client by client.
LEMMA AnswerByClient ==
    /\ AnswerInv <=> (\A r \in accepted : Kept(r)) /\ (\A c \in Clients : Answer(c))
    /\ AnswerInv' <=> (\A r \in accepted' : Kept(r)') /\ (\A c \in Clients : Answer(c)')
BY RequestType DEF AnswerInv, Answer, ExhaustedMeansRefused

\* A client whose own call stands still and has no new record.
LEMMA AnswerStill ==
    ASSUME NEW d \in Clients, Answer(d), accepted \subseteq accepted',
           call'[d] = call[d], full'[d] = full[d], at'[d] = at[d], try'[d] = try[d], reply'[d] = reply[d],
           \A i \in 1..Len(Request[d]) : <<d, try[d], i>> \in accepted' => <<d, try[d], i>> \in accepted
    PROVE  Answer(d)'
BY DEF Answer

\* The step of a client moves its own answer.
LEMMA AnswerHandler ==
    ASSUME IInv, NEW c \in Clients, Admit(c) \/ RejectCall(c) \/ Handler(c)
    PROVE  Answer(c)'
<1>1. /\ Answer(c) /\ try[c] \in Nat /\ at[c] \in Nat /\ at[c] \in 1..Len(Request[c]) + 1
      /\ full[c] \in BOOLEAN
      /\ try \in [Clients -> Nat] /\ at \in [Clients -> Nat] /\ c \in DOMAIN reply
      /\ call \in [Clients -> Labels] /\ full \in [Clients -> BOOLEAN]
      /\ reply \in [Clients -> {"none", "ok", "exhausted", "lost"}]
  BY AnswerByClient DEF IInv, TypeOK, Labels
<1>2. Len(Request[c]) \in Nat /\ DOMAIN Request[c] = 1..Len(Request[c])
  BY RequestType
<1>3. \A k \in 1..MaxAttempts : \A i \in 1..Len(Request[c]) :
          <<c, k, i>> \in accepted => k <= try[c] /\ (k = try[c] /\ call[c] # "none" => i < at[c])
  BY DEF IInv, HandlerInv
<1>4. CASE Admit(c)
  <2>1. call'[c] = "span" /\ full'[c] = FALSE /\ at'[c] = 1 /\ reply'[c] = "none"
    BY <1>1, <1>4 DEF Admit, Goto
  <2> QED BY <1>2, <2>1 DEF Answer
<1>5. CASE RejectCall(c)
  <2>1. call'[c] = "none" /\ reply'[c] = "exhausted" /\ accepted' = accepted /\ try'[c] = try[c] + 1
        /\ attempts' = attempts + 1 /\ attempts < MaxAttempts
    BY <1>1, <1>5 DEF RejectCall, MaySend, kafkaVars
  <2>2. try[c] + 1 \in 1..MaxAttempts
    BY <1>1, <2>1, CollectorAssumption DEF IInv, TypeOK
  <2>3. ASSUME Request[c] # <<>> PROVE 1 \in 1..Len(Request[c])
    <3>1. Len(Request[c]) # 0
      BY <2>3, CollectorAssumption
    <3> QED BY <1>2, <3>1
  <2>4. ASSUME Request[c] # <<>> PROVE <<c, try[c] + 1, 1>> \notin accepted
    BY <1>1, <1>3, <2>2, <2>3, <2>4
  <2> QED BY <2>1, <2>3, <2>4 DEF Answer
<1>6. CASE SkipInvalid(c) \/ Unwind(c)
  <2>1. /\ call[c] # "none" /\ call'[c] = "span" /\ at'[c] = at[c] + 1 /\ reply[c] = "none"
        /\ Request[c][at[c]] # "good" /\ UNCHANGED <<full, try, reply, accepted>>
    BY <1>1, <1>6 DEF SkipInvalid, Unwind, AtSpan, Goto, NextSpan, clientVars, kafkaVars, Answer,
                      IInv, HandlerInv
  <2>2. \A i \in 1..Len(Request[c]) : i < at[c] + 1 <=> (i < at[c] \/ i = at[c])
    BY <1>1, <1>2
  <2> QED BY <1>1, <2>1, <2>2 DEF Answer
<1>7. CASE BufferFull(c)
  <2>1. /\ call[c] = "span" /\ call'[c] = "span" /\ at'[c] = at[c] + 1 /\ reply[c] = "none"
        /\ full'[c] = TRUE /\ UNCHANGED <<try, reply, accepted>> /\ at[c] <= Len(Request[c])
    BY <1>1, <1>7 DEF BufferFull, AtSpan, Goto, NextSpan, clientVars, kafkaVars, Answer
  <2>2. at[c] \in 1..Len(Request[c]) /\ at[c] < at[c] + 1 /\ ~(at[c] < at[c])
    BY <1>1, <1>2, <2>1
  <2>3. try[c] \in 1..MaxAttempts
    BY <1>1, <2>1, CollectorAssumption DEF IInv, TypeOK, HandlerInv
  <2>4. <<c, try[c], at[c]>> \notin accepted
    BY <1>3, <2>1, <2>2, <2>3
  <2> QED BY <1>1, <2>1, <2>2, <2>4 DEF Answer
<1>8. CASE AcquireSlot(c) \/ IncGauge(c) \/ MarshalFails(c)
  <2>1. /\ call[c] # "none" /\ call'[c] # "none" /\ UNCHANGED <<at, full, try, reply, accepted>>
    BY <1>1, <1>8 DEF AcquireSlot, IncGauge, MarshalFails, AtSpan, Goto, clientVars, kafkaVars
  <2> QED BY <1>1, <2>1 DEF Answer
<1>9. CASE Produce(c)
  <2>1. /\ call[c] = "marshal" /\ call'[c] = "span" /\ at'[c] = at[c] + 1 /\ reply[c] = "none"
        /\ UNCHANGED <<full, try, reply>> /\ accepted' = accepted \cup {<<c, try[c], at[c]>>}
    BY <1>1, <1>9 DEF Produce, Goto, NextSpan, clientVars, Answer, Rec
  <2>2. \A i \in 1..Len(Request[c]) : i < at[c] + 1 <=> (i < at[c] \/ i = at[c])
    BY <1>1, <1>2
  <2>3. \A i \in 1..Len(Request[c]) :
          (i < at[c] /\ <<c, try[c], i>> \notin accepted) => <<c, try[c], i>> \notin accepted'
    BY <1>1, <2>1
  <2> QED BY <1>1, <2>1, <2>2, <2>3 DEF Answer
<1>10. CASE Return(c)
  <2>1. /\ call[c] # "none" /\ call'[c] = "none" /\ at[c] > Len(Request[c])
        /\ reply'[c] = IF full[c] THEN "exhausted" ELSE "ok"
        /\ UNCHANGED <<try, full, accepted>>
    BY <1>1, <1>10 DEF Return, Goto, kafkaVars
  <2>2. \A i \in 1..Len(Request[c]) : i < at[c]
    BY <1>1, <1>2, <2>1
  <2> QED BY <1>1, <2>1, <2>2 DEF Answer
<1> QED BY <1>4, <1>5, <1>6, <1>7, <1>8, <1>9, <1>10 DEF Handler

\* And leaves the other clients' alone.
LEMMA AnswerOthers ==
    ASSUME IInv, NEW c \in Clients, Admit(c) \/ RejectCall(c) \/ Handler(c), NEW d \in Clients, d # c
    PROVE  Answer(d)'
<1>1. Answer(d)
  BY AnswerByClient DEF IInv
<1>2. /\ call'[d] = call[d] /\ full'[d] = full[d] /\ at'[d] = at[d] /\ try'[d] = try[d]
      /\ reply'[d] = reply[d]
  BY DEF Admit, RejectCall, Handler, SkipInvalid, BufferFull, AcquireSlot, IncGauge, MarshalFails, Unwind,
         Produce, Return, Goto, NextSpan, clientVars, IInv, TypeOK
<1>3. accepted' = accepted \/ accepted' = accepted \cup {<<c, try[c], at[c]>>}
  BY DEF Admit, RejectCall, Handler, SkipInvalid, BufferFull, AcquireSlot, IncGauge, MarshalFails, Unwind,
         Produce, Return, kafkaVars, Rec
<1>4. accepted \subseteq accepted'
      /\ \A i \in 1..Len(Request[d]) : <<d, try[d], i>> \in accepted' => <<d, try[d], i>> \in accepted
  BY <1>3
<1> QED BY <1>1, <1>2, <1>4, AnswerStill

\* What an answer implied of its spans stays true in every step.
LEMMA AnswerStep ==
    ASSUME IInv, Next
    PROVE  AnswerInv'
<1>1. \A r \in accepted' : Kept(r)'
  BY KeptStep
<1>2. ASSUME NEW d \in Clients PROVE Answer(d)'
  <2>1. ASSUME NEW c \in Clients, Admit(c) \/ RejectCall(c) \/ Handler(c) PROVE Answer(d)'
    BY <2>1, AnswerHandler, AnswerOthers
  <2>2. Answer(d)
    BY AnswerByClient DEF IInv
  <2>3. CASE (\E r \in Record : BrokerAppends(r) \/ StartPromise(r)) \/ Callback
             \/ Terminate \/ CloseProducer \/ Exit
    <3>1. UNCHANGED <<call, full, at, try, reply, accepted>>
      BY <2>3 DEF BrokerAppends, StartPromise, Callback, CallbackReleases, CallbackCounts, Unbuffer,
                  Terminate, CloseProducer, Exit, clientVars, kafkaVars
    <3> QED BY <2>2, <3>1, AnswerStill
  <2>4. CASE Crash
    <3>1. /\ call'[d] = "none" /\ reply'[d] = (IF call[d] = "none" THEN reply[d] ELSE "lost")
          /\ UNCHANGED <<try, accepted>>
      BY <2>4 DEF Crash
    <3> QED BY <2>2, <3>1 DEF Answer
  <2> QED BY <2>1, <2>3, <2>4 DEF Next
<1> QED BY <1>1, <1>2, AnswerByClient

-----------------------------------------------------------------------------
(* Theorems *)

\* Every step keeps the types.
LEMMA TypeStep ==
    ASSUME IInv, Next
    PROVE  TypeOK'
BY ClientTypes, PositionType, RecordTypes, BooksStep DEF IInv, TypeOK, Numbers, Labels

\* The books, the handlers and the answers keep each other.
THEOREM Inductive == Spec => []IInv
<1>1. Init => IInv
  BY InitInv
<1>2. IInv /\ [Next]_vars => IInv'
  <2> SUFFICES ASSUME IInv, [Next]_vars PROVE IInv'
    OBVIOUS
  <2>1. CASE Next
    BY <2>1, TypeStep, HandlerStep, BooksStep, AnswerStep DEF IInv
  <2>2. CASE UNCHANGED vars
    <3> USE <2>2 DEF vars, IInv
    <3>1. TypeOK'
      BY DEF TypeOK
    <3>2. HandlerInv'
      BY DEF HandlerInv
    <3>3. Books'
      BY CallStill, HeldStill, BooksNamed DEF BooksAsSums, Labels
    <3>4. AnswerInv'
      BY DEF AnswerInv, Kept, ExhaustedMeansRefused
    <3> QED BY <3>1, <3>2, <3>3, <3>4
  <2> QED BY <2>1, <2>2
<1> QED BY <1>1, <1>2, PTL DEF Spec

\* A slot belongs to a span between AcquireSlot and the callback, so the
\* client holds at most one record more than there are slots.
LEMMA RoomToProduce == IInv => ProduceNeverBlocks
<1> SUFFICES ASSUME IInv, At("marshal") # {} PROVE Cardinality(buffered) < MaxBufferedRecords
  BY DEF ProduceNeverBlocks
<1>1. /\ inflight = Cardinality(At("acquired")) + Cardinality(At("marshal")) + Cardinality(Holding)
      /\ inflight \in 0..MaxInFlight /\ MaxInFlight \in Nat
      /\ Cardinality(At("acquired")) \in Nat /\ Cardinality(Holding) \in Nat
  BY BooksFacts, CollectorAssumption DEF BooksAsSums, Numbers
<1>2. Cardinality(At("marshal")) \in Nat /\ Cardinality(At("marshal")) # 0
  <2>1. IsFiniteSet(At("marshal")) /\ Cardinality(At("marshal")) \in Nat
    BY ClientSets
  <2> QED BY <2>1, FS_EmptySet, Zenon
<1>3. IsFiniteSet(buffered)
  BY DEF IInv, HandlerInv
<1>4. Cardinality(buffered) \in Nat /\ Cardinality(buffered) <= Cardinality(Holding) + 1
  <2>1. CASE promise.step \in {"count", "unbuffer"}
    <3>1. Holding = buffered \ {promise.rec}
      BY <2>1 DEF Holding
    <3>2. Cardinality(buffered \ {promise.rec}) =
             IF promise.rec \in buffered THEN Cardinality(buffered) - 1 ELSE Cardinality(buffered)
      BY <1>3, FS_RemoveElement
    <3>3. Cardinality(Holding) = Cardinality(buffered \ {promise.rec})
      BY <3>1, Zenon
    <3> QED BY <1>3, <3>2, <3>3, FS_CardinalityType
  <2>2. CASE promise.step \notin {"count", "unbuffer"}
    <3>1. Holding = buffered
      BY <2>2 DEF Holding
    <3>2. Cardinality(Holding) = Cardinality(buffered)
      BY <3>1, Zenon
    <3> QED BY <1>3, <3>2, FS_CardinalityType
  <2> QED BY <2>1, <2>2
<1>5. Cardinality(Holding) + 1 <= MaxInFlight /\ MaxInFlight >= 1
  BY <1>1, <1>2
<1> QED BY <1>4, <1>5, <1>1 DEF MaxBufferedRecords

\* No path through PublishSpan, its error return, the callback or the
\* interceptor keeps a slot or a place or gives one back twice, no span is
\* counted twice or not at all, and Produce never waits: for every number of
\* clients and every limit.
THEOREM BooksAlwaysBalance == Spec => []BooksBalance
<1>1. IInv => BooksBalance
  BY RoomToProduce DEF IInv, Books, BooksBalance
<1> QED BY <1>1, Inductive, PTL

\* Success means every valid span can be traced, ResourceExhausted that some
\* span was not taken.
THEOREM AnswersAlwaysHonest == Spec => []AnswersAreHonest
<1>1. IInv => AnswersAreHonest
  <2> SUFFICES ASSUME IInv PROVE SuccessIsTraceable /\ ExhaustedMeansRefused
    BY DEF AnswersAreHonest
  <2>1. SuccessIsTraceable
    BY RequestType DEF IInv, AnswerInv, SuccessIsTraceable, Kept
  <2> QED BY <2>1 DEF IInv, AnswerInv
<1> QED BY <1>1, Inductive, PTL

\* Nothing is handed to a client that is closed: handlers keep the server from
\* getting there.
THEOREM ProducesBeforeClose == Spec => NoProduceAfterClose
<1>1. IInv /\ [Next]_vars => [accepted' # accepted => server \in {"serving", "draining"}]_vars
  <2> SUFFICES ASSUME IInv, Next, accepted' # accepted PROVE server \in {"serving", "draining"}
    BY DEF vars
  <2>1. \E c \in Clients : Produce(c)
    BY DEF Next, Handler, Admit, RejectCall, SkipInvalid, BufferFull, AcquireSlot, IncGauge, MarshalFails,
           Unwind, Return, BrokerAppends, StartPromise, Callback, CallbackReleases, CallbackCounts, Unbuffer,
           Terminate, CloseProducer, Exit, Crash, kafkaVars
  <2> QED BY <2>1 DEF Produce, IInv, HandlerInv
<1> QED BY <1>1, Inductive, PTL DEF Spec, NoProduceAfterClose

=============================================================================
