--------------------------- MODULE RequestsProofs ---------------------------
(***************************************************************************)
(* Proofs about Requests and the parser's reading of its log, for any      *)
(* number of requests, permits and threads.  They use the safety part of   *)
(* the specification only.                                                 *)
(***************************************************************************)
EXTENDS Requests, SequenceTheorems, FiniteSetTheorems, WellFoundedInduction, TLAPS

-----------------------------------------------------------------------------
(* Type correctness. *)

\* Every reachable state has the types the code gives it.
THEOREM TypeCorrect == SafeSpec => []TypeOK
<1>1. Init => TypeOK
  <2>1. <<>> \in Seq(Events)
    BY EmptySeq
  <2> QED
    BY <2>1 DEF Init, TypeOK
<1>2. TypeOK /\ [Next]_vars => TypeOK'
  <2> SUFFICES ASSUME TypeOK, [Next]_vars
               PROVE  TypeOK'
    OBVIOUS
  <2> USE DEF TypeOK, Started, Ended
  <2>1. ASSUME NEW r \in Requests, Create(r) \/ Start(r) \/ RaiseEarly(r) \/ End(r)
        PROVE  TypeOK'
    BY <2>1 DEF Create, Start, RaiseEarly, End, Endings
  <2>2. ASSUME NEW r \in Requests, Admit(r) \/ Announce(r) \/ Finish(r) \/ AllDead(r)
        PROVE  TypeOK'
    <3>1. \A e \in {"received", "completed"}, b \in {"runner", "execute"},
            s \in {"none", "success", "failed"} : Event(r, e, b, s) \in Events
      BY DEF Event, Events
    <3>2. log' \in Seq(Events)
      BY <2>2, <3>1 DEF Admit, Announce, Finish, AllDead
    <3> QED
      BY <2>2, <3>2 DEF Admit, Announce, Finish, AllDead
  <2>3. CASE Exit
    BY <2>3 DEF Exit
  <2>4. CASE UNCHANGED vars
    BY <2>4 DEF vars
  <2> QED
    BY <2>1, <2>2, <2>3, <2>4 DEF Next, LoopStep, ThreadStep
<1> QED
  BY <1>1, <1>2, PTL DEF SafeSpec

-----------------------------------------------------------------------------
(* The invariant. *)

Receipt(i, r, b) ==
  i \in 1 .. Len(log) /\ log[i].type = "received" /\ log[i].request = r /\ log[i].by = b

\* A request is received by the runner when it gets its permit, and may be
\* announced by execute() after that; each once.  Unless it raised before, it has
\* then all the receipts there are to come.
Received(r) == rpc[r] \notin {"none", "waiting"}
Announced(r) == Announces /\ rpc[r] \notin {"none", "waiting", "admitted", "announcing"}
Basis == IF Announces THEN "execute" ELSE "runner"

Receipts ==
  \A r \in Requests :
    /\ rpc[r] = "announcing" => Announces
    /\ (\E i \in 1 .. Len(log) : Receipt(i, r, "runner")) <=> Received(r)
    /\ (\E i \in 1 .. Len(log) : Receipt(i, r, "execute")) => Announced(r)
    /\ rpc[r] \in {"running", "ending", "allDead", "returned"} =>
         \E i \in 1 .. Len(log) : Receipt(i, r, Basis)
    /\ \A b \in {"runner", "execute"} : \A i, j \in 1 .. Len(log) :
         Receipt(i, r, b) /\ Receipt(j, r, b) => i = j
    /\ \A i, j \in 1 .. Len(log) : Receipt(i, r, "runner") /\ Receipt(j, r, "execute") => i < j

\* A completion comes after every receipt of its request, and execute() logs only
\* failures; a success has the receipt its latency is to be measured from.
CompletionsFollow ==
  \A j \in 1 .. Len(log) : log[j].type = "completed" =>
    /\ rpc[log[j].request] \in {"allDead", "done"}
    /\ \E i \in 1 .. Len(log) : i < j /\ Receipt(i, log[j].request, "runner")
    /\ \A i \in 1 .. Len(log), b \in {"runner", "execute"} : Receipt(i, log[j].request, b) => i < j
    /\ log[j].status = "success" \/ log[j].by = "execute" =>
         \E i \in 1 .. Len(log) : Receipt(i, log[j].request, Basis)
    /\ log[j].by = "execute" => log[j].status = "failed"

\* The runner logs one completion of each request that is done.
CompletedBy(b) == {i \in 1 .. Len(log) : log[i].type = "completed" /\ log[i].by = b}

DoneLogged == Cardinality(CompletedBy("runner")) = Cardinality(In({"done"}))

IInv == Receipts /\ CompletionsFollow /\ DoneLogged

\* Sets of requests, and of places in the log, are finite.
LEMMA Finite ==
  ASSUME TypeOK
  PROVE  /\ \A states : IsFiniteSet(In(states))
         /\ \A S \in SUBSET (1 .. Len(log)) : IsFiniteSet(S)
<1>1. IsFiniteSet(Requests)
  BY FS_Interval, ConstantsAssumption DEF Requests
<1>2. IsFiniteSet(1 .. Len(log))
  BY FS_Interval, LenProperties DEF TypeOK
<1> QED
  BY <1>1, <1>2, FS_Subset DEF In

\* What an event at the end of the log changes.
LEMMA Logging ==
  ASSUME TypeOK, NEW e \in Events, log' = Append(log, e)
  PROVE  /\ Len(log) \in Nat /\ Len(log') = Len(log) + 1
         /\ log'[Len(log) + 1] = e
         /\ \A i \in 1 .. Len(log) : i \in 1 .. Len(log') /\ log'[i] = log[i]
         /\ \A i \in 1 .. Len(log') : i \in 1 .. Len(log) \/ i = Len(log) + 1
  BY DEF TypeOK

\* A step that logs nothing leaves the invariant alone when no request passes a
\* point where something is logged.
LEMMA QuietStep ==
  ASSUME IInv, UNCHANGED <<architecture, log>>, In({"done"})' = In({"done"}),
         \A r \in Requests :
           /\ Received(r)' = Received(r)
           /\ Announced(r) => Announced(r)'
           /\ rpc'[r] = "announcing" => Announces
           /\ rpc'[r] \in {"running", "ending", "allDead", "returned"} =>
                rpc[r] \in {"running", "ending", "allDead", "returned"} \/ (~Announces /\ Received(r))
           /\ rpc[r] \in {"allDead", "done"} => rpc'[r] = rpc[r],
         \A j \in 1 .. Len(log) : log[j].type = "completed" => log[j].request \in Requests
  PROVE  IInv'
<1>1. Announces' = Announces /\ Basis' = Basis
  BY DEF Announces, Basis
<1>2. Receipts'
  <2> SUFFICES ASSUME NEW r \in Requests
               PROVE  /\ rpc'[r] = "announcing" => Announces'
                      /\ (\E i \in 1 .. Len(log') : Receipt(i, r, "runner")') <=> Received(r)'
                      /\ (\E i \in 1 .. Len(log') : Receipt(i, r, "execute")') => Announced(r)'
                      /\ rpc'[r] \in {"running", "ending", "allDead", "returned"} =>
                           \E i \in 1 .. Len(log') : Receipt(i, r, Basis)'
                      /\ \A b \in {"runner", "execute"} : \A i, j \in 1 .. Len(log') :
                           Receipt(i, r, b)' /\ Receipt(j, r, b)' => i = j
                      /\ \A i, j \in 1 .. Len(log') :
                           Receipt(i, r, "runner")' /\ Receipt(j, r, "execute")' => i < j
    BY DEF Receipts
  <2>1. \A i, b : Receipt(i, r, b)' = Receipt(i, r, b)
    BY DEF Receipt
  <2> QED
    BY <1>1, <2>1 DEF IInv, Receipts, Basis
<1>3. CompletionsFollow'
  BY <1>1 DEF IInv, CompletionsFollow, Receipt
<1>4. DoneLogged'
  BY DEF IInv, DoneLogged, CompletedBy
<1> QED
  BY <1>2, <1>3, <1>4 DEF IInv

\* A receipt that is logged is the first of its kind.
LEMMA ReceiptStep ==
  ASSUME TypeOK, IInv, NEW r \in Requests, Admit(r) \/ Announce(r)
  PROVE  IInv'
<1>1. PICK b \in {"runner", "execute"} :
        /\ log' = Append(log, Event(r, "received", b, "none"))
        /\ b = "runner"  => rpc[r] = "waiting" /\ rpc' = [rpc EXCEPT ![r] = "admitted"]
        /\ b = "execute" => rpc[r] = "announcing" /\ rpc' = [rpc EXCEPT ![r] = "running"]
        /\ UNCHANGED architecture
  BY DEF Admit, Announce, IsFirst, In
<1> DEFINE e == Event(r, "received", b, "none")
           new == Len(log) + 1
<1>2. e \in Events /\ e.type = "received" /\ e.request = r /\ e.by = b
  BY DEF Event, Events
<1>3. /\ Len(log) \in Nat /\ Len(log') = new /\ log'[new] = e
      /\ \A i \in 1 .. Len(log) : i \in 1 .. Len(log') /\ log'[i] = log[i]
      /\ \A i \in 1 .. Len(log') : i \in 1 .. Len(log) \/ i = new
  BY <1>1, <1>2, Logging
<1>4. Announces' = Announces /\ Basis' = Basis
  BY <1>1 DEF Announces, Basis
<1>5. \A q \in Requests : q # r => rpc'[q] = rpc[q]
  BY <1>1 DEF TypeOK
<1>6. rpc'[r] = IF b = "runner" THEN "admitted" ELSE "running"
  BY <1>1 DEF TypeOK
<1>7. In({"done"})' = In({"done"})
  BY <1>1, <1>5, <1>6 DEF In
<1> HIDE DEF e
<1>8. \A q \in Requests, a \in {"runner", "execute"} : \A i \in 1 .. Len(log') :
        Receipt(i, q, a)' <=> Receipt(i, q, a) \/ (i = new /\ q = r /\ a = b)
  BY <1>2, <1>3 DEF Receipt
<1>9. new \in 1 .. Len(log') /\ ~\E i \in 1 .. Len(log) : Receipt(i, r, b)
  BY <1>1, <1>3 DEF IInv, Receipts, Received, Announced
<1>10. Receipts'
  <2> SUFFICES ASSUME NEW q \in Requests
               PROVE  /\ rpc'[q] = "announcing" => Announces'
                      /\ (\E i \in 1 .. Len(log') : Receipt(i, q, "runner")') <=> Received(q)'
                      /\ (\E i \in 1 .. Len(log') : Receipt(i, q, "execute")') => Announced(q)'
                      /\ rpc'[q] \in {"running", "ending", "allDead", "returned"} =>
                           \E i \in 1 .. Len(log') : Receipt(i, q, Basis)'
                      /\ \A a \in {"runner", "execute"} : \A i, j \in 1 .. Len(log') :
                           Receipt(i, q, a)' /\ Receipt(j, q, a)' => i = j
                      /\ \A i, j \in 1 .. Len(log') :
                           Receipt(i, q, "runner")' /\ Receipt(j, q, "execute")' => i < j
    BY DEF Receipts
  <2>1. CASE q # r
    BY <1>3, <1>4, <1>5, <1>8, <2>1 DEF IInv, Receipts, Received, Announced, Receipt, Basis
  <2>2. CASE q = r
    <3>1. /\ \A a \in {"runner", "execute"} : \A i, j \in 1 .. Len(log') :
               Receipt(i, q, a)' /\ Receipt(j, q, a)' => i = j
          /\ \A i, j \in 1 .. Len(log') : Receipt(i, q, "runner")' /\ Receipt(j, q, "execute")' => i < j
      BY <1>1, <1>3, <1>8, <1>9, <2>2 DEF IInv, Receipts, Received, Announced, Receipt
    <3>2. /\ rpc'[q] = "announcing" => Announces'
          /\ (\E i \in 1 .. Len(log') : Receipt(i, q, "runner")') <=> Received(q)'
          /\ (\E i \in 1 .. Len(log') : Receipt(i, q, "execute")') => Announced(q)'
      BY <1>1, <1>3, <1>4, <1>6, <1>8, <1>9, <2>2 DEF IInv, Receipts, Received, Announced, Receipt
    <3>3. rpc'[q] = "running" => \E i \in 1 .. Len(log') : Receipt(i, q, Basis)'
      <4>1. rpc'[q] = "running" => b = "execute" /\ Announces
        BY <1>1, <1>6, <2>2 DEF IInv, Receipts
      <4> QED
        BY <1>4, <1>8, <1>9, <2>2, <4>1 DEF Basis
    <3> QED
      BY <1>6, <2>2, <3>1, <3>2, <3>3
  <2> QED
    BY <2>1, <2>2
<1>11. CompletionsFollow'
  <2> SUFFICES ASSUME NEW j \in 1 .. Len(log), log[j].type = "completed",
                      NEW q, q = log[j].request
               PROVE  /\ rpc'[q] \in {"allDead", "done"}
                      /\ \E i \in 1 .. Len(log') : i < j /\ Receipt(i, q, "runner")'
                      /\ \A i \in 1 .. Len(log'), a \in {"runner", "execute"} : Receipt(i, q, a)' => i < j
                      /\ log[j].status = "success" \/ log[j].by = "execute" =>
                           \E i \in 1 .. Len(log') : Receipt(i, q, Basis)'
                      /\ log[j].by = "execute" => log[j].status = "failed"
    BY <1>2, <1>3 DEF CompletionsFollow
  <2>1. q \in Requests
    <3>1. log[j] \in Events
      BY ElementOfSeq DEF TypeOK
    <3> QED
      BY <3>1 DEF Events
  <2>2. /\ rpc[q] \in {"allDead", "done"}
        /\ \E i \in 1 .. Len(log) : i < j /\ Receipt(i, q, "runner")
        /\ \A i \in 1 .. Len(log), a \in {"runner", "execute"} : Receipt(i, q, a) => i < j
        /\ log[j].status = "success" \/ log[j].by = "execute" =>
             \E i \in 1 .. Len(log) : Receipt(i, q, Basis)
        /\ log[j].by = "execute" => log[j].status = "failed"
    BY DEF IInv, CompletionsFollow
  <2>3. q # r
    BY <1>1, <2>2
  <2>4. \A a \in {"runner", "execute"} : \A i \in 1 .. Len(log') :
          Receipt(i, q, a)' <=> Receipt(i, q, a)
    BY <1>8, <2>1, <2>3
  <2>5. \A a : \A i : Receipt(i, q, a) => i \in 1 .. Len(log)
    BY DEF Receipt
  <2>6. Basis \in {"runner", "execute"} /\ Basis' = Basis
    BY <1>4 DEF Basis
  <2>7. \E i \in 1 .. Len(log') : i < j /\ Receipt(i, q, "runner")'
    BY <1>3, <2>2, <2>4
  <2>8. \A i \in 1 .. Len(log'), a \in {"runner", "execute"} : Receipt(i, q, a)' => i < j
    BY <2>2, <2>4, <2>5
  <2>9. log[j].status = "success" \/ log[j].by = "execute" =>
          \E i \in 1 .. Len(log') : Receipt(i, q, Basis)'
    BY <1>3, <2>2, <2>4, <2>6
  <2> QED
    BY <1>5, <2>1, <2>2, <2>3, <2>7, <2>8, <2>9
<1>12. CompletedBy("runner")' = CompletedBy("runner")
  BY <1>2, <1>3 DEF CompletedBy
<1> QED
  BY <1>7, <1>10, <1>11, <1>12 DEF IInv, DoneLogged

\* A completion that is logged comes after the receipts of its request, and the
\* runner's makes the request done.
LEMMA CompletionStep ==
  ASSUME TypeOK, IInv, NEW r \in Requests, Finish(r) \/ AllDead(r)
  PROVE  IInv'
<1>1. PICK b \in {"runner", "execute"}, s \in {"success", "failed"} :
        /\ log' = Append(log, Event(r, "completed", b, s))
        /\ b = "runner"  => rpc[r] \in Ended /\ rpc' = [rpc EXCEPT ![r] = "done"]
        /\ b = "execute" => /\ rpc[r] = "ending" /\ rpc' = [rpc EXCEPT ![r] = "allDead"]
                            /\ s = "failed"
        /\ s = "success" => rpc[r] = "returned"
        /\ UNCHANGED architecture
  BY DEF Finish, AllDead
<1> DEFINE e == Event(r, "completed", b, s)
           new == Len(log) + 1
<1>2. e \in Events /\ e.type = "completed" /\ e.request = r /\ e.by = b /\ e.status = s
  BY DEF Event, Events
<1>3. /\ Len(log) \in Nat /\ Len(log') = new /\ log'[new] = e
      /\ \A i \in 1 .. Len(log) : i \in 1 .. Len(log') /\ log'[i] = log[i]
      /\ \A i \in 1 .. Len(log') : i \in 1 .. Len(log) \/ i = new
  BY <1>1, <1>2, Logging
<1>4. Announces' = Announces /\ Basis' = Basis
  BY <1>1 DEF Announces, Basis
<1>5. \A q \in Requests : q # r => rpc'[q] = rpc[q]
  BY <1>1 DEF TypeOK
<1>6. /\ rpc[r] \in Ended \cup {"ending"}
      /\ rpc'[r] = IF b = "runner" THEN "done" ELSE "allDead"
  BY <1>1 DEF TypeOK
<1>7. \A q \in Requests :
        /\ Received(q)' = Received(q) /\ Announced(q)' = Announced(q)
        /\ rpc'[q] = "announcing" => rpc[q] = "announcing"
        /\ rpc'[q] \in {"running", "ending", "allDead", "returned"} =>
             rpc[q] \in {"running", "ending", "allDead", "returned"}
  BY <1>1, <1>4, <1>5, <1>6 DEF Received, Announced, Ended
<1> HIDE DEF e
<1>8. \A q, a : \A i \in 1 .. Len(log') : Receipt(i, q, a)' <=> Receipt(i, q, a)
  BY <1>2, <1>3 DEF Receipt
<1>9. Receipts'
  <2> SUFFICES ASSUME NEW q \in Requests
               PROVE  /\ rpc'[q] = "announcing" => Announces'
                      /\ (\E i \in 1 .. Len(log') : Receipt(i, q, "runner")') <=> Received(q)'
                      /\ (\E i \in 1 .. Len(log') : Receipt(i, q, "execute")') => Announced(q)'
                      /\ rpc'[q] \in {"running", "ending", "allDead", "returned"} =>
                           \E i \in 1 .. Len(log') : Receipt(i, q, Basis)'
                      /\ \A a \in {"runner", "execute"} : \A i, j \in 1 .. Len(log') :
                           Receipt(i, q, a)' /\ Receipt(j, q, a)' => i = j
                      /\ \A i, j \in 1 .. Len(log') :
                           Receipt(i, q, "runner")' /\ Receipt(j, q, "execute")' => i < j
    BY DEF Receipts
  <2>1. \A i, a : Receipt(i, q, a) => i \in 1 .. Len(log)
    BY DEF Receipt
  <2> QED
    BY <1>3, <1>4, <1>7, <1>8, <2>1 DEF IInv, Receipts, Basis
<1>10. CompletionsFollow'
  <2> SUFFICES ASSUME NEW j \in 1 .. Len(log'), log'[j].type = "completed",
                      NEW q, q = log'[j].request
               PROVE  /\ rpc'[q] \in {"allDead", "done"}
                      /\ \E i \in 1 .. Len(log') : i < j /\ Receipt(i, q, "runner")'
                      /\ \A i \in 1 .. Len(log'), a \in {"runner", "execute"} : Receipt(i, q, a)' => i < j
                      /\ log'[j].status = "success" \/ log'[j].by = "execute" =>
                           \E i \in 1 .. Len(log') : Receipt(i, q, Basis)'
                      /\ log'[j].by = "execute" => log'[j].status = "failed"
    BY DEF CompletionsFollow
  <2>1. \A i, a : Receipt(i, q, a) => i \in 1 .. Len(log)
    BY DEF Receipt
  <2>2. CASE j = new
    <3>1. q = r /\ log'[j].by = b /\ log'[j].status = s
      BY <1>2, <1>3, <2>2
    <3>2. \E i \in 1 .. Len(log) : Receipt(i, r, "runner")
      BY <1>6 DEF IInv, Receipts, Received, Ended
    <3>3. s = "success" \/ b = "execute" => \E i \in 1 .. Len(log) : Receipt(i, r, Basis)
      BY <1>1 DEF IInv, Receipts
    <3>4. Basis' = Basis /\ Basis \in {"runner", "execute"}
      BY <1>4 DEF Basis
    <3>5. \A i \in 1 .. Len(log') : \A a : Receipt(i, r, a)' => i \in 1 .. Len(log)
      BY <1>8, <2>1, <3>1
    <3>6. \A i \in 1 .. Len(log) : i < new
      BY <1>3
    <3> QED
      BY <1>1, <1>3, <1>6, <1>8, <2>2, <3>1, <3>2, <3>3, <3>4, <3>5, <3>6
  <2>3. CASE j \in 1 .. Len(log)
    <3>1. log'[j] = log[j] /\ q = log[j].request /\ q \in Requests
      <4>1. log[j] \in Events
        BY <2>3, ElementOfSeq DEF TypeOK
      <4> QED
        BY <1>3, <2>3, <4>1 DEF Events
    <3>2. /\ rpc[q] \in {"allDead", "done"}
          /\ \E i \in 1 .. Len(log) : i < j /\ Receipt(i, q, "runner")
          /\ \A i \in 1 .. Len(log), a \in {"runner", "execute"} : Receipt(i, q, a) => i < j
          /\ log[j].status = "success" \/ log[j].by = "execute" =>
               \E i \in 1 .. Len(log) : Receipt(i, q, Basis)
          /\ log[j].by = "execute" => log[j].status = "failed"
      BY <2>3, <3>1 DEF IInv, CompletionsFollow
    <3>3. rpc'[q] \in {"allDead", "done"}
      BY <1>5, <1>6, <3>1, <3>2
    <3>4. Basis' = Basis
      BY <1>4
    <3>5. \A a : \A i \in 1 .. Len(log') : Receipt(i, q, a)' <=> Receipt(i, q, a)
      BY <1>8
    <3>6. \A a, i : Receipt(i, q, a) => i \in 1 .. Len(log)
      BY DEF Receipt
    <3>7. \E i \in 1 .. Len(log') : i < j /\ Receipt(i, q, "runner")'
      BY <1>3, <3>2, <3>5
    <3>8. \A i \in 1 .. Len(log'), a \in {"runner", "execute"} : Receipt(i, q, a)' => i < j
      BY <3>2, <3>5, <3>6
    <3>9. log[j].status = "success" \/ log[j].by = "execute" =>
            \E i \in 1 .. Len(log') : Receipt(i, q, Basis)'
      BY <1>3, <3>2, <3>4, <3>5
    <3> QED
      BY <3>1, <3>2, <3>3, <3>7, <3>8, <3>9
  <2> QED
    BY <1>3, <2>2, <2>3
<1>11. DoneLogged'
  <2>1. /\ IsFiniteSet(CompletedBy("runner")) /\ IsFiniteSet(In({"done"}))
        /\ new \notin CompletedBy("runner")
    BY <1>3, Finite DEF CompletedBy
  <2>2. CASE b = "runner"
    <3>1. CompletedBy("runner")' = CompletedBy("runner") \cup {new}
      BY <1>2, <1>3, <2>2 DEF CompletedBy
    <3>2. In({"done"})' = In({"done"}) \cup {r} /\ r \notin In({"done"})
      BY <1>1, <1>5, <1>6, <2>2 DEF In, Ended
    <3>3. Cardinality(CompletedBy("runner") \cup {new}) = Cardinality(CompletedBy("runner")) + 1
      BY <2>1, FS_AddElement
    <3>4. Cardinality(In({"done"}) \cup {r}) = Cardinality(In({"done"})) + 1
      BY <2>1, <3>2, FS_AddElement
    <3> QED
      BY <3>1, <3>2, <3>3, <3>4 DEF IInv, DoneLogged
  <2>3. CASE b = "execute"
    <3>1. CompletedBy("runner")' = CompletedBy("runner")
      BY <1>2, <1>3, <2>3 DEF CompletedBy
    <3>2. In({"done"})' = In({"done"})
      BY <1>1, <1>5, <1>6, <2>3 DEF In
    <3> QED
      BY <3>1, <3>2 DEF IInv, DoneLogged
  <2> QED
    BY <2>2, <2>3
<1> QED
  BY <1>9, <1>10, <1>11 DEF IInv

LEMMA Invariance == SafeSpec => []IInv
<1>1. Init => IInv
  <2> SUFFICES ASSUME Init
               PROVE  IInv
    OBVIOUS
  <2>1. Len(log) = 0 /\ 1 .. Len(log) = {}
    BY DEF Init
  <2>2. In({"done"}) = {} /\ CompletedBy("runner") = {}
    BY <2>1 DEF Init, In, CompletedBy
  <2> QED
    BY <2>1, <2>2
    DEF Init, IInv, Receipts, Received, Announced, CompletionsFollow, DoneLogged
<1>2. TypeOK /\ IInv /\ [Next]_vars => IInv'
  <2> SUFFICES ASSUME TypeOK, IInv, [Next]_vars
               PROVE  IInv'
    OBVIOUS
  <2>0. /\ \A r \in Requests : rpc[r] = "announcing" => Announces
        /\ \A j \in 1 .. Len(log) : log[j].type = "completed" => log[j].request \in Requests
    <3>1. \A j \in 1 .. Len(log) : log[j] \in Events
      BY ElementOfSeq DEF TypeOK
    <3> QED
      BY <3>1 DEF IInv, Receipts, Events
  <2>1. ASSUME NEW r \in Requests, Create(r) \/ Start(r) \/ RaiseEarly(r) \/ End(r)
        PROVE  IInv'
    <3>1. /\ UNCHANGED <<architecture, log>>
          /\ \A q \in Requests : q # r => rpc'[q] = rpc[q]
          /\ \/ rpc[r] = "none" /\ rpc'[r] = "waiting"
             \/ rpc[r] = "admitted" /\ rpc'[r] = IF Announces THEN "announcing" ELSE "running"
             \/ rpc[r] = "announcing" /\ rpc'[r] = "raised"
             \/ rpc[r] = "running" /\ rpc'[r] \in Ended \cup {"ending"}
      BY <2>1 DEF Create, Start, RaiseEarly, End, Endings, IsFirst, In, TypeOK, Ended
    <3>2. In({"done"})' = In({"done"}) /\ Announces' = Announces
      BY <3>1 DEF In, Ended, Announces
    <3>3. \A q \in Requests :
            /\ Received(q)' = Received(q)
            /\ Announced(q) => Announced(q)'
            /\ rpc'[q] = "announcing" => Announces
            /\ rpc'[q] \in {"running", "ending", "allDead", "returned"} =>
                 rpc[q] \in {"running", "ending", "allDead", "returned"} \/ (~Announces /\ Received(q))
            /\ rpc[q] \in {"allDead", "done"} => rpc'[q] = rpc[q]
      BY <2>0, <3>1, <3>2 DEF Received, Announced, Ended
    <3> QED
      BY <2>0, <3>1, <3>2, <3>3, QuietStep
  <2>2. ASSUME NEW r \in Requests, Admit(r) \/ Announce(r)
        PROVE  IInv'
    BY <2>2, ReceiptStep
  <2>3. ASSUME NEW r \in Requests, Finish(r) \/ AllDead(r)
        PROVE  IInv'
    BY <2>3, CompletionStep
  <2>4. CASE Exit \/ UNCHANGED vars
    <3>1. UNCHANGED <<architecture, rpc, log>>
      BY <2>4 DEF Exit, vars
    <3> QED
      BY <2>0, <3>1, QuietStep DEF In, Received, Announced, Announces
  <2> QED
    BY <2>1, <2>2, <2>3, <2>4 DEF Next, LoopStep, ThreadStep
<1> QED
  BY <1>1, <1>2, TypeCorrect, PTL DEF SafeSpec

-----------------------------------------------------------------------------
(* What the parser makes of it. *)

\* Whatever order the requests end in, completed_requests is the number of those
\* that are over, and counts twice those whose workers all died.
THEOREM CompletedIsOver == SafeSpec => []CompletedCounted
<1>1. TypeOK /\ IInv => CompletedCounted
  <2> SUFFICES ASSUME TypeOK, IInv
               PROVE  CompletedCounted
    OBVIOUS
  <2> DEFINE Failures == {i \in 1 .. Len(log) : log[i] \in
                            [request : Requests, type : {"completed"},
                             by : {"execute"}, status : {"failed"}]}
  <2>1. \A i \in 1 .. Len(log) : log[i] \in Events
    BY ElementOfSeq DEF TypeOK
  <2>2. Failures = CompletedBy("execute")
    BY <2>1 DEF Events, CompletedBy, IInv, CompletionsFollow
  <2>3. Completions = CompletedBy("runner") \cup CompletedBy("execute")
    <3>1. \A j \in 1 .. Len(log) : log[j].type = "completed" => ReceiptsBefore(j) # {}
      BY LenProperties DEF IInv, CompletionsFollow, ReceiptsBefore, Receipt, TypeOK
    <3> QED
      BY <2>1, <3>1 DEF Events, CompletedBy, Completions
  <2>4. CompletedBy("runner") \cap CompletedBy("execute") = {}
    BY DEF CompletedBy
  <2>5. IsFiniteSet(CompletedBy("runner")) /\ IsFiniteSet(CompletedBy("execute"))
    BY Finite DEF CompletedBy
  <2>6. Cardinality(Completions)
          = Cardinality(CompletedBy("runner")) + Cardinality(CompletedBy("execute"))
    <3>1. Cardinality(CompletedBy("runner")) \in Nat /\ Cardinality(CompletedBy("execute")) \in Nat
      BY <2>5, FS_CardinalityType
    <3> QED
      BY <2>3, <2>4, <2>5, <3>1, FS_Union, FS_EmptySet
  <2> QED
    BY <2>2, <2>6 DEF CompletedCounted, completed_requests, IInv, DoneLogged
<1> QED
  BY <1>1, TypeCorrect, Invariance, PTL

\* A latency is counted from execute()'s own receipt exactly when that request has
\* one, and the successes of a run are all counted from the same kind of receipt.
THEOREM OneLatencyBasis == SafeSpec => []LatencyBasis
<1>1. TypeOK /\ IInv => LatencyBasis
  <2> SUFFICES ASSUME TypeOK, IInv, NEW j \in Completions
               PROVE  /\ log[StartOf(j)].by = "execute" <=>
                           \E k \in 1 .. Len(log) : Receipt(k, log[j].request, "execute")
                      /\ log[j].status = "success" \/ log[j].by = "execute" =>
                           log[StartOf(j)].by = Basis
    BY DEF LatencyBasis, Basis, Receipt
  <2> DEFINE q == log[j].request
  <2>1. /\ j \in 1 .. Len(log) /\ log[j].type = "completed" /\ Len(log) \in Nat
        /\ q \in Requests
        /\ \A i \in 1 .. Len(log) : log[i] \in Events
    <3>1. \A i \in 1 .. Len(log) : log[i] \in Events
      BY ElementOfSeq DEF TypeOK
    <3> QED
      BY <3>1, LenProperties DEF Completions, TypeOK, Events
  <2>2. \A k \in ReceiptsBefore(j) :
          /\ k \in 1 .. Len(log)
          /\ Receipt(k, q, "runner") \/ Receipt(k, q, "execute")
    BY <2>1 DEF ReceiptsBefore, Receipt, Events
  <2>3. PICK i \in 1 .. Len(log) : i < j /\ Receipt(i, q, "runner")
    BY <2>1 DEF IInv, CompletionsFollow
  <2>4. CASE \E k \in 1 .. Len(log) : Receipt(k, q, "execute")
    <3>1. PICK k \in 1 .. Len(log) : Receipt(k, q, "execute")
      BY <2>4
    <3>2. k < j
      BY <2>1, <3>1 DEF IInv, CompletionsFollow
    <3>3. k \in ReceiptsBefore(j)
      BY <2>1, <3>1, <3>2 DEF ReceiptsBefore, Receipt
    <3>4. \A l \in ReceiptsBefore(j) : k >= l /\ l \in Int /\ k \in Int
      BY <2>1, <2>2, <3>1 DEF IInv, Receipts
    <3>5. StartOf(j) = k
      <4>1. StartOf(j) \in ReceiptsBefore(j) /\ StartOf(j) >= k
        BY <3>3, <3>4 DEF StartOf, Max
      <4> QED
        BY <3>4, <4>1
    <3>6. Announces
      BY <2>1, <3>1 DEF IInv, Receipts, Announced
    <3> QED
      BY <2>4, <3>1, <3>5, <3>6 DEF Receipt, Basis
  <2>5. CASE ~\E k \in 1 .. Len(log) : Receipt(k, q, "execute")
    <3>1. i \in ReceiptsBefore(j)
      BY <2>1, <2>3 DEF ReceiptsBefore, Receipt
    <3>2. \A k \in ReceiptsBefore(j) : Receipt(k, q, "runner") /\ i >= k /\ k \in Int /\ i \in Int
      BY <2>1, <2>2, <2>3, <2>5 DEF IInv, Receipts
    <3>3. Receipt(StartOf(j), q, "runner")
      <4>1. StartOf(j) \in ReceiptsBefore(j)
        BY <3>1, <3>2 DEF StartOf, Max
      <4> QED
        BY <3>2, <4>1
    <3>4. log[j].status = "success" \/ log[j].by = "execute" => Basis = "runner"
      BY <2>1, <2>5 DEF IInv, CompletionsFollow, Basis
    <3> QED
      BY <2>5, <3>3, <3>4 DEF Receipt
  <2> QED
    BY <2>4, <2>5
<1> QED
  BY <1>1, TypeCorrect, Invariance, PTL

-----------------------------------------------------------------------------
(* A run never waits for ever. *)

\* Of the requests at some places one is the first.
LEMMA FirstExists ==
  ASSUME NEW states, In(states) # {}
  PROVE  \E r \in Requests : IsFirst(r, states)
<1>1. In(states) \subseteq Nat
  BY ConstantsAssumption DEF In, Requests
<1>2. PICK r \in In(states) : \A q \in In(states) : ~(<<q, r>> \in OpToRel(<, Nat))
  BY <1>1, NatLessThanWellFounded, WFMin
<1>3. \A q \in In(states) : r <= q
  <2>1. \A q \in In(states) : ~(q < r)
    BY <1>1, <1>2 DEF OpToRel
  <2> QED
    BY <1>1, <2>1
<1> QED
  BY <1>3 DEF IsFirst, In

\* The guards of the actions of the event loop, and of the threads.
LoopGoesOn ==
  \/ \E r \in Requests : IsFirst(r, {"none"})
  \/ Cardinality(In(Holding)) < MaxConcurrent /\ \E r \in Requests : IsFirst(r, {"waiting"})
  \/ In(Ended) # {}
  \/ exit = "none" /\ In({"done"}) = Requests
ThreadGoesOn ==
  \/ Cardinality(In(Started)) < PoolSize /\ \E r \in Requests : IsFirst(r, {"admitted"})
  \/ In(Started) # {}

\* Permits and threads are never all held by requests that wait for one: until
\* the run has exited its loop or one of its threads can go on, also with fewer
\* threads than permits and fewer permits than threads.
THEOREM SomeoneGoesOn == SafeSpec => [](exit = "none" => LoopGoesOn \/ ThreadGoesOn)
<1>1. TypeOK => (exit = "none" => LoopGoesOn \/ ThreadGoesOn)
  <2> SUFFICES ASSUME TypeOK, exit = "none", ~LoopGoesOn, ~ThreadGoesOn
               PROVE  FALSE
    OBVIOUS
  <2>1. In({"none"}) = {} /\ In(Ended) = {} /\ In(Started) = {}
    BY FirstExists DEF LoopGoesOn, ThreadGoesOn
  <2>2. Cardinality({}) = 0 /\ MaxConcurrent \in Nat \ {0} /\ PoolSize \in Nat \ {0}
    BY FS_EmptySet, ConstantsAssumption
  <2>3. In({"admitted"}) = {}
    BY <2>1, <2>2, FirstExists DEF ThreadGoesOn
  <2>4. In(Holding) = {}
    BY <2>1, <2>3 DEF In, Holding
  <2>5. In({"waiting"}) = {}
    BY <2>2, <2>4, FirstExists DEF LoopGoesOn
  <2>6. In({"done"}) = Requests
    BY <2>1, <2>3, <2>5 DEF In, TypeOK
  <2> QED
    BY <2>6 DEF LoopGoesOn
<1> QED
  BY <1>1, TypeCorrect, PTL

\* How far a request is.
Stage(r) == CASE rpc[r] = "none"       -> 0
              [] rpc[r] = "waiting"    -> 1
              [] rpc[r] = "admitted"   -> 2
              [] rpc[r] = "announcing" -> 3
              [] rpc[r] = "running"    -> 4
              [] rpc[r] = "ending"     -> 5
              [] rpc[r] \in Ended      -> 6
              [] rpc[r] = "done"       -> 7

\* No request is run again, however it ended: every step takes a request further
\* or exits, and none takes one back, so that a run of n requests exits after
\* 7n + 1 steps at most.
THEOREM OnlyForward ==
  SafeSpec => [][/\ \A r \in Requests : Stage(r) <= Stage(r)'
                 /\ (\E r \in Requests : Stage(r) < Stage(r)') \/ (exit = "none" /\ exit' = "0")
                 /\ exit = "0" => exit' = "0"]_vars
<1> DEFINE Forward ==
      /\ \A r \in Requests : Stage(r) <= Stage(r)'
      /\ (\E r \in Requests : Stage(r) < Stage(r)') \/ (exit = "none" /\ exit' = "0")
      /\ exit = "0" => exit' = "0"
<1>1. TypeOK /\ [Next]_vars => [Forward]_vars
  <2> SUFFICES ASSUME TypeOK, Next, ~UNCHANGED vars
               PROVE  Forward
    OBVIOUS
  <2> USE DEF Stage, TypeOK, Started, Ended
  <2>1. ASSUME NEW r \in Requests, Create(r) \/ Admit(r) \/ Start(r)
        PROVE  Forward
    BY <2>1 DEF Create, Admit, Start, IsFirst, In
  <2>2. ASSUME NEW r \in Requests, Announce(r) \/ AllDead(r) \/ Finish(r)
        PROVE  Forward
    BY <2>2 DEF Announce, AllDead, Finish
  <2>3. ASSUME NEW r \in Requests, End(r) \/ RaiseEarly(r)
        PROVE  Forward
    BY <2>3 DEF End, RaiseEarly, Endings
  <2>4. CASE Exit
    BY <2>4 DEF Exit
  <2> QED
    BY <2>1, <2>2, <2>3, <2>4 DEF Next, LoopStep, ThreadStep
<1> QED
  BY <1>1, TypeCorrect, PTL DEF SafeSpec
=============================================================================
