---------------------------- MODULE BatchProofs ----------------------------
(***************************************************************************)
(* Proofs about Batch, for any of the scripts and any number of runs.      *)
(* They use the safety part of the specification only.                     *)
(***************************************************************************)
EXTENDS Batch, SequenceTheorems, WellFoundedInduction, TLAPS

-----------------------------------------------------------------------------
(* Sequences. *)

\* Appending adds one element to the range of a sequence.
LEMMA RangeAppend ==
  ASSUME NEW S, NEW s \in Seq(S), NEW e \in S
  PROVE  Range(Append(s, e)) = Range(s) \cup {e}
<1>1. Range(<<e>>) = {e} /\ <<e>> \in Seq(S)
  BY RangeEquality DEF Range
<1>2. Range(s \o <<e>>) = Range(s) \cup Range(<<e>>)
  BY <1>1, RangeConcatenation, Zenon
<1> QED
  BY <1>1, <1>2, AppendIsConcat

\* A sequence of numbers stays increasing when a greater one is appended.
LEMMA IncreasingAppend ==
  ASSUME NEW s \in Seq(Nat), NEW e \in Nat,
         \A i, j \in 1 .. Len(s) : i < j => s[i] < s[j],
         \A i \in 1 .. Len(s) : s[i] < e
  PROVE  \A i, j \in 1 .. Len(Append(s, e)) : i < j => Append(s, e)[i] < Append(s, e)[j]
<1>1. \A i, j \in 1 .. Len(s) + 1 :
        i < j => i \in 1 .. Len(s) /\ (j \in 1 .. Len(s) \/ j = Len(s) + 1)
  OBVIOUS
<1> QED
  BY <1>1, AppendProperties

\* The range of a sequence is its head and the range of its tail.
LEMMA RangeTail ==
  ASSUME NEW S, NEW s \in Seq(S), s # <<>>
  PROVE  Range(s) = {Head(s)} \cup Range(Tail(s))
<1>1. /\ s = <<Head(s)>> \o Tail(s) /\ <<Head(s)>> \in Seq(S) /\ Tail(s) \in Seq(S)
      /\ Range(<<Head(s)>>) = {Head(s)}
  BY HeadTailProperties DEF Range
<1>2. Range(<<Head(s)>> \o Tail(s)) = Range(<<Head(s)>>) \cup Range(Tail(s))
  BY <1>1, RangeConcatenation, Zenon
<1> QED
  BY <1>1, <1>2

\* The tail of an increasing sequence of numbers is increasing, and what is in
\* it is greater than the head.
LEMMA IncreasingTail ==
  ASSUME NEW s \in Seq(Nat), s # <<>>,
         \A i, j \in 1 .. Len(s) : i < j => s[i] < s[j]
  PROVE  /\ \A i, j \in 1 .. Len(Tail(s)) : i < j => Tail(s)[i] < Tail(s)[j]
         /\ \A e \in Range(Tail(s)) : Head(s) < e
<1>1. /\ DOMAIN Tail(s) = 1 .. Len(s) - 1 /\ Len(Tail(s)) = Len(s) - 1
      /\ Len(s) \in Nat
      /\ Head(s) = s[1]
      /\ \A i \in 1 .. Len(s) - 1 : Tail(s)[i] = s[i + 1]
  BY HeadTailProperties, EmptySeq, LenProperties
<1>2. \A i, j \in 1 .. Len(Tail(s)) : i < j => Tail(s)[i] < Tail(s)[j]
  BY <1>1
<1>3. \A i \in 1 .. Len(s) - 1 : Head(s) < Tail(s)[i]
  BY <1>1
<1> QED
  BY <1>1, <1>2, <1>3 DEF Range

-----------------------------------------------------------------------------

Increasing(s) == \A i, j \in 1 .. Len(s) : i < j => s[i] < s[j]

\* A run the script may have noted.
Notable(r) == /\ r \in Runs /\ Announced(outcome[r])
              /\ script.onFailure = "skip" => ~Failed(outcome[r])

\* The runs that are parsed come before those to be parsed, and those before
\* the runs to come: the order of the rows is that of the loop.
Rows ==
  /\ Increasing(summary) /\ Increasing(found)
  /\ \A r \in Range(summary), q \in Range(found) : r < q
  /\ \A r \in Range(summary) \cup Range(found) : Notable(r)
  /\ \A r \in Pending : outcome[r] = "running" => \A q \in Pending : r <= q
  /\ bpc = "runs" => /\ summary = <<>> /\ unparsed = {}
                     /\ \A r \in Range(found), q \in Pending : r < q
  /\ bpc \in {"parsing", "printed", "done"} => Pending = {}
  /\ summary # <<>> \/ unparsed # {} => Pending = {}

\* Where a completed run is until it has a row, and what a script that aborts
\* has seen.
Kept ==
  /\ Located => \A r \in Runs : outcome[r] = "completed" =>
                  r \in unparsed \cup Range(summary) \cup Range(found)
  /\ bpc \in {"printed", "done"} /\ Located => found = <<>>
  /\ script.onFailure = "abort" /\ bpc \in {"runs", "parsing", "printed", "done"} =>
       \A r \in Runs : outcome[r] \in {"none", "running", "completed"}

-----------------------------------------------------------------------------
(* Type correctness. *)

\* Every reachable state has the types the code gives it.
THEOREM TypeCorrect == SafeSpec => []TypeOK
<1>1. Init => TypeOK
  <2>1. <<>> \in Seq(Runs)
    BY EmptySeq
  <2> QED
    BY <2>1 DEF Init, TypeOK
<1>2. TypeOK /\ [Next]_vars => TypeOK'
  <2> SUFFICES ASSUME TypeOK, [Next]_vars
               PROVE  TypeOK'
    OBVIOUS
  <2> USE DEF TypeOK, Over, Outcomes
  <2>1. ASSUME NEW r \in Runs, StartRun(r)
        PROVE  TypeOK'
    BY <2>1 DEF StartRun
  <2>2. ASSUME NEW r \in Runs, EndRun(r)
        PROVE  TypeOK'
    BY <2>2 DEF EndRun
  <2>3. CASE RunsOver
    BY <2>3 DEF RunsOver
  <2>4. CASE Parse
    <3>1. Head(found) \in Runs /\ Tail(found) \in Seq(Runs)
      BY <2>4, HeadTailProperties DEF Parse
    <3>2. /\ found' = Tail(found)
          /\ summary' \in {summary, Append(summary, Head(found))}
          /\ unparsed' \in {unparsed, unparsed \cup {Head(found)}}
          /\ UNCHANGED <<script, bpc, outcome, report>>
      BY <2>4 DEF Parse, Row
    <3>3. Append(summary, Head(found)) \in Seq(Runs)
      BY <3>1
    <3> QED
      BY <3>1, <3>2, <3>3
  <2>5. CASE PrintSummary
    BY <2>5 DEF PrintSummary
  <2>6. CASE Report
    BY <2>6 DEF Report
  <2>7. CASE Interrupt
    BY <2>7 DEF Interrupt
  <2>8. CASE UNCHANGED vars
    BY <2>8 DEF vars
  <2> QED
    BY <2>1, <2>2, <2>3, <2>4, <2>5, <2>6, <2>7, <2>8 DEF Next, ScriptStep
<1> QED
  BY <1>1, <1>2, PTL DEF SafeSpec

-----------------------------------------------------------------------------
(* The invariant. *)

\* A sequence of runs is one of numbers.
LEMMA RunsAreNumbers ==
  ASSUME NEW s \in Seq(Runs)
  PROVE  s \in Seq(Nat) /\ Range(s) \subseteq Runs /\ Len(s) \in Nat
<1>1. Runs \subseteq Nat
  BY ConstantsAssumption DEF Runs
<1>2. s \in Seq(Nat)
  BY <1>1, SeqMonotonic
<1>3. s \in [1 .. Len(s) -> Runs] /\ Len(s) \in Nat
  BY LenProperties
<1> QED
  BY <1>2, <1>3 DEF Range

\* The run that ends is noted after all the others.
LEMMA EndRunStep ==
  ASSUME TypeOK, Rows, Kept, NEW r \in Runs, EndRun(r)
  PROVE  Rows' /\ Kept'
<1>1. PICK o \in Outcomes :
        /\ outcome' = [outcome EXCEPT ![r] = o]
        /\ found' = IF Notes(o) THEN Append(found, r) ELSE found
        /\ bpc' = IF Failed(o) /\ script.onFailure = "abort" THEN "aborted" ELSE bpc
  BY DEF EndRun
<1>2. /\ bpc = "runs" /\ outcome[r] = "running" /\ r \in Pending
      /\ UNCHANGED <<script, summary, unparsed, report>>
      /\ summary = <<>> /\ unparsed = {}
  BY DEF EndRun, Pending, Rows
<1>3. /\ outcome'[r] = o /\ o \notin {"none", "running"}
      /\ \A q \in Runs : q # r => outcome'[q] = outcome[q]
  BY <1>1 DEF TypeOK, Outcomes
<1>4. Pending' \subseteq Pending \ {r}
  BY <1>3 DEF Pending
<1>5. \A q \in Range(found) : q < r /\ q # r /\ q \in Nat /\ Notable(q)
  BY <1>2, RunsAreNumbers, ConstantsAssumption DEF Rows, TypeOK, Runs
\* The running one is the least of those to come.
<1>6. \A p \in Pending' : r < p /\ outcome'[p] # "running"
  <2>1. \A p \in Pending : r <= p /\ p \in Nat /\ r \in Nat
    BY <1>2, ConstantsAssumption DEF Rows, Pending, Runs
  <2>2. \A p \in Pending : outcome[p] = "running" => p = r
    BY <1>2, <2>1 DEF Rows
  <2> QED
    BY <1>3, <1>4, <2>1, <2>2 DEF Pending
<1>7. Range(summary') = {}
  BY <1>2 DEF Range
<1>8. \A q \in Range(found) : Notable(q)'
  BY <1>2, <1>3, <1>5 DEF Notable
<1>9. CASE Notes(o)
  <2>1. found' = Append(found, r)
    BY <1>1, <1>9
  <2>2. Range(found') = Range(found) \cup {r}
    BY <2>1, RangeAppend DEF TypeOK
  <2>3. Increasing(found')
    <3>1. found \in Seq(Nat) /\ r \in Nat
      BY RunsAreNumbers, ConstantsAssumption DEF TypeOK, Runs
    <3>2. \A i \in 1 .. Len(found) : found[i] < r
      BY <1>5, <3>1 DEF Range
    <3> QED
      BY <2>1, <3>1, <3>2, IncreasingAppend DEF Rows, Increasing
  <2>4. Notable(r)'
    BY <1>2, <1>3, <1>9 DEF Notable, Notes
  <2>5. \A q \in Range(found'), p \in Pending' : q < p
    BY <1>2, <1>4, <1>6, <2>2 DEF Rows
  <2>6. Rows'
    <3>1. bpc' # "parsing" /\ bpc' # "printed" /\ bpc' # "done"
      BY <1>1, <1>2
    <3> QED
      BY <1>2, <1>7, <1>8, <1>6, <2>2, <2>3, <2>4, <2>5, <3>1 DEF Rows, Increasing
  <2>7. Kept'
    BY <1>1, <1>2, <1>3, <2>2 DEF Kept, Located, Failed
  <2> QED
    BY <2>6, <2>7
<1>10. CASE ~Notes(o)
  BY <1>1, <1>2, <1>3, <1>4, <1>6, <1>7, <1>8, <1>10
  DEF Rows, Kept, Located, Notes, Increasing, Failed, Announced, LogPlace
<1> QED
  BY <1>9, <1>10

\* Taking the head of the runs to be parsed leaves the later ones.
LEMMA ParseStep ==
  ASSUME TypeOK, Rows, Kept, Parse
  PROVE  Rows' /\ Kept'
<1> DEFINE h == Head(found)
<1>1. /\ found # <<>> /\ found' = Tail(found) /\ bpc = "parsing"
      /\ UNCHANGED <<script, bpc, outcome, report>>
      /\ \/ summary' = Append(summary, h) /\ Located /\ UNCHANGED unparsed
         \/ summary' = summary /\ ~Located /\ UNCHANGED unparsed
         \/ summary' = summary /\ unparsed' = unparsed \cup {h}
  BY DEF Parse, Row
<1>2. Range(found) = {h} \cup Range(Tail(found)) /\ h \in Runs /\ Tail(found) \in Seq(Runs)
  BY <1>1, RangeTail, HeadTailProperties DEF TypeOK
<1>3. Increasing(found') /\ \A q \in Range(found') : h < q
  BY <1>1, RunsAreNumbers, IncreasingTail DEF TypeOK, Rows, Increasing
<1>4. Pending' = Pending /\ Pending = {} /\ Located' = Located
  BY <1>1 DEF Pending, Rows, Located
<1>5. \A q \in Runs : Notable(q) => Notable(q)'
  BY <1>1 DEF Notable
<1> HIDE DEF h
<1>6. CASE summary' = Append(summary, h) /\ UNCHANGED unparsed
  <2>1. Range(summary') = Range(summary) \cup {h}
    BY <1>2, <1>6, RangeAppend DEF TypeOK
  <2>2. Increasing(summary')
    <3>1. summary \in Seq(Nat) /\ h \in Nat
      BY <1>2, RunsAreNumbers, ConstantsAssumption DEF TypeOK, Runs
    <3>2. \A i \in 1 .. Len(summary) : summary[i] \in Range(summary)
      BY <3>1, LenProperties DEF Range
    <3>3. \A i \in 1 .. Len(summary) : summary[i] < h
      BY <1>2, <3>2 DEF Rows
    <3> QED
      BY <1>6, <3>1, <3>3, IncreasingAppend DEF Rows, Increasing
  <2>3. \A q \in Range(summary') \cup Range(found') : Notable(q)'
    BY <1>1, <1>2, <1>5, <2>1 DEF Rows, Notable
  <2>4. \A q \in Range(summary'), p \in Range(found') : q < p
    BY <1>1, <1>2, <1>3, <2>1 DEF Rows
  <2> QED
    BY <1>1, <1>2, <1>3, <1>4, <1>6, <2>1, <2>2, <2>3, <2>4 DEF Rows, Kept
<1>7. CASE summary' = summary
  <2>1. \A q \in Range(summary') \cup Range(found') : Notable(q)'
    BY <1>1, <1>2, <1>5, <1>7 DEF Rows, Notable
  <2>2. \A q \in Range(summary'), p \in Range(found') : q < p
    BY <1>1, <1>2, <1>7 DEF Rows
  <2>3. Located => unparsed' = unparsed \cup {h} \/ summary' = Append(summary, h)
    BY <1>1
  <2> QED
    BY <1>1, <1>2, <1>3, <1>4, <1>6, <1>7, <2>1, <2>2, <2>3 DEF Rows, Kept
<1> QED
  BY <1>1, <1>6, <1>7

LEMMA Invariance == SafeSpec => [](Rows /\ Kept)
<1>1. Init => Rows /\ Kept
  BY DEF Init, Rows, Kept, Increasing, Range, Pending
<1>2. TypeOK /\ Rows /\ Kept /\ [Next]_vars => Rows' /\ Kept'
  <2> SUFFICES ASSUME TypeOK, Rows, Kept, [Next]_vars
               PROVE  Rows' /\ Kept'
    OBVIOUS
  \* What ended stays ended, so what was noted stays notable.
  <2>1. ASSUME UNCHANGED script,
               \A r \in Runs : outcome[r] \notin {"none", "running"} => outcome'[r] = outcome[r]
        PROVE  \A r : Notable(r) => Notable(r)'
    BY <2>1 DEF Notable, Announced, TypeOK
  <2>2. ASSUME NEW r \in Runs, StartRun(r)
        PROVE  Rows' /\ Kept'
    <3>1. /\ bpc = "runs" /\ r \in Pending /\ \A q \in Pending : r <= q
          /\ outcome[r] = "none" /\ outcome' = [outcome EXCEPT ![r] = "running"]
          /\ UNCHANGED <<script, bpc, found, summary, unparsed, report>>
      BY <2>2 DEF StartRun, NextRun
    <3>2. outcome'[r] = "running" /\ \A q \in Runs : q # r => outcome'[q] = outcome[q]
      BY <3>1 DEF TypeOK
    <3>3. Pending' = Pending
      BY <3>1, <3>2 DEF Pending
    <3>4. \A q : Notable(q) => Notable(q)'
      BY <2>1, <3>1, <3>2
    <3>5. \A q \in Pending' : outcome'[q] = "running" => \A p \in Pending' : q <= p
      <4>1. ASSUME NEW q \in Pending, outcome'[q] = "running", NEW p \in Pending
            PROVE  q <= p
        BY <3>1, <3>2, <4>1 DEF Rows, Pending
      <4> QED
        BY <3>3, <4>1
    <3> QED
      BY <3>1, <3>2, <3>3, <3>4, <3>5 DEF Rows, Kept, Located
  <2>3. ASSUME NEW r \in Runs, EndRun(r)
        PROVE  Rows' /\ Kept'
    BY <2>3, EndRunStep
  <2>4. CASE RunsOver
    BY <2>4 DEF RunsOver, Rows, Kept, Located, Notable, Pending
  <2>5. CASE Parse
    BY <2>5, ParseStep
  <2>6. CASE PrintSummary
    BY <2>6 DEF PrintSummary, Rows, Kept, Located, Notable, Pending
  <2>7. CASE Report
    BY <2>7 DEF Report, Rows, Kept, Located, Notable, Pending
  <2>8. CASE Interrupt
    <3>1. /\ bpc' = "interrupted"
          /\ outcome' = [r \in Runs |-> IF outcome[r] = "running" THEN "killed" ELSE outcome[r]]
          /\ UNCHANGED <<script, found, summary, unparsed, report>>
      BY <2>8 DEF Interrupt
    <3>2. Pending' \subseteq Pending /\ \A r \in Pending' : outcome'[r] # "running"
      BY <3>1 DEF Pending
    <3>3. \A r : Notable(r) => Notable(r)'
      BY <2>1, <3>1
    <3>4. \A r \in Runs : outcome'[r] = "completed" => outcome[r] = "completed"
      BY <3>1
    <3> QED
      BY <3>1, <3>2, <3>3, <3>4 DEF Rows, Kept, Located
  <2>9. CASE UNCHANGED vars
    BY <2>9 DEF vars, Rows, Kept, Located, Notable, Pending
  <2> QED
    BY <2>2, <2>3, <2>4, <2>5, <2>6, <2>7, <2>8, <2>9 DEF Next, ScriptStep
<1> QED
  BY <1>1, <1>2, TypeCorrect, PTL DEF SafeSpec

-----------------------------------------------------------------------------
(* What follows from it. *)

\* In every batch the rows are those of different runs, in order, and of no run
\* that the script should have left out.
THEOREM RowsInOrder == SafeSpec => []RowsOfRuns
<1>1. TypeOK /\ Rows => RowsOfRuns
  <2> SUFFICES ASSUME TypeOK, Rows
               PROVE  RowsOfRuns
    OBVIOUS
  <2>1. DOMAIN summary = 1 .. Len(summary) /\ \A i \in DOMAIN summary : Notable(summary[i])
    BY LenProperties DEF TypeOK, Rows, Range
  <2> QED
    BY <2>1 DEF RowsOfRuns, Rows, Increasing, Notable
<1> QED
  BY <1>1, TypeCorrect, Invariance, PTL

\* In every batch, what the script says at its end is so.
THEOREM LastLineTrue == SafeSpec => []ClosingLineTrue
<1>1. TypeOK /\ Rows /\ Kept => ClosingLineTrue
  <2> SUFFICES ASSUME TypeOK, Rows, Kept
               PROVE  ClosingLineTrue
    OBVIOUS
  <2>1. ToSet(summary) = Range(summary)
    BY DEF ToSet, Range
  <2>2. found = <<>> => Range(found) = {}
    BY DEF Range
  <2>3. ASSUME bpc = "done"
        PROVE  \A r \in Runs : outcome[r] \notin {"none", "running"}
    BY <2>3 DEF Rows, Pending
  <2> QED
    BY <2>1, <2>2, <2>3 DEF ClosingLineTrue, SummaryGenerated, Kept
<1> QED
  BY <1>1, TypeCorrect, Invariance, PTL

-----------------------------------------------------------------------------
(* A batch never goes on for ever. *)

\* The guards of the script, and of the run it waits for.
ScriptGoesOn ==
  \/ bpc = "runs" /\ \E r \in Runs : NextRun(r) /\ outcome[r] = "none"
  \/ bpc = "runs" /\ Pending = {}
  \/ bpc \in {"parsing", "printed"}
RunGoesOn == bpc = "runs" /\ \E r \in Runs : outcome[r] = "running"

\* The script waits for nothing but a run it has started, whatever the runs
\* before it did.
THEOREM SomeoneGoesOn == SafeSpec => [](bpc \notin Over => ScriptGoesOn \/ RunGoesOn)
<1>1. TypeOK => (bpc \notin Over => ScriptGoesOn \/ RunGoesOn)
  <2> SUFFICES ASSUME TypeOK, bpc = "runs", Pending # {}
               PROVE  ScriptGoesOn \/ RunGoesOn
    BY DEF TypeOK, Over, ScriptGoesOn
  <2>1. Pending \subseteq Nat
    BY ConstantsAssumption DEF Pending, Runs
  <2>2. PICK r \in Pending : \A q \in Pending : ~(<<q, r>> \in OpToRel(<, Nat))
    BY <2>1, NatLessThanWellFounded, WFMin
  <2>3. \A q \in Pending : ~(q < r)
    BY <2>1, <2>2 DEF OpToRel
  <2>4. NextRun(r) /\ r \in Runs
    BY <2>1, <2>3 DEF NextRun, Pending
  <2> QED
    BY <2>4 DEF Pending, ScriptGoesOn, RunGoesOn
<1> QED
  BY <1>1, TypeCorrect, PTL

\* How far a run and the script are.
RunStage(r) == CASE outcome[r] = "none"    -> 0
                 [] outcome[r] = "running" -> 1
                 [] OTHER                  -> 2
ScriptStage == CASE bpc = "runs"    -> 0
                 [] bpc = "parsing" -> 1
                 [] bpc = "printed" -> 2
                 [] OTHER           -> 3

\* No run is started again, whatever its exit code, and no log is parsed twice:
\* every step takes a run or the script further, or a log off the list, and none
\* takes one back.
THEOREM OnlyForward ==
  SafeSpec => [][/\ \A r \in Runs : RunStage(r) <= RunStage(r)'
                 /\ ScriptStage <= ScriptStage'
                 /\ \/ \E r \in Runs : RunStage(r) < RunStage(r)'
                    \/ ScriptStage < ScriptStage'
                    \/ bpc = "parsing" /\ found # <<>> /\ found' = Tail(found)]_vars
<1> DEFINE Forward ==
      /\ \A r \in Runs : RunStage(r) <= RunStage(r)'
      /\ ScriptStage <= ScriptStage'
      /\ \/ \E r \in Runs : RunStage(r) < RunStage(r)'
         \/ ScriptStage < ScriptStage'
         \/ bpc = "parsing" /\ found # <<>> /\ found' = Tail(found)
<1>1. TypeOK /\ [Next]_vars => [Forward]_vars
  <2> SUFFICES ASSUME TypeOK, Next, ~UNCHANGED vars
               PROVE  Forward
    OBVIOUS
  <2> USE DEF RunStage, ScriptStage, TypeOK
  <2>1. ASSUME NEW r \in Runs, StartRun(r)
        PROVE  Forward
    BY <2>1 DEF StartRun
  <2>2. ASSUME NEW r \in Runs, EndRun(r)
        PROVE  Forward
    BY <2>2 DEF EndRun, Outcomes
  <2>3. CASE RunsOver \/ Parse \/ PrintSummary \/ Report
    BY <2>3 DEF RunsOver, Parse, PrintSummary, Report
  <2>4. CASE Interrupt
    BY <2>4 DEF Interrupt, Over
  <2> QED
    BY <2>1, <2>2, <2>3, <2>4 DEF Next, ScriptStep
<1> QED
  BY <1>1, TypeCorrect, PTL DEF SafeSpec
=============================================================================
