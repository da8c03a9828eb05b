-------------------------- MODULE Verdict_proofs ---------------------------
(***************************************************************************)
(* Proofs about Verdict, for any source, configs and bounds.               *)
(***************************************************************************)
EXTENDS Verdict, FiniteSetTheorems, TLAPS

LEMMA RaiseTypes ==
  ASSUME SourceTypeOK, Raise PROVE SourceTypeOK' /\ phase' = "raised" /\ c' = c
BY DEF SourceTypeOK, Raise, Forget, Nowhere

LEMMA TakeTypes ==
  ASSUME SourceTypeOK, NEW answer, NEW total, Take(answer, total), odd' \in BOOLEAN
  PROVE  SourceTypeOK'
<1>1. seen' \in [Rows -> 0..2]
  BY DEF SourceTypeOK, Take, More
<1>2. part' \in Nat /\ page' \in Nat /\ tries' \in Nat
  BY DEF SourceTypeOK, Take, NextPage, Origin
<1> QED
  BY <1>1, <1>2 DEF SourceTypeOK, Take

(* Reading the source keeps the types.                                     *)
LEMMA ReadTypes ==
  ASSUME SourceTypeOK, Read
  PROVE  SourceTypeOK' /\ phase' \in {"fetch", "load", "raised"} /\ c' = c
<1>1. CASE Build
  BY <1>1 DEF Build, SourceTypeOK, Origin
<1>2. CASE BuildFails
  BY <1>2, RaiseTypes DEF BuildFails, NoFile, NoColumn, NoToken, NoDestination
<1>3. CASE Answer
  <2>1. odd' \in BOOLEAN
    BY <1>3 DEF Answer, SourceTypeOK
  <2> QED
    BY <1>3, <2>1, TakeTypes DEF Answer, Asking, Take
<1>4. CASE OddAnswer
  BY <1>4, TakeTypes DEF OddAnswer, Asking, Take
<1>5. CASE Retry
  BY <1>5 DEF Retry, SourceTypeOK, Asking
<1>6. CASE RequestFails
  BY <1>6, RaiseTypes DEF RequestFails
<1>7. CASE Query
  <2>1. seen' \in [Rows -> 0..2]
    BY <1>7 DEF Query, SourceTypeOK, More
  <2>2. part' \in Nat /\ phase' = "fetch"
    BY <1>7 DEF Query, SourceTypeOK
  <2> QED
    BY <1>7, <2>1, <2>2 DEF Query, SourceTypeOK
<1>8. CASE QueryFails
  BY <1>8, RaiseTypes DEF QueryFails
<1>9. CASE Extracted
  <2>1. mark' \in [Tables -> Nat \cup {-1}]
    <3>1. {Hour[r] : r \in Rows} \subseteq Nat
      BY ExtractAssumption
    <3> QED
      BY <1>9, <3>1 DEF Extracted
  <2> QED
    BY <1>9, <2>1 DEF Extracted, SourceTypeOK
<1> QED
  BY <1>1, <1>2, <1>3, <1>4, <1>5, <1>6, <1>7, <1>8, <1>9 DEF Read

LEMMA StoreTypes ==
  ASSUME TypeOK, NEW tables \in SUBSET Ahead, Store(tables)
  PROVE  copies' \in [Rows -> Nat] /\ known' \subseteq Names /\ loaded' \subseteq Names
<1>1. ASSUME NEW r \in Rows PROVE Copies(r) \in Nat
  <2>1. seen \in [Rows -> 0..2] /\ copies \in [Rows -> Nat] /\ c \in Configs
    BY DEF TypeOK, SourceTypeOK
  <2>2. seen[r] \in Nat /\ copies[r] \in Nat
    BY <2>1
  <2>3. c.write \in {"replace", "append", "merge"}
    BY <2>1, VerdictAssumption
  <2> QED
    BY <2>2, <2>3 DEF Copies
<1>2. tables \subseteq Names
  BY DEF Ahead, Names, Fetched
<1>3. copies' \in [Rows -> Nat]
  <2>1. copies \in [Rows -> Nat]
    BY DEF TypeOK
  <2> QED
    BY <1>1, <2>1 DEF Store
<1> QED
  BY <1>2, <1>3 DEF Store, TypeOK

LEMMA ChangingTypes ==
  ASSUME SourceTypeOK, Changing
  PROVE  SourceTypeOK' /\ UNCHANGED <<c, phase, judging, copies, known, history, stats>>
<1>1. CASE \E r \in Rows : Appear(r)
  <2>1. PICK r \in Rows : Appear(r)
    BY <1>1
  <2>2. held' \in Seq(Rows)
    <3>1. held \in Seq(Rows) /\ <<r>> \in Seq(Rows)
      BY DEF SourceTypeOK
    <3>2. (<<r>> \o held) \in Seq(Rows) /\ Append(held, r) \in Seq(Rows)
      BY <3>1
    <3> QED
      BY <2>1, <3>2 DEF Appear
  <2> QED
    BY <2>1, <2>2 DEF Appear, Change, Changing, SourceTypeOK
<1>2. CASE \E i \in 1..Len(held) : Vanish(i)
  <2>1. PICK i \in 1..Len(held) : Vanish(i)
    BY <1>2
  <2>2. held' \in Seq(Rows)
    <3>1. held \in Seq(Rows)
      BY DEF SourceTypeOK
    <3>2. SubSeq(held, 1, i - 1) \in Seq(Rows) /\ SubSeq(held, i + 1, Len(held)) \in Seq(Rows)
      BY <3>1
    <3> QED
      BY <2>1, <3>2 DEF Vanish
  <2>3. odd' \in BOOLEAN
    BY <2>1 DEF Vanish, SourceTypeOK
  <2> QED
    BY <2>1, <2>2, <2>3 DEF Vanish, Change, Changing, SourceTypeOK
<1> QED
  BY <1>1, <1>2 DEF Changing

LEMMA BeginTypes ==
  ASSUME SourceTypeOK, NEW arrived, Begin(arrived)
  PROVE  SourceTypeOK' /\ phase' = "source" /\ c' = c
<1>1. Listed \subseteq Rows
  BY DEF SourceTypeOK, Listed, Among
<1>2. due' \subseteq Rows
  <2>1. due' = {r \in Listed : AskedFor(r) /\ (Passed(r) => r \in arrived)}
    BY DEF Begin
  <2>2. due' \subseteq Listed
    BY <2>1
  <2> QED
    BY <1>1, <2>2
<1>3. runs' = runs + 1 /\ phase' = "source"
  BY DEF Begin
<1>4. odd' \in BOOLEAN
  BY DEF Begin
<1>5. UNCHANGED <<c, part, page, tries, seen, mark, held, changes>>
  BY DEF Begin
<1> QED
  BY <1>2, <1>3, <1>4, <1>5 DEF SourceTypeOK

LEMMA SourceStays ==
  ASSUME SourceTypeOK, UNCHANGED source PROVE SourceTypeOK' /\ c' = c
BY DEF SourceTypeOK, source

LEMMA ForgetTypes ==
  ASSUME SourceTypeOK, Forget, UNCHANGED <<c, mark, runs, held, changes, due, odd>>
  PROVE  SourceTypeOK'
BY DEF SourceTypeOK, Forget, Nowhere

(* How many of the recorded runs have a verdict.                           *)
LEMMA TallyType ==
  ASSUME history \in Seq(Verdicts), NEW v
  PROVE  /\ IsFiniteSet({i \in 1..Len(history) : history[i] = v})
         /\ Tally(v) \in Nat
<1>1. Len(history) \in Nat
  OBVIOUS
<1>2. IsFiniteSet(1..Len(history))
  BY <1>1, FS_Interval
<1>3. {i \in 1..Len(history) : history[i] = v} \subseteq 1..Len(history)
  OBVIOUS
<1> QED
  BY <1>2, <1>3, FS_Subset, FS_CardinalityType DEF Tally

LEMMA NumbersType ==
  ASSUME history \in Seq(Verdicts)
  PROVE  \A i \in 1..4 : Numbers[i] \in Nat
<1>1. Len(history) \in Nat
  OBVIOUS
<1>2. Tally("good") \in Nat /\ Tally("warn") \in Nat /\ Tally("bad") \in Nat
  BY TallyType
<1> QED
  BY <1>1, <1>2 DEF Numbers

(* What a run finds out about itself, and what stays when it is over.      *)
Judged ==
  /\ known \subseteq Names /\ written \subseteq Names /\ loaded \subseteq Names
  /\ failed \subseteq (Checks \cup {"connection"}) \X (Names \cup {None, c.table})
  /\ again \in BOOLEAN /\ success \in BOOLEAN /\ message \in Messages
  /\ recorded \in BOOLEAN /\ uncounted \in BOOLEAN
  /\ copies \in [Rows -> Nat]
  /\ history \in Seq(Verdicts)
  /\ stats \in Seq(Nat)

PhaseOK ==
  phase \in {"idle", "source", "fetch", "load", "count", "check", "notify", "record",
             "raised"}

LEMMA TypeParts == TypeOK <=> SourceTypeOK /\ PhaseOK /\ Judged
BY DEF TypeOK, PhaseOK, Judged

LEMMA JudgedStays ==
  ASSUME Judged, UNCHANGED <<c, judging, copies, known, history, stats>> PROVE Judged'
BY DEF Judged, judging, Names, Table

(* Every variable keeps its type.                                          *)
THEOREM TypeCorrect == Spec => []TypeOK
<1>1. Init => TypeOK
  <2> SUFFICES ASSUME Init PROVE TypeOK
    OBVIOUS
  <2>1. SourceTypeOK /\ PhaseOK
    <3>1. SourceInit
      BY DEF Init
    <3>2. held \in Seq(Rows) /\ c \in Configs
      BY <3>1, ExtractAssumption DEF SourceInit
    <3>3. seen \in [Rows -> 0..2] /\ mark \in [Tables -> Nat \cup {-1}]
      BY <3>1 DEF SourceInit, Nowhere
    <3> QED
      BY <3>1, <3>2, <3>3 DEF SourceInit, SourceTypeOK, PhaseOK
  <2>2. Judged
    <3>1. copies \in [Rows -> Nat]
      BY DEF Init, Nowhere
    <3>2. history \in Seq(Verdicts) /\ stats \in Seq(Nat)
      BY DEF Init
    <3> QED
      BY <3>1, <3>2 DEF Init, Judged, Messages
  <2> QED
    BY <2>1, <2>2, TypeParts
<1>2. TypeOK /\ [Next]_vars => TypeOK'
  <2> SUFFICES ASSUME TypeOK, [Next]_vars PROVE SourceTypeOK' /\ PhaseOK' /\ Judged'
    BY TypeParts DEF TypeOK, PhaseOK, Judged
  <2>0. SourceTypeOK /\ PhaseOK /\ Judged
    BY TypeParts
  <2>1. CASE Start
    <3>1. SourceTypeOK' /\ phase' = "source" /\ c' = c
      BY <2>0, <2>1, BeginTypes DEF Start
    <3>2. Judged'
      BY <2>0, <2>1, <3>1 DEF Start, Judged, Messages, Names, Table
    <3> QED
      BY <3>1, <3>2 DEF PhaseOK
  <2>2. CASE Extracting
    <3>1. SourceTypeOK' /\ phase' \in {"fetch", "load", "raised"} /\ c' = c
      BY <2>0, <2>2, ReadTypes DEF Extracting
    <3> QED
      BY <2>0, <2>2, <3>1, JudgedStays DEF Extracting, PhaseOK
  <2>3. CASE Load
    <3>1. UNCHANGED source /\ phase' = "count"
      BY <2>3 DEF Load, Keeps, Goes
    <3>2. SourceTypeOK' /\ c' = c
      BY <2>0, <3>1, SourceStays
    <3>3. UNCHANGED <<again, written, failed, message, recorded, uncounted, history,
                      stats>>
      BY <2>3 DEF Load, Keeps
    <3>4. copies' \in [Rows -> Nat] /\ known' \subseteq Names /\ loaded' \subseteq Names /\ success'
      BY <2>3, StoreTypes DEF Load
    <3> QED
      BY <2>0, <3>1, <3>2, <3>3, <3>4 DEF PhaseOK, Judged, Names, Table
  <2>4. CASE LoadFailsJobs
    <3>1. UNCHANGED source /\ phase' = "notify"
      BY <2>4 DEF LoadFailsJobs, Keeps, Goes
    <3>2. SourceTypeOK' /\ c' = c
      BY <2>0, <3>1, SourceStays
    <3>3. UNCHANGED <<again, written, success, failed, message, recorded, uncounted,
                      history, stats>>
      BY <2>4 DEF LoadFailsJobs, Keeps
    <3>4. copies' \in [Rows -> Nat] /\ known' \subseteq Names /\ loaded' \subseteq Names
      BY <2>4, StoreTypes DEF LoadFailsJobs
    <3> QED
      BY <2>0, <3>1, <3>2, <3>3, <3>4 DEF PhaseOK, Judged, Names, Table
  <2>5. CASE LoadRaises
    <3>1. SourceTypeOK' /\ phase' = "raised" /\ c' = c
      BY <2>0, <2>5, RaiseTypes DEF LoadRaises
    <3>2. UNCHANGED <<again, written, success, failed, message, recorded, uncounted,
                      history, stats>>
      BY <2>5 DEF LoadRaises, Keeps
    <3>3. copies' \in [Rows -> Nat] /\ known' \subseteq Names /\ loaded' \subseteq Names
      BY <2>5, StoreTypes DEF LoadRaises
    <3> QED
      BY <2>0, <3>1, <3>2, <3>3 DEF PhaseOK, Judged, Names, Table
  <2>6. CASE LoadAgain
    <3>1. SourceTypeOK' /\ phase' = "fetch" /\ c' = c
      <4>1. UNCHANGED <<c, part, tries, mark, runs, held, changes, odd>>
        BY <2>6 DEF LoadAgain
      <4>2. page' \in Nat /\ seen' \in [Rows -> 0..2] /\ phase' = "fetch"
        BY <2>6 DEF LoadAgain, Origin, Nowhere, Goes
      <4>3. due' \subseteq Rows
        BY <2>0, <2>6 DEF LoadAgain, SourceTypeOK
      <4> QED
        BY <2>0, <4>1, <4>2, <4>3 DEF SourceTypeOK
    <3>2. UNCHANGED <<written, success, failed, message, recorded, uncounted, history,
                      stats>>
      BY <2>6 DEF LoadAgain, Keeps
    <3>3. copies' \in [Rows -> Nat] /\ known' \subseteq Names /\ loaded' \subseteq Names /\ again'
      BY <2>6, StoreTypes DEF LoadAgain
    <3> QED
      BY <2>0, <3>1, <3>2, <3>3 DEF PhaseOK, Judged, Names, Table
  <2>7. CASE Count
    <3>1. UNCHANGED source /\ phase' = "check"
      BY <2>7 DEF Count, Keeps, Goes
    <3>2. SourceTypeOK' /\ c' = c
      BY <2>0, <3>1, SourceStays
    <3>3. UNCHANGED <<again, success, failed, message, recorded, loaded, copies, known,
                      history, stats>>
      BY <2>7 DEF Count, Keeps
    <3>4. Ahead \subseteq Names
      BY DEF Ahead, Names, Fetched
    <3>5. written' \subseteq Names
      BY <2>0, <2>7, <3>4 DEF Count, Counts, Judged
    <3>6. uncounted' \in BOOLEAN
      BY <2>7 DEF Count
    <3> QED
      BY <2>0, <3>1, <3>2, <3>3, <3>5, <3>6 DEF PhaseOK, Judged, Names, Table
  <2>8. CASE Check
    <3>1. UNCHANGED source /\ phase' = "notify"
      BY <2>8 DEF Check, Keeps, Goes
    <3>2. SourceTypeOK' /\ c' = c
      BY <2>0, <3>1, SourceStays
    <3>3. UNCHANGED <<again, written, success, message, recorded, loaded, uncounted,
                      copies, known, history, stats>>
      BY <2>8 DEF Check, Keeps
    <3>4. c.checks \X Targets \subseteq Checks \X (Names \cup {c.table})
      <4>1. c.checks \subseteq Checks
        BY <2>0, VerdictAssumption DEF SourceTypeOK
      <4>2. Targets \subseteq Names \cup {c.table}
        BY <2>0 DEF Targets, Judged
      <4> QED
        BY <4>1, <4>2
    <3>5. failed' \subseteq (Checks \cup {"connection"}) \X (Names \cup {None, c.table})
      <4> DEFINE all == c.checks \X Targets
      <4>1. CASE failed' = {} \/ failed' = {<<"connection", None>>}
        BY <4>1
      <4>2. CASE \E broken \in {{}} \cup {{x} : x \in all} :
                   failed' = broken \cup {x \in all : Fails(x[1], x[2])}
        <5>1. failed' \subseteq all
          BY <4>2
        <5>2. all \subseteq Checks \X (Names \cup {c.table})
          BY <3>4
        <5> HIDE DEF all
        <5> QED
          BY <5>1, <5>2
      <4> QED
        BY <2>8, <4>1, <4>2 DEF Check
    <3> QED
      BY <2>0, <3>1, <3>2, <3>3, <3>5 DEF PhaseOK, Judged, Names, Table
  <2>9. CASE CheckRaises \/ HistoryFails
    <3>1. SourceTypeOK' /\ phase' = "raised" /\ c' = c
      BY <2>0, <2>9, RaiseTypes DEF CheckRaises, HistoryFails
    <3> QED
      BY <2>0, <2>9, <3>1, JudgedStays DEF CheckRaises, HistoryFails, PhaseOK
  <2>10. CASE Notify
    <3>1. UNCHANGED source /\ phase' = "record"
      BY <2>10 DEF Notify, Keeps, Goes
    <3>2. SourceTypeOK' /\ c' = c
      BY <2>0, <3>1, SourceStays
    <3>3. UNCHANGED <<again, written, success, failed, recorded, loaded, uncounted,
                      copies, known, history, stats>>
      BY <2>10 DEF Notify, Keeps
    <3>4. message' \in Messages
      BY <2>10 DEF Notify, Telling, Messages, Verdicts
    <3> QED
      BY <2>0, <3>1, <3>2, <3>3, <3>4 DEF PhaseOK, Judged, Names, Table
  <2>11. CASE Record
    <3>1. SourceTypeOK' /\ c' = c /\ phase' = "idle"
      BY <2>0, <2>11, ForgetTypes DEF Record
    <3>2. Outcome \in Verdicts
      BY DEF Outcome, Telling, Verdicts
    <3>3. history' \in Seq(Verdicts) /\ recorded' \in BOOLEAN
      <4>1. Append(history, Outcome) \in Seq(Verdicts) /\ history \in Seq(Verdicts)
        BY <2>0, <3>2 DEF Judged
      <4> QED
        BY <2>0, <2>11, <4>1 DEF Record, Judged
    <3>4. UNCHANGED <<again, written, success, failed, message, loaded, uncounted,
                      copies, known, stats>>
      BY <2>11 DEF Record, Keeps
    <3> QED
      BY <2>0, <3>1, <3>3, <3>4 DEF PhaseOK, Judged, Names, Table
  <2>12. CASE ReadStats
    <3>1. UNCHANGED <<phase, source, judging, copies, known, history>>
      BY <2>12 DEF ReadStats
    <3>2. SourceTypeOK' /\ c' = c
      BY <2>0, <3>1, SourceStays
    <3>3. stats' \in Seq(Nat)
      <4>1. Len(stats) + 1 \in 1..4
        BY <2>0, <2>12 DEF ReadStats, Judged
      <4>2. Numbers[Len(stats) + 1] \in Nat
        BY <2>0, <4>1, NumbersType DEF Judged
      <4> QED
        BY <2>0, <2>12, <4>2 DEF ReadStats, Judged
    <3> QED
      BY <2>0, <3>1, <3>2, <3>3 DEF PhaseOK, Judged, Names, Table, judging
  <2>13. CASE ShowStats
    <3>1. UNCHANGED <<phase, source, judging, copies, known, history>> /\ stats' = <<>>
      BY <2>13 DEF ShowStats
    <3>2. SourceTypeOK' /\ c' = c
      BY <2>0, <3>1, SourceStays
    <3> QED
      BY <2>0, <3>1, <3>2 DEF PhaseOK, Judged, Names, Table, judging
  <2>14. CASE Changing
    <3>1. SourceTypeOK' /\ UNCHANGED <<c, phase, judging, copies, known, history, stats>>
      BY <2>0, <2>14, ChangingTypes
    <3> QED
      BY <2>0, <3>1, JudgedStays DEF PhaseOK
  <2>15. CASE UNCHANGED vars
    <3>1. UNCHANGED <<phase, source, judging, copies, known, history, stats>>
      BY <2>15 DEF vars
    <3>2. SourceTypeOK' /\ c' = c
      BY <2>0, <3>1, SourceStays
    <3> QED
      BY <2>0, <3>1, <3>2, JudgedStays DEF PhaseOK
  <2> QED
    BY <2>1, <2>2, <2>3, <2>4, <2>5, <2>6, <2>7, <2>8, <2>9, <2>10, <2>11, <2>12, <2>13,
       <2>14, <2>15 DEF Next, Run
<1> QED
  BY <1>1, <1>2, PTL DEF Spec

-----------------------------------------------------------------------------
LEMMA TallyGrows ==
  ASSUME history \in Seq(Verdicts), history' \in Seq(Verdicts),
         Len(history) <= Len(history'), \A i \in 1..Len(history) : history'[i] = history[i], NEW v
  PROVE  Tally(v) \in Nat /\ Tally(v)' \in Nat /\ Tally(v) <= Tally(v)'
<1> DEFINE now == {i \in 1..Len(history) : history[i] = v}
           next == {i \in 1..Len(history') : history'[i] = v}
<1>1. Len(history) \in Nat /\ Len(history') \in Nat
  OBVIOUS
<1>2. now \subseteq next
  BY <1>1
<1>3. IsFiniteSet(next)
  <2>1. IsFiniteSet(1..Len(history'))
    BY <1>1, FS_Interval
  <2>2. next \subseteq 1..Len(history')
    OBVIOUS
  <2> QED
    BY <2>1, <2>2, FS_Subset
<1>4. Cardinality(now) \in Nat /\ Cardinality(next) \in Nat /\ Cardinality(now) <= Cardinality(next)
  <2> HIDE DEF now, next
  <2> QED
    BY <1>2, <1>3, FS_Subset, FS_CardinalityType
<1> QED
  BY <1>4 DEF Tally

LEMMA DisjointUnion ==
  ASSUME NEW A, NEW B, IsFiniteSet(A), IsFiniteSet(B), A \cap B = {}
  PROVE  /\ IsFiniteSet(A \cup B)
         /\ Cardinality(A \cup B) = Cardinality(A) + Cardinality(B)
<1>1. Cardinality(A \cap B) = 0
  BY FS_EmptySet
<1>2. Cardinality(A) \in Nat /\ Cardinality(B) \in Nat
  BY FS_CardinalityType
<1>3. Cardinality(A \cup B) = Cardinality(A) + Cardinality(B) - Cardinality(A \cap B)
  BY FS_Union
<1> QED
  BY <1>1, <1>2, <1>3, FS_Union

(* Every recorded run has just one verdict.                                *)
LEMMA TallyAdds ==
  ASSUME history \in Seq(Verdicts)
  PROVE  Len(history) = Tally("good") + Tally("warn") + Tally("bad")
<1> DEFINE Of(v) == {i \in 1..Len(history) : history[i] = v}
<1>1. Len(history) \in Nat
  OBVIOUS
<1>2. \A v : IsFiniteSet(Of(v)) /\ Cardinality(Of(v)) \in Nat
  BY TallyType DEF Tally
<1>3. (Of("good") \cup Of("warn")) \cup Of("bad") = 1..Len(history)
  BY DEF Verdicts
<1>4. Of("good") \cap Of("warn") = {} /\ (Of("good") \cup Of("warn")) \cap Of("bad") = {}
  OBVIOUS
<1>5. Cardinality(1..Len(history)) = Len(history)
  BY <1>1, FS_Interval
<1>6. Tally("good") = Cardinality(Of("good")) /\ Tally("warn") = Cardinality(Of("warn"))
      /\ Tally("bad") = Cardinality(Of("bad"))
  BY DEF Tally
<1> HIDE DEF Of
<1>7. /\ IsFiniteSet(Of("good") \cup Of("warn"))
      /\ Cardinality(Of("good") \cup Of("warn")) = Cardinality(Of("good")) + Cardinality(Of("warn"))
  BY <1>2, <1>4, DisjointUnion
<1>8. Cardinality((Of("good") \cup Of("warn")) \cup Of("bad"))
        = Cardinality(Of("good") \cup Of("warn")) + Cardinality(Of("bad"))
  BY <1>2, <1>4, <1>7, DisjointUnion
<1> QED
  BY <1>2, <1>3, <1>5, <1>6, <1>7, <1>8

(* What the reader of the statistics has counted so far, against what it   *)
(* has yet to count.                                                       *)
Counting ==
  /\ Len(stats) <= 4
  /\ Len(stats) = 1 => stats[1] <= Tally("good") + Tally("warn") + Tally("bad")
  /\ Len(stats) = 2 => stats[1] <= stats[2] + Tally("warn") + Tally("bad")
  /\ Len(stats) = 3 => stats[1] <= stats[2] + stats[3] + Tally("bad")
  /\ Len(stats) = 4 => stats[1] <= stats[2] + stats[3] + stats[4]
  /\ Len(stats) >= 2 => stats[2] <= Tally("good")
  /\ Len(stats) >= 3 => stats[3] <= Tally("warn")
  /\ Len(stats) >= 4 => stats[4] <= Tally("bad")

LEMMA UpToFour == ASSUME NEW n \in Nat, n <= 4 PROVE n = 0 \/ n = 1 \/ n = 2 \/ n = 3 \/ n = 4
OBVIOUS

LEMMA CountsRead ==
  ASSUME TypeOK PROVE Len(stats) \in Nat /\ \A i \in 1..Len(stats) : stats[i] \in Nat
<1>1. stats \in Seq(Nat)
  BY DEF TypeOK
<1> QED
  BY <1>1

LEMMA CountingStays ==
  ASSUME TypeOK, TypeOK', Counting, stats' = stats,
         history' = history \/ history' = Append(history, Outcome)
  PROVE  Counting'
<1>1. history \in Seq(Verdicts) /\ history' \in Seq(Verdicts) /\ stats \in Seq(Nat)
  BY DEF TypeOK
<1>2. Len(history) <= Len(history') /\ \A i \in 1..Len(history) : history'[i] = history[i]
  BY <1>1
<1>3. Tally("good") \in Nat /\ Tally("good")' \in Nat /\ Tally("good") <= Tally("good")'
  BY <1>1, <1>2, TallyGrows
<1>4. Tally("warn") \in Nat /\ Tally("warn")' \in Nat /\ Tally("warn") <= Tally("warn")'
  BY <1>1, <1>2, TallyGrows
<1>5. Tally("bad") \in Nat /\ Tally("bad")' \in Nat /\ Tally("bad") <= Tally("bad")'
  BY <1>1, <1>2, TallyGrows
<1>6. Len(stats) \in Nat /\ \A i \in 1..Len(stats) : stats[i] \in Nat
  BY CountsRead
<1>7. CASE Len(stats) = 0
  BY <1>7 DEF Counting
<1>8. CASE Len(stats) = 1
  BY <1>3, <1>4, <1>5, <1>6, <1>8 DEF Counting
<1>9. CASE Len(stats) = 2
  BY <1>3, <1>4, <1>5, <1>6, <1>9 DEF Counting
<1>10. CASE Len(stats) = 3
  BY <1>3, <1>4, <1>5, <1>6, <1>10 DEF Counting
<1>11. CASE Len(stats) = 4
  BY <1>3, <1>4, <1>5, <1>6, <1>11 DEF Counting
<1>12. Len(stats) = 0 \/ Len(stats) = 1 \/ Len(stats) = 2 \/ Len(stats) = 3 \/ Len(stats) = 4
  <2>1. Len(stats) \in Nat
    BY CountsRead
  <2>2. Len(stats) <= 4
    BY DEF Counting
  <2> QED
    BY <2>1, <2>2, UpToFour, Zenon
<1> QED
  BY <1>7, <1>8, <1>9, <1>10, <1>11, <1>12

(* A reader who counts while runs are recorded is never shown a total that *)
(* its parts do not reach, nor parts of more runs than there are.          *)
THEOREM StatisticsAddUp == Spec => []StatsAddUp
<1>1. Init => Counting
  BY DEF Init, Counting
<1>2. TypeOK /\ TypeOK' /\ Counting /\ [Next]_vars => Counting'
  <2> SUFFICES ASSUME TypeOK, TypeOK', Counting, [Next]_vars PROVE Counting'
    OBVIOUS
  <2>1. CASE ReadStats
    <3>1. history \in Seq(Verdicts) /\ stats \in Seq(Nat) /\ history' = history
      BY <2>1 DEF TypeOK, ReadStats
    <3>2. Len(history) = Tally("good") + Tally("warn") + Tally("bad")
      BY <3>1, TallyAdds
    <3>3. \A v : Tally(v) \in Nat /\ Tally(v)' = Tally(v)
      BY <3>1, TallyType DEF Tally
    <3>4. Len(stats) = 0 \/ Len(stats) = 1 \/ Len(stats) = 2 \/ Len(stats) = 3
      <4>1. Len(stats) \in Nat
        BY CountsRead
      <4>2. Len(stats) <= 4 /\ Len(stats) # 4
        BY <2>1 DEF ReadStats, Counting
      <4> QED
        BY <4>1, <4>2, UpToFour, Zenon
    <3>5. Len(stats') = Len(stats) + 1 /\ stats'[Len(stats) + 1] = Numbers[Len(stats) + 1]
          /\ \A i \in 1..Len(stats) : stats'[i] = stats[i] /\ stats[i] \in Nat
      BY <3>1, <2>1 DEF ReadStats
    <3>6. /\ Numbers[1] = Len(history) /\ Numbers[2] = Tally("good")
          /\ Numbers[3] = Tally("warn") /\ Numbers[4] = Tally("bad")
      BY DEF Numbers
    <3>7. CASE Len(stats) = 0
      BY <3>2, <3>3, <3>5, <3>6, <3>7 DEF Counting
    <3>8. CASE Len(stats) = 1
      BY <3>3, <3>5, <3>6, <3>8 DEF Counting
    <3>9. CASE Len(stats) = 2
      BY <3>3, <3>5, <3>6, <3>9 DEF Counting
    <3>10. CASE Len(stats) = 3
      BY <3>3, <3>5, <3>6, <3>10 DEF Counting
    <3> QED
      BY <3>4, <3>7, <3>8, <3>9, <3>10
  <2>2. CASE ShowStats
    BY <2>2 DEF ShowStats, Counting
  <2>3. CASE ~ReadStats /\ ~ShowStats
    <3>1. stats' = stats /\ (history' = history \/ history' = Append(history, Outcome))
      <4>1. CASE Start
        BY <4>1 DEF Start
      <4>2. CASE Extracting
        BY <4>2 DEF Extracting
      <4>3. CASE Load \/ LoadFailsJobs \/ LoadRaises \/ LoadAgain
        BY <4>3 DEF Load, LoadFailsJobs, LoadRaises, LoadAgain, Keeps
      <4>4. CASE Count \/ Check \/ CheckRaises \/ Notify \/ HistoryFails
        BY <4>4 DEF Count, Check, CheckRaises, Notify, HistoryFails, Keeps
      <4>5. CASE Record
        BY <4>5 DEF Record
      <4>6. CASE Changing \/ UNCHANGED vars
        BY <4>6 DEF Changing, vars
      <4> QED
        BY <2>3, <4>1, <4>2, <4>3, <4>4, <4>5, <4>6 DEF Next, Run
    <3> QED
      BY <3>1, CountingStays
  <2> QED
    BY <2>1, <2>2, <2>3
<1>3. TypeOK /\ Counting => StatsAddUp
  <2> SUFFICES ASSUME TypeOK, Counting, Len(stats) = 4
               PROVE  /\ stats[1] <= stats[2] + stats[3] + stats[4]
                      /\ stats[2] + stats[3] + stats[4] <= Len(history)
    BY DEF StatsAddUp
  <2>1. history \in Seq(Verdicts)
    BY DEF TypeOK
  <2>2. Len(history) = Tally("good") + Tally("warn") + Tally("bad")
    BY <2>1, TallyAdds
  <2>3. \A v : Tally(v) \in Nat
    BY <2>1, TallyType
  <2>4. \A i \in 1..4 : stats[i] \in Nat
    BY CountsRead
  <2> QED
    BY <2>2, <2>3, <2>4 DEF Counting
<1> QED
  BY <1>1, <1>2, <1>3, TypeCorrect, PTL DEF Spec

-----------------------------------------------------------------------------
(* What the verdict of a run rests on, from its load to its record.        *)
Judges == ~c.files /\ c.table = None /\ ~uncounted
AllClean == \A t \in loaded : Clean(t)

Grounds ==
  /\ phase # "idle" => ~recorded
  /\ phase \in {"source", "fetch", "load"} => ~success
  /\ phase \in {"check", "notify", "record"} /\ success /\ ~uncounted => loaded \subseteq written
  /\ phase \in {"notify", "record"} /\ Good /\ Judges => AllClean
  /\ GreenMeansClean

LEMMA CleanStays ==
  ASSUME UNCHANGED <<c, copies, loaded>> PROVE AllClean' <=> AllClean
BY DEF AllClean, Clean, Quantity, Stored, Table

LEMMA QuantityType == ASSUME TypeOK, NEW t PROVE Quantity(t) \in Nat
<1> DEFINE pairs == Rows \X (1..4 * MaxRuns)
           counted == {x \in Stored(t) \X (1..4 * MaxRuns) : x[2] <= copies[x[1]]}
<1>1. IsFiniteSet(pairs)
  <2>1. 4 * MaxRuns \in Int
    BY ExtractAssumption
  <2>2. IsFiniteSet(1..4 * MaxRuns) /\ IsFiniteSet(Rows)
    BY <2>1, FS_Interval, VerdictAssumption
  <2> QED
    BY <2>2, FS_Product
<1>2. counted \subseteq pairs
  BY DEF Stored
<1>3. Cardinality(counted) \in Nat
  <2> HIDE DEF pairs, counted
  <2> QED
    BY <1>1, <1>2, FS_Subset, FS_CardinalityType
<1> QED
  BY <1>3 DEF Quantity

(* A table in which no check fails is as the user configured it.           *)
LEMMA PassedIsClean ==
  ASSUME TypeOK, NEW t, \A check \in c.checks : ~Fails(check, t) PROVE Clean(t)
<1>1. c \in Configs /\ copies \in [Rows -> Nat] /\ Stored(t) \subseteq Rows
  BY DEF TypeOK, SourceTypeOK, Stored
<1>2. c.minimum \in Nat /\ Quantity(t) \in Nat /\ Oldest \in Nat
  BY <1>1, QuantityType, VerdictAssumption
<1>3. \A r \in Rows : Hour[r] \in Nat /\ copies[r] \in Nat
  BY <1>1, ExtractAssumption
<1>4. "row_count" \in c.checks => Quantity(t) >= c.minimum
  <2>1. "row_count" \in c.checks => ~(Quantity(t) < c.minimum)
    BY DEF Fails, Applies
  <2> QED
    BY <1>2, <2>1
<1>5. "not_null" \in c.checks => Stored(t) \cap Null = {}
  BY DEF Fails, Applies
<1>6. "no_duplicates" \in c.checks /\ c.write # "append" => \A r \in Stored(t) : copies[r] = 1
  <2> SUFFICES ASSUME "no_duplicates" \in c.checks, c.write # "append", NEW r \in Stored(t)
               PROVE  copies[r] = 1
    OBVIOUS
  <2>1. ~(copies[r] > 1)
    BY DEF Fails, Applies
  <2>2. copies[r] > 0
    BY DEF Stored
  <2> QED
    BY <1>1, <1>3, <2>1, <2>2
<1>7. "freshness" \in c.checks => \E r \in Stored(t) : Hour[r] >= Oldest
  <2> SUFFICES ASSUME "freshness" \in c.checks PROVE \E r \in Stored(t) : Hour[r] >= Oldest
    OBVIOUS
  <2>1. PICK r \in Stored(t) : ~(Hour[r] < Oldest)
    BY DEF Fails, Applies
  <2> QED
    BY <1>1, <1>2, <1>3, <2>1
<1> QED
  BY <1>4, <1>5, <1>6, <1>7 DEF Clean

(* What the checks let pass is clean, in every table that was counted.     *)
LEMMA CheckGrounds ==
  ASSUME TypeOK, Grounds, Check PROVE Grounds'
<1>1. UNCHANGED <<c, success, recorded, loaded, uncounted, written, copies>>
      /\ phase = "check" /\ phase' = "notify"
  BY DEF Check, Goes, Keeps, source
<1>2. ASSUME Good', Judges' PROVE AllClean
  <2>1. failed' = {} /\ success /\ ~c.files /\ c.table = None /\ ~uncounted
    BY <1>1, <1>2 DEF Good, Judges
  <2>2. loaded \subseteq written /\ Targets = written
    BY <1>1, <2>1 DEF Grounds, Targets
  <2>3. PICK broken : failed' = broken \cup {x \in c.checks \X Targets : Fails(x[1], x[2])}
    BY <2>1 DEF Check
  <2>4. \A x \in c.checks \X Targets : ~Fails(x[1], x[2])
    BY <2>1, <2>3
  <2>5. ASSUME NEW t \in loaded, NEW check \in c.checks PROVE ~Fails(check, t)
    <3>1. <<check, t>> \in c.checks \X Targets
      BY <2>2
    <3> QED
      BY <2>4, <3>1
  <2> QED
    BY <2>5, PassedIsClean DEF AllClean
<1>3. AllClean' <=> AllClean
  BY <1>1, CleanStays
<1>4. phase' # "idle" => ~recorded'
  BY <1>1 DEF Grounds
<1>5. success' /\ ~uncounted' => loaded' \subseteq written'
  BY <1>1 DEF Grounds
<1> QED
  BY <1>1, <1>2, <1>3, <1>4, <1>5 DEF Grounds, GreenMeansClean

(* Recording a good run vouches for what its checks found.                 *)
LEMMA RecordGrounds ==
  ASSUME TypeOK, Grounds, Record PROVE Grounds'
<1>1. phase' = "idle" /\ phase \in {"record", "raised"} /\ ~recorded
      /\ UNCHANGED <<c, copies, loaded, uncounted>>
  BY DEF Record, Grounds
<1>2. AllClean' <=> AllClean
  BY <1>1, CleanStays
<1>3. ASSUME recorded', history'[Len(history')] = "good", Judges' PROVE AllClean
  <2>1. history' = Append(history, Outcome)
    BY <1>1, <1>3 DEF Record
  <2>2. Outcome = "good"
    <3>1. history \in Seq(Verdicts)
      BY DEF TypeOK
    <3> QED
      BY <1>3, <2>1, <3>1
  <2>3. phase = "record" /\ Good
    BY <1>1, <2>2 DEF Outcome, Telling
  <2> QED
    BY <1>1, <1>3, <2>3 DEF Grounds, Judges
<1>4. GreenMeansClean'
  BY <1>1, <1>2, <1>3 DEF GreenMeansClean, Judges, AllClean
<1> QED
  BY <1>1, <1>4 DEF Grounds

(* Every other step leaves the grounds of the verdict alone, or begins     *)
(* before there are any.                                                   *)
LEMMA StillGrounds ==
  ASSUME Grounds,
         UNCHANGED <<c, phase, success, failed, recorded, history, written, loaded,
                     uncounted, copies>>
  PROVE  Grounds'
<1>1. (AllClean' <=> AllClean) /\ (Good' <=> Good) /\ (Judges' <=> Judges)
  BY CleanStays DEF Good, Judges
<1>2. GreenMeansClean'
  BY <1>1 DEF Grounds, GreenMeansClean, AllClean, Judges
<1> QED
  BY <1>1, <1>2, Zenon DEF Grounds

(* A run that is not at its checks has none of the grounds yet, unless it  *)
(* has failed jobs.                                                        *)
LEMMA NoGrounds ==
  ASSUME ~recorded', ~success', phase' # "idle" PROVE Grounds'
BY DEF Grounds, Good, GreenMeansClean

THEOREM GroundsHold == Spec => []Grounds
<1>1. Init => Grounds
  BY DEF Init, SourceInit, Grounds, GreenMeansClean
<1>2. TypeOK /\ Grounds /\ [Next]_vars => Grounds'
  <2> SUFFICES ASSUME TypeOK, Grounds, [Next]_vars PROVE Grounds'
    OBVIOUS
  <2>0. SourceTypeOK
    BY DEF TypeOK
  <2>1. CASE Start
    <3>1. phase' = "source"
      BY <2>0, <2>1, BeginTypes DEF Start
    <3> QED
      BY <2>1, <3>1, NoGrounds DEF Start
  <2>2. CASE Extracting
    <3>1. phase' \in {"fetch", "load", "raised"} /\ phase \in {"source", "fetch"}
      BY <2>0, <2>2, ReadTypes
         DEF Extracting, Read, Build, BuildFails, NoFile, NoColumn, NoToken, NoDestination,
             Answer, OddAnswer, Retry, RequestFails, Query, QueryFails, Extracted, Asking
    <3>2. ~recorded /\ ~success /\ UNCHANGED <<recorded, success>>
      BY <2>2, <3>1 DEF Extracting, judging, Grounds
    <3> QED
      BY <3>1, <3>2, NoGrounds
  <2>3. CASE Load
    <3>1. phase' = "count" /\ recorded' = recorded /\ ~recorded
      BY <2>3 DEF Load, Goes, Keeps, Grounds
    <3> QED
      BY <3>1 DEF Grounds, GreenMeansClean
  <2>4. CASE LoadFailsJobs
    <3>1. phase' = "notify" /\ UNCHANGED <<recorded, success>> /\ ~recorded /\ ~success
      BY <2>4 DEF LoadFailsJobs, Goes, Keeps, Grounds
    <3> QED
      BY <3>1, NoGrounds
  <2>5. CASE LoadRaises
    <3>1. phase' = "raised" /\ UNCHANGED <<recorded, success>> /\ ~recorded /\ ~success
      BY <2>5 DEF LoadRaises, Raise, Grounds
    <3> QED
      BY <3>1, NoGrounds
  <2>6. CASE LoadAgain
    <3>1. phase' = "fetch" /\ UNCHANGED <<recorded, success>> /\ ~recorded /\ ~success
      BY <2>6 DEF LoadAgain, Goes, Grounds
    <3> QED
      BY <3>1, NoGrounds
  <2>7. CASE Count
    <3>1. phase' = "check" /\ UNCHANGED <<recorded, loaded>> /\ ~recorded
      BY <2>7 DEF Count, Goes, Keeps, Grounds
    <3>2. ~uncounted' => loaded \subseteq written'
      BY <2>7 DEF Count
    <3> QED
      BY <3>1, <3>2 DEF Grounds, GreenMeansClean
  <2>8. CASE Check
    BY <2>8, CheckGrounds
  <2>9. CASE CheckRaises \/ HistoryFails
    <3>1. phase' = "raised" /\ UNCHANGED recorded /\ ~recorded
      BY <2>9 DEF CheckRaises, HistoryFails, Raise, judging, Grounds
    <3> QED
      BY <3>1 DEF Grounds, GreenMeansClean
  <2>10. CASE Notify
    <3>1. /\ UNCHANGED <<c, success, failed, recorded, loaded, uncounted, written,
                         copies>>
          /\ phase = "notify" /\ phase' = "record"
      BY <2>10 DEF Notify, Goes, Keeps, source
    <3>2. (AllClean' <=> AllClean) /\ (Good' <=> Good) /\ (Judges' <=> Judges)
      BY <3>1, CleanStays DEF Good, Judges
    <3> QED
      BY <3>1, <3>2 DEF Grounds, GreenMeansClean
  <2>11. CASE Record
    BY <2>11, RecordGrounds
  <2>12. CASE ReadStats \/ ShowStats
    BY <2>12, StillGrounds DEF ReadStats, ShowStats, source, judging
  <2>13. CASE Changing
    BY <2>0, <2>13, StillGrounds, ChangingTypes DEF judging
  <2>14. CASE UNCHANGED vars
    BY <2>14, StillGrounds DEF vars, source, judging
  <2> QED
    BY <2>1, <2>2, <2>3, <2>4, <2>5, <2>6, <2>7, <2>8, <2>9, <2>10, <2>11, <2>12, <2>13,
       <2>14 DEF Next, Run
<1> QED
  BY <1>1, <1>2, TypeCorrect, PTL DEF Spec

(* A run the history calls good left every table it wrote to, and that was *)
(* counted, as the user configured.                                        *)
THEOREM GreenIsClean == Spec => []GreenMeansClean
<1>1. Grounds => GreenMeansClean
  BY DEF Grounds
<1> QED
  BY <1>1, GroundsHold, PTL

-----------------------------------------------------------------------------
(* The place of a row in the list of a part counts the rows up to it.      *)
LEMMA PlaceType ==
  ASSUME NEW i \in Nat
  PROVE  /\ IsFiniteSet({j \in 1..i : InPart(held[j], part)})
         /\ Place(i) \in Nat
<1>1. IsFiniteSet(1..i)
  BY FS_Interval
<1>2. {j \in 1..i : InPart(held[j], part)} \subseteq 1..i
  OBVIOUS
<1> QED
  BY <1>1, <1>2, FS_Subset, FS_CardinalityType DEF Place

LEMMA PlaceGrows ==
  ASSUME NEW i \in Nat, NEW k \in Nat, i <= k PROVE Place(i) <= Place(k)
<1> DEFINE upto(n) == {j \in 1..n : InPart(held[j], part)}
<1>1. upto(i) \subseteq upto(k)
  OBVIOUS
<1>2. IsFiniteSet(upto(k))
  BY PlaceType
<1> HIDE DEF upto
<1>3. Cardinality(upto(i)) <= Cardinality(upto(k))
  BY <1>1, <1>2, FS_Subset
<1> QED
  BY <1>3 DEF Place, upto

LEMMA Counted ==
  ASSUME NEW i \in Nat, NEW S \in SUBSET (1..i), i \in S PROVE Cardinality(S) > 0
<1>1. IsFiniteSet(S)
  <2>1. IsFiniteSet(1..i)
    BY FS_Interval
  <2> QED
    BY <2>1, FS_Subset
<1>2. Cardinality(S) # 0 /\ Cardinality(S) \in Nat
  BY <1>1, FS_EmptySet, FS_CardinalityType
<1> QED
  BY <1>2

(* Rounded up, the number of pages holds every row.                        *)
LEMMA Ceiling ==
  ASSUME NEW n \in Nat, NEW d \in Nat \ {0}
  PROVE  /\ (n + d - 1) \div d \in Nat
         /\ n <= ((n + d - 1) \div d) * d
OBVIOUS


LEMMA ProductGrows ==
  ASSUME NEW a \in Int, NEW b \in Int, NEW d \in Nat, a <= b PROVE a * d <= b * d
OBVIOUS

LEMMA NextPages ==
  ASSUME NEW a \in Int, NEW b \in Int, NEW d \in Nat PROVE ((a + 1) - b) * d = (a - b) * d + d
OBVIOUS

(* A row of the pages to come is on the next page or on a later one.       *)
LEMMA OnPage ==
  ASSUME SourceTypeOK, NEW i \in 1..Len(held), InPart(held[i], part), Place(i) > Before
  PROVE  held[i] \in Page.rows \/ Place(i) > Before + Size
<1>1. Place(i) \in Nat
  <2>1. i \in Nat
    OBVIOUS
  <2> QED
    BY <2>1, PlaceType
<1>2. Before \in Int /\ Size \in Nat
  BY ExtractAssumption DEF SourceTypeOK, Before, ServiceOrigin
<1>3. SUFFICES ASSUME Place(i) <= Before + Size PROVE held[i] \in Page.rows
  BY <1>1, <1>2
<1>4. Place(i) \in Before + 1..Before + Size
  BY <1>1, <1>2, <1>3
<1> QED
  BY <1>4 DEF Page

(* No connector stops before the end of the list: it ends with a page that *)
(* is not full or empty, or with the last page there is.                   *)
LEMMA EndOfPart ==
  ASSUME SourceTypeOK, Asking, Stops(Page, TotalPages),
         c.kind = "rest" => page < c.pages /\ ~(page + 1 = c.pages /\ c.pages < TotalPages)
  PROVE  Total <= Before + Size
<1>1. page \in Nat /\ c \in Configs /\ Size \in Nat \ {0} /\ Len(held) \in Nat
  BY ExtractAssumption DEF SourceTypeOK
<1>2. Total \in Nat /\ Before \in Int
  <2>1. Total \in Nat
    BY <1>1, PlaceType DEF Total
  <2> QED
    BY <1>1, <2>1 DEF Before, ServiceOrigin
<1>3. TotalPages \in Nat /\ Total <= TotalPages * Size
  BY <1>1, <1>2, Ceiling DEF TotalPages
<1>4. CASE Page.count = 0 \/ ShortPage(Page)
  BY <1>1, <1>2, <1>4 DEF Page, ShortPage
<1>5. CASE c.kind \in {"didox", "rest"} /\ page + 1 >= TotalPages
  <2>1. Before = page * Size
    BY <1>1, <1>5 DEF Before, ServiceOrigin
  <2>2. TotalPages * Size <= (page + 1) * Size
    BY <1>1, <1>3, <1>5, ProductGrows
  <2>3. (page + 1) * Size = Before + Size
    BY <1>1, <2>1
  <2>4. TotalPages * Size \in Int
    BY <1>1, <1>3
  <2> QED
    BY <1>1, <1>2, <1>3, <2>2, <2>3, <2>4
<1>6. c.kind = "rest" /\ LastOfRest => page + 1 >= TotalPages
  <2>1. c.pages \in Nat
    BY <1>1, ExtractAssumption
  <2> QED
    BY <1>1, <1>3, <2>1 DEF LastOfRest
<1> QED
  BY <1>4, <1>5, <1>6 DEF Stops, LastOfDidox

LEMMA InPartStays ==
  ASSUME c' = c PROVE \A r, i : InPart(r, i)' = InPart(r, i)
BY Zenon DEF InPart, Day, DayEnd, EndHour, StartHour, FirstHour, LastHour

LEMMA Shifted ==
  ASSUME NEW n \in Nat, NEW A \in SUBSET (1..n), NEW B \in SUBSET (1..n + 1),
         \A j \in A : j + 1 \in B
  PROVE  /\ Cardinality(A) <= Cardinality(B)
         /\ Cardinality(A) \in Nat /\ Cardinality(B) \in Nat
<1> DEFINE f == [j \in A |-> j + 1]
<1>1. IsFiniteSet(B)
  <2>1. IsFiniteSet(1..n + 1)
    BY FS_Interval
  <2> QED
    BY <2>1, FS_Subset
<1>2. f \in Injection(A, B)
  BY DEF Injection, IsInjective
<1>3. IsFiniteSet(A) /\ Cardinality(A) <= Cardinality(B)
  BY <1>1, <1>2, FS_Injection
<1> QED
  BY <1>1, <1>3, FS_CardinalityType

(* A row that appears, at either end of the list, leaves every other at its*)
(* place or moves it to a later one.                                       *)
LEMMA ListGrows ==
  ASSUME SourceTypeOK, NEW r \in Rows, Appear(r), NEW k \in 1..Len(held')
  PROVE  \/ held'[k] = r
         \/ \E i \in 1..Len(held) : /\ held'[k] = held[i] /\ Place(i) <= Place(k)'
                                   /\ Place(i) \in Nat /\ Place(k)' \in Nat
<1>1. held \in Seq(Rows) /\ Len(held) \in Nat
  BY DEF SourceTypeOK
<1>2. part' = part /\ c' = c
  BY DEF Appear, Change
<1>3. \A q, i : InPart(q, i)' = InPart(q, i)
  BY <1>2, InPartStays
<1> DEFINE Is(q) == InPart(q, part)
<1>4. Place(k)' = Cardinality({j \in 1..k : Is(held'[j])})
  BY <1>2, <1>3 DEF Place
<1>5. \A i \in 1..Len(held) : Place(i) = Cardinality({j \in 1..i : Is(held[j])})
  BY DEF Place
<1> HIDE DEF Is
<1>6. CASE held' = <<r>> \o held
  <2>1. Len(held') = Len(held) + 1 /\ held'[1] = r
        /\ \A i \in 1..Len(held) : held'[i + 1] = held[i]
    BY <1>1, <1>6
  <2>2. CASE k = 1
    BY <2>1, <2>2
  <2>3. CASE k # 1
    <3> DEFINE i == k - 1
               A == {j \in 1..i : Is(held[j])}
               B == {j \in 1..k : Is(held'[j])}
    <3>1. i \in 1..Len(held) /\ k = i + 1 /\ held'[k] = held[i]
      BY <1>1, <2>1, <2>3
    <3>2. A \subseteq 1..i /\ B \subseteq 1..i + 1 /\ \A j \in A : j + 1 \in B
      BY <1>1, <2>1, <3>1
    <3>3. /\ Cardinality(A) <= Cardinality(B)
          /\ Cardinality(A) \in Nat /\ Cardinality(B) \in Nat
      <4> HIDE DEF A, B, i
      <4>1. i \in Nat
        BY <3>1
      <4> QED
        BY <3>2, <4>1, Shifted
    <3>4. Place(i) = Cardinality(A) /\ Place(k)' = Cardinality(B)
      BY <1>4, <1>5, <3>1
    <3> QED
      BY <3>1, <3>3, <3>4
  <2> QED
    BY <2>2, <2>3
<1>7. CASE held' = Append(held, r)
  <2>1. Len(held') = Len(held) + 1 /\ held'[Len(held) + 1] = r
        /\ \A i \in 1..Len(held) : held'[i] = held[i]
    BY <1>1, <1>7
  <2>2. CASE k = Len(held) + 1
    BY <2>1, <2>2
  <2>3. CASE k # Len(held) + 1
    <3>1. k \in 1..Len(held)
      BY <1>1, <2>1, <2>3
    <3>2. {j \in 1..k : Is(held'[j])} = {j \in 1..k : Is(held[j])}
      BY <1>1, <2>1, <3>1
    <3>3. k \in Nat
      BY <1>1, <3>1
    <3>4. Place(k) \in Nat
      BY <3>3, PlaceType
    <3>5. Place(k)' = Place(k)
      BY <1>4, <1>5, <3>1, <3>2, Zenon
    <3> QED
      BY <2>1, <3>1, <3>4, <3>5
  <2> QED
    BY <2>2, <2>3
<1> QED
  BY <1>6, <1>7 DEF Appear

(* The days of UTC that Payme is asked for cover the days of Tashkent: each*)
(* hour of these is in one of them.                                        *)
LEMMA DaysCover ==
  ASSUME c \in Configs, c.kind = "payme", NEW h \in FirstHour..LastHour
  PROVE  \E i \in 1..Parts : h \in Day(i)
<1>1. c.days \in Int /\ Today \in Nat
  BY ExtractAssumption
<1> DEFINE i == (h - StartHour) \div 24 + 1
<1>2. FirstHour \in Int /\ LastHour \in Int /\ h \in Int /\ FirstHour <= h /\ h <= LastHour
  BY <1>1 DEF FirstHour, LastHour
<1>3. /\ StartHour \in Int /\ StartHour <= FirstHour
      /\ EndHour \in Int /\ LastHour <= EndHour
  BY <1>2 DEF StartHour, EndHour
<1>4. i \in Int /\ i >= 1 /\ i <= (EndHour - StartHour) \div 24 + 1
  BY <1>2, <1>3
<1>5. i \in 1..Parts
  BY <1>4 DEF Parts
<1>6. h >= StartHour + 24 * (i - 1) /\ h <= StartHour + 24 * (i - 1) + 23
  BY <1>2, <1>3
<1>7. ((StartHour + 24 * (i - 1)) \div 24) * 24 = StartHour + 24 * (i - 1)
  <2>1. StartHour = 24 * (FirstHour \div 24) /\ FirstHour \div 24 \in Int
    BY <1>2 DEF StartHour
  <2>2. StartHour + 24 * (i - 1) = 24 * (FirstHour \div 24 + i - 1)
    BY <1>4, <2>1
  <2>3. \A n \in Int : ((24 * n) \div 24) * 24 = 24 * n
    OBVIOUS
  <2> HIDE DEF i
  <2>4. FirstHour \div 24 + i - 1 \in Int
    BY <1>4, <2>1
  <2> QED
    BY <2>2, <2>3, <2>4
<1> HIDE DEF i
<1>8. h \in Day(i)
  BY <1>2, <1>3, <1>4, <1>6, <1>7 DEF Day, DayEnd
<1> QED
  BY <1>5, <1>8

(* A part of the source covers a row that was asked for.                   *)
Covers(r, i) ==
  IF c.kind = "sql"
  THEN Label(Home[r]) = c.picked[i] /\ ~Borrows(c.picked[i]) /\ ~Excluded(r, c.picked[i])
  ELSE InPart(r, i)

LEMMA PartsType == ASSUME c \in Configs PROVE Parts \in Int
<1>1. c.days \in Int /\ Today \in Nat /\ Len(c.picked) \in Nat
  BY ExtractAssumption
<1>2. FirstHour \in Int /\ LastHour \in Int
  BY <1>1 DEF FirstHour, LastHour
<1>3. StartHour \in Int /\ EndHour \in Int
  BY <1>2 DEF StartHour, EndHour
<1> QED
  BY <1>1, <1>3 DEF Parts

(* Every row that was asked for is in a part of the source that is read.   *)
LEMMA PartsCover ==
  ASSUME c \in Configs, NEW r \in Rows, AskedFor(r)
  PROVE  \E i \in 1..Parts : Covers(r, i)
<1>1. CASE c.kind = "payme"
  <2>1. Hour[r] \in FirstHour..LastHour
    BY <1>1 DEF AskedFor
  <2> QED
    BY <1>1, <2>1, DaysCover DEF Covers, InPart
<1>2. CASE c.kind = "didox"
  BY <1>2 DEF AskedFor, Covers, InPart, Parts
<1>3. CASE c.kind = "sql"
  BY <1>3 DEF AskedFor, Covers, Parts
<1>4. CASE c.kind \notin {"payme", "didox", "sql"}
  BY <1>4 DEF Covers, InPart, Parts
<1> QED
  BY <1>1, <1>2, <1>3, <1>4

(* The connector finds the table behind a label again.                     *)
LEMMA SameTable ==
  ASSUME NEW t \in Tables PROVE TableOf(Label(t)) = t
<1>1. t = <<t[1], t[2]>>
  BY SqlSourceAssumption
<1>2. CASE t[1] = Default
  BY <1>1, <1>2 DEF Label, TableOf
<1>3. CASE t[1] # Default
  BY <1>1, <1>3 DEF Label, TableOf
<1> QED
  BY <1>2, <1>3

LEMMA InitialType ==
  ASSUME c \in Configs, NEW label, Initial(c, label) # None PROVE Initial(c, label).at \in Nat
<1>1. \A setting \in {c.common} \cup {c.settings[l] : l \in DOMAIN c.settings} :
        setting.initial # None => setting.initial.at \in Nat
  BY ExtractAssumption
<1>2. c.common.initial # None => c.common.initial.at \in Nat
  BY <1>1
<1>3. Setting(c, label).initial # None => Setting(c, label).initial.at \in Nat
  <2>1. Setting(c, label) = NoSetting
        \/ \E l \in DOMAIN c.settings : Setting(c, label) = c.settings[l]
    BY DEF Setting
  <2>2. CASE Setting(c, label) = NoSetting
    BY <2>2 DEF NoSetting
  <2>3. CASE \E l \in DOMAIN c.settings : Setting(c, label) = c.settings[l]
    BY <1>1, <2>3
  <2> QED
    BY <2>1, <2>2, <2>3
<1> QED
  BY <1>2, <1>3 DEF Initial

(* The connector reads a table from where the user said.                   *)
LEMMA ReadFrom ==
  ASSUME c \in Configs, NEW r \in Rows, NEW label,
         ~Borrows(label), ~Excluded(r, label), Cursor(c, label) # None
  PROVE  Hour[r] >= From(c, label)
<1>1. Hour[r] \in Nat
  BY ExtractAssumption
<1>2. CASE Initial(c, label) = None
  BY <1>1, <1>2 DEF From
<1>3. CASE Initial(c, label) # None
  <2>1. Initial(c, label).at \in Nat /\ From(c, label) = Initial(c, label).at
    BY <1>3, InitialType DEF From, Parsed
  <2> DEFINE own == IF label \in DOMAIN c.settings THEN c.settings[label] ELSE NoSetting
  <2>2. Setting(c, label) = own
    BY DEF Borrows, Setting
  <2>3. ~(Hour[r] < Initial(c, label).at)
    <3>1. CASE own.initial # None
      BY <2>2, <3>1 DEF Excluded, Initial
    <3>2. CASE own.initial = None
      <4>1. Cursor(c, label) = c.common.column /\ Initial(c, label) = c.common.initial
        BY <1>3, <2>2, <3>2 DEF Initial
      <4>2. c.common.column # None /\ own.column \in {None, c.common.column}
        BY <4>1, <2>2 DEF Cursor
      <4> QED
        BY <1>3, <3>2, <4>1, <4>2 DEF Excluded
    <3> QED
      BY <3>1, <3>2
  <2> QED
    BY <1>1, <2>1, <2>3
<1> QED
  BY <1>2, <1>3

NoMarks == c.write = "replace" => \A t \in Tables : mark[t] = -1

(* A query reads the rows of its table that the cursor has not passed.     *)
LEMMA QueryReads ==
  ASSUME SourceTypeOK, NoMarks, Query, part # 0, NEW r \in Rows, r \in Listed,
         Covers(r, part), ~Passed(r)
  PROVE  seen'[r] > 0
<1> DEFINE label == c.picked[part]
<1>1. c \in Configs /\ Hour[r] \in Nat /\ Home[r] \in Tables /\ seen[r] \in 0..2
      /\ mark \in [Tables -> Nat \cup {-1}]
  BY ExtractAssumption DEF SourceTypeOK
<1>2. c.kind = "sql" /\ part \in 1..Len(c.picked)
  BY DEF Query, Parts, SourceTypeOK
<1>3. label = Label(Home[r]) /\ ~Borrows(label) /\ ~Excluded(r, label)
  BY <1>2 DEF Covers
<1>4. TableOf(label) = Home[r]
  BY <1>1, <1>3, SameTable
<1>5. Beyond(r, label)
  <2>1. SUFFICES ASSUME Cursor(c, label) # None PROVE Hour[r] > mark[Home[r]]
    BY <1>1, <1>3, <1>4, ReadFrom DEF Beyond
  <2>2. CASE c.write = "replace"
    BY <1>1, <2>2 DEF NoMarks
  <2>3. CASE c.write # "replace"
    <3>1. Incremental(r)
      BY <1>2, <1>4, <2>1, <2>3 DEF Incremental
    <3>2. ~(Hour[r] <= mark[Home[r]])
      BY <3>1 DEF Passed
    <3> QED
      BY <1>1, <3>2
  <2> QED
    BY <2>2, <2>3
<1>6. seen'[r] = More(r, TRUE)
  BY <1>4, <1>5 DEF Query
<1> QED
  BY <1>1, <1>6 DEF More

-----------------------------------------------------------------------------
(* While a run reads its source: of the parts behind it, and of the pages  *)
(* behind it in the present one, it has every row that it is to load.  A   *)
(* row that appears moves the others to later places only.                 *)
Behind ==
  \A r \in due, i \in 1..Parts : i < part /\ Covers(r, i) /\ ~Passed(r) => seen[r] > 0

Coming ==
  c.kind # "sql" /\ part <= Parts =>
    /\ \A i \in 1..Len(held) :
         held[i] \in due /\ InPart(held[i], part) => seen[held[i]] > 0 \/ Place(i) > Before
    /\ c.kind = "rest" => page < c.pages

Reading == phase = "fetch" => part # 0 /\ (~odd => Behind /\ Coming)

(* Between the end of the reading and that of the load, a row that is not  *)
(* among those read is at the destination, where the load leaves it.       *)
Reached(r) == seen[r] > 0 \/ (c.write # "replace" /\ copies[r] > 0)
ReadAll == phase = "load" => part = 1 /\ (~odd => \A r \in due : Reached(r))

DueListed == due \subseteq Listed /\ \A r \in due : AskedFor(r)
PassedStored ==
  phase \in {"source", "fetch"} => \A r \in due : Passed(r) => copies[r] > 0
NotYet == phase \in {"source", "fetch", "load"} => ~success

Kept == DueListed /\ NoMarks /\ NotYet /\ PassedStored /\ Reading /\ ReadAll /\ NothingLost

(* What was read stays read.                                               *)
LEMMA SeenGrows ==
  ASSUME SourceTypeOK, NEW r \in Rows, NEW b
  PROVE  /\ seen[r] > 0 \/ b => More(r, b) > 0
         /\ More(r, b) \in Nat
<1>1. seen[r] \in 0..2
  BY DEF SourceTypeOK
<1> QED
  BY <1>1 DEF More

(* The config of a run stays, and with it what the run is to read.         *)
LEMMA Fixed ==
  ASSUME c' = c
  PROVE  /\ Parts' = Parts
         /\ \A r : AskedFor(r)' <=> AskedFor(r)
         /\ \A r, i : Covers(r, i)' <=> Covers(r, i)
         /\ \A r : mark' = mark => (Passed(r)' <=> Passed(r))
<1>1. Parts' = Parts
  BY Zenon DEF Parts, EndHour, StartHour, FirstHour, LastHour
<1>2. \A r, label : (Excluded(r, label)' <=> Excluded(r, label)) /\ (Borrows(label)' <=> Borrows(label))
  BY DEF Excluded, Borrows
<1>3. \A r : AskedFor(r)' <=> AskedFor(r)
  BY <1>2 DEF AskedFor, FirstHour, LastHour
<1>4. \A r, i : Covers(r, i)' <=> Covers(r, i)
  BY <1>2, InPartStays DEF Covers
<1>5. \A r : mark' = mark => (Passed(r)' <=> Passed(r))
  BY DEF Passed, Incremental
<1> QED
  BY <1>1, <1>3, <1>4, <1>5

(* A step that leaves the reading and the load alone.                      *)
LEMMA StillKept ==
  ASSUME Kept, UNCHANGED <<c, phase, held, part, page, seen, mark, due, odd, copies, success>>
  PROVE  Kept'
<1>1. DueListed' /\ NoMarks' /\ NotYet' /\ NothingLost'
  BY Fixed DEF Kept, DueListed, NoMarks, NotYet, NothingLost, Listed, Among
<1>2. PassedStored' /\ ReadAll'
  BY Fixed DEF Kept, PassedStored, ReadAll, Reached
<1>3. Reading'
  <2>1. Behind' <=> Behind
    BY Fixed DEF Behind
  <2>2. (\A i : Place(i)' = Place(i)) /\ Before' = Before
    BY InPartStays DEF Place, Before, ServiceOrigin
  <2>3. Coming' <=> Coming
    BY <2>2, Fixed, InPartStays DEF Coming
  <2> QED
    BY <2>1, <2>3 DEF Kept, Reading
<1> QED
  BY <1>1, <1>2, <1>3 DEF Kept

(* A step after the load, or one that ends the run before it.              *)
LEMMA OverAndKept ==
  ASSUME Kept, UNCHANGED <<c, held, mark, due>>, phase' \notin {"source", "fetch", "load"},
         NothingLost'
  PROVE  Kept'
<1>1. DueListed'
  BY Fixed DEF Kept, DueListed, Listed, Among
<1> QED
  BY <1>1 DEF Kept, NoMarks, NotYet, PassedStored, Reading, ReadAll

LEMMA StartKeeps ==
  ASSUME SourceTypeOK, Kept, Start PROVE Kept'
<1>1. Begin({r \in Rows : copies[r] > 0}) /\ ~success' /\ phase' = "source"
      /\ UNCHANGED <<c, held, mark, copies>>
  BY DEF Start, Begin
<1>2. due' = {r \in Listed : AskedFor(r) /\ (Passed(r) => r \in {q \in Rows : copies[q] > 0})}
  BY <1>1 DEF Begin
<1>3. DueListed'
  BY <1>1, <1>2, Fixed DEF DueListed, Listed, Among
<1>4. PassedStored'
  BY <1>1, <1>2, Fixed DEF PassedStored
<1> QED
  BY <1>1, <1>3, <1>4 DEF Kept, NoMarks, NotYet, NothingLost, Reading, ReadAll

LEMMA RaiseKeeps ==
  ASSUME Kept, Raise, ~success, UNCHANGED success PROVE Kept'
BY OverAndKept DEF Raise, NothingLost

LEMMA DueIsListed ==
  ASSUME SourceTypeOK, DueListed, NEW r \in due
  PROVE  r \in Rows /\ \E i \in 1..Len(held) : held[i] = r
BY DEF SourceTypeOK, DueListed, Listed, Among

(* At its first page, a whole part is still to come.                       *)
LEMMA FirstPage ==
  ASSUME SourceTypeOK, SourceTypeOK', c' = c, page' = Origin PROVE Coming'
<1>2. Before' = 0
  BY ExtractAssumption DEF Before, Origin, ServiceOrigin
<1>3. c.kind = "rest" => page' < c.pages
  BY ExtractAssumption DEF SourceTypeOK, Origin
<1>4. ASSUME NEW i \in 1..Len(held'), InPart(held[i], part)' PROVE Place(i)' > 0
  <2> DEFINE S == {j \in 1..i : InPart(held[j], part)'}
  <2>1. i \in Nat /\ S \in SUBSET (1..i) /\ i \in S
    BY <1>4 DEF SourceTypeOK
  <2>2. Place(i)' = Cardinality(S)
    BY DEF Place
  <2> HIDE DEF S
  <2> QED
    BY <2>1, <2>2, Counted
<1> QED
  BY <1>2, <1>3, <1>4 DEF Coming

LEMMA BuildKeeps ==
  ASSUME SourceTypeOK, SourceTypeOK', Kept, Build, UNCHANGED <<copies, success>> PROVE Kept'
<1>1. phase = "source" /\ phase' = "fetch" /\ part' = 1 /\ page' = Origin
      /\ UNCHANGED <<c, held, mark, due, odd>>
  BY DEF Build
<1>2. Behind' /\ Coming'
  BY <1>1, FirstPage DEF Behind
<1>3. DueListed' /\ PassedStored'
  BY <1>1, Fixed DEF Kept, DueListed, Listed, Among, PassedStored
<1> QED
  BY <1>1, <1>2, <1>3 DEF Kept, NoMarks, NotYet, Reading, ReadAll, NothingLost

(* A step of the reading keeps what the reading itself keeps.         *)
LEMMA FetchKeeps ==
  ASSUME Kept, phase = "fetch", phase' = "fetch",
         UNCHANGED <<c, held, mark, due, copies, success>>, Reading'
  PROVE  Kept'
<1>1. DueListed' /\ PassedStored'
  BY Fixed DEF Kept, DueListed, Listed, Among, PassedStored
<1> QED
  BY <1>1 DEF Kept, NoMarks, NotYet, ReadAll, NothingLost

(* A page is taken: what it held has been read, and if it was the last, the*)
(* part is behind the run.                                                 *)
LEMMA AnswerKeeps ==
  ASSUME SourceTypeOK, SourceTypeOK', Kept, Answer, UNCHANGED <<copies, success>> PROVE Kept'
<1>1. Take(Page, TotalPages) /\ Asking /\ phase = "fetch" /\ c.kind # "sql" /\ part <= Parts
  BY DEF Answer, Asking
<1>2. phase' = "fetch" /\ UNCHANGED <<c, held, mark, due>>
  BY <1>1 DEF Take
<1>3. part # 0 /\ part' # 0 /\ part \in Nat /\ page \in Nat /\ c \in Configs
  BY <1>1 DEF Kept, Reading, Take, SourceTypeOK
<1>4. ASSUME ~odd' PROVE Behind' /\ Coming'
  <2>1. ~odd /\ ~(c.kind = "rest" /\ page + 1 = c.pages /\ c.pages < TotalPages)
    BY <1>4 DEF Answer
  <2>2. Behind /\ Coming /\ DueListed
    BY <1>1, <2>1 DEF Kept, Reading
  <2>3. \A r \in Rows : seen'[r] = More(r, r \in Page.rows)
    BY <1>1 DEF Take
  <2>4. \A r \in Rows : seen[r] > 0 \/ r \in Page.rows => seen'[r] > 0
    BY <2>3, SeenGrows
  <2>5. \A r \in due : r \in Rows /\ \E i \in 1..Len(held) : held[i] = r
    BY <2>2, DueIsListed
  <2>6. \A i \in 1..Len(held) :
          held[i] \in due /\ InPart(held[i], part)
            => seen'[held[i]] > 0 \/ Place(i) > Before + Size
    BY <1>1, <2>2, <2>4, <2>5, OnPage DEF Coming
  <2>7. CASE Stops(Page, TotalPages)
    <3>1. part' = part + 1 /\ page' = Origin
      BY <1>1, <2>7 DEF Take
    <3>2. Total <= Before + Size
      BY <1>1, <2>1, <2>2, <2>7, EndOfPart DEF Coming
    <3>3. ASSUME NEW i \in 1..Len(held) PROVE Place(i) \in Nat /\ Place(i) <= Total
      <4>1. i \in Nat /\ Len(held) \in Nat /\ i <= Len(held)
        BY DEF SourceTypeOK
      <4> QED
        BY <4>1, PlaceType, PlaceGrows DEF Total
    <3>4. Total \in Nat /\ Before + Size \in Int
      <4>1. Len(held) \in Nat
        BY DEF SourceTypeOK
      <4>2. Total \in Nat
        BY <4>1, PlaceType DEF Total
      <4> QED
        BY <1>3, <4>2, ExtractAssumption DEF Before, ServiceOrigin
    <3>5. ASSUME NEW r \in due, InPart(r, part) PROVE seen'[r] > 0
      <4>1. PICK i \in 1..Len(held) : held[i] = r
        BY <2>5
      <4>2. ~(Place(i) > Before + Size)
        BY <3>2, <3>3, <3>4
      <4> QED
        BY <2>6, <3>5, <4>1, <4>2
    <3>6. Behind'
      <4> SUFFICES ASSUME NEW r \in due, NEW i \in 1..Parts, i < part + 1, Covers(r, i),
                          ~Passed(r)
                   PROVE  seen'[r] > 0
        BY <1>2, <3>1, Fixed DEF Behind
      <4>1. CASE i = part
        BY <1>1, <3>5, <4>1 DEF Covers
      <4>2. CASE i # part
        <5>1. i < part
          BY <1>3, <4>2
        <5>2. seen[r] > 0
          BY <2>2, <5>1 DEF Behind
        <5> QED
          BY <2>4, <2>5, <5>2
      <4> QED
        BY <4>1, <4>2
    <3>7. Coming'
      BY <1>2, <3>1, FirstPage
    <3> QED
      BY <3>6, <3>7
  <2>8. CASE ~Stops(Page, TotalPages)
    <3>1. part' = part /\ page' = page + 1
      BY <1>1, <2>8 DEF Take, NextPage
    <3>2. Behind'
      BY <1>2, <2>2, <2>4, <2>5, <3>1, Fixed DEF Behind
    <3>3. Before' = Before + Size
      <4>1. ServiceOrigin' = ServiceOrigin /\ ServiceOrigin \in Int /\ Size \in Nat
        BY <1>2, ExtractAssumption DEF ServiceOrigin
      <4>2. ((page + 1) - ServiceOrigin) * Size = (page - ServiceOrigin) * Size + Size
        BY <1>3, <4>1, NextPages
      <4> QED
        BY <3>1, <4>1, <4>2, Zenon DEF Before
    <3>4. \A i : Place(i)' = Place(i) /\ \A q : InPart(q, i)' = InPart(q, i)
      BY <1>2, <3>1, InPartStays DEF Place
    <3>5. c.kind = "rest" => page + 1 < c.pages
      <4>1. c.pages \in Nat
        BY <1>3, ExtractAssumption
      <4> QED
        BY <1>3, <2>8, <4>1 DEF Stops, LastOfRest
    <3> QED
      BY <1>2, <2>6, <3>1, <3>2, <3>3, <3>4, <3>5 DEF Coming
  <2> QED
    BY <2>7, <2>8
<1> QED
  BY <1>1, <1>2, <1>3, <1>4, FetchKeeps DEF Reading

LEMMA OddAnswerKeeps ==
  ASSUME SourceTypeOK, Kept, OddAnswer, UNCHANGED <<copies, success>> PROVE Kept'
<1>1. phase = "fetch" /\ phase' = "fetch" /\ odd' /\ UNCHANGED <<c, held, mark, due>>
  BY DEF OddAnswer, Asking, Take
<1>2. part # 0 /\ part \in Nat /\ part' \in {part, part + 1}
  BY <1>1 DEF OddAnswer, Take, Kept, Reading, SourceTypeOK
<1> QED
  BY <1>1, <1>2, FetchKeeps DEF Reading

LEMMA QueryKeeps ==
  ASSUME SourceTypeOK, Kept, Query, UNCHANGED <<copies, success>> PROVE Kept'
<1>1. /\ phase = "fetch" /\ phase' = "fetch" /\ c.kind = "sql" /\ part' = part + 1
      /\ part <= Parts
      /\ UNCHANGED <<c, held, mark, due, odd>>
  BY DEF Query
<1>2. part # 0 /\ part \in Nat /\ (~odd => Behind) /\ DueListed /\ NoMarks
  BY <1>1 DEF Kept, Reading, SourceTypeOK
<1>3. ASSUME ~odd, NEW r \in due, NEW i \in 1..Parts, i < part + 1, Covers(r, i), ~Passed(r)
      PROVE  seen'[r] > 0
  <2>1. r \in Rows /\ r \in Listed
    BY <1>2, DueIsListed DEF DueListed
  <2>2. CASE i = part
    BY <1>2, <1>3, <2>1, <2>2, QueryReads
  <2>3. CASE i # part
    <3>1. seen[r] > 0
      BY <1>2, <1>3, <2>3 DEF Behind
    <3>2. PICK b : seen'[r] = More(r, b)
      BY <2>1 DEF Query
    <3> QED
      BY <2>1, <3>1, <3>2, SeenGrows
  <2> QED
    BY <2>2, <2>3
<1>4. ~odd' => Behind' /\ Coming'
  BY <1>1, <1>3, Fixed DEF Behind, Coming
<1> QED
  BY <1>1, <1>2, <1>4, FetchKeeps DEF Reading

(* The source is read to its end: every row that the run is to load is     *)
(* among those read, or was loaded before the cursor passed it.            *)
LEMMA ExtractedKeeps ==
  ASSUME SourceTypeOK, Kept, Extracted, UNCHANGED <<copies, success>> PROVE Kept'
<1>1. /\ phase = "fetch" /\ phase' = "load" /\ part > Parts /\ part' = 1
      /\ UNCHANGED <<c, seen, held, due, odd>>
  BY DEF Extracted
<1>2. DueListed' /\ NotYet' /\ NothingLost'
  BY <1>1, Fixed DEF Kept, DueListed, Listed, Among, NotYet, NothingLost
<1>3. NoMarks'
  <2> SUFFICES ASSUME c.write = "replace", NEW t \in Tables PROVE mark'[t] = -1
    BY <1>1 DEF NoMarks
  <2>1. Values(t) = {-1}
    BY DEF Values, Incremental, Kept, NoMarks
  <2> QED
    BY <2>1 DEF Extracted, Highest
<1>4. ASSUME ~odd, NEW r \in due PROVE Reached(r)
  <2>1. r \in Rows /\ AskedFor(r) /\ c \in Configs
    BY DEF Kept, DueListed, SourceTypeOK
  <2>2. CASE Passed(r)
    <3>1. c.write # "replace"
      BY <2>2 DEF Passed, Incremental
    <3>2. copies[r] > 0
      BY <1>1, <2>2 DEF Kept, PassedStored
    <3> QED
      BY <3>1, <3>2 DEF Reached
  <2>3. CASE ~Passed(r)
    <3>1. PICK i \in 1..Parts : Covers(r, i)
      BY <2>1, PartsCover
    <3>2. i < part
      <4>1. Parts \in Int /\ part \in Nat
        BY <2>1, PartsType DEF SourceTypeOK
      <4> QED
        BY <1>1, <4>1
    <3>3. Behind
      BY <1>1, <1>4 DEF Kept, Reading
    <3> QED
      BY <2>3, <3>1, <3>2, <3>3 DEF Behind, Reached
  <2> QED
    BY <2>2, <2>3
<1>5. ReadAll'
  BY <1>1, <1>4 DEF ReadAll, Reached
<1> QED
  BY <1>1, <1>2, <1>3, <1>5 DEF Kept, PassedStored, Reading

LEMMA ReadKeeps ==
  ASSUME SourceTypeOK, SourceTypeOK', Kept, Extracting PROVE Kept'
<1>1. UNCHANGED <<copies, success>>
  BY DEF Extracting, judging
<1>2. phase \in {"source", "fetch"} => ~success
  BY DEF Kept, NotYet
<1>3. CASE Build
  BY <1>1, <1>3, BuildKeeps
<1>4. CASE BuildFails \/ RequestFails \/ QueryFails
  BY <1>1, <1>2, <1>4, RaiseKeeps DEF BuildFails, NoFile, NoColumn, NoToken, NoDestination,
     RequestFails, QueryFails, Asking
<1>5. CASE Answer
  BY <1>1, <1>5, AnswerKeeps
<1>6. CASE OddAnswer
  BY <1>1, <1>6, OddAnswerKeeps
<1>7. CASE Retry
  BY <1>1, <1>7, StillKept DEF Retry
<1>8. CASE Query
  BY <1>1, <1>8, QueryKeeps
<1>9. CASE Extracted
  BY <1>1, <1>9, ExtractedKeeps
<1> QED
  BY <1>3, <1>4, <1>5, <1>6, <1>7, <1>8, <1>9 DEF Extracting, Read

-----------------------------------------------------------------------------
(* A load stores what was read, and what was there before stays unless the *)
(* table is replaced.                                                      *)
LEMMA LoadKeeps ==
  ASSUME TypeOK, Kept, Load PROVE Kept'
<1>1. phase = "load" /\ phase' = "count" /\ Store(Ahead)
      /\ UNCHANGED <<c, held, mark, due, odd, seen>>
  BY DEF Load, Goes, Keeps, source
<1>2. ASSUME ~odd, NEW r \in due PROVE copies'[r] > 0
  <2>1. Reached(r)
    BY <1>1, <1>2 DEF Kept, ReadAll
  <2>2. r \in Rows /\ seen[r] \in Nat /\ copies[r] \in Nat
        /\ c.write \in {"replace", "append", "merge"}
    <3>1. seen[r] \in 0..2 /\ copies[r] \in Nat /\ c \in Configs /\ r \in Rows
      BY DEF TypeOK, SourceTypeOK
    <3> QED
      BY <3>1, VerdictAssumption
  <2>3. CASE Table(r) \in Ahead
    <3>1. copies'[r] = Copies(r)
      BY <1>1, <2>2, <2>3 DEF Store
    <3> QED
      BY <2>1, <2>2, <3>1 DEF Copies, Reached
  <2>4. CASE Table(r) \notin Ahead
    <3>1. ~(seen[r] > 0)
      BY <2>2, <2>4 DEF Ahead, Fetched
    <3>2. copies'[r] = copies[r]
      BY <1>1, <2>2, <2>4 DEF Store
    <3> QED
      BY <2>1, <3>1, <3>2 DEF Reached
  <2> QED
    BY <2>3, <2>4
<1>3. NothingLost'
  BY <1>1, <1>2 DEF NothingLost
<1> QED
  BY <1>1, <1>3, OverAndKept

(* The second attempt begins its reading anew, and is not to load the rows *)
(* that the cursor passed in the first unless they are there.              *)
LEMMA LoadAgainKeeps ==
  ASSUME SourceTypeOK, SourceTypeOK', Kept, LoadAgain PROVE Kept'
<1>1. /\ phase = "load" /\ phase' = "fetch" /\ page' = Origin /\ part' = 1
      /\ due' = {r \in due : Passed(r) => copies'[r] > 0}
      /\ UNCHANGED <<c, held, mark, success>>
  BY DEF LoadAgain, Goes, Kept, ReadAll
<1>2. ~success
  BY <1>1 DEF Kept, NotYet
<1>3. DueListed'
  BY <1>1, Fixed DEF Kept, DueListed, Listed, Among
<1>4. PassedStored'
  BY <1>1, Fixed DEF PassedStored
<1>5. Behind' /\ Coming'
  BY <1>1, FirstPage DEF Behind
<1> QED
  BY <1>1, <1>2, <1>3, <1>4, <1>5 DEF Kept, NoMarks, NotYet, Reading, ReadAll, NothingLost

(* A row that appears pushes the others towards the pages to come.         *)
LEMMA AppearKeeps ==
  ASSUME SourceTypeOK, Kept, NEW r \in Rows, Appear(r), UNCHANGED <<copies, success>>
  PROVE  Kept'
<1>1. /\ UNCHANGED <<c, phase, part, page, seen, mark, due, odd>>
      /\ r \notin Listed /\ held' \in {<<r>> \o held, Append(held, r)}
  BY DEF Appear, Change
<1>2. held \in Seq(Rows)
  BY DEF SourceTypeOK
<1>3. Listed \subseteq Listed'
  <2> SUFFICES ASSUME NEW i \in 1..Len(held) PROVE \E k \in 1..Len(held') : held'[k] = held[i]
    BY DEF Listed, Among
  <2>1. CASE held' = <<r>> \o held
    <3>1. i + 1 \in 1..Len(held') /\ held'[i + 1] = held[i]
      BY <1>2, <2>1
    <3> QED
      BY <3>1
  <2>2. CASE held' = Append(held, r)
    <3>1. i \in 1..Len(held') /\ held'[i] = held[i]
      BY <1>2, <2>2
    <3> QED
      BY <3>1
  <2> QED
    BY <1>1, <2>1, <2>2
<1>4. DueListed'
  BY <1>1, <1>3, Fixed DEF Kept, DueListed
<1>5. Coming => Coming'
  <2> SUFFICES ASSUME Coming, c.kind # "sql", part <= Parts, NEW k \in 1..Len(held'),
                      held'[k] \in due, InPart(held'[k], part)
               PROVE  seen[held'[k]] > 0 \/ Place(k)' > Before
    BY <1>1, Fixed, InPartStays DEF Coming, Before, ServiceOrigin
  <2>1. held'[k] # r
    BY <1>1 DEF Kept, DueListed
  <2>2. PICK i \in 1..Len(held) : /\ held'[k] = held[i] /\ Place(i) <= Place(k)'
                                  /\ Place(i) \in Nat /\ Place(k)' \in Nat
    BY <2>1, ListGrows
  <2>3. seen[held[i]] > 0 \/ Place(i) > Before
    BY <2>2 DEF Coming
  <2>4. Before \in Int
    BY ExtractAssumption DEF SourceTypeOK, Before, ServiceOrigin
  <2> QED
    BY <2>2, <2>3, <2>4
<1>6. Reading'
  BY <1>1, <1>5, Fixed DEF Kept, Reading, Behind
<1>7. NoMarks' /\ NotYet' /\ PassedStored' /\ ReadAll' /\ NothingLost'
  BY <1>1, Fixed DEF Kept, NoMarks, NotYet, PassedStored, ReadAll, Reached, NothingLost
<1> QED
  BY <1>4, <1>6, <1>7 DEF Kept

LEMMA VanishKeeps ==
  ASSUME SourceTypeOK, Kept, NEW i \in 1..Len(held), Vanish(i), UNCHANGED <<copies, success>>
  PROVE  Kept'
<1>1. /\ UNCHANGED <<c, phase, part, page, seen, mark>>
      /\ held' = SubSeq(held, 1, i - 1) \o SubSeq(held, i + 1, Len(held))
      /\ due' = due \ {held[i]}
      /\ odd' = (odd \/ (phase = "fetch" /\ c.kind # "sql"))
  BY DEF Vanish, Change
<1>2. held \in Seq(Rows)
  BY DEF SourceTypeOK
<1>3. Listed \ {held[i]} \subseteq Listed'
  <2> SUFFICES ASSUME NEW k \in 1..Len(held), k # i PROVE \E n \in 1..Len(held') : held'[n] = held[k]
    BY DEF Listed, Among
  <2> DEFINE front == SubSeq(held, 1, i - 1)
             back == SubSeq(held, i + 1, Len(held))
  <2>1. front \in Seq(Rows) /\ Len(front) = i - 1 /\ \A n \in 1..i - 1 : front[n] = held[n]
    BY <1>2
  <2>2. back \in Seq(Rows) /\ Len(back) = Len(held) - i
        /\ \A n \in 1..Len(held) - i : back[n] = held[i + n]
    BY <1>2
  <2>3. held' = front \o back
    BY <1>1
  <2> HIDE DEF front, back
  <2>4. CASE k < i
    <3>1. k \in 1..Len(held') /\ held'[k] = front[k]
      BY <2>1, <2>2, <2>3, <2>4
    <3> QED
      BY <2>1, <2>4, <3>1
  <2>5. CASE k > i
    <3>1. k - 1 \in 1..Len(held') /\ held'[k - 1] = back[k - i]
      BY <1>2, <2>1, <2>2, <2>3, <2>5
    <3>2. back[k - i] = held[k]
      BY <1>2, <2>2, <2>5
    <3> QED
      BY <3>1, <3>2
  <2> QED
    BY <1>2, <2>4, <2>5
<1>4. DueListed'
  BY <1>1, <1>3, Fixed DEF Kept, DueListed
<1>5. Reading'
  BY <1>1, Fixed DEF Kept, Reading, Behind, Coming
<1>6. NoMarks' /\ NotYet' /\ PassedStored' /\ ReadAll' /\ NothingLost'
  BY <1>1, Fixed DEF Kept, NoMarks, NotYet, PassedStored, ReadAll, Reached, NothingLost
<1> QED
  BY <1>4, <1>5, <1>6 DEF Kept

(* A load that succeeded brought every row that the run was to load, for   *)
(* any source, however its rows are spread over days, types, tables and    *)
(* pages, and whichever rows appear while it is read.                      *)
THEOREM NoRowLost == Spec => []NothingLost
<1>1. Init => Kept
  BY DEF Init, SourceInit, Kept, DueListed, NoMarks, NotYet, PassedStored, Reading, ReadAll,
     NothingLost
<1>2. TypeOK /\ TypeOK' /\ Kept /\ [Next]_vars => Kept'
  <2> SUFFICES ASSUME TypeOK, TypeOK', Kept, [Next]_vars PROVE Kept'
    OBVIOUS
  <2>0. SourceTypeOK /\ SourceTypeOK'
    BY DEF TypeOK
  <2>1. CASE Start
    BY <2>0, <2>1, StartKeeps
  <2>2. CASE Extracting
    BY <2>0, <2>2, ReadKeeps
  <2>3. CASE Load
    BY <2>3, LoadKeeps
  <2>4. CASE LoadFailsJobs
    <3>1. /\ phase = "load" /\ phase' = "notify"
          /\ UNCHANGED <<c, held, mark, due, success>>
      BY <2>4 DEF LoadFailsJobs, Goes, Keeps, source
    <3> QED
      BY <3>1, OverAndKept DEF Kept, NotYet, NothingLost
  <2>5. CASE LoadRaises
    <3>1. phase = "load" /\ Raise /\ UNCHANGED success
      BY <2>5 DEF LoadRaises
    <3> QED
      BY <3>1, RaiseKeeps DEF Kept, NotYet
  <2>6. CASE LoadAgain
    BY <2>0, <2>6, LoadAgainKeeps
  <2>7. CASE Count \/ Check \/ Notify
    <3>1. /\ phase' \in {"check", "notify", "record"}
          /\ UNCHANGED <<c, held, mark, due, odd, copies, success>>
      BY <2>7 DEF Count, Check, Notify, Goes, Keeps, source
    <3> QED
      BY <3>1, OverAndKept DEF Kept, NothingLost
  <2>8. CASE CheckRaises \/ HistoryFails \/ Record
    <3>1. /\ phase' \in {"raised", "idle"}
          /\ UNCHANGED <<c, held, mark, due, odd, copies, success>>
      BY <2>8 DEF CheckRaises, HistoryFails, Raise, Record, judging
    <3> QED
      BY <3>1, OverAndKept DEF Kept, NothingLost
  <2>9. CASE ReadStats \/ ShowStats \/ UNCHANGED vars
    BY <2>9, StillKept DEF ReadStats, ShowStats, vars, source, judging
  <2>10. CASE Changing
    BY <2>0, <2>10, AppearKeeps, VanishKeeps DEF Changing, judging
  <2> QED
    BY <2>1, <2>2, <2>3, <2>4, <2>5, <2>6, <2>7, <2>8, <2>9, <2>10 DEF Next, Run
<1>3. Kept => NothingLost
  BY DEF Kept
<1> QED
  BY <1>1, <1>2, <1>3, TypeCorrect, PTL DEF Spec
-----------------------------------------------------------------------------
(* A run that is recorded is over, and the history calls it good only if   *)
(* its load succeeded.                                                     *)
GoodSucceeded ==
  /\ phase # "idle" => ~recorded
  /\ phase = "idle" /\ recorded /\ history[Len(history)] = "good" => success

LEMMA GoodStays ==
  ASSUME GoodSucceeded, UNCHANGED <<phase, recorded, history, success>> PROVE GoodSucceeded'
BY DEF GoodSucceeded

LEMMA UnderWay ==
  ASSUME phase' # "idle", ~recorded' PROVE GoodSucceeded'
BY DEF GoodSucceeded

LEMMA RecordSucceeded ==
  ASSUME TypeOK, GoodSucceeded, Record PROVE GoodSucceeded'
<1>1. phase' = "idle" /\ phase \in {"record", "raised"} /\ ~recorded /\ success' = success
  BY DEF Record, GoodSucceeded
<1>2. ASSUME recorded', history'[Len(history')] = "good" PROVE success
  <2>1. history' = Append(history, Outcome) /\ history \in Seq(Verdicts)
    BY <1>1, <1>2 DEF Record, TypeOK
  <2>2. Outcome = "good"
    BY <1>2, <2>1
  <2> QED
    BY <1>1, <2>2 DEF Outcome, Telling, Good
<1> QED
  BY <1>1, <1>2 DEF GoodSucceeded

(* Every row a good run was asked for is at the destination, whatever the  *)
(* source, the retry and the failures on the way.                          *)
THEOREM GreenIsLoaded == Spec => []GreenMeansLoaded
<1>1. Init => GoodSucceeded
  BY DEF Init, SourceInit, GoodSucceeded
<1>2. TypeOK /\ GoodSucceeded /\ [Next]_vars => GoodSucceeded'
  <2> SUFFICES ASSUME TypeOK, GoodSucceeded, [Next]_vars PROVE GoodSucceeded'
    OBVIOUS
  <2>0. SourceTypeOK /\ (phase # "idle" => ~recorded)
    BY DEF TypeOK, GoodSucceeded
  <2>1. CASE Start
    <3>1. phase' = "source" /\ ~recorded'
      BY <2>0, <2>1, BeginTypes DEF Start
    <3> QED
      BY <3>1, UnderWay
  <2>2. CASE Extracting
    <3>1. phase' \in {"fetch", "load", "raised"} /\ phase \in {"source", "fetch"}
      BY <2>0, <2>2, ReadTypes
         DEF Extracting, Read, Build, BuildFails, NoFile, NoColumn, NoToken, NoDestination,
             Answer, OddAnswer, Retry, RequestFails, Query, QueryFails, Extracted, Asking
    <3> QED
      BY <2>0, <2>2, <3>1, UnderWay DEF Extracting, judging
  <2>3. CASE Load \/ LoadFailsJobs \/ Count \/ Check \/ Notify
    <3>1. phase # "idle" /\ phase' # "idle" /\ recorded' = recorded
      BY <2>3 DEF Load, LoadFailsJobs, Count, Check, Notify, Goes, Keeps
    <3> QED
      BY <2>0, <3>1, UnderWay
  <2>4. CASE LoadRaises \/ LoadAgain \/ CheckRaises \/ HistoryFails
    <3>1. phase # "idle" /\ phase' # "idle" /\ recorded' = recorded
      BY <2>4 DEF LoadRaises, LoadAgain, CheckRaises, HistoryFails, Raise, Goes, judging
    <3> QED
      BY <2>0, <3>1, UnderWay
  <2>5. CASE Record
    BY <2>5, RecordSucceeded
  <2>6. CASE ReadStats \/ ShowStats \/ UNCHANGED vars
    BY <2>6, GoodStays DEF ReadStats, ShowStats, vars, judging
  <2>7. CASE Changing
    BY <2>0, <2>7, GoodStays, ChangingTypes DEF Changing, judging
  <2> QED
    BY <2>1, <2>2, <2>3, <2>4, <2>5, <2>6, <2>7 DEF Next, Run
<1>3. GoodSucceeded /\ NothingLost => GreenMeansLoaded
  BY DEF GoodSucceeded, NothingLost, GreenMeansLoaded
<1> QED
  BY <1>1, <1>2, <1>3, TypeCorrect, NoRowLost, PTL DEF Spec
-----------------------------------------------------------------------------
(* What a message rests on, from its sending to the next run.              *)
Vouched ==
  /\ phase \in {"source", "fetch", "load", "count", "check", "notify"} => message = "none"
  /\ message \in {"good", "warn"} => success
  /\ message = "good" /\ Judges => AllClean
  /\ phase = "record" /\ message \in Verdicts => message = Telling
  /\ phase = "idle" /\ recorded /\ message \in Verdicts => history[Len(history)] \in {message, "bad"}

LEMMA NothingTold ==
  ASSUME phase' # "idle", message' = "none" PROVE Vouched'
BY DEF Vouched, Verdicts

LEMMA StillVouched ==
  ASSUME Vouched,
         UNCHANGED <<c, phase, success, failed, recorded, history, loaded, uncounted, copies,
                     message>>
  PROVE  Vouched'
<1>1. (AllClean' <=> AllClean) /\ (Judges' <=> Judges) /\ Telling' = Telling
  BY CleanStays DEF Telling, Good, Judges
<1> QED
  BY <1>1 DEF Vouched

LEMMA NotifyVouched ==
  ASSUME Grounds, Vouched, Notify PROVE Vouched'
<1>1. /\ UNCHANGED <<c, success, failed, loaded, uncounted, copies>>
      /\ phase = "notify" /\ phase' = "record"
  BY DEF Notify, Goes, Keeps, source
<1>2. (AllClean' <=> AllClean) /\ (Judges' <=> Judges) /\ Telling' = Telling
  BY <1>1, CleanStays DEF Telling, Good, Judges
<1>3. message' = Telling \/ message' \in {"lost", "none"}
  BY DEF Notify
<1>4. ASSUME message' = "good", Judges' PROVE AllClean'
  <2>1. Good
    BY <1>3, <1>4 DEF Telling
  <2> QED
    BY <1>1, <1>2, <1>4, <2>1 DEF Grounds
<1>5. message' \in {"good", "warn"} => success'
  BY <1>1, <1>3 DEF Telling, Good
<1>6. message' \in Verdicts => message' = Telling'
  BY <1>2, <1>3 DEF Verdicts
<1> QED
  BY <1>1, <1>4, <1>5, <1>6 DEF Vouched

LEMMA RecordVouched ==
  ASSUME TypeOK, Grounds, Vouched, Record PROVE Vouched'
<1>1. /\ UNCHANGED <<c, success, failed, loaded, uncounted, copies, message>>
      /\ phase \in {"record", "raised"} /\ phase' = "idle" /\ ~recorded
  BY DEF Record, Grounds
<1>2. (AllClean' <=> AllClean) /\ (Judges' <=> Judges)
  BY <1>1, CleanStays DEF Judges
<1>3. ASSUME recorded', message \in Verdicts PROVE history'[Len(history')] \in {message, "bad"}
  <2>1. history' = Append(history, Outcome) /\ history \in Seq(Verdicts)
    BY <1>1, <1>3 DEF Record, TypeOK
  <2>2. history'[Len(history')] = Outcome
    BY <2>1
  <2>3. Outcome \in {message, "bad"}
    BY <1>1, <1>3 DEF Outcome, Vouched
  <2> QED
    BY <2>2, <2>3
<1> QED
  BY <1>1, <1>2, <1>3 DEF Vouched

(* What a message says that came through is true of the destination and    *)
(* stays so until the next run, the runs that MessageIsTrue excepts apart; *)
(* the history is never kinder.                                            *)
THEOREM MessagesAreTrue == Spec => []MessageIsTrue
<1>1. Init => Vouched
  BY DEF Init, SourceInit, Vouched, Verdicts
<1>2. TypeOK /\ Grounds /\ Vouched /\ [Next]_vars => Vouched'
  <2> SUFFICES ASSUME TypeOK, Grounds, Vouched, [Next]_vars PROVE Vouched'
    OBVIOUS
  <2>0. SourceTypeOK
    BY DEF TypeOK
  <2>1. CASE Start
    <3>1. phase' = "source" /\ message' = "none"
      BY <2>0, <2>1, BeginTypes DEF Start
    <3> QED
      BY <3>1, NothingTold
  <2>2. CASE Extracting
    <3>1. phase' \in {"fetch", "load", "raised"} /\ phase \in {"source", "fetch"}
      BY <2>0, <2>2, ReadTypes
         DEF Extracting, Read, Build, BuildFails, NoFile, NoColumn, NoToken, NoDestination,
             Answer, OddAnswer, Retry, RequestFails, Query, QueryFails, Extracted, Asking
    <3>2. message' = "none"
      BY <2>2, <3>1 DEF Extracting, judging, Vouched
    <3> QED
      BY <3>1, <3>2, NothingTold
  <2>3. CASE Load \/ LoadFailsJobs \/ LoadRaises \/ LoadAgain
    <3>1. phase = "load" /\ phase' # "idle" /\ message' = message
      BY <2>3 DEF Load, LoadFailsJobs, LoadRaises, LoadAgain, Raise, Goes, Keeps
    <3> QED
      BY <3>1, NothingTold DEF Vouched
  <2>4. CASE Count \/ Check \/ CheckRaises
    <3>1. phase \in {"count", "check"} /\ phase' # "idle" /\ message' = message
      BY <2>4 DEF Count, Check, CheckRaises, Raise, Goes, Keeps, judging
    <3> QED
      BY <3>1, NothingTold DEF Vouched
  <2>5. CASE Notify
    BY <2>5, NotifyVouched
  <2>6. CASE HistoryFails
    <3>1. /\ UNCHANGED <<c, success, failed, loaded, uncounted, copies, message>>
          /\ phase' = "raised"
      BY <2>6 DEF HistoryFails, Raise, judging
    <3>2. (AllClean' <=> AllClean) /\ (Judges' <=> Judges)
      BY <3>1, CleanStays DEF Judges
    <3> QED
      BY <3>1, <3>2 DEF Vouched
  <2>7. CASE Record
    BY <2>7, RecordVouched
  <2>8. CASE ReadStats \/ ShowStats
    BY <2>8, StillVouched DEF ReadStats, ShowStats, source, judging
  <2>9. CASE Changing
    BY <2>0, <2>9, StillVouched, ChangingTypes DEF judging
  <2>10. CASE UNCHANGED vars
    BY <2>10, StillVouched DEF vars, source, judging
  <2> QED
    BY <2>1, <2>2, <2>3, <2>4, <2>5, <2>6, <2>7, <2>8, <2>9, <2>10 DEF Next, Run
<1>3. Vouched /\ NothingLost => MessageIsTrue
  BY DEF Vouched, NothingLost, MessageIsTrue, Judges, AllClean
<1> QED
  BY <1>1, <1>2, <1>3, TypeCorrect, GroundsHold, NoRowLost, PTL DEF Spec
-----------------------------------------------------------------------------
(***************************************************************************)
(* What RunsEnd rests on, for sources of any length: each step of a run    *)
(* takes it nearer to its end.                                             *)
(***************************************************************************)

\* How many stages are left at most; a run extracts and loads twice at most.
Stage ==
  CASE phase = "source" -> 10
    [] phase = "fetch"  -> IF again THEN 7 ELSE 9
    [] phase = "load"   -> IF again THEN 6 ELSE 8
    [] phase = "count"  -> 5
    [] phase = "check"  -> 4
    [] phase = "notify" -> 3
    [] phase = "record" -> 2
    [] phase = "raised" -> 1
    [] phase = "idle"   -> 0

(* Every step of a run brings it to a later stage; or, while it reads, to  *)
(* the next of its parts, to the next page of a list that goes on after    *)
(* the page before, or to the next of the attempts at one page.            *)
RunsMoveOn ==
  [][Run =>
       \/ Stage' < Stage
       \/ /\ phase = "fetch"
          /\ UNCHANGED <<phase, again, held>>
          /\ \/ part <= Parts /\ part' = part + 1
             \/ Before < Total /\ part' = part /\ page' = page + 1
             \/ tries + 1 < Attempts /\ tries' = tries + 1 /\ UNCHANGED <<part, page>>]_vars

(* A connector asks for one more page only if this one was not empty.      *)
LEMMA NotTheLast ==
  ASSUME SourceTypeOK, ~Stops(Page, TotalPages) PROVE Before < Total
<1>1. Total \in Nat /\ Before \in Int
  <2>1. page \in Nat /\ Len(held) \in Nat /\ Size \in Nat
    BY ExtractAssumption DEF SourceTypeOK
  <2>2. Total \in Nat
    BY <2>1, PlaceType DEF Total
  <2> QED
    BY <2>1, <2>2 DEF Before, ServiceOrigin
<1>2. Page.count # 0
  BY DEF Stops
<1> QED
  BY <1>1, <1>2 DEF Page

LEMMA ReadMovesOn ==
  ASSUME SourceTypeOK, Answer \/ OddAnswer \/ Retry \/ Query
  PROVE  /\ phase = "fetch" /\ UNCHANGED <<phase, held>>
         /\ \/ part <= Parts /\ part' = part + 1
            \/ Before < Total /\ part' = part /\ page' = page + 1
            \/ tries + 1 < Attempts /\ tries' = tries + 1 /\ UNCHANGED <<part, page>>
<1>1. CASE Answer
  <2>1. Take(Page, TotalPages) /\ Asking
    BY <1>1 DEF Answer
  <2>2. CASE Stops(Page, TotalPages)
    BY <2>1, <2>2 DEF Take, Asking
  <2>3. CASE ~Stops(Page, TotalPages)
    BY <2>1, <2>3, NotTheLast DEF Take, Asking, NextPage
  <2> QED
    BY <2>2, <2>3
<1>2. CASE OddAnswer
  <2>1. Asking /\ page \in Nat
    BY <1>2 DEF OddAnswer, SourceTypeOK
  <2>2. PICK answer, total :
          /\ Take(answer, total)
          /\ answer.count = 0 \/ (c.kind = "didox" /\ total = 1)
    BY <1>2 DEF OddAnswer, Shapeless, Unsaid
  <2>3. Stops(answer, total)
    BY <2>1, <2>2 DEF Stops, LastOfDidox
  <2> QED
    BY <2>1, <2>2, <2>3 DEF Take, Asking
<1>3. CASE Retry
  BY <1>3 DEF Retry, Asking
<1>4. CASE Query
  BY <1>4 DEF Query
<1> QED
  BY <1>1, <1>2, <1>3, <1>4

THEOREM RunsGoOn == Spec => RunsMoveOn
<1> DEFINE On ==
      Run =>
       \/ Stage' < Stage
       \/ /\ phase = "fetch"
          /\ UNCHANGED <<phase, again, held>>
          /\ \/ part <= Parts /\ part' = part + 1
             \/ Before < Total /\ part' = part /\ page' = page + 1
             \/ tries + 1 < Attempts /\ tries' = tries + 1 /\ UNCHANGED <<part, page>>
<1>1. TypeOK /\ [Next]_vars => [On]_vars
  <2> SUFFICES ASSUME TypeOK, Run PROVE On
    OBVIOUS
  <2>0. SourceTypeOK /\ again \in BOOLEAN
    BY DEF TypeOK
  <2>1. CASE Extracting
    <3>1. again' = again
      BY <2>1 DEF Extracting, judging
    <3>2. CASE Answer \/ OddAnswer \/ Retry \/ Query
      BY <2>0, <3>1, <3>2, ReadMovesOn
    <3>3. CASE Build
      BY <2>0, <3>1, <3>3 DEF Build, Stage
    <3>4. CASE BuildFails \/ RequestFails \/ QueryFails
      <4>1. phase \in {"source", "fetch"} /\ phase' = "raised"
        BY <3>4 DEF BuildFails, NoFile, NoColumn, NoToken, NoDestination, RequestFails,
           QueryFails, Asking, Raise
      <4> QED
        BY <2>0, <4>1 DEF Stage
    <3>5. CASE Extracted
      BY <2>0, <3>1, <3>5 DEF Extracted, Stage
    <3> QED
      BY <2>1, <3>2, <3>3, <3>4, <3>5 DEF Extracting, Read
  <2>2. CASE Load \/ LoadFailsJobs
    <3>1. phase = "load" /\ phase' \in {"count", "notify"}
      BY <2>2 DEF Load, LoadFailsJobs, Goes
    <3> QED
      BY <2>0, <3>1 DEF Stage
  <2>3. CASE LoadRaises \/ CheckRaises \/ HistoryFails
    <3>1. phase \in {"load", "check", "record"} /\ phase' = "raised"
      BY <2>3 DEF LoadRaises, CheckRaises, HistoryFails, Raise
    <3> QED
      BY <2>0, <3>1 DEF Stage
  <2>4. CASE LoadAgain
    BY <2>4 DEF LoadAgain, Goes, Stage
  <2>5. CASE Count \/ Check \/ Notify
    <3>1. \/ phase = "count" /\ phase' = "check"
          \/ phase = "check" /\ phase' = "notify"
          \/ phase = "notify" /\ phase' = "record"
      BY <2>5 DEF Count, Check, Notify, Goes
    <3> QED
      BY <3>1 DEF Stage
  <2>6. CASE Record
    BY <2>6 DEF Record, Stage
  <2> QED
    BY <2>1, <2>2, <2>3, <2>4, <2>5, <2>6 DEF Run
<1> QED
  BY <1>1, TypeCorrect, PTL DEF Spec, RunsMoveOn
=============================================================================
