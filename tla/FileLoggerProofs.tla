--------------------------- MODULE FileLoggerProofs ---------------------------
(***************************************************************************)
(* Theorems about FileLogger, for any number of goroutines and any limits. *)
(***************************************************************************)
EXTENDS FileLogger, FiniteSetTheorems, TLAPS

LEMMA NamesFacts == /\ Current \in Names
                    /\ Current \notin Rotated
                    /\ Rotated \subseteq Names
                    /\ Taken \subseteq Rotated
<1>1. 1 \in Dates /\ TakenNums \subseteq 1..MaxNum
  BY CalendarAssumption, NumAssumption DEF Dates
<1>2. Taken \subseteq Rotated
  BY <1>1 DEF Taken, Rotated
<1>3. Current \in Names /\ Current \notin Rotated /\ Rotated \subseteq Names
  BY DEF Names, Rotated, Current, Dates
<1> QED
  BY <1>2, <1>3

\* The three ways in which newFile replaces fileWriter.
Replaced(kept) == OpenFile(kept) \/ OpenUnstated \/ OpenUncounted

LEMMA OriginType == ASSUME TypeOK PROVE origin \in {"created", "found"}
  BY DEF TypeOK

\* What newFile does to the file it opens, and to nothing else on the disk.
LEMMA ReplacedFile ==
  ASSUME TypeOK, NEW kept \in {"created", "found"}, Replaced(kept)
  PROVE  /\ fd' = "current"
         /\ disk'[Current] = IF Exists(Current) THEN disk[Current] ELSE 0
         /\ \A n \in Names : n # Current => disk'[n] = disk[n]
         /\ disk' \in [Names -> Nat \cup {NoFile}]
         /\ mtime' \in [Names -> Dates]
         /\ mtime'[Current] = IF Exists(Current) THEN mtime[Current] ELSE today
         /\ began' = IF Exists(Current) THEN began ELSE today
         /\ began' \in Dates /\ origin' \in {"created", "found"}
<1>1. PICK k \in {"created", "found"} : ReplaceWriter(k)
  BY DEF Replaced, OpenFile, OpenUnstated, OpenUncounted, TypeOK
<1> QED
  BY <1>1, NamesFacts DEF ReplaceWriter, Length, TypeOK, Exists, NoFile

LEMMA LengthType == ASSUME TypeOK PROVE Length \in Nat
  BY NamesFacts DEF Length, TypeOK, Exists, NoFile

\* The counters that newFile leaves.
LEMMA ReplacedType ==
  ASSUME TypeOK, NEW kept \in {"created", "found"}, Replaced(kept)
  PROVE  /\ lines' \in Nat /\ bytes' \in Nat /\ openDate' \in Dates
         /\ opened' \in {"whole", "unstated", "uncounted"} /\ miscounted' \in Nat
  BY LengthType DEF Replaced, OpenFile, OpenUnstated, OpenUncounted, TypeOK, counters

LEMMA TypeInit == Init => TypeOK
  BY WritersAssumption, CalendarAssumption, NamesFacts
     DEF Init, TypeOK, Dates, NoFile

\* TypeStep: every step keeps the types, and the lock with one goroutine.
LEMMA TypeStep == TypeOK /\ [Next]_vars => TypeOK'
<1> SUFFICES ASSUME TypeOK, [Next]_vars PROVE TypeOK'
  OBVIOUS
<1> USE WritersAssumption, NamesFacts
<1>1. ASSUME NEW w \in Writers, LogWrite(w) PROVE TypeOK'
  BY <1>1 DEF LogWrite, TypeOK, fileVars, counters, history, diskVars, sweepVars, tally
<1>2. ASSUME NEW w \in Writers, Check(w) PROVE TypeOK'
  BY <1>2 DEF Check, TypeOK, Free, fileVars, counters, history, diskVars, sweepVars, tally
<1>3. ASSUME NEW w \in Writers, Recheck(w) PROVE TypeOK'
  BY <1>3 DEF Recheck, TypeOK, Free, fileVars, counters, history, diskVars, sweepVars, tally
<1>4. ASSUME NEW w \in Writers, RotateMissing(w) PROVE TypeOK'
  BY <1>4 DEF RotateMissing, MayRotate, TypeOK, Free, fileVars, counters, history, diskVars, sweepVars, tally
<1>5. ASSUME NEW w \in Writers, RotateNoNumber(w) PROVE TypeOK'
  BY <1>5 DEF RotateNoNumber, MayRotate, TypeOK, Free, fileVars, counters, history, diskVars, sweepVars, tally
<1>6. ASSUME NEW w \in Writers, RotateRename(w) PROVE TypeOK'
  BY <1>6, CalendarAssumption
     DEF RotateRename, MayRotate, TypeOK, Dates, Free, NoFile, counters, history, diskVars,
         sweepVars, tally
<1>7. ASSUME NEW w \in Writers, NewFile(w) PROVE TypeOK'
  <2>1. CASE Replaced(origin)
    <3>1. failed' \in Nat
      BY <1>7 DEF NewFile, TypeOK
    <3> QED
      BY <1>7, <2>1, <3>1, ReplacedFile, ReplacedType DEF NewFile, TypeOK, tally
  <2>2. CASE UNCHANGED <<fileVars, diskVars>>
    BY <1>7, <2>2 DEF NewFile, TypeOK, fileVars, counters, history, diskVars, tally
  <2> QED
    BY <1>7, <2>1, <2>2 DEF NewFile, Replaced
<1>8. ASSUME NEW w \in Writers, Write(w) PROVE TypeOK'
  BY <1>8, CalendarAssumption
     DEF Write, TypeOK, Dates, Free, NoFile, history, diskVars, sweepVars
<1>9. ASSUME NEW n \in Names, SeeOldLog(n) PROVE TypeOK'
  BY <1>9 DEF SeeOldLog, TypeOK, logVars, fileVars, counters, history, diskVars, tally
<1>10. ASSUME NEW n \in Names, RemoveOldLog(n) PROVE TypeOK'
  BY <1>10, CalendarAssumption
     DEF RemoveOldLog, TypeOK, Dates, Exists, NoFile, logVars, counters, history, diskVars
<1>11. CASE EndSweep
  BY <1>11 DEF EndSweep, TypeOK, logVars, fileVars, counters, history, diskVars, tally
<1>12. CASE Tick
  BY <1>12, CalendarAssumption
     DEF Tick, TypeOK, Dates, logVars, fileVars, counters, history, diskVars, sweepVars, tally
<1>13. CASE Restart
  <2>1. Replaced("found")
    BY <1>13 DEF Restart, Replaced
  <2> QED
    BY <1>13, <2>1, ReplacedFile, ReplacedType, CalendarAssumption
       DEF Restart, TypeOK, Dates, tally
<1>14. CASE UNCHANGED vars
  BY <1>14 DEF vars, TypeOK, logVars, fileVars, counters, history, diskVars, sweepVars, tally
<1> QED
  BY <1>1, <1>2, <1>3, <1>4, <1>5, <1>6, <1>7, <1>8, <1>9, <1>10, <1>11, <1>12,
     <1>13, <1>14 DEF Next, Advance

\* TypeCorrect: the types, and the lock (file.go:96-114).
THEOREM TypeCorrect == Spec => []TypeOK
  BY TypeInit, TypeStep, PTL DEF Spec

-----------------------------------------------------------------------------

LEMMA CounterStep ==
  TypeOK /\ CounterExact /\ [Next]_vars => CounterExact'
<1> SUFFICES ASSUME TypeOK, CounterExact, [Next]_vars PROVE CounterExact'
  OBVIOUS
<1> USE NamesFacts
<1> USE DEF CounterExact, Exists
<1>1. ASSUME NEW w \in Writers,
             LogWrite(w) \/ Check(w) \/ Recheck(w) \/ RotateMissing(w) \/ RotateNoNumber(w)
      PROVE  CounterExact'
  BY <1>1 DEF LogWrite, Check, Recheck, RotateMissing, RotateNoNumber, fileVars, counters,
              history, diskVars
<1>2. ASSUME NEW w \in Writers, RotateRename(w) PROVE CounterExact'
  <2>1. disk'[Current] \in {NoFile, disk[Current]}
    BY <1>2 DEF RotateRename, TypeOK, diskVars
  <2> QED
    BY <1>2, <2>1 DEF RotateRename, counters, history
<1>replaced. ASSUME NEW kept \in {"created", "found"}, Replaced(kept) PROVE CounterExact'
  <2>1. /\ fd' = "current" /\ disk'[Current] = Length /\ Length \in Nat
    BY <1>replaced, ReplacedFile, LengthType DEF Length
  <2>2. CASE OpenFile(kept)
    BY <2>1, <2>2 DEF OpenFile, NoFile
  <2>3. CASE OpenUnstated
    <3>1. Length <= bytes
      BY DEF Length, TypeOK
    <3> QED
      BY <2>1, <2>3, <3>1 DEF OpenUnstated, counters, NoFile
  <2>4. CASE OpenUncounted
    BY <2>1, <2>4 DEF OpenUncounted, NoFile
  <2> QED
    BY <1>replaced, <2>2, <2>3, <2>4 DEF Replaced
<1>3. ASSUME NEW w \in Writers, NewFile(w) PROVE CounterExact'
  <2>1. CASE UNCHANGED <<fileVars, diskVars>>
    BY <2>1 DEF fileVars, counters, history, diskVars
  <2> QED
    BY <1>3, <1>replaced, <2>1, OriginType DEF NewFile, Replaced
<1>4. ASSUME NEW w \in Writers, Write(w) PROVE CounterExact'
  <2>1. CASE fd = "current"
    <3>1. disk[Current] \in Nat /\ disk'[Current] = disk[Current] + 1 /\ fd' = fd
      BY <1>4, <2>1 DEF Write, TypeOK, NoFile
    <3>2. lines' = lines + 1 /\ bytes' = bytes + 1 /\ opened' = opened
      BY <1>4, <2>1 DEF Write, history
    <3> QED
      BY <2>1, <3>1, <3>2 DEF TypeOK, NoFile
  <2>2. CASE fd # "current"
    BY <1>4, <2>2 DEF Write, TypeOK, history, diskVars
  <2> QED
    BY <2>1, <2>2
<1>5. ASSUME NEW n \in Names, SeeOldLog(n) PROVE CounterExact'
  BY <1>5 DEF SeeOldLog, fileVars, counters, history, diskVars
<1>6. ASSUME NEW n \in Names, RemoveOldLog(n) PROVE CounterExact'
  BY <1>6 DEF RemoveOldLog, TypeOK, counters, history, diskVars
<1>7. CASE EndSweep \/ Tick \/ UNCHANGED vars
  BY <1>7 DEF EndSweep, Tick, vars, fileVars, counters, history, diskVars
<1>8. CASE Restart
  BY <1>8, <1>replaced DEF Restart, Replaced
<1> QED
  BY <1>1, <1>2, <1>3, <1>4, <1>5, <1>6, <1>7, <1>8 DEF Next, Advance

LEMMA CounterInit == Init => CounterExact
  BY NamesFacts DEF Init, CounterExact, Exists, NoFile

\* CounterCorrect: maxSizeCurSize never falls below the size of the file, and both
\* counters are exact as far as newFile went, whatever fails (file.go:111, 142-156).
THEOREM CounterCorrect == Spec => []CounterExact
  BY CounterInit, CounterStep, TypeCorrect, PTL DEF Spec

-----------------------------------------------------------------------------
\* The goroutines about to write, counted.

LEMMA WritingFacts ==
  /\ IsFiniteSet(Writing) /\ Cardinality(Writing) \in Nat
  /\ Cardinality(Writers) \in Nat
  /\ Cardinality(Writing) <= Cardinality(Writers)
  BY FS_Subset, FS_CardinalityType, WritersAssumption DEF Writing

LEMMA WritingJoins ==
  ASSUME NEW w \in Writers, TypeOK, pc[w] # "write", pc' = [pc EXCEPT ![w] = "write"]
  PROVE  /\ Cardinality(Writing') = Cardinality(Writing) + 1
         /\ Cardinality(Writing) + 1 <= Cardinality(Writers)
<1>1. Writing' = Writing \cup {w} /\ w \notin Writing /\ Writing' \subseteq Writers
  BY DEF Writing, TypeOK
<1>2. Cardinality(Writing') = Cardinality(Writing) + 1
  BY <1>1, WritingFacts, FS_AddElement
<1>3. Cardinality(Writing') <= Cardinality(Writers)
  BY <1>1, FS_Subset, WritersAssumption
<1> QED
  BY <1>2, <1>3

LEMMA WritingLeaves ==
  ASSUME NEW w \in Writers, TypeOK, pc[w] = "write", pc' = [pc EXCEPT ![w] = "idle"]
  PROVE  Cardinality(Writing') = Cardinality(Writing) - 1
<1>1. Writing' = Writing \ {w} /\ w \in Writing
  BY DEF Writing, TypeOK
<1> QED
  BY <1>1, WritingFacts, FS_RemoveElement

LEMMA WritingStays ==
  ASSUME NEW w \in Writers, TypeOK, pc[w] # "write", NEW p, p # "write",
         pc' = [pc EXCEPT ![w] = p]
  PROVE  Writing' = Writing
  BY DEF Writing, TypeOK

Within(limit) == \A n \in Names : disk[n] <= limit

\* A limit to which goroutines find room for their lines holds for every file; it grows
\* with every failure.  A goroutine that has failed to rotate, or has rotated, writes all
\* the same: the failure, or the room kept for it, pays for its line.
LEMMA LimitStep ==
  ASSUME TypeOK, CounterExact, [Next]_vars,
         NEW old \in Nat, Within(old), Pending(old), Cardinality(Writers) <= old,
         \A w \in Writers : ~NeedCreateFresh(w) /\ Exists(Current) =>
           disk[Current] + Cardinality(Writers) <= old,
         NEW new \in Nat, new >= old + (failed' - failed)
  PROVE  /\ \A n \in Names : disk'[n] <= new
         /\ disk'[Current] # NoFile =>
              disk'[Current] + Cardinality(Writing') + Rotating' <= new
<1> USE NamesFacts, WritersAssumption, WritingFacts
<1> DEFINE Files == \A n \in Names : disk'[n] <= new
           Room == disk'[Current] # NoFile =>
                     disk'[Current] + Cardinality(Writing') + Rotating' <= new
<1>old. /\ \A n \in Names : disk[n] <= old /\ disk[n] \in Nat \cup {-1}
        /\ disk[Current] # NoFile =>
             disk[Current] + Cardinality(Writing) + Rotating <= old
        /\ failed \in Nat /\ Rotating \in {0, 1}
  BY DEF Within, Pending, Exists, TypeOK, Rotating, NoFile
<1>same. ASSUME disk' = disk, failed' = failed PROVE Files
  BY <1>same, <1>old
<1>check. ASSUME NEW w \in Writers, pc[w] # "write", Free, ~NeedCreateFresh(w),
                 pc' = [pc EXCEPT ![w] = "write"], UNCHANGED <<disk, holder, failed>>
          PROVE  Files /\ Room
  <2>1. /\ Cardinality(Writing') = Cardinality(Writing) + 1
        /\ Cardinality(Writing) + 1 <= Cardinality(Writers)
    BY <1>check, WritingJoins
  <2>2. Rotating' = 0
    BY <1>check DEF Rotating, Free
  <2>3. disk[Current] # NoFile => disk[Current] + Cardinality(Writers) <= old
    BY <1>check DEF Exists
  <2> QED
    BY <1>check, <1>same, <2>1, <2>2, <2>3, <1>old
<1>1. ASSUME NEW w \in Writers, LogWrite(w) PROVE Files /\ Room
  <2>1. Writing' = Writing
    BY <1>1, WritingStays DEF LogWrite
  <2> QED
    BY <1>1, <2>1, <1>old DEF LogWrite, Rotating, diskVars
<1>2. ASSUME NEW w \in Writers, Check(w) PROVE Files /\ Room
  <2>2. CASE NeedCreateFresh(w)
    <3>1. Writing' = Writing
      BY <1>2, <2>2, WritingStays DEF Check
    <3> QED
      BY <1>2, <3>1, <1>old DEF Check, Rotating, diskVars
  <2>3. CASE ~NeedCreateFresh(w)
    BY <1>2, <2>3, <1>check DEF Check, diskVars
  <2> QED
    BY <2>2, <2>3
<1>3. ASSUME NEW w \in Writers, Recheck(w) PROVE Files /\ Room
  BY <1>3, <1>check DEF Recheck, diskVars
<1>4. ASSUME NEW w \in Writers, RotateMissing(w) PROVE Files /\ Room
  BY <1>4, <1>old DEF RotateMissing, Exists, diskVars
<1>5. ASSUME NEW w \in Writers, RotateNoNumber(w) PROVE Files /\ Room
  <2>1. Cardinality(Writing') = Cardinality(Writing) + 1
    BY <1>5, WritingJoins DEF RotateNoNumber, MayRotate
  <2>2. failed' = failed + 1
    BY <1>5 DEF RotateNoNumber
  <2> QED
    BY <1>5, <2>1, <2>2, <1>old DEF RotateNoNumber, Rotating, diskVars
<1>6. ASSUME NEW w \in Writers, RotateRename(w) PROVE Files /\ Room
  <2>1. Writing' = Writing
    BY <1>6, WritingStays DEF RotateRename, MayRotate
  <2>2. Rotating = 0 /\ Rotating' = 1
    BY <1>6 DEF RotateRename, MayRotate, Rotating, Free
  <2>3. CASE /\ disk' = [disk EXCEPT ![FreshName(w)] = disk[Current], ![Current] = NoFile]
             /\ failed' = failed
    <3>1. disk'[Current] = NoFile
      BY <2>3 DEF TypeOK
    <3>2. ASSUME NEW n \in Names PROVE disk'[n] <= new
      <4>1. disk'[n] \in {disk[n], disk[Current], NoFile}
        BY <2>3 DEF TypeOK
      <4> QED
        BY <2>3, <4>1, <1>old DEF NoFile
    <3> QED
      BY <3>1, <3>2
  <2>4. CASE disk' = disk /\ failed' = failed + 1
    BY <2>1, <2>2, <2>4, <1>old
  <2> QED
    BY <1>6, <2>3, <2>4 DEF RotateRename, diskVars
<1>7. ASSUME NEW w \in Writers, NewFile(w) PROVE Files /\ Room
  <2>1. /\ Cardinality(Writing') = Cardinality(Writing) + 1
        /\ Cardinality(Writing) + 1 <= Cardinality(Writers)
    BY <1>7, WritingJoins DEF NewFile
  <2>2. Rotating = 1 /\ Rotating' = 0
    BY <1>7 DEF NewFile, Rotating, TypeOK
  <2>3. failed' \in {failed, failed + 1} /\ new >= old
    BY <1>7, <1>old DEF NewFile
  <2>4. CASE Replaced(origin)
    <3>1. disk'[Current] = IF disk[Current] # NoFile THEN disk[Current] ELSE 0
      BY <2>4, ReplacedFile, OriginType DEF Exists
    <3>2. \A n \in Names : n # Current => disk'[n] = disk[n]
      BY <2>4, ReplacedFile, OriginType
    <3>3. Room
      <4>1. CASE disk[Current] # NoFile
        BY <2>1, <2>2, <2>3, <3>1, <4>1, <1>old DEF NoFile
      <4>2. CASE disk[Current] = NoFile
        BY <2>1, <2>2, <2>3, <3>1, <4>2, <1>old
      <4> QED
        BY <4>1, <4>2
    <3>4. Files
      <4>1. disk'[Current] <= new
        BY <2>3, <3>1, <1>old
      <4> QED
        BY <2>3, <3>2, <4>1, <1>old
    <3> QED
      BY <3>3, <3>4
  <2>5. CASE disk' = disk /\ failed' = failed + 1
    BY <2>1, <2>2, <2>5, <1>old
  <2> QED
    BY <1>7, <2>4, <2>5 DEF NewFile, Replaced, diskVars
<1>8. ASSUME NEW w \in Writers, Write(w) PROVE Files /\ Room
  <2>1. Cardinality(Writing') = Cardinality(Writing) - 1
    BY <1>8, WritingLeaves DEF Write
  <2>2. Rotating' = Rotating /\ failed' = failed
    BY <1>8 DEF Write, Rotating
  <2>3. Cardinality(Writing) >= 1
    BY <2>1, WritingFacts, FS_EmptySet, <1>8 DEF Writing, Write
  <2>4. CASE disk' = disk
    BY <2>1, <2>2, <2>4, <1>old
  <2>5. CASE disk[Current] # NoFile /\ disk' = [disk EXCEPT ![Current] = @ + 1]
    <3>1. disk'[Current] = disk[Current] + 1
      BY <2>5 DEF TypeOK
    <3>2. \A n \in Names : n # Current => disk'[n] = disk[n]
      BY <2>5 DEF TypeOK
    <3> QED
      BY <2>1, <2>2, <2>3, <2>5, <3>1, <3>2, <1>old
  <2> QED
    BY <1>8, <2>4, <2>5 DEF Write, CounterExact, Exists, diskVars
<1>9. ASSUME NEW n \in Names, SeeOldLog(n) PROVE Files /\ Room
  BY <1>9, <1>old DEF SeeOldLog, Rotating, Writing, logVars, diskVars
<1>10. ASSUME NEW n \in Names, RemoveOldLog(n) PROVE Files /\ Room
  <2>1. failed' = failed /\ Rotating' = Rotating /\ Writing' = Writing
    BY <1>10 DEF RemoveOldLog, Rotating, Writing, logVars
  <2>2. \A m \in Names : disk'[m] \in {disk[m], NoFile}
    BY <1>10 DEF RemoveOldLog, TypeOK, diskVars
  <2> QED
    BY <2>1, <2>2, <1>old DEF NoFile
<1>11. CASE EndSweep \/ Tick \/ UNCHANGED vars
  BY <1>11, <1>old DEF EndSweep, Tick, vars, Rotating, Writing, logVars, diskVars
<1>12. CASE Restart
  <2>1. failed' = failed /\ Rotating' = 0
    BY <1>12 DEF Restart, Rotating
  <2>2. Writing' = {}
    BY <1>12 DEF Restart, Writing
  <2>3. Cardinality(Writing') = 0
    BY <2>2, FS_EmptySet
  <2>4. /\ disk'[Current] = IF Exists(Current) THEN disk[Current] ELSE 0
        /\ \A n \in Names : n # Current => disk'[n] = disk[n]
    BY <1>12, ReplacedFile DEF Restart, Replaced
  <2> QED
    BY <2>1, <2>3, <2>4, <1>old
<1> QED
  BY <1>1, <1>2, <1>3, <1>4, <1>5, <1>6, <1>7, <1>8, <1>9, <1>10, <1>11, <1>12
     DEF Next, Advance

-----------------------------------------------------------------------------
\* The two limits.

LEMMA FailedGrows ==
  ASSUME TypeOK, [Next]_vars
  PROVE  /\ failed' \in Nat /\ failed' >= failed
         /\ miscounted' \in Nat
         /\ \/ miscounted' = miscounted
            \/ miscounted' = miscounted + 1 /\ \E w \in Writers : NewFile(w) /\ OpenUncounted
<1>1. ASSUME NEW w \in Writers, NewFile(w)
      PROVE  /\ failed' \in {failed, failed + 1}
             /\ miscounted' = miscounted \/ (miscounted' = miscounted + 1 /\ OpenUncounted)
  BY <1>1 DEF NewFile, OpenFile, OpenUnstated, OpenUncounted, fileVars, history
<1>2. ASSUME NEW w \in Writers, RotateNoNumber(w) \/ RotateRename(w)
      PROVE  failed' \in {failed, failed + 1} /\ miscounted' = miscounted
  BY <1>2 DEF RotateNoNumber, RotateRename, fileVars, history
<1>3. \/ \E w \in Writers : NewFile(w) \/ RotateNoNumber(w) \/ RotateRename(w)
      \/ failed' = failed /\ miscounted' = miscounted
  BY DEF Next, Advance, LogWrite, Check, Recheck, RotateMissing, Write, SeeOldLog,
         RemoveOldLog, EndSweep, Tick, Restart, OpenFile, vars, fileVars, history
<1> QED
  BY <1>1, <1>2, <1>3, TypeStep DEF TypeOK

\* A file that is filled once: "maxlines", and the goroutines that checked together.
Filled == MaxLines + Overshoot

LEMMA LineLimitFacts ==
  ASSUME TypeOK, MaxLines > 0
  PROVE  /\ Filled \in Nat /\ Cardinality(Writers) <= Filled
         /\ Filled * miscounted \in Nat
         /\ LineLimit = Filled + Filled * miscounted + failed
         /\ LineLimit \in Nat
<1>1. Filled \in Nat /\ Cardinality(Writers) <= Filled
  BY WritingFacts, LimitsAssumption DEF Filled, Overshoot
<1>2. \A m \in Nat : Filled * m \in Nat /\ Filled * (1 + m) = Filled + Filled * m
  BY <1>1
<1>3. /\ Filled * miscounted \in Nat
      /\ Filled * (1 + miscounted) = Filled + Filled * miscounted
  BY <1>2 DEF TypeOK
<1> QED
  BY <1>1, <1>3 DEF LineLimit, Filled, TypeOK

LEMMA MiscountedMore ==
  ASSUME TypeOK, MaxLines > 0, [Next]_vars
  PROVE  /\ Filled * miscounted' \in Nat
         /\ Filled * miscounted' >= Filled * miscounted
         /\ miscounted' = miscounted + 1 =>
              Filled * miscounted' = Filled * miscounted + Filled
         /\ LineLimit' = Filled + Filled * miscounted' + failed'
         /\ LineLimit' >= LineLimit + (failed' - failed)
         /\ LineLimit' \in Nat
<1>1. Filled \in Nat
  BY LineLimitFacts
<1>2. miscounted' \in {miscounted, miscounted + 1} /\ miscounted \in Nat
  BY FailedGrows DEF TypeOK
<1>3. \A m \in Nat : Filled * m \in Nat /\ Filled * (m + 1) = Filled * m + Filled
  BY <1>1
<1>4. /\ Filled * miscounted \in Nat
      /\ Filled * (miscounted + 1) = Filled * miscounted + Filled
  BY <1>2, <1>3
<1>5. /\ Filled * miscounted' \in Nat
      /\ Filled * miscounted' >= Filled * miscounted
      /\ miscounted' = miscounted + 1 =>
           Filled * miscounted' = Filled * miscounted + Filled
  <2>1. CASE miscounted' = miscounted
    <3>1. Filled * miscounted' = Filled * miscounted /\ miscounted' # miscounted + 1
      BY <1>2, <2>1
    <3> QED
      BY <1>4, <3>1
  <2>2. CASE miscounted' = miscounted + 1
    <3>1. Filled * miscounted' = Filled * (miscounted + 1)
      BY <2>2
    <3> QED
      BY <1>1, <1>4, <3>1
  <2> QED
    BY <1>2, <2>1, <2>2
<1>6. LineLimit' = Filled + Filled * miscounted' + failed'
  <2>1. \A m \in Nat : Filled * (1 + m) = Filled + Filled * m
    BY <1>1
  <2>2. miscounted' \in Nat
    BY <1>2
  <2> QED
    BY <2>1, <2>2 DEF LineLimit, Filled
<1> QED
  BY <1>1, <1>5, <1>6, LineLimitFacts, FailedGrows DEF TypeOK

\* The lines that are not counted are those of a file whose counting failed, and of one
\* line for every other failure.
LEMMA HiddenStep ==
  ASSUME TypeOK, CounterExact, LineBound, HiddenBound, [Next]_vars
  PROVE  HiddenBound'
<1> SUFFICES ASSUME MaxLines > 0, disk'[Current] # NoFile
             PROVE  disk'[Current] <= lines' + Filled * miscounted' + failed'
  BY DEF HiddenBound, Exists, Filled, Overshoot
<1> USE NamesFacts
<1> DEFINE Goal == disk'[Current] <= lines' + Filled * miscounted' + failed'
<1>old. /\ disk[Current] # NoFile =>
             disk[Current] <= lines + Filled * miscounted + failed
        /\ disk[Current] <= Filled + Filled * miscounted + failed
        /\ disk[Current] \in Nat \cup {-1}
        /\ lines \in Nat /\ failed \in Nat /\ Filled * miscounted \in Nat
  BY LineLimitFacts DEF HiddenBound, LineBound, Exists, Filled, TypeOK, NoFile
<1>new. /\ failed' \in Nat /\ failed' >= failed
        /\ Filled * miscounted' \in Nat /\ Filled * miscounted' >= Filled * miscounted
        /\ miscounted' = miscounted + 1 =>
             Filled * miscounted' = Filled * miscounted + Filled
  BY FailedGrows, MiscountedMore
<1>lines. lines' \in Nat
  BY TypeStep DEF TypeOK
<1> HIDE DEF Filled
<1>same. ASSUME disk'[Current] = disk[Current], lines' = lines PROVE Goal
  BY <1>same, <1>old, <1>new
<1>replaced. ASSUME NEW kept \in {"created", "found"}, Replaced(kept) PROVE Goal
  <2>1. disk'[Current] = Length /\ Length \in Nat
    BY <1>replaced, ReplacedFile, LengthType DEF Length
  <2>2. CASE OpenFile(kept)
    <3>1. lines' = Length
      BY <2>2 DEF OpenFile
    <3> QED
      BY <2>1, <3>1, <1>new
  <2>3. CASE OpenUnstated
    <3>1. lines' = lines
      BY <2>3 DEF OpenUnstated, counters
    <3>2. Length = disk[Current] \/ Length = 0
      BY DEF Length
    <3> QED
      BY <2>1, <3>1, <3>2, <1>same, <1>new, <1>lines
  <2>4. CASE OpenUncounted
    <3>1. lines' = 0 /\ miscounted' = miscounted + 1 /\ Length = disk[Current]
      BY <2>4 DEF OpenUncounted, Length
    <3>2. disk'[Current] <= Filled + Filled * miscounted + failed
      BY <2>1, <3>1, <1>old
    <3>3. Filled * miscounted' = Filled * miscounted + Filled /\ Filled \in Nat
      BY <3>1, <1>new, LineLimitFacts
    <3> QED
      BY <2>1, <3>1, <3>2, <3>3, <1>old, <1>new
  <2> QED
    BY <1>replaced, <2>2, <2>3, <2>4 DEF Replaced
<1>1. ASSUME NEW w \in Writers,
             LogWrite(w) \/ Check(w) \/ Recheck(w) \/ RotateMissing(w) \/ RotateNoNumber(w)
      PROVE  Goal
  <2>1. disk' = disk /\ lines' = lines
    BY <1>1 DEF LogWrite, Check, Recheck, RotateMissing, RotateNoNumber, fileVars, counters,
                diskVars
  <2> QED
    BY <2>1, <1>same
<1>2. ASSUME NEW w \in Writers, RotateRename(w) PROVE Goal
  <2>1. disk'[Current] = disk[Current] /\ lines' = lines
    BY <1>2 DEF RotateRename, TypeOK, diskVars, counters
  <2> QED
    BY <2>1, <1>same
<1>3. ASSUME NEW w \in Writers, NewFile(w) PROVE Goal
  <2>1. CASE UNCHANGED <<fileVars, diskVars>>
    <3>1. disk' = disk /\ lines' = lines
      BY <2>1 DEF fileVars, counters, diskVars
    <3> QED
      BY <3>1, <1>same
  <2> QED
    BY <1>3, <1>replaced, <2>1, OriginType DEF NewFile, Replaced
<1>4. ASSUME NEW w \in Writers, Write(w) PROVE Goal
  <2>1. \/ disk'[Current] = disk[Current] /\ lines' \in {lines, lines + 1}
        \/ /\ disk[Current] # NoFile /\ disk'[Current] = disk[Current] + 1
           /\ lines' = lines + 1
    BY <1>4 DEF Write, CounterExact, Exists, TypeOK, diskVars
  <2>2. CASE disk'[Current] = disk[Current] /\ lines' \in {lines, lines + 1}
    BY <2>2, <1>old, <1>new
  <2>3. CASE /\ disk[Current] # NoFile /\ disk'[Current] = disk[Current] + 1
             /\ lines' = lines + 1
    BY <2>3, <1>old, <1>new
  <2> QED
    BY <2>1, <2>2, <2>3
<1>5. ASSUME NEW n \in Names, SeeOldLog(n) PROVE Goal
  BY <1>5, <1>same DEF SeeOldLog, fileVars, counters, diskVars
<1>6. ASSUME NEW n \in Names, RemoveOldLog(n) PROVE Goal
  <2>1. disk'[Current] \in {disk[Current], NoFile} /\ lines' = lines
    BY <1>6 DEF RemoveOldLog, TypeOK, counters, diskVars
  <2> QED
    BY <2>1, <1>same
<1>7. CASE EndSweep \/ Tick \/ UNCHANGED vars
  BY <1>7, <1>same DEF EndSweep, Tick, vars, fileVars, counters, diskVars
<1>8. CASE Restart
  BY <1>8, <1>replaced DEF Restart, Replaced
<1> QED
  BY <1>1, <1>2, <1>3, <1>4, <1>5, <1>6, <1>7, <1>8 DEF Next, Advance

LEMMA BoundStep ==
  TypeOK /\ CounterExact /\ HiddenBound /\ LineBound /\ PendingBound /\ [Next]_vars
    => HiddenBound' /\ LineBound' /\ PendingBound'
<1> SUFFICES ASSUME TypeOK, CounterExact, HiddenBound, LineBound, PendingBound, [Next]_vars
             PROVE  LineBound' /\ PendingBound'
  BY HiddenStep
<1> USE NamesFacts, LimitsAssumption, WritingFacts
<1>1. ASSUME MaxLines > 0
      PROVE  /\ \A n \in Names : disk'[n] <= LineLimit'
             /\ disk'[Current] # NoFile =>
                  disk'[Current] + Cardinality(Writing') + Rotating' <= LineLimit'
  <2>1. /\ LineLimit \in Nat /\ Cardinality(Writers) <= LineLimit
        /\ LineLimit = Filled + Filled * miscounted + failed /\ Filled * miscounted \in Nat
    BY <1>1, LineLimitFacts DEF TypeOK
  <2>2. ASSUME NEW w \in Writers, ~NeedCreateFresh(w), Exists(Current)
        PROVE  disk[Current] + Cardinality(Writers) <= LineLimit
    <3>1. lines < MaxLines
      BY <1>1, <2>2 DEF NeedCreateFresh, TypeOK
    <3>2. disk[Current] <= lines + Filled * miscounted + failed
      BY <1>1, <2>2 DEF HiddenBound, Filled
    <3>3. Filled = MaxLines + Cardinality(Writers) - 1
      BY DEF Filled, Overshoot
    <3>4. disk[Current] \in Int /\ lines \in Nat /\ failed \in Nat
      BY DEF TypeOK, NoFile
    <3> HIDE DEF Filled
    <3> QED
      BY <2>1, <3>1, <3>2, <3>3, <3>4
  <2>3. LineLimit' \in Nat /\ LineLimit' >= LineLimit + (failed' - failed)
    BY <1>1, MiscountedMore
  <2>4. Within(LineLimit) /\ Pending(LineLimit)
    BY <1>1 DEF LineBound, PendingBound, Within
  <2> QED
    BY <2>1, <2>2, <2>3, <2>4, LimitStep
<1>2. ASSUME MaxSize > 0
      PROVE  /\ \A n \in Names : disk'[n] <= SizeLimit'
             /\ disk'[Current] # NoFile =>
                  disk'[Current] + Cardinality(Writing') + Rotating' <= SizeLimit'
  <2>1. SizeLimit \in Nat /\ Cardinality(Writers) <= SizeLimit
    BY <1>2 DEF SizeLimit, Overshoot, TypeOK
  <2>2. ASSUME NEW w \in Writers, ~NeedCreateFresh(w), Exists(Current)
        PROVE  disk[Current] + Cardinality(Writers) <= SizeLimit
    <3>1. bytes + 1 < MaxSize
      BY <1>2, <2>2 DEF NeedCreateFresh, TypeOK
    <3>2. disk[Current] <= bytes
      BY <2>2 DEF CounterExact
    <3> QED
      BY <3>1, <3>2 DEF SizeLimit, Overshoot, TypeOK, NoFile
  <2>3. SizeLimit' \in Nat /\ SizeLimit' >= SizeLimit + (failed' - failed)
    BY <2>1, FailedGrows DEF SizeLimit, Overshoot, TypeOK
  <2>4. Within(SizeLimit) /\ Pending(SizeLimit)
    BY <1>2 DEF LineBound, PendingBound, Within
  <2> QED
    BY <2>1, <2>2, <2>3, <2>4, LimitStep
<1> QED
  BY <1>1, <1>2 DEF LineBound, PendingBound, Pending, Exists

\* LinesBounded: no file outgrows "maxlines" or "maxsize" by more than the goroutines that
\* checked together and the rotations that failed; a count that failed costs one more
\* filling, of lines only (file.go:93-114, 142-156).
THEOREM LinesBounded == Spec => []LineBound
<1>1. Init => HiddenBound /\ LineBound /\ PendingBound
  <2> SUFFICES ASSUME Init PROVE HiddenBound /\ LineBound /\ PendingBound
    OBVIOUS
  <2>1. Writing = {} /\ Rotating = 0 /\ failed = 0 /\ \A n \in Names : disk[n] \in {0, -1}
    BY DEF Init, Writing, Rotating, NoFile
  <2>2. Cardinality(Writing) = 0 /\ disk[Current] = 0 /\ lines = 0 /\ miscounted = 0
    BY <2>1, FS_EmptySet, NamesFacts DEF Init
  <2>3. TypeOK
    BY TypeInit
  <2>4. MaxLines > 0 => LineLimit \in Nat /\ Filled * miscounted \in Nat
    BY <2>3, LineLimitFacts
  <2>5. MaxSize > 0 => SizeLimit \in Nat
    BY <2>1, WritingFacts, LimitsAssumption DEF SizeLimit, Overshoot
  <2>6. LineBound
    BY <2>1, <2>4, <2>5 DEF LineBound
  <2>7. PendingBound
    BY <2>1, <2>2, <2>4, <2>5 DEF PendingBound, Pending
  <2>8. HiddenBound
    BY <2>1, <2>2, <2>4 DEF HiddenBound, Filled
  <2> QED
    BY <2>6, <2>7, <2>8
<1> QED
  BY <1>1, CounterInit, CounterStep, BoundStep, TypeCorrect, PTL DEF Spec

-----------------------------------------------------------------------------

\* The sweeps spare the file that is being written: newFile creates it today, or
\* there is no sweep, and a sweep is over before the date changes.
LEMMA SpareStep ==
  TypeOK /\ SweepsSpareCurrent /\ KeepsCurrent /\ [Next]_vars
    => SweepsSpareCurrent' /\ KeepsCurrent'
<1> DEFINE Spared == /\ condemned[Current] = 0
                     /\ Sweeping /\ Exists(Current) => mtime[Current] = today
                     /\ holder # NoWriter => ~Exists(Current)
                     /\ fd # "orphan"
<1> SUFFICES ASSUME TypeOK, SweepsSpareCurrent, KeepsCurrent, [Next]_vars, failed' = 0
             PROVE  Spared'
  BY DEF SweepsSpareCurrent, KeepsCurrent
<1> USE NamesFacts, WritersAssumption
<1>1. failed = 0
  BY DEF Next, Advance, LogWrite, Check, Recheck, RotateMissing, RotateNoNumber,
         RotateRename, NewFile, Write, SeeOldLog, RemoveOldLog, EndSweep, Tick,
         Restart, vars, TypeOK
<1>old. Spared
  BY <1>1 DEF SweepsSpareCurrent, KeepsCurrent
<1>2. ASSUME NEW w \in Writers,
             LogWrite(w) \/ Check(w) \/ Recheck(w) \/ RotateMissing(w) \/ RotateNoNumber(w)
      PROVE  Spared'
  BY <1>2, <1>old DEF LogWrite, Check, Recheck, RotateMissing, RotateNoNumber,
                      Sweeping, Exists, fileVars, counters, history, diskVars, sweepVars
<1>3. ASSUME NEW w \in Writers, RotateRename(w) PROVE Spared'
  <2>1. disk'[Current] = NoFile
    BY <1>1, <1>3 DEF RotateRename, TypeOK, diskVars
  <2> QED
    BY <1>3, <1>old, <2>1 DEF RotateRename, Exists, sweepVars
<1>4. ASSUME NEW w \in Writers, NewFile(w) PROVE Spared'
  <2>1. Replaced(origin)
    BY <1>1, <1>4 DEF NewFile, Replaced
  <2>2. ~Exists(Current)
    BY <1>4, <1>old DEF NewFile, TypeOK
  <2>3. fd' = "current" /\ mtime'[Current] = today
    BY <2>1, <2>2, ReplacedFile, OriginType
  <2> QED
    BY <1>4, <1>old, <2>3 DEF NewFile
<1>5. ASSUME NEW w \in Writers, Write(w) PROVE Spared'
  BY <1>5, <1>old DEF Write, TypeOK, Free, Sweeping, Exists, diskVars, sweepVars
<1>6. ASSUME NEW n \in Names, SeeOldLog(n) PROVE Spared'
  <2>1. n # Current
    BY <1>6, <1>old, DaysAssumption DEF SeeOldLog, TooOld, Sweeping, TypeOK, Dates
  <2>2. condemned'[Current] = 0
    BY <1>6, <2>1, <1>old DEF SeeOldLog, TypeOK
  <2> QED
    BY <1>6, <2>2, <1>old DEF SeeOldLog, Sweeping, Exists, fileVars, counters, history, diskVars
<1>7. ASSUME NEW n \in Names, RemoveOldLog(n) PROVE Spared'
  <2>1. n # Current
    BY <1>7, <1>old DEF RemoveOldLog
  <2>2. /\ disk'[Current] = disk[Current] /\ mtime'[Current] = mtime[Current]
        /\ condemned'[Current] = 0 /\ fd' = fd
    BY <1>7, <2>1, <1>old DEF RemoveOldLog, TypeOK, diskVars
  <2>3. Sweeping
    BY <1>7 DEF RemoveOldLog, Sweeping
  <2> QED
    BY <1>7, <2>2, <2>3, <1>old DEF RemoveOldLog, Exists
<1>8. CASE EndSweep
  BY <1>8, <1>old DEF EndSweep, Sweeping, Exists, fileVars, counters, history, diskVars
<1>9. CASE Tick
  <2>1. ~Sweeping'
    BY <1>9 DEF Tick, Sweeping, TypeOK, sweepVars
  <2> QED
    BY <1>9, <2>1, <1>old DEF Tick, Exists, fileVars, counters, history, diskVars, sweepVars
<1>10. CASE Restart
  <2>1. fd' = "current"
    BY <1>10, ReplacedFile DEF Restart, Replaced
  <2> QED
    BY <1>10, <2>1 DEF Restart, Sweeping
<1>11. CASE UNCHANGED vars
  BY <1>11, <1>old DEF vars, Sweeping, Exists, fileVars, counters, history, diskVars, sweepVars
<1> QED
  BY <1>2, <1>3, <1>4, <1>5, <1>6, <1>7, <1>8, <1>9, <1>10, <1>11 DEF Next, Advance

\* CurrentKept: unless a rotation fails no sweep takes the file that is being
\* written away (file.go:237, 261-264).
THEOREM CurrentKept == Spec => []KeepsCurrent
<1>1. Init => SweepsSpareCurrent /\ KeepsCurrent
  BY NamesFacts DEF Init, SweepsSpareCurrent, KeepsCurrent, Sweeping
<1> QED
  BY <1>1, SpareStep, TypeCorrect, PTL DEF Spec

-----------------------------------------------------------------------------
\* The day of a line and the date of its file.

LEMMA TimesStep == TypeOK /\ TimesPast /\ [Next]_vars => TimesPast'
<1> SUFFICES ASSUME TypeOK, TimesPast, [Next]_vars PROVE TimesPast'
  OBVIOUS
<1> USE DEF TimesPast, TypeOK, Dates
<1>1. ASSUME NEW w \in Writers, LogWrite(w) PROVE TimesPast'
  BY <1>1 DEF LogWrite, fileVars, counters
<1>2. ASSUME NEW w \in Writers, NewFile(w) PROVE TimesPast'
  <2>1. openDate' \in {openDate, today}
    BY <1>2 DEF NewFile, OpenFile, OpenUnstated, OpenUncounted, fileVars, counters
  <2> QED
    BY <1>2, <2>1 DEF NewFile
<1>3. CASE Restart
  BY <1>3 DEF Restart, OpenFile
<1>4. CASE Tick
  BY <1>4, CalendarAssumption DEF Tick, logVars, fileVars, counters
<1>5. ASSUME NEW w \in Writers, Write(w) PROVE TimesPast'
  BY <1>5 DEF Write
<1> QED
  BY <1>1, <1>2, <1>3, <1>4, <1>5
     DEF Next, Advance, Check, Recheck, RotateMissing, RotateNoNumber, RotateRename,
         SeeOldLog, RemoveOldLog, EndSweep, vars, logVars, fileVars, counters

\* SameDay(w): the line that w writes is not of another, later day than its file.
SameDay(w) == when[w] > openDate => DayOf(when[w]) = DayOf(openDate)

LEMMA OpenDateStep ==
  ASSUME TypeOK, TimesPast, SweepsSpareCurrent, OpenDateKnown, [Next]_vars
  PROVE  OpenDateKnown'
<1> SUFFICES ASSUME Daily, failed' = 0
             PROVE  /\ openDate' = FileDate'
                    /\ \A v \in Writers : pc'[v] = "write" => SameDay(v)'
  BY DEF OpenDateKnown, SameDay
<1> USE NamesFacts
<1> DEFINE Dated == openDate' = FileDate'
           Compared == \A v \in Writers : pc'[v] = "write" => SameDay(v)'
<1>1. failed = 0
  BY FailedGrows DEF TypeOK
<1>old. openDate = FileDate /\ \A v \in Writers : pc[v] = "write" => SameDay(v)
  BY <1>1 DEF OpenDateKnown, SameDay
<1>same. ASSUME UNCHANGED <<openDate, began, origin>> PROVE Dated
  BY <1>same, <1>old DEF FileDate
<1>2. ASSUME NEW w \in Writers, LogWrite(w) PROVE Dated /\ Compared
  <2>1. UNCHANGED <<openDate, began, origin>>
    BY <1>2 DEF LogWrite, fileVars, counters, history
  <2>2. \A v \in Writers : pc'[v] = "write" => v # w /\ pc[v] = "write" /\ when'[v] = when[v]
    BY <1>2 DEF LogWrite, TypeOK
  <2> QED
    BY <2>1, <2>2, <1>same, <1>old DEF SameDay
<1>3. ASSUME NEW w \in Writers, Check(w) \/ Recheck(w) PROVE Dated /\ Compared
  <2>1. UNCHANGED <<when, openDate, began, origin>>
    BY <1>3 DEF Check, Recheck, fileVars, counters, history
  <2>2. \A v \in Writers : pc'[v] = "write" => pc[v] = "write" \/ DayOf(when[v]) = DayOf(openDate)
    BY <1>3 DEF Check, Recheck, NeedCreateFresh, TypeOK
  <2> QED
    BY <2>1, <2>2, <1>same, <1>old DEF SameDay
<1>4. ASSUME NEW w \in Writers, RotateMissing(w) \/ RotateNoNumber(w) \/ RotateRename(w)
      PROVE  Dated /\ Compared
  <2>1. UNCHANGED <<when, openDate, began, origin>>
    BY <1>4 DEF RotateMissing, RotateNoNumber, RotateRename, fileVars, counters, history
  <2>2. \A v \in Writers : pc'[v] = "write" => pc[v] = "write"
    BY <1>1, <1>4 DEF RotateMissing, RotateNoNumber, RotateRename, TypeOK
  <2> QED
    BY <2>1, <2>2, <1>same, <1>old DEF SameDay
<1>5. ASSUME NEW w \in Writers, NewFile(w) PROVE Dated /\ Compared
  <2>1. OpenFile(origin)
    BY <1>1, <1>5 DEF NewFile
  <2>2. ~Exists(Current)
    <3>1. holder # NoWriter
      BY <1>5, WritersAssumption DEF NewFile, TypeOK
    <3> QED
      BY <1>1, <3>1 DEF SweepsSpareCurrent
  <2>3. openDate' = today /\ began' = today /\ when' = when
    BY <1>5, <2>1, <2>2 DEF NewFile, OpenFile, ReplaceWriter
  <2>4. \A v \in Writers : when[v] <= today
    BY DEF TimesPast
  <2> QED
    BY <2>3, <2>4 DEF FileDate, SameDay, TypeOK, Dates
<1>6. ASSUME NEW w \in Writers, Write(w) PROVE Dated /\ Compared
  <2>1. UNCHANGED <<openDate, began, origin>>
    BY <1>6 DEF Write, history
  <2>2. \A v \in Writers : pc'[v] = "write" => v # w /\ pc[v] = "write" /\ when'[v] = when[v]
    BY <1>6 DEF Write, TypeOK
  <2> QED
    BY <2>1, <2>2, <1>same, <1>old DEF SameDay
<1>7. CASE Restart
  <2>1. openDate' = today /\ \A v \in Writers : pc'[v] = "idle"
    BY <1>7 DEF Restart, OpenFile
  <2>2. FileDate' = today
    BY <1>7, <2>1 DEF Restart, OpenFile, ReplaceWriter, FileDate
  <2> QED
    BY <2>1, <2>2
<1>8. ASSUME UNCHANGED <<pc, when, openDate, began, origin>> PROVE Dated /\ Compared
  BY <1>8, <1>same, <1>old DEF SameDay
<1> QED
  BY <1>2, <1>3, <1>4, <1>5, <1>6, <1>7, <1>8
     DEF Next, Advance, SeeOldLog, RemoveOldLog, EndSweep, Tick, vars, logVars, fileVars,
         counters, history

\* EveryLineFiledByDay: a line never goes to a file of an earlier date, but one of the same
\* day of another month, or one that a restart found (file.go:76, 146-148).
THEOREM EveryLineFiledByDay == Spec => []FiledByDay
<1>1. Init => TimesPast /\ OpenDateKnown /\ SweepsSpareCurrent /\ KeepsCurrent
  <2> SUFFICES ASSUME Init PROVE TimesPast /\ OpenDateKnown /\ SweepsSpareCurrent /\ KeepsCurrent
    OBVIOUS
  <2>1. TimesPast /\ OpenDateKnown
    BY DEF Init, TimesPast, OpenDateKnown, FileDate
  <2>2. SweepsSpareCurrent /\ KeepsCurrent
    BY NamesFacts DEF Init, SweepsSpareCurrent, KeepsCurrent, Sweeping
  <2> QED
    BY <2>1, <2>2
<1>2. OpenDateKnown => FiledByDay
  BY DEF OpenDateKnown, FiledByDay
<1>3. TypeOK /\ TimesPast /\ SweepsSpareCurrent /\ OpenDateKnown /\ [Next]_vars => OpenDateKnown'
  BY OpenDateStep
<1> QED
  BY <1>1, <1>2, <1>3, TimesStep, SpareStep, TypeCorrect, PTL DEF Spec

-----------------------------------------------------------------------------
\* The lines on disk, counted.

\* A set of natural numbers that is not empty has a least one: the intervals up to
\* its elements are finite sets, ordered as the elements are.
LEMMA LeastNumber ==
  ASSUME NEW S \in SUBSET Nat, S # {}
  PROVE  Min(S) \in S
<1> DEFINE R == StrictSubsetOrdering(Nat)
           Below == {0 .. x : x \in S}
<1>1. IsWellFoundedOn(R, FiniteSubsetsOf(Nat))
  BY FS_StrictSubsetOrderingWellFounded
<1>2. Below \subseteq FiniteSubsetsOf(Nat)
  <2>1. \A x \in S : 0 .. x \subseteq Nat /\ IsFiniteSet(0 .. x)
    BY FS_Interval
  <2> QED
    BY <2>1 DEF FiniteSubsetsOf
<1>3. Below # {}
  OBVIOUS
<1> HIDE DEF R
<1>4. PICK b \in Below : \A c \in Below : ~ (<<c, b>> \in R)
  BY <1>1, <1>2, <1>3, WFMin, Zenon
<1>5. PICK x \in S : b = 0 .. x
  OBVIOUS
<1>6. \A y \in S : y < x => <<0 .. y, b>> \in R
  <2> TAKE y \in S
  <2> HAVE y < x
  <2>1. 0 .. y \in SUBSET Nat /\ b \in SUBSET Nat
    BY <1>5
  <2>2. 0 .. y \subseteq b /\ x \in b /\ x \notin 0 .. y
    BY <1>5
  <2> QED
    BY <2>1, <2>2 DEF R, StrictSubsetOrdering
<1>7. \A y \in S : x <= y
  <2> TAKE y \in S
  <2>1. 0 .. y \in Below
    OBVIOUS
  <2>2. ~ (y < x)
    BY <1>4, <1>6, <2>1
  <2> QED
    BY <2>2
<1> QED
  BY <1>7 DEF Min

\* FreshName is a name of a rotated file that no file has.
LEMMA FreshNameFree ==
  ASSUME TypeOK, NEW w \in Writers, FreeNumbers(w) # {}
  PROVE  FreshName(w) \in Rotated /\ ~Exists(FreshName(w))
<1>1. FreeNumbers(w) \in SUBSET Nat
  BY NumAssumption DEF FreeNumbers
<1>2. Min(FreeNumbers(w)) \in FreeNumbers(w)
  BY <1>1, LeastNumber
<1>3. Target(w) \in Dates
  BY DEF Target, TypeOK
<1> QED
  BY <1>2, <1>3 DEF FreeNumbers, FreshName, Rotated

LEMMA FileCount ==
  ASSUME NEW n, NEW k \in Int, k >= -1
  PROVE  /\ IsFiniteSet({n} \X (1 .. k))
         /\ Cardinality({n} \X (1 .. k)) = IF k = -1 THEN 0 ELSE k
<1>1. IsFiniteSet({n}) /\ Cardinality({n}) = 1
  BY FS_Singleton
<1>2. IsFiniteSet(1 .. k) /\ Cardinality(1 .. k) = IF k = -1 THEN 0 ELSE k
  BY FS_Interval
<1>3. /\ IsFiniteSet({n} \X (1 .. k))
      /\ Cardinality({n} \X (1 .. k)) = Cardinality({n}) * Cardinality(1 .. k)
  BY <1>1, <1>2, FS_Product
<1> QED
  BY <1>1, <1>2, <1>3

\* The count of a file that exists.
LEMMA CountOf ==
  ASSUME NEW n, NEW k \in Nat
  PROVE  IsFiniteSet({n} \X (1 .. k)) /\ Cardinality({n} \X (1 .. k)) = k
<1>1. k \in Int /\ k >= -1 /\ k # -1
  OBVIOUS
<1> QED
  BY <1>1, FileCount

\* A file that is lost leaves the lines of the others.
LEMMA FileGone ==
  ASSUME TypeOK, IsFiniteSet(LinesOnDisk), NEW n \in Names, Exists(n),
         disk' = [disk EXCEPT ![n] = NoFile]
  PROVE  /\ IsFiniteSet(LinesOnDisk')
         /\ Cardinality(LinesOnDisk') = Cardinality(LinesOnDisk) - disk[n]
<1>1. disk[n] \in Nat /\ disk'[n] = -1 /\ \A m \in Names : m # n => disk'[m] = disk[m]
  BY DEF TypeOK, Exists, NoFile
<1>2. LinesOnDisk' = LinesOnDisk \ LinesOf(n)
  <2>1. LinesOf(n)' = {} /\ \A m \in Names : m # n => LinesOf(m)' = LinesOf(m)
    BY <1>1 DEF LinesOf
  <2>2. \A m \in Names : m # n => LinesOf(m) \cap LinesOf(n) = {}
    BY DEF LinesOf
  <2> QED
    BY <2>1, <2>2 DEF LinesOnDisk
<1>3. LinesOnDisk \cap LinesOf(n) = LinesOf(n)
  BY DEF LinesOnDisk
<1>4. Cardinality(LinesOf(n)) = disk[n]
  BY <1>1, CountOf DEF LinesOf
<1> QED
  BY <1>2, <1>3, <1>4, FS_Difference

\* A file that is renamed to a free name takes its lines along.
LEMMA FileMoves ==
  ASSUME TypeOK, IsFiniteSet(LinesOnDisk), NEW n \in Rotated, ~Exists(n), Exists(Current),
         disk' = [disk EXCEPT ![n] = disk[Current], ![Current] = NoFile]
  PROVE  /\ IsFiniteSet(LinesOnDisk')
         /\ Cardinality(LinesOnDisk') = Cardinality(LinesOnDisk)
<1>1. n \in Names /\ Current \in Names /\ n # Current
  BY NamesFacts
<1>2. /\ disk[Current] \in Nat /\ disk[n] = -1
      /\ disk'[n] = disk[Current] /\ disk'[Current] = -1
      /\ \A m \in Names : m # n /\ m # Current => disk'[m] = disk[m]
  BY <1>1 DEF TypeOK, Exists, NoFile
<1> DEFINE others == LinesOnDisk \ LinesOf(Current)
           moved == {n} \X (1 .. disk[Current])
<1>3. LinesOnDisk' = others \cup moved
  <2>0. 1 .. -1 = {}
    OBVIOUS
  <2>1. /\ LinesOf(n) = {} /\ LinesOf(Current)' = {} /\ LinesOf(n)' = moved
        /\ \A m \in Names : m # n /\ m # Current => LinesOf(m)' = LinesOf(m)
    <3>1. LinesOf(n) = {} /\ LinesOf(Current)' = {}
      BY <1>2, <2>0 DEF LinesOf
    <3>2. LinesOf(n)' = moved
      BY <1>2 DEF LinesOf
    <3>3. ASSUME NEW m \in Names, m # n, m # Current PROVE LinesOf(m)' = LinesOf(m)
      BY <1>2, <3>3 DEF LinesOf
    <3> QED
      BY <3>1, <3>2, <3>3
  <2>2. \A m \in Names : m # Current => LinesOf(m) \cap LinesOf(Current) = {}
    BY DEF LinesOf
  <2>3. LinesOnDisk' = UNION {LinesOf(m)' : m \in Names}
    BY DEF LinesOnDisk
  <2> HIDE DEF moved
  <2>4. others = UNION {LinesOf(m) : m \in Names \ {Current}}
    BY <1>1, <2>2 DEF LinesOnDisk
  <2> QED
    BY <1>1, <2>1, <2>3, <2>4
<1>4. others \cap moved = {}
  <2>1. \A m \in Names : \A l \in LinesOf(m) : l[1] = m
    BY DEF LinesOf
  <2>2. \A l \in moved : l[1] = n
    OBVIOUS
  <2>3. LinesOf(n) = {}
    BY <1>2 DEF LinesOf
  <2> QED
    BY <2>1, <2>2, <2>3 DEF LinesOnDisk
<1>5. IsFiniteSet(moved) /\ Cardinality(moved) = disk[Current]
  BY <1>2, CountOf
<1>6. LinesOnDisk \cap LinesOf(Current) = LinesOf(Current)
  BY <1>1 DEF LinesOnDisk
<1>7. Cardinality(LinesOf(Current)) = disk[Current]
  BY <1>2, CountOf DEF LinesOf
<1>8. IsFiniteSet(others) /\ Cardinality(others) = Cardinality(LinesOnDisk) - disk[Current]
  <2>1. /\ IsFiniteSet(others)
        /\ Cardinality(others)
             = Cardinality(LinesOnDisk) - Cardinality(LinesOnDisk \cap LinesOf(Current))
    BY FS_Difference
  <2> QED
    BY <1>6, <1>7, <2>1
<1>9. Cardinality(others \cap moved) = 0
  BY <1>4, FS_EmptySet
<1>10. Cardinality(LinesOnDisk) \in Nat
  BY FS_CardinalityType
<1> HIDE DEF others, moved
<1>11. /\ IsFiniteSet(others \cup moved)
       /\ Cardinality(others \cup moved)
            = Cardinality(others) + Cardinality(moved) - Cardinality(others \cap moved)
  BY <1>5, <1>8, FS_Union
<1> QED
  BY <1>2, <1>3, <1>5, <1>8, <1>9, <1>10, <1>11

\* A line that is written is one more.
LEMMA LineAdded ==
  ASSUME TypeOK, IsFiniteSet(LinesOnDisk), Exists(Current),
         disk' = [disk EXCEPT ![Current] = @ + 1]
  PROVE  /\ IsFiniteSet(LinesOnDisk')
         /\ Cardinality(LinesOnDisk') = Cardinality(LinesOnDisk) + 1
<1> DEFINE new == <<Current, disk[Current] + 1>>
<1>1. /\ disk[Current] \in Nat /\ disk'[Current] = disk[Current] + 1 /\ Current \in Names
      /\ \A m \in Names : m # Current => disk'[m] = disk[m]
  BY NamesFacts DEF TypeOK, Exists, NoFile
<1>2. /\ LinesOf(Current)' = LinesOf(Current) \cup {new}
      /\ \A m \in Names : m # Current => LinesOf(m)' = LinesOf(m)
  <2>1. 1 .. (disk[Current] + 1) = (1 .. disk[Current]) \cup {disk[Current] + 1}
    BY <1>1
  <2> QED
    BY <1>1, <2>1 DEF LinesOf
<1>3. LinesOnDisk' = LinesOnDisk \cup {new}
  BY <1>1, <1>2 DEF LinesOnDisk
<1>4. new \notin LinesOnDisk
  <2>1. \A m \in Names : \A l \in LinesOf(m) : l[1] = m /\ l[2] \in 1 .. disk[m]
    BY DEF LinesOf
  <2> QED
    BY <1>1, <2>1 DEF LinesOnDisk
<1> QED
  BY <1>3, <1>4, FS_AddElement

\* newFile creates a file without lines, if any.
LEMMA ReplacedLines ==
  ASSUME TypeOK, NEW kept \in {"created", "found"}, Replaced(kept)
  PROVE  LinesOnDisk' = LinesOnDisk
<1>1. \A n \in Names : disk'[n] = disk[n] \/ (disk[n] = -1 /\ disk'[n] = 0)
  BY ReplacedFile DEF Exists, NoFile
<1>2. \A n \in Names : 1 .. disk'[n] = 1 .. disk[n]
  BY <1>1
<1> QED
  BY <1>2 DEF LinesOnDisk, LinesOf

AccountInv == IsFiniteSet(LinesOnDisk) /\ LinesAccounted

\* Steps that leave the lines and the accounts alone.
LEMMA LinesStay ==
  ASSUME AccountInv, LinesOnDisk' = LinesOnDisk, UNCHANGED tally
  PROVE  AccountInv'
  BY DEF AccountInv, LinesAccounted, tally

LEMMA AccountStep ==
  TypeOK /\ CounterExact /\ AccountInv /\ [Next]_vars => AccountInv'
<1> SUFFICES ASSUME TypeOK, CounterExact, AccountInv, [Next]_vars PROVE AccountInv'
  OBVIOUS
<1>old. /\ IsFiniteSet(LinesOnDisk) /\ Cardinality(LinesOnDisk) \in Nat
        /\ acked = expired + lost + Cardinality(LinesOnDisk)
        /\ acked \in Nat /\ expired \in Nat /\ lost \in Nat
  BY FS_CardinalityType DEF AccountInv, LinesAccounted, TypeOK
<1>same. ASSUME UNCHANGED <<disk, tally>> PROVE AccountInv'
  BY <1>same, LinesStay DEF LinesOnDisk, LinesOf
<1>1. ASSUME NEW w \in Writers,
             LogWrite(w) \/ Check(w) \/ Recheck(w) \/ RotateMissing(w) \/ RotateNoNumber(w)
      PROVE  AccountInv'
  BY <1>1, <1>same
     DEF LogWrite, Check, Recheck, RotateMissing, RotateNoNumber, diskVars
<1>2. ASSUME NEW w \in Writers, RotateRename(w) PROVE AccountInv'
  <2>1. CASE UNCHANGED diskVars
    BY <1>2, <2>1, <1>same DEF RotateRename, diskVars
  <2>2. CASE disk' = [disk EXCEPT ![FreshName(w)] = disk[Current], ![Current] = NoFile]
    <3>1. FreshName(w) \in Rotated /\ ~Exists(FreshName(w)) /\ Exists(Current)
      BY <1>2, FreshNameFree DEF RotateRename
    <3>2. /\ IsFiniteSet(LinesOnDisk')
          /\ Cardinality(LinesOnDisk') = Cardinality(LinesOnDisk)
      BY <1>old, <2>2, <3>1, FileMoves
    <3> QED
      BY <1>2, <1>old, <3>2 DEF RotateRename, tally, AccountInv, LinesAccounted
  <2> QED
    BY <1>2, <2>1, <2>2 DEF RotateRename
<1>3. ASSUME NEW w \in Writers, NewFile(w) PROVE AccountInv'
  <2>1. CASE Replaced(origin)
    BY <1>3, <2>1, ReplacedLines, OriginType, LinesStay DEF NewFile
  <2>2. CASE UNCHANGED diskVars
    BY <1>3, <2>2, <1>same DEF NewFile, diskVars
  <2> QED
    BY <1>3, <2>1, <2>2 DEF NewFile, Replaced
<1>4. ASSUME NEW w \in Writers, Write(w) PROVE AccountInv'
  <2>1. CASE fd = "closed"
    BY <1>4, <2>1, <1>same DEF Write, diskVars, tally
  <2>2. CASE fd = "current"
    <3>1. Exists(Current) /\ disk' = [disk EXCEPT ![Current] = @ + 1]
      BY <1>4, <2>2 DEF Write, CounterExact, TypeOK, Exists, NoFile
    <3>2. /\ IsFiniteSet(LinesOnDisk')
          /\ Cardinality(LinesOnDisk') = Cardinality(LinesOnDisk) + 1
      BY <1>old, <3>1, LineAdded
    <3>3. acked' = acked + 1 /\ lost' = lost /\ expired' = expired
      BY <1>4, <2>2 DEF Write
    <3> QED
      BY <1>old, <3>2, <3>3 DEF AccountInv, LinesAccounted
  <2>3. CASE fd = "orphan"
    <3>1. acked' = acked + 1 /\ lost' = lost + 1 /\ expired' = expired /\ disk' = disk
      BY <1>4, <2>3 DEF Write, diskVars
    <3>2. LinesOnDisk' = LinesOnDisk
      BY <3>1 DEF LinesOnDisk, LinesOf
    <3> QED
      BY <1>old, <3>1, <3>2 DEF AccountInv, LinesAccounted
  <2> QED
    BY <2>1, <2>2, <2>3 DEF TypeOK
<1>5. ASSUME NEW n \in Names, SeeOldLog(n) PROVE AccountInv'
  BY <1>5, <1>same DEF SeeOldLog, diskVars
<1>6. ASSUME NEW n \in Names, RemoveOldLog(n) PROVE AccountInv'
  <2>1. CASE ~Exists(n)
    BY <1>6, <2>1, <1>same DEF RemoveOldLog, tally, diskVars
  <2>2. CASE Exists(n)
    <3>1. disk' = [disk EXCEPT ![n] = NoFile] /\ acked' = acked
      BY <1>6, <2>2 DEF RemoveOldLog
    <3>2. expired' + lost' = expired + lost + disk[n] /\ expired' \in Nat /\ lost' \in Nat
      <4>1. disk[n] \in Nat
        BY <2>2 DEF TypeOK, Exists
      <4>2. \/ lost' = lost + disk[n] /\ expired' = expired
            \/ lost' = lost /\ expired' = expired + disk[n]
        BY <1>6, <2>2 DEF RemoveOldLog
      <4> QED
        BY <1>old, <4>1, <4>2
    <3>3. /\ IsFiniteSet(LinesOnDisk')
          /\ Cardinality(LinesOnDisk') = Cardinality(LinesOnDisk) - disk[n]
      BY <1>old, <2>2, <3>1, FileGone
    <3>4. disk[n] \in Nat
      BY <2>2 DEF TypeOK, Exists
    <3> QED
      BY <1>old, <3>1, <3>2, <3>3, <3>4 DEF AccountInv, LinesAccounted
  <2> QED
    BY <2>1, <2>2
<1>7. CASE EndSweep \/ Tick \/ UNCHANGED vars
  BY <1>7, <1>same DEF EndSweep, Tick, vars, diskVars
<1>8. CASE Restart
  BY <1>8, ReplacedLines, LinesStay DEF Restart, Replaced
<1> QED
  BY <1>1, <1>2, <1>3, <1>4, <1>5, <1>6, <1>7, <1>8 DEF Next, Advance

\* EveryLineAccounted: whatever rotates, fails, is swept away or restarts, and in which
\* order, every line LogWrite returned nil for is in exactly one file or was deleted with
\* one: rotation finds a free name or fails (file.go:205-226, 237, 261-264).
THEOREM EveryLineAccounted == Spec => []LinesAccounted
<1>1. Init => AccountInv
  <2> SUFFICES ASSUME Init PROVE AccountInv
    OBVIOUS
  <2>1. \A n \in Names : disk[n] \in {0, -1}
    BY DEF Init, NoFile
  <2>2. LinesOnDisk = {}
    BY <2>1 DEF LinesOnDisk, LinesOf
  <2>3. acked = 0 /\ expired = 0 /\ lost = 0
    BY DEF Init
  <2> QED
    BY <2>2, <2>3, FS_EmptySet DEF AccountInv, LinesAccounted
<1>2. AccountInv => LinesAccounted
  BY DEF AccountInv
<1> QED
  BY <1>1, <1>2, AccountStep, CounterInit, CounterStep, TypeCorrect, PTL DEF Spec
=============================================================================
