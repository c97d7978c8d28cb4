------------------------------ MODULE FileLogger ------------------------------
(***************************************************************************)
(* The file adapter of the logger (src/logger/file.go): goroutines that    *)
(* call LogWrite on one fileLogger, the rotation they start when the file  *)
(* is full or the day has changed, the goroutines that delete old logs     *)
(* behind it, and the restart of the process.                              *)
(*                                                                         *)
(* Every line has size 1.  Dates are numbered from 1.  RLock, the check    *)
(* and RUnlock are one step: what needCreateFresh reads changes only under *)
(* Lock.  A lock that a step takes and releases guards the step; a lock    *)
(* held over several steps is "holder".  began, origin, opened and         *)
(* miscounted are history: no guard reads them.                            *)
(***************************************************************************)
EXTENDS Integers, FiniteSets, FiniteSetsExt

CONSTANTS
  Writers,       \* goroutines that log
  MaxLines,      \* "maxlines"; 0: no limit
  MaxSize,       \* "maxsize", in lines of size 1; 0: no limit
  Daily,         \* "daily"
  MaxDays,       \* "maxdays"; -1: logs are kept for ever
  MaxNum,        \* largest number of a rotated file (999)
  TakenNums,     \* numbers of the files of date 1 that are there at the start
  DaysPerMonth,  \* dates this far apart have the same time.Day()
  MaxDate,       \* bound: last date
  MaxCalls,      \* bound: LogWrite calls
  MaxFailures,   \* bound: renames, and calls of newFile, that fail
  NoWriter       \* no goroutine

ASSUME WritersAssumption == IsFiniteSet(Writers) /\ NoWriter \notin Writers
ASSUME LimitsAssumption == MaxLines \in Nat /\ MaxSize \in Nat /\ Daily \in BOOLEAN
ASSUME DaysAssumption == MaxDays \in (Nat \ {0}) \cup {-1}
ASSUME NumAssumption == MaxNum \in Nat /\ TakenNums \subseteq 1..MaxNum
ASSUME CalendarAssumption == MaxDate \in Nat \ {0} /\ DaysPerMonth \in Nat \ {0}
ASSUME BoundsAssumption == MaxCalls \in Nat /\ MaxFailures \in Nat

Dates == 1..MaxDate
DayOf(d) == d % DaysPerMonth

\* f.Filename, and the names <date>.<num> that rotation gives.
Current == <<0, 0>>
Rotated == Dates \X (1..MaxNum)
Names == Rotated \cup {Current}
Taken == {1} \X TakenNums

NoFile == -1   \* disk[n] of a name that no file has

VARIABLES
  pc,         \* pc[w]: where w is in LogWrite
  when,       \* when[w]: the time of the line that w logs; 1 when it logs none
  holder,     \* the goroutine that keeps the write lock between two steps
  fd,         \* fileWriter: "current", "orphan" (its file was deleted), "closed"
  lines,      \* maxLinesCurLines
  bytes,      \* maxSizeCurSize
  openDate,   \* dailyOpenTime, and its Day() dailyOpenDate
  opened,     \* how the newFile that last replaced fileWriter ended: "whole",
              \* or with an error: "unstated" (Stat), "uncounted" (lines)
  miscounted, \* calls of newFile that ended "uncounted"
  began,      \* the date on which the file named f.Filename was created
  origin,     \* "created" by this process, or "found" when it started
  disk,       \* disk[n]: the number of lines of a file
  mtime,      \* mtime[n]: the date of its ModTime; 1 when there is no file
  sweeps,     \* deleteOldLog goroutines between two files
  condemned,  \* condemned[n]: those about to remove n
  today,      \* time.Now()
  calls, failed,          \* LogWrite calls, rotations that failed
  acked, expired, lost    \* lines LogWrite returned nil for; of those, deleted
                          \* when older than MaxDays, and gone before that

logVars == <<pc, when, calls>>
counters == <<lines, bytes, openDate>>
history == <<opened, miscounted, began, origin>>
fileVars == <<fd, counters, history>>
diskVars == <<disk, mtime>>
sweepVars == <<sweeps, condemned>>
tally == <<acked, expired, lost>>
vars == <<logVars, holder, fileVars, diskVars, sweepVars, today, failed, tally>>

Exists(n) == disk[n] # NoFile
Free == holder = NoWriter

-----------------------------------------------------------------------------

\* Variant: off by one: a full file takes one more line.
NeedCreateFresh_OffByOne(w) ==
  \/ MaxLines > 0 /\ lines > MaxLines
  \/ MaxSize > 0 /\ bytes + 1 >= MaxSize
  \/ Daily /\ DayOf(when[w]) # DayOf(openDate)

\* Variant: the day is not compared.
NeedCreateFresh_NoDay(w) ==
  \/ MaxLines > 0 /\ lines >= MaxLines
  \/ MaxSize > 0 /\ bytes + 1 >= MaxSize

NeedCreateFresh(w) ==
  \/ MaxLines > 0 /\ lines >= MaxLines
  \/ MaxSize > 0 /\ bytes + 1 >= MaxSize
  \/ Daily /\ DayOf(when[w]) # DayOf(openDate)

\* createLogFile opens or creates the file, and fileWriter is replaced.
Length == IF Exists(Current) THEN disk[Current] ELSE 0
ReplaceWriter(kept) ==
  /\ fd' = "current"
  /\ disk' = [disk EXCEPT ![Current] = Length]
  /\ mtime' = [mtime EXCEPT ![Current] = IF Exists(Current) THEN @ ELSE today]
  /\ began' = IF Exists(Current) THEN began ELSE today
  /\ origin' = IF Exists(Current) THEN kept ELSE "created"

\* Variant: maxLinesCurLines is not reset.
OpenFile_KeepsCount(kept) ==
  /\ ReplaceWriter(kept)
  /\ bytes' = Length
  /\ openDate' = today
  /\ opened' = "whole"
  /\ UNCHANGED <<lines, miscounted>>

\* newFile: the size and the date are noted, and the lines are counted.
OpenFile(kept) ==
  /\ ReplaceWriter(kept)
  /\ bytes' = Length
  /\ lines' = Length
  /\ openDate' = today
  /\ opened' = "whole"
  /\ UNCHANGED miscounted

\* newFile returns the error of Stat: the counters and the date are still those
\* of the file before.
OpenUnstated ==
  /\ ReplaceWriter(origin)
  /\ opened' = "unstated"
  /\ UNCHANGED <<counters, miscounted>>

\* newFile returns the error of lines(), which reads a file that is not empty:
\* the size and the date are noted, maxLinesCurLines stays 0.
OpenUncounted ==
  /\ Length > 0
  /\ ReplaceWriter(origin)
  /\ bytes' = Length
  /\ openDate' = today
  /\ lines' = 0
  /\ opened' = "uncounted"
  /\ miscounted' = miscounted + 1

\* LogWrite is called: the caller has read the clock (writeMsg in log.go).
LogWrite(w) ==
  /\ pc[w] = "idle"
  /\ calls < MaxCalls
  /\ pc' = [pc EXCEPT ![w] = "check"]
  /\ when' = [when EXCEPT ![w] = today]
  /\ calls' = calls + 1
  /\ UNCHANGED <<holder, fileVars, diskVars, sweepVars, today, failed, tally>>

\* needCreateFresh under RLock.
Check(w) ==
  /\ pc[w] = "check"
  /\ Free
  /\ pc' = [pc EXCEPT ![w] = IF NeedCreateFresh(w) THEN "lock" ELSE "write"]
  /\ UNCHANGED <<when, calls, holder, fileVars, diskVars, sweepVars, today, failed, tally>>

\* needCreateFresh under Lock: another goroutine has rotated the file.
Recheck(w) ==
  /\ pc[w] = "lock"
  /\ Free
  /\ ~NeedCreateFresh(w)
  /\ pc' = [pc EXCEPT ![w] = "write"]
  /\ UNCHANGED <<when, calls, holder, fileVars, diskVars, sweepVars, today, failed, tally>>

\* createFreshFile dates the old file by the day it was opened when the day
\* has changed, and takes the first number that no file has.
Target(w) == IF DayOf(openDate) # DayOf(when[w]) THEN openDate ELSE when[w]
FreeNumbers(w) == {num \in 1..MaxNum : ~Exists(<<Target(w), num>>)}

\* Variant: the number is not looked up.
FreshName_First(w) == <<Target(w), 1>>

FreshName(w) == <<Target(w), Min(FreeNumbers(w))>>

MayRotate(w) == pc[w] = "lock" /\ Free /\ NeedCreateFresh(w)

\* createFreshFile: there is no file to rename.
RotateMissing(w) ==
  /\ MayRotate(w)
  /\ ~Exists(Current)
  /\ pc' = [pc EXCEPT ![w] = "reopen"]
  /\ holder' = w
  /\ UNCHANGED <<when, calls, fileVars, diskVars, sweepVars, today, failed, tally>>

\* Variant: the early return keeps the lock.
RotateNoNumber_Locked(w) ==
  /\ MayRotate(w)
  /\ Exists(Current)
  /\ FreeNumbers(w) = {}
  /\ failed' = failed + 1
  /\ pc' = [pc EXCEPT ![w] = "write"]
  /\ holder' = w
  /\ UNCHANGED <<when, calls, fileVars, diskVars, sweepVars, today, tally>>

\* createFreshFile returns: every number is taken.
RotateNoNumber(w) ==
  /\ MayRotate(w)
  /\ Exists(Current)
  /\ FreeNumbers(w) = {}
  /\ failed' = failed + 1
  /\ pc' = [pc EXCEPT ![w] = "write"]
  /\ UNCHANGED <<when, calls, holder, fileVars, diskVars, sweepVars, today, tally>>

\* createFreshFile closes the file and renames it, which may fail.
RotateRename(w) ==
  /\ MayRotate(w)
  /\ Exists(Current)
  /\ FreeNumbers(w) # {}
  /\ fd' = "closed"
  /\ pc' = [pc EXCEPT ![w] = "reopen"]
  /\ holder' = w
  /\ \/ LET n == FreshName(w) IN
        /\ disk' = [disk EXCEPT ![n] = disk[Current], ![Current] = NoFile]
        /\ mtime' = [mtime EXCEPT ![n] = mtime[Current], ![Current] = 1]
        /\ UNCHANGED failed
     \/ /\ failed < MaxFailures
        /\ failed' = failed + 1
        /\ UNCHANGED diskVars
  /\ UNCHANGED <<when, calls, counters, history, sweepVars, today, tally>>

\* RESTART_LOGGER: newFile, which may fail before fileWriter is replaced or
\* after, go deleteOldLog(), and Unlock.
NewFile(w) ==
  /\ pc[w] = "reopen"
  /\ \/ OpenFile(origin) /\ UNCHANGED failed
     \/ /\ failed < MaxFailures
        /\ failed' = failed + 1
        /\ OpenUnstated \/ OpenUncounted \/ UNCHANGED <<fileVars, diskVars>>
  /\ sweeps' = sweeps + 1
  /\ pc' = [pc EXCEPT ![w] = "write"]
  /\ holder' = NoWriter
  /\ UNCHANGED <<when, calls, condemned, today, tally>>

\* The line is written under Lock and counted when Write returns no error.
Write(w) ==
  /\ pc[w] = "write"
  /\ Free
  /\ pc' = [pc EXCEPT ![w] = "idle"]
  /\ when' = [when EXCEPT ![w] = 1]
  /\ IF fd = "closed"
     THEN UNCHANGED <<lines, bytes, acked, lost, diskVars>>
     ELSE /\ lines' = lines + 1
          /\ bytes' = bytes + 1
          /\ acked' = acked + 1
          /\ IF fd = "current"
             THEN /\ disk' = [disk EXCEPT ![Current] = @ + 1]
                  /\ mtime' = [mtime EXCEPT ![Current] = today]
                  /\ UNCHANGED lost
             ELSE lost' = lost + 1 /\ UNCHANGED diskVars
  /\ UNCHANGED <<calls, holder, fd, openDate, history, sweepVars, today,
                 failed, expired>>

-----------------------------------------------------------------------------
\* deleteOldLog: Walk reads the ModTime of one file after the other.

\* Variant: off by one: the file of a day is deleted one day early.
TooOld_OffByOne(n) == MaxDays # -1 /\ mtime[n] + MaxDays <= today + 1

\* Of a file last written MaxDays ago the time of day decides: it may be seen.
TooOld(n) == MaxDays # -1 /\ mtime[n] + MaxDays <= today

SeeOldLog(n) ==
  /\ sweeps > 0
  /\ Exists(n)
  /\ TooOld(n)
  /\ sweeps' = sweeps - 1
  /\ condemned' = [condemned EXCEPT ![n] = @ + 1]
  /\ UNCHANGED <<logVars, holder, fileVars, diskVars, today, failed, tally>>

\* os.Remove takes whatever file has the name by now; of a file that is open
\* only the name goes.
RemoveOldLog(n) ==
  /\ condemned[n] > 0
  /\ condemned' = [condemned EXCEPT ![n] = @ - 1]
  /\ sweeps' = sweeps + 1
  /\ IF Exists(n)
     THEN LET young == MaxDays = -1 \/ mtime[n] + MaxDays > today IN
          /\ disk' = [disk EXCEPT ![n] = NoFile]
          /\ mtime' = [mtime EXCEPT ![n] = 1]
          /\ fd' = IF n = Current /\ fd = "current" THEN "orphan" ELSE fd
          /\ lost' = IF young THEN lost + disk[n] ELSE lost
          /\ expired' = IF young THEN expired ELSE expired + disk[n]
     ELSE UNCHANGED <<diskVars, fd, lost, expired>>
  /\ UNCHANGED <<logVars, holder, counters, history, today, failed, acked>>

EndSweep ==
  /\ sweeps > 0
  /\ sweeps' = sweeps - 1
  /\ UNCHANGED <<logVars, holder, fileVars, diskVars, condemned, today, failed, tally>>

-----------------------------------------------------------------------------

\* A sweep lists one directory: it is taken to be over before the date changes.
Tick ==
  /\ today < MaxDate
  /\ sweeps = 0 /\ \A n \in Names : condemned[n] = 0
  /\ today' = today + 1
  /\ UNCHANGED <<logVars, holder, fileVars, diskVars, sweepVars, failed, tally>>

\* The process dies, with its goroutines, and starts again with Init (a start
\* whose newFile fails leaves no file adapter in the list of outputs).
Restart ==
  /\ pc' = [w \in Writers |-> "idle"]
  /\ when' = [w \in Writers |-> 1]
  /\ holder' = NoWriter
  /\ OpenFile("found")
  /\ sweeps' = 0
  /\ condemned' = [n \in Names |-> 0]
  /\ UNCHANGED <<calls, today, failed, tally>>

\* The first start of the process, in a directory without a current log; the
\* lines of the files that are there are not counted.
Init ==
  /\ pc = [w \in Writers |-> "idle"]
  /\ when = [w \in Writers |-> 1]
  /\ holder = NoWriter
  /\ fd = "current" /\ lines = 0 /\ bytes = 0 /\ openDate = 1
  /\ opened = "whole" /\ miscounted = 0 /\ began = 1 /\ origin = "created"
  /\ disk = [n \in Names |-> IF n \in Taken \cup {Current} THEN 0 ELSE NoFile]
  /\ mtime = [n \in Names |-> 1]
  /\ sweeps = 0
  /\ condemned = [n \in Names |-> 0]
  /\ today = 1
  /\ calls = 0 /\ failed = 0
  /\ acked = 0 /\ expired = 0 /\ lost = 0

\* A call that has been made goes on.
Advance(w) ==
  \/ Check(w) \/ Recheck(w)
  \/ RotateMissing(w) \/ RotateNoNumber(w) \/ RotateRename(w)
  \/ NewFile(w) \/ Write(w)

Next ==
  \/ \E w \in Writers : LogWrite(w) \/ Advance(w)
  \/ \E n \in Names : SeeOldLog(n) \/ RemoveOldLog(n)
  \/ EndSweep
  \/ Tick
  \/ Restart

\* sync.RWMutex hands the lock on in turn, so a goroutine that waits for it gets
\* it, however often it finds it taken (strong fairness); one that holds it goes on.
Fairness == \A w \in Writers : SF_vars(Advance(w))

Spec == Init /\ [][Next]_vars /\ Fairness

-----------------------------------------------------------------------------

\* TypeOK: the variables have their types; the lock is held exactly by the one
\* goroutine between renaming the file and opening the next (file.go:96-102).
TypeOK ==
  /\ pc \in [Writers -> {"idle", "check", "lock", "reopen", "write"}]
  /\ when \in [Writers -> Dates]
  /\ holder \in Writers \cup {NoWriter}
  /\ \A w \in Writers : pc[w] = "reopen" <=> holder = w
  /\ fd \in {"current", "orphan", "closed"}
  /\ lines \in Nat /\ bytes \in Nat
  /\ openDate \in Dates /\ began \in Dates
  /\ opened \in {"whole", "unstated", "uncounted"}
  /\ miscounted \in Nat /\ origin \in {"created", "found"}
  /\ disk \in [Names -> Nat \cup {NoFile}]
  /\ mtime \in [Names -> Dates]
  /\ sweeps \in Nat
  /\ condemned \in [Names -> Nat]
  /\ today \in Dates
  /\ calls \in Nat /\ failed \in Nat
  /\ acked \in Nat /\ expired \in Nat /\ lost \in Nat

\* CounterExact: through every rotation, restart and failure the size that is
\* kept is never below the size of the file, and is exact unless Stat failed when
\* the file was opened; the lines that are kept are exact unless Stat or the
\* counting failed.  A counter that falls short makes rotation late or never
\* (file.go:111, 142-156).
CounterExact ==
  /\ fd = "current" => Exists(Current)
  /\ fd = "orphan" => ~Exists(Current)
  /\ Exists(Current) => /\ disk[Current] <= bytes
                        /\ opened # "unstated" => disk[Current] = bytes
                        /\ opened = "whole" => disk[Current] = lines

\* LineBound: the check and the write are two critical sections, so goroutines
\* that checked together overshoot a limit by at most one line each less one, and
\* a failed rotation lets one more line through.  Only a file whose lines could
\* not be counted is filled anew up to "maxlines", never up to "maxsize"
\* (file.go:93-114, 142-156).
Overshoot == Cardinality(Writers) - 1
LineLimit == (MaxLines + Overshoot) * (1 + miscounted) + failed
SizeLimit == MaxSize + Overshoot + failed
LineBound ==
  /\ MaxLines > 0 => \A n \in Names : disk[n] <= LineLimit
  /\ MaxSize > 0 => \A n \in Names : disk[n] <= SizeLimit

\* FiledByDay: with "daily", as long as no rotation fails, a line goes to a file
\* of an earlier date only if both dates are the same day of their months.  The
\* date of a file is the one on which it was created; but a file that a restart
\* found counts from the date of the restart, whatever lines it holds
\* (file.go:76, 146-148).
FileDate == IF origin = "found" THEN openDate ELSE began
FiledByDay ==
  Daily /\ failed = 0 =>
    \A w \in Writers : pc[w] = "write" /\ when[w] > FileDate =>
      DayOf(when[w]) = DayOf(FileDate)

\* The lines in the files, each with the place it has in its file.
LinesOf(n) == {n} \X (1 .. disk[n])
LinesOnDisk == UNION {LinesOf(n) : n \in Names}

\* LinesAccounted: every line LogWrite returned nil for is in one file, or it
\* was deleted with its file; rotation never overwrites a file (file.go:205-226).
LinesAccounted == acked = expired + lost + Cardinality(LinesOnDisk)

\* KeepsCurrent: while no rotation fails the file that is being written keeps
\* its name, although the sweeps run beside the writers and remove by name
\* (file.go:237, 261-264).
KeepsCurrent == failed = 0 => fd # "orphan"

\* LogWriteReturns: every call returns, whoever else logs or rotates, and
\* whatever fails (file.go:82-116).
LogWriteReturns == \A w \in Writers : pc[w] # "idle" ~> pc[w] = "idle"

-----------------------------------------------------------------------------
\* The inductive invariants behind LineBound, KeepsCurrent and FiledByDay.

\* PendingBound: LineBound that counts the lines still to be written, and keeps
\* room for the line of the goroutine that rotates.
Writing == {w \in Writers : pc[w] = "write"}
Rotating == IF holder = NoWriter THEN 0 ELSE 1
Pending(limit) ==
  Exists(Current) => disk[Current] + Cardinality(Writing) + Rotating <= limit
PendingBound ==
  /\ MaxLines > 0 => Pending(LineLimit)
  /\ MaxSize > 0 => Pending(SizeLimit)

\* HiddenBound: the lines of the file that maxLinesCurLines does not count.
HiddenBound ==
  MaxLines > 0 /\ Exists(Current) =>
    disk[Current] <= lines + (MaxLines + Overshoot) * miscounted + failed

\* SweepsSpareCurrent: unless a rotation failed a sweep that is under way finds
\* the file that is being written younger than MaxDays; the goroutine that
\* rotates finds no file to open, and creates one.
Sweeping == sweeps > 0 \/ \E n \in Names : condemned[n] > 0
SweepsSpareCurrent ==
  failed = 0 => /\ condemned[Current] = 0
                /\ Sweeping /\ Exists(Current) => mtime[Current] = today
                /\ holder # NoWriter => ~Exists(Current)

\* TimesPast: a time that was noted is not in the future.
TimesPast == openDate <= today /\ \A w \in Writers : when[w] <= today

\* OpenDateKnown: unless a rotation failed the date that is kept is the one on
\* which the file was created, or taken over; a line that is about to be written
\* was compared with it.
OpenDateKnown ==
  Daily /\ failed = 0 =>
    /\ openDate = FileDate
    /\ \A w \in Writers : pc[w] = "write" /\ when[w] > openDate =>
         DayOf(when[w]) = DayOf(openDate)
=============================================================================
