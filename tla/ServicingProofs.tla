-------------------------- MODULE ServicingProofs --------------------------
(***************************************************************************)
(* What the servicing service keeps, for every number of loans, requests,  *)
(* loggers, payments and settled rows: an account's figures, the lines of  *)
(* its log file, and what a reconciliation report says.                    *)
(***************************************************************************)
EXTENDS LoanAccount, LogRetention, Reconciliation,
        FiniteSetTheorems, WellFoundedInduction, TLAPS

-----------------------------------------------------------------------------
(* The account (LoanAccount).                                             *)

(* Before any loan is boarded every account reads as zero (Init).          *)
LEMMA InitInv == Init => AccountInv
  BY AccountAssumption
  DEF Init, AccountInv, TypeOK, Request, PCs, ReadIsCurrent, UnboardedIsZero,
      BalanceKeepsEveryMovement, PastDueExactUnlessRaced

(* Each statement of each handler keeps types, figures read, and both      *)
(* columns' equations with what was asked of them (LoanAccount's Next).    *)
LEMMA StepInv == AccountInv /\ [Next]_vars => AccountInv'
<1> SUFFICES ASSUME AccountInv, [Next]_vars PROVE AccountInv'
  OBVIOUS
<1> USE AccountAssumption
        DEF AccountInv, TypeOK, Request, PCs, ReadIsCurrent, UnboardedIsZero,
            BalanceKeepsEveryMovement, PastDueExactUnlessRaced
<1>1. CASE UNCHANGED vars
  BY <1>1 DEF vars, columns, record
<1>2. ASSUME NEW l \in Loans, Board(l) PROVE AccountInv'
  BY <1>2 DEF Board, record
<1>3. ASSUME NEW r \in Requests, Quote(r) PROVE AccountInv'
  BY <1>3 DEF Quote, Read, columns, record
<1>4. ASSUME NEW r \in Requests, NEW v \in Corrections, Adjust(r, v) PROVE AccountInv'
  BY <1>4 DEF Adjust, Goto
<1>5. ASSUME NEW r \in Requests, AdjustMovesNothing(r) PROVE AccountInv'
  BY <1>5 DEF AdjustMovesNothing, Goto, columns, record
<1>6. ASSUME NEW r \in Requests, Refuse(r) PROVE AccountInv'
  BY <1>6 DEF Refuse, Read, columns, record
<1>7. ASSUME NEW r \in Requests, NEW a \in Amounts, ApplyPayment(r, a) PROVE AccountInv'
  BY <1>7 DEF ApplyPayment, Goto
<1>8. ASSUME NEW r \in Requests, NEW a \in Amounts, WaiveFee(r, a) PROVE AccountInv'
  <2>1. CASE req[r].loan \in boarded
    BY <1>8, <2>1 DEF WaiveFee, Goto, WritesPastDue, Assessing
  <2>2. CASE req[r].loan \notin boarded
    BY <1>8, <2>2 DEF WaiveFee, Goto
  <2> QED BY <2>1, <2>2
<1>9. ASSUME NEW r \in Requests, AssessRead(r) PROVE AccountInv'
  BY <1>9 DEF AssessRead, Read, columns, record
<1>10. ASSUME NEW r \in Requests, AssessWrite(r) PROVE AccountInv'
  <2>1. CASE req[r].loan \in boarded
    BY <1>10, <2>1 DEF AssessWrite, Goto, WritesPastDue, Assessing
  <2>2. CASE req[r].loan \notin boarded
    <3>1. /\ UNCHANGED <<columns, record, raced>>
          /\ req' = [req EXCEPT ![r].pc = "done"]
      BY <1>10, <2>2 DEF AssessWrite, Goto, columns, record
    <3>2. TypeOK'
      BY <3>1 DEF columns, record
    <3>3. ReadIsCurrent'
      BY <3>1 DEF columns
    <3> QED BY <3>1, <3>2, <3>3 DEF columns, record
  <2> QED BY <2>1, <2>2
<1>11. ASSUME NEW r \in Requests, Die(r) PROVE AccountInv'
  BY <1>11 DEF Die, Goto, columns, record
<1> QED BY <1>1, <1>2, <1>3, <1>4, <1>5, <1>6, <1>7, <1>8, <1>9, <1>10, <1>11 DEF Next

(* The inductive invariant of the account row.                             *)
THEOREM AccountInvHolds == Spec => []AccountInv
  BY InitInv, StepInv, PTL DEF Spec

(* No payment and no correction of the balance is ever overwritten         *)
(* (adjust_balance's compare-and-set, _APPLY_SQL's decrement).             *)
THEOREM BalanceIsExact == Spec => []BalanceKeepsEveryMovement
<1>1. AccountInv => BalanceKeepsEveryMovement
  BY DEF AccountInv
<1> QED BY <1>1, AccountInvHolds, PTL

(* Without a race past_due is exact (waive_fee, assess_late_fee).          *)
THEOREM PastDueIsExact == Spec => []PastDueExactUnlessRaced
<1>1. AccountInv => PastDueExactUnlessRaced
  BY DEF AccountInv
<1> QED BY <1>1, AccountInvHolds, PTL

(* The account row, its ledgers and its requests keep their types         *)
(* (the columns and locals that balance.py and delinquency.py work on).    *)
THEOREM TypeCorrect == Spec => []TypeOK
<1>1. AccountInv => TypeOK
  BY DEF AccountInv
<1> QED BY <1>1, AccountInvHolds, PTL

-----------------------------------------------------------------------------
(* The log file (LogRetention).                                            *)

(* What the names and the times of the files say on some day.              *)
FilesOK(fs, day) ==
    /\ DOMAIN fs \subseteq Nat \cup {Active}
    /\ \A n \in DOMAIN fs : fs[n].touched \in Nat /\ fs[n].touched <= day
    /\ \A n \in Backups(fs) : n < day /\ fs[n].touched = n
    /\ Active \in DOMAIN fs => \A n \in Backups(fs) : n < fs[Active].touched

(* A file's lines were all written on the day it was last written on, but  *)
(* for those from before rotation, of which the newest was.                *)
LinesOK(fs) ==
    \A n \in DOMAIN fs :
        /\ \A x \in fs[n].lines : x.by # NoWriter => x.day = fs[n].touched
        /\ fs[n].lines # {} => \E x \in fs[n].lines : x.day = fs[n].touched

Holds(fs, day) ==
    \A x \in logged : x.day > day - Retention => \E n \in DOMAIN fs : x \in fs[n].lines

Fresh(fs, day) == \A n \in DOMAIN fs : fs[n].touched > day - Retention

(* The process's one writer has the active file open, and is to roll over  *)
(* on the day after the one it was last written on.                        *)
OneWriter ==
    \A l \in Loggers : writer[l] # NoWriter =>
        /\ \A k \in Loggers : writer[k] # NoWriter => writer[k] = writer[l]
        /\ Active \in DOMAIN files
        /\ handler[writer[l]].due = files[Active].touched + 1
        /\ handler[writer[l]].to = Active

LogTypeOK ==
    /\ today \in Nat /\ disposed \in Nat /\ disposed <= today
    /\ writer \in [Loggers -> Loggers \cup {NoWriter}]
    /\ handler \in [Loggers -> [due : Nat, to : Int]]
    /\ \A x \in logged : x.by \in Loggers /\ x.day \in Nat /\ x.day <= today

LogInv ==
    /\ LogTypeOK
    /\ FilesOK(files, today)
    /\ LinesOK(files)
    /\ Holds(files, today)
    /\ Fresh(files, disposed)
    /\ OneWriter

-----------------------------------------------------------------------------
(* The order of the natural numbers, for the lemma that follows.           *)
LEMMA LessIsWellFounded == IsWellFoundedOn({ss \in Nat \X Nat : ss[1] < ss[2]}, Nat)
  BY NatLessThanWellFounded DEF OpToRel

(* A set of days has a newest.                                             *)
LEMMA NewestDay ==
  ASSUME NEW n \in Nat, NEW D \in SUBSET (0 .. n), D # {}
  PROVE \E d \in D : \A e \in D : e <= d
<1> DEFINE R == {ss \in Nat \X Nat : ss[1] < ss[2]}
           U == {n - d : d \in D}
<1>1. IsWellFoundedOn(R, Nat)
  BY LessIsWellFounded
<1>2. U \subseteq Nat /\ U # {}
  <2>1. \A d \in D : n - d \in Nat
    OBVIOUS
  <2>2. PICK d \in D : TRUE
    OBVIOUS
  <2>3. n - d \in U
    OBVIOUS
  <2> QED BY <2>1, <2>3
<1>3. PICK u \in U : \A v \in U : ~ (<<v, u>> \in R)
  <2> HIDE DEF R, U
  <2> QED BY <1>1, <1>2, WFMin
<1>4. PICK d \in D : u = n - d
  OBVIOUS
<1>5. ASSUME NEW e \in D PROVE e <= d
  <2>1. n - e \in U /\ n - e \in Nat /\ u \in Nat
    BY <1>2
  <2>2. ~ (<<n - e, u>> \in R) /\ <<n - e, u>> \in Nat \X Nat
    BY <2>1, <1>3
  <2>3. ~ (n - e < u)
    BY <2>2
  <2> QED BY <2>3, <1>4
<1> QED BY <1>5

(* What disposing of files leaves.                                         *)
LEMMA WithoutIs ==
  ASSUME NEW fs, NEW names
  PROVE /\ DOMAIN Without(fs, names) = DOMAIN fs \ names
        /\ \A n \in DOMAIN fs \ names : Without(fs, names)[n] = fs[n]
  BY DEF Without, Restrict

(* Disposing of files leaves the rest as they were.                        *)
LEMMA DisposalLeaves ==
  ASSUME NEW fs, NEW names, NEW day \in Nat, FilesOK(fs, day), LinesOK(fs)
  PROVE FilesOK(Without(fs, names), day) /\ LinesOK(Without(fs, names))
<1> DEFINE gs == Without(fs, names)
<1>1. DOMAIN gs = DOMAIN fs \ names /\ \A n \in DOMAIN gs : gs[n] = fs[n]
  <2>1. /\ DOMAIN Without(fs, names) = DOMAIN fs \ names
        /\ \A n \in DOMAIN fs \ names : Without(fs, names)[n] = fs[n]
    BY WithoutIs, Zenon
  <2> QED BY <2>1, Zenon
<1> HIDE DEF gs
<1>2. FilesOK(gs, day)
  BY <1>1 DEF FilesOK, Backups
<1>3. LinesOK(gs)
  BY <1>1 DEF LinesOK
<1> QED BY <1>2, <1>3 DEF gs

(* Disposing of files last written on before the window loses no line in   *)
(* the window, however the files were chosen.                              *)
LEMMA DisposalHolds ==
  ASSUME NEW fs, NEW names, NEW day \in Nat, LinesOK(fs), Holds(fs, day),
         \A x \in logged : x.by \in Loggers,
         \A n \in names \cap DOMAIN fs : fs[n].touched <= day - Retention,
         \A n \in DOMAIN fs : fs[n].touched \in Nat
  PROVE Holds(Without(fs, names), day)
<1> DEFINE gs == Without(fs, names)
<1>1. DOMAIN gs = DOMAIN fs \ names /\ \A n \in DOMAIN gs : gs[n] = fs[n]
  <2>1. /\ DOMAIN Without(fs, names) = DOMAIN fs \ names
        /\ \A n \in DOMAIN fs \ names : Without(fs, names)[n] = fs[n]
    BY WithoutIs, Zenon
  <2> QED BY <2>1, Zenon
<1> HIDE DEF gs
<1>2. ASSUME NEW x \in logged, x.day > day - Retention
      PROVE \E n \in DOMAIN gs : x \in gs[n].lines
  <2>1. PICK n \in DOMAIN fs : x \in fs[n].lines
    BY <1>2 DEF Holds
  <2>2. x.by # NoWriter
    BY LogAssumption
  <2>3. x.day = fs[n].touched
    BY <2>1, <2>2 DEF LinesOK
  <2>4. n \notin names
    BY <2>3, <1>2, LogAssumption
  <2> QED BY <2>1, <2>4, <1>1
<1> QED BY <1>2 DEF Holds, gs

(* What the library's own count disposes of had left the window: backups   *)
(* are named for different days before today.                              *)
LEMMA SurplusIsOverdue ==
  ASSUME NEW fs, NEW day \in Nat, FilesOK(fs, day), NEW n \in Surplus(fs)
  PROVE n <= day - Retention
<1> DEFINE Later == {m \in Backups(fs) : m > n}
<1>1. n \in Nat /\ n < day /\ Cardinality(Later) >= Retention
  BY DEF Surplus, FilesOK, Backups
<1>2. Later \subseteq (n + 1) .. (day - 1)
  BY <1>1 DEF FilesOK, Backups
<1>3. IsFiniteSet((n + 1) .. (day - 1)) /\ Cardinality((n + 1) .. (day - 1)) = day - 1 - n
  <2>1. n + 1 \in Int /\ day - 1 \in Int /\ n + 1 <= day /\ (day - 1) - (n + 1) + 1 = day - 1 - n
    BY <1>1
  <2>2. /\ IsFiniteSet((n + 1) .. (day - 1))
        /\ Cardinality((n + 1) .. (day - 1)) = IF n + 1 > day - 1 THEN 0 ELSE (day - 1) - (n + 1) + 1
    BY <2>1, FS_Interval
  <2> QED BY <2>1, <2>2, <1>1
<1>4. Cardinality(Later) <= day - 1 - n /\ Cardinality(Later) \in Nat
  <2> HIDE DEF Later
  <2> QED BY <1>2, <1>3, FS_Subset, FS_CardinalityType
<1>5. PICK c \in Nat : c = Cardinality(Later)
  BY <1>4
<1> QED BY <1>1, <1>4, <1>5, LogAssumption

-----------------------------------------------------------------------------
(* A file from before rotation, or none, and no writer.                    *)
LEMMA StartInv == LogInit => LogInv
<1> SUFFICES ASSUME LogInit PROVE LogInv
  OBVIOUS
<1> USE LogAssumption
<1>1. LogTypeOK /\ OneWriter
  BY DEF LogInit, LogTypeOK, OneWriter, NoHandler, Gone
<1>2. PICK D \in Inherited :
        files = [n \in IF D = {} THEN {} ELSE {Active} |->
                    [lines |-> {[day |-> d, by |-> NoWriter] : d \in D},
                     touched |-> CHOOSE d \in D : \A e \in D : e <= d]]
  BY DEF LogInit
<1>3. CASE D = {}
  <2>1. DOMAIN files = {}
    BY <1>2, <1>3
  <2>2. FilesOK(files, today) /\ LinesOK(files) /\ Holds(files, today) /\ Fresh(files, disposed)
    BY <2>1 DEF LogInit, FilesOK, LinesOK, Holds, Fresh, Backups
  <2> QED BY <1>1, <2>2 DEF LogInv
<1>4. CASE D # {}
  <2> DEFINE newest == CHOOSE d \in D : \A e \in D : e <= d
  <2>1. \E d \in D : \A e \in D : e <= d
    BY <1>4, NewestDay
  <2>2. newest \in D
    BY <2>1
  <2>3. newest \in Nat /\ newest <= FirstDay
    BY <2>2
  <2>4. /\ DOMAIN files = {Active}
        /\ files[Active] = [lines |-> {[day |-> d, by |-> NoWriter] : d \in D}, touched |-> newest]
    BY <1>2, <1>4
  <2> HIDE DEF newest
  <2>5. files[Active].lines = {[day |-> d, by |-> NoWriter] : d \in D} /\ files[Active].touched = newest
    BY <2>4
  <2>6. FilesOK(files, today)
    BY <2>3, <2>4, <2>5 DEF FilesOK, Backups, LogInit
  <2>7. LinesOK(files)
    <3>1. [day |-> newest, by |-> NoWriter] \in files[Active].lines
      BY <2>2, <2>5
    <3>2. \A x \in files[Active].lines : x.by = NoWriter
      BY <2>5
    <3>3. \E x \in files[Active].lines : x.day = files[Active].touched
      BY <2>5, <3>1
    <3> QED BY <2>4, <3>2, <3>3 DEF LinesOK
  <2>8. Holds(files, today) /\ Fresh(files, disposed)
    <3>1. logged = {} /\ disposed = 0
      BY DEF LogInit
    <3>2. \A n \in DOMAIN files : files[n].touched = newest
      BY <2>4, <2>5
    <3>3. newest > 0 - Retention
      BY <2>3
    <3> QED BY <3>1, <3>2, <3>3 DEF Holds, Fresh
  <2> QED BY <1>1, <2>6, <2>7, <2>8 DEF LogInv
<1> QED BY <1>3, <1>4

(* Making the one writer keeps the invariant: the active file it opens is  *)
(* the one that was there, unless that one had left the window whole.      *)
LEMMA MakeHandlerKeeps ==
  ASSUME LogInv, NEW l \in Loggers, Shared = {}, MakeHandler(l), UNCHANGED <<today, logged>>
  PROVE LogInv'
<1> DEFINE stale == {n \in DOMAIN files \cap {Active} : Overdue(files[n].touched)}
           left == Without(files, stale)
           open == Opened(left)
           expired == ExpiredFiles(open)
<1> USE LogAssumption
<1>1. /\ files' = Without(open, expired)
      /\ handler' = Follow([handler EXCEPT ![l] = [due |-> open[Active].touched + 1, to |-> Active]], files')
      /\ writer' = [writer EXCEPT ![l] = l]
      /\ disposed' = today
  BY DEF MakeHandler
<1>2. FilesOK(left, today) /\ LinesOK(left)
  BY DisposalLeaves DEF LogInv, LogTypeOK
<1>3. Holds(left, today)
  <2>1. \A n \in stale \cap DOMAIN files : files[n].touched <= today - Retention
    BY DEF Overdue
  <2>2. today \in Nat /\ LinesOK(files) /\ Holds(files, today) /\ (\A x \in logged : x.by \in Loggers)
        /\ (\A n \in DOMAIN files : files[n].touched \in Nat)
    BY DEF LogInv, LogTypeOK, FilesOK
  <2> HIDE DEF stale
  <2> QED BY <2>1, <2>2, DisposalHolds
<1>4. Active \in DOMAIN left => left[Active].touched > today - Retention
  <2>1. ASSUME Active \in DOMAIN left PROVE left[Active].touched > today - Retention
    <3>1. DOMAIN left = DOMAIN files \ stale /\ left[Active] = files[Active]
      BY <2>1, WithoutIs
    <3>2. ~ Overdue(files[Active].touched)
      BY <2>1, <3>1
    <3> QED BY <3>1, <3>2, <2>1 DEF Overdue, LogInv, FilesOK, LogTypeOK
  <2> QED BY <2>1
<1> HIDE DEF left
<1>5. /\ DOMAIN open = DOMAIN left \cup {Active}
      /\ \A n \in DOMAIN left : open[n] = left[n]
      /\ Active \notin DOMAIN left => open[Active] = [lines |-> {}, touched |-> today]
  BY DEF Opened
<1> HIDE DEF open
<1>6. today \in Nat
  BY DEF LogInv, LogTypeOK
<1>7. FilesOK(open, today)
  <2>1. CASE Active \in DOMAIN left
    BY <2>1, <1>2, <1>5, <1>6 DEF FilesOK, Backups
  <2>2. CASE Active \notin DOMAIN left
    BY <2>2, <1>2, <1>5, <1>6 DEF FilesOK, Backups, Active
  <2> QED BY <2>1, <2>2
<1>8. LinesOK(open)
  BY <1>2, <1>5 DEF LinesOK
<1>9. Holds(open, today)
  BY <1>3, <1>5 DEF Holds
<1>10. open[Active].touched > today - Retention
  BY <1>4, <1>5, <1>6
<1>11. \A n \in expired \cap DOMAIN open : open[n].touched <= today - Retention
  BY <1>7 DEF ExpiredFiles, Overdue, FilesOK
<1>12. Active \notin expired
  BY DEF ExpiredFiles, Backups
<1>13. \A n \in DOMAIN open \ expired : n # Active => open[n].touched > today - Retention
  BY <1>6, <1>7 DEF FilesOK, ExpiredFiles, Overdue, Backups
<1> HIDE DEF expired
<1>14. FilesOK(files', today) /\ LinesOK(files')
  BY <1>1, <1>6, <1>7, <1>8, DisposalLeaves
<1>15. Holds(files', today)
  <2>1. \A n \in DOMAIN open : open[n].touched \in Nat
    BY <1>7 DEF FilesOK
  <2>2. \A x \in logged : x.by \in Loggers
    BY DEF LogInv, LogTypeOK
  <2>3. Holds(Without(open, expired), today)
    BY <1>6, <1>8, <1>9, <1>11, <2>1, <2>2, DisposalHolds
  <2> QED BY <2>3, <1>1
<1>16. /\ DOMAIN files' = DOMAIN open \ expired
       /\ \A n \in DOMAIN files' : files'[n] = open[n]
  <2>1. /\ DOMAIN Without(open, expired) = DOMAIN open \ expired
        /\ \A n \in DOMAIN open \ expired : Without(open, expired)[n] = open[n]
    BY WithoutIs
  <2> QED BY <1>1, <2>1
<1>17. Fresh(files', today)
  BY <1>10, <1>13, <1>16 DEF Fresh
<1>18. OneWriter'
  <2>1. \A k \in Loggers : writer[k] = NoWriter
    BY DEF Shared
  <2>2. \A k \in Loggers : writer'[k] # NoWriter => k = l /\ writer'[k] = l
    BY <1>1, <2>1 DEF LogInv, LogTypeOK
  <2>3. Active \in DOMAIN files' /\ files'[Active] = open[Active]
    BY <1>5, <1>12, <1>16
  <2>4. handler'[l] = [due |-> open[Active].touched + 1, to |-> Active]
    BY <1>1, <2>3 DEF Follow, LogInv, LogTypeOK
  <2> QED BY <2>2, <2>3, <2>4 DEF OneWriter
<1>19. LogTypeOK'
  <2>1. writer' \in [Loggers -> Loggers \cup {NoWriter}]
    BY <1>1 DEF LogInv, LogTypeOK
  <2>2. open[Active].touched + 1 \in Nat
    BY <1>5, <1>7 DEF FilesOK
  <2>3. [due |-> open[Active].touched + 1, to |-> Active] \in [due : Nat, to : Int]
    BY <2>2 DEF Active
  <2>4. handler' \in [Loggers -> [due : Nat, to : Int]]
    BY <1>1, <2>3 DEF LogInv, LogTypeOK, Follow, Gone
  <2>5. today' = today /\ logged' = logged /\ disposed' = today /\ today <= today
    BY <1>1, <1>6
  <2> QED BY <2>1, <2>4, <2>5 DEF LogInv, LogTypeOK
<1> QED BY <1>1, <1>14, <1>15, <1>17, <1>18, <1>19 DEF LogInv, Holds

(* Before a line is written, the active file is today's: a rollover that   *)
(* is due is never refused for a backup that is there already.             *)
LEMMA ReadyToWrite ==
  ASSUME LogInv, NEW l \in Loggers, writer[l] # NoWriter, NEW h, h = writer[l]
  PROVE /\ FilesOK(FilesAfter(h), today) /\ LinesOK(FilesAfter(h))
        /\ Holds(FilesAfter(h), today)
        /\ Active \in DOMAIN FilesAfter(h) /\ FilesAfter(h)[Active].touched = today
        /\ Fresh(FilesAfter(h), IF RollsOver(h) THEN today ELSE disposed)
        /\ HandlersAfter(h) \in [Loggers -> [due : Nat, to : Int]]
        /\ HandlersAfter(h)[h].due = today + 1 /\ HandlersAfter(h)[h].to = Active
<1> USE LogAssumption
<1> DEFINE day == files[Active].touched
<1>1. /\ h \in Loggers /\ Active \in DOMAIN files
      /\ handler[h].due = day + 1 /\ handler[h].to = Active
      /\ today \in Nat /\ handler \in [Loggers -> [due : Nat, to : Int]]
  BY DEF LogInv, LogTypeOK, OneWriter
<1>2. day \in Nat /\ day <= today
  BY <1>1 DEF LogInv, FilesOK
<1>3. day \notin DOMAIN files
  BY <1>1, <1>2 DEF LogInv, FilesOK, Backups, Active
<1>4. FilesOK(files, today) /\ LinesOK(files) /\ Holds(files, today) /\ Fresh(files, disposed)
  BY DEF LogInv
<1>5. handler[h].due - 1 = day
  BY <1>1, <1>2
<1>6. RollsOver(h) <=> today > day
  BY <1>1, <1>2, <1>3, <1>5 DEF RollsOver
<1>7. CASE ~ RollsOver(h)
  <2>1. FilesAfter(h) = files /\ HandlersAfter(h) = handler
    BY <1>7 DEF FilesAfter, HandlersAfter
  <2>2. day = today
    BY <1>6, <1>7, <1>1, <1>2
  <2> QED BY <2>1, <2>2, <1>1, <1>4, <1>7
<1>8. CASE RollsOver(h)
  <2> DEFINE fs == Rotated(day)
             gone == FilesToDelete(fs)
             gs == Without(fs, gone)
  <2>1. /\ DOMAIN fs = DOMAIN files \cup {day}
        /\ fs[day] = files[Active]
        /\ fs[Active] = [lines |-> {}, touched |-> today]
        /\ \A n \in DOMAIN files \ {Active} : fs[n] = files[n]
    BY <1>1, <1>2, <1>3 DEF Rotated, Active
  <2>2. FilesAfter(h) = gs
    BY <1>5, <1>8 DEF FilesAfter
  <2> HIDE DEF fs
  <2>3. today > day
    BY <1>6, <1>8
  <2>4. FilesOK(fs, today)
    <3>1. DOMAIN fs \subseteq Nat \cup {Active}
      BY <1>2, <1>4, <2>1 DEF FilesOK
    <3>2. \A n \in DOMAIN fs : n = day \/ n = Active \/ n \in DOMAIN files \ {Active}
      BY <2>1
    <3>3. \A n \in DOMAIN fs : fs[n].touched \in Nat /\ fs[n].touched <= today
      BY <1>1, <1>2, <1>4, <2>1, <3>2 DEF FilesOK
    <3>4. \A n \in Backups(fs) : n < today /\ fs[n].touched = n
      BY <1>2, <1>4, <2>1, <2>3, <3>2 DEF FilesOK, Backups
    <3>5. fs[Active].touched = today
      BY <2>1
    <3> QED BY <3>1, <3>3, <3>4, <3>5 DEF FilesOK
  <2>5. LinesOK(fs)
    <3>1. ASSUME NEW n \in DOMAIN fs
          PROVE /\ \A x \in fs[n].lines : x.by # NoWriter => x.day = fs[n].touched
                /\ fs[n].lines # {} => \E x \in fs[n].lines : x.day = fs[n].touched
      <4>1. CASE n = Active
        BY <4>1, <2>1
      <4>2. CASE n = day
        BY <4>2, <1>1, <1>4, <2>1 DEF LinesOK
      <4>3. CASE n \in DOMAIN files \ {Active}
        BY <4>3, <1>4, <2>1 DEF LinesOK
      <4> QED BY <4>1, <4>2, <4>3, <2>1
    <3> QED BY <3>1 DEF LinesOK
  <2>6. Holds(fs, today)
    <3>1. ASSUME NEW x \in logged, NEW n \in DOMAIN files, x \in files[n].lines
          PROVE \E m \in DOMAIN fs : x \in fs[m].lines
      <4>1. CASE n = Active
        BY <3>1, <4>1, <2>1
      <4>2. CASE n # Active
        BY <3>1, <4>2, <2>1
      <4> QED BY <4>1, <4>2
    <3> QED BY <3>1, <1>4 DEF Holds
  <2>7. \A n \in gone : n \in Backups(fs) /\ fs[n].touched <= today - Retention
    <3>1. \A n \in Surplus(fs) : n <= today - Retention
      BY <1>1, <2>4, SurplusIsOverdue
    <3>2. \A n \in ExpiredFiles(fs) : n <= today - Retention
      BY DEF ExpiredFiles, Overdue
    <3>3. \A n \in gone : n \in Backups(fs) /\ n <= today - Retention
      BY <3>1, <3>2 DEF FilesToDelete, Surplus, ExpiredFiles
    <3>4. \A n \in Backups(fs) : fs[n].touched = n
      BY <2>4 DEF FilesOK
    <3> QED BY <3>3, <3>4
  <2>8. \A n \in DOMAIN fs \ gone : fs[n].touched > today - Retention
    <3>1. \A n \in DOMAIN fs \ gone : n # Active => ~ Overdue(n)
      BY DEF FilesToDelete, ExpiredFiles, Backups
    <3> QED BY <1>1, <2>1, <2>4, <3>1 DEF FilesOK, Backups, Overdue
  <2> HIDE DEF gone
  <2>9. /\ DOMAIN gs = DOMAIN fs \ gone
        /\ \A n \in DOMAIN fs \ gone : gs[n] = fs[n]
    BY WithoutIs
  <2>10. FilesOK(gs, today) /\ LinesOK(gs)
    BY <1>1, <2>4, <2>5, DisposalLeaves
  <2>11. Holds(gs, today)
    <3>1. \A x \in logged : x.by \in Loggers
      BY DEF LogInv, LogTypeOK
    <3>2. \A n \in DOMAIN fs : fs[n].touched \in Nat
      BY <2>4 DEF FilesOK
    <3>3. \A n \in gone \cap DOMAIN fs : fs[n].touched <= today - Retention
      BY <2>7
    <3> QED BY <1>1, <2>5, <2>6, <3>1, <3>2, <3>3, DisposalHolds
  <2>12. Active \in DOMAIN gs /\ gs[Active].touched = today
    <3>1. Active \notin gone
      BY <2>7 DEF Backups
    <3> QED BY <1>1, <2>1, <2>9, <3>1
  <2>13. Fresh(gs, today)
    BY <2>8, <2>9 DEF Fresh
  <2> HIDE DEF gs
  <2> DEFINE hs == [k \in Loggers |->
                      IF k = h THEN [due |-> today + 1, to |-> Active]
                      ELSE IF handler[k].to = Active THEN [handler[k] EXCEPT !.to = handler[h].due - 1]
                      ELSE handler[k]]
  <2>14. HandlersAfter(h) = Follow(hs, gs)
    BY <1>8, <2>2 DEF HandlersAfter
  <2>15. hs \in [Loggers -> [due : Nat, to : Int]]
    BY <1>1, <1>2, <1>5 DEF Active
  <2>16. hs[h] = [due |-> today + 1, to |-> Active]
    BY <1>1
  <2> HIDE DEF hs
  <2>17. Follow(hs, gs) \in [Loggers -> [due : Nat, to : Int]]
    BY <2>15 DEF Follow, Gone
  <2>18. Follow(hs, gs)[h] = hs[h]
    BY <1>1, <2>12, <2>16 DEF Follow
  <2> QED BY <1>8, <2>2, <2>10, <2>11, <2>12, <2>13, <2>14, <2>16, <2>17, <2>18
<1> QED BY <1>7, <1>8

(* A line written keeps the invariant.                                     *)
LEMMA EmitKeeps ==
  ASSUME LogInv, NEW l \in Loggers, Emit(l) PROVE LogInv'
<1> DEFINE h == writer[l]
           fs == FilesAfter(h)
           line == [day |-> today, by |-> l]
           end == IF RollsOver(h) THEN today ELSE disposed
<1> USE LogAssumption
<1>1. /\ FilesOK(fs, today) /\ LinesOK(fs) /\ Holds(fs, today)
      /\ Active \in DOMAIN fs /\ fs[Active].touched = today
      /\ Fresh(fs, end)
      /\ HandlersAfter(h) \in [Loggers -> [due : Nat, to : Int]]
      /\ HandlersAfter(h)[h].due = today + 1 /\ HandlersAfter(h)[h].to = Active
  BY ReadyToWrite DEF Emit
<1>2. /\ handler' = HandlersAfter(h)
      /\ files' = [n \in DOMAIN fs |->
                     IF n = Active THEN [lines |-> fs[n].lines \cup {line}, touched |-> today]
                     ELSE fs[n]]
      /\ logged' = logged \cup {line}
      /\ disposed' = end
      /\ today' = today /\ writer' = writer
  BY <1>1 DEF Emit
<1>3. /\ DOMAIN files' = DOMAIN fs
      /\ files'[Active].lines = fs[Active].lines \cup {line}
      /\ files'[Active].touched = today
      /\ \A n \in DOMAIN fs \ {Active} : files'[n] = fs[n]
  BY <1>1, <1>2
<1>4. today \in Nat /\ disposed \in Nat /\ disposed <= today /\ end \in Nat /\ end <= today
  BY DEF LogInv, LogTypeOK
<1> HIDE DEF fs, end
<1>5. \A n \in DOMAIN fs : files'[n].touched = fs[n].touched
  BY <1>1, <1>3
<1>6. FilesOK(files', today)
  BY <1>1, <1>3, <1>5 DEF FilesOK, Backups
<1>7. LinesOK(files')
  <2>1. ASSUME NEW n \in DOMAIN fs
        PROVE /\ \A x \in files'[n].lines : x.by # NoWriter => x.day = files'[n].touched
              /\ files'[n].lines # {} => \E x \in files'[n].lines : x.day = files'[n].touched
    <3>1. CASE n = Active
      <4>1. \A x \in fs[n].lines : x.by # NoWriter => x.day = today
        BY <1>1, <3>1 DEF LinesOK
      <4>2. line.day = today
        OBVIOUS
      <4> QED BY <4>1, <4>2, <3>1, <1>3
    <3>2. CASE n # Active
      BY <3>2, <1>1, <1>3 DEF LinesOK
    <3> QED BY <3>1, <3>2
  <2> QED BY <2>1, <1>3 DEF LinesOK
<1>8. Holds(files, today)'
  <2>1. ASSUME NEW x \in logged', x.day > today - Retention
        PROVE \E n \in DOMAIN files' : x \in files'[n].lines
    <3>1. CASE x = line
      BY <3>1, <1>1, <1>3
    <3>2. CASE x # line
      <4>1. x \in logged
        BY <3>2, <1>2
      <4>2. PICK n \in DOMAIN fs : x \in fs[n].lines
        BY <2>1, <4>1, <1>1 DEF Holds
      <4>3. x \in files'[n].lines
        <5>1. CASE n = Active
          BY <5>1, <4>2, <1>3
        <5>2. CASE n # Active
          BY <5>2, <4>2, <1>3
        <5> QED BY <5>1, <5>2
      <4> QED BY <4>2, <4>3, <1>3
    <3> QED BY <3>1, <3>2
  <2> QED BY <2>1, <1>2 DEF Holds
<1>9. Fresh(files', end)
  BY <1>1, <1>3, <1>5 DEF Fresh
<1>10. OneWriter'
  <2>1. \A k \in Loggers : writer[k] # NoWriter => writer[k] = h
    BY DEF LogInv, OneWriter, Emit
  <2>2. handler'[h].due = files'[Active].touched + 1 /\ handler'[h].to = Active
    BY <1>1, <1>2, <1>3
  <2> QED BY <2>1, <2>2, <1>1, <1>2, <1>3 DEF OneWriter
<1>11. LogTypeOK'
  <2>1. \A x \in logged' : x.by \in Loggers /\ x.day \in Nat /\ x.day <= today
    BY <1>2, <1>4 DEF LogInv, LogTypeOK
  <2> QED BY <2>1, <1>1, <1>2, <1>4 DEF LogInv, LogTypeOK
<1> QED BY <1>2, <1>6, <1>7, <1>8, <1>9, <1>10, <1>11 DEF LogInv

(* A day may take lines out of the window, and puts none back.             *)
LEMMA DayKeeps ==
  ASSUME LogInv, DayPasses PROVE LogInv'
<1> USE LogAssumption
<1>1. /\ today \in Nat /\ today' = today + 1
      /\ UNCHANGED <<files, writer, handler, logged, disposed>>
  BY DEF DayPasses, LogInv, LogTypeOK
<1>2. LogTypeOK' /\ OneWriter'
  BY <1>1 DEF LogInv, LogTypeOK, OneWriter
<1>3. FilesOK(files, today)'
  BY <1>1 DEF LogInv, FilesOK, Backups
<1>4. Holds(files, today)'
  BY <1>1 DEF LogInv, LogTypeOK, Holds
<1>5. LinesOK(files)' /\ Fresh(files, disposed)'
  BY <1>1 DEF LogInv, LinesOK, Fresh
<1> QED BY <1>2, <1>3, <1>4, <1>5 DEF LogInv

(* Every step keeps the invariant.                                         *)
LEMMA LogStep == LogInv /\ [LogNext]_logVars => LogInv'
<1> SUFFICES ASSUME LogInv, [LogNext]_logVars PROVE LogInv'
  OBVIOUS
<1>1. CASE UNCHANGED logVars
  BY <1>1 DEF logVars, LogInv, LogTypeOK, FilesOK, LinesOK, Holds, Fresh, OneWriter, Backups
<1>2. ASSUME NEW l \in Loggers, GetLogger(l) PROVE LogInv'
  <2>1. CASE Shared = {} /\ MakeHandler(l)
    BY <2>1, <1>2, MakeHandlerKeeps DEF GetLogger
  <2>2. CASE /\ \E h \in Shared : writer' = [writer EXCEPT ![l] = h]
             /\ UNCHANGED <<files, handler, disposed>>
    <3>1. UNCHANGED <<files, handler, disposed, today, logged>>
      BY <2>2, <1>2 DEF GetLogger
    <3>2. PICK h \in Shared : writer' = [writer EXCEPT ![l] = h]
      BY <2>2
    <3>3. PICK k \in Loggers : h = writer[k] /\ h # NoWriter
      BY DEF Shared
    <3>4. h \in Loggers
      BY <3>3 DEF LogInv, LogTypeOK
    <3>5. \A j \in Loggers : writer'[j] # NoWriter => writer'[j] = h
      BY <3>2, <3>3 DEF LogInv, LogTypeOK, OneWriter
    <3>6. /\ Active \in DOMAIN files
          /\ handler[h].due = files[Active].touched + 1
          /\ handler[h].to = Active
      BY <3>3 DEF LogInv, OneWriter
    <3>7. OneWriter'
      BY <3>1, <3>5, <3>6 DEF OneWriter
    <3>8. writer' \in [Loggers -> Loggers \cup {NoWriter}]
      BY <3>2, <3>4 DEF LogInv, LogTypeOK
    <3> QED BY <3>1, <3>7, <3>8 DEF LogInv, LogTypeOK, FilesOK, LinesOK, Holds, Fresh, Backups
  <2> QED BY <2>1, <2>2, <1>2 DEF GetLogger
<1>3. ASSUME NEW l \in Loggers, Emit(l) PROVE LogInv'
  BY <1>3, EmitKeeps
<1>4. CASE ProcessEnds
  <2>1. /\ \A l \in Loggers : writer'[l] = NoWriter
        /\ UNCHANGED <<today, files, logged, disposed>>
    BY <1>4 DEF ProcessEnds
  <2>2. LogTypeOK'
    BY <1>4, <2>1 DEF ProcessEnds, LogInv, LogTypeOK, NoHandler, Gone
  <2>3. OneWriter'
    BY <2>1 DEF OneWriter
  <2> QED BY <2>1, <2>2, <2>3 DEF LogInv, FilesOK, LinesOK, Holds, Fresh, Backups
<1>5. CASE DayPasses
  BY <1>5, DayKeeps
<1> QED BY <1>1, <1>2, <1>3, <1>4, <1>5 DEF LogNext

(* A line is on disk for as long as it is in the window, and not after the *)
(* disposal that follows, for any number of loggers and any window.        *)
THEOREM LinesAreKeptForTheirTerm == LogSpec => []KeptForItsTerm
<1>1. LogInv => KeptForItsTerm
  <2> SUFFICES ASSUME LogInv PROVE KeptForItsTerm
    OBVIOUS
  <2> USE LogAssumption
  <2>1. \A x \in logged : ~ Overdue(x.day) => \E n \in DOMAIN files : x \in files[n].lines
    BY DEF LogInv, LogTypeOK, Holds, Overdue
  <2>2. ASSUME NEW n \in DOMAIN files
        PROVE /\ \A x \in files[n].lines \cap logged : x.day > disposed - Retention
              /\ files[n].lines # {} => \E x \in files[n].lines : x.day > disposed - Retention
    <3>1. files[n].touched > disposed - Retention
      BY DEF LogInv, Fresh
    <3>2. \A x \in logged : x.by # NoWriter
      BY DEF LogInv, LogTypeOK
    <3> QED BY <3>1, <3>2 DEF LogInv, LinesOK
  <2> QED BY <2>1, <2>2 DEF KeptForItsTerm, LinesOf
<1> QED BY <1>1, StartInv, LogStep, PTL DEF LogSpec

-----------------------------------------------------------------------------
(* The reconciliation (Reconciliation).  Its loops over sorted lists are   *)
(* folds over finite sets: what they compute is shown on a set with the    *)
(* fewest elements among those for which it would be otherwise.            *)

(* A set of natural numbers has a least element.                           *)
LEMMA Least ==
  ASSUME NEW T \in SUBSET Nat, T # {}
  PROVE \E x \in T : \A y \in T : x <= y
<1> DEFINE R == {ss \in Nat \X Nat : ss[1] < ss[2]}
<1>1. IsWellFoundedOn(R, Nat)
  BY LessIsWellFounded
<1>2. PICK x \in T : \A y \in T : ~ (<<y, x>> \in R)
  <2> HIDE DEF R
  <2> QED BY <1>1, WFMin
<1>3. ASSUME NEW y \in T PROVE x <= y
  <2>1. ~ (<<y, x>> \in R)
    BY <1>2
  <2>2. <<y, x>> \in Nat \X Nat
    OBVIOUS
  <2> QED BY <2>1, <2>2
<1> QED BY <1>3

(* Of a family of subsets of a finite set, one has the fewest elements: a  *)
(* smallest counterexample, on which every induction over sets turns.      *)
LEMMA Smallest ==
  ASSUME NEW S, IsFiniteSet(S), NEW B \in SUBSET SUBSET S, B # {}
  PROVE \E m \in B : \A t \in B : Cardinality(m) <= Cardinality(t)
<1> DEFINE Sizes == {Cardinality(t) : t \in B}
<1>1. \A t \in B : Cardinality(t) \in Nat
  BY FS_Subset, FS_CardinalityType
<1>2. Sizes \in SUBSET Nat /\ Sizes # {}
  BY <1>1
<1>3. PICK n \in Sizes : \A y \in Sizes : n <= y
  <2> HIDE DEF Sizes
  <2> QED BY <1>2, Least
<1> QED BY <1>3

(* A set is not in a family whose smallest member has one element more.    *)
LEMMA Smaller ==
  ASSUME NEW S, IsFiniteSet(S), NEW B, NEW m \in SUBSET S,
         \A t \in B : Cardinality(m) <= Cardinality(t), NEW x \in m
  PROVE m \ {x} \notin B /\ IsFiniteSet(m) /\ IsFiniteSet(m \ {x})
<1>1. IsFiniteSet(m) /\ IsFiniteSet(m \ {x})
  BY FS_Subset
<1>2. Cardinality(m) \in Nat /\ Cardinality(m \ {x}) = Cardinality(m) - 1
  BY <1>1, FS_CardinalityType, FS_RemoveElement
<1> QED BY <1>1, <1>2

(* A finite set that a relation orders has an element beyond the others.   *)
LEMMA Extreme ==
  ASSUME NEW S, IsFiniteSet(S), NEW R,
         \A x, y \in S : x # y => <<x, y>> \in R \/ <<y, x>> \in R,
         \A x, y, z \in S : <<x, y>> \in R /\ <<y, z>> \in R => <<x, z>> \in R,
         NEW s \in SUBSET S, s # {}
  PROVE \E x \in s : \A y \in s \ {x} : <<y, x>> \in R
<1> DEFINE Bad == {t \in SUBSET S : t # {} /\ ~ \E x \in t : \A y \in t \ {x} : <<y, x>> \in R}
<1>1. ASSUME Bad # {} PROVE FALSE
  <2>1. PICK m \in Bad : \A t \in Bad : Cardinality(m) <= Cardinality(t)
    <3>1. Bad \in SUBSET SUBSET S
      OBVIOUS
    <3> HIDE DEF Bad
    <3> QED BY <1>1, <3>1, Smallest
  <2>2. m \in SUBSET S /\ m # {} /\ ~ \E x \in m : \A y \in m \ {x} : <<y, x>> \in R
    OBVIOUS
  <2>3. PICK a \in m : TRUE
    BY <2>2
  <2>4. m \ {a} \notin Bad
    <3> HIDE DEF Bad
    <3> QED BY <2>1, <2>2, Smaller
  <2>5. m \ {a} # {}
    BY <2>2, <2>3
  <2>6. PICK b \in m \ {a} : \A y \in (m \ {a}) \ {b} : <<y, b>> \in R
    BY <2>2, <2>4, <2>5
  <2>7. CASE <<a, b>> \in R
    <3>1. \A y \in m \ {b} : <<y, b>> \in R
      BY <2>6, <2>7
    <3> QED BY <2>2, <3>1
  <2>8. CASE <<b, a>> \in R
    <3>1. ASSUME NEW y \in m \ {a} PROVE <<y, a>> \in R
      <4>1. CASE y = b
        BY <2>8, <4>1
      <4>2. CASE y # b
        <5>1. <<y, b>> \in R /\ y \in S /\ b \in S /\ a \in S
          BY <2>2, <2>6, <4>2
        <5> QED BY <2>8, <5>1
      <4> QED BY <4>1, <4>2
    <3> QED BY <2>2, <3>1
  <2>9. a \in S /\ b \in S /\ a # b
    BY <2>2, <2>6
  <2> QED BY <2>7, <2>8, <2>9
<1>2. s \notin Bad
  BY <1>1
<1> QED BY <1>2

-----------------------------------------------------------------------------
(* Before orders the tuples of one length.                                 *)
LEMMA BeforeIsTotal ==
  ASSUME NEW n \in Nat, NEW s \in [1 .. n -> Int], NEW t \in [1 .. n -> Int], s # t
  PROVE Before(s, t) \/ Before(t, s)
<1> DEFINE D == {i \in 1 .. n : s[i] # t[i]}
<1>1. D # {} /\ D \in SUBSET Nat
  OBVIOUS
<1>2. PICK i \in D : \A j \in D : i <= j
  <2> HIDE DEF D
  <2> QED BY <1>1, Least
<1>3. i \in 1 .. n /\ s[i] # t[i] /\ s[i] \in Int /\ t[i] \in Int
  OBVIOUS
<1>4. \A j \in 1 .. (i - 1) : s[j] = t[j] /\ t[j] = s[j]
  BY <1>2, <1>3
<1>5. DOMAIN s = 1 .. n /\ DOMAIN t = 1 .. n
  OBVIOUS
<1>6. CASE s[i] < t[i]
  BY <1>3, <1>4, <1>5, <1>6 DEF Before
<1>7. CASE t[i] < s[i]
  BY <1>3, <1>4, <1>5, <1>7 DEF Before
<1> QED BY <1>3, <1>6, <1>7

(* Before is transitive.                                                   *)
LEMMA BeforeIsTransitive ==
  ASSUME NEW n \in Nat, NEW s \in [1 .. n -> Int], NEW t \in [1 .. n -> Int],
         NEW u \in [1 .. n -> Int], Before(s, t), Before(t, u)
  PROVE Before(s, u)
<1>1. DOMAIN s = 1 .. n /\ DOMAIN t = 1 .. n
  OBVIOUS
<1>2. PICK i \in 1 .. n : s[i] < t[i] /\ \A k \in 1 .. (i - 1) : s[k] = t[k]
  BY <1>1 DEF Before
<1>3. PICK j \in 1 .. n : t[j] < u[j] /\ \A k \in 1 .. (j - 1) : t[k] = u[k]
  BY <1>1 DEF Before
<1>4. CASE i < j
  <2>1. t[i] = u[i] /\ \A k \in 1 .. (i - 1) : s[k] = u[k]
    BY <1>2, <1>3, <1>4
  <2> QED BY <1>1, <1>2, <2>1 DEF Before
<1>5. CASE j < i
  <2>1. s[j] = t[j] /\ \A k \in 1 .. (j - 1) : s[k] = u[k]
    BY <1>2, <1>3, <1>5
  <2> QED BY <1>1, <1>3, <2>1 DEF Before
<1>6. CASE i = j
  <2>1. s[i] < u[i] /\ \A k \in 1 .. (i - 1) : s[k] = u[k]
    BY <1>2, <1>3, <1>6
  <2> QED BY <1>1, <2>1 DEF Before
<1> QED BY <1>4, <1>5, <1>6

(* Nothing comes both before and after another.                            *)
LEMMA BeforeIsAsymmetric ==
  ASSUME NEW n \in Nat, NEW s \in [1 .. n -> Int], NEW t \in [1 .. n -> Int],
         Before(s, t), Before(t, s)
  PROVE FALSE
<1>1. Before(s, s)
  BY BeforeIsTransitive
<1>2. PICK i \in DOMAIN s : s[i] < s[i]
  BY <1>1 DEF Before
<1> QED BY <1>2

(* key gives the elements of S distinct tuples of n numbers.               *)
Keyed(S, key, n) ==
  /\ IsFiniteSet(S) /\ n \in Nat
  /\ \A x \in S : key[x] \in [1 .. n -> Int]
  /\ \A x, y \in S : key[x] = key[y] => x = y

(* A finite set has a last element by its keys.                            *)
LEMMA LastExists ==
  ASSUME NEW S, NEW key, NEW n, Keyed(S, key, n), NEW s \in SUBSET S, s # {}
  PROVE /\ LastBy(s, key) \in s
        /\ \A y \in s \ {LastBy(s, key)} : Before(key[y], key[LastBy(s, key)])
<1> DEFINE R == {p \in S \X S : Before(key[p[1]], key[p[2]])}
<1>1. \A x, y \in S : <<x, y>> \in R <=> Before(key[x], key[y])
  OBVIOUS
<1>2. ASSUME NEW x \in S, NEW y \in S, x # y PROVE <<x, y>> \in R \/ <<y, x>> \in R
  <2>1. PICK k \in [1 .. n -> Int], l \in [1 .. n -> Int] : k = key[x] /\ l = key[y] /\ k # l
    BY <1>2 DEF Keyed
  <2>2. Before(k, l) \/ Before(l, k)
    <3> HIDE DEF R
    <3> QED BY <2>1, BeforeIsTotal DEF Keyed
  <2>3. Before(key[x], key[y]) \/ Before(key[y], key[x])
    BY <2>1, <2>2
  <2> QED BY <1>1, <2>3
<1>3. \A x, y, z \in S : <<x, y>> \in R /\ <<y, z>> \in R => <<x, z>> \in R
  BY <1>1, BeforeIsTransitive DEF Keyed
<1>4. IsFiniteSet(S)
  BY DEF Keyed
<1>5. \E x \in s : \A y \in s \ {x} : <<y, x>> \in R
  <2> HIDE DEF R
  <2> QED BY <1>2, <1>3, <1>4, Extreme
<1>6. \E x \in s : \A y \in s \ {x} : Before(key[y], key[x])
  BY <1>1, <1>5
<1> QED BY <1>6 DEF LastBy

(* And a first.                                                            *)
LEMMA FirstExists ==
  ASSUME NEW S, NEW key, NEW n, Keyed(S, key, n), S # {}
  PROVE \E x \in S : \A y \in S \ {x} : Before(key[x], key[y])
<1> DEFINE R == {p \in S \X S : Before(key[p[2]], key[p[1]])}
<1>1. \A x, y \in S : <<x, y>> \in R <=> Before(key[y], key[x])
  OBVIOUS
<1>2. ASSUME NEW x \in S, NEW y \in S, x # y PROVE <<x, y>> \in R \/ <<y, x>> \in R
  <2>1. PICK k \in [1 .. n -> Int], l \in [1 .. n -> Int] : k = key[x] /\ l = key[y] /\ k # l
    BY <1>2 DEF Keyed
  <2>2. Before(k, l) \/ Before(l, k)
    <3> HIDE DEF R
    <3> QED BY <2>1, BeforeIsTotal DEF Keyed
  <2>3. Before(key[x], key[y]) \/ Before(key[y], key[x])
    BY <2>1, <2>2
  <2> QED BY <1>1, <2>3
<1>3. \A x, y, z \in S : <<x, y>> \in R /\ <<y, z>> \in R => <<x, z>> \in R
  BY <1>1, BeforeIsTransitive DEF Keyed
<1>4. IsFiniteSet(S)
  BY DEF Keyed
<1>5. \E x \in S : \A y \in S \ {x} : <<y, x>> \in R
  <2> HIDE DEF R
  <2> QED BY <1>2, <1>3, <1>4, Extreme
<1> QED BY <1>1, <1>5

-----------------------------------------------------------------------------
(* Folds.  The library's fold is a recursive function on the subsets of a  *)
(* set that takes out an element at a time.  There is such a function for  *)
(* every finite set, rule of choice and step.                              *)
CanFold(S, pick, V, base, step) ==
  /\ IsFiniteSet(S) /\ \A s \in SUBSET S : s # {} => pick[s] \in s
  /\ base \in V /\ step \in [S \X V -> V]

IsFold(g, S, pick, V, base, step) ==
  /\ g \in [SUBSET S -> V]
  /\ \A s \in SUBSET S :
        g[s] = IF s = {} THEN base ELSE step[<<pick[s], g[s \ {pick[s]}]>>]

(* For every finite set, rule of choice and step there is the function the *)
(* library's fold chooses.                                                 *)
LEMMA FoldExists ==
  ASSUME NEW S, NEW pick, NEW V, NEW base, NEW step, CanFold(S, pick, V, base, step)
  PROVE \E g : IsFold(g, S, pick, V, base, step)
<1> USE DEF CanFold
<1> DEFINE Small(n) == {t \in SUBSET S : Cardinality(t) <= n}
           Fold(g, n) == /\ g \in [Small(n) -> V]
                         /\ \A s \in Small(n) : g[s] = IF s = {} THEN base
                               ELSE step[<<pick[s], g[s \ {pick[s]}]>>]
           Bad == {n \in Nat : ~ \E g : Fold(g, n)}
<1>1. \A t \in SUBSET S : IsFiniteSet(t) /\ Cardinality(t) \in Nat
  BY FS_Subset, FS_CardinalityType
<1>2. ASSUME Bad # {} PROVE FALSE
  <2>1. PICK n \in Bad : \A m \in Bad : n <= m
    <3>1. Bad \in SUBSET Nat
      OBVIOUS
    <3> HIDE DEF Bad
    <3> QED BY <1>2, <3>1, Least
  <2>2. n \in Nat /\ ~ \E g : Fold(g, n)
    OBVIOUS
  <2>3. CASE n = 0
    <3>1. \A t \in Small(0) : t = {}
      BY <1>1, FS_EmptySet
    <3>2. Fold([s \in Small(0) |-> base], 0)
      <4> HIDE DEF Small
      <4> QED BY <3>1
    <3> QED BY <2>2, <2>3, <3>2
  <2>4. CASE n # 0
    <3>1. n - 1 \in Nat /\ ~ (n <= n - 1)
      BY <2>2, <2>4
    <3>2. n - 1 \notin Bad
      <4> HIDE DEF Bad
      <4> QED BY <2>1, <3>1
    <3>3. PICK g : Fold(g, n - 1)
      BY <3>1, <3>2
    <3> DEFINE h == [s \in Small(n) |-> IF s = {} THEN base
                        ELSE step[<<pick[s], g[s \ {pick[s]}]>>]]
    <3>4. ASSUME NEW s \in Small(n), s # {}
          PROVE /\ pick[s] \in S /\ s \ {pick[s]} \in Small(n - 1)
                /\ s \ {pick[s]} \in Small(n)
      <4>1. s \in SUBSET S /\ Cardinality(s) <= n /\ pick[s] \in s
        BY <3>4
      <4>2. Cardinality(s) \in Nat /\ Cardinality(s \ {pick[s]}) = Cardinality(s) - 1
        BY <1>1, <4>1, FS_RemoveElement
      <4> QED BY <2>2, <4>1, <4>2
    <3>5. h \in [Small(n) -> V]
      <4>1. ASSUME NEW s \in Small(n), s # {}
            PROVE step[<<pick[s], g[s \ {pick[s]}]>>] \in V
        <5> HIDE DEF Small
        <5> QED BY <3>3, <3>4, <4>1
      <4> HIDE DEF Small
      <4> QED BY <4>1
    <3>6. ASSUME NEW s \in Small(n), s # {}
          PROVE g[s \ {pick[s]}] = h[s \ {pick[s]}]
      <4>1. PICK t : t = s \ {pick[s]}
        OBVIOUS
      <4>2. t \in Small(n - 1) /\ t \in Small(n)
        <5> HIDE DEF Small
        <5> QED BY <3>4, <3>6, <4>1
      <4>3. g[t] = IF t = {} THEN base ELSE step[<<pick[t], g[t \ {pick[t]}]>>]
        <5> HIDE DEF Small
        <5> QED BY <3>3, <4>2
      <4>4. h[t] = IF t = {} THEN base ELSE step[<<pick[t], g[t \ {pick[t]}]>>]
        <5> HIDE DEF Small
        <5> QED BY <4>2
      <4> QED BY <4>1, <4>3, <4>4
    <3>7. \A s \in Small(n) : h[s] = IF s = {} THEN base
                                     ELSE step[<<pick[s], h[s \ {pick[s]}]>>]
      <4>1. \A s \in Small(n) : h[s] = IF s = {} THEN base
                                     ELSE step[<<pick[s], g[s \ {pick[s]}]>>]
        <5> HIDE DEF Small
        <5> QED OBVIOUS
      <4> HIDE DEF h, Small
      <4> QED BY <3>6, <4>1
    <3>8. Fold(h, n)
      <4> HIDE DEF h, Small
      <4> QED BY <3>5, <3>7
    <3> QED BY <2>2, <3>8
  <2> QED BY <2>3, <2>4
<1>3. Cardinality(S) \in Nat /\ Small(Cardinality(S)) = SUBSET S
  BY <1>1, FS_Subset
<1>4. PICK g : Fold(g, Cardinality(S))
  BY <1>2, <1>3
<1>5. IsFold(g, S, pick, V, base, step)
  <2> HIDE DEF Small
  <2> QED BY <1>3, <1>4 DEF IsFold
<1> QED BY <1>5

-----------------------------------------------------------------------------
(* Sums.                                                                  *)

(* The element that the fold takes out of a set first.                     *)
First(s) == CHOOSE a \in s : TRUE
Rest(s) == s \ {First(s)}

(* Without the element taken first, a set has one element fewer.           *)
LEMMA FirstRest ==
  ASSUME NEW S, IsFiniteSet(S), NEW s \in SUBSET S, s # {}
  PROVE /\ First(s) \in s /\ Rest(s) \in SUBSET s /\ Rest(s) # s
        /\ Cardinality(s) \in Nat /\ Cardinality(Rest(s)) = Cardinality(s) - 1
<1>1. First(s) \in s
  BY DEF First
<1>2. IsFiniteSet(s) /\ Cardinality(s) \in Nat
  BY FS_Subset, FS_CardinalityType
<1>3. Cardinality(s \ {First(s)}) = Cardinality(s) - 1
  BY <1>1, <1>2, FS_RemoveElement
<1> QED BY <1>1, <1>2, <1>3 DEF Rest

(* g is the fold's function on the sets of D.                              *)
IsSum(g, f, D) == g = [s \in D |-> IF s = {} THEN 0 ELSE f[First(s)] + g[Rest(s)]]

(* The library's sum, unfolded to the function it chooses.                 *)
LEMMA SumUnfolds ==
  ASSUME NEW f, NEW S
  PROVE SumFunctionOnSet(f, S) = (CHOOSE g : IsSum(g, f, SUBSET S))[S]
BY DEF SumFunctionOnSet, FoldFunctionOnSet, MapThenFoldSet, IsSum, First, Rest

(* There is such a function on the subsets of every finite set.            *)
LEMMA SumExists ==
  ASSUME NEW f, NEW S, IsFiniteSet(S), \A a \in S : f[a] \in Int
  PROVE \E g : IsSum(g, f, SUBSET S)
<1> DEFINE pick == [s \in SUBSET S |-> First(s)]
           step == [p \in S \X Int |-> f[p[1]] + p[2]]
<1>1. \A s \in SUBSET S : s # {} => pick[s] \in s /\ pick[s] = First(s) /\ First(s) \in S
  BY DEF First
<1>2. step \in [S \X Int -> Int] /\ \A x \in S, v \in Int : step[<<x, v>>] = f[x] + v
  OBVIOUS
<1>3. PICK g \in [SUBSET S -> Int] :
          \A s \in SUBSET S :
              g[s] = IF s = {} THEN 0 ELSE step[<<pick[s], g[s \ {pick[s]}]>>]
  <2>1. CanFold(S, pick, Int, 0, step)
    <3> HIDE DEF pick, step
    <3> QED BY <1>1, <1>2 DEF CanFold
  <2>2. \E g : IsFold(g, S, pick, Int, 0, step)
    <3> HIDE DEF pick, step
    <3> QED BY <2>1, FoldExists
  <2> HIDE DEF pick, step
  <2> QED BY <2>2 DEF IsFold
<1>4. ASSUME NEW s \in SUBSET S, s # {}
      PROVE step[<<pick[s], g[s \ {pick[s]}]>>] = f[First(s)] + g[Rest(s)]
  <2>1. Rest(s) \in SUBSET S /\ g[Rest(s)] \in Int
    BY <1>3 DEF Rest
  <2> HIDE DEF pick, step
  <2> QED BY <1>1, <1>2, <1>4, <2>1 DEF Rest
<1>5. \A s \in SUBSET S : g[s] = IF s = {} THEN 0 ELSE f[First(s)] + g[Rest(s)]
  <2> HIDE DEF pick, step
  <2> QED BY <1>3, <1>4
<1>6. g = [s \in SUBSET S |-> g[s]]
  BY <1>3
<1>7. [s \in SUBSET S |-> g[s]]
        = [s \in SUBSET S |-> IF s = {} THEN 0 ELSE f[First(s)] + g[Rest(s)]]
  BY <1>5
<1> QED BY <1>6, <1>7 DEF IsSum

(* On a set that both know, two of the fold's functions agree.             *)
LEMMA SumsAgree ==
  ASSUME NEW f, NEW S, IsFiniteSet(S), NEW T \in SUBSET S, NEW g, NEW h,
         IsSum(g, f, SUBSET S), IsSum(h, f, SUBSET T)
  PROVE \A s \in SUBSET T : g[s] = h[s]
<1> DEFINE Bad == {s \in SUBSET T : g[s] # h[s]}
<1>1. ASSUME Bad # {} PROVE FALSE
  <2>1. IsFiniteSet(T) /\ Bad \in SUBSET SUBSET T
    BY FS_Subset
  <2>2. PICK m \in Bad : \A t \in Bad : Cardinality(m) <= Cardinality(t)
    <3> HIDE DEF Bad
    <3> QED BY <1>1, <2>1, Smallest
  <2>3. m \in SUBSET T /\ m \in SUBSET S /\ g[m] # h[m]
    OBVIOUS
  <2>4. g[m] = (IF m = {} THEN 0 ELSE f[First(m)] + g[Rest(m)])
    BY <2>3 DEF IsSum
  <2>5. h[m] = (IF m = {} THEN 0 ELSE f[First(m)] + h[Rest(m)])
    BY <2>3 DEF IsSum
  <2>6. m # {}
    BY <2>3, <2>4, <2>5
  <2>7. /\ Rest(m) \in SUBSET m /\ Cardinality(m) \in Nat
        /\ Cardinality(Rest(m)) = Cardinality(m) - 1
    BY <2>1, <2>3, <2>6, FirstRest
  <2>8. Rest(m) \notin Bad
    BY <2>2, <2>7
  <2>9. g[Rest(m)] = h[Rest(m)]
    BY <2>3, <2>7, <2>8
  <2> QED BY <2>3, <2>4, <2>5, <2>9
<1> QED BY <1>1

(* What the sum of a set is: nothing, or one amount and the others' sum.   *)
LEMMA SumOpens ==
  ASSUME NEW f, NEW S, IsFiniteSet(S), \A a \in S : f[a] \in Int
  PROVE /\ S = {} => SumFunctionOnSet(f, S) = 0
        /\ S # {} => SumFunctionOnSet(f, S) = f[First(S)] + SumFunctionOnSet(f, Rest(S))
<1>1. PICK g : g = CHOOSE g0 : IsSum(g0, f, SUBSET S)
  OBVIOUS
<1>2. IsSum(g, f, SUBSET S) /\ SumFunctionOnSet(f, S) = g[S]
  BY <1>1, SumExists, SumUnfolds
<1>3. SumFunctionOnSet(f, S) = IF S = {} THEN 0 ELSE f[First(S)] + g[Rest(S)]
  BY <1>2 DEF IsSum
<1>4. ASSUME S # {} PROVE g[Rest(S)] = SumFunctionOnSet(f, Rest(S))
  <2>1. /\ Rest(S) \in SUBSET S /\ IsFiniteSet(Rest(S))
        /\ \A a \in Rest(S) : f[a] \in Int
    BY FS_Subset DEF Rest
  <2>2. PICK h : h = CHOOSE g0 : IsSum(g0, f, SUBSET Rest(S))
    OBVIOUS
  <2>3. IsSum(h, f, SUBSET Rest(S)) /\ SumFunctionOnSet(f, Rest(S)) = h[Rest(S)]
    BY <2>1, <2>2, SumExists, SumUnfolds
  <2>4. \A s \in SUBSET Rest(S) : g[s] = h[s]
    <3>1. PICK T \in SUBSET S : T = Rest(S)
      BY <2>1
    <3>2. IsSum(g, f, SUBSET S) /\ IsSum(h, f, SUBSET T)
      BY <1>2, <2>3, <3>1
    <3> QED BY ONLY IsFiniteSet(S), T \in SUBSET S, <3>1, <3>2, SumsAgree
  <2> QED BY <2>3, <2>4
<1> QED BY <1>3, <1>4

(* Any element may be taken out first: the order is of no account.         *)
LEMMA SumRemoves ==
  ASSUME NEW f, NEW S, IsFiniteSet(S), \A a \in S : f[a] \in Int
  PROVE /\ SumFunctionOnSet(f, S) \in Int
        /\ \A b \in S : SumFunctionOnSet(f, S) = f[b] + SumFunctionOnSet(f, S \ {b})
<1> DEFINE Good(s) == /\ SumFunctionOnSet(f, s) \in Int
                      /\ \A b \in s : SumFunctionOnSet(f, s) = f[b] + SumFunctionOnSet(f, s \ {b})
           Bad == {s \in SUBSET S : ~ Good(s)}
<1>1. ASSUME Bad # {} PROVE FALSE
  <2>1. PICK m \in Bad : \A t \in Bad : Cardinality(m) <= Cardinality(t)
    <3>1. Bad \in SUBSET SUBSET S
      OBVIOUS
    <3> HIDE DEF Bad
    <3> QED BY <1>1, <3>1, Smallest
  <2>2. m \in SUBSET S /\ IsFiniteSet(m) /\ ~ Good(m) /\ \A a \in m : f[a] \in Int
    BY FS_Subset
  <2> DEFINE c == First(m)
  <2>3. m # {}
    <3>1. ASSUME m = {} PROVE Good(m)
      BY <2>2, <3>1, SumOpens
    <3> QED BY <2>2, <3>1
  <2>4. c \in m /\ f[c] \in Int
    BY <2>2, <2>3, FirstRest
  <2>5. SumFunctionOnSet(f, m) = f[c] + SumFunctionOnSet(f, m \ {c})
    BY <2>2, <2>3, SumOpens DEF Rest
  <2>6. ASSUME NEW d \in m PROVE Good(m \ {d})
    <3>1. Cardinality(m) \in Nat /\ Cardinality(m \ {d}) = Cardinality(m) - 1
      BY <2>2, FS_CardinalityType, FS_RemoveElement
    <3>2. m \ {d} \notin Bad
      <4> HIDE DEF Bad
      <4> QED BY <2>1, <3>1
    <3> QED BY <2>2, <3>2
  <2> HIDE DEF Good, Bad, c
  <2>7. SumFunctionOnSet(f, m \ {c}) \in Int
    BY <2>4, <2>6 DEF Good
  <2>8. ASSUME NEW b \in m PROVE SumFunctionOnSet(f, m) = f[b] + SumFunctionOnSet(f, m \ {b})
    <3>1. CASE b = c
      BY <2>5, <3>1
    <3>2. CASE b # c
      <4>1. SumFunctionOnSet(f, m \ {c}) = f[b] + SumFunctionOnSet(f, (m \ {c}) \ {b})
        BY <2>4, <2>6, <3>2 DEF Good
      <4>2. SumFunctionOnSet(f, m \ {b}) = f[c] + SumFunctionOnSet(f, (m \ {b}) \ {c})
        BY <2>4, <2>6, <3>2 DEF Good
      <4>3. (m \ {c}) \ {b} = (m \ {b}) \ {c}
        OBVIOUS
      <4>4. f[b] \in Int /\ SumFunctionOnSet(f, (m \ {b}) \ {c}) \in Int
        <5>1. Good(m \ {b}) /\ c \in m \ {b}
          BY <2>4, <2>6, <3>2
        <5>2. m \ {b} \in SUBSET S /\ f[b] \in Int
          BY <2>2
        <5>3. SumFunctionOnSet(f, (m \ {b}) \ {c}) \in Int
          <6>1. PICK t : t = m \ {b}
            OBVIOUS
          <6>2. t \in SUBSET m /\ IsFiniteSet(t) /\ c \in t /\ t # m
            BY <2>2, <5>1, <6>1, FS_Subset
          <6>3. Cardinality(t) = Cardinality(m) - 1 /\ Cardinality(m) \in Nat
            BY <2>2, <6>1, FS_CardinalityType, FS_RemoveElement
          <6>4. Cardinality(t \ {c}) = Cardinality(t) - 1
            BY <6>2, FS_RemoveElement
          <6>5. t \ {c} \notin Bad
            BY <2>1, <6>3, <6>4
          <6> QED BY <2>2, <6>1, <6>2, <6>5 DEF Bad, Good
        <5> QED BY <5>2, <5>3
      <4>5. PICK x \in Int, y \in Int, z \in Int :
                x = f[b] /\ y = f[c] /\ z = SumFunctionOnSet(f, (m \ {b}) \ {c})
        BY <2>4, <4>4
      <4>6. SumFunctionOnSet(f, m \ {c}) = x + z
        BY <4>1, <4>3, <4>5
      <4>7. SumFunctionOnSet(f, m \ {b}) = y + z
        BY <4>2, <4>5
      <4>8. SumFunctionOnSet(f, m) = y + (x + z)
        BY <2>5, <4>5, <4>6
      <4>9. y + (x + z) = x + (y + z)
        OBVIOUS
      <4>10. SumFunctionOnSet(f, m) = x + SumFunctionOnSet(f, m \ {b})
        BY <4>7, <4>8, <4>9
      <4> QED BY <4>5, <4>10
    <3> QED BY <3>1, <3>2
  <2>9. Good(m)
    BY <2>4, <2>5, <2>7, <2>8 DEF Good
  <2> QED BY <2>2, <2>9
<1>2. S \notin Bad
  BY <1>1
<1> QED BY <1>2

(* One more element adds its amount.                                       *)
LEMMA SumGrows ==
  ASSUME NEW f, NEW S, IsFiniteSet(S), \A a \in S : f[a] \in Int,
         NEW b, b \notin S, f[b] \in Int
  PROVE /\ SumFunctionOnSet(f, S) \in Int
        /\ SumFunctionOnSet(f, S \cup {b}) = SumFunctionOnSet(f, S) + f[b]
<1>1. IsFiniteSet(S \cup {b})
  BY FS_AddElement
<1>2. PICK T : T = S \cup {b}
  OBVIOUS
<1>3. IsFiniteSet(T) /\ b \in T /\ T \ {b} = S /\ \A a \in T : f[a] \in Int
  BY <1>1, <1>2
<1>4. SumFunctionOnSet(f, T) = f[b] + SumFunctionOnSet(f, T \ {b})
  BY <1>3, SumRemoves
<1>5. SumFunctionOnSet(f, S) \in Int
  BY SumRemoves
<1>6. PICK x \in Int, y \in Int : x = f[b] /\ y = SumFunctionOnSet(f, S)
  BY <1>5
<1>7. SumFunctionOnSet(f, T) = x + SumFunctionOnSet(f, S)
  BY <1>3, <1>4, <1>6
<1>8. SumFunctionOnSet(f, T) = y + x
  BY <1>6, <1>7
<1>9. SumFunctionOnSet(f, S \cup {b}) = y + x
  BY <1>2, <1>8
<1> QED BY <1>6, <1>9

(* Functions that agree on a set have one sum.                             *)
LEMMA SumOfSame ==
  ASSUME NEW S, IsFiniteSet(S), NEW f, NEW g, \A a \in S : f[a] \in Int /\ g[a] = f[a]
  PROVE SumFunctionOnSet(g, S) = SumFunctionOnSet(f, S)
<1> DEFINE Bad == {s \in SUBSET S : SumFunctionOnSet(g, s) # SumFunctionOnSet(f, s)}
<1>1. ASSUME Bad # {} PROVE FALSE
  <2>1. PICK m \in Bad : \A t \in Bad : Cardinality(m) <= Cardinality(t)
    <3>1. Bad \in SUBSET SUBSET S
      OBVIOUS
    <3> HIDE DEF Bad
    <3> QED BY <1>1, <3>1, Smallest
  <2>2. m \in SUBSET S /\ SumFunctionOnSet(g, m) # SumFunctionOnSet(f, m)
    OBVIOUS
  <2>3. IsFiniteSet(m) /\ \A a \in m : f[a] \in Int /\ g[a] \in Int
    BY <2>2, FS_Subset
  <2>4. m # {}
    BY <2>2, <2>3, SumOpens
  <2>5. PICK a \in m : TRUE
    BY <2>4
  <2>6. m \ {a} \notin Bad
    <3> HIDE DEF Bad
    <3> QED BY <2>1, <2>2, Smaller
  <2>7. /\ SumFunctionOnSet(f, m) = f[a] + SumFunctionOnSet(f, m \ {a})
        /\ SumFunctionOnSet(g, m) = g[a] + SumFunctionOnSet(g, m \ {a})
    BY <2>3, SumRemoves
  <2>8. SumFunctionOnSet(g, m \ {a}) = SumFunctionOnSet(f, m \ {a}) /\ g[a] = f[a]
    BY <2>2, <2>6
  <2> QED BY <2>2, <2>7, <2>8
<1>2. S \notin Bad
  BY <1>1
<1> QED BY <1>2

(* The sum of two sets apart is the sum of their sums.                     *)
LEMMA SumJoins ==
  ASSUME NEW S, IsFiniteSet(S), NEW T, IsFiniteSet(T), S \cap T = {}, NEW f,
         \A a \in S \cup T : f[a] \in Int
  PROVE /\ SumFunctionOnSet(f, S) \in Int /\ SumFunctionOnSet(f, T) \in Int
        /\ SumFunctionOnSet(f, S \cup T) = SumFunctionOnSet(f, S) + SumFunctionOnSet(f, T)
<1> DEFINE Good(t) == SumFunctionOnSet(f, S \cup t)
                        = SumFunctionOnSet(f, S) + SumFunctionOnSet(f, t)
           Bad == {t \in SUBSET T : ~ Good(t)}
<1>0. SumFunctionOnSet(f, S) \in Int /\ SumFunctionOnSet(f, T) \in Int
  BY SumRemoves
<1>1. ASSUME Bad # {} PROVE FALSE
  <2>1. PICK m \in Bad : \A t \in Bad : Cardinality(m) <= Cardinality(t)
    <3>1. Bad \in SUBSET SUBSET T
      OBVIOUS
    <3> HIDE DEF Bad
    <3> QED BY <1>1, <3>1, Smallest
  <2>2. m \in SUBSET T /\ ~ Good(m)
    OBVIOUS
  <2>3. IsFiniteSet(m) /\ IsFiniteSet(S \cup m)
    BY <2>2, FS_Subset, FS_Union
  <2>4. m # {}
    <3>1. ASSUME m = {} PROVE Good(m)
      <4>1. SumFunctionOnSet(f, {}) = 0
        BY FS_EmptySet, SumOpens
      <4>2. S \cup m = S
        BY <3>1
      <4> QED BY <1>0, <3>1, <4>1, <4>2
    <3> QED BY <2>2, <3>1
  <2>5. PICK a \in m : TRUE
    BY <2>4
  <2>6. Good(m \ {a})
    <3>1. m \ {a} \notin Bad
      <4> HIDE DEF Bad
      <4> QED BY <2>1, <2>2, Smaller
    <3> QED BY <2>2, <3>1
  <2>7. SumFunctionOnSet(f, m) = f[a] + SumFunctionOnSet(f, m \ {a})
    BY <2>2, <2>3, SumRemoves
  <2>8. SumFunctionOnSet(f, S \cup m) = f[a] + SumFunctionOnSet(f, (S \cup m) \ {a})
    <3>1. PICK U : U = S \cup m
      OBVIOUS
    <3>2. IsFiniteSet(U) /\ a \in U /\ \A b \in U : f[b] \in Int
      BY <2>2, <2>3, <3>1
    <3>3. SumFunctionOnSet(f, U) = f[a] + SumFunctionOnSet(f, U \ {a})
      BY ONLY <3>2, SumRemoves
    <3> QED BY <3>1, <3>3
  <2>9. (S \cup m) \ {a} = S \cup (m \ {a})
    BY <2>2
  <2>10. f[a] \in Int /\ SumFunctionOnSet(f, m \ {a}) \in Int
    <3>1. IsFiniteSet(m \ {a}) /\ \A b \in m \ {a} : f[b] \in Int
      BY <2>2, <2>3, FS_Subset
    <3> QED BY <2>2, <3>1, SumRemoves
  <2>11. PICK x \in Int, y \in Int, z \in Int :
             x = f[a] /\ y = SumFunctionOnSet(f, m \ {a}) /\ z = SumFunctionOnSet(f, S)
    BY <1>0, <2>10
  <2>12. /\ SumFunctionOnSet(f, m) = x + y
         /\ SumFunctionOnSet(f, S \cup m) = x + SumFunctionOnSet(f, S \cup (m \ {a}))
    BY <2>7, <2>8, <2>9, <2>11
  <2>13. SumFunctionOnSet(f, S \cup (m \ {a})) = z + y
    BY <2>6, <2>11
  <2>14. SumFunctionOnSet(f, S \cup m) = z + (x + y)
    BY <2>12, <2>13
  <2> QED BY <2>2, <2>11, <2>12, <2>14
<1>2. T \notin Bad
  BY <1>1
<1> QED BY <1>0, <1>2

(* A sum may be taken over another set, one to one with the first.         *)
LEMMA SumOfImage ==
  ASSUME NEW S, IsFiniteSet(S), NEW h, \A x, y \in S : h[x] = h[y] => x = y,
         NEW f, NEW g, \A x \in S : g[x] \in Int /\ f[h[x]] = g[x]
  PROVE /\ IsFiniteSet({h[x] : x \in S})
        /\ SumFunctionOnSet(f, {h[x] : x \in S}) = SumFunctionOnSet(g, S)
<1> DEFINE Im(s) == {h[x] : x \in s}
           Good(s) == IsFiniteSet(Im(s)) /\ SumFunctionOnSet(f, Im(s)) = SumFunctionOnSet(g, s)
           Bad == {s \in SUBSET S : ~ Good(s)}
<1>1. ASSUME Bad # {} PROVE FALSE
  <2>1. PICK m \in Bad : \A t \in Bad : Cardinality(m) <= Cardinality(t)
    <3>1. Bad \in SUBSET SUBSET S
      OBVIOUS
    <3> HIDE DEF Bad
    <3> QED BY <1>1, <3>1, Smallest
  <2>2. m \in SUBSET S /\ ~ Good(m)
    OBVIOUS
  <2>3. IsFiniteSet(m) /\ \A x \in m : g[x] \in Int /\ f[h[x]] = g[x]
    BY <2>2, FS_Subset
  <2>4. m # {}
    <3>1. ASSUME m = {} PROVE Good(m)
      <4>1. Im(m) = {}
        BY <3>1
      <4>2. SumFunctionOnSet(f, {}) = 0 /\ SumFunctionOnSet(g, {}) = 0 /\ IsFiniteSet({})
        BY FS_EmptySet, SumOpens
      <4> QED BY <3>1, <4>1, <4>2
    <3> QED BY <2>2, <3>1
  <2>5. PICK a \in m : TRUE
    BY <2>4
  <2>6. Good(m \ {a})
    <3>1. m \ {a} \notin Bad
      <4> HIDE DEF Bad
      <4> QED BY <2>1, <2>2, Smaller
    <3> QED BY <2>2, <3>1
  <2>7. SumFunctionOnSet(g, m) = g[a] + SumFunctionOnSet(g, m \ {a})
    BY <2>3, SumRemoves
  <2>8. Im(m) = Im(m \ {a}) \cup {h[a]} /\ h[a] \notin Im(m \ {a})
    BY <2>2
  <2>9. IsFiniteSet(Im(m)) /\ \A z \in Im(m) : f[z] \in Int
    <3>1. IsFiniteSet(Im(m))
      <4>1. PICK I, b : I = Im(m \ {a}) /\ b = h[a]
        OBVIOUS
      <4>2. IsFiniteSet(I) /\ Im(m) = I \cup {b}
        BY <2>6, <2>8, <4>1
      <4>3. IsFiniteSet(I \cup {b})
        BY ONLY <4>2, FS_AddElement
      <4> QED BY <4>2, <4>3
    <3>2. \A z \in Im(m) : f[z] \in Int
      BY <2>3
    <3> QED BY <3>1, <3>2
  <2>10. SumFunctionOnSet(f, Im(m)) = f[h[a]] + SumFunctionOnSet(f, Im(m) \ {h[a]})
    <3>1. h[a] \in Im(m)
      OBVIOUS
    <3> HIDE DEF Im
    <3> QED BY <2>9, <3>1, SumRemoves
  <2>11. Im(m) \ {h[a]} = Im(m \ {a})
    <3> HIDE DEF Im
    <3> QED BY <2>8
  <2>12. f[h[a]] = g[a]
    BY <2>3
  <2>13. SumFunctionOnSet(f, Im(m)) = SumFunctionOnSet(g, m)
    <3> HIDE DEF Im
    <3> QED BY <2>6, <2>7, <2>10, <2>11, <2>12
  <2> HIDE DEF Im
  <2> QED BY <2>2, <2>9, <2>13
<1>2. S \notin Bad
  BY <1>1
<1> QED BY <1>2

(* The sum of the differences is the difference of the sums.               *)
LEMMA SumOfDifference ==
  ASSUME NEW S, IsFiniteSet(S), NEW f, NEW g, NEW h,
         \A x \in S : f[x] \in Int /\ g[x] \in Int /\ h[x] = f[x] - g[x]
  PROVE SumFunctionOnSet(h, S) = SumFunctionOnSet(f, S) - SumFunctionOnSet(g, S)
<1> DEFINE Good(s) == SumFunctionOnSet(h, s)
                        = SumFunctionOnSet(f, s) - SumFunctionOnSet(g, s)
           Bad == {s \in SUBSET S : ~ Good(s)}
<1>1. ASSUME Bad # {} PROVE FALSE
  <2>1. PICK m \in Bad : \A t \in Bad : Cardinality(m) <= Cardinality(t)
    <3>1. Bad \in SUBSET SUBSET S
      OBVIOUS
    <3> HIDE DEF Bad
    <3> QED BY <1>1, <3>1, Smallest
  <2>2. m \in SUBSET S /\ ~ Good(m)
    OBVIOUS
  <2>3. /\ IsFiniteSet(m) /\ \A x \in m : f[x] \in Int /\ g[x] \in Int
        /\ \A x \in m : h[x] \in Int /\ h[x] = f[x] - g[x]
    BY <2>2, FS_Subset
  <2>4. m # {}
    <3>1. ASSUME m = {} PROVE Good(m)
      <4>2. /\ SumFunctionOnSet(f, {}) = 0 /\ SumFunctionOnSet(g, {}) = 0
            /\ SumFunctionOnSet(h, {}) = 0
        BY FS_EmptySet, SumOpens
      <4> QED BY <3>1, <4>2
    <3> QED BY <2>2, <3>1
  <2>5. PICK a \in m : TRUE
    BY <2>4
  <2>6. Good(m \ {a})
    <3>1. m \ {a} \notin Bad
      <4> HIDE DEF Bad
      <4> QED BY <2>1, <2>2, Smaller
    <3> QED BY <2>2, <3>1
  <2>7. /\ SumFunctionOnSet(f, m) = f[a] + SumFunctionOnSet(f, m \ {a})
        /\ SumFunctionOnSet(g, m) = g[a] + SumFunctionOnSet(g, m \ {a})
        /\ SumFunctionOnSet(h, m) = h[a] + SumFunctionOnSet(h, m \ {a})
    BY <2>3, SumRemoves
  <2>8. SumFunctionOnSet(f, m \ {a}) \in Int /\ SumFunctionOnSet(g, m \ {a}) \in Int
    <3>1. IsFiniteSet(m \ {a}) /\ \A x \in m \ {a} : f[x] \in Int /\ g[x] \in Int
      BY <2>3, FS_Subset
    <3> QED BY <3>1, SumRemoves
  <2>9. PICK x \in Int, y \in Int, u \in Int, v \in Int :
            /\ x = f[a] /\ y = g[a]
            /\ u = SumFunctionOnSet(f, m \ {a}) /\ v = SumFunctionOnSet(g, m \ {a})
    BY <2>3, <2>8
  <2>10. SumFunctionOnSet(h, m) = (x - y) + (u - v)
    BY <2>3, <2>6, <2>7, <2>9
  <2>11. SumFunctionOnSet(f, m) = x + u /\ SumFunctionOnSet(g, m) = y + v
    BY <2>7, <2>9
  <2> QED BY <2>2, <2>10, <2>11
<1>2. S \notin Bad
  BY <1>1
<1> QED BY <1>2

(* A sum is no further from zero than the sum of the distances, and a part *)
(* of those is no more than all.                                           *)
LEMMA SumWithin ==
  ASSUME NEW S, IsFiniteSet(S), NEW f, NEW g,
         \A x \in S : f[x] \in Int /\ g[x] \in Int /\ f[x] <= g[x] /\ - g[x] <= f[x]
  PROVE /\ SumFunctionOnSet(f, S) \in Int /\ SumFunctionOnSet(g, S) \in Int
        /\ SumFunctionOnSet(f, S) <= SumFunctionOnSet(g, S)
        /\ - SumFunctionOnSet(g, S) <= SumFunctionOnSet(f, S)
<1> DEFINE Good(s) == /\ SumFunctionOnSet(f, s) <= SumFunctionOnSet(g, s)
                      /\ - SumFunctionOnSet(g, s) <= SumFunctionOnSet(f, s)
           Bad == {s \in SUBSET S : ~ Good(s)}
<1>1. ASSUME Bad # {} PROVE FALSE
  <2>1. PICK m \in Bad : \A t \in Bad : Cardinality(m) <= Cardinality(t)
    <3>1. Bad \in SUBSET SUBSET S
      OBVIOUS
    <3> HIDE DEF Bad
    <3> QED BY <1>1, <3>1, Smallest
  <2>2. m \in SUBSET S /\ ~ Good(m)
    OBVIOUS
  <2>3. IsFiniteSet(m) /\ \A x \in m : f[x] \in Int /\ g[x] \in Int
    BY <2>2, FS_Subset
  <2>4. m # {}
    <3>1. ASSUME m = {} PROVE Good(m)
      <4>2. SumFunctionOnSet(f, {}) = 0 /\ SumFunctionOnSet(g, {}) = 0
        BY FS_EmptySet, SumOpens
      <4> QED BY <3>1, <4>2
    <3> QED BY <2>2, <3>1
  <2>5. PICK a \in m : TRUE
    BY <2>4
  <2>6. Good(m \ {a})
    <3>1. m \ {a} \notin Bad
      <4> HIDE DEF Bad
      <4> QED BY <2>1, <2>2, Smaller
    <3> QED BY <2>2, <3>1
  <2>7. /\ SumFunctionOnSet(f, m) = f[a] + SumFunctionOnSet(f, m \ {a})
        /\ SumFunctionOnSet(g, m) = g[a] + SumFunctionOnSet(g, m \ {a})
    BY <2>3, SumRemoves
  <2>8. SumFunctionOnSet(f, m \ {a}) \in Int /\ SumFunctionOnSet(g, m \ {a}) \in Int
    <3>1. IsFiniteSet(m \ {a}) /\ \A x \in m \ {a} : f[x] \in Int /\ g[x] \in Int
      BY <2>3, FS_Subset
    <3> QED BY <3>1, SumRemoves
  <2>9. PICK x \in Int, y \in Int, u \in Int, v \in Int :
            /\ x = f[a] /\ y = g[a]
            /\ u = SumFunctionOnSet(f, m \ {a}) /\ v = SumFunctionOnSet(g, m \ {a})
    BY <2>3, <2>8
  <2>10. u <= v /\ - v <= u /\ x <= y /\ - y <= x
    BY <2>2, <2>6, <2>9
  <2>11. SumFunctionOnSet(f, m) = x + u /\ SumFunctionOnSet(g, m) = y + v
    BY <2>7, <2>9
  <2>12. x + u <= y + v /\ - (y + v) <= x + u
    BY <2>10
  <2> QED BY <2>2, <2>11, <2>12
<1>2. S \notin Bad
  BY <1>1
<1>3. SumFunctionOnSet(f, S) \in Int /\ SumFunctionOnSet(g, S) \in Int
  BY SumRemoves
<1> QED BY <1>2, <1>3

-----------------------------------------------------------------------------
(* The rows of both sides, and the order of a row's candidates.            *)

LedgerRow == [id : Nat, loan : Int, amount : Int, at : Int]

LedgerSide(rows) ==
  /\ IsFiniteSet(rows) /\ rows \subseteq LedgerRow
  /\ \A a, b \in rows : a.id = b.id => a = b

FileSide(rows) ==
  /\ IsFiniteSet(rows) /\ rows \subseteq SettlementRow
  /\ \A c, d \in rows : c.ref = d.ref => c = d

(* A row's day is a number (DayOf).                                        *)
LEMMA DayIsWhole ==
  ASSUME NEW row, row.at \in Int
  PROVE DayOf(row) \in Int
BY ReconciliationAssumption DEF DayOf

(* What Distance gives: a natural number, the same both ways, that bounds  *)
(* the difference either way.                                              *)
LEMMA DistanceIs ==
  ASSUME NEW x \in Int, NEW y \in Int
  PROVE /\ Distance(x, y) \in Nat /\ Distance(x, y) = Distance(y, x)
        /\ x - y <= Distance(x, y) /\ y - x <= Distance(x, y)
BY DEF Distance

(* A row ranks the captures of a file by distinct tuples, for no two share *)
(* a ref (_match's candidate key).                                         *)
LEMMA RankKeys ==
  ASSUME NEW captures, FileSide(captures), NEW row, row.at \in Int, NEW S \in SUBSET captures
  PROVE Keyed(S, [c \in S |-> Rank(row, c)], 4)
<1> DEFINE key == [c \in S |-> Rank(row, c)]
<1>1. IsFiniteSet(S)
  BY FS_Subset DEF FileSide
<1>2. ASSUME NEW c \in S
      PROVE /\ Rank(row, c) \in [1 .. 4 -> Int] /\ Rank(row, c)[4] = c.ref
            /\ Rank(row, c)[1] = Distance(c.day, DayOf(row))
  <2>1. c.day \in Int /\ c.ref \in Int /\ DayOf(row) \in Int
    BY DayIsWhole DEF FileSide, SettlementRow
  <2>2. Distance(c.day, DayOf(row)) \in Int
    <3>1. PICK m \in Int, n \in Int : m = c.day /\ n = DayOf(row)
      BY <2>1
    <3>2. Distance(m, n) \in Int
      BY DistanceIs
    <3> QED BY <3>1, <3>2
  <2>3. Bit(~InWindow(c.day)) \in Int
    BY DEF Bit
  <2>4. PICK x \in Int, y \in Int : x = Distance(c.day, DayOf(row)) /\ y = Bit(~InWindow(c.day))
    BY <2>2, <2>3
  <2>5. <<x, y, c.day, c.ref>> \in [1 .. 4 -> Int]
    BY <2>1, <2>4
  <2>6. Rank(row, c) = <<x, y, c.day, c.ref>>
    BY <2>4 DEF Rank
  <2> QED BY <2>4, <2>5, <2>6
<1>3. \A c, d \in S : key[c] = key[d] => c = d
  BY <1>2 DEF FileSide
<1> QED BY <1>1, <1>2, <1>3 DEF Keyed

(* The best of a row's candidates is one of them, before all others.       *)
LEMMA BestIs ==
  ASSUME NEW captures, FileSide(captures), NEW row, row.at \in Int,
         NEW S \in SUBSET captures, S # {}
  PROVE /\ Best(row, S) \in S
        /\ \A d \in S \ {Best(row, S)} : Before(Rank(row, Best(row, S)), Rank(row, d))
<1> DEFINE key == [c \in S |-> Rank(row, c)]
<1>1. Keyed(S, key, 4)
  <2> HIDE DEF key
  <2> QED BY RankKeys DEF key
<1>2. \E x \in S : \A y \in S \ {x} : Before(key[x], key[y])
  <2> HIDE DEF key
  <2> QED BY <1>1, FirstExists
<1>3. \E x \in S : \A y \in S \ {x} : Before(Rank(row, x), Rank(row, y))
  BY <1>2
<1> QED BY <1>3 DEF Best

-----------------------------------------------------------------------------
(* The greedy passes of _match.                                            *)

Pairings(rows, captures) == [row : rows, capture : captures]

IsClaim(g, captures, eligible, key, D) ==
  g = [s \in D |-> IF s = {} THEN {}
                   ELSE Take(LastBy(s, key), g[s \ {LastBy(s, key)}], captures, eligible)]

(* A pass over rows, unfolded to the function that the fold chooses.       *)
LEMMA ClaimUnfolds ==
  ASSUME NEW rows, NEW captures, NEW eligible, NEW key
  PROVE Claim(rows, captures, eligible, key)
          = (CHOOSE g : IsClaim(g, captures, eligible, key, SUBSET rows))[rows]
BY DEF Claim, MapThenFoldSet, IsClaim

(* What a pass is given: keyed rows, a file, and pairs that it may make.   *)
Passable(rows, captures, key, n) ==
  LedgerSide(rows) /\ FileSide(captures) /\ Keyed(rows, key, n)

(* What taking does: nothing if all that the row may have is claimed, else *)
(* it claims the best of the rest.                                         *)
Taken(row, pairs, captures, eligible) ==
  LET taking == Take(row, pairs, captures, eligible) IN
  \/ /\ \A c \in captures : <<row, c>> \in eligible => c \in CapturesOf(pairs)
     /\ taking = pairs
  \/ \E c \in captures :
       /\ taking = pairs \cup {[row |-> row, capture |-> c]}
       /\ c \notin CapturesOf(pairs) /\ <<row, c>> \in eligible
       /\ \A d \in captures : d \notin CapturesOf(pairs) /\ <<row, d>> \in eligible /\ d # c
              => Before(Rank(row, c), Rank(row, d))

(* A row's turn does that, and nothing else (the body of _match's loop).   *)
LEMMA TakeIs ==
  ASSUME NEW rows, NEW captures, NEW eligible, NEW row, NEW pairs,
         LedgerSide(rows), FileSide(captures), row \in rows
  PROVE Taken(row, pairs, captures, eligible)
<1> DEFINE free == {c \in captures \ CapturesOf(pairs) : <<row, c>> \in eligible}
<1>1. CASE free = {}
  BY <1>1 DEF Take, Taken
<1>2. CASE free # {}
  <2>1. row.at \in Int /\ free \in SUBSET captures
    BY DEF LedgerSide, LedgerRow
  <2>2. PICK S \in SUBSET captures : S = free
    BY <2>1
  <2>3. /\ Best(row, S) \in S
        /\ \A d \in S \ {Best(row, S)} : Before(Rank(row, Best(row, S)), Rank(row, d))
    <3> HIDE DEF free
    <3> QED BY <1>2, <2>1, <2>2, BestIs
  <2>4. Take(row, pairs, captures, eligible) = pairs \cup {[row |-> row, capture |-> Best(row, S)]}
    BY <1>2, <2>2 DEF Take
  <2>5. PICK c : c = Best(row, S)
    OBVIOUS
  <2>6. /\ c \in captures /\ c \notin CapturesOf(pairs) /\ <<row, c>> \in eligible
        /\ Take(row, pairs, captures, eligible) = pairs \cup {[row |-> row, capture |-> c]}
    BY <2>2, <2>3, <2>4, <2>5
  <2>7. ASSUME NEW d \in captures, d \notin CapturesOf(pairs), <<row, d>> \in eligible, d # c
        PROVE Before(Rank(row, c), Rank(row, d))
    <3>1. d \in S \ {c}
      BY <2>2, <2>7
    <3> HIDE DEF free
    <3> QED BY <2>3, <2>5, <3>1
  <2> HIDE DEF free
  <2> QED BY <2>6, <2>7 DEF Taken
<1> QED BY <1>1, <1>2

(* There is such a function for the rows of every ledger.                  *)
LEMMA ClaimExists ==
  ASSUME NEW rows, NEW captures, NEW eligible, NEW key, NEW n, Passable(rows, captures, key, n)
  PROVE \E g : IsClaim(g, captures, eligible, key, SUBSET rows)
<1> DEFINE V == SUBSET Pairings(rows, captures)
           pick == [s \in SUBSET rows |-> LastBy(s, key)]
           step == [p \in rows \X V |-> Take(p[1], p[2], captures, eligible)]
<1>1. \A s \in SUBSET rows : s # {} => LastBy(s, key) \in s
  BY LastExists DEF Passable
<1>2. \A s \in SUBSET rows : pick[s] = LastBy(s, key) /\ (s # {} => pick[s] \in s)
  <2> QED BY <1>1
<1>3. ASSUME NEW x \in rows, NEW v \in V PROVE Take(x, v, captures, eligible) \in V
  <2>1. \/ Take(x, v, captures, eligible) = v
        \/ \E c \in captures : Take(x, v, captures, eligible) = v \cup {[row |-> x, capture |-> c]}
    <3>1. LedgerSide(rows) /\ FileSide(captures)
      BY DEF Passable
    <3>2. Taken(x, v, captures, eligible)
      <4> HIDE DEF V
      <4> QED BY <3>1, TakeIs
    <3> HIDE DEF V
    <3> QED BY <3>2 DEF Taken
  <2> QED BY <2>1 DEF Pairings
<1>4. step \in [rows \X V -> V]
  <2> HIDE DEF V
  <2> QED BY <1>3
<1>5. \A x \in rows, v \in V : step[<<x, v>>] = Take(x, v, captures, eligible)
  <2> HIDE DEF V
  <2> QED OBVIOUS
<1>6. CanFold(rows, pick, V, {}, step)
  <2>1. IsFiniteSet(rows) /\ {} \in V
    BY DEF Passable, LedgerSide
  <2> HIDE DEF pick, step, V
  <2> QED BY <1>2, <1>4, <2>1 DEF CanFold
<1>7. PICK g : IsFold(g, rows, pick, V, {}, step)
  <2> HIDE DEF pick, step, V
  <2> QED BY <1>6, FoldExists
<1>8. ASSUME NEW s \in SUBSET rows, s # {}
      PROVE g[s] = Take(LastBy(s, key), g[s \ {LastBy(s, key)}], captures, eligible)
  <2>1. PICK x, t : x = pick[s] /\ t = s \ {x}
    OBVIOUS
  <2>2. x = LastBy(s, key) /\ x \in rows /\ t \in SUBSET rows
    <3> HIDE DEF pick, step, V
    <3> QED BY <1>2, <1>8, <2>1
  <2>3. g[t] \in V /\ g[s] = step[<<x, g[t]>>]
    <3> HIDE DEF pick, step, V
    <3> QED BY <1>7, <1>8, <2>1, <2>2 DEF IsFold
  <2> HIDE DEF pick, step, V
  <2> QED BY <1>5, <2>1, <2>2, <2>3
<1>9. g[{}] = {} /\ g = [s \in SUBSET rows |-> g[s]]
  <2> HIDE DEF pick, step, V
  <2> QED BY <1>7 DEF IsFold
<1>10. [s \in SUBSET rows |-> g[s]]
         = [s \in SUBSET rows |-> IF s = {} THEN {}
              ELSE Take(LastBy(s, key), g[s \ {LastBy(s, key)}], captures, eligible)]
  <2> HIDE DEF pick, step, V
  <2> QED BY <1>8, <1>9
<1> HIDE DEF pick, step, V
<1> QED BY <1>9, <1>10 DEF IsClaim

(* On the rows that both know, two of the fold's functions agree.          *)
LEMMA ClaimsAgree ==
  ASSUME NEW rows, NEW captures, NEW eligible, NEW key, NEW n, Passable(rows, captures, key, n),
         NEW T \in SUBSET rows, NEW g, NEW h,
         IsClaim(g, captures, eligible, key, SUBSET rows),
         IsClaim(h, captures, eligible, key, SUBSET T)
  PROVE \A s \in SUBSET T : g[s] = h[s]
<1> DEFINE Bad == {s \in SUBSET T : g[s] # h[s]}
<1>0. \A s \in SUBSET rows : s # {} => LastBy(s, key) \in s
  BY LastExists DEF Passable
<1>1. ASSUME Bad # {} PROVE FALSE
  <2>1. IsFiniteSet(T) /\ Bad \in SUBSET SUBSET T
    BY FS_Subset DEF Passable, LedgerSide
  <2>2. PICK m \in Bad : \A t \in Bad : Cardinality(m) <= Cardinality(t)
    <3> HIDE DEF Bad
    <3> QED BY <1>1, <2>1, Smallest
  <2>3. m \in SUBSET T /\ m \in SUBSET rows /\ g[m] # h[m]
    OBVIOUS
  <2>4. PICK x, t : x = LastBy(m, key) /\ t = m \ {x}
    OBVIOUS
  <2>5. g[m] = (IF m = {} THEN {} ELSE Take(x, g[t], captures, eligible))
    BY <2>3, <2>4 DEF IsClaim
  <2>6. h[m] = (IF m = {} THEN {} ELSE Take(x, h[t], captures, eligible))
    BY <2>3, <2>4 DEF IsClaim
  <2>7. m # {} /\ x \in m
    BY <1>0, <2>3, <2>4, <2>5, <2>6
  <2>8. t \notin Bad
    <3> HIDE DEF Bad
    <3> QED BY <2>1, <2>2, <2>3, <2>4, <2>7, Smaller
  <2>9. g[t] = h[t]
    BY <2>3, <2>4, <2>8
  <2> QED BY <2>3, <2>5, <2>6, <2>9
<1> QED BY <1>1

(* A pass over the rows is one over all but the last, and then the last.   *)
LEMMA ClaimOpens ==
  ASSUME NEW rows, NEW captures, NEW eligible, NEW key, NEW n, Passable(rows, captures, key, n)
  PROVE /\ rows = {} => Claim(rows, captures, eligible, key) = {}
        /\ rows # {} =>
             Claim(rows, captures, eligible, key)
               = Take(LastBy(rows, key),
                      Claim(rows \ {LastBy(rows, key)}, captures, eligible, key),
                      captures, eligible)
<1> DEFINE x == LastBy(rows, key)
<1>1. PICK g : g = CHOOSE g0 : IsClaim(g0, captures, eligible, key, SUBSET rows)
  OBVIOUS
<1>2. IsClaim(g, captures, eligible, key, SUBSET rows) /\ Claim(rows, captures, eligible, key) = g[rows]
  BY <1>1, ClaimExists, ClaimUnfolds
<1>3. Claim(rows, captures, eligible, key)
        = IF rows = {} THEN {} ELSE Take(x, g[rows \ {x}], captures, eligible)
  BY <1>2 DEF IsClaim
<1>4. PICK T \in SUBSET rows : T = rows \ {x}
  OBVIOUS
<1>5. Passable(T, captures, key, n)
  BY FS_Subset DEF Passable, LedgerSide, Keyed
<1>6. PICK h : h = CHOOSE g0 : IsClaim(g0, captures, eligible, key, SUBSET T)
  OBVIOUS
<1>7. IsClaim(h, captures, eligible, key, SUBSET T) /\ Claim(T, captures, eligible, key) = h[T]
  BY <1>5, <1>6, ClaimExists, ClaimUnfolds
<1>8. \A s \in SUBSET T : g[s] = h[s]
  BY ONLY Passable(rows, captures, key, n), <1>2, <1>7, T \in SUBSET rows, ClaimsAgree
<1>9. g[T] = Claim(T, captures, eligible, key)
  BY <1>7, <1>8
<1> QED BY <1>3, <1>4, <1>9

(* A sound set of pairs: each of an eligible row and capture, none used    *)
(* twice, nothing left on both sides that could have been paired, and each *)
(* capture better for its row than any that is left.                       *)
ClaimSound(P, rows, captures, eligible) ==
  /\ P \subseteq Pairings(rows, captures)
  /\ \A p \in P : <<p.row, p.capture>> \in eligible
  /\ \A p, q \in P : p.row = q.row <=> p.capture = q.capture
  /\ \A r \in rows, c \in captures :
        <<r, c>> \in eligible => r \in RowsOf(P) \/ c \in CapturesOf(P)
  /\ \A p \in P, c \in captures :
        <<p.row, c>> \in eligible /\ c # p.capture /\ c \notin CapturesOf(P)
            => Before(Rank(p.row, p.capture), Rank(p.row, c))

(* A row's turn keeps the pairs sound, with the row among those that had   *)
(* theirs.                                                                 *)
LEMMA TakeIsSound ==
  ASSUME NEW rows, NEW captures, NEW eligible, NEW row, row \notin rows, NEW P,
         ClaimSound(P, rows, captures, eligible), Taken(row, P, captures, eligible)
  PROVE ClaimSound(Take(row, P, captures, eligible), rows \cup {row}, captures, eligible)
<1>1. /\ P \subseteq Pairings(rows, captures)
      /\ \A p \in P : p.row \in rows /\ p.capture \in captures /\ p.row # row
  BY DEF ClaimSound, Pairings
<1>2. CASE /\ \A c \in captures : <<row, c>> \in eligible => c \in CapturesOf(P)
           /\ Take(row, P, captures, eligible) = P
  <2>1. P \subseteq Pairings(rows \cup {row}, captures)
    BY <1>1 DEF Pairings
  <2> QED BY <1>2, <2>1 DEF ClaimSound
<1>3. ASSUME NEW c \in captures,
             Take(row, P, captures, eligible) = P \cup {[row |-> row, capture |-> c]},
             c \notin CapturesOf(P), <<row, c>> \in eligible,
             \A d \in captures : d \notin CapturesOf(P) /\ <<row, d>> \in eligible /\ d # c
                 => Before(Rank(row, c), Rank(row, d))
      PROVE ClaimSound(Take(row, P, captures, eligible), rows \cup {row}, captures, eligible)
  <2>1. PICK n, Q : n = [row |-> row, capture |-> c] /\ Q = P \cup {n}
    OBVIOUS
  <2>2. /\ Take(row, P, captures, eligible) = Q
        /\ n.row = row /\ n.capture = c /\ n \in Q /\ P \subseteq Q
        /\ \A q \in Q : q \in P \/ q = n
    BY <1>3, <2>1
  <2>3. \A p \in P : p.capture # c
    BY <1>3 DEF CapturesOf
  <2>4. Q \subseteq Pairings(rows \cup {row}, captures)
    <3>1. P \subseteq Pairings(rows \cup {row}, captures)
      BY <1>1 DEF Pairings
    <3>2. n \in Pairings(rows \cup {row}, captures)
      BY <2>1 DEF Pairings
    <3> QED BY <2>1, <3>1, <3>2
  <2>5. /\ RowsOf(Q) = RowsOf(P) \cup {row}
        /\ CapturesOf(Q) = CapturesOf(P) \cup {c}
    BY <2>1, <2>2 DEF RowsOf, CapturesOf
  <2>6. \A p \in Q : <<p.row, p.capture>> \in eligible
    BY <1>3, <2>2 DEF ClaimSound
  <2>7. \A p, q \in Q : p.row = q.row <=> p.capture = q.capture
    BY <1>1, <2>2, <2>3 DEF ClaimSound
  <2>8. \A r \in rows \cup {row}, d \in captures :
            <<r, d>> \in eligible => r \in RowsOf(Q) \/ d \in CapturesOf(Q)
    BY <2>5 DEF ClaimSound
  <2>9. \A p \in Q, d \in captures :
            <<p.row, d>> \in eligible /\ d # p.capture /\ d \notin CapturesOf(Q)
                => Before(Rank(p.row, p.capture), Rank(p.row, d))
    <3>1. ASSUME NEW p \in Q, NEW d \in captures, <<p.row, d>> \in eligible, d # p.capture,
                 d \notin CapturesOf(Q)
          PROVE Before(Rank(p.row, p.capture), Rank(p.row, d))
      <4>1. d \notin CapturesOf(P)
        BY <2>5, <3>1
      <4>2. CASE p \in P
        BY <3>1, <4>1, <4>2 DEF ClaimSound
      <4>3. CASE p = n
        <5>1. Before(Rank(row, c), Rank(row, d))
          BY <1>3, <2>2, <3>1, <4>1, <4>3
        <5> QED BY <2>2, <4>3, <5>1
      <4> QED BY <2>2, <4>2, <4>3
    <3> QED BY <3>1
  <2> QED BY <2>2, <2>4, <2>6, <2>7, <2>8, <2>9 DEF ClaimSound
<1> QED BY <1>2, <1>3 DEF Taken

(* A pass ends with a sound set of pairs, in whatever order the keys put   *)
(* the rows (_match).                                                      *)
LEMMA ClaimIsSound ==
  ASSUME NEW rows, NEW captures, NEW eligible, NEW key, NEW n, Passable(rows, captures, key, n)
  PROVE ClaimSound(Claim(rows, captures, eligible, key), rows, captures, eligible)
<1> DEFINE Good(s) == ClaimSound(Claim(s, captures, eligible, key), s, captures, eligible)
           Bad == {s \in SUBSET rows : ~ Good(s)}
<1>1. ASSUME Bad # {} PROVE FALSE
  <2>1. PICK m \in Bad : \A t \in Bad : Cardinality(m) <= Cardinality(t)
    <3>1. Bad \in SUBSET SUBSET rows /\ IsFiniteSet(rows)
      BY DEF Passable, LedgerSide
    <3> HIDE DEF Bad
    <3> QED BY <1>1, <3>1, Smallest
  <2>2. m \in SUBSET rows /\ ~ Good(m)
    OBVIOUS
  <2>3. Passable(m, captures, key, n)
    BY <2>2, FS_Subset DEF Passable, LedgerSide, Keyed
  <2>4. m # {}
    <3>1. ASSUME m = {} PROVE Good(m)
      <4>1. Claim(m, captures, eligible, key) = {}
        BY <2>3, <3>1, ClaimOpens
      <4> QED BY <3>1, <4>1 DEF ClaimSound
    <3> QED BY <2>2, <3>1
  <2>5. PICK x, t : x = LastBy(m, key) /\ t = m \ {x}
    OBVIOUS
  <2>6. x \in m
    <3>1. Keyed(m, key, n)
      BY <2>3 DEF Passable
    <3> QED BY <2>4, <2>5, <3>1, LastExists
  <2>7. Good(t)
    <3>1. t \notin Bad
      <4>1. IsFiniteSet(rows)
        BY DEF Passable, LedgerSide
      <4> HIDE DEF Bad
      <4> QED BY <2>1, <2>2, <2>5, <2>6, <4>1, Smaller
    <3> QED BY <2>2, <2>5, <3>1
  <2>8. Claim(m, captures, eligible, key)
          = Take(x, Claim(t, captures, eligible, key), captures, eligible)
    BY <2>3, <2>4, <2>5, ClaimOpens
  <2>9. PICK P : P = Claim(t, captures, eligible, key)
    OBVIOUS
  <2>10. Taken(x, P, captures, eligible)
    <3>1. LedgerSide(m) /\ FileSide(captures)
      BY <2>3 DEF Passable
    <3> HIDE DEF Bad, Good
    <3> QED BY <2>6, <3>1, TakeIs
  <2>11. ClaimSound(Take(x, P, captures, eligible), t \cup {x}, captures, eligible)
    <3>1. x \notin t /\ ClaimSound(P, t, captures, eligible)
      BY <2>5, <2>7, <2>9
    <3> HIDE DEF Bad, Good
    <3> QED BY <2>10, <3>1, TakeIsSound
  <2>12. t \cup {x} = m
    BY <2>5, <2>6
  <2> QED BY <2>2, <2>8, <2>9, <2>11, <2>12
<1>2. rows \notin Bad
  BY <1>1
<1> QED BY <1>2

-----------------------------------------------------------------------------
(* What a report says of each row.                                         *)

(* A truth value is sorted as 0 or 1.                                      *)
LEMMA BitIsWhole ==
  ASSUME NEW b
  PROVE Bit(b) \in {0, 1}
BY DEF Bit

TupleEligible(rows, captures) == {p \in rows \X captures : SameTuple(p[1], p[2])}
LoanEligible(rows, captures) == {p \in rows \X captures : SameLoan(p[1], p[2])}

(* The exact pass is sound: its keys are distinct, since they end in the   *)
(* row's id (_match).                                                      *)
LEMMA ExactIsSound ==
  ASSUME NEW rows, NEW captures, LedgerSide(rows), FileSide(captures)
  PROVE ClaimSound(Exact(rows, captures), rows, captures, TupleEligible(rows, captures))
<1> DEFINE key == [r \in rows |-> <<r.loan, r.amount, Bit(~InWindow(DayOf(r))), r.at, r.id>>]
<1>1. ASSUME NEW r \in rows PROVE key[r] \in [1 .. 5 -> Int] /\ key[r][5] = r.id
  <2>1. r.loan \in Int /\ r.amount \in Int /\ r.at \in Int /\ r.id \in Int
    BY DEF LedgerSide, LedgerRow
  <2>2. PICK b \in Int : b = Bit(~InWindow(DayOf(r)))
    BY DEF Bit
  <2>3. <<r.loan, r.amount, b, r.at, r.id>> \in [1 .. 5 -> Int]
    BY <2>1
  <2> QED BY <2>2, <2>3
<1>2. Keyed(rows, key, 5)
  <2>1. \A x, y \in rows : key[x] = key[y] => x = y
    <3> HIDE DEF key
    <3> QED BY <1>1 DEF LedgerSide
  <2> HIDE DEF key
  <2> QED BY <1>1, <2>1 DEF Keyed, LedgerSide
<1>3. Passable(rows, captures, key, 5)
  <2> HIDE DEF key
  <2> QED BY <1>2 DEF Passable
<1>4. Exact(rows, captures) = Claim(rows, captures, TupleEligible(rows, captures), key)
  BY DEF Exact, TupleEligible
<1>5. ClaimSound(Claim(rows, captures, TupleEligible(rows, captures), key), rows, captures,
                 TupleEligible(rows, captures))
  <2> HIDE DEF key
  <2> QED BY <1>3, ClaimIsSound
<1> HIDE DEF key
<1> QED BY <1>4, <1>5

(* And so is the pass by loan over what the exact one left (_match).       *)
LEMMA MismatchedIsSound ==
  ASSUME NEW rows, NEW captures, LedgerSide(rows), FileSide(captures)
  PROVE ClaimSound(Mismatched(rows, captures), rows, captures, LoanEligible(rows, captures))
<1> DEFINE key == [r \in rows |-> <<r.loan, Bit(~InWindow(DayOf(r))), r.at, r.id>>]
<1>1. ASSUME NEW r \in rows PROVE key[r] \in [1 .. 4 -> Int] /\ key[r][4] = r.id
  <2>1. r.loan \in Int /\ r.at \in Int /\ r.id \in Int
    BY DEF LedgerSide, LedgerRow
  <2>2. PICK b \in Int : b = Bit(~InWindow(DayOf(r)))
    BY DEF Bit
  <2>3. <<r.loan, b, r.at, r.id>> \in [1 .. 4 -> Int]
    BY <2>1
  <2> QED BY <2>2, <2>3
<1>2. Keyed(rows, key, 4)
  <2>1. \A x, y \in rows : key[x] = key[y] => x = y
    <3> HIDE DEF key
    <3> QED BY <1>1 DEF LedgerSide
  <2> HIDE DEF key
  <2> QED BY <1>1, <2>1 DEF Keyed, LedgerSide
<1>3. Passable(rows, captures, key, 4)
  <2> HIDE DEF key
  <2> QED BY <1>2 DEF Passable
<1>4. Mismatched(rows, captures) = Claim(rows, captures, LoanEligible(rows, captures), key)
  BY DEF Mismatched, LoanEligible
<1>5. ClaimSound(Claim(rows, captures, LoanEligible(rows, captures), key), rows, captures,
                 LoanEligible(rows, captures))
  <2> HIDE DEF key
  <2> QED BY <1>3, ClaimIsSound
<1> HIDE DEF key
<1> QED BY <1>4, <1>5

(* What a report is made of: the two passes and what they leave.           *)
Inputs == /\ LedgerSide(pool) /\ FileSide(file)
          /\ window.from \in Int /\ window.to \in Int

Near == {c \in Captures(file) : window.from - Tolerance <= c.day /\ c.day <= window.to + Tolerance}

MadeIn(rep, E, M, L, U) ==
  /\ E \subseteq Pairings(pool, Near) /\ M \subseteq Pairings(L, U)
  /\ L = pool \ RowsOf(E) /\ U = Near \ CapturesOf(E)
  /\ ClaimSound(E, pool, Near, TupleEligible(pool, Near))
  /\ ClaimSound(M, L, U, LoanEligible(L, U))
  /\ rep.exact = E
  /\ rep.mismatched = {p \in M : Reportable(p)}
  /\ rep.inLedgerOnly = InWindowRows(L \ RowsOf(M))
  /\ rep.inFileOnly = {c \in U \ CapturesOf(M) : InWindow(c.day)}
  /\ rep.refunds = Refunds(InWindowFile)
  /\ rep.variance = PerLoanAbsolute(Ledger, InWindowFile)

MadeOf(E, M, L, U) == MadeIn(report, E, M, L, U)

(* What reconcile returns is made of two sound passes and what each leaves *)
(* (Report).                                                               *)
LEMMA ReportIsMadeOf ==
  ASSUME Inputs, NEW again, NEW rep, rep = Report(pool, again)
  PROVE /\ \E E, M, L, U : MadeIn(rep, E, M, L, U)
        /\ rep.duplicates = {p \in Suspects(again, Ledger) : Touches(p, Ledger)}
<1>1. PICK K : K = Near
  OBVIOUS
<1>2. FileSide(K)
  <2>1. K \subseteq file
    BY <1>1 DEF Near, Captures
  <2> QED BY <2>1, FS_Subset DEF Inputs, FileSide
<1>3. PICK E : E = Exact(pool, K)
  OBVIOUS
<1>4. ClaimSound(E, pool, K, TupleEligible(pool, K))
  BY <1>2, <1>3, ExactIsSound DEF Inputs
<1>5. PICK L, U : L = pool \ RowsOf(E) /\ U = K \ CapturesOf(E)
  OBVIOUS
<1>6. LedgerSide(L) /\ FileSide(U)
  <2>1. L \subseteq pool /\ U \subseteq K
    BY <1>5
  <2> QED BY <1>2, <2>1, FS_Subset DEF Inputs, LedgerSide, FileSide
<1>7. PICK M : M = Mismatched(L, U)
  OBVIOUS
<1>8. ClaimSound(M, L, U, LoanEligible(L, U))
  BY <1>6, <1>7, MismatchedIsSound
<1>9. K = {c \in Captures(file) :
              LET w == Widened(Tolerance) IN w.from <= c.day /\ c.day <= w.to}
  BY <1>1 DEF Near, Widened
<1>10. rep = [exact |-> E,
          mismatched |-> {p \in M : Reportable(p)},
          inLedgerOnly |-> InWindowRows(L \ RowsOf(M)),
          inFileOnly |-> {c \in U \ CapturesOf(M) : InWindow(c.day)},
          refunds |-> Refunds(InWindowFile),
          duplicates |-> {p \in Suspects(again, InWindowRows(pool)) :
                              Touches(p, InWindowRows(pool))},
          variance |-> PerLoanAbsolute(InWindowRows(pool), InWindowFile)]
  BY <1>3, <1>5, <1>7, <1>9 DEF Report
<1>11. /\ rep.exact = E
       /\ rep.mismatched = {p \in M : Reportable(p)}
       /\ rep.inLedgerOnly = InWindowRows(L \ RowsOf(M))
       /\ rep.inFileOnly = {c \in U \ CapturesOf(M) : InWindow(c.day)}
       /\ rep.refunds = Refunds(InWindowFile)
       /\ rep.duplicates = {p \in Suspects(again, InWindowRows(pool)) :
                              Touches(p, InWindowRows(pool))}
       /\ rep.variance = PerLoanAbsolute(InWindowRows(pool), InWindowFile)
  BY ONLY <1>10
<1>12. MadeIn(rep, E, M, L, U)
  <2>1. E \subseteq Pairings(pool, K) /\ M \subseteq Pairings(L, U)
    BY <1>4, <1>8 DEF ClaimSound
  <2> QED BY <1>1, <1>4, <1>5, <1>8, <1>11, <2>1 DEF MadeIn, Ledger
<1> QED BY <1>11, <1>12 DEF Ledger

(* In such a report every row and capture of the window is explained once  *)
(* (_match, reconcile).                                                    *)
LEMMA RowsAreExplainedOnce ==
  ASSUME Inputs, NEW E, NEW M, NEW L, NEW U, MadeOf(E, M, L, U)
  PROVE EachRowExplainedOnce
<1>1. /\ \A p \in E : p.row \in pool /\ p.row \notin L /\ p.capture \in Near /\ p.capture \notin U
      /\ \A p \in M : p.row \in L /\ p.capture \in U
      /\ \A p \in Pairs : p \in E \/ (p \in M /\ Reportable(p))
      /\ \A p \in E : p \in Pairs
      /\ \A p \in M : Reportable(p) => p \in Pairs
      /\ \A r \in pool : r \in L <=> r \notin RowsOf(E)
      /\ \A c \in Near : c \in U <=> c \notin CapturesOf(E)
  BY DEF MadeOf, MadeIn, Pairings, Pairs, RowsOf, CapturesOf
<1>2. /\ \A p, q \in E : p.row = q.row <=> p.capture = q.capture
      /\ \A p, q \in M : p.row = q.row <=> p.capture = q.capture
  BY DEF MadeOf, MadeIn, ClaimSound
<1>3. \A p, q \in Pairs : p.row = q.row <=> p.capture = q.capture
  BY <1>1, <1>2
<1>4. ASSUME NEW r \in Ledger
      PROVE r \in RowsOf(Pairs) <=> r \notin report.inLedgerOnly
  <2>1. r \in pool /\ InWindow(DayOf(r))
    BY <1>4 DEF Ledger, InWindowRows
  <2>2. r \in report.inLedgerOnly <=> r \in L /\ r \notin RowsOf(M)
    BY <2>1 DEF MadeOf, MadeIn, InWindowRows
  <2>3. r \in RowsOf(M) => r \in RowsOf(Pairs)
    BY <1>1, <2>1 DEF RowsOf, Reportable
  <2>4. r \notin L => r \in RowsOf(Pairs)
    BY <1>1, <2>1 DEF RowsOf
  <2>5. r \in RowsOf(Pairs) => r \notin L \/ r \in RowsOf(M)
    BY <1>1 DEF RowsOf
  <2> QED BY <2>2, <2>3, <2>4, <2>5
<1>5. ASSUME NEW c \in InWindowCaptures
      PROVE c \in CapturesOf(Pairs) <=> c \notin report.inFileOnly
  <2>1. c \in Near /\ InWindow(c.day)
    <3>1. c \in Captures(file) /\ c.day \in Int /\ InWindow(c.day)
      BY <1>5 DEF InWindowCaptures, Captures, InWindowFile, Inputs, FileSide, SettlementRow
    <3> QED BY <3>1, ReconciliationAssumption DEF Near, InWindow, Inputs
  <2>2. c \in report.inFileOnly <=> c \in U /\ c \notin CapturesOf(M)
    BY <2>1 DEF MadeOf, MadeIn
  <2>3. c \in CapturesOf(M) => c \in CapturesOf(Pairs)
    BY <1>1, <2>1 DEF CapturesOf, Reportable
  <2>4. c \notin U => c \in CapturesOf(Pairs)
    BY <1>1, <2>1 DEF CapturesOf
  <2>5. c \in CapturesOf(Pairs) => c \notin U \/ c \in CapturesOf(M)
    BY <1>1 DEF CapturesOf
  <2> QED BY <2>2, <2>3, <2>4, <2>5
<1>6. ASSUME NEW r \in report.inLedgerOnly, NEW c \in report.inFileOnly PROVE ~ SameLoan(r, c)
  <2>1. r \in L /\ r \notin RowsOf(M) /\ c \in U /\ c \notin CapturesOf(M)
    BY <1>6 DEF MadeOf, MadeIn, InWindowRows
  <2>2. <<r, c>> \notin LoanEligible(L, U)
    BY <2>1 DEF MadeOf, MadeIn, ClaimSound
  <2> QED BY <2>1, <2>2 DEF LoanEligible
<1>7. ASSUME NEW p \in report.exact, NEW c \in report.inFileOnly, SameTuple(p.row, c)
      PROVE Distance(p.capture.day, DayOf(p.row)) <= Distance(c.day, DayOf(p.row))
  <2>1. p \in E /\ c \in U /\ c \in Near /\ c \notin CapturesOf(E) /\ c # p.capture
    BY <1>1, <1>7 DEF MadeOf, MadeIn, CapturesOf
  <2>2. <<p.row, c>> \in TupleEligible(pool, Near)
    BY <1>1, <1>7, <2>1 DEF TupleEligible
  <2>3. Before(Rank(p.row, p.capture), Rank(p.row, c))
    BY <2>1, <2>2 DEF MadeOf, MadeIn, ClaimSound
  <2>4. PICK s, t : s = Rank(p.row, p.capture) /\ t = Rank(p.row, c)
    OBVIOUS
  <2>5. /\ DOMAIN s = 1 .. 4
        /\ s[1] = Distance(p.capture.day, DayOf(p.row)) /\ t[1] = Distance(c.day, DayOf(p.row))
    BY <2>4 DEF Rank
  <2>6. s[1] \in Int /\ t[1] \in Int
    <3>1. DayOf(p.row) \in Int /\ p.capture.day \in Int /\ c.day \in Int
      <4>1. p.row.at \in Int
        BY <1>1, <2>1 DEF Inputs, LedgerSide, LedgerRow
      <4>2. p.capture \in file /\ c \in file
        BY <1>1, <2>1 DEF Near, Captures
      <4> QED BY <4>1, <4>2, DayIsWhole DEF Inputs, FileSide, SettlementRow
    <3>2. PICK x \in Int, y \in Int, z \in Int : x = DayOf(p.row) /\ y = p.capture.day /\ z = c.day
      BY <3>1
    <3>3. Distance(y, x) \in Nat /\ Distance(z, x) \in Nat
      BY DistanceIs
    <3> QED BY <2>5, <3>2, <3>3
  <2>7. PICK i \in 1 .. 4 : s[i] < t[i] /\ \A j \in 1 .. (i - 1) : s[j] = t[j]
    BY <2>3, <2>4, <2>5 DEF Before
  <2>8. s[1] <= t[1]
    <3>1. CASE i = 1
      BY <2>6, <2>7, <3>1
    <3>2. CASE i # 1
      BY <2>6, <2>7, <3>2
    <3> QED BY <3>1, <3>2
  <2> QED BY <2>5, <2>8
<1> QED BY <1>3, <1>4, <1>5, <1>6, <1>7 DEF EachRowExplainedOnce

-----------------------------------------------------------------------------
(* What a report says of each loan's variance.                             *)

(* A total is a sum of amounts, over the part of any set.                  *)
LEMMA TotalIs ==
  ASSUME NEW Y, IsFiniteSet(Y), \A y \in Y : y.amount \in Int, NEW X \in SUBSET Y
  PROVE /\ Total(X) = SumFunctionOnSet([y \in Y |-> y.amount], X)
        /\ Total(X) \in Int /\ IsFiniteSet(X)
<1> DEFINE f == [y \in Y |-> y.amount]
           g == [x \in X |-> x.amount]
<1>1. IsFiniteSet(X) /\ \A x \in X : f[x] \in Int /\ g[x] = f[x]
  BY FS_Subset
<1>2. SumFunctionOnSet(g, X) = SumFunctionOnSet(f, X) /\ SumFunctionOnSet(f, X) \in Int
  <2> HIDE DEF f, g
  <2> QED BY <1>1, SumOfSame, SumRemoves
<1>3. Total(X) = SumFunctionOnSet(g, X)
  <2>1. DOMAIN g = X
    OBVIOUS
  <2> QED BY <2>1 DEF Total, SumFunction
<1> QED BY <1>1, <1>2, <1>3

(* A sum over a function's domain is the sum of any function like it.      *)
LEMMA SumOverDomain ==
  ASSUME NEW X, IsFiniteSet(X), NEW f, DOMAIN f = X, NEW g, \A x \in X : g[x] \in Int /\ f[x] = g[x]
  PROVE SumFunction(f) = SumFunctionOnSet(g, X)
BY SumOfSame DEF SumFunction

(* The pairs of a loan, by the sides of the window they are on.            *)
Within2(l) == {p \in report.exact : p.row.loan = l /\ InWindow(DayOf(p.row)) /\ InWindow(p.capture.day)}
InsideOf(l) == {p \in report.mismatched : p.row.loan = l /\ p \notin Crossing(l)}
EarlyOf(l) == {p \in Crossing(l) : InWindow(DayOf(p.row))}
LateOf(l) == Crossing(l) \ EarlyOf(l)

(* The pairs with a row in the window, and those with a capture in it, are *)
(* those inside it and those that cross its edge on that side.             *)
LEMMA PairsSplit ==
  ASSUME Inputs, NEW E, NEW M, NEW L, NEW U, MadeOf(E, M, L, U), NEW l
  PROVE /\ {p \in Pairs : p.row.loan = l /\ InWindow(DayOf(p.row))}
             = (Within2(l) \cup InsideOf(l)) \cup EarlyOf(l)
        /\ {p \in Pairs : p.row.loan = l /\ InWindow(p.capture.day)}
             = (Within2(l) \cup InsideOf(l)) \cup LateOf(l)
        /\ Within2(l) \cap InsideOf(l) = {}
        /\ (Within2(l) \cup InsideOf(l)) \cap EarlyOf(l) = {}
        /\ (Within2(l) \cup InsideOf(l)) \cap LateOf(l) = {}
        /\ \A p \in Within2(l) : p.row.amount = p.capture.amount
        /\ \A p \in Pairs : p.row \in pool /\ p.capture \in Near /\ p.row.loan = p.capture.loan
<1>1. /\ \A p \in E : p.row \in pool /\ p.row \notin L /\ p.capture \in Near
      /\ \A p \in M : p.row \in L /\ p.capture \in U
      /\ L \subseteq pool /\ U \subseteq Near
      /\ report.exact = E /\ report.mismatched = {p \in M : Reportable(p)}
  BY DEF MadeOf, MadeIn, Pairings, RowsOf
<1>2. \A p \in E : p.row.loan = p.capture.loan /\ p.row.amount = p.capture.amount
  BY DEF MadeOf, MadeIn, ClaimSound, TupleEligible, SameTuple
<1>3. \A p \in M : p.row.loan = p.capture.loan
  BY DEF MadeOf, MadeIn, ClaimSound, LoanEligible, SameLoan
<1>4. \A p \in report.mismatched : p.row \in L /\ (InWindow(DayOf(p.row)) \/ InWindow(p.capture.day))
  BY <1>1 DEF Reportable
<1>5. Pairs = report.exact \cup report.mismatched /\ report.exact = E
  BY <1>1 DEF Pairs
<1>6. \A p : p \in Crossing(l) <=> /\ p \in Pairs /\ p.row.loan = l
                                   /\ InWindow(DayOf(p.row)) # InWindow(p.capture.day)
  BY DEF Crossing
<1>6a. \A p \in Pairs : /\ InWindow(DayOf(p.row)) \in BOOLEAN
                        /\ InWindow(p.capture.day) \in BOOLEAN
  BY DEF InWindow
<1>7. {p \in Pairs : p.row.loan = l /\ InWindow(DayOf(p.row))}
             = (Within2(l) \cup InsideOf(l)) \cup EarlyOf(l)
  BY <1>4, <1>5, <1>6, <1>6a DEF Within2, InsideOf, EarlyOf
<1>8. {p \in Pairs : p.row.loan = l /\ InWindow(p.capture.day)}
             = (Within2(l) \cup InsideOf(l)) \cup LateOf(l)
  BY <1>4, <1>5, <1>6, <1>6a DEF Within2, InsideOf, LateOf, EarlyOf
<1>9. Within2(l) \cap InsideOf(l) = {}
  BY <1>1, <1>4 DEF Within2, InsideOf
<1>10. \A p \in Within2(l) \cup InsideOf(l) : p \notin Crossing(l)
  BY <1>6, <1>6a DEF Within2, InsideOf
<1>11. /\ (Within2(l) \cup InsideOf(l)) \cap EarlyOf(l) = {}
       /\ (Within2(l) \cup InsideOf(l)) \cap LateOf(l) = {}
  BY <1>10 DEF EarlyOf, LateOf
<1>12. \A p \in Within2(l) : p.row.amount = p.capture.amount
  BY <1>2, <1>5 DEF Within2
<1>13. \A p \in Pairs : p.row \in pool /\ p.capture \in Near /\ p.row.loan = p.capture.loan
  BY <1>1, <1>2, <1>3, <1>5
<1> QED BY <1>7, <1>8, <1>9, <1>11, <1>12, <1>13

(* A function's values on a finite set are finitely many.                  *)
LEMMA ImageIsFinite ==
  ASSUME NEW S, IsFiniteSet(S), NEW h
  PROVE IsFiniteSet({h[x] : x \in S})
<1> DEFINE T == {h[x] : x \in S}
           f == [x \in S |-> h[x]]
<1>1. f \in Surjection(S, T)
  BY DEF Surjection
<1> HIDE DEF T, f
<1>2. IsFiniteSet(T)
  BY <1>1, FS_Surjection
<1> QED BY <1>2 DEF T

(* A sum that is moved along a function that is one to one.                *)
Moves(S, h, I, f, g) ==
  /\ IsFiniteSet(S) /\ I = {h[x] : x \in S}
  /\ \A x, y \in S : h[x] = h[y] => x = y
  /\ \A x \in S : g[x] \in Int /\ f[h[x]] = g[x]

(* The sum is the same on both sides of such a function.                   *)
LEMMA SumMoves ==
  ASSUME NEW S, NEW h, NEW I, NEW f, NEW g, Moves(S, h, I, f, g)
  PROVE SumFunctionOnSet(f, I) = SumFunctionOnSet(g, S)
BY SumOfImage DEF Moves

(* A report has finitely many pairs.                                       *)
LEMMA PairsAreFinite ==
  ASSUME Inputs, NEW E, NEW M, NEW L, NEW U, MadeOf(E, M, L, U)
  PROVE IsFiniteSet(Pairs)
<1>1. IsFiniteSet(pool) /\ IsFiniteSet(Near)
  <2>1. Near \subseteq file
    BY DEF Near, Captures
  <2> QED BY <2>1, FS_Subset DEF Inputs, LedgerSide, FileSide
<1>2. IsFiniteSet(pool \X Near)
  BY <1>1, FS_Product
<1> DEFINE h == [q \in pool \X Near |-> [row |-> q[1], capture |-> q[2]]]
           P == {h[q] : q \in pool \X Near}
<1>3. IsFiniteSet(P)
  <2> HIDE DEF h
  <2> QED BY <1>2, ImageIsFinite
<1>4. Pairs \subseteq P
  <2>1. /\ E \subseteq Pairings(pool, Near) /\ M \subseteq Pairings(pool, Near)
        /\ Pairs \subseteq E \cup M
    BY DEF MadeOf, MadeIn, Pairings, Pairs
  <2>2. ASSUME NEW p \in Pairings(pool, Near) PROVE p \in P
    <3>1. p = [row |-> p.row, capture |-> p.capture] /\ <<p.row, p.capture>> \in pool \X Near
      BY <2>2 DEF Pairings
    <3>2. h[<<p.row, p.capture>>] = p
      BY <3>1
    <3> HIDE DEF h
    <3> QED BY <3>1, <3>2
  <2> HIDE DEF P, h
  <2> QED BY <2>1, <2>2
<1> HIDE DEF P, h
<1> QED BY <1>3, <1>4, FS_Subset

(* One loan's sums over its pairs.                                         *)
RowSum(S) == SumFunctionOnSet([p \in Pairs |-> p.row.amount], S)
CaptureSum(S) == SumFunctionOnSet([p \in Pairs |-> p.capture.amount], S)

(* The sums over disjoint sets of pairs add up, on either side.            *)
LEMMA PairSums ==
  ASSUME Inputs, NEW E, NEW M, NEW L, NEW U, MadeOf(E, M, L, U)
  PROVE /\ IsFiniteSet(Pairs)
        /\ \A p \in Pairs : p.row.amount \in Int /\ p.capture.amount \in Int
        /\ \A S, T \in SUBSET Pairs : S \cap T = {} =>
              /\ RowSum(S) \in Int /\ RowSum(T) \in Int
              /\ CaptureSum(S) \in Int /\ CaptureSum(T) \in Int
              /\ RowSum(S \cup T) = RowSum(S) + RowSum(T)
              /\ CaptureSum(S \cup T) = CaptureSum(S) + CaptureSum(T)
<1> DEFINE f == [p \in Pairs |-> p.row.amount]
           g == [p \in Pairs |-> p.capture.amount]
<1>1. IsFiniteSet(Pairs)
  BY PairsAreFinite
<1>2. \A p \in Pairs : p.row.amount \in Int /\ p.capture.amount \in Int
  <2>1. \A p \in Pairs : p.row \in pool /\ p.capture \in Near
    BY PairsSplit
  <2>2. \A r \in pool : r.amount \in Int
    BY DEF Inputs, LedgerSide, LedgerRow
  <2>3. \A c \in Near : c.amount \in Int
    BY DEF Near, Captures, Inputs, FileSide, SettlementRow
  <2> QED BY <2>1, <2>2, <2>3
<1>3. ASSUME NEW S \in SUBSET Pairs, NEW T \in SUBSET Pairs, S \cap T = {}
      PROVE /\ RowSum(S) \in Int /\ RowSum(T) \in Int
            /\ CaptureSum(S) \in Int /\ CaptureSum(T) \in Int
            /\ RowSum(S \cup T) = RowSum(S) + RowSum(T)
            /\ CaptureSum(S \cup T) = CaptureSum(S) + CaptureSum(T)
  <2>1. IsFiniteSet(S) /\ IsFiniteSet(T)
    BY <1>1, FS_Subset
  <2>2. \A p \in S \cup T : f[p] \in Int /\ g[p] \in Int
    BY <1>2
  <2>3. /\ SumFunctionOnSet(f, S) \in Int /\ SumFunctionOnSet(f, T) \in Int
        /\ SumFunctionOnSet(f, S \cup T) = SumFunctionOnSet(f, S) + SumFunctionOnSet(f, T)
    <3> HIDE DEF f, g
    <3> QED BY <1>3, <2>1, <2>2, SumJoins
  <2>4. /\ SumFunctionOnSet(g, S) \in Int /\ SumFunctionOnSet(g, T) \in Int
        /\ SumFunctionOnSet(g, S \cup T) = SumFunctionOnSet(g, S) + SumFunctionOnSet(g, T)
    <3> HIDE DEF f, g
    <3> QED BY <1>3, <2>1, <2>2, SumJoins
  <2> QED BY <2>3, <2>4 DEF RowSum, CaptureSum
<1> QED BY <1>1, <1>2, <1>3

(* What the rows of some pairs come to is the sum over the pairs.          *)
LEMMA RowsTotal ==
  ASSUME Inputs, EachRowExplainedOnce, job = "reported",
         NEW E, NEW M, NEW L, NEW U, MadeOf(E, M, L, U), NEW S \in SUBSET Pairs
  PROVE /\ Total(RowsOf(S)) = RowSum(S) /\ RowsOf(S) \subseteq pool
        /\ Total(CapturesOf(S)) = CaptureSum(S) /\ CapturesOf(S) \subseteq Near
<1>1. /\ IsFiniteSet(S)
      /\ \A p \in Pairs : /\ p.row.amount \in Int /\ p.capture.amount \in Int
                          /\ p.row \in pool /\ p.capture \in Near
  BY PairSums, PairsSplit, FS_Subset
<1>2. \A p, q \in S : p.row = q.row <=> p.capture = q.capture
  BY DEF EachRowExplainedOnce
<1>3. \A p, q \in S : p.row = q.row \/ p.capture = q.capture => p = q
  <2>1. \A p \in Pairs : p = [row |-> p.row, capture |-> p.capture]
    <3>1. Pairs \subseteq E \cup M
      BY DEF Pairs, MadeOf, MadeIn
    <3> QED BY <3>1 DEF MadeOf, MadeIn, Pairings
  <2> QED BY <1>2, <2>1
<1>4. IsFiniteSet(pool) /\ IsFiniteSet(Near) /\ (\A r \in pool : r.amount \in Int)
      /\ \A c \in Near : c.amount \in Int
  <2>1. Near \subseteq file
    BY DEF Near, Captures
  <2> QED BY <2>1, FS_Subset DEF Inputs, LedgerSide, FileSide, LedgerRow, SettlementRow
<1>5. Total(RowsOf(S)) = RowSum(S) /\ RowsOf(S) \subseteq pool
  <2> DEFINE h == [p \in S |-> p.row]
             f == [r \in pool |-> r.amount]
             g == [p \in Pairs |-> p.row.amount]
  <2>1. RowsOf(S) = {h[p] : p \in S} /\ RowsOf(S) \subseteq pool
    BY <1>1 DEF RowsOf
  <2>2. \A x \in S : g[x] \in Int /\ f[h[x]] = g[x]
    BY <1>1
  <2>3. \A x, y \in S : h[x] = h[y] => x = y
    BY <1>3
  <2>4. SumFunctionOnSet(f, RowsOf(S)) = SumFunctionOnSet(g, S)
    <3> HIDE DEF f, g, h
    <3>1. Moves(S, h, RowsOf(S), f, g)
      BY <1>1, <2>1, <2>2, <2>3 DEF Moves
    <3> QED BY <3>1, SumMoves
  <2>5. Total(RowsOf(S)) = SumFunctionOnSet(f, RowsOf(S))
    BY <1>4, <2>1, TotalIs
  <2>6. RowSum(S) = SumFunctionOnSet(g, S)
    BY DEF RowSum
  <2> HIDE DEF f, g, h
  <2> QED BY <2>1, <2>4, <2>5, <2>6
<1>6. Total(CapturesOf(S)) = CaptureSum(S) /\ CapturesOf(S) \subseteq Near
  <2> DEFINE h == [p \in S |-> p.capture]
             f == [r \in Near |-> r.amount]
             g == [p \in Pairs |-> p.capture.amount]
  <2>1. CapturesOf(S) = {h[p] : p \in S} /\ CapturesOf(S) \subseteq Near
    BY <1>1 DEF CapturesOf
  <2>2. \A x \in S : g[x] \in Int /\ f[h[x]] = g[x]
    BY <1>1
  <2>3. \A x, y \in S : h[x] = h[y] => x = y
    BY <1>3
  <2>4. SumFunctionOnSet(f, CapturesOf(S)) = SumFunctionOnSet(g, S)
    <3> HIDE DEF f, g, h
    <3>1. Moves(S, h, CapturesOf(S), f, g)
      BY <1>1, <2>1, <2>2, <2>3 DEF Moves
    <3> QED BY <3>1, SumMoves
  <2>5. Total(CapturesOf(S)) = SumFunctionOnSet(f, CapturesOf(S))
    BY <1>4, <2>1, TotalIs
  <2>6. CaptureSum(S) = SumFunctionOnSet(g, S)
    BY DEF CaptureSum
  <2> HIDE DEF f, g, h
  <2> QED BY <2>1, <2>4, <2>5, <2>6
<1> QED BY <1>5, <1>6

(* Two parts of a set that have nothing in common add up.                  *)
LEMMA TotalJoins ==
  ASSUME NEW Y, IsFiniteSet(Y), \A y \in Y : y.amount \in Int,
         NEW A \in SUBSET Y, NEW B \in SUBSET Y, A \cap B = {}
  PROVE /\ Total(A) \in Int /\ Total(B) \in Int
        /\ Total(A \cup B) = Total(A) + Total(B)
<1> DEFINE f == [y \in Y |-> y.amount]
<1>1. /\ Total(A) = SumFunctionOnSet(f, A) /\ Total(B) = SumFunctionOnSet(f, B)
      /\ Total(A \cup B) = SumFunctionOnSet(f, A \cup B)
      /\ IsFiniteSet(A) /\ IsFiniteSet(B)
  <2>1. A \cup B \in SUBSET Y
    OBVIOUS
  <2> QED BY <2>1, TotalIs
<1>2. \A a \in A \cup B : f[a] \in Int
  OBVIOUS
<1> HIDE DEF f
<1> QED BY <1>1, <1>2, SumJoins

(* A loan's rows in the window are the missing ones and the paired ones.   *)
LEMMA LedgerOfLoan ==
  ASSUME Inputs, EachRowExplainedOnce, job = "reported",
         NEW E, NEW M, NEW L, NEW U, MadeOf(E, M, L, U), NEW l,
         NEW X, X = {p \in Pairs : p.row.loan = l /\ InWindow(DayOf(p.row))}
  PROVE /\ Total(OfLoan(report.inLedgerOnly, l)) \in Int
        /\ Total(OfLoan(Ledger, l)) = Total(OfLoan(report.inLedgerOnly, l)) + RowSum(X)
<1>1. \A p \in Pairs : p.row \in pool
  BY PairsSplit
<1>2. report.inLedgerOnly \subseteq Ledger
  BY DEF MadeOf, MadeIn, InWindowRows, Ledger
<1>3. \A r \in Ledger : r \in RowsOf(Pairs) <=> r \notin report.inLedgerOnly
  BY DEF EachRowExplainedOnce
<1>4. OfLoan(Ledger, l) = OfLoan(report.inLedgerOnly, l) \cup RowsOf(X)
  <2>1. ASSUME NEW r \in OfLoan(Ledger, l), r \notin report.inLedgerOnly PROVE r \in RowsOf(X)
    <3>1. r.loan = l /\ r \in Ledger /\ InWindow(DayOf(r))
      BY <2>1 DEF OfLoan, Ledger, InWindowRows
    <3>2. PICK p \in Pairs : p.row = r
      BY <1>3, <2>1, <3>1 DEF RowsOf
    <3> QED BY <3>1, <3>2 DEF RowsOf
  <2>2. ASSUME NEW r \in RowsOf(X) PROVE r \in OfLoan(Ledger, l)
    <3>1. PICK p \in X : r = p.row
      BY DEF RowsOf
    <3> QED BY <1>1, <3>1 DEF OfLoan, Ledger, InWindowRows
  <2>3. OfLoan(report.inLedgerOnly, l) \subseteq OfLoan(Ledger, l)
    BY <1>2 DEF OfLoan
  <2>4. \A r \in OfLoan(Ledger, l) : r \in report.inLedgerOnly => r \in OfLoan(report.inLedgerOnly, l)
    BY DEF OfLoan
  <2> QED BY <2>1, <2>2, <2>3, <2>4
<1>5. OfLoan(report.inLedgerOnly, l) \cap RowsOf(X) = {}
  <2>1. ASSUME NEW r \in RowsOf(X) PROVE r \notin report.inLedgerOnly
    <3>1. PICK p \in X : r = p.row
      BY DEF RowsOf
    <3>2. r \in RowsOf(Pairs) /\ r \in Ledger
      BY <1>1, <3>1 DEF RowsOf, Ledger, InWindowRows
    <3> QED BY <1>3, <3>2
  <2> QED BY <2>1 DEF OfLoan
<1>6. X \in SUBSET Pairs
  OBVIOUS
<1>7. Total(RowsOf(X)) = RowSum(X) /\ RowsOf(X) \subseteq pool
  BY <1>6, RowsTotal
<1>8. OfLoan(report.inLedgerOnly, l) \subseteq pool
  BY <1>2 DEF OfLoan, Ledger, InWindowRows
<1>9. IsFiniteSet(pool) /\ \A r \in pool : r.amount \in Int
  BY DEF Inputs, LedgerSide, LedgerRow
<1>10. PICK A \in SUBSET pool, B \in SUBSET pool :
           A = OfLoan(report.inLedgerOnly, l) /\ B = RowsOf(X)
  BY <1>7, <1>8
<1>11. Total(A) \in Int /\ Total(A \cup B) = Total(A) + Total(B)
  <2>1. A \cap B = {}
    BY <1>5, <1>10
  <2> QED BY ONLY <1>9, <2>1, A \in SUBSET pool, B \in SUBSET pool, TotalJoins
<1> QED BY <1>4, <1>7, <1>10, <1>11

(* A loan's captures in the window are the missing ones and the paired.    *)
LEMMA FileOfLoan ==
  ASSUME Inputs, EachRowExplainedOnce, job = "reported",
         NEW E, NEW M, NEW L, NEW U, MadeOf(E, M, L, U), NEW l,
         NEW Y, Y = {p \in Pairs : p.row.loan = l /\ InWindow(p.capture.day)}
  PROVE /\ Total(OfLoan(report.inFileOnly, l)) \in Int
        /\ Total(OfLoan(InWindowCaptures, l))
             = Total(OfLoan(report.inFileOnly, l)) + CaptureSum(Y)
<1>1. \A p \in Pairs : p.capture \in Near /\ p.row.loan = p.capture.loan
  BY PairsSplit
<1>2. \A c \in Near : c \in file /\ c \in Captures(file)
  BY DEF Near, Captures
<1>3. report.inFileOnly \subseteq InWindowCaptures
  <2>1. ASSUME NEW c \in report.inFileOnly PROVE c \in InWindowCaptures
    <3>1. c \in Near /\ InWindow(c.day)
      BY DEF MadeOf, MadeIn
    <3> QED BY <1>2, <3>1 DEF InWindowCaptures, InWindowFile, Captures
  <2> QED BY <2>1
<1>4. \A c \in InWindowCaptures : c \in CapturesOf(Pairs) <=> c \notin report.inFileOnly
  BY DEF EachRowExplainedOnce
<1>5. \A p \in Y : p \in Pairs /\ p.capture \in InWindowCaptures /\ p.capture.loan = l
  BY <1>1, <1>2 DEF InWindowCaptures, InWindowFile, Captures
<1>6. OfLoan(InWindowCaptures, l) = OfLoan(report.inFileOnly, l) \cup CapturesOf(Y)
  <2>1. ASSUME NEW c \in OfLoan(InWindowCaptures, l), c \notin report.inFileOnly
        PROVE c \in CapturesOf(Y)
    <3>1. c.loan = l /\ c \in InWindowCaptures /\ InWindow(c.day)
      BY <2>1 DEF OfLoan, InWindowCaptures, InWindowFile, Captures
    <3>2. PICK p \in Pairs : p.capture = c
      BY <1>4, <2>1, <3>1 DEF CapturesOf
    <3> QED BY <1>1, <3>1, <3>2 DEF CapturesOf
  <2>2. ASSUME NEW c \in CapturesOf(Y) PROVE c \in OfLoan(InWindowCaptures, l)
    <3>1. PICK p \in Y : c = p.capture
      BY DEF CapturesOf
    <3> QED BY <1>5, <3>1 DEF OfLoan
  <2>3. OfLoan(report.inFileOnly, l) \subseteq OfLoan(InWindowCaptures, l)
    BY <1>3 DEF OfLoan
  <2>4. \A c \in OfLoan(InWindowCaptures, l) :
            c \in report.inFileOnly => c \in OfLoan(report.inFileOnly, l)
    BY DEF OfLoan
  <2> QED BY <2>1, <2>2, <2>3, <2>4
<1>7. OfLoan(report.inFileOnly, l) \cap CapturesOf(Y) = {}
  <2>1. ASSUME NEW c \in CapturesOf(Y) PROVE c \notin report.inFileOnly
    <3>1. PICK p \in Y : c = p.capture
      BY DEF CapturesOf
    <3>2. c \in CapturesOf(Pairs) /\ c \in InWindowCaptures
      BY <1>5, <3>1 DEF CapturesOf
    <3> QED BY <1>4, <3>2
  <2> QED BY <2>1 DEF OfLoan
<1>8. Y \in SUBSET Pairs
  OBVIOUS
<1>9. Total(CapturesOf(Y)) = CaptureSum(Y) /\ CapturesOf(Y) \subseteq Near
  BY <1>8, RowsTotal
<1>10. OfLoan(report.inFileOnly, l) \subseteq file /\ CapturesOf(Y) \subseteq file
  BY <1>2, <1>3, <1>9 DEF OfLoan, InWindowCaptures, InWindowFile, Captures
<1>11. IsFiniteSet(file) /\ \A c \in file : c.amount \in Int
  BY DEF Inputs, FileSide, SettlementRow
<1>12. PICK A \in SUBSET file, B \in SUBSET file :
           A = OfLoan(report.inFileOnly, l) /\ B = CapturesOf(Y)
  BY <1>10
<1>13. Total(A) \in Int /\ Total(A \cup B) = Total(A) + Total(B)
  <2>1. A \cap B = {}
    BY <1>7, <1>12
  <2> QED BY ONLY <1>11, <2>1, A \in SUBSET file, B \in SUBSET file, TotalJoins
<1> QED BY <1>6, <1>9, <1>12, <1>13

(* And each loan's variance is its breaks and its crossing pairs.          *)
LEMMA VarianceAddsUp ==
  ASSUME Inputs, EachRowExplainedOnce, job = "reported",
         NEW E, NEW M, NEW L, NEW U, MadeOf(E, M, L, U), NEW l
  PROVE Variance(Ledger, InWindowFile, l) =
          Total(OfLoan(report.inLedgerOnly, l))
          - Total(OfLoan(report.inFileOnly, l))
          + Total(OfLoan(report.refunds, l))
          + SumFunction([p \in InsideOf(l) |-> p.row.amount - p.capture.amount])
          + SumFunction([p \in EarlyOf(l) |-> p.row.amount])
          - SumFunction([p \in LateOf(l) |-> p.capture.amount])
<1>1. PICK W, I, A, B : W = Within2(l) /\ I = InsideOf(l) /\ A = EarlyOf(l) /\ B = LateOf(l)
  OBVIOUS
<1>2. W \in SUBSET Pairs /\ I \in SUBSET Pairs /\ A \in SUBSET Pairs /\ B \in SUBSET Pairs
  BY <1>1 DEF Within2, InsideOf, EarlyOf, LateOf, Crossing, Pairs
<1>3. PICK X, Y : /\ X = {p \in Pairs : p.row.loan = l /\ InWindow(DayOf(p.row))}
                  /\ Y = {p \in Pairs : p.row.loan = l /\ InWindow(p.capture.day)}
  OBVIOUS
<1>4. /\ X = (W \cup I) \cup A /\ Y = (W \cup I) \cup B
      /\ W \cap I = {} /\ (W \cup I) \cap A = {} /\ (W \cup I) \cap B = {}
      /\ \A p \in W : p.row.amount = p.capture.amount
  BY <1>1, <1>3, PairsSplit
<1>5. /\ IsFiniteSet(Pairs)
      /\ \A p \in Pairs : p.row.amount \in Int /\ p.capture.amount \in Int
  BY PairSums
<1>6. /\ RowSum(W) \in Int /\ RowSum(I) \in Int /\ RowSum(A) \in Int
      /\ RowSum(X) = (RowSum(W) + RowSum(I)) + RowSum(A)
      /\ CaptureSum(W) \in Int /\ CaptureSum(I) \in Int /\ CaptureSum(B) \in Int
      /\ CaptureSum(Y) = (CaptureSum(W) + CaptureSum(I)) + CaptureSum(B)
  <2>1. \A S, T \in SUBSET Pairs : S \cap T = {} =>
              /\ RowSum(S) \in Int /\ RowSum(T) \in Int
              /\ CaptureSum(S) \in Int /\ CaptureSum(T) \in Int
              /\ RowSum(S \cup T) = RowSum(S) + RowSum(T)
              /\ CaptureSum(S \cup T) = CaptureSum(S) + CaptureSum(T)
    BY PairSums
  <2>2. W \cup I \in SUBSET Pairs
    BY <1>2
  <2>3. /\ RowSum(W) \in Int /\ RowSum(I) \in Int /\ CaptureSum(W) \in Int /\ CaptureSum(I) \in Int
        /\ RowSum(W \cup I) = RowSum(W) + RowSum(I)
        /\ CaptureSum(W \cup I) = CaptureSum(W) + CaptureSum(I)
    BY ONLY <1>2, <1>4, <2>1
  <2>4. RowSum(A) \in Int /\ RowSum(X) = RowSum(W \cup I) + RowSum(A)
    BY ONLY <1>2, <1>4, <2>1, <2>2
  <2>5. CaptureSum(B) \in Int /\ CaptureSum(Y) = CaptureSum(W \cup I) + CaptureSum(B)
    BY ONLY <1>2, <1>4, <2>1, <2>2
  <2> QED BY <2>3, <2>4, <2>5
<1>7. RowSum(W) = CaptureSum(W)
  <2>1. IsFiniteSet(W)
    BY <1>2, <1>5, FS_Subset
  <2> DEFINE f == [p \in Pairs |-> p.row.amount]
             g == [p \in Pairs |-> p.capture.amount]
  <2>2. \A a \in W : g[a] \in Int /\ f[a] = g[a]
    BY <1>2, <1>4, <1>5
  <2>3. SumFunctionOnSet(f, W) = SumFunctionOnSet(g, W)
    <3> HIDE DEF f, g
    <3> QED BY <2>1, <2>2, SumOfSame
  <2> QED BY <2>3 DEF RowSum, CaptureSum
<1>8. SumFunction([p \in I |-> p.row.amount - p.capture.amount]) = RowSum(I) - CaptureSum(I)
  <2>1. IsFiniteSet(I)
    BY <1>2, <1>5, FS_Subset
  <2> DEFINE f == [p \in Pairs |-> p.row.amount]
             g == [p \in Pairs |-> p.capture.amount]
             h == [p \in I |-> p.row.amount - p.capture.amount]
  <2>2. \A x \in I : f[x] \in Int /\ g[x] \in Int /\ h[x] = f[x] - g[x]
    BY <1>2, <1>5
  <2>3. SumFunctionOnSet(h, I) = SumFunctionOnSet(f, I) - SumFunctionOnSet(g, I)
    <3> HIDE DEF f, g, h
    <3> QED BY <2>1, <2>2, SumOfDifference
  <2>4. SumFunction(h) = SumFunctionOnSet(h, I)
    <3>1. DOMAIN h = I
      OBVIOUS
    <3> QED BY <3>1 DEF SumFunction
  <2> QED BY <2>3, <2>4 DEF RowSum, CaptureSum
<1>9. SumFunction([p \in A |-> p.row.amount]) = RowSum(A)
  <2>1. IsFiniteSet(A)
    BY <1>2, <1>5, FS_Subset
  <2> DEFINE f == [p \in A |-> p.row.amount]
             g == [p \in Pairs |-> p.row.amount]
  <2>2. DOMAIN f = A /\ \A x \in A : g[x] \in Int /\ f[x] = g[x]
    BY <1>2, <1>5
  <2>3. SumFunction(f) = SumFunctionOnSet(g, A)
    <3> HIDE DEF f, g
    <3> QED BY <2>1, <2>2, SumOverDomain
  <2> QED BY <2>3 DEF RowSum
<1>10. SumFunction([p \in B |-> p.capture.amount]) = CaptureSum(B)
  <2>1. IsFiniteSet(B)
    BY <1>2, <1>5, FS_Subset
  <2> DEFINE f == [p \in B |-> p.capture.amount]
             g == [p \in Pairs |-> p.capture.amount]
  <2>2. DOMAIN f = B /\ \A x \in B : g[x] \in Int /\ f[x] = g[x]
    BY <1>2, <1>5
  <2>3. SumFunction(f) = SumFunctionOnSet(g, B)
    <3> HIDE DEF f, g
    <3> QED BY <2>1, <2>2, SumOverDomain
  <2> QED BY <2>3 DEF CaptureSum
<1>11. /\ Total(OfLoan(report.inLedgerOnly, l)) \in Int
       /\ Total(OfLoan(Ledger, l)) = Total(OfLoan(report.inLedgerOnly, l)) + RowSum(X)
  BY <1>3, LedgerOfLoan
<1>12. /\ Total(OfLoan(report.inFileOnly, l)) \in Int
       /\ Total(OfLoan(Captures(InWindowFile), l))
            = Total(OfLoan(report.inFileOnly, l)) + CaptureSum(Y)
  BY <1>3, FileOfLoan DEF InWindowCaptures
<1>13. Total(OfLoan(report.refunds, l)) \in Int /\ report.refunds = Refunds(InWindowFile)
  <2>1. report.refunds = Refunds(InWindowFile)
    BY DEF MadeOf, MadeIn
  <2>2. IsFiniteSet(file) /\ \A c \in file : c.amount \in Int
    BY DEF Inputs, FileSide, SettlementRow
  <2>3. OfLoan(report.refunds, l) \in SUBSET file
    BY <2>1 DEF Refunds, InWindowFile, OfLoan
  <2> QED BY <2>1, <2>2, <2>3, TotalIs
<1>14. PICK w \in Int, i \in Int, j \in Int, a \in Int, b \in Int, o \in Int, u \in Int, r \in Int :
          /\ w = RowSum(W) /\ i = RowSum(I) /\ j = CaptureSum(I) /\ a = RowSum(A)
          /\ b = CaptureSum(B) /\ o = Total(OfLoan(report.inLedgerOnly, l))
          /\ u = Total(OfLoan(report.inFileOnly, l)) /\ r = Total(OfLoan(report.refunds, l))
  BY <1>6, <1>11, <1>12, <1>13
<1>15. Variance(Ledger, InWindowFile, l) = (o + ((w + i) + a)) - ((u + ((w + j) + b)) - r)
  <2>1. Total(OfLoan(Ledger, l)) = o + ((w + i) + a)
    BY <1>6, <1>11, <1>14
  <2>2. Total(OfLoan(Captures(InWindowFile), l)) = u + ((w + j) + b)
    BY <1>6, <1>7, <1>12, <1>14
  <2>3. Total(OfLoan(Refunds(InWindowFile), l)) = r
    BY <1>13, <1>14
  <2> QED BY <2>1, <2>2, <2>3 DEF Variance
<1>16. (o + ((w + i) + a)) - ((u + ((w + j) + b)) - r) = o - u + r + (i - j) + a - b
  OBVIOUS
<1> QED BY <1>1, <1>8, <1>9, <1>10, <1>14, <1>15, <1>16

(* Rows that are close in time are on days that are close.                 *)
LEMMA DivisionIs ==
  ASSUME NEW x \in Int, NEW d \in Nat \ {0}
  PROVE /\ x \div d \in Int
        /\ d * (x \div d) <= x /\ x < d * (x \div d) + d
OBVIOUS

(* Two instants no more than Gap apart are no more days apart than the     *)
(* second read widens the window by (Conclude).                            *)
LEMMA DaysAreClose ==
  ASSUME NEW x \in Int, NEW y \in Int, x <= y, y - x <= Gap
  PROVE /\ x \div DayLength \in Int /\ y \div DayLength \in Int
        /\ Gap \div DayLength \in Int
        /\ x \div DayLength <= y \div DayLength
        /\ y \div DayLength <= x \div DayLength + (Gap \div DayLength + 1)
<1>1. PICK d \in Nat \ {0}, n \in Int : d = DayLength /\ n = Gap
  BY ReconciliationAssumption
<1>2. PICK a \in Int, b \in Int, g \in Int :
         a = x \div d /\ b = y \div d /\ g = n \div d
  OBVIOUS
<1>3. /\ d * a <= x /\ x < d * a + d /\ d * b <= y /\ y < d * b + d
      /\ d * g <= n /\ n < d * g + d
  BY <1>2, DivisionIs
<1>4. a <= b
  <2>1. ASSUME a > b PROVE FALSE
    <3>1. d * a >= d * (b + 1)
      BY <2>1
    <3>2. d * (b + 1) = d * b + d
      OBVIOUS
    <3> QED BY <1>3, <3>1, <3>2
  <2> QED BY <2>1
<1>5. b <= a + (g + 1)
  <2>1. ASSUME b > a + (g + 1) PROVE FALSE
    <3>1. d * b >= d * (a + g + 2)
      BY <2>1
    <3>2. d * (a + g + 2) = d * a + d * g + 2 * d
      OBVIOUS
    <3>3. y - x <= n
      BY <1>1
    <3> QED BY <1>3, <3>1, <3>2, <3>3
  <2> QED BY <2>1
<1> QED BY <1>1, <1>2, <1>4, <1>5

-----------------------------------------------------------------------------
(* The pairs that _find_duplicate_suspects claims.                         *)

IsJoin(g, key, D) ==
  g = [s \in D |-> IF s = {} THEN {} ELSE Join(LastBy(s, key), g[s \ {LastBy(s, key)}])]

(* The claiming of pairs, unfolded to the function that the fold chooses.  *)
LEMMA PairsUnfold ==
  ASSUME NEW pairs, NEW key
  PROVE ClaimPairs(pairs, key) = (CHOOSE g : IsJoin(g, key, SUBSET pairs))[pairs]
BY DEF ClaimPairs, MapThenFoldSet, IsJoin

(* There is such a function for every keyed set of pairs.                  *)
LEMMA JoinExists ==
  ASSUME NEW pairs, NEW key, NEW n, Keyed(pairs, key, n)
  PROVE \E g : IsJoin(g, key, SUBSET pairs)
<1> DEFINE V == SUBSET pairs
           pick == [s \in SUBSET pairs |-> LastBy(s, key)]
           step == [p \in pairs \X V |-> Join(p[1], p[2])]
<1>1. \A s \in SUBSET pairs : s # {} => LastBy(s, key) \in s
  BY LastExists
<1>2. \A s \in SUBSET pairs : pick[s] = LastBy(s, key) /\ (s # {} => pick[s] \in s)
  BY <1>1
<1>3. ASSUME NEW x \in pairs, NEW v \in V PROVE Join(x, v) \in V
  BY DEF Join
<1>4. step \in [pairs \X V -> V]
  <2> HIDE DEF V
  <2> QED BY <1>3
<1>5. \A x \in pairs, v \in V : step[<<x, v>>] = Join(x, v)
  <2> HIDE DEF V
  <2> QED OBVIOUS
<1>6. CanFold(pairs, pick, V, {}, step)
  <2>1. IsFiniteSet(pairs) /\ {} \in V
    BY DEF Keyed
  <2> HIDE DEF pick, step, V
  <2> QED BY <1>2, <1>4, <2>1 DEF CanFold
<1>7. PICK g : IsFold(g, pairs, pick, V, {}, step)
  <2> HIDE DEF pick, step, V
  <2> QED BY <1>6, FoldExists
<1>8. ASSUME NEW s \in SUBSET pairs, s # {}
      PROVE g[s] = Join(LastBy(s, key), g[s \ {LastBy(s, key)}])
  <2>1. PICK x, t : x = pick[s] /\ t = s \ {x}
    OBVIOUS
  <2>2. x = LastBy(s, key) /\ x \in pairs /\ t \in SUBSET pairs
    <3> HIDE DEF pick, step, V
    <3> QED BY <1>2, <1>8, <2>1
  <2>3. g[t] \in V /\ g[s] = step[<<x, g[t]>>]
    <3> HIDE DEF pick, step, V
    <3> QED BY <1>7, <1>8, <2>1, <2>2 DEF IsFold
  <2> HIDE DEF pick, step, V
  <2> QED BY <1>5, <2>1, <2>2, <2>3
<1>9. g[{}] = {} /\ g = [s \in SUBSET pairs |-> g[s]]
  <2> HIDE DEF pick, step, V
  <2> QED BY <1>7 DEF IsFold
<1>10. [s \in SUBSET pairs |-> g[s]]
         = [s \in SUBSET pairs |-> IF s = {} THEN {}
              ELSE Join(LastBy(s, key), g[s \ {LastBy(s, key)}])]
  <2> HIDE DEF pick, step, V
  <2> QED BY <1>8, <1>9
<1> HIDE DEF pick, step, V
<1> QED BY <1>9, <1>10 DEF IsJoin

(* On the pairs that both know, two of the fold's functions agree.         *)
LEMMA JoinsAgree ==
  ASSUME NEW pairs, NEW key, NEW n, Keyed(pairs, key, n), NEW T \in SUBSET pairs, NEW g, NEW h,
         IsJoin(g, key, SUBSET pairs), IsJoin(h, key, SUBSET T)
  PROVE \A s \in SUBSET T : g[s] = h[s]
<1> DEFINE Bad == {s \in SUBSET T : g[s] # h[s]}
<1>0. \A s \in SUBSET pairs : s # {} => LastBy(s, key) \in s
  BY LastExists
<1>1. ASSUME Bad # {} PROVE FALSE
  <2>1. IsFiniteSet(T) /\ Bad \in SUBSET SUBSET T
    BY FS_Subset DEF Keyed
  <2>2. PICK m \in Bad : \A t \in Bad : Cardinality(m) <= Cardinality(t)
    <3> HIDE DEF Bad
    <3> QED BY <1>1, <2>1, Smallest
  <2>3. m \in SUBSET T /\ m \in SUBSET pairs /\ g[m] # h[m]
    OBVIOUS
  <2>4. PICK x, t : x = LastBy(m, key) /\ t = m \ {x}
    OBVIOUS
  <2>5. g[m] = (IF m = {} THEN {} ELSE Join(x, g[t]))
    BY <2>3, <2>4 DEF IsJoin
  <2>6. h[m] = (IF m = {} THEN {} ELSE Join(x, h[t]))
    BY <2>3, <2>4 DEF IsJoin
  <2>7. m # {} /\ x \in m
    BY <1>0, <2>3, <2>4, <2>5, <2>6
  <2>8. t \notin Bad
    <3> HIDE DEF Bad
    <3> QED BY <2>1, <2>2, <2>3, <2>4, <2>7, Smaller
  <2>9. g[t] = h[t]
    BY <2>3, <2>4, <2>8
  <2> QED BY <2>3, <2>5, <2>6, <2>9
<1> QED BY <1>1

(* Claiming goes through all the pairs but the last, and then the last.    *)
LEMMA JoinOpens ==
  ASSUME NEW pairs, NEW key, NEW n, Keyed(pairs, key, n)
  PROVE /\ pairs = {} => ClaimPairs(pairs, key) = {}
        /\ pairs # {} =>
             ClaimPairs(pairs, key)
               = Join(LastBy(pairs, key), ClaimPairs(pairs \ {LastBy(pairs, key)}, key))
<1> DEFINE x == LastBy(pairs, key)
<1>1. PICK g : g = CHOOSE g0 : IsJoin(g0, key, SUBSET pairs)
  OBVIOUS
<1>2. IsJoin(g, key, SUBSET pairs) /\ ClaimPairs(pairs, key) = g[pairs]
  BY <1>1, JoinExists, PairsUnfold
<1>3. ClaimPairs(pairs, key) = IF pairs = {} THEN {} ELSE Join(x, g[pairs \ {x}])
  BY <1>2 DEF IsJoin
<1>4. PICK T \in SUBSET pairs : T = pairs \ {x}
  OBVIOUS
<1>5. Keyed(T, key, n)
  BY FS_Subset DEF Keyed
<1>6. PICK h : h = CHOOSE g0 : IsJoin(g0, key, SUBSET T)
  OBVIOUS
<1>7. IsJoin(h, key, SUBSET T) /\ ClaimPairs(T, key) = h[T]
  BY <1>5, <1>6, JoinExists, PairsUnfold
<1>8. \A s \in SUBSET T : g[s] = h[s]
  BY ONLY Keyed(pairs, key, n), <1>2, <1>7, T \in SUBSET pairs, JoinsAgree
<1>9. g[T] = ClaimPairs(T, key)
  BY <1>7, <1>8
<1> QED BY <1>3, <1>4, <1>9

(* Each pair is claimed, or shares a row with one claimed before it.       *)
JoinSound(C, pairs, key) ==
  /\ C \subseteq pairs
  /\ \A p \in pairs : \E q \in C : ~ Disjoint(p, q) /\ (q = p \/ Before(key[q], key[p]))

(* So it is when all the pairs have been gone through.                     *)
LEMMA JoinIsSound ==
  ASSUME NEW pairs, NEW key, NEW n, Keyed(pairs, key, n)
  PROVE JoinSound(ClaimPairs(pairs, key), pairs, key)
<1> DEFINE Good(s) == JoinSound(ClaimPairs(s, key), s, key)
           Bad == {s \in SUBSET pairs : ~ Good(s)}
<1>1. ASSUME Bad # {} PROVE FALSE
  <2>0. IsFiniteSet(pairs)
    BY DEF Keyed
  <2>1. PICK m \in Bad : \A t \in Bad : Cardinality(m) <= Cardinality(t)
    <3>1. Bad \in SUBSET SUBSET pairs
      OBVIOUS
    <3> HIDE DEF Bad
    <3> QED BY <1>1, <2>0, <3>1, Smallest
  <2>2. m \in SUBSET pairs /\ ~ Good(m)
    OBVIOUS
  <2>3. Keyed(m, key, n)
    BY <2>2, FS_Subset DEF Keyed
  <2>4. m # {}
    <3>1. ASSUME m = {} PROVE Good(m)
      <4>1. ClaimPairs(m, key) = {}
        BY <2>3, <3>1, JoinOpens
      <4> QED BY <3>1, <4>1 DEF JoinSound
    <3> QED BY <2>2, <3>1
  <2>5. PICK x, t : x = LastBy(m, key) /\ t = m \ {x}
    OBVIOUS
  <2>6. x \in m /\ \A y \in t : Before(key[y], key[x])
    <3>1. x \in m /\ \A y \in m \ {x} : Before(key[y], key[x])
      BY ONLY <2>3, <2>4, <2>5, LastExists, m \in SUBSET m
    <3> QED BY <2>5, <3>1
  <2>7. Good(t)
    <3>1. t \notin Bad
      <4> HIDE DEF Bad
      <4> QED BY <2>0, <2>1, <2>2, <2>5, <2>6, Smaller
    <3> QED BY <2>2, <2>5, <3>1
  <2>8. PICK C : C = ClaimPairs(t, key)
    OBVIOUS
  <2>9. ClaimPairs(m, key) = Join(x, C)
    BY <2>3, <2>4, <2>5, <2>8, JoinOpens
  <2>10. C \subseteq t /\ \A p \in t : \E q \in C : ~ Disjoint(p, q) /\ (q = p \/ Before(key[q], key[p]))
    BY <2>7, <2>8 DEF JoinSound
  <2>11. m = t \cup {x}
    BY <2>5, <2>6
  <2>12. CASE \A q \in C : Disjoint(x, q)
    <3>1. Join(x, C) = C \cup {x}
      BY <2>12 DEF Join
    <3>2. ~ Disjoint(x, x)
      BY DEF Disjoint
    <3>3. JoinSound(C \cup {x}, m, key)
      BY <2>10, <2>11, <3>2 DEF JoinSound
    <3> QED BY <2>2, <2>9, <3>1, <3>3
  <2>13. CASE ~ \A q \in C : Disjoint(x, q)
    <3>1. Join(x, C) = C
      BY <2>13 DEF Join
    <3>2. \E q \in C : ~ Disjoint(x, q) /\ Before(key[q], key[x])
      BY <2>6, <2>10, <2>13
    <3>3. JoinSound(C, m, key)
      BY <2>10, <2>11, <3>2 DEF JoinSound
    <3> QED BY <2>2, <2>9, <3>1, <3>3
  <2> QED BY <2>12, <2>13
<1>2. pairs \notin Bad
  BY <1>1
<1> QED BY <1>2

(* The order in which the rows of one loan and amount are gone through.    *)
Row(r) == <<r.at, r.id>>

(* Two rows of a ledger differ in that order, if only by their ids.        *)
LEMMA RowKeys ==
  ASSUME NEW rows, LedgerSide(rows), NEW r \in rows, NEW s \in rows
  PROVE /\ Row(r) \in [1 .. 2 -> Int]
        /\ r # s => Before(Row(r), Row(s)) \/ Before(Row(s), Row(r))
<1>1. r.at \in Int /\ r.id \in Int /\ s.at \in Int /\ s.id \in Int
  BY DEF LedgerSide, LedgerRow
<1>2. Row(r) \in [1 .. 2 -> Int] /\ Row(s) \in [1 .. 2 -> Int]
  BY <1>1 DEF Row
<1>3. ASSUME r # s PROVE Row(r) # Row(s)
  <2>1. r.id # s.id
    BY <1>3 DEF LedgerSide
  <2> QED BY <2>1 DEF Row
<1>4. ASSUME r # s PROVE Before(Row(r), Row(s)) \/ Before(Row(s), Row(r))
  <2>1. PICK k \in [1 .. 2 -> Int], l \in [1 .. 2 -> Int] : k = Row(r) /\ l = Row(s) /\ k # l
    BY <1>2, <1>3, <1>4
  <2>2. Before(k, l) \/ Before(l, k)
    BY <2>1, BeforeIsTotal
  <2> QED BY <2>1, <2>2
<1> QED BY <1>2, <1>4

(* What makes two rows neighbours (_find_duplicate_suspects).              *)
LEMMA RetriesAre ==
  ASSUME NEW rows
  PROVE \A p : p \in Retries(rows) <=>
          /\ p \in rows \X rows
          /\ p[1].loan = p[2].loan /\ p[1].amount = p[2].amount
          /\ Before(Row(p[1]), Row(p[2])) /\ p[2].at - p[1].at <= Gap
          /\ ~\E r \in rows :
               /\ r.loan = p[1].loan /\ r.amount = p[1].amount
               /\ Before(Row(p[1]), Row(r)) /\ Before(Row(r), Row(p[2]))
BY DEF Retries, Row

(* A row has one successor.                                                *)
LEMMA RetryIsOfItsFirst ==
  ASSUME NEW rows, LedgerSide(rows), NEW p \in Retries(rows), NEW q \in Retries(rows),
         p[1] = q[1]
  PROVE p = q
<1>1. /\ p \in rows \X rows /\ q \in rows \X rows
      /\ p[1].loan = p[2].loan /\ p[1].amount = p[2].amount
      /\ q[1].loan = q[2].loan /\ q[1].amount = q[2].amount
      /\ Before(Row(p[1]), Row(p[2])) /\ Before(Row(q[1]), Row(q[2]))
      /\ \A r \in rows : r.loan = p[1].loan /\ r.amount = p[1].amount =>
            ~ (Before(Row(p[1]), Row(r)) /\ Before(Row(r), Row(p[2])))
      /\ \A r \in rows : r.loan = q[1].loan /\ r.amount = q[1].amount =>
            ~ (Before(Row(q[1]), Row(r)) /\ Before(Row(r), Row(q[2])))
  BY RetriesAre
<1>2. ASSUME p[2] # q[2] PROVE FALSE
  <2>1. p[2] \in rows /\ q[2] \in rows
    BY <1>1
  <2>2. Before(Row(p[2]), Row(q[2])) \/ Before(Row(q[2]), Row(p[2]))
    BY <1>2, <2>1, RowKeys
  <2> QED BY <1>1, <2>1, <2>2
<1> QED BY <1>1, <1>2

(* The pairs have distinct keys, since a pair is known by its first row.   *)
LEMMA RetriesAreKeyed ==
  ASSUME NEW rows, LedgerSide(rows), NEW marked
  PROVE Keyed(Retries(rows),
              [p \in Retries(rows) |-> <<Bit(~Touches(p, marked)), p[1].at, p[1].id>>], 3)
<1> DEFINE key == [p \in Retries(rows) |-> <<Bit(~Touches(p, marked)), p[1].at, p[1].id>>]
<1>1. IsFiniteSet(Retries(rows))
  <2>1. Retries(rows) \subseteq rows \X rows
    BY RetriesAre
  <2>2. IsFiniteSet(rows \X rows)
    BY FS_Product DEF LedgerSide
  <2> QED BY <2>1, <2>2, FS_Subset
<1>2. ASSUME NEW p \in Retries(rows)
      PROVE key[p] \in [1 .. 3 -> Int] /\ key[p][3] = p[1].id /\ p[1] \in rows
  <2>1. p[1] \in rows
    BY RetriesAre
  <2>2. p[1].at \in Int /\ p[1].id \in Int
    BY <2>1 DEF LedgerSide, LedgerRow
  <2>3. PICK b \in Int : b = Bit(~Touches(p, marked))
    BY DEF Bit
  <2>4. <<b, p[1].at, p[1].id>> \in [1 .. 3 -> Int]
    BY <2>2
  <2> QED BY <2>1, <2>3, <2>4
<1>3. ASSUME NEW p \in Retries(rows), NEW q \in Retries(rows), key[p] = key[q] PROVE p = q
  <2> HIDE DEF key
  <2>1. p[1].id = q[1].id /\ p[1] \in rows /\ q[1] \in rows
    BY <1>2, <1>3
  <2>2. p[1] = q[1]
    BY <2>1 DEF LedgerSide
  <2> QED BY <2>2, RetryIsOfItsFirst
<1> HIDE DEF key
<1>4. Keyed(Retries(rows), key, 3)
  BY <1>1, <1>2, <1>3 DEF Keyed
<1> QED BY <1>4 DEF key

(* A pair that touches the window shares a row with a suspect that does.   *)
LEMMA SuspectIsFound ==
  ASSUME NEW rows, LedgerSide(rows), NEW marked, NEW p \in Retries(rows), Touches(p, marked)
  PROVE \E q \in Suspects(rows, marked) : Touches(q, marked) /\ ~ Disjoint(p, q)
<1> DEFINE key == [r \in Retries(rows) |-> <<Bit(~Touches(r, marked)), r[1].at, r[1].id>>]
<1>1. Keyed(Retries(rows), key, 3)
  <2> HIDE DEF key
  <2> QED BY RetriesAreKeyed DEF key
<1>2. Suspects(rows, marked) = ClaimPairs(Retries(rows), key)
  BY DEF Suspects
<1>3. JoinSound(ClaimPairs(Retries(rows), key), Retries(rows), key)
  <2> HIDE DEF key
  <2> QED BY <1>1, JoinIsSound
<1>4. PICK q \in Suspects(rows, marked) :
          q \in Retries(rows) /\ ~ Disjoint(p, q) /\ (q = p \/ Before(key[q], key[p]))
  <2> HIDE DEF key
  <2> QED BY <1>2, <1>3 DEF JoinSound
<1>5. ASSUME ~ Touches(q, marked), Before(key[q], key[p]) PROVE FALSE
  <2>1. PICK s, t : s = key[q] /\ t = key[p]
    OBVIOUS
  <2>2. DOMAIN s = 1 .. 3 /\ s[1] = 1 /\ t[1] = 0
    BY <1>4, <1>5, <2>1 DEF Bit
  <2>3. PICK i \in 1 .. 3 : s[i] < t[i] /\ \A j \in 1 .. (i - 1) : s[j] = t[j]
    BY <1>5, <2>1, <2>2 DEF Before
  <2>4. CASE i = 1
    BY <2>2, <2>3, <2>4
  <2>5. CASE i # 1
    BY <2>2, <2>3, <2>5
  <2> QED BY <2>4, <2>5
<1> QED BY <1>4, <1>5

(* What the second read takes in is enough to see every such pair.         *)
LEMMA RetryIsRead ==
  ASSUME LedgerSide(payments), pool \subseteq payments, window.from \in Int, window.to \in Int,
         NEW p \in Retries(payments), Touches(p, Ledger)
  PROVE p \in Retries(LoadLedger(Widened(Gap \div DayLength + 1)))
<1>1. PICK again : again = LoadLedger(Widened(Gap \div DayLength + 1))
  OBVIOUS
<1>2. PICK g \in Int : g = Gap \div DayLength
  BY ReconciliationAssumption
<1>3. \A r : r \in again <=> /\ r \in payments /\ window.from - (g + 1) <= DayOf(r)
                             /\ DayOf(r) <= window.to + (g + 1)
  BY <1>1, <1>2 DEF LoadLedger, Widened
<1>4. /\ p \in payments \X payments /\ Before(Row(p[1]), Row(p[2])) /\ p[2].at - p[1].at <= Gap
      /\ p[1].loan = p[2].loan /\ p[1].amount = p[2].amount
      /\ ~\E r \in payments :
               /\ r.loan = p[1].loan /\ r.amount = p[1].amount
               /\ Before(Row(p[1]), Row(r)) /\ Before(Row(r), Row(p[2]))
  BY RetriesAre
<1>5. PICK x \in Int, y \in Int : x = p[1].at /\ y = p[2].at
  BY <1>4 DEF LedgerSide, LedgerRow
<1>6. x <= y
  <2>1. PICK i \in DOMAIN Row(p[1]) : /\ Row(p[1])[i] < Row(p[2])[i]
                                      /\ \A j \in 1 .. (i - 1) : Row(p[1])[j] = Row(p[2])[j]
    BY <1>4 DEF Before
  <2>2. i \in 1 .. 2 /\ Row(p[1])[1] = x /\ Row(p[2])[1] = y
    BY <1>5, <2>1 DEF Row
  <2>3. CASE i = 1
    BY <2>1, <2>2, <2>3
  <2>4. CASE i # 1
    BY <2>1, <2>2, <2>4
  <2> QED BY <2>3, <2>4
<1>7. PICK a \in Int, b \in Int : /\ a = DayOf(p[1]) /\ b = DayOf(p[2])
                                  /\ a <= b /\ b <= a + (g + 1)
  BY <1>2, <1>4, <1>5, <1>6, DaysAreClose DEF DayOf
<1>8. \/ window.from <= a /\ a <= window.to
      \/ window.from <= b /\ b <= window.to
  BY <1>7 DEF Touches, Ledger, InWindowRows, InWindow
<1>9. g \in Nat
  <2>1. PICK d \in Nat \ {0}, n \in Nat : d = DayLength /\ n = Gap
    BY ReconciliationAssumption
  <2>2. n \div d \in Nat
    OBVIOUS
  <2> QED BY <1>2, <2>1, <2>2
<1>10. p[1] \in again /\ p[2] \in again
  <2>1. PICK u \in Int, v \in Int : u = window.from /\ v = window.to
    OBVIOUS
  <2>2. u - (g + 1) <= a /\ a <= v + (g + 1) /\ u - (g + 1) <= b /\ b <= v + (g + 1)
    BY <1>7, <1>8, <1>9, <2>1
  <2> QED BY <1>3, <1>4, <1>7, <2>1, <2>2
<1>11. again \subseteq payments
  BY <1>3
<1>12. p \in again \X again
  BY <1>4, <1>10
<1> QED BY <1>1, <1>4, <1>11, <1>12, RetriesAre

(* So the report names it, or one that shares a row with it.               *)
LEMMA RetryIsNamed ==
  ASSUME LedgerSide(payments), pool \subseteq payments, window.from \in Int, window.to \in Int,
         NEW rep, NEW p \in Retries(payments), Touches(p, Ledger),
         rep.duplicates = {q \in Suspects(LoadLedger(Widened(Gap \div DayLength + 1)), Ledger) :
                             Touches(q, Ledger)}
  PROVE \E q \in rep.duplicates : ~ Disjoint(p, q)
<1>1. PICK again : again = LoadLedger(Widened(Gap \div DayLength + 1))
  OBVIOUS
<1>2. p \in Retries(again)
  BY <1>1, RetryIsRead
<1>3. LedgerSide(again)
  <2>1. again \subseteq payments
    BY <1>1 DEF LoadLedger
  <2> QED BY <2>1, FS_Subset DEF LedgerSide
<1> QED BY <1>1, <1>2, <1>3, SuspectIsFound

(* Finitely many rows are of finitely many loans.                          *)
LEMMA LoansAreFinite ==
  ASSUME NEW S, IsFiniteSet(S)
  PROVE IsFiniteSet(LoansOf(S))
<1> DEFINE h == [r \in S |-> r.loan]
<1>1. LoansOf(S) = {h[r] : r \in S}
  BY DEF LoansOf
<1>2. IsFiniteSet({h[r] : r \in S})
  <2> HIDE DEF h
  <2> QED BY ImageIsFinite
<1> HIDE DEF h
<1> QED BY <1>1, <1>2

(* A loan's variance is a number.                                          *)
LEMMA VarianceIsWhole ==
  ASSUME Inputs, NEW l
  PROVE Variance(Ledger, InWindowFile, l) \in Int
<1>1. IsFiniteSet(pool) /\ \A r \in pool : r.amount \in Int
  BY DEF Inputs, LedgerSide, LedgerRow
<1>2. IsFiniteSet(file) /\ \A c \in file : c.amount \in Int
  BY DEF Inputs, FileSide, SettlementRow
<1>3. Total(OfLoan(Ledger, l)) \in Int
  <2>1. OfLoan(Ledger, l) \in SUBSET pool
    BY DEF OfLoan, Ledger, InWindowRows
  <2> QED BY <1>1, <2>1, TotalIs
<1>4. Total(OfLoan(Captures(InWindowFile), l)) \in Int
  <2>1. OfLoan(Captures(InWindowFile), l) \in SUBSET file
    BY DEF OfLoan, Captures, InWindowFile
  <2> QED BY <1>2, <2>1, TotalIs
<1>5. Total(OfLoan(Refunds(InWindowFile), l)) \in Int
  <2>1. OfLoan(Refunds(InWindowFile), l) \in SUBSET file
    BY DEF OfLoan, Refunds, InWindowFile
  <2> QED BY <1>2, <2>1, TotalIs
<1> QED BY <1>3, <1>4, <1>5 DEF Variance

(* The loans together are off by no more than the sum of what each is off, *)
(* whichever of them are taken.                                            *)
LEMMA NettingIsBounded ==
  ASSUME Inputs, NEW B \in SUBSET (LoansOf(Ledger) \cup LoansOf(InWindowFile)),
         PerLoanAbsolute(Ledger, InWindowFile) <= Alert
  PROVE Distance(SumFunction([l \in B |-> Variance(Ledger, InWindowFile, l)]), 0) <= Alert
<1>1. PICK D : D = LoansOf(Ledger) \cup LoansOf(InWindowFile)
  OBVIOUS
<1>2. IsFiniteSet(D) /\ IsFiniteSet(B) /\ IsFiniteSet(D \ B) /\ D = B \cup (D \ B)
  <2>1. IsFiniteSet(Ledger) /\ IsFiniteSet(InWindowFile)
    <3>1. Ledger \subseteq pool /\ InWindowFile \subseteq file
      BY DEF Ledger, InWindowRows, InWindowFile
    <3> QED BY <3>1, FS_Subset DEF Inputs, LedgerSide, FileSide
  <2>2. IsFiniteSet(D)
    BY <1>1, <2>1, LoansAreFinite, FS_Union
  <2> QED BY <1>1, <2>2, FS_Subset
<1> DEFINE f == [l \in D |-> Variance(Ledger, InWindowFile, l)]
           g == [l \in D |-> Distance(Variance(Ledger, InWindowFile, l), 0)]
           h == [l \in B |-> Variance(Ledger, InWindowFile, l)]
<1>3. \A x \in D : f[x] \in Int /\ g[x] \in Int /\ f[x] <= g[x] /\ - g[x] <= f[x]
  <2>1. ASSUME NEW x \in D PROVE f[x] \in Int /\ g[x] \in Int /\ f[x] <= g[x] /\ - g[x] <= f[x]
    <3>1. PICK v \in Int : v = Variance(Ledger, InWindowFile, x)
      BY VarianceIsWhole
    <3>2. f[x] = v /\ g[x] = Distance(v, 0)
      BY <3>1
    <3>3. Distance(v, 0) \in Int /\ v <= Distance(v, 0) /\ - Distance(v, 0) <= v
      BY DEF Distance
    <3> QED BY <3>2, <3>3
  <2> QED BY <2>1
<1>4. SumFunction(h) = SumFunctionOnSet(f, B)
  <2>1. DOMAIN h = B /\ \A x \in B : f[x] \in Int /\ h[x] = f[x]
    BY <1>1, <1>3
  <2> HIDE DEF f, g, h
  <2> QED BY <1>2, <2>1, SumOverDomain
<1>5. PerLoanAbsolute(Ledger, InWindowFile) = SumFunctionOnSet(g, D)
  <2>1. DOMAIN g = D /\ PerLoanAbsolute(Ledger, InWindowFile) = SumFunction(g)
    BY <1>1 DEF PerLoanAbsolute
  <2> HIDE DEF f, g, h
  <2> QED BY <2>1 DEF SumFunction
<1> HIDE DEF f, g
<1>6. /\ SumFunctionOnSet(f, B) \in Int /\ SumFunctionOnSet(g, B) \in Int
      /\ SumFunctionOnSet(f, B) <= SumFunctionOnSet(g, B)
      /\ - SumFunctionOnSet(g, B) <= SumFunctionOnSet(f, B)
  <2>1. \A x \in B : f[x] \in Int /\ g[x] \in Int /\ f[x] <= g[x] /\ - g[x] <= f[x]
    BY <1>1, <1>3
  <2> QED BY ONLY <1>2, <2>1, SumWithin
<1>7. /\ SumFunctionOnSet(f, D \ B) \in Int /\ SumFunctionOnSet(g, D \ B) \in Int
      /\ SumFunctionOnSet(f, D \ B) <= SumFunctionOnSet(g, D \ B)
      /\ - SumFunctionOnSet(g, D \ B) <= SumFunctionOnSet(f, D \ B)
  <2>1. PICK R : R = D \ B
    OBVIOUS
  <2>2. IsFiniteSet(R) /\ \A x \in R : f[x] \in Int /\ g[x] \in Int /\ f[x] <= g[x] /\ - g[x] <= f[x]
    BY <1>2, <1>3, <2>1
  <2>3. /\ SumFunctionOnSet(f, R) \in Int /\ SumFunctionOnSet(g, R) \in Int
        /\ SumFunctionOnSet(f, R) <= SumFunctionOnSet(g, R)
        /\ - SumFunctionOnSet(g, R) <= SumFunctionOnSet(f, R)
    BY ONLY <2>2, SumWithin
  <2> QED BY <2>1, <2>3
<1>8. SumFunctionOnSet(g, D) = SumFunctionOnSet(g, B) + SumFunctionOnSet(g, D \ B)
  <2>1. PICK R : R = D \ B
    OBVIOUS
  <2>2. IsFiniteSet(R) /\ B \cap R = {} /\ D = B \cup R /\ \A x \in B \cup R : g[x] \in Int
    BY <1>2, <1>3, <2>1
  <2>3. SumFunctionOnSet(g, B \cup R) = SumFunctionOnSet(g, B) + SumFunctionOnSet(g, R)
    BY ONLY <1>2, <2>2, SumJoins
  <2> QED BY <2>1, <2>2, <2>3
<1>9. PICK s \in Int, t \in Int, u \in Int, v \in Int :
         /\ s = SumFunctionOnSet(f, B) /\ t = SumFunctionOnSet(g, B)
         /\ u = SumFunctionOnSet(f, D \ B) /\ v = SumFunctionOnSet(g, D \ B)
  BY <1>6, <1>7
<1>10. s <= Alert /\ - Alert <= s /\ Alert \in Int
  <2>1. PICK n \in Int : n = Alert
    BY ReconciliationAssumption
  <2>2. t + v <= n
    BY <1>5, <1>8, <1>9, <2>1
  <2>3. s <= t /\ - t <= s /\ u <= v /\ - v <= u
    BY <1>6, <1>7, <1>9
  <2> QED BY <2>1, <2>2, <2>3
<1>11. Distance(s, 0) <= Alert
  BY <1>10 DEF Distance
<1> QED BY <1>4, <1>9, <1>11

(* A clean exit means what it says: no row is unpaired, no retry is near,  *)
(* and no netting hides a variance above the threshold (exit_code).        *)
LEMMA CleanIsWell ==
  ASSUME Inputs, job = "reported", NEW E, NEW M, NEW L, NEW U, MadeOf(E, M, L, U),
         RetryIsReported, Exit(report) = "clean"
  PROVE AllIsWell
<1>1. Breaks(report) = {} /\ report.duplicates = {} /\ ~ (report.variance > Alert)
  BY DEF Exit
<1>2. /\ report.inLedgerOnly = {} /\ report.inFileOnly = {} /\ report.refunds = {}
      /\ report.mismatched = {}
  BY <1>1 DEF Breaks
<1>3. EachRowExplainedOnce
  BY RowsAreExplainedOnce
<1>4. \A p \in Pairs : p.row \in pool /\ p.capture \in Captures(file) /\ SameTuple(p.row, p.capture)
  <2>1. Pairs = E
    BY <1>2 DEF Pairs, MadeOf, MadeIn
  <2>2. \A p \in E : <<p.row, p.capture>> \in TupleEligible(pool, Near)
    BY DEF MadeOf, MadeIn, ClaimSound
  <2>3. Near \subseteq Captures(file)
    BY DEF Near
  <2> QED BY <2>1, <2>2, <2>3 DEF TupleEligible
<1>5. \A r \in Ledger : \E c \in Captures(file) : SameTuple(r, c)
  <2>1. \A r \in Ledger : r \in RowsOf(Pairs)
    BY <1>2, <1>3 DEF EachRowExplainedOnce
  <2> QED BY <1>4, <2>1 DEF RowsOf
<1>6. ASSUME NEW c \in InWindowFile PROVE \E r \in pool : SameTuple(r, c) /\ c.type = "capture"
  <2>1. c.type = "capture"
    <3>1. c.type \in {"capture", "refund"}
      BY DEF InWindowFile, Inputs, FileSide, SettlementRow
    <3>2. c.type # "refund"
      BY <1>2 DEF MadeOf, MadeIn, Refunds
    <3> QED BY <3>1, <3>2
  <2>2. c \in InWindowCaptures
    BY <2>1 DEF InWindowCaptures, Captures
  <2>3. c \in CapturesOf(Pairs)
    BY <1>2, <1>3, <2>2 DEF EachRowExplainedOnce
  <2> QED BY <1>4, <2>1, <2>3 DEF CapturesOf
<1>7. \A p \in Retries(payments) : ~ Touches(p, Ledger)
  BY <1>1 DEF RetryIsReported
<1>8. \A B \in SUBSET (LoansOf(Ledger) \cup LoansOf(InWindowFile)) :
        Distance(SumFunction([l \in B |-> Variance(Ledger, InWindowFile, l)]), 0) <= Alert
  <2>1. report.variance = PerLoanAbsolute(Ledger, InWindowFile)
    BY DEF MadeOf, MadeIn
  <2>2. PerLoanAbsolute(Ledger, InWindowFile) \in Int
    <3>1. PICK D : D = LoansOf(Ledger) \cup LoansOf(InWindowFile)
      OBVIOUS
    <3>2. IsFiniteSet(D)
      <4>1. Ledger \subseteq pool /\ InWindowFile \subseteq file
        BY DEF Ledger, InWindowRows, InWindowFile
      <4>2. IsFiniteSet(Ledger) /\ IsFiniteSet(InWindowFile)
        BY <4>1, FS_Subset DEF Inputs, LedgerSide, FileSide
      <4> QED BY <3>1, <4>2, LoansAreFinite, FS_Union
    <3> DEFINE g == [l \in D |-> Distance(Variance(Ledger, InWindowFile, l), 0)]
    <3>3. \A x \in D : g[x] \in Int
      <4>1. ASSUME NEW x \in D PROVE g[x] \in Int
        <5>1. PICK v \in Int : v = Variance(Ledger, InWindowFile, x)
          BY VarianceIsWhole
        <5>2. Distance(v, 0) \in Int
          BY DEF Distance
        <5> QED BY <5>1, <5>2
      <4> QED BY <4>1
    <3>4. PerLoanAbsolute(Ledger, InWindowFile) = SumFunctionOnSet(g, D)
      <4>1. DOMAIN g = D /\ PerLoanAbsolute(Ledger, InWindowFile) = SumFunction(g)
        BY <3>1 DEF PerLoanAbsolute
      <4> HIDE DEF g
      <4> QED BY <4>1 DEF SumFunction
    <3> HIDE DEF g
    <3> QED BY <3>2, <3>3, <3>4, SumRemoves
  <2>3. PerLoanAbsolute(Ledger, InWindowFile) <= Alert
    <3>1. PICK v \in Int, n \in Int : v = PerLoanAbsolute(Ledger, InWindowFile) /\ n = Alert
      BY <2>2, ReconciliationAssumption
    <3>2. ~ (v > n)
      BY <1>1, <2>1, <3>1
    <3> QED BY <3>1, <3>2
  <2> QED BY <2>3, NettingIsBounded
<1> QED BY <1>5, <1>6, <1>7, <1>8 DEF AllIsWell

(* A finite set of days has a first and a last.                            *)
LEMMA RangeIsWhole ==
  ASSUME NEW days \in SUBSET Int, IsFiniteSet(days), days # {}
  PROVE Min(days) \in Int /\ Max(days) \in Int
<1>1. \E x \in days : \A y \in days : x <= y
  <2> DEFINE R == {p \in days \X days : p[2] <= p[1]}
  <2>1. \A x, y \in days : <<x, y>> \in R <=> y <= x
    OBVIOUS
  <2>2. \A x, y \in days : x # y => <<x, y>> \in R \/ <<y, x>> \in R
    BY <2>1
  <2>3. \A x, y, z \in days : <<x, y>> \in R /\ <<y, z>> \in R => <<x, z>> \in R
    BY <2>1
  <2>4. \E x \in days : \A y \in days \ {x} : <<y, x>> \in R
    <3> HIDE DEF R
    <3>1. PICK S : S = days
      OBVIOUS
    <3>2. /\ IsFiniteSet(S) /\ S # {} /\ S \in SUBSET S
          /\ \A x, y \in S : x # y => <<x, y>> \in R \/ <<y, x>> \in R
          /\ \A x, y, z \in S : <<x, y>> \in R /\ <<y, z>> \in R => <<x, z>> \in R
      BY <2>2, <2>3, <3>1
    <3>3. \E x \in S : \A y \in S \ {x} : <<y, x>> \in R
      BY ONLY <3>2, Extreme
    <3> QED BY <3>1, <3>3
  <2>5. PICK x \in days : \A y \in days \ {x} : <<y, x>> \in R
    <3> HIDE DEF R
    <3> QED BY <2>4
  <2>6. \A y \in days : y # x => <<y, x>> \in R
    <3> HIDE DEF R
    <3> QED BY <2>5
  <2> HIDE DEF R
  <2>7. ASSUME NEW y \in days PROVE x <= y
    <3>1. y # x => x <= y
      BY <2>1, <2>6
    <3> QED BY <3>1
  <2> QED BY <2>7
<1>2. \E x \in days : \A y \in days : x >= y
  <2> DEFINE R == {p \in days \X days : p[1] <= p[2]}
  <2>1. \A x, y \in days : <<x, y>> \in R <=> x <= y
    OBVIOUS
  <2>2. \A x, y \in days : x # y => <<x, y>> \in R \/ <<y, x>> \in R
    BY <2>1
  <2>3. \A x, y, z \in days : <<x, y>> \in R /\ <<y, z>> \in R => <<x, z>> \in R
    BY <2>1
  <2>4. \E x \in days : \A y \in days \ {x} : <<y, x>> \in R
    <3> HIDE DEF R
    <3>1. PICK S : S = days
      OBVIOUS
    <3>2. /\ IsFiniteSet(S) /\ S # {} /\ S \in SUBSET S
          /\ \A x, y \in S : x # y => <<x, y>> \in R \/ <<y, x>> \in R
          /\ \A x, y, z \in S : <<x, y>> \in R /\ <<y, z>> \in R => <<x, z>> \in R
      BY <2>2, <2>3, <3>1
    <3>3. \E x \in S : \A y \in S \ {x} : <<y, x>> \in R
      BY ONLY <3>2, Extreme
    <3> QED BY <3>1, <3>3
  <2>5. PICK x \in days : \A y \in days \ {x} : <<y, x>> \in R
    <3> HIDE DEF R
    <3> QED BY <2>4
  <2>6. \A y \in days : y # x => <<y, x>> \in R
    <3> HIDE DEF R
    <3> QED BY <2>5
  <2> HIDE DEF R
  <2>7. ASSUME NEW y \in days PROVE x >= y
    <3>1. y # x => y <= x
      BY <2>1, <2>6
    <3> QED BY <3>1
  <2> QED BY <2>7
<1>3. Min(days) \in days
  BY <1>1 DEF Min
<1>4. Max(days) \in days
  BY <1>2 DEF Max
<1> QED BY <1>3, <1>4

(* The tables and the file, and what a report says while they stand still. *)
ReconInv ==
  /\ LedgerSide(payments) /\ \A r \in payments : r.id <= Cardinality(payments)
  /\ FileSide(file)
  /\ window.from \in Int /\ window.to \in Int
  /\ pool \subseteq payments
  /\ job = "reported" => /\ RetryIsReported
                         /\ \E E, M, L, U : MadeOf(E, M, L, U)

(* A report keeps its meaning as long as nothing it was made of changes.   *)
LEMMA MeaningStays ==
  ASSUME UNCHANGED <<payments, file, window, pool>>
  PROVE /\ Ledger' = Ledger /\ InWindowFile' = InWindowFile /\ Near' = Near
        /\ \A rows : InWindowRows(rows)' = InWindowRows(rows)
        /\ \A p : Reportable(p)' <=> Reportable(p)
        /\ \A day : InWindow(day)' <=> InWindow(day)
        /\ \A row, c : Rank(row, c)' = Rank(row, c)
<1>1. \A day : InWindow(day)' <=> InWindow(day)
  BY DEF InWindow
<1>2. \A rows : InWindowRows(rows)' = InWindowRows(rows)
  BY DEF InWindowRows, InWindow
<1>3. Ledger' = Ledger /\ InWindowFile' = InWindowFile /\ Near' = Near
  BY DEF Ledger, InWindowFile, Near, InWindowRows, InWindow
<1>4. \A p : Reportable(p)' <=> Reportable(p)
  BY DEF Reportable, InWindow
<1>5. \A row, c : Rank(row, c)' = Rank(row, c)
  <2>1. \A row, c : Bit(~ InWindow(c.day))' = Bit(~ InWindow(c.day))
    BY <1>1 DEF Bit, InWindow
  <2> QED BY <2>1 DEF Rank
<1> QED BY <1>1, <1>2, <1>3, <1>4, <1>5

(* So a report that Conclude makes is, in the next state, still made of    *)
(* the two passes.                                                         *)
LEMMA MadeStays ==
  ASSUME UNCHANGED <<payments, file, window, pool>>, NEW rep, report' = rep,
         NEW E, NEW M, NEW L, NEW U, MadeIn(rep, E, M, L, U)
  PROVE MadeOf(E, M, L, U)'
<1>1. /\ Ledger' = Ledger /\ InWindowFile' = InWindowFile /\ Near' = Near
      /\ \A rows : InWindowRows(rows)' = InWindowRows(rows)
      /\ \A p : Reportable(p)' <=> Reportable(p)
      /\ \A day : InWindow(day)' <=> InWindow(day)
      /\ \A row, c : Rank(row, c)' = Rank(row, c)
  BY MeaningStays
<1>2. ClaimSound(E, pool, Near, TupleEligible(pool, Near))'
  BY <1>1 DEF MadeIn, ClaimSound
<1>3. ClaimSound(M, L, U, LoanEligible(L, U))'
  BY <1>1 DEF MadeIn, ClaimSound
<1>4. {p \in M : Reportable(p)}' = {p \in M : Reportable(p)}
  BY <1>1
<1>5. {c \in U \ CapturesOf(M) : InWindow(c.day)}' = {c \in U \ CapturesOf(M) : InWindow(c.day)}
  BY <1>1
<1>6. /\ report'.exact = E
      /\ report'.mismatched = {p \in M : Reportable(p)}'
      /\ report'.inLedgerOnly = InWindowRows(L \ RowsOf(M))'
      /\ report'.inFileOnly = {c \in U \ CapturesOf(M) : InWindow(c.day)}'
      /\ report'.refunds = Refunds(InWindowFile)'
      /\ report'.variance = PerLoanAbsolute(Ledger, InWindowFile)'
  BY <1>1, <1>4, <1>5 DEF MadeIn
<1>7. /\ (E \subseteq Pairings(pool, Near))' /\ M \subseteq Pairings(L, U)
      /\ (L = pool \ RowsOf(E))' /\ (U = Near \ CapturesOf(E))'
  BY <1>1 DEF MadeIn
<1> QED BY <1>2, <1>3, <1>6, <1>7 DEF MadeOf, MadeIn

(* And the retries that it names are those of the state it was made in.    *)
LEMMA RetryStays ==
  ASSUME UNCHANGED <<payments, file, window, pool>>, NEW rep, report' = rep,
         \A p \in Retries(payments) :
             Touches(p, Ledger) => \E q \in rep.duplicates : ~Disjoint(p, q)
  PROVE RetryIsReported'
<1>1. Ledger' = Ledger /\ payments' = payments
  BY MeaningStays
<1> QED BY <1>1 DEF RetryIsReported

(* The pool, the file and the window are what the passes need.             *)
LEMMA PoolSide ==
  ASSUME ReconInv
  PROVE Inputs
<1>1. LedgerSide(pool)
  BY FS_Subset DEF ReconInv, LedgerSide
<1> QED BY <1>1 DEF ReconInv, Inputs

(* Each step of the job, and each payment posted beside it, keeps the      *)
(* invariant (ReconciliationNext).                                         *)
LEMMA ReconStepInv == ReconInv /\ [ReconciliationNext]_reconciliationVars => ReconInv'
<1> SUFFICES ASSUME ReconInv, [ReconciliationNext]_reconciliationVars PROVE ReconInv'
  OBVIOUS
<1>1. ASSUME UNCHANGED reconciliationVars PROVE ReconInv'
  <2>1. UNCHANGED <<payments, file, window, pool>> /\ job' = job /\ report' = report
    BY <1>1 DEF reconciliationVars
  <2>2. ASSUME job = "reported" PROVE RetryIsReported' /\ \E E, M, L, U : MadeOf(E, M, L, U)'
    <3>1. PICK rep : report' = rep /\ report = rep
      BY <2>1
    <3>2. PICK E, M, L, U : MadeOf(E, M, L, U)
      BY <2>2 DEF ReconInv
    <3>3. MadeIn(rep, E, M, L, U)
      BY <3>1, <3>2 DEF MadeOf
    <3>4. MadeOf(E, M, L, U)'
      BY <2>1, <3>1, <3>3, MadeStays
    <3>5. RetryIsReported'
      <4>1. \A p \in Retries(payments) :
                Touches(p, Ledger) => \E q \in rep.duplicates : ~Disjoint(p, q)
        BY <2>2, <3>1 DEF ReconInv, RetryIsReported
      <4> QED BY <2>1, <3>1, <4>1, RetryStays
    <3> QED BY <3>4, <3>5
  <2>3. /\ LedgerSide(payments)' /\ (\A r \in payments : r.id <= Cardinality(payments))'
        /\ FileSide(file)' /\ window'.from \in Int /\ window'.to \in Int /\ (pool \subseteq payments)'
    BY <2>1 DEF ReconInv, LedgerSide, FileSide
  <2> QED BY <2>1, <2>2, <2>3 DEF ReconInv
<1>2. ASSUME NEW e \in Entries, Post(e) PROVE ReconInv'
  <2>1. PICK n : n = Cardinality(payments)
    OBVIOUS
  <2>2. PICK x : x = [id |-> n + 1, loan |-> e.loan, amount |-> e.amount, at |-> e.at]
    OBVIOUS
  <2>3. /\ payments' = payments \cup {x} /\ job' # "reported"
        /\ UNCHANGED <<file, window, pool>>
    BY <1>2, <2>1, <2>2 DEF Post
  <2>4. IsFiniteSet(payments) /\ n \in Nat /\ \A r \in payments : r.id \in Nat /\ r.id <= n
    BY <2>1, FS_CardinalityType DEF ReconInv, LedgerSide, LedgerRow
  <2>5. x \in LedgerRow /\ x.id = n + 1
    <3>1. e.loan \in Int /\ e.amount \in Int /\ e.at \in Int
      BY ReconciliationAssumption
    <3> QED BY <2>2, <2>4, <3>1 DEF LedgerRow
  <2>6. x \notin payments /\ \A r \in payments : r.id # x.id
    BY <2>4, <2>5
  <2>7. IsFiniteSet(payments') /\ Cardinality(payments') = n + 1
    <3>1. PICK P : P = payments \cup {x}
      OBVIOUS
    <3>2. IsFiniteSet(P) /\ Cardinality(P) = n + 1
      BY <2>1, <2>4, <2>6, <3>1, FS_AddElement
    <3> QED BY <2>3, <3>1, <3>2
  <2>8. LedgerSide(payments)'
    <3>1. payments' \subseteq LedgerRow
      BY <2>3, <2>5 DEF ReconInv, LedgerSide
    <3>2. \A a, b \in payments' : a.id = b.id => a = b
      BY <2>3, <2>6 DEF ReconInv, LedgerSide
    <3> QED BY <2>7, <3>1, <3>2 DEF LedgerSide
  <2>9. \A r \in payments' : r.id <= Cardinality(payments')
    BY <2>3, <2>4, <2>5, <2>7
  <2>10. FileSide(file)' /\ window'.from \in Int /\ window'.to \in Int /\ pool' \subseteq payments'
    BY <2>3 DEF ReconInv, FileSide
  <2> QED BY <2>3, <2>8, <2>9, <2>10 DEF ReconInv
<1>3. CASE Load
  <2>1. /\ job' = "loaded" /\ UNCHANGED <<payments, pool>> /\ file' \in Settlements
        /\ window' \in Windows \cup {[from |-> Min({c.day : c \in file'}),
                                      to |-> Max({c.day : c \in file'})]}
    BY <1>3 DEF Load
  <2>2. PICK f \in Settlements : f = file'
    BY <2>1
  <2>3. FileSide(f) /\ f # {}
    BY ReconciliationAssumption DEF FileSide
  <2>4. window'.from \in Int /\ window'.to \in Int
    <3>1. PICK days : days = {c.day : c \in f}
      OBVIOUS
    <3>2. days \in SUBSET Int /\ IsFiniteSet(days) /\ days # {}
      <4> DEFINE h == [c \in f |-> c.day]
      <4>1. days = {h[c] : c \in f}
        BY <3>1
      <4>2. IsFiniteSet({h[c] : c \in f})
        <5> HIDE DEF h
        <5> QED BY <2>3, ImageIsFinite DEF FileSide
      <4>3. days \in SUBSET Int /\ days # {}
        BY <2>3, <3>1 DEF FileSide, SettlementRow
      <4> HIDE DEF h
      <4> QED BY <4>1, <4>2, <4>3
    <3>3. Min(days) \in Int /\ Max(days) \in Int
      BY ONLY <3>2, RangeIsWhole
    <3>4. CASE window' \in Windows
      BY <3>4, ReconciliationAssumption
    <3>5. CASE window' = [from |-> Min(days), to |-> Max(days)]
      BY <3>3, <3>5
    <3> QED BY <2>1, <2>2, <3>1, <3>4, <3>5
  <2>5. FileSide(file)'
    BY <2>2, <2>3 DEF FileSide
  <2>6. /\ LedgerSide(payments)' /\ (\A r \in payments : r.id <= Cardinality(payments))'
        /\ (pool \subseteq payments)'
    BY <2>1 DEF ReconInv, LedgerSide
  <2> QED BY <2>1, <2>4, <2>5, <2>6 DEF ReconInv
<1>4. CASE ReadPool
  <2>1. /\ job' = "pooled" /\ UNCHANGED <<payments, file, window>> /\ pool' \subseteq payments
    BY <1>4 DEF ReadPool, LoadLedger
  <2> QED BY <2>1 DEF ReconInv, LedgerSide, FileSide
<1>5. CASE Conclude
  <2>1. /\ job' = "reported" /\ UNCHANGED <<payments, file, window, pool>>
        /\ report' = Report(pool, LoadLedger(Widened(Gap \div DayLength + 1)))
    BY <1>5 DEF Conclude
  <2>2. PICK rep, again : /\ rep = report' /\ again = LoadLedger(Widened(Gap \div DayLength + 1))
                          /\ rep = Report(pool, again)
    BY <2>1
  <2>3. /\ \E E, M, L, U : MadeIn(rep, E, M, L, U)
        /\ rep.duplicates = {p \in Suspects(again, Ledger) : Touches(p, Ledger)}
    BY <2>2, PoolSide, ReportIsMadeOf
  <2>4. \E E, M, L, U : MadeOf(E, M, L, U)'
    BY <2>1, <2>2, <2>3, MadeStays
  <2>5. \A p \in Retries(payments) :
             Touches(p, Ledger) => \E q \in rep.duplicates : ~Disjoint(p, q)
    BY <2>2, <2>3, RetryIsNamed DEF ReconInv
  <2>6. RetryIsReported'
    BY <2>1, <2>2, <2>5, RetryStays
  <2> QED BY <2>1, <2>4, <2>6 DEF ReconInv, LedgerSide, FileSide
<1>6. CASE Abort
  <2>1. /\ job' = "aborted" /\ file' = {} /\ pool' = {} /\ payments' = payments
        /\ window'.from \in Int /\ window'.to \in Int
    BY <1>6 DEF Abort, NoWindow
  <2>2. FileSide(file)'
    BY <2>1, FS_EmptySet DEF FileSide
  <2> QED BY <2>1, <2>2 DEF ReconInv, LedgerSide
<1> QED BY <1>1, <1>2, <1>3, <1>4, <1>5, <1>6 DEF ReconciliationNext

(* The job begins with no file and no report (ReconciliationInit).         *)
LEMMA ReconInitInv == ReconciliationInit => ReconInv
<1>1. ASSUME ReconciliationInit PROVE ReconInv
  <2>1. payments = {} /\ file = {} /\ pool = {} /\ job = "idle" /\ window = NoWindow
    BY <1>1 DEF ReconciliationInit
  <2>2. LedgerSide({}) /\ FileSide({})
    BY FS_EmptySet DEF LedgerSide, FileSide
  <2>3. window.from \in Int /\ window.to \in Int
    BY <2>1 DEF NoWindow
  <2> QED BY <2>1, <2>2, <2>3 DEF ReconInv
<1> QED BY <1>1

(* The invariant is enough for both of the report's properties.            *)
LEMMA ReconInvImplies == ReconInv => ReportAddsUp /\ NothingIsHidden
<1> SUFFICES ASSUME ReconInv PROVE ReportAddsUp /\ NothingIsHidden
  OBVIOUS
<1>1. CASE job # "reported"
  BY <1>1 DEF ReportAddsUp, EachRowExplainedOnce, VarianceIsExplained, NothingIsHidden
<1>2. CASE job = "reported"
  <2>1. PICK E, M, L, U : MadeOf(E, M, L, U)
    BY <1>2 DEF ReconInv
  <2>2. Inputs /\ RetryIsReported
    BY <1>2, PoolSide DEF ReconInv
  <2>3. EachRowExplainedOnce
    BY <2>1, <2>2, RowsAreExplainedOnce
  <2>4. VarianceIsExplained
    BY <1>2, <2>1, <2>2, <2>3, VarianceAddsUp
    DEF VarianceIsExplained, InsideOf, EarlyOf, LateOf
  <2>5. Exit(report) = "clean" => AllIsWell
    BY <1>2, <2>1, <2>2, CleanIsWell
  <2> QED BY <2>2, <2>3, <2>4, <2>5 DEF ReportAddsUp, NothingIsHidden
<1> QED BY <1>1, <1>2

(* For any tables, files, windows, tolerance and postings beside the job:  *)
(* every row of a report is explained once, and each loan's variance is    *)
(* its breaks and the pairs across the window's edge, to the cent.         *)
THEOREM ReportsAddUp == ReconciliationSpec => []ReportAddsUp
<1> QED BY ReconInitInv, ReconStepInv, ReconInvImplies, PTL DEF ReconciliationSpec

(* And a report hides no retry, whatever was posted between its two reads, *)
(* and a clean exit leaves no row unpaired and no variance netted away.    *)
THEOREM NothingIsEverHidden == ReconciliationSpec => []NothingIsHidden
<1> QED BY ReconInitInv, ReconStepInv, ReconInvImplies, PTL DEF ReconciliationSpec

=============================================================================
