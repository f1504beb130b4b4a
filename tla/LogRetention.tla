---------------------------- MODULE LogRetention ----------------------------
(***************************************************************************)
(* The log file of a service (logging_config.py, a copy in each service):  *)
(* rotated at UTC midnight, each rotated file named for a day and disposed *)
(* of when that day leaves the window, by a process that may be idle, die  *)
(* and be started again, and whose named loggers share one writer.         *)
(*                                                                         *)
(* Time is whole days.  The rotation itself is the standard library's, of  *)
(* the Python that the images run: a rollover that finds its backup there  *)
(* already returns before it has done anything.  Masking is left out.      *)
(***************************************************************************)
EXTENDS Integers, FiniteSets, Functions

CONSTANTS
    Loggers,        \* named loggers of the process (intake, clients, ...)
    Retention,      \* LOG_RETENTION_DAYS
    Inherited,      \* days with lines in the file from before rotation, any of these sets
    FirstDay,
    LastDay,        \* bounds the run
    NoWriter

ASSUME LogAssumption ==
    /\ Retention \in Nat \ {0}
    /\ FirstDay \in Nat /\ LastDay \in Nat
    /\ \A D \in Inherited : D \subseteq 0 .. FirstDay
    /\ NoWriter \notin Loggers

VARIABLES
    today,
    files,      \* by name, their lines and the day of the last write
    writer,     \* the handler each logger has, named for the logger that made it
    handler,    \* the day each handler is to roll over, and the file it has open
    logged,     \* history: every line written
    disposed    \* history: the last day on which a writer was made or a file rotated

logVars == <<today, files, writer, handler, logged, disposed>>

Active == -1    \* the name without a date; a backup's name is its day
Gone == -2      \* an open file that has no name any more

NoHandler == [due |-> 0, to |-> Gone]

Backups(fs) == DOMAIN fs \ {Active}

LogInit ==
    /\ today = FirstDay
    /\ \E D \in Inherited :
        files = [n \in IF D = {} THEN {} ELSE {Active} |->
                    [lines |-> {[day |-> d, by |-> NoWriter] : d \in D},
                     touched |-> CHOOSE d \in D : \A e \in D : e <= d]]
    /\ writer = [l \in Loggers |-> NoWriter]
    /\ handler = [l \in Loggers |-> NoHandler]
    /\ logged = {}
    /\ disposed = 0

-----------------------------------------------------------------------------
(* On or before _retention_cutoff.                                         *)
Overdue(day) == day <= today - Retention

(* Backups are judged by the day they are named for.                       *)
ExpiredFiles(fs) == {n \in Backups(fs) : Overdue(n)}

(* The library's own rule: no more than backupCount backups.               *)
Surplus(fs) == {n \in Backups(fs) : Cardinality({m \in Backups(fs) : m > n}) >= Retention}

(* Slip: the library's rule alone.                                         *)
FilesToDeleteByCount(fs) == Surplus(fs)

FilesToDelete(fs) == Surplus(fs) \cup ExpiredFiles(fs)

Without(fs, names) == Restrict(fs, DOMAIN fs \ names)

(* An open file stays open when its name is taken from it.                 *)
Follow(hs, fs) == [l \in Loggers |-> IF hs[l].to \in DOMAIN fs THEN hs[l] ELSE [hs[l] EXCEPT !.to = Gone]]

Opened(fs) ==
    [n \in DOMAIN fs \cup {Active} |->
        IF n \in DOMAIN fs THEN fs[n] ELSE [lines |-> {}, touched |-> today]]

(* An active file whose newest line is overdue goes, the file is opened,   *)
(* and the overdue backups go.                                             *)
MakeHandler(l) ==
    LET stale == {n \in DOMAIN files \cap {Active} : Overdue(files[n].touched)}
        open == Opened(Without(files, stale))
    IN /\ files' = Without(open, ExpiredFiles(open))
       /\ handler' = Follow([handler EXCEPT ![l] = [due |-> open[Active].touched + 1, to |-> Active]], files')
       /\ writer' = [writer EXCEPT ![l] = l]
       /\ disposed' = today

(* Slip: every logger has a writer of its own on the file.                 *)
GetLoggerEach(l) ==
    /\ writer[l] = NoWriter
    /\ MakeHandler(l)
    /\ UNCHANGED <<today, logged>>

(* The process's one writer on the path (_FILE_HANDLERS, under its lock).  *)
Shared == {writer[k] : k \in Loggers} \ {NoWriter}

(* It is made by whoever comes first.                                      *)
GetLogger(l) ==
    /\ writer[l] = NoWriter
    /\ \/ Shared = {} /\ MakeHandler(l)
       \/ /\ \E h \in Shared : writer' = [writer EXCEPT ![l] = h]
          /\ UNCHANGED <<files, handler, disposed>>
    /\ UNCHANGED <<today, logged>>

(* The active file takes the name of the day it was due to end.            *)
Rotated(day) ==
    [n \in DOMAIN files \cup {day} |->
        IF n = day THEN files[Active]
        ELSE IF n = Active THEN [lines |-> {}, touched |-> today]
        ELSE files[n]]

RollsOver(h) == today >= handler[h].due /\ handler[h].due - 1 \notin DOMAIN files

FilesAfter(h) ==
    IF RollsOver(h) THEN LET fs == Rotated(handler[h].due - 1) IN Without(fs, FilesToDelete(fs))
    ELSE files

HandlersAfter(h) ==
    IF RollsOver(h)
    THEN Follow([l \in Loggers |->
                    IF l = h THEN [due |-> today + 1, to |-> Active]
                    ELSE IF handler[l].to = Active THEN [handler[l] EXCEPT !.to = handler[h].due - 1]
                    ELSE handler[l]], FilesAfter(h))
    ELSE handler

(* A record is written: by way of a rollover, the first of a day.          *)
Emit(l) ==
    /\ writer[l] # NoWriter
    /\ LET h == writer[l]
           line == [day |-> today, by |-> l]
           to == HandlersAfter(h)[h].to
       IN /\ handler' = HandlersAfter(h)
          /\ files' = [n \in DOMAIN FilesAfter(h) |->
                        IF n = to THEN [lines |-> FilesAfter(h)[n].lines \cup {line}, touched |-> today]
                        ELSE FilesAfter(h)[n]]
          /\ logged' = logged \cup {line}
          /\ disposed' = IF RollsOver(h) THEN today ELSE disposed
    /\ UNCHANGED <<today, writer>>

ProcessEnds ==
    /\ \E l \in Loggers : writer[l] # NoWriter
    /\ writer' = [l \in Loggers |-> NoWriter]
    /\ handler' = [l \in Loggers |-> NoHandler]
    /\ UNCHANGED <<today, files, logged, disposed>>

DayPasses ==
    /\ today < LastDay
    /\ today' = today + 1
    /\ UNCHANGED <<files, writer, handler, logged, disposed>>

LogNext ==
    \/ \E l \in Loggers : GetLogger(l) \/ Emit(l)
    \/ ProcessEnds
    \/ DayPasses

LogSpec == LogInit /\ [][LogNext]_logVars

-----------------------------------------------------------------------------
LinesOf(n) == files[n].lines

(* A line is on disk for as long as it is in the window, whoever rotates,  *)
(* disposes or is started meanwhile; and once a writer has been made or a  *)
(* file rotated, no line that had left the window is, but for those of the *)
(* file from before rotation, which stay as long as its newest (retention  *)
(* as _expired_files and _dispose_overdue_active_file state it).           *)
KeptForItsTerm ==
    /\ \A x \in logged : ~Overdue(x.day) => \E n \in DOMAIN files : x \in LinesOf(n)
    /\ \A n \in DOMAIN files :
        /\ \A x \in LinesOf(n) \cap logged : x.day > disposed - Retention
        /\ LinesOf(n) # {} => \E x \in LinesOf(n) : x.day > disposed - Retention

=============================================================================
