----------------------------- MODULE RateLimit -----------------------------
(***************************************************************************)
(* rate_limit.check_and_record: a sliding window of the model-backed calls *)
(* this process has let through.  The clock is read before the lock is     *)
(* taken, so the timestamps enter the deque out of order, and an entry may *)
(* be dropped by one clock and missed by an earlier one.                   *)
(*                                                                         *)
(* Timestamps are ages in ticks; a caller holds the lateness of the clock  *)
(* it read.                                                                *)
(***************************************************************************)
EXTENDS Integers, Sequences, FiniteSets

CONSTANTS
    Requesters,
    MaxCalls,    \* _MAX_CALLS
    WindowSize,  \* _WINDOW_SECONDS
    MaxLate      \* bounds the wait between reading the clock and having the lock

ASSUME RateAssumption ==
    /\ MaxCalls \in Nat \ {0} /\ WindowSize \in Nat /\ MaxLate \in Nat
    /\ MaxLate < WindowSize

VARIABLES
    window,      \* the deque: the ages of its timestamps, oldest entry first
    late,        \* how long ago each requester read its clock, or Away
    passed       \* history: ages of the calls let through, at their real time

rateVars == <<window, late, passed>>

Away == -1

Memory == WindowSize + MaxLate

RateTypeOK ==
    /\ window \in Seq(Nat) /\ Len(window) <= MaxCalls
    /\ late \in [Requesters -> Away .. MaxLate]
    /\ passed \in Seq(0 .. Memory)

RateInit ==
    /\ window = <<>>
    /\ late = [r \in Requesters |-> Away]
    /\ passed = <<>>

ReadClock(r) ==
    /\ late[r] = Away
    /\ late' = [late EXCEPT ![r] = 0]
    /\ UNCHANGED <<window, passed>>

(* Slip: an entry as old as the window is dropped one tick early.          *)
ExpiredEarly(entry, l) == entry - l >= WindowSize

(* By the clock of a requester l late, an entry is past the window.        *)
Expired(entry, l) == entry - l > WindowSize

(* What is left of a sequence when it is cut at the first of some places.  *)
From(s, places) ==
    LET first == IF places = {} THEN Len(s) + 1
                 ELSE CHOOSE i \in places : \A j \in places : i <= j
    IN  SubSeq(s, first, Len(s))

(* Only the head is ever dropped: the scan ends at the first entry that is *)
(* still inside.                                                           *)
Kept(l) == From(window, {i \in DOMAIN window : ~Expired(window[i], l)})

LetThrough(r) ==
    /\ late[r] # Away
    /\ Len(Kept(late[r])) < MaxCalls
    /\ window' = Append(Kept(late[r]), late[r])
    /\ passed' = Append(passed, 0)
    /\ late' = [late EXCEPT ![r] = Away]

(* 429; what was dropped stays dropped.                                    *)
TurnAway(r) ==
    /\ late[r] # Away
    /\ Len(Kept(late[r])) >= MaxCalls
    /\ window' = Kept(late[r])
    /\ late' = [late EXCEPT ![r] = Away]
    /\ UNCHANGED passed

Aged(s) == [i \in DOMAIN s |-> s[i] + 1]

(* Entries beyond every comparison stop counting.                          *)
RateTick ==
    /\ \A r \in Requesters : late[r] < MaxLate
    /\ window' = [i \in DOMAIN window |->
          IF window[i] > Memory THEN window[i] ELSE window[i] + 1]
    /\ late' = [r \in Requesters |-> IF late[r] = Away THEN Away ELSE late[r] + 1]
    /\ passed' = From(Aged(passed), {i \in DOMAIN passed : passed[i] < Memory})

RateNext ==
    \/ \E r \in Requesters : ReadClock(r) \/ LetThrough(r) \/ TurnAway(r)
    \/ RateTick

RateSpec == RateInit /\ [][RateNext]_rateVars

-----------------------------------------------------------------------------
PassedWithin(span) == Cardinality({i \in DOMAIN passed : passed[i] <= span})

(* No window, shortened by the time a call may wait for the lock, has more *)
(* than MaxCalls calls, although the entries are out of order and dropped  *)
(* by other callers' clocks (check_and_record).                            *)
BurstIsBounded == PassedWithin(WindowSize - MaxLate) <= MaxCalls

=============================================================================
