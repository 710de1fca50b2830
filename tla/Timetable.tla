----------------------------- MODULE Timetable -----------------------------
(***************************************************************************)
(* The timetable evaluator of unitstatushandler (networkmanager.go, lines  *)
(* 674-802): validateTimetable and getAvailableTimetableTime, as operators *)
(* over a clock of DayLen ticks per day and a week of daysInWeek days.     *)
(*                                                                         *)
(* A timetable is a sequence of entries [day, slots]; day is the cloud's   *)
(* DayOfWeek (1 = Monday .. 7 = Sunday), a slot is [start, end] in ticks   *)
(* of the day.  The instant asked about is [wd, t]: a Go time.Weekday      *)
(* (0 = Sunday) and a tick.  Time passes one tick per step, so every       *)
(* instant of the week is asked about every timetable.                     *)
(***************************************************************************)
EXTENDS Integers, Sequences
LOCAL INSTANCE SequencesExt
LOCAL INSTANCE FiniteSetsExt

CONSTANTS
  DayLen,      \* ticks per day
  Timetables   \* the timetables the cloud may send

daysInWeek == 7

Ticks    == 0..(DayLen - 1)
Slot     == [start : Ticks, end : Ticks]
Instants == [wd : 0..(daysInWeek - 1), t : Ticks]

VARIABLES
  now,        \* fromDate
  timetable   \* the timetable evaluated at fromDate

vars == <<now, timetable>>

-----------------------------------------------------------------------------
(* The code                                                                *)

\* validateTimetable: TRUE when it returns nil.  Dates are ticks of a day
\* here, so the "only time" checks of the code always pass.
ValidateTimetable(tt) ==
  /\ tt # <<>>
  /\ \A k \in DOMAIN tt :
       /\ tt[k].day \in 1..7
       /\ tt[k].slots # <<>>
       /\ \A m \in DOMAIN tt[k].slots : tt[k].slots[m].start < tt[k].slots[m].end

\* Mutant: DayOfWeek taken as a Go weekday one off (Monday = 0).
WeekdayOfShifted(day) == day - 1

\* time.Weekday(entry.DayOfWeek), with daysInWeek (Sunday) mapped to 0.
WeekdayOf(day) == IF day = daysInWeek THEN 0 ELSE day

\* timetableMap[w]: the slots of every entry for weekday w, in entry order.
TimetableMap(tt, w) ==
  FlattenSeq([k \in DOMAIN SelectSeq(tt, LAMBDA e : WeekdayOf(e.day) = w) |->
                SelectSeq(tt, LAMBDA e : WeekdayOf(e.day) = w)[k].slots])

\* Mutant: the day loop stops before reaching fromDate's weekday a week on.
DayOffsetsShort == 0..(daysInWeek - 1)

\* The day offsets the loop visits: i from 0 to daysInWeek inclusive.
DayOffsets == 0..daysInWeek

\* The slots in the order the loops visit them, as [start, end] in ticks
\* from the start of fromDate's day.
Visits(from, tt) ==
  FlattenSeq([k \in 1..Cardinality(DayOffsets) |->
    LET i == k - 1
        w == (from.wd + i) % daysInWeek
        S == TimetableMap(tt, w)
    IN  [m \in DOMAIN S |-> [start |-> i * DayLen + S[m].start,
                             end   |-> i * DayLen + S[m].end]]])

\* Mutant: the duration is taken as fromDate.Sub(startTime).
GetAvailableTimetableTimeSwapped(from, tt) ==
  LET V    == Visits(from, tt)
      open == {m \in DOMAIN V : V[m].end > from.t}
      m    == Min(open)
  IN  CASE ~ValidateTimetable(tt) -> [ok |-> FALSE, err |-> "invalid", dur |-> 0]
        [] open = {}              -> [ok |-> FALSE, err |-> "noAvailableTime", dur |-> 0]
        [] V[m].start <= from.t   -> [ok |-> TRUE, err |-> "none", dur |-> 0]
        [] OTHER                  -> [ok |-> TRUE, err |-> "none", dur |-> from.t - V[m].start]

\* getAvailableTimetableTime: the first visited slot that has not ended
\* decides: 0 if it has started, else the ticks until it starts; no such
\* slot is the "no available time" error.
GetAvailableTimetableTime(from, tt) ==
  LET V    == Visits(from, tt)
      open == {m \in DOMAIN V : V[m].end > from.t}
      m    == Min(open)
  IN  CASE ~ValidateTimetable(tt) -> [ok |-> FALSE, err |-> "invalid", dur |-> 0]
        [] open = {}              -> [ok |-> FALSE, err |-> "noAvailableTime", dur |-> 0]
        [] V[m].start <= from.t   -> [ok |-> TRUE, err |-> "none", dur |-> 0]
        [] OTHER                  -> [ok |-> TRUE, err |-> "none", dur |-> V[m].start - from.t]

-----------------------------------------------------------------------------
(* Time passing                                                            *)

Init ==
  /\ now \in Instants
  /\ timetable \in Timetables

\* One tick later, wrapping at the end of the week.
Tick ==
  /\ now' = IF now.t < DayLen - 1 THEN [now EXCEPT !.t = @ + 1]
            ELSE [wd |-> (now.wd + 1) % daysInWeek, t |-> 0]
  /\ UNCHANGED timetable

Spec == Init /\ [][Tick]_vars

-----------------------------------------------------------------------------
(* Properties                                                              *)

\* What the evaluator returns for the instant and timetable at hand.
Available == GetAvailableTimetableTime(now, timetable)

\* Type, and the bound on the answer: a valid timetable is answered with a
\* wait of at most one week.
TypeOK ==
  /\ now \in Instants
  /\ timetable \in Timetables
  /\ Available.ok => Available.dur \in 0..(daysInWeek * DayLen)

\* Reference: every slot of the timetable placed on the days from fromDate
\* on (DayOfWeek d falls on Go weekday d % 7), independent of list order.
Occurrences(from, tt) ==
  LET OnDay(i) == {k \in DOMAIN tt : tt[k].day % daysInWeek = (from.wd + i) % daysInWeek}
  IN  UNION {UNION {{[start |-> i * DayLen + tt[k].slots[m].start,
                      end   |-> i * DayLen + tt[k].slots[m].end] : m \in DOMAIN tt[k].slots} :
                    k \in OnDay(i)} :
             i \in 0..daysInWeek}

\* Reference: 0 inside a slot, otherwise the wait for the nearest start.
NearestWait(from, tt) ==
  LET O == Occurrences(from, tt)
  IN  IF \E o \in O : o.start <= from.t /\ from.t < o.end THEN 0
      ELSE Min({o.start - from.t : o \in {o \in O : o.start > from.t}})

\* The slots of each weekday, gathered in entry order, are in start order.
InStartOrder(tt) ==
  \A w \in 0..(daysInWeek - 1) :
    LET S == FlattenSeq([k \in DOMAIN SelectSeq(tt, LAMBDA e : e.day % daysInWeek = w) |->
                           SelectSeq(tt, LAMBDA e : e.day % daysInWeek = w)[k].slots])
    IN  \A a, b \in DOMAIN S : a < b => S[a].start <= S[b].start

\* getAvailableTimetableTime answers a valid timetable whose slots are
\* listed in start order with the time until the nearest slot, 0 inside one,
\* and never "no available time": the weekday mapping of DayOfWeek and the
\* eighth loop iteration (fromDate's weekday a week on) make that so.
AvailableTimeNearestWhenSorted ==
  ValidateTimetable(timetable) /\ InStartOrder(timetable) =>
    Available.ok /\ Available.dur = NearestWait(now, timetable)

\* getAvailableTimetableTime answers every valid timetable with the time
\* until its nearest slot (its nearestDuration minimum suggests so), whatever
\* order the slots of a day are listed in.
AvailableTimeIsNearest ==
  ValidateTimetable(timetable) =>
    Available.ok /\ Available.dur = NearestWait(now, timetable)

=============================================================================
