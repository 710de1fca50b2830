\* Every instant of the week against every timetable of up to two entries.
CONSTANTS
  DayLen = 3
  Timetables <- MCTimetables
SPECIFICATION Spec
INVARIANTS
  TypeOK
  AvailableTimeNearestWhenSorted
