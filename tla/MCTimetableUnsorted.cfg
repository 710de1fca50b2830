\* The same timetables, slots of a day in any order.
CONSTANTS
  DayLen = 3
  Timetables <- MCTimetables
SPECIFICATION Spec
INVARIANT AvailableTimeIsNearest
