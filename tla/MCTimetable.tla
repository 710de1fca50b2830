---------------------------- MODULE MCTimetable ----------------------------
(***************************************************************************)
(* Days of three ticks; entries for Monday, Tuesday, Sunday and the        *)
(* invalid day 0, each with up to two slots out of three valid ones and    *)
(* one that ends before it starts; timetables of up to two entries.        *)
(***************************************************************************)
EXTENDS Timetable, TLC

MCDays  == {0, 1, 2, 7}
MCSlots == {[start |-> 0, end |-> 1], [start |-> 0, end |-> 2],
            [start |-> 1, end |-> 2], [start |-> 2, end |-> 1]}

MCSlotLists == {<<>>} \cup [1..1 -> MCSlots] \cup [1..2 -> MCSlots]
MCEntries   == [day : MCDays, slots : MCSlotLists]

MCTimetables == {<<>>} \cup [1..1 -> MCEntries] \cup [1..2 -> MCEntries]
=============================================================================
