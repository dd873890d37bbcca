----------------------------- MODULE FactEditing -----------------------------
(***************************************************************************)
(* The edit panel of the workbench (SummaryEditPanel,                      *)
(* buildSummaryEditPayload) and its date conversions (dateTimeInput.ts):   *)
(* a stored time is ISO text with an offset, the panel shows its wall      *)
(* clock in a datetime-local control, and saving puts an offset back.      *)
(***************************************************************************)
EXTENDS Integers

CONSTANTS
    Clocks,      \* wall clock readings, in hours
    Zones,       \* IANA names
    Texts,       \* texts of the timezone field that end in an offset, or in Z
    OffsetOf,    \* the offset of a zone at a wall clock reading
    TextOffset,  \* the offset such a text ends in
    Offsets,     \* the offsets of this run
    Empty

Timezones == Zones \cup Texts

(* An IANA name may be such a text: NZ ends in Z, which is read as +00:00. *)
EditingConstants ==
    /\ Clocks \subseteq Int /\ Offsets \subseteq Int
    /\ OffsetOf \in [Zones -> [Clocks -> Offsets]]
    /\ TextOffset \in [Texts -> Offsets]
    /\ Empty \notin Clocks /\ Empty \notin Timezones

Seconds == {0, 30}
Stamps == [clock: Clocks, seconds: Seconds, offset: Offsets]
Fields == Clocks \cup {Empty}

VARIABLES
    event,     \* the stored event: start, end and timezone
    reminder,  \* the due time of the stored reminder
    panel,     \* which edit panel is open
    form       \* its fields; Empty where nothing is put in

editor == <<event, reminder, panel, form>>

Instant(t) == 120 * (t.clock - t.offset) + t.seconds

(* dateTimeIsoToLocalInputValue: the first sixteen characters.             *)
ToLocalInput(t) == t.clock

(* dateTimeLocalValueToIso: the offset the timezone ends in, or that of    *)
(* the value before, or that of the zone. The zone of a reminder is the    *)
(* browser's, and its due time always has an offset.                       *)
ToIso(clock, tz, prev) ==
    [clock |-> clock, seconds |-> 0,
     offset |-> IF tz \in Texts THEN TextOffset[tz] ELSE prev.offset]

Blank == [start |-> Empty, end |-> Empty, tz |-> Empty]

EditingInit ==
    /\ event \in [start: {t \in Stamps : t.seconds = 0}, end: Stamps, tz: Zones]
    /\ Instant(event.start) < Instant(event.end)
    /\ event.start.offset = OffsetOf[event.tz][event.start.clock]
    /\ event.end.offset = OffsetOf[event.tz][event.end.clock]
    /\ reminder \in Stamps
    /\ panel = "closed"
    /\ form = Blank

OpenEvent ==
    /\ panel = "closed"
    /\ panel' = "event"
    /\ form' = [start |-> ToLocalInput(event.start), end |-> ToLocalInput(event.end),
                tz |-> event.tz]
    /\ UNCHANGED <<event, reminder>>

OpenReminder ==
    /\ panel = "closed"
    /\ panel' = "reminder"
    /\ form' = [Blank EXCEPT !.start = ToLocalInput(reminder)]
    /\ UNCHANGED <<event, reminder>>

Type ==
    /\ panel # "closed"
    /\ \/ \E v \in Fields : form' = [form EXCEPT !.start = v]
       \/ panel = "event" /\ \E v \in Fields : form' = [form EXCEPT !.end = v]
       \/ panel = "event" /\ \E z \in Timezones \cup {Empty} : form' = [form EXCEPT !.tz = z]
    /\ UNCHANGED <<event, reminder, panel>>

Cancel ==
    /\ panel # "closed"
    /\ panel' = "closed"
    /\ form' = Blank
    /\ UNCHANGED <<event, reminder>>

EditedFromStart == \* faulty: both ends get their offset from the start
    [start |-> ToIso(form.start, form.tz, event.start),
     end   |-> ToIso(form.end, form.tz, event.start), tz |-> form.tz]

Edited ==
    [start |-> ToIso(form.start, form.tz, event.start),
     end   |-> ToIso(form.end, form.tz, event.end), tz |-> form.tz]

(* The controls are required and requiredFormString refuses an empty one;  *)
(* the backend refuses an end that is not after the start, and the panel   *)
(* stays open.                                                             *)
SaveEvent ==
    /\ panel = "event"
    /\ Empty \notin {form.start, form.end, form.tz}
    /\ Instant(Edited.start) < Instant(Edited.end)
    /\ event' = Edited
    /\ panel' = "closed"
    /\ form' = Blank
    /\ UNCHANGED reminder

SaveReminder ==
    /\ panel = "reminder"
    /\ form.start # Empty
    /\ reminder' = ToIso(form.start, Empty, reminder)
    /\ panel' = "closed"
    /\ form' = Blank
    /\ UNCHANGED event

EditingNext == OpenEvent \/ OpenReminder \/ Type \/ Cancel \/ SaveEvent \/ SaveReminder

EditingSpec == EditingInit /\ [][EditingNext]_editor

-----------------------------------------------------------------------------
Untouched == form = [start |-> ToLocalInput(event.start), end |-> ToLocalInput(event.end),
                     tz |-> event.tz]

(* dateTimeInput.ts: opening an event and saving it as it is moves neither *)
(* its start nor its end, but for the seconds the control does not show,   *)
(* whatever offset each of them is stored with, unless its timezone is     *)
(* itself read as an offset (as NZ is); and a reminder keeps its offset    *)
(* through every edit, the zone of the browser it is edited in does not    *)
(* move it.                                                                *)
EditsMoveNothingElse ==
    [][/\ SaveEvent /\ Untouched /\ event.tz \notin Texts =>
             /\ Instant(event'.start) = Instant(event.start) - event.start.seconds
             /\ Instant(event'.end) = Instant(event.end) - event.end.seconds
       /\ reminder'.offset = reminder.offset]_editor
==============================================================================
