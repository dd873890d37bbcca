--------------------------- MODULE EvidenceReview ---------------------------
EXTENDS Naturals, FiniteSets

(***************************************************************************)
(* What a manual acceptance record asks for, item by item, and what the    *)
(* review draft suggests for it out of one run's evidence                  *)
(* (scripts/manual-evidence-review.mjs and the guides of                   *)
(* scripts/collect-ios-acceptance-evidence.mjs).                           *)
(*                                                                         *)
(* A label is a category and a text.  An item is complete when each of its *)
(* labels occurs in the text of some entry of that category, so a          *)
(* suggestion is modelled as the set of required labels its text contains. *)
(* The evidence is the set of the things it says were found, by name; a    *)
(* path that the evidence names whether or not the file was written is not *)
(* among them.                                                             *)
(***************************************************************************)

Shot(text) == <<"screenshots", text>>
Api(text) == <<"apiSummaries", text>>
Marker(text) == <<"bridgeMarkers", text>>
Artifact(text) == <<"systemArtifacts", text>>

Pages == {"timeline", "calendar", "reminders", "expenses", "ledger"}
UiTests == {"attachment UI test", "keyboard UI test", "navigation UI test",
            "notification UI test", "voice UI test", "voice permission UI test"}

(* What a page of the H5 is called by a suggestion. *)
PageShot(page) == Shot(page)
SurfaceShots == {PageShot(page) : page \in Pages}

(* manualEvidenceGuides, and the guide of the address item. *)
Required ==
    [h5_address_override |->
        {Shot("launch at the default address"), Shot("launch at the LAN address"),
         Marker("H5DevServerURL"), Marker("h5NativeTargetMarkerFound"),
         Artifact("Info.plist")},
     conversation_persistence |->
        {Api("turns"), Marker("conversationId"),
         Shot("id before the relaunch"), Shot("id after the relaunch")},
     navigation_surfaces |->
        {Marker("native.header.timeline"), Marker("native.drawer.quick-switch"),
         Marker("view=timeline"), Marker("view=settings"),
         Shot("header"), Shot("drawer"), Shot("seven pages"),
         Artifact("navigation xcresult")},
     keyboard_input |->
        {Api("reminders"), Marker("native.composer.keyboard"),
         Shot("input text"), Shot("confirmation card"), Shot("reminder scheduled")},
     voice_input |->
        {Api("reminders"), Marker("native.composer.voice"),
         Shot("permission prompt"), Shot("recognized text"), Shot("confirmation card"),
         Artifact("permission prompt")},
     photo_attachment |->
        {Api("attachments"), Api("expenses"), Marker("inputKind=attachment"),
         Marker("attachmentKind=image"), Marker("attachment.photo"),
         Shot("PhotosPicker"), Shot("attachment card"), Shot("expense card"),
         Artifact("PhotosPicker")},
     file_attachment |->
        {Api("attachments"), Marker("inputKind=attachment"), Marker("attachment.file"),
         Shot("fileImporter"), Shot("attachment card"), Artifact("Files")},
     pdf_text_extraction |->
        {Api("attachments"), Marker("inputKind=attachment"), Marker("attachment.file"),
         Shot("PDF picker"), Shot("follow-up"), Artifact("PDF text")},
     local_notification |->
        {Api("reminders"), Marker("notifications.reminders.sync"),
         Shot("reminder card"), Shot("reminders scheduled"),
         Artifact("system notification")},
     notification_click_backflow |->
        {Api("reminders"), Marker("notifications.reminders.opened"),
         Shot("reminders view"), Shot("highlighted reminder"),
         Artifact("recording of the tap")},
     system_calendar_write |->
        {Api("events"), Marker("calendar.events.sync"),
         Shot("calendar card"), Shot("calendar scheduled"),
         Artifact("system calendar entry")},
     system_calendar_cleanup |->
        {Api("events"), Api("canceled"), Marker("calendar.events.sync"),
         Marker("status=canceled"), Shot("cancel in the H5"),
         Artifact("system calendar entry gone")},
     backend_fact_confirmation |->
        {Api("events"), Api("reminders"), Api("expenses"), Api("ledger"),
         Marker("action_executed"), Marker("direct_action_executed")} \union SurfaceShots,
     system_sync_degradation |->
        {Api("events"), Api("reminders"), Marker("native.error"),
         Shot("refusal"), Shot("H5 status"), Shot("backend answer"),
         Artifact("refusal")}]

Items == DOMAIN Required

(* Six UI tests and fourteen items, none of which asks for nothing. *)
ASSUME GuidesAssumption ==
    /\ Cardinality(UiTests) = 6
    /\ Cardinality(Items) = 14
    /\ \A item \in Items : Cardinality(Required[item]) > 3

When(condition, labels) == IF condition THEN labels ELSE {}

(* The paths of the launch screenshot and of the two around the relaunch   *)
(* are in every evidence file, written or not.                             *)
AddressLabels(found) ==
    {Shot("launch at the default address")}
    \union When("H5 URL" \in found, {Marker("H5DevServerURL"), Artifact("Info.plist")})
    \union When("private LAN" \in found, {Shot("launch at the LAN address")})
    \union When("target marker" \in found, {Marker("h5NativeTargetMarkerFound")})

PersistenceLabels(found) ==
    When("id before" \in found, {Marker("conversationId"), Shot("id before the relaunch")})
    \union When("id after" \in found, {Shot("id after the relaunch")})
    \union When("same id" \in found, {Api("turns")})

NavigationLabels(found) ==
    When("navigation UI test" \in found,
         {Shot("header"), Shot("drawer"), Marker("native.header.timeline"),
          Marker("native.drawer.quick-switch"), Artifact("navigation xcresult")})
    \union When("surfaces" \in found,
                {Shot("seven pages"), Marker("view=timeline"), Marker("view=settings")})

NotificationLabels(found) ==
    When("reminder card" \in found, {Shot("reminder card")})
    \union When("delivery reminder" \in found,
                {Api("reminders"), Shot("reminders scheduled")})
    \union When(found \cap {"delivery pending", "delivered", "sync bridge", "notification UI test"} # {},
                {Marker("notifications.reminders.sync")})
    \union When("notification UI test" \in found, {Artifact("system notification")})

BackflowLabels(found) ==
    {Shot("reminders view")}
    \union When("backflow highlighted" \in found, {Shot("highlighted reminder")})
    \union When("backflow reminder" \in found,
                {Api("reminders"), Marker("notifications.reminders.opened")})
    \union When("notification UI test" \in found,
                {Artifact("recording of the tap"), Marker("notifications.reminders.opened")})

KeyboardLabels(found) ==
    When("keyboard UI test" \in found, {Shot("input text")})
    \union When("keyboard input" \in found,
                {Shot("confirmation card"), Shot("reminder scheduled"), Api("reminders"),
                 Marker("native.composer.keyboard")})

VoiceLabels(found) ==
    When("voice UI test" \in found,
         {Shot("recognized text"), Shot("confirmation card"), Api("reminders"),
          Marker("native.composer.voice")})
    \union When("voice permission UI test" \in found,
                {Shot("permission prompt"), Artifact("permission prompt")})

(* What any of the three attachments is suggested once all three are stored. *)
StoredLabels(found, source) ==
    When("attachment inputs" \in found,
         {Shot("attachment card"), Api("attachments"), Marker("inputKind=attachment"), Marker(source)})

PhotoLabels(found) ==
    When("attachment UI test" \in found, {Shot("PhotosPicker"), Artifact("PhotosPicker")})
    \union StoredLabels(found, "attachment.photo")
    \union When("attachment inputs" \in found, {Marker("attachmentKind=image")})
    \union When({"attachment inputs", "expense follow-up"} \subseteq found, {Shot("expense card")})
    \union When({"attachment inputs", "expense follow-up", "expense record"} \subseteq found,
                {Api("expenses")})

FileLabels(found) ==
    When("attachment UI test" \in found, {Shot("fileImporter"), Artifact("Files")})
    \union StoredLabels(found, "attachment.file")

PdfLabels(found) ==
    When("attachment UI test" \in found, {Shot("PDF picker")})
    \union StoredLabels(found, "attachment.file")
    \union When("attachment inputs" \in found, {Artifact("PDF text")})
    \union When({"attachment inputs", "schedule follow-up"} \subseteq found, {Shot("follow-up")})

CalendarWriteLabels(found) ==
    When("calendar card" \in found, {Shot("calendar card")})
    \union When("calendar app" \in found,
                {Artifact("system calendar entry"), Marker("calendar.events.sync"),
                 Api("events"), Shot("calendar scheduled")})

\* faulty: the status the backend answered is not put down
CleanupWithoutStatus(found) ==
    When("cleanup" \in found,
         {Shot("cancel in the H5"), Artifact("system calendar entry gone"), Api("canceled"),
          Api("events"), Marker("calendar.events.sync")})

CleanupLabels(found) ==
    When("cleanup" \in found,
         {Shot("cancel in the H5"), Artifact("system calendar entry gone"), Api("canceled"),
          Api("events"), Marker("calendar.events.sync"), Marker("status=canceled")})

(* Paths of pages and summaries of requests are there whatever was found;  *)
(* direct_action_executed also contains action_executed.                   *)
BackendFactLabels(found) ==
    SurfaceShots \union {Api("events"), Api("reminders"), Api("expenses"), Api("ledger")}
    \union When("facts" \in found, {Marker("action_executed")})
    \union When(found \cap {"cleanup", "denial"} # {},
                {Marker("direct_action_executed"), Marker("action_executed")})

\* faulty: what is expected of the refusal is put down before it is seen
DegradationExpected(found) ==
    {Shot("refusal"), Shot("H5 status"), Shot("backend answer"), Api("events"),
     Api("reminders"), Marker("native.error"), Artifact("refusal")}

DegradationLabels(found) ==
    When("denial" \in found,
         {Shot("refusal"), Shot("H5 status"), Shot("backend answer"), Api("events"),
          Api("reminders"), Marker("native.error"), Artifact("refusal")})

Suggested(found) ==
    [h5_address_override |-> AddressLabels(found),
     conversation_persistence |-> PersistenceLabels(found),
     navigation_surfaces |-> NavigationLabels(found),
     keyboard_input |-> KeyboardLabels(found),
     voice_input |-> VoiceLabels(found),
     photo_attachment |-> PhotoLabels(found),
     file_attachment |-> FileLabels(found),
     pdf_text_extraction |-> PdfLabels(found),
     local_notification |-> NotificationLabels(found),
     notification_click_backflow |-> BackflowLabels(found),
     system_calendar_write |-> CalendarWriteLabels(found),
     system_calendar_cleanup |-> CleanupLabels(found),
     backend_fact_confirmation |-> BackendFactLabels(found),
     system_sync_degradation |-> DegradationLabels(found)]

(* The labels the review of this evidence still misses: all of its items   *)
(* are complete when there is none.                                        *)
StillMissing(found) ==
    LET suggested == Suggested(found) IN
    UNION {Required[item] \ suggested[item] : item \in Items}
=============================================================================
