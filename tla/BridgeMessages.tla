--------------------------- MODULE BridgeMessages ---------------------------
(***************************************************************************)
(* The messages of the bridge between the native shell and the page, as    *)
(* far as either side tells them apart.                                    *)
(***************************************************************************)

(* An event is a message of the bridge; the fields a message lacks are "". *)
Message == [type |-> "", inputKind |-> "", text |-> "", attachment |-> "",
            view |-> "", reminder |-> "", theme |-> "", received |-> "", source |-> ""]

TextOf(t) == [Message EXCEPT !.type = "native.inputSubmitted", !.text = t]
FileOf(a) == [Message EXCEPT !.type = "native.inputSubmitted", !.inputKind = "attachment",
                             !.attachment = a, !.text = a]
ViewOf(v) == [Message EXCEPT !.type = "native.viewChanged", !.view = v]
TapOf(r) == [ViewOf("reminders") EXCEPT !.reminder = r]
ThemeOf(t) == [Message EXCEPT !.type = "native.themeChanged", !.theme = t]
ErrorOf(s) == [Message EXCEPT !.type = "native.error", !.source = s]
AckOf(r) == [Message EXCEPT !.type = "native.ack", !.received = r]
HostContext == [Message EXCEPT !.type = "native.hostContext"]
=============================================================================
