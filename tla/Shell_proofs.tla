---------------------------- MODULE Shell_proofs -----------------------------
(***************************************************************************)
(* What is proved of the iOS shell. Events reach the page in the order the *)
(* shell sent them, for any events, any number of them, of messages and of *)
(* reloads: the numbers of what has been received, of what is on the wire  *)
(* and of what was dispatched last form one increasing line (Line);        *)
(* replies on the wire carry no number and are no part of it.              *)
(* Syncs of reminders lose no notification of those they were given alike, *)
(* however many overlap, and a sync that begins alone leaves none too many *)
(* (DeviceInv); and what the collector records of notifications is so.     *)
(***************************************************************************)
EXTENDS NativeBridge, NotificationEvidence, TLAPS

Messages == Contents \cup {HostContext} \cup {AckOf(r) : r \in Requests}

Typed ==
    /\ sent \in Seq(Contents)
    /\ slot \in 0..Len(sent) /\ dispatched \in 0..slot
    /\ wire \in Seq(Nat \X Messages)
    /\ received \in Seq(Nat)

Line ==
    /\ \A i, j \in DOMAIN wire : i < j /\ wire[j][1] # 0 => wire[i][1] < wire[j][1]
    /\ \A i \in DOMAIN wire : wire[i][1] <= dispatched
    /\ \A k \in DOMAIN received :
          /\ received[k] <= dispatched
          /\ \A i \in DOMAIN wire : wire[i][1] # 0 => received[k] < wire[i][1]

IInv == Typed /\ Line /\ InOrderOnce
-----------------------------------------------------------------------------
USE DEF shell, page

(* One reply or two. *)
LEMMA Replies ==
    ASSUME NEW a \in Messages, NEW b \in Messages
    PROVE  /\ << <<0, a>> >> \in Seq({0} \X Messages)
           /\ << <<0, a>>, <<0, b>> >> \in Seq({0} \X Messages)
OBVIOUS

(* Replies may be put on the wire at any time. *)
LEMMA RepliesKeepOrder ==
    ASSUME IInv, NEW replies \in Seq({0} \X Messages),
           wire' = wire \o replies, UNCHANGED <<sent, slot, dispatched, received>>
    PROVE  IInv'
<1>1. /\ wire' \in Seq(Nat \X Messages)
      /\ Len(wire') = Len(wire) + Len(replies)
      /\ \A i \in 1..Len(wire) : wire'[i] = wire[i]
      /\ \A i \in 1..Len(wire') : i > Len(wire) => wire'[i] = replies[i - Len(wire)]
  <2>1. wire \in Seq(Nat \X Messages)
    BY DEF IInv, Typed
  <2>2. replies \in Seq(Nat \X Messages)
    <3>1. replies \in [1..Len(replies) -> {0} \X Messages] /\ Len(replies) \in Nat
      OBVIOUS
    <3>2. {0} \X Messages \subseteq Nat \X Messages
      OBVIOUS
    <3>3. replies \in [1..Len(replies) -> Nat \X Messages]
      BY <3>1, <3>2
    <3> QED  BY <3>1, <3>3, SMTT(30)
  <2> HIDE DEF Messages
  <2> QED  BY <2>1, <2>2
<1>2. \A i \in 1..Len(replies) : replies[i][1] = 0
  OBVIOUS
<1>3. \A i \in DOMAIN wire' : wire'[i][1] # 0 => i \in DOMAIN wire /\ wire'[i] = wire[i]
  BY <1>1, <1>2 DEF IInv, Typed
<1>4. Typed'
  BY <1>1 DEF IInv, Typed
<1>5. \A i \in DOMAIN wire' : wire'[i][1] \in Nat
  BY <1>1
<1>6. ASSUME NEW i \in DOMAIN wire', NEW j \in DOMAIN wire', i < j, wire'[j][1] # 0
      PROVE  wire'[i][1] < wire'[j][1]
  <2>1. /\ i \in DOMAIN wire /\ wire'[i] = wire[i]
        /\ j \in DOMAIN wire /\ wire'[j] = wire[j]
    BY <1>1, <1>3, <1>6 DEF IInv, Typed
  <2> QED
    BY <1>6, <2>1 DEF IInv, Line
<1>7. \A i \in DOMAIN wire' : wire'[i][1] <= dispatched
  BY <1>3, <1>5 DEF IInv, Line, Typed
<1> QED
  BY <1>3, <1>4, <1>6, <1>7 DEF IInv, Line, InOrderOnce

(* An acknowledgement, and the host context before that of h5.ready. *)
LEMMA PostKeepsOrder ==
    ASSUME IInv, NEW r \in Requests, Post(r), UNCHANGED <<sent, slot, dispatched, received>>
    PROVE  IInv'
<1> DEFINE replies == IF r = "h5.ready" THEN << <<0, HostContext>>, <<0, AckOf(r)>> >>
                                        ELSE << <<0, AckOf(r)>> >>
<1>1. HostContext \in Messages /\ AckOf(r) \in Messages
  BY DEF Messages
<1>2. replies \in Seq({0} \X Messages)
  BY <1>1, Replies
<1>3. wire' = wire \o replies
  BY DEF Post
<1> QED
  BY <1>2, <1>3, RepliesKeepOrder

(* The event in the slot is dispatched when it is new: no other number is  *)
(* as high.                                                                *)
LEMMA UpdateKeepsOrder ==
    ASSUME IInv, UpdateView
    PROVE  IInv'
<1> USE DEF IInv, Typed, UpdateView, IsNew
<1>1. dispatched < slot /\ slot \in DOMAIN sent /\ sent[slot] \in Messages
  BY DEF Messages
<1>2. /\ wire' \in Seq(Nat \X Messages)
      /\ Len(wire') = Len(wire) + 1
      /\ \A i \in 1..Len(wire) : wire'[i] = wire[i]
      /\ wire'[Len(wire) + 1] = <<slot, sent[slot]>>
  BY <1>1
<1>3. Typed'
  BY <1>1, <1>2
<1>4. \A i \in DOMAIN wire : wire'[i][1] <= dispatched /\ wire[i][1] \in Nat
  BY <1>2 DEF Line
<1>5. \A i \in DOMAIN wire' : i \in DOMAIN wire \/ (i = Len(wire) + 1 /\ wire'[i][1] = slot)
  BY <1>2
<1>6. \A i, j \in DOMAIN wire' : i < j /\ wire'[j][1] # 0 => wire'[i][1] < wire'[j][1]
  BY <1>1, <1>2, <1>4, <1>5 DEF Line
<1>7. \A i \in DOMAIN wire' : wire'[i][1] <= slot
  BY <1>1, <1>4, <1>5
<1>8. \A k \in DOMAIN received :
          /\ received[k] <= slot
          /\ \A i \in DOMAIN wire' : wire'[i][1] # 0 => received[k] < wire'[i][1]
  BY <1>1, <1>2, <1>5 DEF Line
<1> QED
  BY <1>3, <1>6, <1>7, <1>8 DEF Line, InOrderOnce

(* The page takes the head of the wire, or nobody does. *)
LEMMA RunKeepsOrder ==
    ASSUME IInv, Run
    PROVE  IInv'
<1>1. /\ wire # <<>> /\ wire' = Tail(wire)
      /\ UNCHANGED <<sent, slot, dispatched>>
      /\ \/ received' = received
         \/ wire[1][1] # 0 /\ received' = Append(received, wire[1][1])
  BY DEF Run, IInv, Typed
<1>2. /\ wire' \in Seq(Nat \X Messages)
      /\ 1 \in DOMAIN wire /\ wire[1][1] \in Nat
      /\ \A i \in DOMAIN wire' :
            i \in Nat /\ i + 1 \in DOMAIN wire /\ i > 0 /\ wire'[i] = wire[i + 1]
  BY <1>1 DEF IInv, Typed
<1>3. /\ \A i, j \in DOMAIN wire' : i < j /\ wire'[j][1] # 0 => wire'[i][1] < wire'[j][1]
      /\ \A i \in DOMAIN wire' : wire'[i][1] <= dispatched
      /\ \A i \in DOMAIN wire' : wire'[i][1] # 0 =>
            /\ wire[1][1] < wire'[i][1]
            /\ \A k \in DOMAIN received : received[k] < wire'[i][1]
  <2>1. \A i, j \in DOMAIN wire : i < j /\ wire[j][1] # 0 => wire[i][1] < wire[j][1]
    BY DEF IInv, Line
  <2>2. \A i \in DOMAIN wire' : 1 < i + 1 /\ \A j \in DOMAIN wire' : i < j => i + 1 < j + 1
    BY <1>2
  <2> QED
    BY <1>2, <2>1, <2>2 DEF IInv, Line
<1>4. CASE received' = received
  BY <1>1, <1>2, <1>3, <1>4 DEF IInv, Typed, Line, InOrderOnce
<1>5. CASE wire[1][1] # 0 /\ received' = Append(received, wire[1][1])
  <2>1. /\ received' \in Seq(Nat)
        /\ \A k \in DOMAIN received' :
              \/ k \in DOMAIN received /\ received'[k] = received[k]
              \/ k = Len(received) + 1 /\ received'[k] = wire[1][1]
    BY <1>2, <1>5 DEF IInv, Typed
  <2>2. \A k \in DOMAIN received : k < Len(received) + 1 /\ received[k] < wire[1][1]
    BY <1>2, <1>5 DEF IInv, Typed, Line
  <2>3. InOrderOnce'
    <3> SUFFICES ASSUME NEW i \in DOMAIN received', NEW j \in DOMAIN received', i < j
                 PROVE  received'[i] < received'[j]
      BY DEF InOrderOnce
    <3>1. i \in DOMAIN received /\ received'[i] = received[i]
      <4>1. j <= Len(received) + 1
        BY <2>1, <2>2
      <4>2. i \in Nat /\ j \in Nat /\ Len(received) \in Nat
        BY <2>1 DEF IInv, Typed
      <4>3. i # Len(received) + 1
        BY <4>1, <4>2
      <4> QED
        BY <2>1, <4>3
    <3>2. CASE j \in DOMAIN received /\ received'[j] = received[j]
      BY <3>1, <3>2 DEF IInv, InOrderOnce
    <3>3. CASE received'[j] = wire[1][1]
      BY <2>2, <3>1, <3>3
    <3> QED
      BY <2>1, <3>2, <3>3
  <2>4. \A k \in DOMAIN received' : received'[k] <= dispatched
    BY <1>2, <2>1 DEF IInv, Line
  <2>5. \A k \in DOMAIN received', i \in DOMAIN wire' :
            wire'[i][1] # 0 => received'[k] < wire'[i][1]
    BY <1>3, <2>1
  <2>6. Typed'
    BY <1>1, <1>2, <2>1 DEF IInv, Typed
  <2> QED
    BY <1>1, <1>3, <2>3, <2>4, <2>5, <2>6 DEF IInv, Line
<1> QED
  BY <1>1, <1>4, <1>5

LEMMA AlwaysIInv == Spec => []IInv
<1>1. Init => IInv
  <2> SUFFICES ASSUME Init PROVE IInv
    OBVIOUS
  <2>1. sent = <<>> /\ slot = 0 /\ dispatched = 0 /\ wire = <<>> /\ received = <<>>
    BY DEF Init
  <2>2. Typed
    BY <2>1 DEF Typed
  <2>3. Line /\ InOrderOnce
    BY <2>1 DEF Line, InOrderOnce
  <2> QED
    BY <2>2, <2>3 DEF IInv
<1>2. IInv /\ [Next]_vars => IInv'
  <2> SUFFICES ASSUME IInv, [Next]_vars PROVE IInv'
    OBVIOUS
  <2>1. ASSUME UNCHANGED <<sent, slot, dispatched, wire, received>> PROVE IInv'
    BY <2>1 DEF IInv, Typed, Line, InOrderOnce
  <2>2. CASE UNCHANGED vars \/ ReloadPage \/ HandlerEnds
    BY <2>1, <2>2 DEF vars, ReloadPage, HandlerEnds
  <2>3. ASSUME NEW m \in Contents, Put(m) PROVE IInv'
    <3>1. /\ UNCHANGED <<dispatched, wire, received>>
          /\ sent' \in Seq(Contents) /\ Len(sent') = Len(sent) + 1 /\ slot' = Len(sent')
      BY <2>3 DEF Put, IInv, Typed
    <3>2. Typed'
      BY <3>1 DEF IInv, Typed
    <3> QED
      BY <3>1, <3>2 DEF IInv, Line, InOrderOnce
  <2>4. CASE UpdateView
    BY <2>4, UpdateKeepsOrder
  <2>5. CASE DidFinish
    <3>1. HostContext \in Messages
      BY DEF Messages
    <3>2. << <<0, HostContext>> >> \in Seq({0} \X Messages)
      BY <3>1, Replies
    <3>3. /\ wire' = wire \o << <<0, HostContext>> >>
          /\ UNCHANGED <<sent, slot, dispatched, received>>
      BY <2>5 DEF DidFinish
    <3> QED
      BY <3>2, <3>3, RepliesKeepOrder
  <2>6. CASE BridgeAction
    BY <2>6, PostKeepsOrder DEF BridgeAction
  <2>7. CASE Mount
    BY <2>7, PostKeepsOrder DEF Mount, Requests
  <2>8. CASE Run
    BY <2>8, RunKeepsOrder
  <2> QED
    BY <2>2, <2>3, <2>4, <2>5, <2>6, <2>7, <2>8 DEF Next
<1> QED
  BY <1>1, <1>2, PTL DEF Spec

-----------------------------------------------------------------------------
(* What the page takes from dispatchNativeEvent is in the order the shell  *)
(* sent it, and nothing is taken twice, over any number of reloads.        *)
THEOREM EventsInOrder == Spec => []InOrderOnce
<1>1. IInv => InOrderOnce
  BY DEF IInv
<1> QED
  BY <1>1, AlwaysIInv, PTL
-----------------------------------------------------------------------------
(* The notifications of reminders. *)

Syncs == [payload : Lists, stage : {"posted", "listed", "cleared", "added"},
          listed : SUBSET Reminders, newest : BOOLEAN]
Newest == [payload : Lists, ended : BOOLEAN, alone : BOOLEAN, failed : BOOLEAN]

DeviceTyped ==
    /\ status \in [Reminders -> {"none", "scheduled", "ended"}] /\ due \in [Reminders -> Times]
    /\ now \in Nat /\ running \in BOOLEAN
    /\ reads \in Seq(Lists) /\ syncs \in Seq(Syncs) /\ last \in Newest
    /\ pending \in Lists

(* What the center was asked to hold, and what it and the app tell. *)
Shown ==
    /\ In(pending) \subseteq seen /\ delivered \subseteq seen
    /\ diag.pending \subseteq seen /\ diag.delivered \subseteq delivered

(* The lists of pending requests come in the order of the syncs, and the   *)
(* sync of the newest payload is the last one.                             *)
InTurn ==
    /\ \A i, j \in DOMAIN syncs : i < j /\ syncs[i].stage = "posted" => syncs[j].stage = "posted"
    /\ \A k \in DOMAIN syncs : syncs[k].newest =>
          k = Len(syncs) /\ syncs[k].payload = last.payload

AskedFor ==
    /\ In(pending) \subseteq asked
    /\ \A i \in DOMAIN syncs : In(syncs[i].payload) \subseteq asked

(* Of a reminder that the syncs on their way were given alike, a sync      *)
(* removes only what it adds again: whoever comes later has it too.        *)
Alike ==
    \A r \in Reminders \ mixed, i \in DOMAIN syncs :
        /\ syncs[i].payload[r] \in {0, last.payload[r]}
        /\ r \in syncs[i].listed => syncs[i].payload[r] # 0
        /\ syncs[i].stage = "posted" /\ pending[r] # 0 => syncs[i].payload[r] # 0
        /\ \A h \in DOMAIN syncs :
              h < i /\ syncs[h].payload[r] # 0 => syncs[i].payload[r] # 0

(* The newest payload has been added. *)
Arrived == last.ended \/ \E k \in DOMAIN syncs : syncs[k].newest /\ syncs[k].stage = "added"
WillAdd(r) == \E k \in DOMAIN syncs : syncs[k].stage = "cleared" /\ syncs[k].payload[r] # 0

(* An older sync removes none of it, or will add it again. *)
Kept ==
    Arrived /\ ~ last.failed =>
        \A r \in Reminders \ mixed :
            last.payload[r] > now => pending[r] = last.payload[r] \/ WillAdd(r)

NoneTooMany == \A r \in In(pending) : pending[r] = last.payload[r]

(* A sync that began alone runs alone. *)
Alone ==
    last.alone /\ ~ last.failed =>
        \/ syncs = <<>> /\ NoneTooMany
        \/ /\ Len(syncs) = 1 /\ syncs[1].newest /\ syncs[1].stage # "posted"
           /\ syncs[1].stage = "listed" => In(pending) \subseteq syncs[1].listed
           /\ syncs[1].stage = "cleared" => In(pending) = {}
           /\ syncs[1].stage = "added" => NoneTooMany

DeviceInv == DeviceTyped /\ Shown /\ InTurn /\ AskedFor /\ Alike /\ Kept /\ Alone
-----------------------------------------------------------------------------
LEMMA OfAList ==
    ASSUME NEW list \in Lists
    PROVE  /\ In(list) \in SUBSET Reminders
           /\ \A r \in Reminders : list[r] \in Nat /\ (r \in In(list) <=> list[r] # 0)
           /\ Future(list) \subseteq In(list)
           /\ now \in Nat => \A r \in Reminders : r \in Future(list) <=> list[r] > now
<1>1. \A r \in Reminders : list[r] \in Nat
  <2>1. Times \cup {0} \subseteq Nat
    BY TimesAssumption
  <2> QED  BY <2>1 DEF Lists
<1>2. DOMAIN list = Reminders
  BY DEF Lists
<1> QED
  BY <1>1, <1>2 DEF In, Future

(* A sequence without one of its elements. *)
LEMMA Removal ==
    ASSUME NEW S, NEW s \in Seq(S), NEW k \in DOMAIN s
    PROVE  /\ RemoveAt(s, k) \in Seq(S)
           /\ Len(RemoveAt(s, k)) = Len(s) - 1
           /\ \A i \in 1..(Len(s) - 1) : RemoveAt(s, k)[i] = IF i < k THEN s[i] ELSE s[i + 1]
<1> DEFINE a == SubSeq(s, 1, k - 1)
           b == SubSeq(s, k + 1, Len(s))
<1>1. k \in 1..Len(s) /\ Len(s) \in Nat
  OBVIOUS
<1>2. a \in Seq(S) /\ Len(a) = k - 1 /\ \A i \in 1..(k - 1) : a[i] = s[i]
  BY <1>1
<1>3. b \in Seq(S) /\ Len(b) = Len(s) - k /\ \A i \in 1..(Len(s) - k) : b[i] = s[k + i]
  BY <1>1
<1>4. RemoveAt(s, k) = a \o b
  BY DEF RemoveAt
<1> HIDE DEF a, b
<1> QED
  BY <1>1, <1>2, <1>3, <1>4

(* The syncs that are left when one has ended, and where they were. *)
Was(i, k) == IF i < k THEN i ELSE i + 1

LEMMA Left ==
    ASSUME syncs \in Seq(Syncs), NEW k \in DOMAIN syncs, syncs' = RemoveAt(syncs, k)
    PROVE  /\ syncs' \in Seq(Syncs) /\ Len(syncs') = Len(syncs) - 1
           /\ \A i \in DOMAIN syncs' : Was(i, k) \in DOMAIN syncs /\ syncs'[i] = syncs[Was(i, k)]
           /\ \A i, j \in DOMAIN syncs' : i < j => Was(i, k) < Was(j, k)
           /\ \A j \in DOMAIN syncs : j # k => \E i \in DOMAIN syncs' : j = Was(i, k)
<1>1. k \in 1..Len(syncs) /\ Len(syncs) \in Nat
  OBVIOUS
<1>2. /\ syncs' \in Seq(Syncs) /\ Len(syncs') = Len(syncs) - 1
      /\ \A i \in 1..(Len(syncs) - 1) :
            syncs'[i] = IF i < k THEN syncs[i] ELSE syncs[i + 1]
  BY Removal
<1>3. DOMAIN syncs' = 1..(Len(syncs) - 1) /\ DOMAIN syncs = 1..Len(syncs)
  BY <1>2
<1>4. ASSUME NEW j \in DOMAIN syncs, j # k
      PROVE  \E i \in DOMAIN syncs' : j = Was(i, k)
  <2>1. CASE j < k
    BY <1>1, <1>3, <2>1 DEF Was
  <2>2. CASE j > k
    <3>1. j - 1 \in DOMAIN syncs' /\ Was(j - 1, k) = j
      BY <1>1, <1>3, <2>2 DEF Was
    <3> QED  BY <3>1
  <2> QED  BY <1>1, <1>3, <1>4, <2>1, <2>2
<1> QED
  BY <1>1, <1>2, <1>3, <1>4 DEF Was
-----------------------------------------------------------------------------
LEMMA OneSync ==
    ASSUME DeviceTyped, NEW k \in DOMAIN syncs
    PROVE  /\ syncs[k] \in Syncs
           /\ syncs[k].payload \in Lists /\ syncs[k].listed \in SUBSET Reminders
           /\ syncs[k].newest \in BOOLEAN
           /\ k \in 1..Len(syncs) /\ Len(syncs) \in Nat /\ DOMAIN syncs = 1..Len(syncs)
<1>1. syncs \in Seq(Syncs)
  BY DEF DeviceTyped
<1>2. syncs[k] \in Syncs
  BY <1>1
<1> QED
  BY <1>1, <1>2 DEF Syncs

LEMMA InitIsGood ==
    ASSUME InitDevice
    PROVE  DeviceInv
<1>1. Nothing \in Lists /\ In(Nothing) = {}
  BY DEF Nothing, Lists, In
<1>2. DOMAIN syncs = {} /\ syncs = <<>> /\ asked = {} /\ pending = Nothing
      /\ ~ last.ended /\ ~ last.alone
  BY DEF InitDevice
<1>3. DeviceTyped
  <2>1. syncs \in Seq(Syncs) /\ reads \in Seq(Lists)
    BY DEF InitDevice
  <2>2. last \in Newest
    BY <1>1 DEF InitDevice, Newest
  <2> QED  BY <1>1, <2>1, <2>2 DEF DeviceTyped, InitDevice
<1>4. Shown
  BY <1>1 DEF Shown, InitDevice, NoDiagnostics
<1> QED
  BY <1>1, <1>2, <1>3, <1>4 DEF DeviceInv, InTurn, AskedFor, Alike, Kept, Alone, Arrived

(* Time passes: what falls due is not to come any more. *)
LEMMA TickKeeps ==
    ASSUME DeviceInv, Tick
    PROVE  DeviceInv'
<1> USE DEF DeviceInv
<1> DEFINE rings == {r \in In(pending) : pending[r] <= now + 1}
<1>1. /\ UNCHANGED <<status, due, running, reads, syncs, last, asked, mixed, seen, diag>>
      /\ now' = now + 1 /\ now \in Nat /\ pending \in Lists
      /\ pending' = [r \in Reminders |-> IF r \in rings THEN 0 ELSE pending[r]]
      /\ delivered \subseteq delivered' /\ delivered' \subseteq delivered \cup rings
  BY DEF Tick, facts, DeviceTyped
<1>2. rings \subseteq In(pending) /\ In(pending) \subseteq Reminders
      /\ \A r \in Reminders : r \in rings => pending[r] <= now + 1
  BY <1>1, OfAList
<1> HIDE DEF rings
<1>3. pending' \in Lists
  BY <1>1, <1>2 DEF Lists
<1>4. In(pending') \subseteq In(pending)
      /\ \A r \in Reminders : pending'[r] = pending[r] \/ (pending'[r] = 0 /\ pending[r] <= now + 1)
  BY <1>1, <1>2, <1>3, OfAList
<1>5. DeviceTyped'
  BY <1>1, <1>3 DEF DeviceTyped
<1>6. Shown' /\ InTurn' /\ AskedFor' /\ Alike'
  BY <1>1, <1>2, <1>4 DEF Shown, InTurn, AskedFor, Alike
<1>7. Kept'
  <2> SUFFICES ASSUME Arrived', ~ last.failed, NEW r \in Reminders \ mixed, last.payload[r] > now + 1
               PROVE  pending'[r] = last.payload[r] \/ WillAdd(r)'
    BY <1>1 DEF Kept
  <2>1. last.payload \in Lists /\ last.payload[r] \in Nat
    BY OfAList DEF DeviceTyped, Newest
  <2>2. pending[r] = last.payload[r] \/ WillAdd(r)
    BY <1>1, <2>1 DEF Kept, Arrived
  <2> QED  BY <1>1, <1>4, <2>1, <2>2 DEF WillAdd
<1>8. Alone'
  <2>1. NoneTooMany => NoneTooMany'
    BY <1>1, <1>2, <1>4, <1>3, OfAList DEF NoneTooMany
  <2> QED  BY <1>1, <1>4, <2>1 DEF Alone
<1> QED
  BY <1>5, <1>6, <1>7, <1>8

(* The center knows nothing of what happens to the reminders. *)
LEMMA FactsChange ==
    ASSUME DeviceInv, UNCHANGED <<now, running, syncs, last, asked, mixed, pending, delivered,
                                  seen, diag>>,
           status' \in [Reminders -> {"none", "scheduled", "ended"}],
           due' \in [Reminders -> Times], reads' \in Seq(Lists)
    PROVE  DeviceInv'
BY DEF DeviceInv, DeviceTyped, Shown, InTurn, AskedFor, Alike, Kept, Arrived, WillAdd, Alone,
       NoneTooMany

LEMMA ReminderChanges ==
    ASSUME DeviceInv, NEW r \in Reminders,
           AddReminder(r) \/ EndReminder(r) \/ \E at \in Times : MoveReminder(r, at)
    PROVE  DeviceInv'
<1>1. UNCHANGED <<now, running, reads, syncs, last, asked, mixed, pending, delivered, seen, diag>>
  BY DEF AddReminder, EndReminder, MoveReminder, center
<1>2. /\ status' \in [Reminders -> {"none", "scheduled", "ended"}]
      /\ due' \in [Reminders -> Times] /\ reads' \in Seq(Lists)
  BY <1>1 DEF DeviceInv, DeviceTyped, AddReminder, EndReminder, MoveReminder
<1> QED
  BY <1>1, <1>2, FactsChange

LEMMA ReadKeepsDevice ==
    ASSUME DeviceInv, ReadReminders
    PROVE  DeviceInv'
<1> DEFINE list == [r \in Reminders |-> IF status[r] = "scheduled" THEN due[r] ELSE 0]
<1>1. /\ UNCHANGED <<status, due, now, running, syncs, last, asked, mixed, pending, delivered,
                     seen, diag>>
      /\ reads' = Append(reads, list)
  BY DEF ReadReminders, facts, center
<1>2. list \in Lists
  BY DEF DeviceInv, DeviceTyped, Lists
<1> HIDE DEF list
<1>3. reads' \in Seq(Lists)
  BY <1>1, <1>2 DEF DeviceInv, DeviceTyped
<1> QED
  BY <1>1, <1>3, FactsChange DEF DeviceInv, DeviceTyped

LEMMA Appended ==
    ASSUME NEW S, NEW s \in Seq(S), NEW e \in S
    PROVE  /\ Append(s, e) \in Seq(S) /\ Len(Append(s, e)) = Len(s) + 1
           /\ DOMAIN Append(s, e) = 1..(Len(s) + 1) /\ DOMAIN s = 1..Len(s) /\ Len(s) \in Nat
           /\ Append(s, e)[Len(s) + 1] = e
           /\ \A k \in 1..Len(s) : Append(s, e)[k] = s[k]
OBVIOUS

(* A new payload: who disagrees with it, or it with what was asked for     *)
(* before, is mixed.                                                       *)
LEMMA PostKeeps ==
    ASSUME DeviceInv, NEW p \in DOMAIN reads, PostReminders(p)
    PROVE  DeviceInv'
<1> USE DEF DeviceInv
<1> DEFINE list == reads[p]
           new == [payload |-> list, stage |-> "posted", listed |-> {}, newest |-> TRUE]
           old == [k \in DOMAIN syncs |-> [syncs[k] EXCEPT !.newest = FALSE]]
<1>1. /\ UNCHANGED <<status, due, now, running, pending, delivered, seen, diag>>
      /\ syncs' = Append(old, new) /\ reads' = RemoveAt(reads, p)
      /\ last' = [payload |-> list, ended |-> FALSE, alone |-> FALSE, failed |-> FALSE]
      /\ asked' = asked \cup In(list)
      /\ mixed' = Mix(list) \cup IF syncs = <<>> THEN {} ELSE mixed
  BY DEF PostReminders, facts, center
<1>2. list \in Lists /\ new \in Syncs /\ reads' \in Seq(Lists)
  <2>1. reads \in Seq(Lists)
    BY DEF DeviceTyped
  <2>2. list \in Lists /\ reads' \in Seq(Lists)
    BY <1>1, <2>1, Removal
  <2> HIDE DEF list
  <2> QED  BY <2>2 DEF Syncs
<1>3. old \in Seq(Syncs) /\ Len(old) = Len(syncs) /\ DOMAIN old = DOMAIN syncs
  <2>1. \A k \in DOMAIN syncs : [syncs[k] EXCEPT !.newest = FALSE] \in Syncs
    BY OneSync DEF Syncs
  <2>2. DOMAIN syncs = 1..Len(syncs) /\ Len(syncs) \in Nat
    BY DEF DeviceTyped
  <2>3. old \in [1..Len(syncs) -> Syncs]
    BY <2>1, <2>2
  <2> QED  BY <2>2, <2>3
<1>4. \A k \in DOMAIN syncs :
         /\ old[k].newest = FALSE /\ old[k].payload = syncs[k].payload
         /\ old[k].stage = syncs[k].stage /\ old[k].listed = syncs[k].listed
  <2>1. \A k \in DOMAIN syncs : syncs[k] \in Syncs
    BY OneSync
  <2> QED  BY <2>1 DEF Syncs
<1> DEFINE n == Len(syncs) + 1
<1>5. /\ syncs' \in Seq(Syncs) /\ Len(syncs') = n /\ n \in Nat
      /\ DOMAIN syncs' = 1..n /\ DOMAIN syncs = 1..(n - 1)
      /\ syncs'[n] = new /\ \A k \in 1..(n - 1) : syncs'[k] = old[k]
  <2>1. /\ Len(old) = Len(syncs) /\ DOMAIN syncs = DOMAIN old
        /\ old \in Seq(Syncs) /\ new \in Syncs /\ syncs' = Append(old, new)
    BY <1>1, <1>2, <1>3
  <2> HIDE DEF old, new
  <2>2. Len(syncs) + 1 - 1 = Len(syncs)
    BY <2>1, Appended
  <2> QED  BY <2>1, <2>2, Appended
<1>6. /\ n \in DOMAIN syncs' /\ DOMAIN syncs \subseteq DOMAIN syncs'
      /\ \A k \in DOMAIN syncs' : k # n => k \in DOMAIN syncs
      /\ \A k \in DOMAIN syncs : k < n /\ k # n /\ ~ (n < k)
      /\ \A k \in DOMAIN syncs :
            /\ syncs'[k].newest = FALSE /\ syncs'[k].payload = syncs[k].payload
            /\ syncs'[k].stage = syncs[k].stage /\ syncs'[k].listed = syncs[k].listed
      /\ syncs'[n].payload = list /\ syncs'[n].listed = {} /\ syncs'[n].stage = "posted"
      /\ syncs'[n].newest /\ ~ (n < n) /\ n = Len(syncs')
      /\ last'.payload = list /\ ~ last'.ended /\ ~ last'.alone
  BY <1>1, <1>4, <1>5
<1>7. DeviceTyped'
  BY <1>1, <1>2, <1>5 DEF DeviceTyped, Newest
<1>8. /\ \A r \in Reminders : (r \in In(list) <=> list[r] # 0)
      /\ \A r \in Reminders \ mixed' : r \in asked => list[r] # 0
      /\ \A r \in Reminders \ mixed', k \in DOMAIN syncs :
            syncs[k].payload[r] \in {0, list[r]} /\ r \notin mixed
  <2>1. \A r \in Reminders \ mixed' : r \notin Mix(list) /\ (syncs # <<>> => r \notin mixed)
    BY <1>1
  <2>2. \A k \in DOMAIN syncs : syncs # <<>>
    BY DEF DeviceTyped
  <2> QED
    BY <1>2, <2>1, <2>2, OfAList DEF Mix
<1>9. InTurn'
  BY <1>6 DEF InTurn
<1>10. AskedFor' /\ \A r \in Reminders, k \in DOMAIN syncs : syncs[k].payload[r] # 0 => r \in asked
  <2>1. \A r \in Reminders, k \in DOMAIN syncs : syncs[k].payload[r] # 0 => r \in asked
    BY OneSync, OfAList DEF AskedFor
  <2> HIDE DEF n, old, list
  <2>2. AskedFor'
    BY <1>1, <1>6 DEF AskedFor
  <2> QED  BY <2>1, <2>2
<1>11. Alike'
  <2> SUFFICES ASSUME NEW r \in Reminders \ mixed', NEW i \in DOMAIN syncs'
      PROVE  /\ syncs'[i].payload[r] \in {0, list[r]}
             /\ r \in syncs'[i].listed => syncs'[i].payload[r] # 0
             /\ syncs'[i].stage = "posted" /\ pending[r] # 0 => syncs'[i].payload[r] # 0
             /\ \A h \in DOMAIN syncs' :
                   h < i /\ syncs'[h].payload[r] # 0 => syncs'[i].payload[r] # 0
    BY <1>1, <1>6 DEF Alike
  <2>1. pending[r] # 0 => r \in asked
    BY OfAList DEF AskedFor, DeviceTyped
  <2> HIDE DEF n, old, list
  <2>2. CASE i = n
    BY <1>6, <1>8, <1>10, <2>1, <2>2
  <2>3. CASE i # n
    BY <1>6, <1>8, <2>3 DEF Alike
  <2> QED  BY <2>2, <2>3
<1>12. ~ Arrived'
  BY <1>6 DEF Arrived
<1> QED
  BY <1>1, <1>6, <1>7, <1>9, <1>10, <1>11, <1>12 DEF Shown, Kept, Alone

(* A sync moves on: what it lists, and where it is, is all that changes.   *)
LEMMA Moved ==
    ASSUME DeviceInv, NEW k \in DOMAIN syncs, NEW to \in {"listed", "cleared", "added"},
           NEW what \in SUBSET Reminders,
           syncs' = [syncs EXCEPT ![k] = [syncs[k] EXCEPT !.stage = to, !.listed = what]]
    PROVE  /\ syncs' \in Seq(Syncs) /\ DOMAIN syncs' = DOMAIN syncs /\ Len(syncs') = Len(syncs)
           /\ syncs'[k].stage = to /\ syncs'[k].listed = what
           /\ \A i \in DOMAIN syncs :
                 /\ i # k => syncs'[i] = syncs[i]
                 /\ syncs'[i].payload = syncs[i].payload /\ syncs'[i].newest = syncs[i].newest
<1>1. syncs \in Seq(Syncs) /\ syncs[k] \in Syncs
  BY DEF DeviceInv, DeviceTyped
<1>2. [syncs[k] EXCEPT !.stage = to, !.listed = what] \in Syncs
  BY <1>1 DEF Syncs
<1>3. /\ [syncs[k] EXCEPT !.stage = to, !.listed = what].stage = to
      /\ [syncs[k] EXCEPT !.stage = to, !.listed = what].listed = what
      /\ [syncs[k] EXCEPT !.stage = to, !.listed = what].payload = syncs[k].payload
      /\ [syncs[k] EXCEPT !.stage = to, !.listed = what].newest = syncs[k].newest
  BY <1>1 DEF Syncs
<1> DEFINE new == [syncs[k] EXCEPT !.stage = to, !.listed = what]
<1> HIDE DEF new
<1>4. /\ syncs' \in Seq(Syncs) /\ DOMAIN syncs' = DOMAIN syncs /\ Len(syncs') = Len(syncs)
      /\ syncs'[k] = new /\ \A i \in DOMAIN syncs : i # k => syncs'[i] = syncs[i]
  BY <1>1, <1>2 DEF new
<1>5. new.stage = to /\ new.listed = what /\ new.payload = syncs[k].payload
      /\ new.newest = syncs[k].newest
  BY <1>3 DEF new
<1> QED
  BY <1>4, <1>5

LEMMA SameListed ==
    ASSUME DeviceInv, NEW k \in DOMAIN syncs, NEW to \in {"cleared", "added"}, Move(k, to)
    PROVE  /\ syncs[k].listed \in SUBSET Reminders
           /\ syncs' = [syncs EXCEPT ![k] = [syncs[k] EXCEPT !.stage = to,
                                                             !.listed = syncs[k].listed]]
<1>1. syncs[k] \in Syncs
  BY DEF DeviceInv, DeviceTyped
<1>2. [syncs[k] EXCEPT !.stage = to] = [syncs[k] EXCEPT !.stage = to, !.listed = syncs[k].listed]
  BY <1>1 DEF Syncs
<1> QED
  BY <1>1, <1>2 DEF Move, Syncs

(* The lists come in order, so what is pending now was asked for before.   *)
LEMMA ListKeeps ==
    ASSUME DeviceInv, NEW k \in DOMAIN syncs, ListPending(k)
    PROVE  DeviceInv'
<1> USE DEF DeviceInv
<1>1. /\ UNCHANGED <<status, due, now, running, reads, asked, mixed, pending, delivered, seen, diag>>
      /\ last' = [last EXCEPT !.alone = syncs[k].newest /\ k = 1]
      /\ syncs[k].stage = "posted"
      /\ \A j \in 1..(k - 1) : syncs[j].stage # "posted"
      /\ In(pending) \in SUBSET Reminders
      /\ \A r \in Reminders : r \in In(pending) <=> pending[r] # 0
  BY OfAList DEF ListPending, Stage, DeviceTyped, facts, center
<1>2. syncs' = [syncs EXCEPT ![k] = [syncs[k] EXCEPT !.stage = "listed", !.listed = In(pending)]]
  BY DEF ListPending
<1>3. /\ syncs' \in Seq(Syncs) /\ DOMAIN syncs' = DOMAIN syncs /\ Len(syncs') = Len(syncs)
      /\ syncs'[k].stage = "listed" /\ syncs'[k].listed = In(pending)
      /\ \A i \in DOMAIN syncs :
            /\ i # k => syncs'[i] = syncs[i]
            /\ syncs'[i].payload = syncs[i].payload /\ syncs'[i].newest = syncs[i].newest
  BY <1>1, <1>2, Moved
<1>4. /\ DOMAIN syncs = 1..Len(syncs) /\ Len(syncs) \in Nat
      /\ syncs[k].newest \in BOOLEAN /\ last \in Newest
  BY OneSync DEF DeviceTyped
<1>5. /\ last' \in Newest
      /\ last'.payload = last.payload /\ last'.ended = last.ended /\ last'.failed = last.failed
      /\ last'.alone = (syncs[k].newest /\ k = 1)
  BY <1>1, <1>4 DEF Newest
<1>6. DeviceTyped'
  BY <1>1, <1>3, <1>5 DEF DeviceTyped
<1>7. Shown'
  BY <1>1 DEF Shown
<1>8. InTurn'
  BY <1>1, <1>3, <1>4, <1>5 DEF InTurn
<1>9. AskedFor'
  BY <1>1, <1>3 DEF AskedFor
<1>10. Alike'
  BY <1>1, <1>3, <1>5 DEF Alike
<1>11. Kept'
  BY <1>1, <1>3, <1>5 DEF Kept, Arrived, WillAdd
<1>12. Alone'
  BY <1>1, <1>3, <1>4, <1>5 DEF Alone, InTurn
<1> QED
  BY <1>6, <1>7, <1>8, <1>9, <1>10, <1>11, <1>12

(* What an older sync removes of the newest payload it will add again.     *)
LEMMA RemoveKeeps ==
    ASSUME DeviceInv, NEW k \in DOMAIN syncs, RemoveListed(k)
    PROVE  DeviceInv'
<1> USE DEF DeviceInv
<1>1. /\ UNCHANGED <<status, due, now, running, reads, last, asked, mixed, delivered, seen, diag>>
      /\ pending' = [r \in Reminders |-> IF r \in syncs[k].listed THEN 0 ELSE pending[r]]
      /\ syncs[k].stage = "listed" /\ Move(k, "cleared")
  BY DEF RemoveListed, Stage, facts
<1>2. /\ syncs' \in Seq(Syncs) /\ DOMAIN syncs' = DOMAIN syncs /\ Len(syncs') = Len(syncs)
      /\ syncs'[k].stage = "cleared" /\ syncs'[k].listed = syncs[k].listed
      /\ \A i \in DOMAIN syncs :
            /\ i # k => syncs'[i] = syncs[i]
            /\ syncs'[i].payload = syncs[i].payload /\ syncs'[i].newest = syncs[i].newest
  BY <1>1, SameListed, Moved
<1>3. pending \in Lists /\ pending' \in Lists
  BY <1>1 DEF DeviceTyped, Lists
<1>4. /\ In(pending') \subseteq In(pending) /\ In(pending) \subseteq Reminders
      /\ \A r \in In(pending') : r \notin syncs[k].listed /\ pending'[r] = pending[r]
      /\ \A r \in Reminders : pending'[r] # 0 => pending'[r] = pending[r]
      /\ \A r \in Reminders : r \notin syncs[k].listed => pending'[r] = pending[r]
  BY <1>1, <1>3, OfAList
<1>5. DeviceTyped' /\ Shown'
  BY <1>1, <1>2, <1>3, <1>4 DEF DeviceTyped, Shown
<1>6. InTurn' /\ AskedFor'
  BY <1>1, <1>2, <1>4 DEF InTurn, AskedFor
<1>7. Alike'
  BY <1>1, <1>2, <1>4 DEF Alike
<1>8. Kept'
  <2> SUFFICES ASSUME Arrived', ~ last.failed, NEW r \in Reminders \ mixed, last.payload[r] > now
               PROVE  pending'[r] = last.payload[r] \/ WillAdd(r)'
    BY <1>1 DEF Kept
  <2>1. Arrived
    BY <1>1, <1>2 DEF Arrived
  <2>2. CASE r \in syncs[k].listed
    <3>1. syncs[k].payload[r] # 0
      BY <2>2 DEF Alike
    <3> QED  BY <1>2, <3>1 DEF WillAdd
  <2>3. CASE r \notin syncs[k].listed
    BY <1>1, <1>2, <1>4, <2>1, <2>3 DEF Kept, WillAdd
  <2> QED  BY <2>2, <2>3
<1>9. Alone'
  <2>1. Len(syncs) = 1 => k = 1
    BY DEF DeviceTyped
  <2>2. syncs # <<>> /\ syncs' # <<>>
    BY <1>2 DEF DeviceTyped
  <2>3. In(pending) \subseteq syncs[k].listed => In(pending') = {}
    BY <1>4
  <2> QED  BY <1>1, <1>2, <2>1, <2>2, <2>3 DEF Alone
<1> QED
  BY <1>5, <1>6, <1>7, <1>8, <1>9

(* What is added of a payload *)
LEMMA Added ==
    ASSUME DeviceInv, NEW k \in DOMAIN syncs, NEW which \in SUBSET Future(syncs[k].payload),
           Add(syncs[k].payload, which)
    PROVE  /\ pending' \in Lists /\ seen' = seen \cup which
           /\ which \subseteq In(syncs[k].payload)
           /\ In(pending') = In(pending) \cup which /\ In(pending') \subseteq Reminders
           /\ \A r \in which : pending'[r] = syncs[k].payload[r]
           /\ \A r \in Reminders \ which : pending'[r] = pending[r]
<1> DEFINE list == syncs[k].payload
<1>1. list \in Lists /\ pending \in Lists
  BY OneSync DEF DeviceInv, DeviceTyped
<1>2. pending' = [r \in Reminders |-> IF r \in which THEN list[r] ELSE pending[r]]
      /\ seen' = seen \cup which
  BY DEF Add
<1>3. pending' \in Lists
  BY <1>1, <1>2 DEF Lists
<1> HIDE DEF list
<1>4. which \subseteq In(list) /\ In(list) \subseteq Reminders
      /\ \A r \in Reminders : r \in In(list) <=> list[r] # 0
  <2>1. which \subseteq Future(list)
    BY DEF list
  <2> QED  BY <1>1, <2>1, OfAList
<1>5. /\ In(pending) \subseteq Reminders /\ In(pending') \subseteq Reminders
      /\ \A r \in Reminders : (r \in In(pending) <=> pending[r] # 0)
                           /\ (r \in In(pending') <=> pending'[r] # 0)
  BY <1>1, <1>3, OfAList
<1>6. (\A r \in which : pending'[r] = list[r]) /\ \A r \in Reminders \ which : pending'[r] = pending[r]
  BY <1>2, <1>4
<1>7. In(pending') = In(pending) \cup which
  BY <1>4, <1>5, <1>6
<1> QED
  BY <1>2, <1>3, <1>4, <1>5, <1>6, <1>7 DEF list

(* What a sync adds was asked for by every sync that has not listed yet.   *)
LEMMA AddKeeps ==
    ASSUME DeviceInv, NEW k \in DOMAIN syncs, AddRequests(k)
    PROVE  DeviceInv'
<1> USE DEF DeviceInv
<1> DEFINE list == syncs[k].payload
           which == Future(list)
<1>1. /\ UNCHANGED <<status, due, now, running, reads, last, asked, mixed, delivered, diag>>
      /\ Add(list, which)
      /\ syncs[k].stage = "cleared" /\ Move(k, "added")
  BY DEF AddRequests, Stage, facts
<1>2. /\ syncs' \in Seq(Syncs) /\ DOMAIN syncs' = DOMAIN syncs /\ Len(syncs') = Len(syncs)
      /\ syncs'[k].stage = "added" /\ syncs'[k].listed = syncs[k].listed
      /\ \A i \in DOMAIN syncs :
            /\ i # k => syncs'[i] = syncs[i]
            /\ syncs'[i].payload = syncs[i].payload /\ syncs'[i].newest = syncs[i].newest
  BY <1>1, SameListed, Moved
<1>3. list \in Lists /\ now \in Nat /\ k \in 1..Len(syncs)
      /\ DOMAIN syncs = 1..Len(syncs) /\ Len(syncs) \in Nat
  BY OneSync DEF DeviceTyped
<1>4. /\ pending' \in Lists /\ seen' = seen \cup which /\ which \subseteq In(list)
      /\ In(pending') = In(pending) \cup which /\ In(pending') \subseteq Reminders
      /\ \A r \in which : pending'[r] = list[r]
      /\ \A r \in Reminders \ which : pending'[r] = pending[r]
  BY <1>1, Added
<1>5. \A r \in Reminders : (r \in which <=> list[r] > now) /\ list[r] \in Nat
      /\ (r \in In(list) <=> list[r] # 0)
  BY <1>3, OfAList
<1> HIDE DEF which
<1>6. DeviceTyped' /\ Shown'
  BY <1>1, <1>2, <1>4 DEF DeviceTyped, Shown
<1>7. InTurn'
  BY <1>1, <1>2 DEF InTurn
<1>8. AskedFor'
  BY <1>1, <1>2, <1>4 DEF AskedFor
<1>9. Alike'
  <2>1. \A i \in DOMAIN syncs : syncs[i].stage = "posted" => k < i
    BY <1>1, <1>3 DEF InTurn
  <2>2. \A r \in Reminders : pending'[r] = pending[r] \/ list[r] # 0
    BY <1>3, <1>4, <1>5
  <2>3. \A r \in Reminders \ mixed, i \in DOMAIN syncs :
           syncs[i].stage = "posted" /\ pending'[r] # 0 => syncs[i].payload[r] # 0
    BY <2>1, <2>2 DEF Alike
  <2> QED  BY <1>1, <1>2, <2>3 DEF Alike
<1>10. Kept'
  <2> SUFFICES ASSUME Arrived', ~ last.failed, NEW r \in Reminders \ mixed, last.payload[r] > now
               PROVE  pending'[r] = last.payload[r] \/ WillAdd(r)'
    BY <1>1 DEF Kept
  <2>1. list[r] \in {0, last.payload[r]}
    BY DEF Alike
  <2>2. CASE list[r] = last.payload[r]
    BY <1>4, <1>5, <2>2
  <2>3. CASE list[r] # last.payload[r]
    <3>1. list[r] = 0 /\ ~ syncs[k].newest
      BY <2>1, <2>3 DEF InTurn
    <3>2. Arrived
      BY <1>1, <1>2, <3>1 DEF Arrived
    <3>3. r \notin which
      BY <1>3, <1>5, <3>1
    <3>4. pending[r] = last.payload[r] \/ WillAdd(r)
      BY <3>2 DEF Kept
    <3>5. WillAdd(r) => WillAdd(r)'
      BY <1>2, <3>1 DEF WillAdd
    <3> QED  BY <1>4, <3>3, <3>4, <3>5
  <2> QED  BY <2>2, <2>3
<1>11. Alone'
  <2>1. Len(syncs) = 1 => k = 1
    BY <1>3
  <2>2. syncs # <<>> /\ syncs' # <<>>
    BY <1>2, <1>3
  <2>3. In(pending) = {} /\ syncs[k].newest => NoneTooMany'
    BY <1>1, <1>4 DEF NoneTooMany, InTurn
  <2> QED  BY <1>1, <1>2, <2>1, <2>2, <2>3 DEF Alone
<1> QED
  BY <1>6, <1>7, <1>8, <1>9, <1>10, <1>11

LEMMA FewerInTurn ==
    ASSUME DeviceTyped, InTurn, NEW k \in DOMAIN syncs, syncs' = RemoveAt(syncs, k),
           last'.payload = last.payload
    PROVE  InTurn'
<1>1. /\ syncs' \in Seq(Syncs) /\ Len(syncs') = Len(syncs) - 1
      /\ \A i \in DOMAIN syncs' : Was(i, k) \in DOMAIN syncs /\ syncs'[i] = syncs[Was(i, k)]
      /\ \A i, j \in DOMAIN syncs' : i < j => Was(i, k) < Was(j, k)
  BY Left DEF DeviceTyped
<1>2. k \in 1..Len(syncs) /\ Len(syncs) \in Nat /\ DOMAIN syncs' = 1..(Len(syncs) - 1)
  BY <1>1, OneSync
<1>3. ASSUME NEW i \in DOMAIN syncs', syncs'[i].newest
      PROVE  i = Len(syncs') /\ syncs'[i].payload = last'.payload
  <2>1. Was(i, k) = Len(syncs) /\ syncs[Was(i, k)].payload = last.payload
    BY <1>1, <1>3 DEF InTurn
  <2> QED  BY <1>1, <1>2, <2>1 DEF Was
<1>4. ASSUME NEW i \in DOMAIN syncs', NEW j \in DOMAIN syncs', i < j, syncs'[i].stage = "posted"
      PROVE  syncs'[j].stage = "posted"
  BY <1>1, <1>4 DEF InTurn
<1> QED
  BY <1>3, <1>4 DEF InTurn

(* A sync that is over waits for nothing any more.                         *)
LEMMA ReportKeeps ==
    ASSUME DeviceInv, NEW k \in DOMAIN syncs, Report(k)
    PROVE  DeviceInv'
<1> USE DEF DeviceInv
<1>1. /\ UNCHANGED <<status, due, now, running, reads, asked, mixed, pending, delivered, seen>>
      /\ syncs[k].stage = "added" /\ syncs' = RemoveAt(syncs, k)
      /\ last' = [last EXCEPT !.ended = @ \/ syncs[k].newest]
      /\ diag' = [pending |-> In(pending), delivered |-> delivered]
  BY DEF Report, Stage, facts
<1>2. /\ syncs' \in Seq(Syncs) /\ Len(syncs') = Len(syncs) - 1
      /\ \A i \in DOMAIN syncs' : Was(i, k) \in DOMAIN syncs /\ syncs'[i] = syncs[Was(i, k)]
      /\ \A i, j \in DOMAIN syncs' : i < j => Was(i, k) < Was(j, k)
      /\ \A j \in DOMAIN syncs : j # k => \E i \in DOMAIN syncs' : j = Was(i, k)
  BY <1>1, Left DEF DeviceTyped
<1>3. /\ last' \in Newest
      /\ last'.payload = last.payload /\ last'.ended = (last.ended \/ syncs[k].newest)
      /\ last'.failed = last.failed /\ last'.alone = last.alone
  BY <1>1, OneSync DEF DeviceTyped, Newest
<1>4. DeviceTyped' /\ Shown'
  BY <1>1, <1>2, <1>3 DEF DeviceTyped, Shown
<1>5. InTurn'
  BY <1>1, <1>2, <1>3, FewerInTurn
<1>6. AskedFor' /\ Alike'
  BY <1>1, <1>2, <1>3 DEF AskedFor, Alike
<1>7. Kept'
  <2> SUFFICES ASSUME Arrived', ~ last.failed, NEW r \in Reminders \ mixed, last.payload[r] > now
               PROVE  pending[r] = last.payload[r] \/ WillAdd(r)'
    BY <1>1, <1>3 DEF Kept
  <2>1. Arrived
    BY <1>1, <1>2, <1>3 DEF Arrived
  <2>2. WillAdd(r) => WillAdd(r)'
    BY <1>1, <1>2 DEF WillAdd
  <2> QED  BY <2>1, <2>2 DEF Kept
<1>8. Alone'
  <2>1. SUFFICES ASSUME last.alone, ~ last.failed
                 PROVE  syncs' = <<>> /\ NoneTooMany'
    BY <1>3 DEF Alone
  <2>2. syncs # <<>> /\ k \in 1..Len(syncs)
    BY OneSync
  <2>3. Len(syncs) = 1 /\ k = 1 /\ NoneTooMany
    BY <1>1, <2>1, <2>2 DEF Alone
  <2> QED  BY <1>1, <1>2, <1>3, <2>3 DEF NoneTooMany
<1> QED
  BY <1>4, <1>5, <1>6, <1>7, <1>8

LEMMA RefusedKeeps ==
    ASSUME DeviceInv, NEW k \in DOMAIN syncs, Refused(k)
    PROVE  DeviceInv'
<1> USE DEF DeviceInv
<1>1. /\ UNCHANGED <<status, due, now, running, reads, asked, mixed, delivered>>
      /\ syncs[k].stage = "cleared" /\ syncs' = RemoveAt(syncs, k)
      /\ last' = [last EXCEPT !.failed = TRUE]
      /\ diag' = [pending |-> In(pending'), delivered |-> delivered]
  BY DEF Refused, Stage, facts
<1>2. PICK added \in SUBSET Future(syncs[k].payload) : Add(syncs[k].payload, added)
  BY DEF Refused
<1>3. /\ syncs' \in Seq(Syncs) /\ Len(syncs') = Len(syncs) - 1
      /\ \A i \in DOMAIN syncs' : Was(i, k) \in DOMAIN syncs /\ syncs'[i] = syncs[Was(i, k)]
      /\ \A i, j \in DOMAIN syncs' : i < j => Was(i, k) < Was(j, k)
  BY <1>1, Left DEF DeviceTyped
<1>4. last' \in Newest /\ last'.payload = last.payload /\ last'.failed
  BY <1>1 DEF DeviceTyped, Newest
<1>5. /\ pending' \in Lists /\ seen' = seen \cup added /\ added \subseteq In(syncs[k].payload)
      /\ In(pending') = In(pending) \cup added /\ In(pending') \subseteq Reminders
      /\ \A r \in Reminders \ added : pending'[r] = pending[r]
      /\ \A r \in Reminders : r \in In(syncs[k].payload) <=> syncs[k].payload[r] # 0
  BY <1>2, Added, OneSync, OfAList
<1>6. DeviceTyped' /\ Shown'
  BY <1>1, <1>3, <1>4, <1>5 DEF DeviceTyped, Shown
<1>7. InTurn'
  BY <1>1, <1>4, FewerInTurn
<1>8. AskedFor'
  BY <1>1, <1>3, <1>5 DEF AskedFor
<1>9. Alike'
  <2>1. \A i \in DOMAIN syncs : syncs[i].stage = "posted" => k < i
    BY <1>1, OneSync DEF InTurn
  <2>2. \A r \in Reminders : pending'[r] = pending[r] \/ syncs[k].payload[r] # 0
    BY <1>5
  <2>3. \A r \in Reminders \ mixed, i \in DOMAIN syncs :
           syncs[i].stage = "posted" /\ pending'[r] # 0 => syncs[i].payload[r] # 0
    BY <2>1, <2>2 DEF Alike
  <2> QED  BY <1>1, <1>3, <1>4, <2>3 DEF Alike
<1> QED
  BY <1>4, <1>6, <1>7, <1>8, <1>9 DEF Kept, Alone

(* The process ends: what it was about to do is lost, and known to be.     *)
LEMMA InterruptKeeps ==
    ASSUME DeviceInv, Interrupt, running' \in BOOLEAN,
           UNCHANGED <<status, due, now, asked, mixed, pending, delivered, seen, diag>>
    PROVE  DeviceInv'
<1> USE DEF DeviceInv
<1>1. syncs' = <<>> /\ DOMAIN syncs' = {} /\ syncs' \in Seq(Syncs) /\ reads' \in Seq(Lists)
  BY DEF Interrupt
<1>2. /\ last' \in Newest
      /\ last'.payload = last.payload /\ last'.ended = last.ended /\ last'.alone = last.alone
      /\ last'.failed = (last.failed \/ syncs # <<>>)
  BY DEF Interrupt, DeviceTyped, Newest
<1>3. DeviceTyped' /\ Shown' /\ InTurn' /\ AskedFor' /\ Alike'
  BY <1>1, <1>2 DEF DeviceTyped, Shown, InTurn, AskedFor, Alike
<1>4. Kept' /\ Alone'
  BY <1>1, <1>2 DEF Kept, Arrived, WillAdd, Alone, NoneTooMany
<1> QED
  BY <1>3, <1>4

LEMMA DeviceStepKeeps ==
    ASSUME DeviceInv, DeviceStep
    PROVE  DeviceInv'
BY TickKeeps, ReadKeepsDevice, PostKeeps, ListKeeps, RemoveKeeps, AddKeeps, ReportKeeps,
   RefusedKeeps
   DEF DeviceStep, Callback

LEMMA UseKeeps ==
    ASSUME DeviceInv, [Use]_device
    PROVE  DeviceInv'
<1>1. CASE \E r \in Reminders : \/ AddReminder(r) \/ EndReminder(r)
                                \/ \E at \in Times : MoveReminder(r, at)
  BY <1>1, ReminderChanges
<1>2. CASE StopOrLaunch
  BY <1>2, InterruptKeeps DEF StopOrLaunch, Stop, Launch, facts, center
<1>3. CASE DeviceStep
  BY <1>3, DeviceStepKeeps
<1>4. CASE UNCHANGED device
  BY <1>4, FactsChange DEF device, facts, center, DeviceInv, DeviceTyped
<1> QED
  BY <1>1, <1>2, <1>3, <1>4 DEF Use

(* In the hands of a user, and of the system, that start and stop the app  *)
(* at any time.                                                            *)
LEMMA DeviceStaysGood == DeviceSpec => []DeviceInv
<1>1. InitDevice => DeviceInv
  BY InitIsGood
<1>2. DeviceInv /\ [Use]_device => DeviceInv'
  BY UseKeeps
<1> QED
  BY <1>1, <1>2, PTL DEF DeviceSpec

LEMMA NoneIsLost == ASSUME DeviceInv PROVE NothingLost
<1>1. last.payload \in Lists /\ now \in Nat
  BY DEF DeviceInv, DeviceTyped, Newest
<1>2. \A r \in Future(last.payload) : r \in Reminders /\ last.payload[r] > now
  BY <1>1, OfAList
<1> QED
  BY <1>1, <1>2 DEF DeviceInv, Kept, Arrived, WillAdd, NothingLost, Quiet

(* NothingLost: after the newest sync of the reminders, if none failed     *)
(* since, each reminder of its list still to come has its notification for *)
(* that time, unless syncs on their way with it were not given it alike -  *)
(* for any number of syncs whose callbacks come in any order, of lists     *)
(* posted in any order, while reminders are ended and moved.               *)
THEOREM SyncsLoseNothing == DeviceSpec => []NothingLost
<1>1. DeviceInv => NothingLost
  BY NoneIsLost
<1> QED
  BY <1>1, DeviceStaysGood, PTL

(* NoGhost: when that sync began alone no other reminder has one, and none *)
(* for another time: one that was completed or canceled does not ring.     *)
THEOREM LoneSyncsLeaveNoGhost == DeviceSpec => []NoGhost
<1>1. DeviceInv => NoGhost
  BY DEF DeviceInv, Alone, NoGhost, Quiet, NoneTooMany
<1> QED
  BY <1>1, DeviceStaysGood, PTL

-----------------------------------------------------------------------------
(* What the collector records of notifications. *)

PendingKnown == {"readClicked", "refreshClicked", "openClicked"}
DeliveredKnown == {"readDelivered", "refreshDelivered", "terminate"}

(* What it has found so far was pending, or delivered, at some time.       *)
Grounded ==
    /\ found /\ pc \in PendingKnown => Clicked \in seen
    /\ found /\ pc \in DeliveredKnown => Delivered \in seen
    /\ delivery.pendingSeen => Delivered \in seen

Deliveries == [available : BOOLEAN, pendingSeen : BOOLEAN, dueAt : Times \cup {0}]

CollectorTyped == found \in BOOLEAN /\ backflow \in BOOLEAN
                  /\ delivery \in Deliveries

(* The reminders of the run are not there before it creates them.          *)
NotYet ==
    /\ pc = "seedClicked" => status[Clicked] = "none"
    /\ pc \in {"seedClicked", "seedDelivered"} \cup PendingKnown => status[Delivered] = "none"

NotificationInv == DeviceInv /\ CollectorTyped /\ Grounded /\ NotYet /\ EvidenceIsTrue

(* The device remembers: what was shown stays in the list of what was.     *)
Remembers == seen \subseteq seen' /\ delivered \subseteq delivered'

LEMMA DeviceRemembers ==
    ASSUME DeviceInv, DeviceStep
    PROVE  Remembers /\ UNCHANGED status
<1>1. CASE Tick
  BY <1>1 DEF Tick, facts, Remembers
<1>2. CASE ReadReminders
  BY <1>2 DEF ReadReminders, facts, center, Remembers
<1>3. CASE \E p \in DOMAIN reads : PostReminders(p)
  BY <1>3 DEF PostReminders, facts, center, Remembers
<1>4. CASE Callback
  BY <1>4 DEF Callback, ListPending, RemoveListed, AddRequests, Report, Refused, Add, facts,
              center, Remembers
<1> QED
  BY <1>1, <1>2, <1>3, <1>4 DEF DeviceStep

(* A step of others leaves what the collector knows.                       *)
LEMMA OthersKeep ==
    ASSUME NotificationInv, Remembers, DeviceInv', UNCHANGED collector,
           \A r \in Own : status[r] = "none" => status'[r] = "none"
    PROVE  NotificationInv'
BY DEF NotificationInv, Remembers, collector, CollectorTyped, Grounded, NotYet, Own,
       EvidenceIsTrue, BackflowProvesPending, DeliveryProvesDelivered

LEMMA SeedKeeps ==
    ASSUME NotificationInv, SeedClicked \/ SeedDelivered
    PROVE  NotificationInv'
<1> USE DEF NotificationInv
<1> DEFINE r == IF pc = "seedClicked" THEN Clicked ELSE Delivered
<1>1. /\ UNCHANGED <<due, now, running, reads, syncs, last, asked, mixed, pending, delivered,
                     seen, diag, backflow>>
      /\ delivery' = delivery \/ delivery' = [delivery EXCEPT !.dueAt = due[Delivered]]
      /\ found' = FALSE
      /\ status' = [status EXCEPT ![r] = "scheduled"] \/ status' = status
      /\ pc = "seedClicked" => pc' \in {"refreshClicked", "seedDelivered", "died"}
      /\ pc # "seedClicked" => pc = "seedDelivered" /\ pc' \in {"refreshDelivered", "done", "died"}
  BY DEF SeedClicked, SeedDelivered, SeedReminder, Goto, center
<1>2. status[r] = "none" /\ r \in Reminders /\ Delivered \in Reminders /\ Clicked # Delivered
  BY <1>1, OwnAssumption DEF NotYet, Own
<1>3. DeviceInv'
  <2>1. CASE status' = [status EXCEPT ![r] = "scheduled"]
    <3>1. AddReminder(r)
      BY <1>1, <1>2, <2>1 DEF AddReminder, center
    <3> HIDE DEF r
    <3> QED  BY <1>2, <3>1, ReminderChanges
  <2>2. CASE status' = status
    BY <1>1, <2>2, UseKeeps DEF device, facts, center
  <2> QED  BY <1>1, <2>1, <2>2
<1>4. /\ delivery' \in Deliveries /\ delivery'.available = delivery.available
      /\ delivery'.pendingSeen = delivery.pendingSeen
  BY <1>1, <1>2 DEF CollectorTyped, Deliveries, DeviceInv, DeviceTyped
<1>5. CollectorTyped' /\ Grounded' /\ EvidenceIsTrue'
  BY <1>1, <1>4 DEF CollectorTyped, Grounded, EvidenceIsTrue, BackflowProvesPending,
              DeliveryProvesDelivered
<1>6. NotYet'
  BY <1>1, <1>2 DEF NotYet, DeviceInv, DeviceTyped, PendingKnown
<1> QED
  BY <1>3, <1>5, <1>6

LEMMA RelaunchKeeps ==
    ASSUME NotificationInv,
           RefreshClicked \/ RefreshDelivered \/ TerminateApp \/ LaunchWhenDue
    PROVE  NotificationInv'
<1> USE DEF NotificationInv
<1>1. /\ UNCHANGED <<status, due, now, asked, mixed, pending, delivered, seen, diag, backflow>>
      /\ Interrupt /\ running' \in BOOLEAN
      /\ \/ pc = "refreshClicked" /\ pc' = "readClicked" /\ UNCHANGED <<found, delivery>>
         \/ pc = "refreshDelivered" /\ pc' = "readDelivered" /\ UNCHANGED <<found, delivery>>
         \/ /\ pc = "terminate" /\ pc' = "wait" /\ found' = FALSE
            /\ delivery' = [delivery EXCEPT !.pendingSeen = found]
         \/ pc = "wait" /\ pc' = "poll" /\ UNCHANGED <<found, delivery>>
  BY DEF RefreshClicked, RefreshDelivered, Refresh, TerminateApp, LaunchWhenDue, Goto, Stop, Launch,
         facts, center
<1>2. DeviceInv'
  BY <1>1, InterruptKeeps
<1>3. /\ CollectorTyped' /\ delivery'.available = delivery.available
      /\ delivery'.pendingSeen => Delivered \in seen
  BY <1>1 DEF CollectorTyped, Deliveries, Grounded, DeliveredKnown
<1>4. Grounded' /\ EvidenceIsTrue' /\ NotYet'
  BY <1>1, <1>3 DEF Grounded, EvidenceIsTrue, BackflowProvesPending, DeliveryProvesDelivered,
                    NotYet, PendingKnown, DeliveredKnown
<1> QED
  BY <1>2, <1>3, <1>4

LEMMA ReadKeeps ==
    ASSUME NotificationInv, ReadClicked \/ ReadDelivered \/ OpenClicked \/ PollDelivered
    PROVE  NotificationInv'
<1> USE DEF NotificationInv
<1>1. UNCHANGED device
  BY DEF ReadClicked, ReadDelivered, LookForPending, OpenClicked, PollDelivered
<1>2. DeviceInv' /\ UNCHANGED <<seen, delivered, status>>
  BY <1>1, UseKeeps DEF device, facts, center
<1>3. \A d \in Reads : d.pending \subseteq seen /\ d.delivered \subseteq delivered
  BY DEF Reads, NoDiagnostics, DeviceInv, Shown
<1>4. CASE ReadClicked
  <2>1. /\ UNCHANGED <<backflow, delivery>> /\ pc' \in {"refreshClicked", "openClicked"}
        /\ pc = "readClicked" /\ found' \in BOOLEAN /\ (found' => Clicked \in seen)
    <3>1. PICK d \in Reads : found' = (Clicked \in d.pending)
      BY <1>4 DEF ReadClicked, LookForPending
    <3>2. /\ UNCHANGED <<backflow, delivery>> /\ pc' \in {"refreshClicked", "openClicked"}
          /\ pc = "readClicked"
      BY <1>4 DEF ReadClicked, LookForPending, Goto
    <3>3. found' \in BOOLEAN
      <4>1. (Clicked \in d.pending) \in BOOLEAN
        OBVIOUS
      <4> QED  BY <3>1, <4>1, Zenon
    <3>4. found' => Clicked \in seen
      BY <1>3, <3>1
    <3> QED  BY <3>2, <3>3, <3>4
  <2> QED
    BY <1>2, <2>1 DEF CollectorTyped, Grounded, EvidenceIsTrue, BackflowProvesPending,
                      DeliveryProvesDelivered, NotYet, PendingKnown, DeliveredKnown
<1>5. CASE ReadDelivered
  <2>1. /\ UNCHANGED <<backflow, delivery>> /\ pc' \in {"refreshDelivered", "terminate"}
        /\ pc = "readDelivered" /\ found' \in BOOLEAN /\ (found' => Delivered \in seen)
    <3>1. PICK d \in Reads : found' = (Delivered \in d.pending)
      BY <1>5 DEF ReadDelivered, LookForPending
    <3>2. /\ UNCHANGED <<backflow, delivery>> /\ pc' \in {"refreshDelivered", "terminate"}
          /\ pc = "readDelivered"
      BY <1>5 DEF ReadDelivered, LookForPending, Goto
    <3>3. found' \in BOOLEAN
      <4>1. (Delivered \in d.pending) \in BOOLEAN
        OBVIOUS
      <4> QED  BY <3>1, <4>1, Zenon
    <3>4. found' => Delivered \in seen
      BY <1>3, <3>1
    <3> QED  BY <3>2, <3>3, <3>4
  <2> QED
    BY <1>2, <2>1 DEF CollectorTyped, Grounded, EvidenceIsTrue, BackflowProvesPending,
                      DeliveryProvesDelivered, NotYet, PendingKnown, DeliveredKnown
<1>6. CASE OpenClicked
  <2>1. /\ UNCHANGED <<found, delivery>> /\ pc = "openClicked" /\ pc' = "seedDelivered"
        /\ backflow' \in BOOLEAN /\ (backflow' => found)
    BY <1>6 DEF OpenClicked, Goto, BackflowAvailable, CollectorTyped
  <2> QED
    BY <1>2, <2>1 DEF CollectorTyped, Grounded, EvidenceIsTrue, BackflowProvesPending,
                      DeliveryProvesDelivered, NotYet, PendingKnown, DeliveredKnown
<1>7. CASE PollDelivered
  <2>1. /\ UNCHANGED backflow /\ pc = "poll" /\ pc' \in {"poll", "done"}
        /\ found' \in BOOLEAN /\ (found' => Delivered \in delivered)
    <3>1. PICK d \in Reads : found' = (Delivered \in d.delivered)
      BY <1>7 DEF PollDelivered
    <3>2. UNCHANGED backflow /\ pc = "poll" /\ pc' \in {"poll", "done"}
      BY <1>7 DEF PollDelivered, Goto
    <3>3. found' \in BOOLEAN
      <4>1. (Delivered \in d.delivered) \in BOOLEAN
        OBVIOUS
      <4> QED  BY <3>1, <4>1, Zenon
    <3>4. found' => Delivered \in delivered
      BY <1>3, <3>1
    <3> QED  BY <3>2, <3>3, <3>4
  <2>2. /\ delivery' \in Deliveries
        /\ delivery'.pendingSeen = delivery.pendingSeen
        /\ delivery'.available => delivery.available \/ (delivery.pendingSeen /\ found')
    BY <1>7, <2>1 DEF PollDelivered, DeliveryAvailable, CollectorTyped, Deliveries
  <2> QED
    BY <1>2, <2>1, <2>2 DEF CollectorTyped, Grounded, EvidenceIsTrue, BackflowProvesPending,
                      DeliveryProvesDelivered, NotYet, PendingKnown, DeliveredKnown
<1> QED
  BY <1>4, <1>5, <1>6, <1>7

LEMMA NotificationsStayGood == NotificationSpec => []NotificationInv
<1>1. NotificationInit => NotificationInv
  <2>1. SUFFICES ASSUME NotificationInit
                 PROVE  NotificationInv
    OBVIOUS
  <2>2. DeviceInv
    BY <2>1, InitIsGood DEF NotificationInit
  <2>3. status[Clicked] = "none" /\ status[Delivered] = "none"
    BY <2>1, OwnAssumption DEF NotificationInit, InitDevice, Own
  <2> QED
    BY <2>1, <2>2, <2>3 DEF NotificationInit, CollectorInit, NotificationInv, CollectorTyped,
       Grounded, NotYet, EvidenceIsTrue, BackflowProvesPending, DeliveryProvesDelivered,
       PendingKnown, DeliveredKnown, Deliveries
<1>2. ASSUME NotificationInv, [NotificationNext]_notificationVars
      PROVE  NotificationInv'
  <2>1. CASE Collect
    BY <1>2, <2>1, SeedKeeps, RelaunchKeeps, ReadKeeps DEF Collect
  <2>2. CASE DeviceStep /\ UNCHANGED collector
    BY <1>2, <2>2, DeviceStepKeeps, DeviceRemembers, OthersKeep DEF NotificationInv
  <2>3. CASE Others /\ UNCHANGED collector
    <3>1. PICK r \in Reminders : \/ EndReminder(r)
                                 \/ \E at \in Times : MoveReminder(r, at)
                                 \/ r \notin Own /\ AddReminder(r)
      BY <2>3 DEF Others
    <3>2. UNCHANGED <<seen, delivered>>
          /\ \A q \in Own : status[q] = "none" => status'[q] = "none"
      <4>1. status \in [Reminders -> {"none", "scheduled", "ended"}]
        BY <1>2 DEF NotificationInv, DeviceInv, DeviceTyped
      <4>2. CASE EndReminder(r)
        BY <4>1, <4>2 DEF EndReminder, center
      <4>3. CASE r \notin Own /\ AddReminder(r)
        BY <4>1, <4>3 DEF AddReminder, center
      <4>4. CASE \E at \in Times : MoveReminder(r, at)
        BY <4>4 DEF MoveReminder, center
      <4> QED  BY <3>1, <4>2, <4>3, <4>4
    <3> QED
      BY <1>2, <2>3, <3>1, <3>2, ReminderChanges, OthersKeep DEF NotificationInv, Remembers
  <2>4. CASE UNCHANGED notificationVars
    <3>1. UNCHANGED device /\ UNCHANGED collector
      BY <2>4 DEF notificationVars
    <3> QED
      BY <1>2, <3>1, UseKeeps, OthersKeep DEF device, facts, center, NotificationInv, Remembers
  <2> QED  BY <1>2, <2>1, <2>2, <2>3, <2>4 DEF NotificationNext
<1> QED
  BY <1>1, <1>2, PTL DEF NotificationSpec

(* EvidenceIsTrue: what a run of the collector records of notifications is *)
(* so - the one it opened has been pending, the one it waited for is in    *)
(* the center and came from a pending one - however slow the app is and    *)
(* whatever the user does with his reminders meanwhile.                    *)
THEOREM NotificationEvidenceHolds == NotificationSpec => []EvidenceIsTrue
<1>1. NotificationInv => EvidenceIsTrue
  BY DEF NotificationInv
<1> QED
  BY <1>1, NotificationsStayGood, PTL

(* NothingLost holds too while the collector closes and opens the app.     *)
THEOREM CollectingLosesNothing == NotificationSpec => []NothingLost
<1>1. NotificationInv => NothingLost
  BY NoneIsLost DEF NotificationInv
<1> QED
  BY <1>1, NotificationsStayGood, PTL
=============================================================================
