----------------------------- MODULE Emissions -----------------------------
(***************************************************************************)
(* What each endpoint handler emits to ONE of its recipients: the events   *)
(* it pushes to the recipient's sorted set and the wake-ups in between, in *)
(* the order of the code.  Handlers run this program once per recipient,   *)
(* in a goroutine of their own for all but a few.  An event is its type    *)
(* and a number that stands for the rest of the payload: two events with   *)
(* the same number are the same member of the sorted set.                  *)
(***************************************************************************)
EXTENDS Naturals, Sequences

\* The types GetUpdates can decode; an event of any other type is skipped.
EventRegistry ==
  {"new_msg", "msg_update", "msg_delete", "msg_replace_flags", "msg_set_flags",
   "msg_reset_flags", "mass_delete", "mass_restore", "read_income_before",
   "read_outcome_before", "got_online", "got_offline", "chat_reset_flags",
   "chat_replace_flags", "chat_set_flags", "state_sync", "metadata_sync",
   "chat_something_changed", "chat_update", "is_dm_typing", "is_chat_typing",
   "multi_typing", "multi_audio", "call", "counter", "notification"}

NoEvent == [type |-> "none", id |-> 0]

Push(type, n) ==
  [kind |-> "push", event |-> [type |-> type, id |-> n], ifOk |-> FALSE]
Notify == [kind |-> "notify", event |-> NoEvent, ifOk |-> FALSE]
Publish == [kind |-> "publish", event |-> NoEvent, ifOk |-> FALSE]
\* ... inside `if err == nil` of the push before
NotifyIfOk == [Notify EXCEPT !.ifOk = TRUE]
PublishIfOk == [Publish EXCEPT !.ifOk = TRUE]

\* BroadcastCounterUpdate
CounterUpdate(n) == <<Push("counter", n), Notify>>

\* messages.send: the sender's own copy, and a recipient's, which first ends
\* the typing status of the sender (a payload without anything unique)
SendToSender(n) ==
  <<Push("new_msg", n), NotifyIfOk, PublishIfOk>> \o CounterUpdate(n)
SendToRecipient(n) ==
  <<Push("is_dm_typing", 0), Push("new_msg", n), NotifyIfOk, PublishIfOk>>
    \o CounterUpdate(n)

\* messages.setActivity
SetActivity(n) == <<Push("is_dm_typing", n), Notify>>

\* A service message alone: JoinChatByInviteLink, AddModerator, pin, unpin
ServiceMessage(n) == <<Push("new_msg", n), NotifyIfOk>>

\* AddChatUser, RemoveChatUser and messages.sendAction update the counter too
ServiceMessageAndCounter(n) == ServiceMessage(n) \o CounterUpdate(n)

\* createChat; editChat; setChatPhoto and deleteChatPhoto
CreateChat(n) == <<Push("chat_something_changed", n), Push("new_msg", n), NotifyIfOk>>
EditChat(n) == <<Push("chat_update", n), Push("new_msg", n), Notify>>
SetChatPhoto(n) == <<Push("chat_something_changed", n), Push("new_msg", n), Notify>>

\* BroadcastChatSomethingChanged
ChatSomethingChanged(n) == <<Push("chat_something_changed", n), Notify>>

\* BroadcastMarkAsRead: the reader; the other side
MarkAsReadReader(n) == <<Push("read_income_before", n), Notify>> \o CounterUpdate(n)
MarkAsReadOther(n) == <<Push("read_outcome_before", n), Notify>>

\* SendDeleteEvent, SendRestoreEvent, SendFlagsUpdate, SendUpdateEvent
SendDeleteEvent(n) ==
  <<Push("msg_set_flags", n), Push("msg_delete", n), Push("msg_replace_flags", n), Notify>>
SendRestoreEvent(n) ==
  <<Push("msg_reset_flags", n), Push("msg_replace_flags", n), Notify>>
SendFlagsUpdate(n) == <<Push("msg_replace_flags", n), Notify>>
SendUpdateEvent(n) == <<Push("msg_update", n), Notify>>

\* SendChatFlagsUpdate, SendChatDeleteEvent (then the counter)
SendChatFlagsUpdate(n) == <<Push("chat_replace_flags", n), Notify>>
SendChatDeleteEvent(n) == <<Push("chat_delete_all", n), Notify>> \o CounterUpdate(n)

\* EmitUserOnline, EmitUserOffline; account.setPushSettings
EmitUserOnline(n) == <<Push("got_online", n), Notify, Publish>>
EmitUserOffline(n) == <<Push("got_offline", n), Notify, Publish>>
SetPushSettings(n) == <<Push("notification_set", n), Notify, Publish>>

\* messages.markAsImportant, one event per message and no wake-up
MarkAsImportant(n) == <<Push("msg_set_flags", n)>>
UnmarkAsImportant(n) == <<Push("msg_reset_flags", n)>>

\* The programs that wake the recipient's process after the last push, with
\* payloads numbered n
WakingPrograms(n) ==
  {SendToSender(n), SendToRecipient(n), SetActivity(n), ServiceMessage(n),
   ServiceMessageAndCounter(n), CreateChat(n), EditChat(n), SetChatPhoto(n),
   ChatSomethingChanged(n), MarkAsReadReader(n), MarkAsReadOther(n),
   SendDeleteEvent(n), SendRestoreEvent(n), SendFlagsUpdate(n),
   SendUpdateEvent(n), SendChatFlagsUpdate(n), SendChatDeleteEvent(n),
   EmitUserOnline(n), EmitUserOffline(n), SetPushSettings(n)}
SilentPrograms(n) == {MarkAsImportant(n), UnmarkAsImportant(n)}

\* Those that also wake the recipient's requests in the other processes
PublishingPrograms(n) == {EmitUserOnline(n), EmitUserOffline(n), SetPushSettings(n)}

EventsOf(programs) ==
  UNION {{p[i].event : i \in {j \in 1 .. Len(p) : p[j].kind = "push"}} : p \in programs}

Decodable(events) == {e \in events : e.type \in EventRegistry}

=============================================================================
