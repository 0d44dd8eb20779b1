------------------------------ MODULE ChatAdmin ------------------------------
(***************************************************************************)
(* The settings of a group chat: moderators, permissions, title, photo,    *)
(* pinned message, invite links; and what a member sets for himself: the   *)
(* flags and the silence of a conversation.                                *)
(*                                                                         *)
(* No handler uses a transaction: each checks, writes its row, and then    *)
(* has a service message or an event tell the others, in steps of their    *)
(* own.  What a handler reads before its first write is read in one step.  *)
(* ChatStore looks into the service messages and the coming and going of   *)
(* members, which are single steps here.                                   *)
(***************************************************************************)
EXTENDS Integers, Sequences, FiniteSets, Permissions

CONSTANTS
  User,
  NoUser,        \* not one of them
  Owner,
  Founders,      \* the members at first
  Moderators,    \* those of them with is_admin
  Club,          \* communities, which are users with a negative id
  Message,       \* local ids of the messages there are at first
  Id, Author,    \* the id of the row of each, and who has sent it
  Call,          \* endpoint calls
  Scenarios,     \* the requests the calls may have: functions from Call
  Invites,       \* the invite links there are at first
  MaxFaults      \* bound: calls that die half way

Kind == {"appoint", "dismiss", "permit", "title", "photo", "pin", "unpin", "delete", "hide",
         "leave", "kick", "add", "link", "join", "flags", "mute"}

\* who: the member concerned; what: the title, message, mask, link or silence;
\* levels: the permissions a request names; reset: of the link or the flags, and
\* of an invitation: with the messages that there are.
Request == [kind : Kind, by : User, who : User, what : Nat, reset : BOOLEAN,
            levels : UNION {[P -> Level \cup {"junk"}] : P \in SUBSET Permission}]
Invite == [limit : Nat, used : Nat, revoked : BOOLEAN, history : BOOLEAN]

ASSUME ChatAdminAssumption ==
  /\ NoUser \notin User /\ Owner \in Founders /\ Owner \in Moderators
  /\ Founders \subseteq User /\ Moderators \subseteq Founders /\ Club \subseteq User
  /\ Message \subseteq Nat \ {0} /\ Id \in [Message -> Nat] /\ Author \in [Message -> User]
  /\ Scenarios \subseteq [Call -> Request]
  /\ Invites \in Seq(Invite) /\ MaxFaults \in Nat

VARIABLES
  perms,      \* conversations.settings, its permissions
  title,      \* conversations.title
  pinned,     \* conversations.pinned_msg_id, 0 for none
  member,     \* conversation_members: no row, left_at IS NULL, left, removed by another
  admin,      \* conversation_members.is_admin
  flags,      \* conversation_members.flags: important, unanswered
  mute,       \* conversation_mutes.disabled_until
  deleted,    \* messages deleted for all
  hidden,     \* deleted_messages: user -> those he deleted for himself
  covered,    \* user -> his periods, if he has any, cover the first messages
  invites,    \* chat_invites, in the order of their creation
  log,        \* service messages
  told,       \* user -> the last chat_replace_flags and notification_set events
  req, pc,    \* call -> request, control point
  snap,       \* call -> the permissions, the flags, the message or the link it has read
  joined,     \* history: link -> who has joined by it, in order
  meant,      \* history: permissions and flags if every change were made at once
  overlap,    \* history: topics that two calls have handled at once
  faults

rows == <<perms, title, pinned, member, admin, flags, mute, deleted, hidden, covered, invites>>
calls == <<req, pc, snap>>
past == <<joined, meant, overlap>>
vars == <<rows, log, told, calls, past, faults>>

Bits == {"important", "unanswered"}
Topic == [on : {"title", "photo", "pin", "role", "permissions", "flags", "mute", "link"},
          of : User \cup {NoUser} \cup Nat]
Entry == [topic : Topic, value : Nat]
NoSnap == [levels |-> DefaultChatPermissions, bits |-> {}, msg |-> 0, link |-> 0]
Snap == [levels : [Permission -> Level], bits : SUBSET Bits, msg : Message \cup {0}, link : Nat]

TypeOK ==
  /\ perms \in [Permission -> Level] /\ \A p \in Permission : perms[p] \in Allowed(p)
  /\ title \in Nat /\ pinned \in Message \cup {0}
  /\ member \in [User -> {"none", "active", "left", "removed"}] /\ admin \in [User -> BOOLEAN]
  /\ flags \in [User -> SUBSET Bits] /\ mute \in [User -> Nat]
  /\ deleted \subseteq Message /\ hidden \in [User -> SUBSET Message] /\ covered \in [User -> BOOLEAN]
  /\ invites \in Seq(Invite) /\ joined \in Seq(Seq(User)) /\ Len(joined) = Len(invites)
  /\ log \in Seq(Entry)
  /\ told \in [User -> [flags : SUBSET Bits, mute : Nat]]
  /\ req \in [Call -> Request]
  /\ pc \in [Call -> {"start", "write", "tell", "pick", "add", "count", "done"}]
  /\ snap \in [Call -> Snap]
  /\ overlap \subseteq Topic /\ faults \in 0 .. MaxFaults

Init ==
  /\ perms = DefaultChatPermissions /\ title = 0 /\ pinned = 0
  /\ member = [u \in User |-> IF u \in Founders THEN "active" ELSE "none"]
  /\ admin = [u \in User |-> u \in Moderators]
  /\ flags = [u \in User |-> {}] /\ mute = [u \in User |-> 0]
  /\ deleted = {} /\ hidden = [u \in User |-> {}] /\ covered = [u \in User |-> TRUE]
  /\ invites = Invites /\ joined = [i \in DOMAIN Invites |-> << >>]
  /\ log = << >> /\ told = [u \in User |-> [flags |-> {}, mute |-> 0]]
  /\ req \in Scenarios /\ pc = [k \in Call |-> "start"] /\ snap = [k \in Call |-> NoSnap]
  /\ meant = [levels |-> DefaultChatPermissions, bits |-> [u \in User |-> {}]]
  /\ overlap = {} /\ faults = 0

-----------------------------------------------------------------------------
(* Shared vocabulary.                                                      *)

By(k) == req[k].by
Who(k) == req[k].who
Is(k, kinds) == req[k].kind \in kinds
IsMember(u) == member[u] = "active"
IsAdmin(u) == u = Owner \/ admin[u]
May(u, p) == CheckPermission(perms[p], u = Owner, IsAdmin(u), IsMember(u))

\* BuildVisibilityFilter: not deleted, for all or for himself, and in a period of
\* his, if he has one.
Visible(u, m) == m \in Message \ (deleted \cup hidden[u]) /\ covered[u]

\* The messages a request may mean: it gives a local id or the id of a row.
Named(k) == {m \in Message : Visible(By(k), m) /\ req[k].what \in {m, Id[m]}}

\* What a call is about: calls of one topic can get in each other's way.
About(k) ==
  IF Is(k, {"appoint", "dismiss", "leave", "kick"}) THEN [on |-> "role", of |-> Who(k)]
  ELSE IF Is(k, {"flags", "mute"}) THEN [on |-> req[k].kind, of |-> By(k)]
  ELSE IF Is(k, {"title", "photo"}) THEN [on |-> req[k].kind, of |-> NoUser]
  ELSE IF Is(k, {"pin", "unpin"}) THEN [on |-> "pin", of |-> NoUser]
  ELSE IF Is(k, {"permit"}) THEN [on |-> "permissions", of |-> NoUser]
  ELSE [on |-> "link", of |-> snap[k].link]

Goto(k, p) == pc' = [pc EXCEPT ![k] = p]
Begun(k) == pc[k] \notin {"start", "done"}

\* The call goes on; the topic is noted if another call is at it.
Begin(k, p, topic) ==
  /\ Goto(k, p)
  /\ overlap' = IF \E o \in Call \ {k} : Begun(o) /\ About(o) = topic
                THEN overlap \cup {topic} ELSE overlap

Say(topic, value) == log' = Append(log, [topic |-> topic, value |-> value])

\* A call that is refused, or has nothing to do
Refuse(k, allowed) ==
  /\ pc[k] = "start" /\ ~allowed /\ Goto(k, "done")
  /\ UNCHANGED <<rows, log, told, req, snap, past>>

-----------------------------------------------------------------------------
(* im.setChatModerator, im.removeChatModerator (im.setMemberRole)          *)

\* The owner alone, and only for somebody else who is in and is not yet, or is
CanAppoint(k) ==
  /\ By(k) = Owner /\ Who(k) # Owner /\ IsMember(Who(k))
  /\ admin[Who(k)] = Is(k, {"dismiss"})

\* im.setChatPermissions: the owner, or whom the permissions let change them
CanPermit(k) ==
  By(k) = Owner \/ (perms["change_admins"] = "admin" /\ admin[By(k)] /\ IsMember(By(k)))

\* messages.editChat, setChatPhoto and deleteChatPhoto, which ask no permission,
\* pin, unpin
CanChangeTitle(k) == May(By(k), "change_info")
CanChangePhoto(k) == IsMember(By(k))
CanPin(k) == May(By(k), "change_pin") /\ Named(k) # {}
CanUnpin(k) == May(By(k), "change_pin")

\* History: a change of what is named, and of nothing else
Changed(old, named) ==
  [p \in Permission |->
     IF p \notin DOMAIN named THEN old[p]
     ELSE IF named[p] \in Allowed(p) THEN named[p] ELSE DefaultChatPermissions[p]]

\* messages.markAsImportantConversation; ...AnsweredConversation, for communities
Mask(k) == IF req[k].what = 1 THEN {"important"} ELSE {"unanswered"}
CanFlag(k) == member[By(k)] # "none" /\ (Mask(k) = {"unanswered"} => By(k) \in Club)

Allows(k) ==
  \/ Is(k, {"appoint", "dismiss"}) /\ CanAppoint(k)
  \/ Is(k, {"permit"}) /\ CanPermit(k)
  \/ Is(k, {"title"}) /\ CanChangeTitle(k)
  \/ Is(k, {"photo"}) /\ CanChangePhoto(k)
  \/ Is(k, {"pin"}) /\ CanPin(k)
  \/ Is(k, {"unpin"}) /\ CanUnpin(k)
  \/ Is(k, {"flags"}) /\ CanFlag(k)
  \/ Is(k, {"mute"})

\* The message to be pinned: of those that the request may mean, the first row.
Chosen(k) == IF Is(k, {"pin"}) THEN {m \in Named(k) : \A o \in Named(k) : Id[m] <= Id[o]} ELSE {0}

\* A photo has no row of its own, so that its service message comes at once.
Check(k) ==
  /\ pc[k] = "start"
  /\ Is(k, {"appoint", "dismiss", "permit", "title", "photo", "pin", "unpin", "flags", "mute"})
  /\ \/ Refuse(k, Allows(k))
     \/ /\ Allows(k)
        /\ Begin(k, IF Is(k, {"photo"}) THEN "tell" ELSE "write", About(k))
        /\ \E m \in Chosen(k) :
             snap' = [snap EXCEPT ![k].levels = perms, ![k].bits = flags[By(k)], ![k].msg = m]
        /\ UNCHANGED <<rows, log, told, req, joined, meant>>

\* Mutant of NewLevels: what the request does not name becomes the default.
NewLevelsAlone(old, named) == Normalized(named)

\* Mutant of NewLevels: what is not a level is stored as it came.
NewLevelsRaw(old, named) ==
  [p \in Permission |-> IF p \in DOMAIN named THEN named[p] ELSE old[p]]

\* Named values over those that were read, and defaults for what is not a level
NewLevels(old, named) ==
  Normalized([p \in Permission |-> IF p \in DOMAIN named THEN named[p] ELSE old[p]])

NewBits(k, old) == IF req[k].reset THEN old \ Mask(k) ELSE old \cup Mask(k)

\* Mutant of NewRole: a dismissal leaves is_admin as it is.
NewRoleOnce(k) == [admin EXCEPT ![Who(k)] = TRUE]

NewRole(k) == [admin EXCEPT ![Who(k)] = Is(k, {"appoint"})]

WriteRole(k) ==
  /\ Is(k, {"appoint", "dismiss"}) /\ admin' = NewRole(k)
  /\ UNCHANGED <<perms, title, pinned, flags, mute, meant>>

WritePermissions(k) ==
  /\ Is(k, {"permit"}) /\ perms' = NewLevels(snap[k].levels, req[k].levels)
  /\ meant' = [meant EXCEPT !.levels = Changed(@, req[k].levels)]
  /\ UNCHANGED <<title, pinned, admin, flags, mute>>

WriteTitle(k) ==
  Is(k, {"title"}) /\ title' = req[k].what /\ UNCHANGED <<perms, pinned, admin, flags, mute, meant>>

WritePin(k) ==
  /\ Is(k, {"pin", "unpin"}) /\ pinned' = IF Is(k, {"pin"}) THEN snap[k].msg ELSE 0
  /\ UNCHANGED <<perms, title, admin, flags, mute, meant>>

WriteFlags(k) ==
  /\ Is(k, {"flags"}) /\ flags' = [flags EXCEPT ![By(k)] = NewBits(k, snap[k].bits)]
  /\ meant' = [meant EXCEPT !.bits[By(k)] = NewBits(k, @)]
  /\ UNCHANGED <<perms, title, pinned, admin, mute>>

\* An upsert
WriteMute(k) ==
  /\ Is(k, {"mute"}) /\ mute' = [mute EXCEPT ![By(k)] = req[k].what]
  /\ UNCHANGED <<perms, title, pinned, admin, flags, meant>>

\* The UPDATE.  Permissions and flags are written as a whole, from what was read.
Write(k) ==
  /\ pc[k] = "write" /\ Goto(k, IF Is(k, {"permit"}) THEN "done" ELSE "tell")
  /\ \/ WriteRole(k) \/ WritePermissions(k) \/ WriteTitle(k)
     \/ WritePin(k) \/ WriteFlags(k) \/ WriteMute(k)
  /\ UNCHANGED <<member, deleted, hidden, covered, invites, log, told, req, snap, joined, overlap>>

Announce(k, value) == Say(About(k), value) /\ UNCHANGED told
AnnounceRole(k) == Is(k, {"appoint", "dismiss"}) /\ Announce(k, IF Is(k, {"appoint"}) THEN 1 ELSE 0)
AnnounceTitle(k) == Is(k, {"title"}) /\ Announce(k, req[k].what)
AnnouncePhoto(k) == Is(k, {"photo"}) /\ Announce(k, 0)
AnnouncePin(k) == Is(k, {"pin"}) /\ Announce(k, snap[k].msg)
AnnounceUnpin(k) == Is(k, {"unpin"}) /\ Announce(k, 0)

\* chat_replace_flags and notification_set, which go to the caller alone
SendChatFlagsUpdate(k) ==
  Is(k, {"flags"}) /\ told' = [told EXCEPT ![By(k)].flags = NewBits(k, snap[k].bits)] /\ UNCHANGED log
SendNotificationSet(k) ==
  Is(k, {"mute"}) /\ told' = [told EXCEPT ![By(k)].mute = req[k].what] /\ UNCHANGED log

\* The service message that the members are told, or the caller's own event
Tell(k) ==
  /\ pc[k] = "tell" /\ Goto(k, "done")
  /\ \/ AnnounceRole(k) \/ AnnounceTitle(k) \/ AnnouncePhoto(k) \/ AnnouncePin(k)
     \/ AnnounceUnpin(k) \/ SendChatFlagsUpdate(k) \/ SendNotificationSet(k)
  /\ UNCHANGED <<rows, req, snap, past>>

-----------------------------------------------------------------------------
(* What happens beside: a message is deleted, by its author for all or by  *)
(* anybody for himself; a member leaves or is removed, and loses his role; *)
(* somebody is invited.                                                    *)

Delete(k) ==
  /\ pc[k] = "start" /\ Is(k, {"delete", "hide"}) /\ Goto(k, "done")
  /\ deleted' = IF Is(k, {"delete"}) /\ \A m \in Named(k) : Author[m] = By(k)
                THEN deleted \cup Named(k) ELSE deleted
  /\ hidden' = IF Is(k, {"hide"}) THEN [hidden EXCEPT ![By(k)] = @ \cup Named(k)] ELSE hidden
  /\ UNCHANGED <<perms, title, pinned, member, admin, flags, mute, covered, invites, log, told, req,
                 snap, past>>

\* Mutant of CanKick: moderators may remove one another.
CanKickOthers(by, who) == admin[by] /\ who # Owner

\* The owner and moderators, but not the owner, nor moderators one another
CanKick(by, who) == admin[by] /\ who # Owner /\ (by = Owner \/ ~admin[who])

CanRemove(k) ==
  IsMember(Who(k)) /\ IF Is(k, {"leave"}) THEN By(k) = Who(k) ELSE CanKick(By(k), Who(k))

\* Mutant of Dismissed: is_admin outlives the membership.
DismissedLater(u) == admin

Dismissed(u) == [admin EXCEPT ![u] = @ /\ u = Owner]

\* The row of the member, and the message that says so
Depart(k, roles) ==
  /\ Begin(k, "done", About(k))
  /\ member' = [member EXCEPT ![Who(k)] = IF Is(k, {"kick"}) THEN "removed" ELSE "left"]
  /\ admin' = roles
  /\ Say(About(k), 0)
  /\ UNCHANGED <<perms, title, pinned, flags, mute, deleted, hidden, covered, invites, told, req,
                 snap, joined, meant>>

Remove(k) ==
  /\ pc[k] = "start" /\ Is(k, {"leave", "kick"})
  /\ \/ Refuse(k, CanRemove(k))
     \/ CanRemove(k) /\ Depart(k, Dismissed(Who(k)))

\* A query of a removal fails and is taken for an answer: the read of the target,
\* so that one moderator removes another, or IsChatOwner, so that the owner, who
\* leaves, loses is_admin.
Misread(k) ==
  /\ pc[k] = "start" /\ Is(k, {"leave", "kick"}) /\ IsMember(Who(k))
  /\ IF Is(k, {"leave"}) THEN By(k) = Who(k)
     ELSE admin[By(k)] /\ Who(k) \notin {Owner, By(k)}
  /\ Depart(k, [admin EXCEPT ![Who(k)] = FALSE])
  /\ faults < MaxFaults /\ faults' = faults + 1

\* The period of who comes: from the first message, or from now on
Cover(u, shown) == [covered EXCEPT ![u] = shown \/ (@ /\ member[u] # "none")]

\* messages.addChatUser: who was removed needs an administrator.
CanAdd(k) == ~IsMember(Who(k)) /\ (member[Who(k)] = "removed" => By(k) # Who(k) /\ admin[By(k)])
Add(k) ==
  /\ pc[k] = "start" /\ Is(k, {"add"})
  /\ \/ Refuse(k, CanAdd(k))
     \/ /\ CanAdd(k) /\ Goto(k, "done")
        /\ member' = [member EXCEPT ![Who(k)] = "active"]
        /\ covered' = Cover(Who(k), req[k].reset)
        /\ UNCHANGED <<perms, title, pinned, admin, flags, mute, deleted, hidden, invites, log,
                       told, req, snap, past>>

-----------------------------------------------------------------------------
(* Invite links.                                                           *)

Usable(i) == ~i.revoked /\ (i.limit = 0 \/ i.used < i.limit)

\* messages.getInviteLink: is_admin decides, not the permissions.
LinkCheck(k) ==
  /\ pc[k] = "start" /\ Is(k, {"link"})
  /\ \/ Refuse(k, IsMember(By(k)) /\ admin[By(k)])
     \/ /\ IsMember(By(k)) /\ admin[By(k)] /\ Goto(k, "pick")
        /\ invites' = IF req[k].reset THEN [i \in DOMAIN invites |-> [invites[i] EXCEPT !.revoked = TRUE]]
                      ELSE invites
        /\ UNCHANGED <<perms, title, pinned, member, admin, flags, mute, deleted, hidden, covered,
                       log, told, req, snap, past>>

\* The newest link that can be used is handed out, whatever limit was asked for;
\* if there is none, one is made.  who # by asks for history.
LinkPick(k) ==
  LET good == {i \in DOMAIN invites : Usable(invites[i]) /\ (Who(k) # By(k) => invites[i].history)}
      new == [limit |-> req[k].what, used |-> 0, revoked |-> FALSE, history |-> Who(k) # By(k)]
  IN  /\ pc[k] = "pick" /\ Goto(k, "done")
      /\ IF good # {} THEN UNCHANGED <<invites, joined>>
         ELSE invites' = Append(invites, new) /\ joined' = Append(joined, << >>)
      /\ UNCHANGED <<perms, title, pinned, member, admin, flags, mute, deleted, hidden, covered,
                     log, told, req, snap, meant, overlap>>

\* messages.joinChatByInviteLink by the newest link: it must be usable, and the
\* user not in, and not removed by somebody.
CanJoin(k, i) == Usable(invites[i]) /\ member[By(k)] \in {"none", "left"}
JoinCheck(k) ==
  /\ pc[k] = "start" /\ Is(k, {"join"})
  /\ LET i == Len(invites)
         can == i > 0 /\ CanJoin(k, i)
     IN  \/ Refuse(k, can)
         \/ /\ can /\ Begin(k, "add", [on |-> "link", of |-> i])
            /\ snap' = [snap EXCEPT ![k].link = i]
            /\ UNCHANGED <<rows, log, told, req, joined, meant>>

\* AddUserToConversation
JoinAdd(k) ==
  LET can == member[By(k)] \in {"none", "left"}
  IN  /\ pc[k] = "add" /\ Goto(k, IF can THEN "count" ELSE "done")
      /\ member' = [member EXCEPT ![By(k)] = IF can THEN "active" ELSE @]
      /\ covered' = IF can THEN Cover(By(k), invites[snap[k].link].history) ELSE covered
      /\ joined' = IF can THEN [joined EXCEPT ![snap[k].link] = Append(@, By(k))] ELSE joined
      /\ UNCHANGED <<perms, title, pinned, admin, flags, mute, deleted, hidden, invites, log, told,
                     req, snap, meant, overlap>>

\* Mutant of JoinCount: the count that was read, plus one, for a link in use.
JoinCountReset(k) ==
  /\ pc[k] = "count" /\ Goto(k, "done")
  /\ invites' = [invites EXCEPT ![snap[k].link].used = 1]
  /\ UNCHANGED <<perms, title, pinned, member, admin, flags, mute, deleted, hidden, covered, log,
                 told, req, snap, past>>

\* usage_count + 1
JoinCount(k) ==
  /\ pc[k] = "count" /\ Goto(k, "done")
  /\ invites' = [invites EXCEPT ![snap[k].link].used = @ + 1]
  /\ UNCHANGED <<perms, title, pinned, member, admin, flags, mute, deleted, hidden, covered, log,
                 told, req, snap, past>>

-----------------------------------------------------------------------------
Step(k) ==
  /\ \/ Check(k) \/ Write(k) \/ Tell(k) \/ Delete(k) \/ Remove(k) \/ Add(k)
     \/ LinkCheck(k) \/ LinkPick(k) \/ JoinCheck(k) \/ JoinAdd(k) \/ JoinCount(k)
  /\ UNCHANGED faults

\* A statement fails or the process dies: what was written stays.
Fail(k) ==
  /\ Begun(k) /\ Goto(k, "done") /\ faults < MaxFaults /\ faults' = faults + 1
  /\ UNCHANGED <<rows, log, told, req, snap, past>>

Next == \E k \in Call : Step(k) \/ Misread(k) \/ Fail(k)
Spec == Init /\ [][Next]_vars

-----------------------------------------------------------------------------
(* Properties.                                                             *)

AtRest == \A k \in Call : ~Begun(k)
Calm(on, of) == faults = 0 /\ [on |-> on, of |-> of] \notin overlap

\* What the members were last told about a topic, or what held at first
LastSaid(on, of, first) ==
  LET said == {i \in DOMAIN log : log[i].topic = [on |-> on, of |-> of]}
  IN  IF said = {} THEN first
      ELSE log[CHOOSE i \in said : \A j \in said : j <= i].value

\* What im.getChatModerators answers a member, and messages.getPinnedMessage a user
GetChatModerators == {u \in User : admin[u] /\ IsMember(u) /\ u # Owner}
GetPinnedMessage(u) == {m \in {pinned} : IsMember(u) /\ Visible(u, m)}

\* The lists know an owner only if he is no community.
Owns(u) == u = Owner /\ Owner \notin Club

\* can_kick of messages.getConversationMembers, of each member
ShownKick(by) ==
  {u \in User \ {by} : IsMember(u) /\ (Owns(by) \/ (admin[by] /\ ~Owns(u) /\ ~admin[u]))}

\* admin_ids, of which the owner is one even if he has left; and who is an
\* administrator for the acl of the list and for that of the members
AdminIDs == {Owner} \cup {u \in User : admin[u] /\ IsMember(u)}
ListACL(u) == ComputeChatACL(perms, Owns(u), u \in AdminIDs, IsMember(u))
MembersACL(u) == ComputeChatACL(perms, Owns(u), Owns(u) \/ admin[u], TRUE)

\* The chat is what its service messages say: once nothing runs, whoever reads
\* the title and the moderators finds what the members were last told, each
\* member finds the pinned message they were told if he can see it, and nobody
\* else finds any, and a user's own flags and silence are those of his last
\* event.  Changes of one topic that overlapped are excepted: their rows and
\* their messages may come in opposite orders.
RowsAsAnnounced ==
  AtRest =>
    /\ Calm("title", NoUser) => title = LastSaid("title", NoUser, 0)
    /\ Calm("pin", NoUser) =>
         \A u \in User :
           GetPinnedMessage(u) = {p \in {LastSaid("pin", NoUser, 0)} : IsMember(u) /\ Visible(u, p)}
    /\ \A u \in User \ {Owner} : Calm("role", u) =>
         (u \in GetChatModerators <=> LastSaid("role", u, IF u \in Moderators THEN 1 ELSE 0) = 1)
    /\ \A u \in User : Calm("flags", u) => told[u].flags = flags[u]
    /\ \A u \in User : Calm("mute", u) => told[u].mute = mute[u]

\* No departed user holds a role, with which an invitation would make him a
\* moderator again whom nobody appointed; not even when a call fails half way.
\* Excepted are an appointment and a removal at the same time:
\* SetChatModerator writes is_admin without asking again for left_at.
DepartedHaveNoRole ==
  \A u \in User \ {Owner} :
    admin[u] /\ [on |-> "role", of |-> u] \notin overlap => IsMember(u)

\* A change of permissions or of flags changes what it names and nothing else,
\* although the whole set is written back: unless two changes overlapped, the
\* rows hold what applying each of them at once would have given.
UpdatesAreKept ==
  /\ [on |-> "permissions", of |-> NoUser] \notin overlap => perms = meant.levels
  /\ \A u \in User : [on |-> "flags", of |-> u] \notin overlap => flags[u] = meant.bits[u]

\* How many a link had brought at first, the calls that will count it once more
UsedBefore(i) == IF i \in DOMAIN Invites THEN Invites[i].used ELSE 0
Counting(i) == {k \in Call : pc[k] = "count" /\ snap[k].link = i}

\* Every user who came by a link is counted on it, or about to be, however the
\* joins interleave; so none comes above its limit, unless two came at once
\* (the limit is compared before the join) or a call died before counting.
JoinsAreCounted ==
  faults = 0 => \A i \in DOMAIN invites :
    /\ UsedBefore(i) + Len(joined[i]) = invites[i].used + Cardinality(Counting(i))
    /\ Calm("link", i) /\ invites[i].limit > 0 /\ joined[i] # << >>
         => UsedBefore(i) + Len(joined[i]) <= invites[i].limit

\* A member is offered to remove just those whom messages.removeChatUser will let
\* him remove, at every moment of appointments, dismissals and removals, and
\* the list of conversations and the list of members show him the same acl.  A
\* community that owns the chat is offered less: not to remove moderators,
\* though it may.  The owner has is_admin, on which all this rests, whatever
\* calls run; only a failing query takes it from him.
KickIsShown ==
  /\ faults = 0 => admin[Owner]
  /\ admin[Owner] => \A by \in User : IsMember(by) =>
       LET may == {u \in User \ {by} : IsMember(u) /\ CanKick(by, u)}
       IN  /\ ShownKick(by) = IF by = Owner /\ Owner \in Club THEN {u \in may : ~admin[u]} ELSE may
           /\ ListACL(by) = MembersACL(by)

\* The acl a user is shown in his list is the acl that is enforced: what
\* needs a permission is accepted only from whom his acl grants it.
Needs(k) ==
  CASE Is(k, {"title", "photo"}) -> {"change_info"}
    [] Is(k, {"pin", "unpin"}) -> {"change_pin"}
    [] Is(k, {"add"}) -> {"invite"}
    [] Is(k, {"link"}) -> {"see_invite_link"} \cup IF req[k].reset THEN {"change_invite_link"} ELSE {}
    [] OTHER -> {}
Accepts(k) ==
  /\ pc[k] = "start"
  /\ \/ pc'[k] \notin {"start", "done"}
     \/ Is(k, {"add"}) /\ member' # member
ACLIsKept ==
  [][\A k \in Call : Accepts(k) =>
       \A p \in Needs(k) : ListACL(By(k))[p]]_vars
=============================================================================
