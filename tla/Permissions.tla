----------------------------- MODULE Permissions -----------------------------
(***************************************************************************)
(* The permissions of a group chat: who may do what, as stored in the      *)
(* conversation's settings and as computed for one user.                   *)
(***************************************************************************)

Permission == {"invite", "change_info", "change_pin", "use_mass_mentions",
               "see_invite_link", "change_invite_link", "call", "change_admins"}
Level == {"all", "admin", "owner"}
Allowed(p) == IF p = "change_admins" THEN {"admin", "owner"} ELSE Level

DefaultChatPermissions ==
  [p \in Permission |->
     IF p \in {"invite", "use_mass_mentions", "call"} THEN "all"
     ELSE IF p \in {"change_info", "change_pin", "see_invite_link"} THEN "admin" ELSE "owner"]

\* What is missing or unknown becomes the default, never what was there before.
Normalized(perms) ==
  [p \in Permission |->
     IF p \in DOMAIN perms /\ perms[p] \in Allowed(p) THEN perms[p]
     ELSE DefaultChatPermissions[p]]

ParseChatPermissions(settings) == Normalized(settings)

CheckPermission(level, isOwner, isAdmin, isMember) ==
  isMember /\ (isOwner \/ level = "all" \/ (level # "owner" /\ isAdmin))

ComputeChatACL(perms, isOwner, isAdmin, isMember) ==
  [p \in Permission |-> CheckPermission(perms[p], isOwner, isAdmin, isMember)]

\* can_moderate and can_copy_chat
CanModerate(isOwner, isAdmin, isMember) == isMember /\ (isOwner \/ isAdmin)
=============================================================================
