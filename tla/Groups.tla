-------------------------------- MODULE Groups --------------------------------
(***************************************************************************)
(* GroupMessageHandler of messaging/groups.rs over the tables groups and   *)
(* group_memberships: who belongs to a group, as handlers that read a      *)
(* membership, decide, and write another statement later leave it, and the *)
(* lists of members, memberships and public groups that are cached.        *)
(***************************************************************************)
EXTENDS Naturals, FiniteSets

CONSTANTS
  GroupIds,      \* fresh UUIDs of create_group
  Members,       \* users
  Callers,       \* handlers at work at the same time
  Private,       \* groups of type Private
  Public,        \* groups of type Public, which are listed; those of neither type,
                 \* Emergency and Announcement, may be joined and are not
  Approving,     \* groups whose settings say require_approval
  ReadOnly,      \* groups whose settings say read_only
  Roles,         \* roles asked of invite_user
  NoMember,      \* no row
  Uncached       \* no entry, or one past its cache_duration, which is never served

AllRoles   == {"Member", "Moderator", "Administrator", "Owner"}
MayModerate == AllRoles \ {"Member"}

ASSUME RoleAssumption   == Roles \subseteq AllRoles
ASSUME MemberAssumption == Members # {} /\ GroupIds # {}
ASSUME TypeAssumption   == Public \cap Private = {}
ASSUME EntryAssumption  == /\ \A users \in SUBSET Members : users # Uncached
                           /\ \A of \in SUBSET GroupIds : of # Uncached
ASSUME RowAssumption    == NoMember \notin [role: AllRoles, status: {"Active", "Pending", "Left"}]

VARIABLES
  groups,       \* the rows of groups
  member,       \* the rows of group_memberships
  posts,        \* group and sender of the messages stored
  listed,       \* group_members of the membership cache: users, or Uncached
  belongs,      \* user_memberships of the membership cache: groups, or Uncached
  known,        \* groups of the group cache
  public,       \* public_groups of the group cache
  task,         \* what each handler is doing
  created       \* history: creator of each group whose creation succeeded

groupVars == <<groups, member, posts, listed, belongs, known, public, task, created>>
caches    == <<listed, belongs, known, public>>
tables    == <<groups, member, posts>>

\* Banned is a status that nothing writes.
Membership == [role: AllRoles, status: {"Active", "Pending", "Left"}]
NoTask     == [at |-> "idle", user |-> CHOOSE u \in Members : TRUE,
               group |-> CHOOSE g \in GroupIds : TRUE,
               row |-> [role |-> "Member", status |-> "Active"], users |-> {}, groups |-> {}]
Points     == {"idle", "own", "created", "add", "count", "leave", "changed", "post",
               "list", "belong"}
Task       == [at: Points, user: Members, group: GroupIds, row: Membership,
               users: SUBSET Members, groups: SUBSET GroupIds]

GroupsTypeOK ==
  /\ groups \subseteq GroupIds
  /\ member \in [GroupIds -> [Members -> Membership \cup {NoMember}]]
  /\ posts \subseteq GroupIds \X Members
  /\ listed \in [GroupIds -> {Uncached} \cup SUBSET Members]
  /\ belongs \in [Members -> {Uncached} \cup SUBSET GroupIds]
  /\ known \subseteq groups
  /\ public \subseteq Public
  /\ task \in [Callers -> Task]
  /\ created \subseteq GroupIds \X Members

NoLists    == [g \in GroupIds |-> Uncached]
NoneBelong == [u \in Members |-> Uncached]

GroupsInit ==
  /\ groups = {} /\ posts = {} /\ created = {}
  /\ member = [g \in GroupIds |-> [u \in Members |-> NoMember]]
  /\ listed = NoLists /\ belongs = NoneBelong /\ known = {} /\ public = {}
  /\ task = [c \in Callers |-> NoTask]

AtPoint(c, point) == task[c].at = point
Row(g, u)         == member[g][u]
Has(g, u)         == Row(g, u) # NoMember
Active(g, u)      == Has(g, u) /\ Row(g, u).status = "Active"
Begin(c, t)       == AtPoint(c, "idle") /\ task' = [task EXCEPT ![c] = t]
Go(c, point)      == task' = [task EXCEPT ![c].at = point]
Done(c)           == task' = [task EXCEPT ![c] = NoTask]
For(point, g, u, row) == [NoTask EXCEPT !.at = point, !.group = g, !.user = u, !.row = row]

----------------------------------------------------------------------------
(* The group cache. A row of groups never changes.                         *)

\* A miss caches the group, and lists it if it is public.
CacheGroup_ListsAll(g) ==
  /\ known' = known \cup {g}
  /\ public' = IF g \notin known THEN public \cup {g} ELSE public
CacheGroup(g) ==
  /\ known' = known \cup {g}
  /\ public' = IF g \notin known /\ g \in Public THEN public \cup {g} ELSE public

GetGroup(g) == g \in groups /\ CacheGroup(g)

InvalidateGroupCache(g) ==
  /\ known' = known \ {g}
  /\ public' = public \ {g}

FetchGroup(g) ==
  /\ GetGroup(g)
  /\ UNCHANGED <<tables, listed, belongs, task, created>>

\* get_cached_public_groups: nothing if one of the entries is gone.
PublicServed_NoExpiry == public # {}
PublicServed == public # {} /\ public \subseteq known

CachePublicGroups(page) ==
  /\ public' = page \cap Public
  /\ known' = known \cup (page \cap Public)

\* What a type, a status, a limit and an offset may leave of the rows, and then a search
\* and the limit and offset once more of what was loaded.
LoadGroups == SUBSET groups
FilterGroups(loaded) == SUBSET loaded

\* A query that names a user is not served from the cache, and fills it all the same.
ListGroups(page, named) ==
  /\ named \/ ~PublicServed
  /\ \E loaded \in LoadGroups : page \in FilterGroups(loaded)
  /\ CachePublicGroups(page)
  /\ UNCHANGED <<tables, listed, belongs, task, created>>

----------------------------------------------------------------------------
(* create_group, join_group, invite_user: rows are inserted.               *)

InsertGroup(g) == g \notin groups /\ groups' = groups \cup {g}

CreateGroup(c, u, g) ==
  /\ InsertGroup(g)
  /\ Begin(c, For("own", g, u, [role |-> "Owner", status |-> "Active"]))
  /\ UNCHANGED <<member, posts, caches, created>>

\* add_group_member: PRIMARY KEY (group_id, user_id).
Insertable_Upsert(g, u) == TRUE
Insertable(g, u) == ~Has(g, u)
Inserting(c, point) ==
  LET g == task[c].group
      u == task[c].user IN
  IF Insertable(g, u)
  THEN member' = [member EXCEPT ![g][u] = task[c].row] /\ Go(c, point)
  ELSE Done(c) /\ UNCHANGED member

AddOwner(c) ==
  /\ AtPoint(c, "own")
  /\ Inserting(c, "created")
  /\ UNCHANGED <<groups, posts, caches, created>>

EndCreate(c) ==
  /\ AtPoint(c, "created")
  /\ LET g == task[c].group
         u == task[c].user IN
     /\ InvalidateGroupCache(g)
     /\ belongs' = [belongs EXCEPT ![u] = Uncached]
     /\ created' = created \cup {<<g, u>>}
  /\ Done(c)
  /\ UNCHANGED <<tables, listed>>

\* Whoever is neither Active nor Banned goes on.
JoinGroup(c, u, g) ==
  /\ GetGroup(g)
  /\ ~Active(g, u) /\ g \notin Private
  /\ Begin(c, For("add", g, u,
       [role |-> "Member", status |-> IF g \in Approving THEN "Pending" ELSE "Active"]))
  /\ UNCHANGED <<tables, listed, belongs, created>>

\* The inviter's role is looked at, and not whether he has left.
InviteUser(c, inviter, u, g, role) ==
  /\ Has(g, inviter) /\ Row(g, inviter).role \in MayModerate
  /\ ~Active(g, u)
  /\ Begin(c, For("add", g, u, [role |-> role, status |-> "Pending"]))
  /\ UNCHANGED <<tables, caches, created>>

AddMember(c) ==
  /\ AtPoint(c, "add")
  /\ Inserting(c, "changed")
  /\ UNCHANGED <<groups, posts, caches, created>>

----------------------------------------------------------------------------
(* leave_group.                                                            *)

LeaveGroup(c, u, g) ==
  /\ Has(g, u)
  /\ Begin(c, For(IF Row(g, u).role = "Owner" THEN "count" ELSE "leave", g, u, Row(g, u)))
  /\ UNCHANGED <<tables, caches, created>>

Owners_Invited(g) == {u \in Members : Has(g, u) /\ Row(g, u).role = "Owner"}
Owners(g) == {u \in Members : Active(g, u) /\ Row(g, u).role = "Owner"}
CountOwners(c) ==
  /\ AtPoint(c, "count")
  /\ IF Cardinality(Owners(task[c].group)) <= 1 THEN Done(c) ELSE Go(c, "leave")
  /\ UNCHANGED <<tables, caches, created>>

SetLeft(c) ==
  /\ AtPoint(c, "leave")
  /\ member' = [member EXCEPT ![task[c].group][task[c].user].status = "Left"]
  /\ Go(c, "changed")
  /\ UNCHANGED <<groups, posts, caches, created>>

\* The end of joining, inviting and leaving: the lists of the user and of the group are
\* dropped, under a lock each. What fills one does not look at the other.
Invalidate(c) ==
  /\ AtPoint(c, "changed")
  /\ listed' = [listed EXCEPT ![task[c].group] = Uncached]
  /\ belongs' = [belongs EXCEPT ![task[c].user] = Uncached]
  /\ Done(c)
  /\ UNCHANGED <<tables, known, public, created>>

----------------------------------------------------------------------------
(* send_group_message: the membership is looked at, and the row stored     *)
(* some awaits later.                                                      *)

MayPost_NotPending(g, u) == Has(g, u) /\ Row(g, u).status # "Pending"
MayPost(g, u) == Active(g, u) /\ (g \in ReadOnly => Row(g, u).role \in MayModerate)
SendGroupMessage(c, u, g) ==
  /\ MayPost(g, u)
  /\ GetGroup(g)
  /\ Begin(c, For("post", g, u, Row(g, u)))
  /\ UNCHANGED <<tables, listed, belongs, created>>

StoreMessage(c) ==
  /\ AtPoint(c, "post")
  /\ posts' = posts \cup {<<task[c].group, task[c].user>>}
  /\ Done(c)
  /\ UNCHANGED <<groups, member, caches, created>>

----------------------------------------------------------------------------
(* get_group_members and get_user_groups: what is loaded is cached later,  *)
(* and of the members only those the query's filter, limit and offset left.*)

ActiveMembers(g)     == {u \in Members : Active(g, u)}
Memberships(u)       == {g \in GroupIds : Active(g, u)}
FilterMemberships(g) == SUBSET ActiveMembers(g)

ListMembers(c, g, users) ==
  /\ listed[g] = Uncached
  /\ users \in FilterMemberships(g)
  /\ Begin(c, [NoTask EXCEPT !.at = "list", !.group = g, !.users = users])
  /\ UNCHANGED <<tables, caches, created>>

FillMembers(c) ==
  /\ AtPoint(c, "list")
  /\ listed' = [listed EXCEPT ![task[c].group] = task[c].users]
  /\ Done(c)
  /\ UNCHANGED <<tables, belongs, known, public, created>>

ListOwn(c, u) ==
  /\ belongs[u] = Uncached
  /\ Begin(c, [NoTask EXCEPT !.at = "belong", !.user = u, !.groups = Memberships(u)])
  /\ UNCHANGED <<tables, caches, created>>

FillOwn(c) ==
  /\ AtPoint(c, "belong")
  /\ belongs' = [belongs EXCEPT ![task[c].user] = task[c].groups]
  /\ Done(c)
  /\ UNCHANGED <<tables, listed, known, public, created>>

----------------------------------------------------------------------------
(* Time, errors and restarts.                                              *)

\* An entry gets past its duration.
AgeMembers(g) ==
  /\ listed[g] # Uncached
  /\ listed' = [listed EXCEPT ![g] = Uncached]
  /\ UNCHANGED <<tables, belongs, known, public, task, created>>
AgeOwn(u) ==
  /\ belongs[u] # Uncached
  /\ belongs' = [belongs EXCEPT ![u] = Uncached]
  /\ UNCHANGED <<tables, listed, known, public, task, created>>
AgeGroup(g) ==
  /\ g \in known
  /\ known' = known \ {g}
  /\ UNCHANGED <<tables, listed, belongs, public, task, created>>

Progress(c) ==
  \/ AddOwner(c) \/ EndCreate(c) \/ AddMember(c) \/ CountOwners(c) \/ SetLeft(c)
  \/ Invalidate(c) \/ StoreMessage(c) \/ FillMembers(c) \/ FillOwn(c)

\* A statement fails, and ? ends the handler where it is.
GroupDbError(c) ==
  /\ task[c].at \in {"own", "add", "count", "leave", "post"}
  /\ Done(c)
  /\ UNCHANGED <<tables, caches, created>>

GroupRestart ==
  /\ listed' = NoLists /\ belongs' = NoneBelong /\ known' = {} /\ public' = {}
  /\ task' = [c \in Callers |-> NoTask]
  /\ UNCHANGED <<tables, created>>

Creating == \E c \in Callers, u \in Members, g \in GroupIds : CreateGroup(c, u, g)

Joining ==
  \E c \in Callers, u \in Members, g \in GroupIds :
    \/ JoinGroup(c, u, g) \/ LeaveGroup(c, u, g) \/ SendGroupMessage(c, u, g)
    \/ \E inviter \in Members, role \in Roles : InviteUser(c, inviter, u, g, role)

Listing ==
  \/ \E c \in Callers, g \in GroupIds, users \in SUBSET Members : ListMembers(c, g, users)
  \/ \E c \in Callers, u \in Members : ListOwn(c, u)
  \/ \E g \in GroupIds : AgeMembers(g)
  \/ \E u \in Members : AgeOwn(u)

Browsing ==
  \/ \E page \in SUBSET GroupIds, named \in BOOLEAN : ListGroups(page, named)
  \/ \E g \in GroupIds : FetchGroup(g) \/ AgeGroup(g)

Continuing == \E c \in Callers : Progress(c) \/ GroupDbError(c)

GroupsNext == Creating \/ Joining \/ Listing \/ Browsing \/ Continuing \/ GroupRestart

GroupsSpec == GroupsInit /\ [][GroupsNext]_groupVars

\* A handler goes on, as its lock or statement is served; time passes.
GroupsFairness ==
  /\ \A c \in Callers : WF_groupVars(Progress(c))
  /\ \A g \in GroupIds : WF_groupVars(AgeMembers(g)) /\ WF_groupVars(AgeGroup(g))
  /\ \A u \in Members : WF_groupVars(AgeOwn(u))

----------------------------------------------------------------------------
(* Properties.                                                             *)

\* A group whose creation succeeded keeps its creator as an active owner, whoever is
\* invited as a second owner, leaves, or counts the owners meanwhile.
CreatorOwns ==
  \A g \in GroupIds, u \in Members :
    <<g, u>> \in created => Active(g, u) /\ Row(g, u).role = "Owner"

\* What join_group says of whoever left or is pending: 'Rejoin', 'update membership'. The
\* row becomes the one that was asked for.
Rejoins ==
  [][\A c \in Callers :
       AddMember(c) => member'[task[c].group][task[c].user] = task[c].row]_groupVars

\* What it does: a membership once there only ever becomes Left, as joining again, after
\* leaving or to accept an invitation, is attempted and fails.
OnlyLeaving ==
  [][\A g \in GroupIds, u \in Members :
       Has(g, u) => \/ member'[g][u] = Row(g, u)
                    \/ member'[g][u] = [Row(g, u) EXCEPT !.status = "Left"]]_groupVars

\* Who is no active member - has no row, is only invited, waits for approval or has left -
\* and has no message on its way posts nothing in the group, whatever joins, leaves,
\* invites and retries overlap, before he becomes one. A message that was let through
\* while he was one may still be stored after he left.
Outside(g, u) ==
  /\ ~Active(g, u)
  /\ \A c \in Callers : AtPoint(c, "post") => <<task[c].group, task[c].user>> # <<g, u>>
PostersBelong ==
  [][\A g \in GroupIds, u \in Members :
       Outside(g, u) => /\ <<g, u>> \in posts' => <<g, u>> \in posts
                        /\ Outside(g, u)' \/ Active(g, u)']_groupVars

\* What was cached before a change is not served for ever: in the end no list shows a
\* member or a membership that was left, and again and again no list of the public groups
\* that lacks one is served, unless queries that name a user keep replacing the one that
\* is. Nobody leaves a group twice.
Shown(g, u) == \/ listed[g] # Uncached /\ u \in listed[g]
               \/ belongs[u] # Uncached /\ g \in belongs[u]
LeftShown   == \E g \in GroupIds, u \in Members :
                 Has(g, u) /\ Row(g, u).status = "Left" /\ Shown(g, u)
Replaced    == PublicServed /\ \E page \in SUBSET GroupIds : ListGroups(page, TRUE)
ListsCatchUp == /\ <>[]~LeftShown
                /\ \/ []<>(PublicServed => groups \cap Public \subseteq public)
                   \/ []<><<Replaced>>_groupVars
=============================================================================
