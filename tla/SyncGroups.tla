----------------------------- MODULE SyncGroups -----------------------------
(* Sync groups: the registry of services/sync/sync_groups.py, the routes of  *)
(* api/sync.py that create, delete, enable and disable a group, and the hook *)
(* services/sync/lifecycle.py by which every teardown of a reservation       *)
(* reaches the registry.                                                     *)
(*                                                                           *)
(* A request thread (or the sweeper) is the list of the steps it has still   *)
(* to take.  A release is two steps, the commit of the DELETE and then the   *)
(* hook, and the hook puts the releases it causes in front of whatever its   *)
(* thread was about to do: that is the recursion release -> _teardown ->     *)
(* on_device_gone -> release of the code.                                    *)
(*                                                                           *)
(* The reservations are the table alone: who holds a device.  Expiry is a    *)
(* release by a thread of its own (Reservations has the clock, the lazy reap *)
(* and the statements of a claim).                                           *)
(*                                                                           *)
(* GroupsInit, GroupsNext, GroupsSpec, groupsVars and GroupsTypeOK have a    *)
(* prefix, so that the theorems on mirroring can extend this module together *)
(* with SyncDispatch.                                                        *)
EXTENDS Integers, Sequences, SequencesExt

CONSTANTS
    Device,     \* devices adb reports
    User,       \* accounts
    Admin,      \* the accounts with role admin or super_admin
    Removable,  \* the accounts an administrator may delete
    Nobody,     \* the holder of a device without a reservation
    None,       \* no device
    Thread,     \* request threads, the sweeper among them
    Wanted,     \* lists of slaves a client may ask for
    MaxGroups,  \* bound on the groups created
    MaxCalls    \* bound on the requests that arrive

ASSUME SyncAssumption ==
    /\ Admin \subseteq User
    /\ Removable \subseteq User
    /\ Nobody \notin User
    /\ None \notin Device
    /\ Wanted \subseteq SUBSET Device /\ \A slaves \in Wanted : IsFiniteSet(slaves)
    /\ MaxGroups \in Nat
    /\ MaxCalls \in Nat

VARIABLES
    users,    \* the accounts that exist
    holder,   \* device_reservations: the user a device is reserved by
    groups,   \* the SyncGroup objects made so far, by order of creation
    listed,   \* _groups: the ones the registry knows
    thread,   \* what each thread is doing and has still to do
    calls     \* requests so far

groupsVars == <<users, holder, groups, listed, thread, calls>>
registry == <<groups, listed>>

-----------------------------------------------------------------------------
(* Groups, threads and steps.                                                *)

Group == [owner : User, master : Device, slaves : Seq(Device), enabled : BOOLEAN]

GroupId == 1..MaxGroups

Step == [do : {"ask", "create", "claim", "insert", "delete", "hook",
               "drop", "dissolve", "enable", "disable"},
         dev : Device \cup {None}]

\* user: the caller; group: the one the request is about; wanted: master and
\* slaves asked for; claimed: the local of create_group; todo: what is left.
Request == [op : {"create", "delete", "set", "release"}, user : User \cup {Nobody},
         group : GroupId \cup {0}, wanted : Seq(Device), claimed : Seq(Device),
         todo : Seq(Step)]

NoRequest == [op |-> "release", user |-> Nobody, group |-> 0,
         wanted |-> <<>>, claimed |-> <<>>, todo |-> <<>>]

Do(what, d) == [do |-> what, dev |-> d]

Each(what, devices) == [i \in DOMAIN devices |-> Do(what, devices[i])]

\* reservations.release, once per device: the DELETE, then the teardown.
Releases(devices) ==
    [i \in 1 .. 2 * Len(devices) |->
        Do(IF i % 2 = 1 THEN "delete" ELSE "hook", devices[(i + 1) \div 2])]

Members(g) == <<groups[g].master>> \o groups[g].slaves

\* _find_group_for_device, over the groups the registry knows.
Grouped(d) == \E g \in listed : d \in ToSet(Members(g))

CanManage(u, g) == groups[g].owner = u \/ u \in Admin

GroupsInit ==
    /\ users = User
    /\ holder = [d \in Device |-> Nobody]
    /\ groups = <<>>
    /\ listed = {}
    /\ thread = [t \in Thread |-> NoRequest]
    /\ calls = 0

-----------------------------------------------------------------------------
(* Requests arriving.                                                        *)

Busy(t) == thread[t].todo # <<>>

Arrive(t, work) ==
    /\ ~Busy(t)
    /\ calls < MaxCalls
    /\ calls' = calls + 1
    /\ thread' = [thread EXCEPT ![t] = work]
    /\ UNCHANGED <<users, holder, registry>>

\* POST /sync-groups.  The slaves are the list of the body without the master
\* and without duplicates.
CreateArrives(t, u, m, slaves) ==
    /\ u \in users
    /\ Len(groups) < MaxGroups
    /\ LET wanted == <<m>> \o SetToSeq(slaves \ {m})
       IN  Arrive(t, [NoRequest EXCEPT !.op = "create", !.user = u, !.wanted = wanted,
                        !.todo = Append(Each("ask", wanted), Do("create", None))])

\* DELETE /sync-groups/<id>: found, and the caller may manage it.
DeleteArrives(t, u, g) ==
    /\ u \in users
    /\ g \in listed
    /\ CanManage(u, g)
    /\ Arrive(t, [NoRequest EXCEPT !.op = "delete", !.user = u, !.group = g,
                              !.todo = <<Do("dissolve", None)>>])

\* POST /sync-groups/<id>/enable and /disable.
SetArrives(t, u, g, what) ==
    /\ u \in users
    /\ g \in listed
    /\ CanManage(u, g)
    /\ Arrive(t, [NoRequest EXCEPT !.op = "set", !.user = u, !.group = g,
                              !.todo = <<Do(what, None)>>])

\* Any other release of a reservation: by its owner, by an administrator, by
\* the expiry sweep or a get that meets an expired row.
ReleaseArrives(t, d) ==
    /\ holder[d] # Nobody
    /\ Arrive(t, [NoRequest EXCEPT !.user = holder[d], !.todo = Releases(<<d>>)])

\* A claim outside of the groups: the row goes in if there is none.
Claimed(u, d) ==
    /\ u \in users
    /\ holder[d] = Nobody
    /\ calls < MaxCalls
    /\ calls' = calls + 1
    /\ holder' = [holder EXCEPT ![d] = u]
    /\ UNCHANGED <<users, registry, thread>>

\* Deleting an account: its rows go with it, by the foreign key.
AccountDeleted(u) ==
    /\ u \in users \cap Removable
    /\ users' = users \ {u}
    /\ holder' = [d \in Device |-> IF holder[d] = u THEN Nobody ELSE holder[d]]
    /\ UNCHANGED <<registry, thread, calls>>

-----------------------------------------------------------------------------
(* The steps of a thread.                                                    *)

Doing(t, what) == Busy(t) /\ Head(thread[t].todo).do = what
Dev(t) == Head(thread[t].todo).dev
Rest(t) == Tail(thread[t].todo)

\* A thread with nothing left to do has answered its request.
Continue(t, work, steps) ==
    thread' = [thread EXCEPT ![t] =
                   IF steps = <<>> THEN NoRequest ELSE [work EXCEPT !.todo = steps]]

\* create_group, 1): the device is free or the caller's already.
Ask(t) ==
    /\ Doing(t, "ask")
    /\ Continue(t, thread[t],
                IF holder[Dev(t)] \in {Nobody, thread[t].user} THEN Rest(t) ELSE <<>>)
    /\ UNCHANGED <<users, holder, registry, calls>>

\* Mutant: only the master is looked up.
MayGroup_master_only(wanted) == ~Grouped(wanted[1])

\* No slave, or a device that is in a group already: SyncGroupError.
MayGroup(wanted) == Len(wanted) > 1 /\ \A i \in DOMAIN wanted : ~Grouped(wanted[i])

\* create_group, 2): sync_groups.create_group, in one section of its lock, and
\* the claims it is followed by.
Create(t) ==
    LET wanted == thread[t].wanted
        g == Len(groups) + 1
    IN  /\ Doing(t, "create")
        /\ IF MayGroup(wanted) /\ g \in GroupId
           THEN /\ groups' = Append(groups,
                       [owner |-> thread[t].user, master |-> wanted[1],
                        slaves |-> Tail(wanted), enabled |-> TRUE])
                /\ listed' = listed \cup {g}
                /\ Continue(t, [thread[t] EXCEPT !.group = g], Each("claim", wanted))
           ELSE Continue(t, thread[t], <<>>) /\ UNCHANGED registry
        /\ UNCHANGED <<users, holder, calls>>

\* The rollback of create_group: what was claimed, then the group.
RollBack(t) == Releases(thread[t].claimed) \o <<Do("drop", None)>>

NowClaimed(t) == [thread[t] EXCEPT !.claimed = Append(@, Dev(t))]

\* reservations.claim up to its get: the device left adb, somebody else holds
\* it, the caller does (the claim extends the row), or nobody.
Claim(t) ==
    /\ Doing(t, "claim")
    /\ \/ Continue(t, thread[t], RollBack(t))
       \/ /\ holder[Dev(t)] = thread[t].user
          /\ Continue(t, NowClaimed(t), Rest(t))
       \/ /\ holder[Dev(t)] = Nobody
          /\ Continue(t, thread[t], <<Do("insert", Dev(t))>> \o Rest(t))
    /\ UNCHANGED <<users, holder, registry, calls>>

\* Its INSERT: the primary key and the foreign key decide.
Insert(t) ==
    LET d == Dev(t) IN
    /\ Doing(t, "insert")
    /\ IF holder[d] = Nobody /\ thread[t].user \in users
       THEN /\ holder' = [holder EXCEPT ![d] = thread[t].user]
            /\ Continue(t, NowClaimed(t), Rest(t))
       ELSE Continue(t, thread[t], RollBack(t)) /\ UNCHANGED holder
    /\ UNCHANGED <<users, registry, calls>>

\* Mutant: the row is blanked instead of removed.
Delete_blank(t) ==
    /\ Doing(t, "delete")
    /\ holder' = [holder EXCEPT ![Dev(t)] = None]
    /\ Continue(t, thread[t], Rest(t))
    /\ UNCHANGED <<users, registry, calls>>

\* reservations.release: the row of the device goes, whoever's it is.
Delete(t) ==
    /\ Doing(t, "delete")
    /\ holder' = [holder EXCEPT ![Dev(t)] = Nobody]
    /\ Continue(t, thread[t], Rest(t))
    /\ UNCHANGED <<users, registry, calls>>

-----------------------------------------------------------------------------
(* sync_groups.remove_device and on_device_gone.                             *)

MasterOf(d) == {g \in listed : groups[g].master = d}

\* Mutant: a device that is the last slave stays in its group.
Without_last(g, d) ==
    IF Len(groups[g].slaves) = 1 THEN groups[g]
    ELSE [groups[g] EXCEPT !.slaves = RemoveFirst(@, d)]

\* The group without one of its slaves; without the last it is disabled.
Without(g, d) ==
    LET left == RemoveFirst(groups[g].slaves, d) IN
    [groups[g] EXCEPT !.slaves = left, !.enabled = @ /\ left # <<>>]

\* The groups whose master the device is are dropped, and their slaves released
\* whoever holds them, in some order; from the others it is removed.
Hook(t) ==
    LET d == Dev(t)
        gone == MasterOf(d)
        orphans == UNION {ToSet(groups[g].slaves) : g \in gone}
    IN  /\ Doing(t, "hook")
        /\ listed' = listed \ gone
        /\ groups' = [g \in DOMAIN groups |->
                         IF g \in listed \ gone /\ d \in ToSet(groups[g].slaves)
                         THEN Without(g, d) ELSE groups[g]]
        /\ Continue(t, thread[t], Releases(SetToSeq(orphans)) \o Rest(t))
        /\ UNCHANGED <<users, holder, calls>>

-----------------------------------------------------------------------------
(* sync_groups.delete_group and set_enabled.                                 *)

\* The last step of a rollback.
Drop(t) ==
    /\ Doing(t, "drop")
    /\ listed' = listed \ {thread[t].group}
    /\ Continue(t, thread[t], Rest(t))
    /\ UNCHANGED <<users, holder, groups, calls>>

\* The delete route: the slaves are released also when the group was gone by
\* then, for the route still has the object it looked up.
Dissolve(t) ==
    /\ Doing(t, "dissolve")
    /\ listed' = listed \ {thread[t].group}
    /\ Continue(t, thread[t], Releases(groups[thread[t].group].slaves))
    /\ UNCHANGED <<users, holder, groups, calls>>

SetEnabled(t) ==
    LET g == thread[t].group IN
    /\ Doing(t, "enable") \/ Doing(t, "disable")
    /\ groups' = IF g \in listed
                 THEN [groups EXCEPT ![g].enabled = Doing(t, "enable")]
                 ELSE groups
    /\ Continue(t, thread[t], Rest(t))
    /\ UNCHANGED <<users, holder, listed, calls>>

ThreadStep(t) ==
    \/ Ask(t) \/ Create(t) \/ Claim(t) \/ Insert(t) \/ Delete(t)
    \/ Hook(t) \/ Drop(t) \/ Dissolve(t) \/ SetEnabled(t)

GroupsNext ==
    \/ \E t \in Thread :
        \/ ThreadStep(t)
        \/ \E u \in User, m \in Device, s \in Wanted : CreateArrives(t, u, m, s)
        \/ \E u \in User, g \in listed : DeleteArrives(t, u, g)
        \/ \E u \in User, g \in listed, w \in {"enable", "disable"} : SetArrives(t, u, g, w)
        \/ \E d \in Device : ReleaseArrives(t, d)
    \/ \E u \in User, d \in Device : Claimed(u, d)
    \/ \E u \in User : AccountDeleted(u)

GroupsSpec == GroupsInit /\ [][GroupsNext]_groupsVars

-----------------------------------------------------------------------------
(* Properties.                                                               *)

\* Every variable has its type.
GroupsTypeOK ==
    /\ users \subseteq User
    /\ holder \in [Device -> User \cup {Nobody}]
    /\ groups \in Seq(Group)
    /\ Len(groups) <= MaxGroups
    /\ listed \subseteq DOMAIN groups
    /\ thread \in [Thread -> Request]
    /\ calls \in 0..MaxCalls

\* A device is in one group at most, as master or as one of its slaves, and no
\* list names a slave twice, whatever requests create and dissolve at once.
OneGroupPerDevice ==
    \A g \in listed : /\ IsInjective(Members(g))
                      /\ \A h \in listed \ {g} :
                            ToSet(Members(g)) \cap ToSet(Members(h)) = {}

\* Somebody is about to tell the registry that the device is gone.
HookOwed(d) == \E t \in Thread : Contains(thread[t].todo, Do("hook", d))

\* The request that makes the group has not claimed the device yet, or is
\* taking the group back.
BeingMade(g, d) ==
    \E t \in Thread :
        /\ thread[t].op = "create"
        /\ thread[t].group = g
        /\ \/ Contains(thread[t].todo, Do("claim", d))
           \/ Contains(thread[t].todo, Do("insert", d))
           \/ Contains(thread[t].todo, Do("drop", None))

\* Every member of a group is reserved by its owner, or somebody is about to
\* take it out: this is what lets the coordinate fan-out inject into the members
\* of a group without asking for the reservation again.  A deleted account is the
\* exception, for its reservations go without a teardown.
GroupBacked ==
    \A g \in listed :
        groups[g].owner \in users =>
            \A i \in DOMAIN Members(g) :
                LET d == Members(g)[i] IN
                holder[d] = groups[g].owner \/ HookOwed(d) \/ BeingMade(g, d)

\* A request that creates a group takes back no reservation it has not made:
\* "Roll back: release whatever we grabbed" (api/sync.py, create_group).
RollbackIsOwn ==
    [][\A t \in Thread :
          (/\ thread[t].op = "create" /\ Doing(t, "delete")
           /\ thread'[t] # thread[t] /\ holder[Dev(t)] # Nobody)
          => Contains(thread[t].claimed, Dev(t))]_groupsVars
=============================================================================
