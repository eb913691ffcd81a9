------------------------------- MODULE Schema -------------------------------
(***************************************************************************)
(* How the tables "groups" and "group_members" come to have the columns    *)
(* the program uses.  Two pieces of code see to it.                        *)
(*                                                                         *)
(* migrations.Run (internal/db/migrations/migrate.go), when an instance    *)
(* starts with AUTO_MIGRATE, is one transaction: what it changes becomes   *)
(* visible at its commit, and it keeps every table lock until then.        *)
(*                                                                         *)
(* GroupRepo.ensureTable (internal/repo/group_repo.go), at the start of    *)
(* every call of GroupRepo, works statement by statement, each committed   *)
(* at once and each on a connection of its own, whatever transaction the   *)
(* caller has open.  Any number of goroutines run it at the same time, and *)
(* it may stop anywhere.                                                   *)
(*                                                                         *)
(* There is one group.  Its messages carry the times sent, in any order:   *)
(* created_at is taken before the group's row is locked.  Of an avatar     *)
(* only whether a column has one is told.                                  *)
(* Tables with group_id of the wrong type, which both pieces of code drop, *)
(* are left out.                                                           *)
(***************************************************************************)
EXTENDS Naturals, Sequences, SequencesExt

CONSTANTS
    Callers,        \* goroutines calling GroupRepo
    Instances,      \* instances of the server that start
    Found,          \* the tables the first one may find
    MaxTime         \* bound on the clock

Columns == {"avatar_c_id", "avatar_cid", "last_message_at", "last_message_at_ms"}
Canonical == {"avatar_cid", "last_message_at"}
Avatars == {"avatar_c_id", "avatar_cid"}

\* "groups" as it may be found: no columns mean that there is no table.  Every
\* version has created it with an avatar column.  A column may be empty, or filled
\* before another one was added; a time is that of some message.
FoundOK(f) ==
    /\ f.columns \subseteq Columns /\ f.sent \subseteq 1..MaxTime
    /\ f.columns = {} => f.sent = {}
    /\ f.columns # {} => f.columns \cap Avatars # {}
    /\ f.group \in [Columns -> {0, 1} \cup f.sent]
    /\ \A c \in Columns \ Avatars : f.group[c] \in {0} \cup f.sent
    /\ \A c \in Columns \ f.columns : f.group[c] = 0

ASSUME SchemaAssumption ==
    /\ Callers \cap Instances = {}
    /\ MaxTime \in Nat \ {0}
    /\ \A f \in Found : FoundOK(f)

VARIABLES
    columns,        \* columns of "groups" that differ between versions
    group,          \* the group's value in each column, 0 where there is none
    members,        \* whether "group_members" exists
    sent,           \* created_at of every message of the group, in seconds
    proc,           \* what each goroutine and each starting instance is doing
    queue           \* who waits for a lock on "groups", in order

schemaVars == <<columns, group, members, sent, proc, queue>>

Procs == Callers \cup Instances

HasTable == columns # {}

\* pc is the next statement; stage tells what the transaction of a caller has
\* locked so far, and lock what Run has locked of "groups"; rename, hasUnix and
\* hasMs are what the catalog said.
Proc == [pc : {"idle", "avatar", "canonical", "alterAvatar", "unix", "ms", "add",
               "copy", "drop", "fill", "tables", "createGroups",
               "createMembers", "ready", "lock", "row", "update", "index",
               "indexMembers", "alter", "commit"},
         stage : {"none", "table", "group", "member"}, lock : {"none", "S", "AX"},
         rename : BOOLEAN, hasUnix : BOOLEAN, hasMs : BOOLEAN]

Idle == [pc |-> "idle", stage |-> "none", lock |-> "none",
         rename |-> FALSE, hasUnix |-> FALSE, hasMs |-> FALSE]

At(p, pc) == proc[p].pc = pc
Goto(p, pc) == proc' = [proc EXCEPT ![p].pc = pc]
-----------------------------------------------------------------------------
(***************************************************************************)
(* Table locks: RS of SELECT ... FOR UPDATE, RE of UPDATE, S of CREATE     *)
(* INDEX (even of one that exists) and AX of ALTER TABLE.  Who asks waits  *)
(* for those who hold, or asked earlier for, a mode that conflicts.        *)
(***************************************************************************)
Conflict(m, n) == \/ "AX" \in {m, n}
                  \/ {m, n} = {"S", "RE"}

\* Run does not ask twice for what it has.
Wants(p) ==
    LET r == proc[p] IN
    CASE r.pc \in {"add", "drop"} -> "AX"
      [] r.pc = "alterAvatar" -> "AX"
      [] r.pc = "alter" -> IF r.lock = "AX" \/ columns \in {{}, Canonical}
                           THEN "none" ELSE "AX"
      [] r.pc = "index" -> IF r.lock = "AX" \/ ~HasTable THEN "none" ELSE "S"
      [] r.pc = "createGroups" -> IF HasTable THEN "S" ELSE "none"
      [] r.pc \in {"copy", "fill", "update"} -> "RE"
      [] r.pc = "lock" -> "RS"
      [] OTHER -> "none"

Holds(p) == IF proc[p].stage # "none" THEN {"RS"}
            ELSE {proc[p].lock} \ {"none"}

\* The next statement of p is on the connection of p's transaction.
InTransaction(p) == p \in Instances \/ proc[p].pc \in {"lock", "row", "update"}

\* How many are before p: p comes last, but before the first of those who wait
\* for what p's transaction already holds.
Before(p) ==
    LET mine == {i \in DOMAIN queue : queue[i] = p}
        held == IF InTransaction(p) THEN Holds(p) ELSE {}
        behind == {i \in DOMAIN queue :
                     \E m \in held : Conflict(m, Wants(queue[i]))}
        place == IF mine # {} THEN mine ELSE behind
    IN IF place = {} THEN Len(queue) ELSE Min(place) - 1

\* Those p has to wait for.  The statements of ensureTable run on another
\* connection than the caller's own transaction, so a caller may be among them.
WaitsFor(p) ==
    IF Wants(p) = "none" THEN {}
    ELSE {q \in Procs : /\ q # p \/ ~InTransaction(p)
                        /\ \E m \in Holds(q) : Conflict(Wants(p), m)}
         \cup {q \in Range(SubSeq(queue, 1, Before(p))) :
                 Conflict(Wants(p), Wants(q))}

Ask(p) ==
    /\ WaitsFor(p) # {}
    /\ p \notin Range(queue)
    /\ queue' = InsertAt(queue, Before(p) + 1, p)
    /\ UNCHANGED <<columns, group, members, sent, proc>>

\* The lock is p's; a statement of ensureTable gives it back when it is done.
Granted(p) ==
    /\ WaitsFor(p) = {}
    /\ queue' = RemoveFirst(queue, p)

\* The group's row is locked by a transaction.
RowLocked == \E w \in Callers : proc[w].stage \in {"group", "member"}

\* Run is past CREATE TABLE, and of "group_members" past CREATE INDEX.
MayHaveCreated(s) == proc[s].pc \in {"indexMembers", "alter", "commit"}
MembersLocked(s) == proc[s].pc \in {"alter", "commit"}
-----------------------------------------------------------------------------
SchemaInit ==
    /\ \E f \in Found :
         columns = f.columns /\ group = f.group /\ sent = f.sent
    /\ members \in {HasTable, FALSE}
    /\ proc = [p \in Procs |-> Idle]
    /\ queue = <<>>
-----------------------------------------------------------------------------
(***************************************************************************)
(* Statements of ensureTable, and those Run has in common with it          *)
(***************************************************************************)
Begin(p) ==
    /\ At(p, "idle")
    /\ Goto(p, "avatar")
    /\ UNCHANGED <<columns, group, members, sent, queue>>

\* renameLegacyGroupAvatarColumn: is there the old column ...
HasLegacyColumn(p) ==
    /\ At(p, "avatar")
    /\ Goto(p, IF "avatar_c_id" \in columns THEN "canonical"
               ELSE IF p \in Callers THEN "unix" ELSE "index")
    /\ UNCHANGED <<columns, group, members, sent, queue>>

\* Fault: the old column is dropped in any case.
HasCanonicalColumn_Drop(p) ==
    /\ At(p, "canonical")
    /\ proc' = [proc EXCEPT ![p].pc = "alterAvatar", ![p].rename = FALSE]
    /\ UNCHANGED <<columns, group, members, sent, queue>>

\* ... and the new one?  If so the old one is dropped, else it is renamed.
HasCanonicalColumn(p) ==
    /\ At(p, "canonical")
    /\ proc' = [proc EXCEPT ![p].pc = "alterAvatar",
                            ![p].rename = "avatar_cid" \notin columns]
    /\ UNCHANGED <<columns, group, members, sent, queue>>

\* RENAME COLUMN fails unless the old column is there and the new one is not;
\* DROP COLUMN IF EXISTS never fails.
AvatarAltered(p) ==
    IF proc[p].rename
    THEN /\ "avatar_c_id" \in columns /\ "avatar_cid" \notin columns
         /\ columns' = (columns \ {"avatar_c_id"}) \cup {"avatar_cid"}
         /\ group' = [group EXCEPT !["avatar_cid"] = group["avatar_c_id"],
                                   !["avatar_c_id"] = 0]
    ELSE /\ columns' = columns \ {"avatar_c_id"}
         /\ group' = [group EXCEPT !["avatar_c_id"] = 0]

AlterAvatar(w) ==
    /\ w \in Callers
    /\ At(w, "alterAvatar")
    /\ Granted(w)
    /\ AvatarAltered(w)
    /\ proc' = [proc EXCEPT ![w].pc = "unix", ![w].rename = FALSE]
    /\ UNCHANGED <<members, sent>>

\* ensureLastMessageAtColumn: is there last_message_at ...
HasUnix(w) ==
    /\ At(w, "unix")
    /\ IF HasTable
       THEN proc' = [proc EXCEPT ![w].pc = "ms",
                                 ![w].hasUnix = "last_message_at" \in columns]
       ELSE Goto(w, "tables")
    /\ UNCHANGED <<columns, group, members, sent, queue>>

\* ... and last_message_at_ms?
HasMs(w) ==
    LET hasMs == "last_message_at_ms" \in columns IN
    /\ At(w, "ms")
    /\ proc' = [proc EXCEPT ![w].hasMs = hasMs /\ ~proc[w].hasUnix,
                            ![w].hasUnix = FALSE,
                            ![w].pc = IF ~proc[w].hasUnix THEN "add"
                                      ELSE IF hasMs THEN "drop" ELSE "fill"]
    /\ UNCHANGED <<columns, group, members, sent, queue>>

AddColumn(w) ==
    /\ At(w, "add")
    /\ Granted(w)
    /\ HasTable /\ "last_message_at" \notin columns
    /\ columns' = columns \cup {"last_message_at"}
    /\ proc' = [proc EXCEPT ![w].pc = IF proc[w].hasMs THEN "copy" ELSE "fill",
                            ![w].hasMs = FALSE]
    /\ UNCHANGED <<group, members, sent>>

CopyMs(w) ==
    /\ At(w, "copy")
    /\ Granted(w)
    /\ "last_message_at_ms" \in columns
    /\ group' = IF group["last_message_at_ms"] = 0 THEN group
                ELSE [group EXCEPT !["last_message_at"] =
                                     group["last_message_at_ms"]]
    /\ Goto(w, "drop")
    /\ UNCHANGED <<columns, members, sent>>

DropMs(w) ==
    /\ At(w, "drop")
    /\ Granted(w)
    /\ "last_message_at_ms" \in columns
    /\ columns' = columns \ {"last_message_at_ms"}
    /\ group' = [group EXCEPT !["last_message_at_ms"] = 0]
    /\ Goto(w, "fill")
    /\ UNCHANGED <<members, sent>>

\* Fault: nothing is filled in.
Backfilled_Never(g) == g

\* Fault: a time that is there already is replaced.
Backfilled_Always(g) ==
    IF sent = {} THEN g ELSE [g EXCEPT !["last_message_at"] = Max(sent)]

\* A group with messages and no time gets the greatest time of its messages,
\* which need not be that of the last one.
Backfilled(g) ==
    IF sent = {} \/ g["last_message_at"] # 0 THEN g
    ELSE [g EXCEPT !["last_message_at"] = Max(sent)]

\* The UPDATE waits for the lock on a row it is going to change.
backfillGroupLastMessageAt(w) ==
    /\ At(w, "fill")
    /\ Granted(w)
    /\ "last_message_at" \in columns
    /\ Backfilled(group) # group => ~RowLocked
    /\ group' = Backfilled(group)
    /\ Goto(w, "tables")
    /\ UNCHANGED <<columns, members, sent>>

HasTables(w) ==
    /\ At(w, "tables")
    /\ Goto(w, IF ~HasTable THEN "createGroups"
               ELSE IF ~members THEN "createMembers" ELSE "ready")
    /\ UNCHANGED <<columns, group, members, sent, queue>>

\* CREATE ... IF NOT EXISTS; what a transaction of Run has created holds it up.
ensureCanonicalGroupTable(w) ==
    /\ At(w, "createGroups")
    /\ HasTable \/ \A s \in Instances : ~MayHaveCreated(s)
    /\ Granted(w)
    /\ columns' = IF HasTable THEN columns ELSE Canonical
    /\ Goto(w, "createMembers")
    /\ UNCHANGED <<group, members, sent>>

ensureCanonicalGroupMemberTable(w) ==
    /\ At(w, "createMembers")
    /\ IF members THEN \A v \in Callers : proc[v].stage # "member"
       ELSE \A s \in Instances : ~MayHaveCreated(s)
    /\ members' = TRUE
    /\ Goto(w, "ready")
    /\ UNCHANGED <<columns, group, sent, queue>>
-----------------------------------------------------------------------------
(***************************************************************************)
(* What callers of ensureTable do next                                     *)
(***************************************************************************)
\* A read returns; a send and an invitation have begun a transaction.
UseGroup(w) ==
    /\ At(w, "ready")
    /\ proc[w].stage = "none"
    /\ \/ proc' = [proc EXCEPT ![w] = Idle]
       \/ Goto(w, "lock")
    /\ UNCHANGED <<columns, group, members, sent, queue>>

\* SELECT ... FOR UPDATE locks the table and then the group's row.
GetByIDForUpdate(w) ==
    /\ At(w, "lock")
    /\ Granted(w)
    /\ proc' = [proc EXCEPT ![w].pc = "row", ![w].stage = "table"]
    /\ UNCHANGED <<columns, group, members, sent>>

\* A send goes on with the UPDATE; an invitation, for each of two peers, with
\* GetMemberForUpdate, which calls ensureTable first, and the INSERT.
LockRow(w) ==
    /\ At(w, "row")
    /\ ~RowLocked
    /\ \E next \in {"update", "avatar"} :
         proc' = [proc EXCEPT ![w].pc = next, ![w].stage = "group"]
    /\ UNCHANGED <<columns, group, members, sent, queue>>

\* Fault: the time of the message is not stored.
IncrementLastSeq_NoTime(w) ==
    /\ At(w, "update")
    /\ Granted(w)
    /\ \E t \in 1..MaxTime : sent' = sent \cup {t}
    /\ proc' = [proc EXCEPT ![w] = Idle]
    /\ UNCHANGED <<columns, group, members>>

\* The UPDATE, the INSERT of the message and the commit.  The handler took the
\* time before it waited for the lock, so it may be earlier than the group's.
IncrementLastSeq(w) ==
    /\ At(w, "update")
    /\ Granted(w)
    /\ \E t \in 1..MaxTime :
         /\ sent' = sent \cup {t}
         /\ group' = [group EXCEPT !["last_message_at"] = t]
    /\ proc' = [proc EXCEPT ![w] = Idle]
    /\ UNCHANGED <<columns, members>>

\* An instance that has indexed "group_members" holds the INSERT up.
InsertMember(w) ==
    /\ At(w, "ready")
    /\ proc[w].stage = "group"
    /\ \A s \in Instances : ~MembersLocked(s)
    /\ proc' = [proc EXCEPT ![w].pc = "avatar", ![w].stage = "member"]
    /\ UNCHANGED <<columns, group, members, sent, queue>>

CommitInvitation(w) ==
    /\ At(w, "ready")
    /\ proc[w].stage = "member"
    /\ proc' = [proc EXCEPT ![w] = Idle]
    /\ UNCHANGED <<columns, group, members, sent, queue>>
-----------------------------------------------------------------------------
(***************************************************************************)
(* migrations.Run: its own statements; nothing shows before the commit     *)
(***************************************************************************)
\* RENAME fails if somebody else has renamed meanwhile; DROP does not.
RunAlterAvatar(s) ==
    /\ s \in Instances
    /\ At(s, "alterAvatar")
    /\ Granted(s)
    /\ proc[s].rename => "avatar_c_id" \in columns /\ "avatar_cid" \notin columns
    /\ proc' = [proc EXCEPT ![s].pc = "index", ![s].lock = "AX",
                            ![s].rename = FALSE]
    /\ UNCHANGED <<columns, group, members, sent>>

\* ensureCanonicalGroupTables: CREATE TABLE and CREATE INDEX on "groups" ...
RunIndex(s) ==
    /\ At(s, "index")
    /\ Granted(s)
    /\ proc' = [proc EXCEPT ![s].pc = "indexMembers",
                            ![s].lock = IF @ = "AX" \/ ~HasTable THEN @ ELSE "S"]
    /\ UNCHANGED <<columns, group, members, sent>>

\* ... and on "group_members", which waits for those who insert there.
RunIndexMembers(s) ==
    /\ At(s, "indexMembers")
    /\ \A v \in Callers : proc[v].stage # "member"
    /\ Goto(s, "alter")
    /\ UNCHANGED <<columns, group, members, sent, queue>>

\* ensureGroupLastMessageAtColumn: the ALTER TABLEs the columns call for.
RunAlter(s) ==
    /\ At(s, "alter")
    /\ Granted(s)
    /\ proc' = [proc EXCEPT ![s].pc = "commit",
                            ![s].lock = IF Wants(s) = "AX" THEN "AX" ELSE @]
    /\ UNCHANGED <<columns, group, members, sent>>

\* The group with canonical columns: the times of the old column are copied
\* unless the new one was there.
Migrated ==
    [c \in Columns |->
       CASE c = "avatar_cid" -> group[IF c \in columns THEN c ELSE "avatar_c_id"]
         [] c = "last_message_at" ->
              group[IF c \in columns THEN c ELSE "last_message_at_ms"]
         [] OTHER -> 0]

\* The backfill, and all of it becomes visible.
RunCommit(s) ==
    /\ At(s, "commit")
    /\ Backfilled(Migrated) # Migrated => ~RowLocked
    /\ columns' = Canonical
    /\ group' = IF HasTable THEN Backfilled(Migrated) ELSE group
    /\ members' = TRUE
    /\ proc' = [proc EXCEPT ![s] = Idle]
    /\ UNCHANGED <<sent, queue>>
-----------------------------------------------------------------------------
(***************************************************************************)
(* Errors                                                                  *)
(***************************************************************************)
Stopped(p) ==
    /\ proc' = [proc EXCEPT ![p] = Idle]
    /\ queue' = RemoveFirst(queue, p)
    /\ UNCHANGED <<columns, group, members, sent>>

\* The statement has its lock, but not the columns it was chosen for: the call
\* returns the error and its transaction is rolled back.
Refused(p) ==
    /\ WaitsFor(p) = {}
    /\ \/ /\ At(p, "alterAvatar")
          /\ proc[p].rename
          /\ "avatar_c_id" \notin columns \/ "avatar_cid" \in columns
       \/ At(p, "add") /\ "last_message_at" \in columns
       \/ proc[p].pc \in {"copy", "drop"} /\ "last_message_at_ms" \notin columns
    /\ Stopped(p)

\* A process dies, or a statement fails for a reason of its own.
Fail(p) ==
    /\ ~At(p, "idle")
    /\ Stopped(p)
-----------------------------------------------------------------------------
\* What p does once it has begun.
Statement(p) ==
    \/ Ask(p)
    \/ HasLegacyColumn(p)
    \/ HasCanonicalColumn(p)
    \/ AlterAvatar(p)
    \/ HasUnix(p)
    \/ HasMs(p)
    \/ AddColumn(p)
    \/ CopyMs(p)
    \/ DropMs(p)
    \/ backfillGroupLastMessageAt(p)
    \/ HasTables(p)
    \/ ensureCanonicalGroupTable(p)
    \/ ensureCanonicalGroupMemberTable(p)
    \/ UseGroup(p)
    \/ GetByIDForUpdate(p)
    \/ LockRow(p)
    \/ IncrementLastSeq(p)
    \/ InsertMember(p)
    \/ CommitInvitation(p)
    \/ RunAlterAvatar(p)
    \/ RunIndex(p)
    \/ RunIndexMembers(p)
    \/ RunAlter(p)
    \/ RunCommit(p)
    \/ Refused(p)

SchemaNext == \E p \in Procs : Begin(p) \/ Statement(p) \/ Fail(p)

SchemaSpec == SchemaInit /\ [][SchemaNext]_schemaVars

\* PostgreSQL serves those who wait for a lock in turn, so nobody who can go on
\* again and again is left behind for ever.
SchemaFairSpec == SchemaSpec /\ \A p \in Procs : SF_schemaVars(Statement(p))
-----------------------------------------------------------------------------
(***************************************************************************)
(* Properties                                                              *)
(***************************************************************************)
SchemaTypeOK ==
    /\ columns \subseteq Columns
    /\ group \in [Columns -> 0..MaxTime]
    /\ \A c \in Columns \ columns : group[c] = 0
    /\ members \in BOOLEAN
    /\ sent \subseteq 1..MaxTime
    /\ proc \in [Procs -> Proc]
    /\ queue \in Seq(Procs)

\* A call that ensureTable lets through finds both tables with the columns the
\* program uses, and a group that has the time of one of its messages as soon as
\* it has messages, wherever earlier calls, or an earlier start, were interrupted.
ReadyIsCanonical ==
    \A w \in Callers : proc[w].pc \in {"ready", "lock", "row", "update"} =>
        /\ columns = Canonical
        /\ members
        /\ group["last_message_at"] \in IF sent = {} THEN {0} ELSE sent

\* A time in last_message_at is replaced by a send and by nothing else: the copy
\* of the old column and the backfill, which any number of goroutines run while
\* others send, fill in only what is missing.
TimeKept ==
    [][group'["last_message_at"] # group["last_message_at"] =>
         \/ group["last_message_at"] = 0
         \/ \E p \in Procs : At(p, "update") /\ At(p, "idle")']_schemaVars

\* The avatar of a group whose columns are these.
Avatar(g) == IF g["avatar_cid"] # 0 THEN g["avatar_cid"] ELSE g["avatar_c_id"]

\* The avatar is lost only where the old column stands beside an empty new one,
\* and nothing the program does brings that about: it has been found so.
AvatarKept ==
    [][/\ Avatar(group') # Avatar(group) =>
            Avatars \subseteq columns /\ group["avatar_cid"] = 0
       /\ Avatars \subseteq columns' => Avatars \subseteq columns]_schemaVars

\* p waits for q: for a lock on "groups", for the lock on the group's row, or
\* for the rows q has inserted in "group_members".
Blocks(q, p) ==
    \/ q \in WaitsFor(p)
    \/ /\ proc[q].stage \in {"group", "member"}
       /\ At(p, "commit") /\ Backfilled(Migrated) # Migrated
    \/ proc[q].stage = "member" /\ At(p, "indexMembers")

\* The cycle the database cannot see: ensureTable, called within a transaction
\* and on another connection, waits for somebody who waits for the transaction.
Jammed == \E w \in Callers, q \in Procs :
              /\ q # w /\ proc[w].stage # "none"
              /\ Blocks(q, w)
              /\ Blocks(w, q)

\* Every call and every start comes to an end, unless it stands still while there
\* is such a cycle, in it or behind it: a call that can go on does, and no call
\* waits for its own transaction.
CallsEnd ==
    \A p \in Procs :
        ~At(p, "idle") ~> (At(p, "idle") \/ (Jammed /\ ~ENABLED Statement(p)))
=============================================================================
