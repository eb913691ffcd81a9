--------------------------- MODULE Schema_proofs ---------------------------
(***************************************************************************)
(* Proofs about Schema, for any callers, instances, found columns and      *)
(* times: what ensureTable lets through is canonical, no migration takes a *)
(* time back that a send has stored, and the avatar is lost only where it  *)
(* was found beside an empty new column.                                   *)
(***************************************************************************)
EXTENDS Schema, TLAPS, WellFoundedInduction, SequenceTheorems

\* What is in the columns, and which there are, between any two statements.
TimesOK ==
    /\ SchemaTypeOK
    /\ {group["last_message_at"], group["last_message_at_ms"]} \subseteq {0} \cup sent

ColumnsOK ==
    /\ columns # {} => columns \cap Avatars # {}
    /\ columns = {} => sent = {}

Current ==
    /\ columns = Canonical
    /\ group["last_message_at"] \in IF sent = {} THEN {0} ELSE sent

\* What has been found or done before the next statement of p.
DoneOK(p) ==
    LET r == proc[p] IN
    /\ r.pc = "alterAvatar" /\ ~r.rename => "avatar_cid" \in columns
    /\ r.pc \in {"unix", "ms", "add", "copy", "drop", "fill"} =>
         "avatar_c_id" \notin columns
    /\ r.pc \in {"ms", "add", "copy", "drop", "fill"} => HasTable
    /\ r.pc = "ms" /\ r.hasUnix => "last_message_at" \in columns
    /\ r.pc = "add" /\ ~r.hasMs => "last_message_at_ms" \notin columns
    /\ r.pc \in {"copy", "drop"} => "last_message_at" \in columns
    /\ r.pc = "copy" /\ "last_message_at_ms" \in columns =>
         group["last_message_at"] \in {0, group["last_message_at_ms"]}
    /\ r.pc = "fill" => "last_message_at_ms" \notin columns
    /\ r.pc \in {"tables", "createGroups"} => columns = {} \/ Current
    /\ r.pc \in {"createMembers", "ready", "lock", "row", "update"} => Current
    /\ r.pc \in {"ready", "lock", "row", "update"} => members

SchemaInv ==
    /\ TimesOK
    /\ ColumnsOK
    /\ \A p \in Procs : DoneOK(p)

\* What a statement does to the avatar, and to a time that is there.
AvatarStep ==
    /\ Avatar(group') # Avatar(group) =>
         Avatars \subseteq columns /\ group["avatar_cid"] = 0
    /\ Avatars \subseteq columns' => Avatars \subseteq columns

TimeStep ==
    group'["last_message_at"] # group["last_message_at"] =>
      \/ group["last_message_at"] = 0
      \/ \E p \in Procs : At(p, "update") /\ At(p, "idle")'

StepOK == AvatarStep /\ TimeStep
-----------------------------------------------------------------------------
(***************************************************************************)
(* The queue of those who wait for a lock                                  *)
(***************************************************************************)
\* A set of natural numbers that has a member has a least one.
LEMMA LeastOf ==
    ASSUME NEW S \in SUBSET Nat, S # {}
    PROVE  Min(S) \in S /\ \A y \in S : Min(S) <= y
<1> DEFINE R == {ss \in Nat \X Nat : ss[1] < ss[2]}
<1>1. IsWellFoundedOn(R, Nat)
  BY NatLessThanWellFounded DEF OpToRel
<1> HIDE DEF R
<1>2. PICK x \in S : \A y \in S : ~(<<y, x>> \in R)
  BY <1>1, WFMin
<1>3. ASSUME NEW y \in S PROVE x <= y
  <2>1. x \in Nat /\ y \in Nat
    OBVIOUS
  <2>2. ~(y < x)
    BY <1>2, <2>1 DEF R
  <2>3. QED
    BY <2>1, <2>2
<1>4. QED
  BY <1>3 DEF Min

\* A set of numbers up to n that has a member has a greatest one.
LEMMA GreatestOf ==
    ASSUME NEW n \in Nat, NEW S \in SUBSET (1..n), S # {}
    PROVE  Max(S) \in S
<1> DEFINE T == {n - s : s \in S}
<1>1. T \in SUBSET Nat /\ T # {}
  <2>1. PICK s \in S : TRUE
    OBVIOUS
  <2>2. n - s \in T
    OBVIOUS
  <2>3. \A i \in S : n - i \in Nat
    OBVIOUS
  <2>4. QED
    BY <2>2, <2>3
<1>2. Min(T) \in T /\ \A t \in T : Min(T) <= t
  BY <1>1, LeastOf
<1>3. PICK s \in S : Min(T) = n - s
  BY <1>2
<1>4. ASSUME NEW t \in S PROVE s >= t
  <2>1. n - t \in T
    OBVIOUS
  <2>2. n - s <= n - t
    BY <1>2, <1>3, <2>1
  <2>3. n \in Int /\ s \in Int /\ t \in Int
    OBVIOUS
  <2>4. QED
    BY <2>2, <2>3
<1>5. QED
  BY <1>4 DEF Max

\* Any prefix and suffix of a sequence is one.
LEMMA Parts ==
    ASSUME NEW S, NEW s \in Seq(S), NEW i \in 1..(Len(s) + 1), NEW j \in Nat
    PROVE  SubSeq(s, 1, i - 1) \in Seq(S) /\ (j > 0 => SubSeq(s, j, Len(s)) \in Seq(S))
<1>1. Len(s) \in Nat /\ \A k \in 1..Len(s) : s[k] \in S
  BY ElementOfSeq, LenProperties
<1>2. SubSeq(s, 1, i - 1) \in Seq(S)
  <2>1. i - 1 \in Int /\ \A k \in 1..(i - 1) : k \in 1..Len(s)
    BY <1>1
  <2>2. QED
    BY <1>1, <2>1, SubSeqProperties
<1>3. j > 0 => SubSeq(s, j, Len(s)) \in Seq(S)
  <2>1. j > 0 => \A k \in j..Len(s) : k \in 1..Len(s)
    BY <1>1
  <2>2. QED
    BY <1>1, <2>1, SubSeqProperties
<1>4. QED
  BY <1>2, <1>3

\* The number of those before p is at most the length of the queue.
LEMMA BeforeOK ==
    ASSUME queue \in Seq(Procs), NEW p
    PROVE  Before(p) \in 0..Len(queue)
<1>1. DOMAIN queue = 1..Len(queue) /\ Len(queue) \in Nat
  BY LenProperties
<1>2. ASSUME NEW S \in SUBSET (1..Len(queue)), S # {}
      PROVE  Min(S) - 1 \in 0..Len(queue)
  <2>1. S \in SUBSET Nat
    BY <1>1
  <2>2. Min(S) \in S
    BY <1>2, <2>1, LeastOf
  <2> DEFINE least == Min(S)
  <2>3. least \in 1..Len(queue)
    BY <2>2
  <2> HIDE DEF least
  <2>4. least - 1 \in 0..Len(queue)
    BY <1>1, <2>3
  <2>5. QED
    BY <2>4 DEF least
<1>3. QED
  BY <1>1, <1>2 DEF Before

\* Whoever comes and goes, the queue is one of processes.
LEMMA QueueOK ==
    ASSUME queue \in Seq(Procs), NEW p \in Procs
    PROVE  /\ InsertAt(queue, Before(p) + 1, p) \in Seq(Procs)
           /\ RemoveFirst(queue, p) \in Seq(Procs)
<1>0. Len(queue) \in Nat
  BY LenProperties
<1>1. InsertAt(queue, Before(p) + 1, p) \in Seq(Procs)
  <2> DEFINE b == Before(p) + 1
  <2>1. b \in 1..(Len(queue) + 1) /\ b > 0 /\ b \in Nat
    BY <1>0, BeforeOK
  <2> HIDE DEF b
  <2>2. /\ SubSeq(queue, 1, b - 1) \in Seq(Procs)
        /\ SubSeq(queue, b, Len(queue)) \in Seq(Procs)
    BY <2>1, Parts
  <2>3. <<p>> \in Seq(Procs)
    OBVIOUS
  <2>4. QED
    BY <2>2, <2>3, ConcatProperties DEF InsertAt, b
<1>2. RemoveFirst(queue, p) \in Seq(Procs)
  <2> DEFINE I == {i \in 1..Len(queue) : queue[i] = p}
  <2>1. CASE I = {}
    BY <2>1 DEF RemoveFirst
  <2>2. CASE I # {}
    <3>1. Min(I) \in 1..Len(queue)
      <4>1. I \in SUBSET Nat
        OBVIOUS
      <4>2. Min(I) \in I
        BY <2>2, <4>1, LeastOf
      <4>3. QED
        BY <4>2
    <3>2. RemoveFirst(queue, p) = RemoveAt(queue, Min(I))
      BY <2>2 DEF RemoveFirst, SelectInSeq
    <3> HIDE DEF I
    <3>3. /\ SubSeq(queue, 1, Min(I) - 1) \in Seq(Procs)
          /\ SubSeq(queue, Min(I) + 1, Len(queue)) \in Seq(Procs)
      <4>1. Min(I) \in 1..(Len(queue) + 1) /\ Min(I) + 1 \in Nat /\ Min(I) + 1 > 0
        BY <1>0, <3>1
      <4>2. QED
        BY <4>1, Parts
    <3>4. QED
      BY <3>2, <3>3, ConcatProperties DEF RemoveAt
  <2>3. QED
    BY <2>1, <2>2
<1>3. QED
  BY <1>1, <1>2
-----------------------------------------------------------------------------
\* What the columns are found as.
LEMMA InitSchema == SchemaInit => SchemaInv
<1> SUFFICES ASSUME SchemaInit PROVE SchemaInv
  OBVIOUS
<1>1. PICK f \in Found : columns = f.columns /\ group = f.group /\ sent = f.sent
  BY DEF SchemaInit
<1>2. FoundOK(f)
  BY SchemaAssumption
<1>3. /\ columns \subseteq Columns /\ sent \subseteq 1..MaxTime
      /\ columns = {} => sent = {}
      /\ columns # {} => columns \cap Avatars # {}
  BY <1>1, <1>2 DEF FoundOK
<1>4. /\ group \in [Columns -> {0, 1} \cup sent]
      /\ \A c \in Columns \ Avatars : group[c] \in {0} \cup sent
      /\ \A c \in Columns \ columns : group[c] = 0
      /\ {0, 1} \cup sent \subseteq 0..MaxTime
  BY <1>1, <1>2, <1>3, SchemaAssumption DEF FoundOK
<1>5. TimesOK
  <2>1. proc \in [Procs -> Proc]
    BY DEF SchemaInit, Idle, Proc
  <2>2. queue \in Seq(Procs) /\ members \in BOOLEAN
    <3>1. (columns # {}) \in BOOLEAN
      OBVIOUS
    <3>2. members \in {columns # {}, FALSE}
      BY DEF SchemaInit, HasTable
    <3>3. members \in BOOLEAN
      BY <3>1, <3>2, Zenon
    <3>4. QED
      BY <3>3 DEF SchemaInit
  <2>3. group \in [Columns -> 0..MaxTime]
    BY <1>4
  <2>4. {group["last_message_at"], group["last_message_at_ms"]} \subseteq {0} \cup sent
    BY <1>4 DEF Columns, Avatars
  <2>5. QED
    BY <1>3, <1>4, <2>1, <2>2, <2>3, <2>4 DEF TimesOK, SchemaTypeOK
<1>6. ColumnsOK
  BY <1>3 DEF ColumnsOK
<1>7. \A p \in Procs : DoneOK(p)
  BY DEF SchemaInit, DoneOK, Idle
<1>8. QED
  BY <1>5, <1>6, <1>7 DEF SchemaInv

\* Old columns do not come back, new ones stay, and what is current stays so.
Grows ==
    /\ HasTable => HasTable'
    /\ \A c \in Canonical : c \in columns => c \in columns'
    /\ \A c \in Columns \ Canonical : c \notin columns => c \notin columns'
    /\ Current => Current'
    /\ "last_message_at_ms" \in columns' =>
         /\ group'["last_message_at_ms"] = group["last_message_at_ms"]
         /\ group'["last_message_at"] \in {group["last_message_at"],
                                         group["last_message_at_ms"]}
    /\ columns = {} => columns' = {} \/ Current'
    /\ members => members'

\* What the others rely on is not taken from them.
LEMMA OthersDone ==
    ASSUME NEW p, SchemaInv, Grows, \A q \in Procs \ {p} : proc'[q] = proc[q]
    PROVE  \A q \in Procs \ {p} : DoneOK(q)'
  BY DEF Grows, DoneOK, SchemaInv, HasTable, Canonical, Columns

\* A statement that changes nothing that others can see.
LEMMA Quiet ==
    ASSUME SchemaInv, NEW p \in Procs, UNCHANGED <<columns, group, members, sent>>,
           proc' \in [Procs -> Proc], \A q \in Procs \ {p} : proc'[q] = proc[q],
           queue' \in Seq(Procs), DoneOK(p)'
    PROVE  SchemaInv' /\ StepOK
<1>1. Grows
  BY DEF Grows, HasTable, Current
<1>2. \A q \in Procs : DoneOK(q)'
  BY <1>1, OthersDone
<1>3. TimesOK' /\ ColumnsOK'
  BY DEF SchemaInv, TimesOK, SchemaTypeOK, ColumnsOK
<1>4. StepOK
  BY DEF StepOK, AvatarStep, TimeStep
<1>5. QED
  BY <1>2, <1>3, <1>4 DEF SchemaInv

\* What holds before any statement, in one place.
LEMMA Given ==
    ASSUME SchemaInv, NEW p \in Procs
    PROVE  /\ SchemaTypeOK /\ ColumnsOK /\ DoneOK(p)
           /\ {group["last_message_at"], group["last_message_at_ms"]} \subseteq {0} \cup sent
           /\ \A c \in Columns : c \notin columns => group[c] = 0
           /\ columns \subseteq Columns /\ group \in [Columns -> 0..MaxTime]
           /\ sent \subseteq 1..MaxTime /\ proc \in [Procs -> Proc] /\ proc[p] \in Proc
           /\ RemoveFirst(queue, p) \in Seq(Procs) /\ queue \in Seq(Procs)
  BY QueueOK DEF SchemaInv, TimesOK, SchemaTypeOK

\* proc after a statement of p.
LEMMA ProcMoves ==
    ASSUME SchemaInv, NEW p \in Procs, NEW new \in Proc,
           proc' = [proc EXCEPT ![p] = new]
    PROVE  /\ proc' \in [Procs -> Proc] /\ proc'[p] = new
           /\ \A q \in Procs \ {p} : proc'[q] = proc[q]
  BY DEF SchemaInv, TimesOK, SchemaTypeOK
-----------------------------------------------------------------------------
(***************************************************************************)
(* Statements that change nothing others can see                           *)
(***************************************************************************)
LEMMA IdleOK == Idle \in Proc /\ Idle.pc = "idle"
  BY DEF Idle, Proc

\* Errors and whatever ends a call.
LEMMA Ends ==
    ASSUME SchemaInv, NEW p \in Procs, proc' = [proc EXCEPT ![p] = Idle],
           UNCHANGED <<columns, group, members, sent>>, queue' \in Seq(Procs)
    PROVE  SchemaInv' /\ StepOK
<1>1. /\ proc' \in [Procs -> Proc] /\ proc'[p] = Idle
      /\ \A q \in Procs \ {p} : proc'[q] = proc[q]
  BY IdleOK, ProcMoves
<1>2. DoneOK(p)'
  BY <1>1, IdleOK DEF DoneOK
<1>3. QED
  BY <1>1, <1>2, Quiet

\* Asking for a lock changes the queue only.
LEMMA Asking ==
    ASSUME SchemaInv, NEW p \in Procs, Ask(p)
    PROVE  SchemaInv' /\ StepOK
<1>1. queue' \in Seq(Procs)
  BY QueueOK DEF Ask, SchemaInv, TimesOK, SchemaTypeOK
<1>2. UNCHANGED <<columns, group, members, sent, proc>>
  BY DEF Ask
<1>3. DoneOK(p)'
  BY <1>2 DEF DoneOK, SchemaInv, HasTable, Current
<1>4. QED
  BY <1>1, <1>2, <1>3, Quiet DEF SchemaInv, TimesOK, SchemaTypeOK

\* A refusal or an error leaves the columns as they are at the moment.
LEMMA Stopping ==
    ASSUME SchemaInv, NEW p \in Procs, Refused(p) \/ Fail(p)
    PROVE  SchemaInv' /\ StepOK
  BY Given, Ends DEF Refused, Fail, Stopped

\* The questions ensureTable asks the catalog.
LEMMA Looking ==
    ASSUME SchemaInv, NEW p \in Procs,
           \/ Begin(p) \/ HasLegacyColumn(p) \/ HasCanonicalColumn(p)
           \/ HasUnix(p) \/ HasMs(p) \/ HasTables(p)
    PROVE  SchemaInv' /\ StepOK
<1>1. UNCHANGED <<columns, group, members, sent, queue>>
  BY DEF Begin, HasLegacyColumn, HasCanonicalColumn, HasUnix, HasMs, HasTables
<1>2. /\ proc \in [Procs -> Proc] /\ proc[p] \in Proc
      /\ queue \in Seq(Procs) /\ DoneOK(p)
  BY Given
<1>3. /\ proc' \in [Procs -> Proc]
      /\ \A q \in Procs \ {p} : proc'[q] = proc[q]
  <2>1. CASE Begin(p) \/ HasLegacyColumn(p)
    BY <1>2, <2>1 DEF Begin, HasLegacyColumn, Goto, Proc
  <2>2. CASE HasCanonicalColumn(p)
    <3>1. PICK x \in BOOLEAN :
            proc' = [proc EXCEPT ![p].pc = "alterAvatar", ![p].rename = x]
      BY <2>2 DEF HasCanonicalColumn
    <3>2. QED
      BY <1>2, <3>1 DEF Proc
  <2>3. CASE HasUnix(p)
    <3>1. CASE HasTable
      <4>1. proc' = [proc EXCEPT ![p].pc = "ms",
                                 ![p].hasUnix = "last_message_at" \in columns]
        BY <2>3, <3>1 DEF HasUnix
      <4>2. ("last_message_at" \in columns) \in BOOLEAN
        OBVIOUS
      <4>3. QED
        BY <1>2, <4>1, <4>2 DEF Proc
    <3>2. CASE ~HasTable
      BY <1>2, <2>3, <3>2 DEF HasUnix, Goto, Proc
    <3>3. QED
      BY <3>1, <3>2
  <2>4. CASE HasMs(p)
    <3>1. PICK x \in BOOLEAN, pc \in {"add", "drop", "fill"} :
            proc' = [proc EXCEPT ![p].hasMs = x, ![p].hasUnix = FALSE,
                                 ![p].pc = pc]
      BY <2>4 DEF HasMs
    <3>2. QED
      BY <1>2, <3>1 DEF Proc
  <2>5. CASE HasTables(p)
    BY <1>2, <2>5 DEF HasTables, Goto, Proc
  <2>6. QED
    BY <2>1, <2>2, <2>3, <2>4, <2>5
<1>4. columns \subseteq Columns
  BY DEF SchemaInv, TimesOK, SchemaTypeOK
<1>5. DoneOK(p)'
  <2>1. CASE Begin(p)
    BY <1>2, <2>1 DEF Begin, Goto, At, DoneOK, Proc
  <2>2. CASE HasLegacyColumn(p)
    <3>1. \/ proc'[p].pc \in {"canonical", "index"}
          \/ proc'[p].pc = "unix" /\ "avatar_c_id" \notin columns
      BY <1>2, <2>2 DEF HasLegacyColumn, Goto, Proc
    <3>2. QED
      BY <1>1, <3>1 DEF DoneOK
  <2>3. CASE HasCanonicalColumn(p)
    <3>1. /\ proc'[p].pc = "alterAvatar"
          /\ proc'[p].rename <=> "avatar_cid" \notin columns
      BY <1>2, <2>3 DEF HasCanonicalColumn, Proc
    <3>2. QED
      BY <1>1, <3>1 DEF DoneOK
  <2>4. CASE HasUnix(p)
    <3>1. "avatar_c_id" \notin columns
      BY <1>2, <2>4 DEF HasUnix, At, DoneOK
    <3>2. \/ /\ HasTable /\ proc'[p].pc = "ms"
             /\ proc'[p].hasUnix <=> "last_message_at" \in columns
          \/ ~HasTable /\ proc'[p].pc = "tables"
      BY <1>2, <2>4 DEF HasUnix, Goto, Proc
    <3>3. QED
      BY <1>1, <3>1, <3>2 DEF DoneOK, HasTable
  <2>5. CASE HasMs(p)
    <3>1. /\ "avatar_c_id" \notin columns /\ HasTable
          /\ proc[p].hasUnix => "last_message_at" \in columns
      BY <1>2, <2>5 DEF HasMs, At, DoneOK
    <3>2. /\ proc'[p].pc = IF ~proc[p].hasUnix THEN "add"
                           ELSE IF "last_message_at_ms" \in columns THEN "drop"
                           ELSE "fill"
          /\ proc'[p].hasMs <=>
               "last_message_at_ms" \in columns /\ ~proc[p].hasUnix
      BY <1>2, <2>5 DEF HasMs, Proc
    <3>3. QED
      BY <1>1, <3>1, <3>2 DEF DoneOK, HasTable
  <2>6. CASE HasTables(p)
    <3>1. columns = {} \/ Current
      BY <1>2, <2>6 DEF HasTables, At, DoneOK
    <3>2. proc'[p].pc = IF ~HasTable THEN "createGroups"
                        ELSE IF ~members THEN "createMembers" ELSE "ready"
      BY <1>2, <2>6 DEF HasTables, Goto, Proc
    <3>3. QED
      BY <1>1, <3>1, <3>2 DEF DoneOK, HasTable, Current
  <2>7. QED
    BY <2>1, <2>2, <2>3, <2>4, <2>5, <2>6
<1>6. QED
  BY <1>1, <1>2, <1>3, <1>5, Quiet

\* What callers do with the tables, up to what they write.
LEMMA Using ==
    ASSUME SchemaInv, NEW p \in Procs,
           \/ UseGroup(p) \/ GetByIDForUpdate(p) \/ LockRow(p)
           \/ InsertMember(p) \/ CommitInvitation(p)
    PROVE  SchemaInv' /\ StepOK
<1>1. /\ UNCHANGED <<columns, group, members, sent>>
      /\ queue' \in {queue, RemoveFirst(queue, p)}
  BY DEF UseGroup, GetByIDForUpdate, LockRow, InsertMember, CommitInvitation,
         Granted
<1>2. /\ proc \in [Procs -> Proc] /\ proc[p] \in Proc
      /\ queue' \in Seq(Procs) /\ DoneOK(p)
  BY <1>1, Given
<1>3. ASSUME proc' = [proc EXCEPT ![p] = Idle] PROVE SchemaInv' /\ StepOK
  BY <1>1, <1>2, <1>3, Ends
<1>4. ASSUME proc' \in [Procs -> Proc], \A q \in Procs \ {p} : proc'[q] = proc[q],
             proc[p].pc \in {"ready", "lock", "row"},
             proc'[p].pc \in {"lock", "row", "update", "avatar"}
      PROVE  SchemaInv' /\ StepOK
  <2>1. Current /\ members
    BY <1>2, <1>4 DEF DoneOK
  <2>2. DoneOK(p)'
    BY <1>1, <1>4, <2>1 DEF DoneOK, Current
  <2>3. QED
    BY <1>1, <1>2, <1>4, <2>2, Quiet
<1>5. CASE UseGroup(p)
  <2>1. CASE Goto(p, "lock")
    BY <1>2, <1>4, <1>5, <2>1 DEF UseGroup, Goto, At, Proc
  <2>2. QED
    BY <1>3, <1>5, <2>1 DEF UseGroup
<1>6. CASE GetByIDForUpdate(p)
  BY <1>2, <1>4, <1>6 DEF GetByIDForUpdate, At, Proc
<1>7. CASE LockRow(p)
  BY <1>2, <1>4, <1>7 DEF LockRow, At, Proc
<1>8. CASE InsertMember(p)
  BY <1>2, <1>4, <1>8 DEF InsertMember, At, Proc
<1>9. QED
  BY <1>3, <1>5, <1>6, <1>7, <1>8 DEF CommitInvitation

\* What Run does before it commits.
LEMMA Running ==
    ASSUME SchemaInv, NEW p \in Procs,
           RunAlterAvatar(p) \/ RunIndex(p) \/ RunIndexMembers(p) \/ RunAlter(p)
    PROVE  SchemaInv' /\ StepOK
<1>1. /\ UNCHANGED <<columns, group, members, sent>>
      /\ queue' \in {queue, RemoveFirst(queue, p)}
  BY DEF RunAlterAvatar, RunIndex, RunIndexMembers, RunAlter, Granted
<1>2. proc \in [Procs -> Proc] /\ proc[p] \in Proc /\ queue' \in Seq(Procs)
  BY <1>1, Given
<1>3. /\ proc' \in [Procs -> Proc]
      /\ \A q \in Procs \ {p} : proc'[q] = proc[q]
      /\ proc'[p].pc \in {"index", "indexMembers", "alter", "commit"}
  <2>1. CASE RunAlterAvatar(p)
    BY <1>2, <2>1 DEF RunAlterAvatar, Proc
  <2>2. CASE RunIndex(p)
    <3>1. proc[p].lock \in {"none", "S", "AX"}
      BY <1>2 DEF Proc
    <3>2. PICK l \in {"none", "S", "AX"} :
            proc' = [proc EXCEPT ![p].pc = "indexMembers", ![p].lock = l]
      BY <2>2, <3>1 DEF RunIndex
    <3>3. QED
      BY <1>2, <3>2 DEF Proc
  <2>3. CASE RunIndexMembers(p)
    BY <1>2, <2>3 DEF RunIndexMembers, Goto, Proc
  <2>4. CASE RunAlter(p)
    <3>1. proc[p].lock \in {"none", "S", "AX"}
      BY <1>2 DEF Proc
    <3>2. PICK l \in {"none", "S", "AX"} :
            proc' = [proc EXCEPT ![p].pc = "commit", ![p].lock = l]
      BY <2>4, <3>1 DEF RunAlter
    <3>3. QED
      BY <1>2, <3>2 DEF Proc
  <2>5. QED
    BY <2>1, <2>2, <2>3, <2>4
<1>4. DoneOK(p)'
  BY <1>3 DEF DoneOK
<1>5. QED
  BY <1>1, <1>2, <1>3, <1>4, Quiet
-----------------------------------------------------------------------------
(***************************************************************************)
(* Statements that write                                                   *)
(***************************************************************************)
LEMMA Writing ==
    ASSUME SchemaInv, NEW p \in Procs, Grows, TimesOK', ColumnsOK',
           DoneOK(p)', \A q \in Procs \ {p} : proc'[q] = proc[q]
    PROVE  SchemaInv'
  BY OthersDone DEF SchemaInv

\* The old column is renamed, or dropped because the new one is there.
LEMMA AlteringAvatar ==
    ASSUME SchemaInv, NEW p \in Procs, AlterAvatar(p)
    PROVE  SchemaInv' /\ StepOK
<1>0. /\ SchemaTypeOK /\ ColumnsOK /\ DoneOK(p)
      /\ {group["last_message_at"], group["last_message_at_ms"]} \subseteq {0} \cup sent
      /\ \A c \in Columns : c \notin columns => group[c] = 0
      /\ columns \subseteq Columns /\ group \in [Columns -> 0..MaxTime]
      /\ sent \subseteq 1..MaxTime /\ proc \in [Procs -> Proc] /\ proc[p] \in Proc
      /\ RemoveFirst(queue, p) \in Seq(Procs)
  BY Given
<1>1. /\ proc' \in [Procs -> Proc] /\ proc'[p].pc = "unix"
      /\ \A q \in Procs \ {p} : proc'[q] = proc[q]
      /\ queue' = RemoveFirst(queue, p) /\ UNCHANGED <<members, sent>>
  BY <1>0 DEF AlterAvatar, Granted, Proc
<1>2. /\ "avatar_c_id" \notin columns' /\ "avatar_cid" \in columns'
      /\ "avatar_c_id" \in columns \/ "avatar_cid" \in columns
      /\ columns' \ {"avatar_c_id", "avatar_cid"} =
           columns \ {"avatar_c_id", "avatar_cid"}
  BY <1>0 DEF AlterAvatar, AvatarAltered, DoneOK, At
<1>3. /\ group' \in [Columns -> 0..MaxTime] /\ group'["avatar_c_id"] = 0
      /\ \A c \in Columns \ {"avatar_c_id", "avatar_cid"} : group'[c] = group[c]
      /\ group'["avatar_cid"] = IF "avatar_cid" \in columns THEN group["avatar_cid"]
                                ELSE group["avatar_c_id"]
  <2>1. {"avatar_c_id", "avatar_cid", "last_message_at"} \subseteq Columns
        /\ 0 \in 0..MaxTime
    BY SchemaAssumption DEF Columns
  <2>2. CASE proc[p].rename
    BY <1>0, <2>1, <2>2 DEF AlterAvatar, AvatarAltered
  <2>3. CASE ~proc[p].rename
    <3>1. "avatar_cid" \in columns
      BY <1>0, <2>3 DEF AlterAvatar, At, DoneOK
    <3>2. QED
      BY <1>0, <2>1, <2>3, <3>1 DEF AlterAvatar, AvatarAltered
  <2>4. QED
    BY <2>2, <2>3
<1>4. columns' \subseteq Columns
  BY <1>0, <1>2 DEF Columns
<1>5. TimesOK'
  <2>1. SchemaTypeOK'
    BY <1>0, <1>1, <1>2, <1>3, <1>4 DEF SchemaTypeOK
  <2>2. /\ group'["last_message_at"] = group["last_message_at"]
        /\ group'["last_message_at_ms"] = group["last_message_at_ms"]
    BY <1>3 DEF Columns
  <2>3. QED
    BY <1>0, <1>1, <2>1, <2>2 DEF TimesOK
<1>6. ColumnsOK'
  BY <1>0, <1>1, <1>2, <1>3 DEF ColumnsOK, Avatars, Columns
<1>7. Grows
  <2>1. Current => Current'
    BY <1>0, <1>1, <1>2, <1>3 DEF Current, Canonical, Columns
  <2>2. /\ group'["last_message_at"] = group["last_message_at"]
        /\ group'["last_message_at_ms"] = group["last_message_at_ms"]
    BY <1>3 DEF Columns
  <2>3. QED
    BY <1>1, <1>2, <2>1, <2>2 DEF Grows, HasTable, Canonical, Columns
<1>8. DoneOK(p)'
  BY <1>1, <1>2 DEF DoneOK
<1>9. StepOK
  <2>1. AvatarStep
    BY <1>0, <1>2, <1>3 DEF AvatarStep, Avatar, Avatars, Columns
  <2>2. TimeStep
    BY <1>3 DEF TimeStep, Columns
  <2>3. QED
    BY <2>1, <2>2 DEF StepOK
<1>10. QED
  BY <1>1, <1>5, <1>6, <1>7, <1>8, <1>9, Writing

\* last_message_at is added, without a value; last_message_at_ms goes when its
\* value has been copied or is not needed.
LEMMA ChangingColumns ==
    ASSUME SchemaInv, NEW p \in Procs, AddColumn(p) \/ DropMs(p)
    PROVE  SchemaInv' /\ StepOK
<1>0. /\ SchemaTypeOK /\ ColumnsOK /\ DoneOK(p)
      /\ {group["last_message_at"], group["last_message_at_ms"]} \subseteq {0} \cup sent
      /\ \A c \in Columns : c \notin columns => group[c] = 0
      /\ columns \subseteq Columns /\ group \in [Columns -> 0..MaxTime]
      /\ sent \subseteq 1..MaxTime /\ proc \in [Procs -> Proc] /\ proc[p] \in Proc
      /\ RemoveFirst(queue, p) \in Seq(Procs)
  BY Given
<1>1. /\ queue' = RemoveFirst(queue, p) /\ UNCHANGED <<members, sent>>
  BY DEF AddColumn, DropMs, Granted
<1>2. /\ "avatar_c_id" \notin columns /\ "avatar_cid" \in columns
  BY <1>0 DEF AddColumn, DropMs, DoneOK, At, ColumnsOK, Avatars, HasTable
<1>3. CASE AddColumn(p)
  <2>1. /\ proc' \in [Procs -> Proc]
        /\ proc'[p].pc = IF proc[p].hasMs THEN "copy" ELSE "fill"
        /\ \A q \in Procs \ {p} : proc'[q] = proc[q]
    <3>1. PICK pc \in {"copy", "fill"} :
            /\ pc = IF proc[p].hasMs THEN "copy" ELSE "fill"
            /\ proc' = [proc EXCEPT ![p].pc = pc, ![p].hasMs = FALSE]
      BY <1>3 DEF AddColumn
    <3>2. QED
      BY <1>0, <3>1 DEF Proc
  <2>2. /\ columns' = columns \cup {"last_message_at"} /\ group' = group
        /\ "last_message_at" \notin columns
    BY <1>3 DEF AddColumn
  <2>3. TimesOK' /\ ColumnsOK'
    BY <1>0, <1>1, <1>2, <2>1, <2>2
       DEF TimesOK, SchemaTypeOK, ColumnsOK, Avatars, Columns
  <2>4. Grows
    BY <1>1, <1>2, <2>2 DEF Grows, HasTable, Canonical, Columns, Current
  <2>5. DoneOK(p)'
    <3>1. group["last_message_at"] = 0
      BY <1>0, <2>2 DEF Columns
    <3>2. QED
      BY <1>0, <1>2, <1>3, <2>1, <2>2, <3>1 DEF DoneOK, HasTable, AddColumn, At
  <2>6. QED
    BY <1>2, <2>1, <2>2, <2>3, <2>4, <2>5, Writing
       DEF StepOK, AvatarStep, TimeStep, Avatars
<1>4. CASE DropMs(p)
  <2>1. /\ proc' \in [Procs -> Proc] /\ proc'[p].pc = "fill"
        /\ \A q \in Procs \ {p} : proc'[q] = proc[q]
    BY <1>0, <1>4 DEF DropMs, Goto, Proc
  <2>2. /\ columns' = columns \ {"last_message_at_ms"}
        /\ "last_message_at_ms" \in columns
        /\ group' = [group EXCEPT !["last_message_at_ms"] = 0]
    BY <1>4 DEF DropMs
  <2>3. /\ group' \in [Columns -> 0..MaxTime] /\ group'["last_message_at_ms"] = 0
        /\ \A c \in Columns \ {"last_message_at_ms"} : group'[c] = group[c]
    BY <1>0, <2>2, SchemaAssumption DEF Columns
  <2>4. TimesOK' /\ ColumnsOK'
    BY <1>0, <1>1, <1>2, <2>1, <2>2, <2>3
       DEF TimesOK, SchemaTypeOK, ColumnsOK, Avatars, Columns
  <2>5. Grows
    BY <1>1, <1>2, <2>2 DEF Grows, HasTable, Canonical, Columns, Current
  <2>6. DoneOK(p)'
    BY <1>2, <2>1, <2>2 DEF DoneOK, HasTable
  <2>7. StepOK
    BY <1>2, <2>2, <2>3
       DEF StepOK, AvatarStep, TimeStep, Avatar, Avatars, Columns
  <2>8. QED
    BY <2>1, <2>4, <2>5, <2>6, <2>7, Writing
<1>5. QED
  BY <1>3, <1>4

\* The time is copied from the old column, or found in the messages: no send
\* can have stored a later one while the old column is there.
LEMMA FillingTime ==
    ASSUME SchemaInv, NEW p \in Procs, CopyMs(p) \/ backfillGroupLastMessageAt(p)
    PROVE  SchemaInv' /\ StepOK
<1>0. /\ SchemaTypeOK /\ ColumnsOK /\ DoneOK(p)
      /\ {group["last_message_at"], group["last_message_at_ms"]} \subseteq {0} \cup sent
      /\ \A c \in Columns : c \notin columns => group[c] = 0
      /\ columns \subseteq Columns /\ group \in [Columns -> 0..MaxTime]
      /\ sent \subseteq 1..MaxTime /\ proc \in [Procs -> Proc] /\ proc[p] \in Proc
      /\ RemoveFirst(queue, p) \in Seq(Procs)
  BY Given
<1>1. /\ queue' = RemoveFirst(queue, p) /\ UNCHANGED <<columns, members, sent>>
  BY DEF CopyMs, backfillGroupLastMessageAt, Granted
<1>2. /\ "avatar_c_id" \notin columns /\ "avatar_cid" \in columns
      /\ "last_message_at" \in columns
  BY <1>0 DEF CopyMs, backfillGroupLastMessageAt, DoneOK, At, ColumnsOK, Avatars, HasTable
<1>3. /\ proc' \in [Procs -> Proc]
      /\ \A q \in Procs \ {p} : proc'[q] = proc[q]
  <2>1. PICK pc \in {"drop", "tables"} : proc' = [proc EXCEPT ![p].pc = pc]
    BY DEF CopyMs, backfillGroupLastMessageAt, Goto
  <2>2. QED
    BY <1>0, <2>1 DEF Proc
<1>4. /\ group' \in [Columns -> 0..MaxTime]
      /\ \A c \in Columns \ {"last_message_at"} : group'[c] = group[c]
  <2>1. CASE CopyMs(p)
    BY <1>0, <2>1 DEF CopyMs, Columns
  <2>2. CASE backfillGroupLastMessageAt(p)
    <3>1. sent # {} => Max(sent) \in sent
      BY <1>0, GreatestOf, SchemaAssumption
    <3>2. \A t \in sent : t \in 0..MaxTime
      BY <1>0, SchemaAssumption
    <3>3. QED
      BY <1>0, <2>2, <3>1, <3>2
         DEF backfillGroupLastMessageAt, Backfilled, Columns
  <2>3. QED
    BY <2>1, <2>2
<1>5. /\ group'["last_message_at"] \in {0} \cup sent
      /\ group'["last_message_at"] # group["last_message_at"] =>
           group["last_message_at"] = 0 /\ group'["last_message_at"] \in sent
  <2>1. CASE CopyMs(p)
    BY <1>0, <2>1 DEF CopyMs, DoneOK, At, Columns
  <2>2. CASE backfillGroupLastMessageAt(p)
    <3>1. sent # {} => Max(sent) \in sent
      BY <1>0, GreatestOf, SchemaAssumption
    <3>2. QED
      BY <1>0, <2>2, <3>1 DEF backfillGroupLastMessageAt, Backfilled, Columns
  <2>3. QED
    BY <2>1, <2>2
<1>6. TimesOK'
  <2>1. /\ group'["last_message_at_ms"] = group["last_message_at_ms"]
        /\ group'["last_message_at"] \in {0} \cup sent
        /\ \A c \in Columns \ columns : group'[c] = 0
    BY <1>0, <1>2, <1>4, <1>5 DEF Columns
  <2>2. QED
    BY <1>0, <1>1, <1>3, <1>4, <2>1 DEF TimesOK, SchemaTypeOK
<1>7. ColumnsOK'
  BY <1>0, <1>1, <1>4 DEF ColumnsOK, Avatars, Columns
<1>8. Grows
  <2>1. "last_message_at_ms" \in columns =>
          /\ group'["last_message_at_ms"] = group["last_message_at_ms"]
          /\ group'["last_message_at"] \in {group["last_message_at"],
                                          group["last_message_at_ms"]}
    BY <1>0, <1>4
       DEF CopyMs, backfillGroupLastMessageAt, DoneOK, At, Columns
  <2>2. QED
    BY <1>1, <1>5, <2>1 DEF Grows, HasTable, Current
<1>9. DoneOK(p)'
  <2>1. CASE CopyMs(p)
    <3>1. proc'[p].pc = "drop"
      BY <1>0, <2>1 DEF CopyMs, Goto, Proc
    <3>2. QED
      BY <1>1, <1>2, <3>1 DEF DoneOK, HasTable
  <2>2. CASE backfillGroupLastMessageAt(p)
    <3>1. proc'[p].pc = "tables" /\ "last_message_at_ms" \notin columns
      BY <1>0, <2>2 DEF backfillGroupLastMessageAt, Goto, Proc, DoneOK, At
    <3>2. columns = Canonical
      BY <1>0, <1>2, <3>1 DEF Canonical, Columns
    <3>3. group'["last_message_at"] \in IF sent = {} THEN {0} ELSE sent
      <4>1. sent # {} => Max(sent) \in sent
        BY <1>0, GreatestOf, SchemaAssumption
      <4>2. QED
        BY <1>0, <2>2, <4>1 DEF backfillGroupLastMessageAt, Backfilled, Columns
    <3>4. QED
      BY <1>1, <3>1, <3>2, <3>3 DEF DoneOK, Current
  <2>3. QED
    BY <2>1, <2>2
<1>10. StepOK
  BY <1>1, <1>4, <1>5 DEF StepOK, AvatarStep, TimeStep, Avatar, Columns
<1>11. QED
  BY <1>3, <1>6, <1>7, <1>8, <1>9, <1>10, Writing

\* The tables are created where they are missing.
LEMMA CreatingTables ==
    ASSUME SchemaInv, NEW p \in Procs,
           ensureCanonicalGroupTable(p) \/ ensureCanonicalGroupMemberTable(p)
    PROVE  SchemaInv' /\ StepOK
<1>0. /\ SchemaTypeOK /\ ColumnsOK /\ DoneOK(p)
      /\ {group["last_message_at"], group["last_message_at_ms"]} \subseteq {0} \cup sent
      /\ \A c \in Columns : c \notin columns => group[c] = 0
      /\ columns \subseteq Columns /\ group \in [Columns -> 0..MaxTime]
      /\ sent \subseteq 1..MaxTime /\ proc \in [Procs -> Proc] /\ proc[p] \in Proc
      /\ RemoveFirst(queue, p) \in Seq(Procs) /\ queue \in Seq(Procs)
  BY Given
<1>1. /\ queue' \in {queue, RemoveFirst(queue, p)} /\ UNCHANGED <<group, sent>>
      /\ members' \in {members, TRUE}
  BY DEF ensureCanonicalGroupTable, ensureCanonicalGroupMemberTable, Granted
<1>2. /\ proc' \in [Procs -> Proc]
      /\ \A q \in Procs \ {p} : proc'[q] = proc[q]
  <2>1. PICK pc \in {"createMembers", "ready"} :
          proc' = [proc EXCEPT ![p].pc = pc]
    BY DEF ensureCanonicalGroupTable, ensureCanonicalGroupMemberTable, Goto
  <2>2. QED
    BY <1>0, <2>1 DEF Proc
<1>3. columns' = columns \/ (columns = {} /\ columns' = Canonical)
  BY DEF ensureCanonicalGroupTable, ensureCanonicalGroupMemberTable, HasTable
<1>4. TimesOK'
  BY <1>0, <1>1, <1>2, <1>3
     DEF TimesOK, SchemaTypeOK, Canonical, Columns
<1>5. ColumnsOK'
  BY <1>0, <1>1, <1>3 DEF ColumnsOK, Avatars, Canonical
<1>6. columns = {} => sent = {} /\ group["last_message_at"] = 0
  BY <1>0 DEF ColumnsOK, Avatars, Columns
<1>7. Grows
  <2>1. members => members'
    BY <1>1, Zenon
  <2>2. QED
    BY <1>1, <1>3, <1>6, <2>1 DEF Grows, HasTable, Canonical, Columns, Current
<1>8. DoneOK(p)'
  <2>1. CASE ensureCanonicalGroupTable(p)
    <3>1. proc'[p].pc = "createMembers"
      BY <1>0, <2>1 DEF ensureCanonicalGroupTable, Goto, Proc
    <3>2. Current'
      BY <1>0, <1>1, <1>6, <2>1
         DEF ensureCanonicalGroupTable, HasTable, Current, DoneOK, At
    <3>3. QED
      BY <3>1, <3>2 DEF DoneOK
  <2>2. CASE ensureCanonicalGroupMemberTable(p)
    <3>1. proc'[p].pc = "ready" /\ members'
      BY <1>0, <2>2 DEF ensureCanonicalGroupMemberTable, Goto, Proc
    <3>2. Current'
      BY <1>0, <1>1, <2>2
         DEF ensureCanonicalGroupMemberTable, Current, DoneOK, At
    <3>3. QED
      BY <3>1, <3>2 DEF DoneOK
  <2>3. QED
    BY <2>1, <2>2
<1>9. QED
  BY <1>1, <1>2, <1>3, <1>4, <1>5, <1>7, <1>8, Writing
     DEF StepOK, AvatarStep, TimeStep, Avatars, Canonical

\* A send stores its message and the message's time together.
LEMMA SendingMessage ==
    ASSUME SchemaInv, NEW p \in Procs, IncrementLastSeq(p)
    PROVE  SchemaInv' /\ StepOK
<1>0. /\ SchemaTypeOK /\ ColumnsOK /\ DoneOK(p)
      /\ \A c \in Columns : c \notin columns => group[c] = 0
      /\ columns \subseteq Columns /\ group \in [Columns -> 0..MaxTime]
      /\ sent \subseteq 1..MaxTime /\ proc \in [Procs -> Proc] /\ proc[p] \in Proc
      /\ RemoveFirst(queue, p) \in Seq(Procs)
  BY Given
<1>1. PICK t \in 1..MaxTime :
         sent' = sent \cup {t} /\ group' = [group EXCEPT !["last_message_at"] = t]
  BY DEF IncrementLastSeq
<1>2. /\ queue' = RemoveFirst(queue, p) /\ UNCHANGED <<columns, members>>
      /\ proc' = [proc EXCEPT ![p] = Idle]
  BY DEF IncrementLastSeq, Granted
<1>3. /\ proc' \in [Procs -> Proc] /\ proc'[p] = Idle
      /\ \A q \in Procs \ {p} : proc'[q] = proc[q]
  BY <1>2, IdleOK, ProcMoves
<1>4. columns = Canonical
  BY <1>0 DEF IncrementLastSeq, At, DoneOK, Current
<1>5. /\ group' \in [Columns -> 0..MaxTime] /\ group'["last_message_at"] = t
      /\ \A c \in Columns \ {"last_message_at"} : group'[c] = group[c]
      /\ t \in 0..MaxTime
  BY <1>0, <1>1, SchemaAssumption DEF Columns
<1>6. TimesOK'
  <2>1. /\ group'["last_message_at_ms"] = group["last_message_at_ms"]
        /\ group'["last_message_at"] \in sent'
        /\ sent \subseteq sent' /\ sent' \subseteq 1..MaxTime
    BY <1>0, <1>1, <1>5 DEF Columns
  <2>2. \A c \in Columns \ columns' : group'[c] = 0
    BY <1>0, <1>2, <1>4, <1>5 DEF Canonical
  <2>3. {group["last_message_at"], group["last_message_at_ms"]}' \subseteq
          ({0} \cup sent)'
    BY <2>1, Given
  <2>4. SchemaTypeOK'
    BY <1>0, <1>2, <1>3, <1>5, <2>1, <2>2 DEF SchemaTypeOK
  <2>5. QED
    BY <2>3, <2>4 DEF TimesOK
<1>7. ColumnsOK'
  BY <1>0, <1>2, <1>4, <1>5 DEF ColumnsOK, Avatars, Canonical
<1>8. Grows
  BY <1>1, <1>2, <1>4, <1>5 DEF Grows, HasTable, Current, Canonical
<1>9. DoneOK(p)'
  BY <1>3, IdleOK DEF DoneOK
<1>10. StepOK
  <2>1. AvatarStep
    BY <1>2, <1>5 DEF AvatarStep, Avatar, Columns
  <2>2. At(p, "update") /\ At(p, "idle")'
    BY <1>3, IdleOK DEF IncrementLastSeq, At
  <2>3. QED
    BY <2>1, <2>2 DEF StepOK, TimeStep
<1>11. QED
  BY <1>3, <1>6, <1>7, <1>8, <1>9, <1>10, Writing

\* Run makes the columns canonical in one step, and loses nothing.
LEMMA Committing ==
    ASSUME SchemaInv, NEW p \in Procs, RunCommit(p)
    PROVE  SchemaInv' /\ StepOK
<1>0. /\ SchemaTypeOK /\ ColumnsOK /\ DoneOK(p)
      /\ {group["last_message_at"], group["last_message_at_ms"]} \subseteq {0} \cup sent
      /\ \A c \in Columns : c \notin columns => group[c] = 0
      /\ columns \subseteq Columns /\ group \in [Columns -> 0..MaxTime]
      /\ sent \subseteq 1..MaxTime /\ proc \in [Procs -> Proc] /\ proc[p] \in Proc
      /\ queue \in Seq(Procs)
  BY Given
<1>1. /\ columns' = Canonical /\ members' = TRUE /\ UNCHANGED <<sent, queue>>
      /\ proc' = [proc EXCEPT ![p] = Idle]
  BY DEF RunCommit
<1>2. /\ proc' \in [Procs -> Proc] /\ proc'[p] = Idle
      /\ \A q \in Procs \ {p} : proc'[q] = proc[q]
  BY <1>1, IdleOK, ProcMoves
<1>3. /\ Migrated \in [Columns -> 0..MaxTime]
      /\ Migrated["avatar_cid"] = IF "avatar_cid" \in columns
                                  THEN group["avatar_cid"] ELSE group["avatar_c_id"]
      /\ Migrated["last_message_at"] = IF "last_message_at" \in columns
                                       THEN group["last_message_at"]
                                       ELSE group["last_message_at_ms"]
      /\ Migrated["avatar_c_id"] = 0 /\ Migrated["last_message_at_ms"] = 0
  <2>1. 0 \in 0..MaxTime
    BY SchemaAssumption
  <2>2. \A c \in Columns :
          Migrated[c] = CASE c = "avatar_cid" ->
                               group[IF c \in columns THEN c ELSE "avatar_c_id"]
                          [] c = "last_message_at" ->
                               group[IF c \in columns THEN c
                                     ELSE "last_message_at_ms"]
                          [] OTHER -> 0
    BY DEF Migrated
  <2>3. /\ Migrated["avatar_cid"] = IF "avatar_cid" \in columns
                                    THEN group["avatar_cid"]
                                    ELSE group["avatar_c_id"]
        /\ Migrated["last_message_at"] = IF "last_message_at" \in columns
                                         THEN group["last_message_at"]
                                         ELSE group["last_message_at_ms"]
        /\ Migrated["avatar_c_id"] = 0 /\ Migrated["last_message_at_ms"] = 0
    BY <2>2 DEF Columns
  <2>4. \A c \in Columns : Migrated[c] \in 0..MaxTime
    BY <1>0, <2>1, <2>3 DEF Columns
  <2>5. Migrated \in [Columns -> 0..MaxTime]
    BY <2>4 DEF Migrated
  <2>6. QED
    BY <2>3, <2>5
<1>4. /\ group' \in [Columns -> 0..MaxTime]
      /\ group'["last_message_at"] \in IF sent = {} THEN {0} ELSE sent
      /\ group'["last_message_at"] # group["last_message_at"] =>
           group["last_message_at"] = 0
      /\ group'["avatar_c_id"] = 0 /\ group'["last_message_at_ms"] = 0
      /\ group'["avatar_cid"] = IF "avatar_cid" \in columns
                                THEN group["avatar_cid"] ELSE group["avatar_c_id"]
  <2>1. sent # {} => Max(sent) \in sent /\ Max(sent) \in 0..MaxTime
    <3>1. sent # {} => Max(sent) \in sent
      BY <1>0, GreatestOf, SchemaAssumption
    <3>2. \A t \in sent : t \in 0..MaxTime
      BY <1>0, SchemaAssumption
    <3>3. QED
      BY <3>1, <3>2
  <2>2. CASE HasTable
    BY <1>0, <1>3, <2>1, <2>2 DEF RunCommit, Backfilled, Columns
  <2>3. CASE ~HasTable
    BY <1>0, <2>3 DEF RunCommit, HasTable, ColumnsOK, Avatars, Columns
  <2>4. QED
    BY <2>2, <2>3
<1>5. TimesOK'
  BY <1>0, <1>1, <1>2, <1>4 DEF TimesOK, SchemaTypeOK, Canonical, Columns
<1>6. ColumnsOK'
  BY <1>1 DEF ColumnsOK, Avatars, Canonical
<1>7. Grows
  BY <1>1, <1>4 DEF Grows, HasTable, Current, Canonical, Columns
<1>8. DoneOK(p)'
  BY <1>2, IdleOK DEF DoneOK
<1>9. StepOK
  <2>1. AvatarStep
    BY <1>0, <1>1, <1>4 DEF AvatarStep, Avatar, Avatars, Canonical, Columns
  <2>2. QED
    BY <1>4, <2>1 DEF StepOK, TimeStep
<1>10. QED
  BY <1>2, <1>5, <1>6, <1>7, <1>8, <1>9, Writing
-----------------------------------------------------------------------------
\* Every statement keeps the tables on their way to the canonical columns, and
\* the avatar.
LEMMA StepSchema ==
    ASSUME SchemaInv, [SchemaNext]_schemaVars
    PROVE  SchemaInv' /\ StepOK
<1>1. CASE UNCHANGED schemaVars
  <2>1. UNCHANGED <<columns, group, members, sent, proc, queue>>
    BY <1>1 DEF schemaVars
  <2>2. TimesOK' /\ ColumnsOK'
    BY <2>1 DEF SchemaInv, TimesOK, SchemaTypeOK, ColumnsOK
  <2>3. \A p \in Procs : DoneOK(p)'
    BY <2>1 DEF SchemaInv, DoneOK, HasTable, Current
  <2>4. QED
    BY <2>1, <2>2, <2>3 DEF SchemaInv, StepOK, AvatarStep, TimeStep
<1>2. ASSUME NEW p \in Procs, Begin(p) \/ Statement(p) \/ Fail(p)
      PROVE  SchemaInv' /\ StepOK
  BY <1>2, Asking, Looking, AlteringAvatar, ChangingColumns, FillingTime,
     CreatingTables, Using, SendingMessage, Running, Committing, Stopping
     DEF Statement
<1>3. QED
  BY <1>1, <1>2 DEF SchemaNext

\* In every reachable state, whoever is about to run a statement of ensureTable
\* or of Run has found or done what that statement relies on, although others run
\* the same statements meanwhile.
THEOREM SchemaSafe == SchemaSpec => []SchemaInv
<1>1. SchemaInv /\ [SchemaNext]_schemaVars => SchemaInv'
  BY StepSchema
<1>2. QED
  BY InitSchema, <1>1, PTL DEF SchemaSpec

\* Whatever else migrates, and wherever it stopped, a call of GroupRepo works on
\* canonical tables, and the group's time is that of a message.
THEOREM ReadyCanonical == SchemaSpec => []ReadyIsCanonical
<1>1. SchemaInv => ReadyIsCanonical
  BY DEF SchemaInv, DoneOK, Current, ReadyIsCanonical, Procs
<1>2. QED
  BY <1>1, SchemaSafe, PTL

\* Once last_message_at has a time, only a send replaces it, however many
\* goroutines copy and backfill while others send.
THEOREM TimeStays == SchemaSpec => TimeKept
<1>1. SchemaInv /\ [SchemaNext]_schemaVars => [TimeStep]_schemaVars
  BY StepSchema DEF StepOK
<1>2. QED
  BY <1>1, SchemaSafe, PTL DEF SchemaSpec, TimeKept, TimeStep

\* No order of renames, drops and commits loses the avatar, or makes up the one
\* state that does: an old column beside an empty new one.
THEOREM AvatarStays == SchemaSpec => AvatarKept
<1>1. SchemaInv /\ [SchemaNext]_schemaVars => [AvatarStep]_schemaVars
  BY StepSchema DEF StepOK
<1>2. QED
  BY <1>1, SchemaSafe, PTL DEF SchemaSpec, AvatarKept, AvatarStep
=============================================================================
