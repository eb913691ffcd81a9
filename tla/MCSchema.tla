------------------------------ MODULE MCSchema ------------------------------
(***************************************************************************)
(* What an instance may find in "groups".                                  *)
(***************************************************************************)
EXTENDS Schema, TLC

\* The table with these columns and what is in them, and the times of the
\* group's messages.
Table(row, times) ==
    [columns |-> DOMAIN row, sent |-> times,
     group |-> [c \in Columns |-> IF c \in DOMAIN row THEN row[c] ELSE 0]]

\* Nothing; the earliest columns; the columns after an interrupted migration,
\* with the avatar in both or in the old one only, and with a time missing or
\* older than that of the newest message; and a new table.
Tables ==
    {[columns |-> {}, sent |-> {}, group |-> [c \in Columns |-> 0]],
     Table("avatar_c_id" :> 1 @@ "last_message_at_ms" :> 2, {2}),
     Table("avatar_c_id" :> 1 @@ "avatar_cid" :> 0 @@
           "last_message_at" :> 0 @@ "last_message_at_ms" :> 2, {2}),
     Table("avatar_c_id" :> 1 @@ "avatar_cid" :> 1 @@
           "last_message_at" :> 1 @@ "last_message_at_ms" :> 2, {1, 2}),
     Table("avatar_cid" :> 0 @@ "last_message_at" :> 0, {})}
=============================================================================
