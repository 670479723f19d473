---- MODULE Folders ----
(***************************************************************************)
(* The folder tables of one account (user_dialog_filters and               *)
(* user_dialog_filter_state) and the transactions that change them, from   *)
(* internal/store/dialog_filters.go.  Every mutation locks the owner's     *)
(* state row first, so it is one step; the check of the seeding marker     *)
(* that precedes the lock is made by the caller, a step earlier.           *)
(*                                                                         *)
(* A folder is its id and its title.  The id 0 stands for "All chats".     *)
(***************************************************************************)
EXTENDS Integers, FiniteSets, Sequences, SequencesExt

CONSTANTS FolderTitles, DefaultTitles, MaxFolders

VARIABLES folderRows,    \* filter_id -> title
          folderOrder,   \* order_ids, kept by the state row
          seeded,        \* defaults_seeded_at
          changes,       \* committed mutations: changed_at as a counter
          folderNotices, \* NOTIFY tg_dialog_filters not yet taken by the listener
          listening      \* whether the listener's connection is up

folderVars == <<folderRows, folderOrder, seeded, changes, folderNotices, listening>>

ListDialogFilters(rows) == SetToSortSeq(DOMAIN rows, <)

\* The requested ids that exist, each where it first occurs, then the rest.
NormalizeDialogFilterOrder(requested, existing) ==
    LET valid == {0} \cup Range(existing)
        appendValid(out, id) ==
            IF id \in valid \ Range(out) THEN Append(out, id) ELSE out
    IN  FoldLeft(appendValid, << >>, requested \o existing \o <<0>>)

\* The order, the marker and the notification of one mutation.
commitDialogFilterMutation(order) ==
    /\ folderOrder' = order
    /\ changes' = changes + 1
    /\ folderNotices' = IF listening THEN Append(folderNotices, changes + 1) ELSE folderNotices
    /\ UNCHANGED listening

SaveDialogFilter(id, title) ==
    LET rows == [i \in DOMAIN folderRows \cup {id} |-> IF i = id THEN title ELSE folderRows[i]]
    IN  /\ IF id \notin DOMAIN folderRows /\ Cardinality(DOMAIN folderRows) >= MaxFolders
           THEN UNCHANGED folderVars
           ELSE /\ folderRows' = rows
                /\ commitDialogFilterMutation(
                        NormalizeDialogFilterOrder(folderOrder, ListDialogFilters(rows)))
        /\ UNCHANGED seeded

DeleteDialogFilter(id) ==
    LET rows == [i \in DOMAIN folderRows \ {id} |-> folderRows[i]]
        order == NormalizeDialogFilterOrder(
                    SelectSeq(folderOrder, LAMBDA i : i # id), ListDialogFilters(rows))
    IN  IF id \notin DOMAIN folderRows /\ order = folderOrder
        THEN UNCHANGED folderVars
        ELSE /\ folderRows' = rows
             /\ commitDialogFilterMutation(order)
             /\ UNCHANGED seeded

UpdateDialogFilterOrder(requested) ==
    LET previous == NormalizeDialogFilterOrder(folderOrder, ListDialogFilters(folderRows))
        order == NormalizeDialogFilterOrder(requested, previous)
    IN  IF order = previous
        THEN UNCHANGED folderVars
        ELSE /\ commitDialogFilterMutation(order)
             /\ UNCHANGED <<folderRows, seeded>>

\* The missing defaults, each at the lowest free id, while there is room.
withDefaults(rows) ==
    LET add(r, title) ==
            IF \/ Cardinality(DOMAIN r) >= MaxFolders
               \/ \E i \in DOMAIN r : r[i] = title
            THEN r
            ELSE LET id == CHOOSE i \in 2..255 : i \notin DOMAIN r /\ \A j \in 2..i-1 : j \in DOMAIN r
                 IN  [i \in DOMAIN r \cup {id} |-> IF i = id THEN title ELSE r[i]]
    IN  FoldLeft(add, rows, DefaultTitles)

SeedDefaultDialogFilters ==
    LET rows == withDefaults(folderRows)
        added == [i \in DOMAIN rows \ DOMAIN folderRows |-> rows[i]]
        order == NormalizeDialogFilterOrder(folderOrder, ListDialogFilters(folderRows))
    IN  IF seeded
        THEN UNCHANGED folderVars
        ELSE /\ folderRows' = rows
             /\ seeded' = TRUE
             /\ commitDialogFilterMutation(order \o ListDialogFilters(added))

Mutation(kinds, ids) ==
    \/ "save" \in kinds /\ \E id \in ids, title \in FolderTitles : SaveDialogFilter(id, title)
    \/ "delete" \in kinds /\ \E id \in ids : DeleteDialogFilter(id)
    \/ "order" \in kinds /\ \E first \in ids, second \in ids \cup {0} :
                                UpdateDialogFilterOrder(<<first, second>>)

\* A new account has no folders; one that was used has at least had the defaults.
FoldersInit(used) ==
    LET rows == withDefaults([i \in {} |-> ""])
    IN  /\ folderRows = IF used THEN rows ELSE [i \in {} |-> ""]
        /\ folderOrder = IF used THEN <<0>> \o ListDialogFilters(rows) ELSE <<0>>
        /\ seeded = used
        /\ changes = 0
        /\ folderNotices = << >>
        /\ listening = TRUE

----
\* The stored order has one position for "All chats" and one for each folder,
\* and there are never more folders than the limit.
FolderTablesAgree ==
    /\ Range(folderOrder) = {0} \cup DOMAIN folderRows
    /\ Len(folderOrder) = 1 + Cardinality(DOMAIN folderRows)
    /\ Cardinality(DOMAIN folderRows) <= MaxFolders
====
