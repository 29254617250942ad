--------------------------- MODULE AtomicRecord ----------------------------
(***************************************************************************)
(* What a locked record promises its users: they take turns, and a turn    *)
(* changes the record at most once, as the last thing it does.  A reader   *)
(* of the record file, who takes no lock, sees these contents and no other.*)
(* The promise ends when the store's directory vanishes in someone's turn. *)
(***************************************************************************)
CONSTANTS Procs, Values, None

VARIABLES record,  \* the record's content, None when absent
          users,   \* whose turn it is: nobody's, or one process's
          broken   \* the directory vanished in someone's turn

vars == <<record, users, broken>>

Init == record = None /\ users = {} /\ broken = FALSE

Take(p) ==
    /\ users = {}
    /\ users' = {p}
    /\ UNCHANGED <<record, broken>>

\* Leave the record, remove it, or replace it.
Finish(p) ==
    /\ users = {p}
    /\ users' = {}
    /\ record' \in {record, None} \cup Values
    /\ UNCHANGED broken

\* The directory and all in it is removed.
Vanish ==
    /\ record' = None
    /\ broken' = (users # {})
    /\ UNCHANGED users

Next == Vanish \/ \E p \in Procs : Take(p) \/ Finish(p)

Spec == Init /\ [][~broken => Next]_vars
=============================================================================
