----------------------------- MODULE Interpreter -----------------------------
(***************************************************************************)
(* What cmpi_provider.c:182-189 promises of the target interpreter,        *)
(* whatever the language: one interpreter serves every MI, it is loaded    *)
(* while any MI uses it, and it is unloaded when the last user goes away.  *)
(* The target modules are shown to implement this specification.           *)
(***************************************************************************)
CONSTANT MIs      (* the managed interfaces                                *)

VARIABLES
  users,          (* MIs that use the interpreter                          *)
  loaded,         (* is the interpreter loaded?                            *)
  due             (* has the last user gone, the unload yet to follow?     *)

vars == <<users, loaded, due>>

Init == users = {} /\ loaded = FALSE /\ due = FALSE

Load ==
  /\ ~loaded
  /\ loaded' = TRUE
  /\ UNCHANGED <<users, due>>

Attach(m) ==
  /\ loaded /\ ~due /\ m \notin users
  /\ users' = users \cup {m}
  /\ UNCHANGED <<loaded, due>>

Detach(m) ==
  /\ m \in users
  /\ users' = users \ {m}
  /\ due' = (users' = {})
  /\ UNCHANGED loaded

Unload ==
  /\ due
  /\ loaded' = FALSE /\ due' = FALSE
  /\ UNCHANGED users

(* The library may go, and its interpreter with it, when it has no users:  *)
(* a first creation that failed has left one behind.                       *)
Discard ==
  /\ loaded /\ ~due /\ users = {}
  /\ loaded' = FALSE
  /\ UNCHANGED <<users, due>>

Next == Load \/ Unload \/ Discard \/ \E m \in MIs : Attach(m) \/ Detach(m)

(* An interpreter without users is unloaded, not just allowed to be.       *)
Spec == Init /\ [][Next]_vars /\ WF_vars(Unload)

=============================================================================
