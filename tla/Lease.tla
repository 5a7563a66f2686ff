------------------------------- MODULE Lease -------------------------------
(***************************************************************************)
(* What the container handling of libtftest promises, however the          *)
(* containers come about (Options.Reuse, harness.Run, one per test): a     *)
(* container is used only while it runs, and it is removed only when       *)
(* nobody uses it.                                                         *)
(***************************************************************************)
CONSTANTS
  Containers,  \* everything a test may be attached to
  Users        \* the tests

VARIABLES
  state,       \* [Containers -> {"absent", "running", "removed"}]
  users        \* [Containers -> SUBSET Users]

leaseVars == <<state, users>>

LeaseInit ==
  /\ state \in [Containers -> {"absent", "running"}]
  /\ users = [c \in Containers |-> {}]

(* A container comes up, for the one who started it or for whoever comes.  *)
Launch(c, firstUsers) ==
  /\ state[c] = "absent"
  /\ state' = [state EXCEPT ![c] = "running"]
  /\ users' = [users EXCEPT ![c] = firstUsers]

(* A user takes a running container.                                       *)
Join(u, c) ==
  /\ state[c] = "running"
  /\ users' = [users EXCEPT ![c] = @ \cup {u}]
  /\ state' = state

(* Users are done with whatever they used, one at a time or, when their    *)
(* process dies, together.                                                 *)
Leave(us) ==
  /\ users' = [c \in Containers |-> users[c] \ us]
  /\ state' = state

(* A container that nobody uses is removed.                                *)
Remove(c) ==
  /\ state[c] = "running"
  /\ users[c] = {}
  /\ state' = [state EXCEPT ![c] = "removed"]
  /\ users' = users

LeaseNext ==
  \/ \E c \in Containers :
       \/ \E us \in SUBSET Users : Launch(c, us)
       \/ \E u \in Users : Join(u, c)
       \/ Remove(c)
  \/ \E us \in SUBSET Users : Leave(us)

LeaseSpec == LeaseInit /\ [][LeaseNext]_leaseVars
============================================================================
