---------------------------- MODULE HostContract ----------------------------
(***************************************************************************)
(* What an editor host promises its agents, whichever editor it runs in    *)
(* (docs/HOST_CONTRACT.md, docs/ARCHITECTURE.md sections 5 and 6):         *)
(*                                                                         *)
(*   - a revision stands for one state of the scene.  The state changes    *)
(*     only together with the revision, and the revision only grows;       *)
(*   - one transaction at a time is open.  It begins at the state its      *)
(*     revision stands for, and keeps that base until it ends;             *)
(*   - it is tainted by a change the host did not make, which is then      *)
(*     published with a revision of its own, and stays tainted;            *)
(*   - a tainted transaction ends only by force;                           *)
(*   - a transaction whose rollback met an exception may be gone: nothing  *)
(*     is published for it, and the agent is told of the exception only;   *)
(*   - a rollback that succeeds publishes the base again, as a new         *)
(*     revision unless the scene is at its base already: no other state    *)
(*     that was read inside the transaction is current.                    *)
(*                                                                         *)
(* Who asks, in which order, what fails and why is left open.              *)
(***************************************************************************)
LOCAL INSTANCE Naturals

CONSTANTS
  States,   \* states of the scene a revision can stand for
  Ids,      \* transaction identifiers
  None

VARIABLES
  known,    \* the state the revision stands for, None before the first
  current,  \* the revision
  open,     \* the open transaction: its identifier and its base
  tainted,  \* the open transaction met a change the host did not make
  ended     \* how this step ended a transaction, if it did

vars == <<known, current, open, tainted, ended>>

Closed == [id |-> None, base |-> None]
NotEnded == [how |-> "none", forced |-> FALSE]

Init ==
  /\ known = None /\ current = 0
  /\ open = Closed /\ tainted = FALSE
  /\ ended = NotEnded

-----------------------------------------------------------------------------
(* The scene's side of a step.                                             *)
Keep == UNCHANGED <<known, current>>

FirstLook == known = None /\ known' \in States /\ UNCHANGED current

Publish == known # None /\ known' \in States /\ current' > current

Observe == Keep \/ FirstLook \/ Publish

-----------------------------------------------------------------------------
(* The transaction's side of a step.                                       *)
Go ==
  /\ Observe
  /\ open' = open
  /\ ended' = NotEnded
  /\ \/ tainted' = tainted
     \/ open # Closed /\ Publish /\ tainted' = TRUE

Open(id) ==
  /\ Observe
  /\ open = Closed
  /\ open' = [id |-> id, base |-> known']
  /\ tainted' = FALSE
  /\ ended' = NotEnded

End(how, forced) ==
  /\ open # Closed
  /\ tainted => forced
  /\ open' = Closed
  /\ tainted' = FALSE
  /\ ended' = [how |-> how, forced |-> forced]

Commit(forced) == Observe /\ End("commit", forced)

Rollback(forced) ==
  /\ Observe
  /\ known' = open.base
  /\ End("rollback", forced)

Drop(forced) == Observe /\ End("dropped", forced)

Next ==
  \/ Go
  \/ \E id \in Ids : Open(id)
  \/ \E forced \in BOOLEAN :
       Commit(forced) \/ Rollback(forced) \/ Drop(forced)

Spec == Init /\ [][Next]_vars
=============================================================================
