---------------------------- MODULE GroupBucket ----------------------------
(***************************************************************************)
(* What a group's bucket of the scheduler promises of its published        *)
(* snapshot, without keys, tokens, leases and versions: decisions follow   *)
(* the group's status in order, an active group's bucket has a snapshot    *)
(* that was loaded since it was last retired or none, and an inactive      *)
(* one's has none.  The rows of the accounts, which a snapshot names and   *)
(* shares with all others, are not promised anything.                      *)
(* SchedulerSnapshot implements this.                                      *)
(***************************************************************************)
EXTENDS Naturals

CONSTANT Nothing   \* no snapshot

VARIABLES
  accounts,  \* the accounts: the number of their changes so far
  status,    \* the group's status: the number of its changes so far
  decided,   \* the status the bucket follows
  life,      \* how often the bucket was retired
  drafts,    \* accounts that were loaded and may yet be published
  served     \* the published snapshot

vars == <<accounts, status, decided, life, drafts, served>>

\* A group is active at first, and each change of its status turns it.
IsActive(t) == t % 2 = 0

Init ==
  /\ accounts = 0 /\ status = 0 /\ decided = 0 /\ life = 0
  /\ drafts = {} /\ served = Nothing

Change ==
  /\ accounts' = accounts + 1
  /\ UNCHANGED <<status, decided, life, drafts, served>>

Turn ==
  /\ status' = status + 1
  /\ UNCHANGED <<accounts, decided, life, drafts, served>>

\* The bucket follows a status that is not older than the one it follows.  Only an
\* active group that stays active keeps its snapshot.
Follow(t) ==
  /\ decided' = t
  /\ life' = IF IsActive(decided) /\ ~IsActive(t) THEN life + 1 ELSE life
  /\ served' = IF IsActive(decided) /\ IsActive(t) THEN served ELSE Nothing
  /\ UNCHANGED <<accounts, status, drafts>>

\* The present accounts are loaded, or what was loaded is dropped.
Draft ==
  /\ drafts' \subseteq drafts \cup {[change |-> accounts, life |-> life]}
  /\ UNCHANGED <<accounts, status, decided, life, served>>

Publish ==
  /\ IsActive(decided)
  /\ \E d \in drafts : d.life = life /\ served' = d
  /\ UNCHANGED <<accounts, status, decided, life, drafts>>

Next ==
  \/ Change \/ Turn \/ Draft \/ Publish
  \/ \E t \in decided..status : Follow(t)

Spec == Init /\ [][Next]_vars

=============================================================================
