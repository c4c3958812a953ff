------------------------------ MODULE JobQueue ------------------------------
(***************************************************************************)
(* What the job server of `ignite server` promises to the clients of its   *)
(* HTTP API, with the threads, locks and child processes left out: jobs    *)
(* wait in one line, are served one at a time in the order they arrived,   *)
(* and once settled (finished, or withdrawn while they waited) never come  *)
(* back.  JobServer implements this module.                                *)
(***************************************************************************)
EXTENDS Sequences, SequencesExt

CONSTANTS Jobs,  \* the job ids
          None   \* "no job", not a member of Jobs

VARIABLES pending,  \* the jobs waiting, oldest first
          serving,  \* the job being served, or None
          settled   \* the jobs that are over

vars == <<pending, serving, settled>>

Known == Range(pending) \cup {serving} \cup settled

Init == pending = <<>> /\ serving = None /\ settled = {}

Submit(j) ==
  /\ j \notin Known
  /\ pending' = Append(pending, j)
  /\ UNCHANGED <<serving, settled>>

Withdraw(i) ==
  /\ pending' = RemoveAt(pending, i)
  /\ settled' = settled \cup {pending[i]}
  /\ UNCHANGED serving

Serve ==
  /\ serving = None
  /\ pending # <<>>
  /\ serving' = Head(pending)
  /\ pending' = Tail(pending)
  /\ UNCHANGED settled

Settle ==
  /\ serving # None
  /\ settled' = settled \cup {serving}
  /\ serving' = None
  /\ UNCHANGED pending

Next ==
  \/ \E j \in Jobs : Submit(j)
  \/ \E i \in DOMAIN pending : Withdraw(i)
  \/ Serve
  \/ Settle

SafeSpec == Init /\ [][Next]_vars

Spec == SafeSpec /\ WF_vars(Serve) /\ WF_vars(Settle)
=============================================================================
