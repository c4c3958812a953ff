------------------------- MODULE GitWorkspaceProofs -------------------------
(***************************************************************************)
(* Theorems about git workspaces, for any changes and any number of commits *)
(* of any number of people.  IndInv adds three things to what is stated of  *)
(* them: histories are closed (Closed), a running workspace-finish has a     *)
(* workspace, and what it has found, committed and pinned so far (Finishing) *)
(* is still there when it pushes, because nothing but an edit touches the   *)
(* workspace meanwhile, and stays on the branch whoever commits to it.      *)
(***************************************************************************)
EXTENDS GitWorkspace, TLAPS

AllMade == 1 .. Len(commits)

\* A commit is in its own past, and so is the past of whatever is in it.
Closed ==
    \A i \in AllMade :
        /\ i \in commits[i].past /\ commits[i].past \subseteq AllMade
        /\ \A k \in commits[i].past : commits[k].past \subseteq commits[i].past

\* A set of commits with the past of each.
Complete(ids) == ids \subseteq AllMade /\ \A i \in ids : commits[i].past \subseteq ids

\* The work the last finish found is on the branch at origin.
Published ==
    branch # NoCommit /\ \E i \in commits[branch].past : owed \subseteq commits[i].tree

\* The lock pins a commit of the branch that holds the work.
Pinned ==
    /\ branch # NoCommit /\ pin \in commits[branch].past
    /\ owed \subseteq commits[pin].tree

Finishing ==
    /\ pc # "idle" => ws.known
    /\ pc = "commit" => owed \subseteq ws.tree
    /\ pc \in {"lock", "relock", "push", "close"} => owed \subseteq commits[ws.head].tree
    /\ pc \in {"push", "close"} => pin = ws.head
    /\ pc = "push" => push
    /\ (push /\ (pc = "close" \/ ~ws.there)) => Published
    /\ (push /\ (pc = "close" \/ (~ws.there /\ ~forced))) => Pinned

Places ==
    /\ ws \in [there : BOOLEAN, known : BOOLEAN, tree : Trees, original : Trees,
               head : Nat, has : SUBSET Ids]
    /\ ws.known => ws.there
    /\ ~ws.there => ws.has = {}
    /\ push \in Pushes \cup {FALSE}

IndInv == TypeOK /\ Closed /\ Places /\ Finishing


-----------------------------------------------------------------------------
\* TypeOK, in terms of the above.
TypeParts ==
    /\ commits \in Seq(Commit) /\ Len(commits) \in Ids
    /\ Complete(remote) /\ Complete(clone) /\ Complete(ws.has)
    /\ main \in remote /\ branch \in remote \cup {NoCommit}
    /\ pin \in AllMade \cup {NoCommit}
    /\ ws.there \in BOOLEAN /\ ws.known \in BOOLEAN
    /\ ws.tree \subseteq Changes /\ ws.original \subseteq Changes
    /\ ws.known => ws.head \in ws.has
    /\ pc \in {"idle", "status", "commit", "lock", "relock", "push", "close"}
    /\ push \in BOOLEAN /\ owed \subseteq Changes /\ forced \in BOOLEAN

LEMMA TypeIs == TypeOK <=> TypeParts
BY DEF TypeOK, TypeParts, Complete, AllMade

LEMMA TypeIsNext == TypeOK' <=> TypeParts'
BY DEF TypeOK, TypeParts, Complete, AllMade

LEMMA Numbers ==
  ASSUME commits \in Seq(Commit), Len(commits) \in Ids
  PROVE  /\ AllMade \subseteq Ids /\ 1 \in AllMade /\ NoCommit \notin AllMade
         /\ \A i \in AllMade : commits[i] \in Commit
         /\ Newest \notin AllMade /\ 1 .. Newest = AllMade \cup {Newest}
BY GitWorkspaceAssumption DEF AllMade, Ids, NoCommit, Newest

\* A new commit leaves the others as they are.
LEMMA MadeStep ==
  ASSUME commits \in Seq(Commit), Len(commits) \in Ids, Closed,
         NEW parent \in AllMade, NEW tree \in Trees, NEW kept \in SUBSET Trees,
         Made(parent, tree, kept)
  PROVE  /\ commits' \in Seq(Commit) /\ Len(commits') \in Ids /\ Closed'
         /\ AllMade' = AllMade \cup {Newest}
         /\ \A i \in AllMade : commits'[i] = commits[i]
         /\ commits'[Newest].past = commits[parent].past \cup {Newest}
         /\ commits'[Newest].tree = tree
<1> DEFINE new == [past |-> commits[parent].past \cup {Newest}, tree |-> tree, kept |-> kept]
<1>1. commits' = Append(commits, new) /\ Newest \in Ids
  BY DEF Made
<1>2. commits[parent] \in Commit
  BY Numbers
<1>3. new \in Commit
  BY <1>1, <1>2 DEF Commit
<1>4. commits' \in Seq(Commit) /\ Len(commits') = Newest
  BY <1>1, <1>3 DEF Newest
<1>5. AllMade' = AllMade \cup {Newest}
  BY <1>4, Numbers DEF AllMade
<1>6. \A i \in AllMade : commits'[i] = commits[i]
  BY <1>1, <1>3 DEF AllMade
<1>7. commits'[Newest] = new
  BY <1>1, <1>3 DEF Newest
<1>8. Closed'
  <2> SUFFICES ASSUME NEW i \in AllMade'
               PROVE  /\ i \in commits'[i].past /\ commits'[i].past \subseteq AllMade'
                      /\ \A k \in commits'[i].past : commits'[k].past \subseteq commits'[i].past
    BY DEF Closed
  <2>1. CASE i \in AllMade
    BY <2>1, <1>5, <1>6 DEF Closed
  <2>2. CASE i = Newest
    <3>1. commits'[i].past = commits[parent].past \cup {Newest}
      BY <2>2, <1>7
    <3>2. /\ commits[parent].past \subseteq AllMade
          /\ \A k \in commits[parent].past : commits[k].past \subseteq commits[parent].past
      BY DEF Closed
    <3>3. \A k \in commits[parent].past : commits'[k].past \subseteq commits'[i].past
      BY <3>1, <3>2, <1>6
    <3> QED BY <3>1, <3>2, <3>3, <2>2, <1>5
  <2> QED BY <2>1, <2>2, <1>5
<1>9. /\ commits'[Newest].past = commits[parent].past \cup {Newest}
      /\ commits'[Newest].tree = tree
  BY <1>7
<1>10. Len(commits') \in Ids
  BY <1>1, <1>4
<1> QED BY <1>4, <1>5, <1>6, <1>8, <1>9, <1>10, Zenon

\* What has the past of each of its commits keeps it.
LEMMA StaysComplete ==
  ASSUME NEW ids, Complete(ids), AllMade \subseteq AllMade',
         \A i \in AllMade : commits'[i] = commits[i]
  PROVE  ids \subseteq AllMade' /\ \A i \in ids : commits'[i].past \subseteq ids
BY DEF Complete

LEMMA AddedComplete ==
  ASSUME NEW ids, Complete(ids), NEW parent \in ids,
         AllMade' = AllMade \cup {Newest},
         \A i \in AllMade : commits'[i] = commits[i],
         commits'[Newest].past = commits[parent].past \cup {Newest}
  PROVE  /\ ids \cup {Newest} \subseteq AllMade'
         /\ \A i \in ids \cup {Newest} : commits'[i].past \subseteq ids \cup {Newest}
<1> SUFFICES ASSUME NEW i \in ids \cup {Newest}
             PROVE  commits'[i].past \subseteq ids \cup {Newest}
  BY DEF Complete
<1>1. CASE i = Newest
  BY <1>1 DEF Complete
<1>2. CASE i \in ids
  BY <1>2 DEF Complete
<1> QED BY <1>1, <1>2

LEMMA InitInv == Init => IndInv
<1> SUFFICES ASSUME Init PROVE IndInv
  OBVIOUS
<1> DEFINE first == [past |-> {1}, tree |-> {}, kept |-> {}]
<1>1. commits = <<first>> /\ first \in Commit
  BY GitWorkspaceAssumption DEF Init, Commit, Ids, Trees
<1>2. commits \in Seq(Commit) /\ Len(commits) = 1 /\ commits[1].past = {1}
  BY <1>1
<1>3. Len(commits) \in Ids
  BY <1>2, GitWorkspaceAssumption DEF Ids
<1>4. AllMade = {1}
  BY <1>2 DEF AllMade
<1>5. Closed
  BY <1>2, <1>4 DEF Closed
<1>6. Places /\ Finishing
  BY DEF Init, Places, Finishing, NoWorkspace, NoCommit, Trees
<1>7. TypeOK
  <2>1. Complete({1}) /\ Complete({})
    BY <1>2, <1>4 DEF Complete
  <2> QED BY <1>2, <1>3, <1>4, <2>1, TypeIs DEF TypeParts, Init, NoWorkspace, NoCommit
<1> QED BY <1>5, <1>6, <1>7 DEF IndInv


-----------------------------------------------------------------------------
\* Somebody's commit at origin, on the one branch or the other.
LEMMA OthersStep ==
  ASSUME IndInv, NEW c \in Changes, UpstreamCommits(c) \/ OthersPush(c)
  PROVE  IndInv'
<1> USE DEF IndInv
<1>1. /\ commits \in Seq(Commit) /\ Len(commits) \in Ids /\ Complete(remote)
      /\ main \in remote /\ branch \in remote \cup {NoCommit}
  BY TypeIs DEF TypeParts
<1>2. PICK base \in remote :
        /\ Made(base, commits[base].tree \cup {c}, commits[base].kept)
        /\ main' \in {main, Newest} /\ branch' \in {branch, Newest}
        /\ branch' = branch \/ branch \in {base, NoCommit}
  BY <1>1 DEF UpstreamCommits, OthersPush
<1>3. base \in AllMade /\ commits[base] \in Commit
  BY <1>1, Numbers DEF Complete
<1>4. commits[base].tree \cup {c} \in Trees /\ commits[base].kept \in SUBSET Trees
  BY <1>3 DEF Commit, Trees
<1>5. /\ commits' \in Seq(Commit) /\ Len(commits') \in Ids /\ Closed'
      /\ AllMade' = AllMade \cup {Newest}
      /\ \A i \in AllMade : commits'[i] = commits[i]
      /\ commits'[Newest].past = commits[base].past \cup {Newest}
  BY <1>1, <1>2, <1>3, <1>4, MadeStep
<1>6. /\ remote' = remote \cup {Newest}
      /\ UNCHANGED <<clone, pin, ws, pc, push, owed, forced>>
  BY DEF UpstreamCommits, OthersPush
<1>7. Complete(remote)'
  BY <1>1, <1>5, <1>6, AddedComplete DEF Complete
<1>8. Complete(clone)' /\ Complete(ws.has)'
  BY <1>5, <1>6, TypeIs, StaysComplete DEF TypeParts, Complete
<1>9. TypeOK'
  BY <1>1, <1>2, <1>5, <1>6, <1>7, <1>8, TypeIs, TypeIsNext DEF TypeParts
<1>10. Places'
  BY <1>6 DEF Places
<1>11. ws.known => commits'[ws.head] = commits[ws.head]
  BY <1>5, TypeIs DEF TypeParts, Complete
<1>12. branch # NoCommit =>
         branch' # NoCommit /\ commits[branch].past \subseteq commits'[branch'].past
  <2>1. Newest # NoCommit
    BY <1>1 DEF Newest, NoCommit, Ids
  <2>2. branch # NoCommit => branch \in AllMade
    BY <1>1 DEF Complete
  <2> QED BY <1>2, <1>5, <2>1, <2>2
<1>13. branch # NoCommit => \A i \in commits[branch].past : commits'[i] = commits[i]
  BY <1>1, <1>5 DEF Complete, Closed
<1>14. Published => Published'
  BY <1>6, <1>12, <1>13 DEF Published
<1>15. Pinned => Pinned'
  BY <1>6, <1>12, <1>13 DEF Pinned
<1>16. Finishing'
  BY <1>6, <1>11, <1>14, <1>15 DEF Finishing
<1> QED BY <1>5, <1>9, <1>10, <1>16

LEMMA CommitStep ==
  ASSUME IndInv, CommitByHand \/ CommitAll
  PROVE  IndInv'
<1> USE DEF IndInv
<1> DEFINE kept == IF CommitAll THEN {ws.original} ELSE commits[ws.head].kept
<1>1. /\ commits \in Seq(Commit) /\ Len(commits) \in Ids
      /\ Complete(ws.has) /\ ws.known /\ ws.head \in ws.has
  BY TypeIs DEF TypeParts, CommitByHand, CommitAll, Finishing
<1>2. ws.head \in AllMade /\ commits[ws.head] \in Commit
  BY <1>1, Numbers DEF Complete
<1>3. ws.tree \in Trees /\ kept \in SUBSET Trees
  BY <1>2 DEF Commit, Trees, Places
<1>4. Made(ws.head, ws.tree, kept)
  BY DEF CommitByHand, CommitAll
<1>5. /\ commits' \in Seq(Commit) /\ Len(commits') \in Ids /\ Closed'
      /\ AllMade' = AllMade \cup {Newest}
      /\ \A i \in AllMade : commits'[i] = commits[i]
      /\ commits'[Newest].past = commits[ws.head].past \cup {Newest}
      /\ commits'[Newest].tree = ws.tree
  BY <1>1, <1>2, <1>3, <1>4, MadeStep
<1>6. /\ ws' = [ws EXCEPT !.head = Newest, !.has = @ \cup {Newest}]
      /\ UNCHANGED <<origin, clone, pin, push, owed, forced>>
  BY DEF CommitByHand, CommitAll
<1>7. /\ ws'.head = Newest /\ ws'.has = ws.has \cup {Newest}
      /\ ws'.there = ws.there /\ ws'.known = ws.known
      /\ ws'.tree = ws.tree /\ ws'.original = ws.original
  BY <1>6 DEF Places
<1>8. Complete(ws.has)'
  BY <1>1, <1>5, <1>7, AddedComplete DEF Complete
<1>9. Complete(remote)' /\ Complete(clone)'
  BY <1>5, <1>6, TypeIs, StaysComplete DEF TypeParts, Complete, origin
<1>10. pc' \in {"idle", "lock"} /\ (pc' = "lock" => pc = "commit")
  BY DEF CommitByHand, CommitAll
<1>11. TypeOK'
  BY <1>5, <1>6, <1>7, <1>8, <1>9, <1>10, TypeIs, TypeIsNext DEF TypeParts, origin
<1>12. Places'
  <2>1. Newest \in Ids /\ Newest \in Nat
    BY <1>4, GitWorkspaceAssumption DEF Made, Ids
  <2>2. ws' \in [there : BOOLEAN, known : BOOLEAN, tree : Trees, original : Trees,
                 head : Nat, has : SUBSET Ids]
    BY <1>6, <2>1 DEF Places
  <2> QED BY <2>2, <1>1, <1>6, <1>7 DEF Places
<1>13. Published => Published'
  BY <1>5, <1>6, TypeIs DEF TypeParts, Published, Complete, Closed, origin
<1>14. Finishing'
  <2>1. ws.there
    BY <1>1 DEF Places
  <2>2. pc = "commit" => owed \subseteq ws.tree
    BY DEF Finishing
  <2> QED BY <1>1, <1>5, <1>6, <1>7, <1>10, <1>13, <2>1, <2>2 DEF Finishing
<1> QED BY <1>5, <1>11, <1>12, <1>14

\* Steps that neither commit nor move a branch.
LEMMA QuietStep ==
  ASSUME IndInv,
         \/ \E c \in Changes : Edit(c)
         \/ FetchForce \/ Open \/ StartFinish \/ Status \/ Lock \/ Relock
         \/ PushFails \/ Close \/ Killed
  PROVE  IndInv'
<1> USE DEF IndInv
<1>1. UNCHANGED <<commits, origin>>
  BY DEF Edit, FetchForce, Open, StartFinish, Status, Lock, Relock, PushFails, Close, Killed
<1>2. Closed' /\ AllMade' = AllMade /\ (Complete(remote))'
  BY <1>1, TypeIs DEF TypeParts, Closed, AllMade, Complete, origin
<1>3. owed' = owed => (Published => Published') /\ (pin' = pin => (Pinned => Pinned'))
  BY <1>1 DEF Published, Pinned, origin
<1>4. ASSUME NEW c \in Changes, Edit(c) PROVE IndInv'
  <2>1. /\ ws' = [ws EXCEPT !.tree = @ \cup {c}] /\ ws.known
        /\ UNCHANGED <<clone, pin, pc, push, owed, forced>>
    BY <1>4 DEF Edit
  <2>2. /\ ws'.tree = ws.tree \cup {c} /\ ws'.head = ws.head /\ ws'.has = ws.has
        /\ ws'.there = ws.there /\ ws'.known = ws.known /\ ws'.original = ws.original
    BY <2>1 DEF Places
  <2>3. TypeOK'
    BY <1>1, <1>2, <2>1, <2>2, TypeIs, TypeIsNext DEF TypeParts, Complete, origin
  <2>4. Places'
    BY <2>1, <2>2 DEF Places, Trees
  <2>5. Finishing'
    BY <1>1, <1>3, <2>1, <2>2 DEF Finishing
  <2> QED BY <1>2, <2>3, <2>4, <2>5
<1>5. CASE FetchForce
  <2>1. /\ clone' = remote /\ pin' = main /\ forced' = TRUE /\ pc = "idle"
        /\ UNCHANGED <<ws, pc, push, owed>>
    BY <1>5 DEF FetchForce
  <2>2. TypeOK'
    BY <1>1, <1>2, <2>1, TypeIs, TypeIsNext DEF TypeParts, Complete, origin
  <2>3. Places' /\ Finishing'
    BY <1>1, <1>3, <2>1 DEF Places, Finishing
  <2> QED BY <1>2, <2>2, <2>3
<1>6. CASE Open
  <2>1. clone' = Fetched /\ UNCHANGED <<pin, pc, push, owed, forced>> /\ pc = "idle" /\ ~ws.there
    BY <1>6 DEF Open
  <2>2. Complete(Fetched)
    BY TypeIs DEF TypeParts, Fetched, Complete, Closed
  <2>3. CASE ws' = ws
    <3>1. TypeOK'
      BY <1>1, <1>2, <2>1, <2>2, <2>3, TypeIs, TypeIsNext DEF TypeParts, Complete, origin
    <3> QED BY <1>1, <1>2, <1>3, <2>1, <2>3, <3>1 DEF Places, Finishing
  <2>4. CASE /\ Wanted \in Fetched
             /\ ws' = [there |-> TRUE, known |-> TRUE,
                       tree |-> commits[Wanted].tree,
                       original |-> commits[Wanted].tree,
                       head |-> Wanted, has |-> Fetched]
    <3>1. Wanted \in AllMade /\ commits[Wanted].tree \in Trees /\ Wanted \in Nat
      BY <2>2, <2>4, TypeIs, Numbers DEF TypeParts, Complete, Commit, Ids
    <3>2. Fetched \subseteq Ids
      BY <2>2, TypeIs, Numbers DEF TypeParts, Complete
    <3>3. TypeOK'
      BY <1>1, <1>2, <2>1, <2>2, <2>4, <3>1, TypeIs, TypeIsNext DEF TypeParts, Complete, origin, Trees
    <3>4. Places'
      BY <2>1, <2>4, <3>1, <3>2 DEF Places
    <3>5. Finishing'
      BY <2>1, <2>4 DEF Finishing
    <3> QED BY <1>2, <3>3, <3>4, <3>5
  <2> QED BY <1>6, <2>3, <2>4 DEF Open
<1>7. CASE StartFinish
  <2>1. /\ ws.known /\ push' \in Pushes /\ forced' = FALSE /\ pc' = "status"
        /\ UNCHANGED <<clone, pin, ws, owed>>
    BY <1>7 DEF StartFinish
  <2>2. push' \in BOOLEAN
    BY <2>1, GitWorkspaceAssumption
  <2>3. TypeOK'
    BY <1>1, <1>2, <2>1, <2>2, TypeIs, TypeIsNext DEF TypeParts, Complete, origin
  <2> QED BY <1>2, <2>1, <2>3 DEF Places, Finishing
<1>8. CASE Status \/ Lock \/ Relock \/ PushFails
  <2>1. /\ UNCHANGED <<clone, ws, push, forced>> /\ pc # "idle"
        /\ pc' \in {"idle", "commit", "lock", "relock", "push", "close"}
        /\ owed' \in {owed, ws.tree} /\ pin' \in {pin, NoCommit, ws.head}
    BY <1>8 DEF Status, Lock, Relock, PushFails
  <2>2. ws.known /\ ws.there
    BY <2>1 DEF Finishing, Places
  <2>3. ws.head \in AllMade
    BY <2>2, TypeIs DEF TypeParts, Complete
  <2>4. TypeOK'
    BY <1>1, <1>2, <2>1, <2>3, TypeIs, TypeIsNext DEF TypeParts, Complete, origin
  <2>5. Places'
    BY <2>1 DEF Places
  <2>6. Finishing'
    BY <1>1, <1>8, <2>1, <2>2
    DEF Finishing, Status, Lock, Relock, PushFails, Dirty
  <2> QED BY <1>2, <2>4, <2>5, <2>6
<1>9. CASE Close \/ Killed
  <2>1. UNCHANGED <<clone, pin, push, owed, forced>> /\ pc' = "idle" /\ pc # "idle"
    BY <1>9 DEF Close, Killed
  <2>2. \/ ws' = NoWorkspace /\ pc = "close"
        \/ ws' = [NoWorkspace EXCEPT !.there = TRUE]
        \/ ws' = ws
        \/ \E t \in SUBSET ws.tree : ws' = [ws EXCEPT !.tree = t]
    BY <1>9 DEF Close, Killed
  <2>3. CASE ws' = NoWorkspace /\ pc = "close"
    <3>1. TypeOK'
      BY <1>1, <1>2, <2>1, <2>3, TypeIs, TypeIsNext DEF TypeParts, Complete, origin, NoWorkspace
    <3>2. Places'
      BY <2>1, <2>3 DEF Places, NoWorkspace, Trees, NoCommit
    <3>3. Finishing'
      BY <1>3, <2>1, <2>3 DEF Finishing, NoWorkspace
    <3> QED BY <1>2, <3>1, <3>2, <3>3
  <2>4. CASE ws' = [NoWorkspace EXCEPT !.there = TRUE]
    <3>1. TypeOK'
      BY <1>1, <1>2, <2>1, <2>4, TypeIs, TypeIsNext DEF TypeParts, Complete, origin, NoWorkspace
    <3>2. Places' /\ Finishing'
      BY <2>1, <2>4 DEF Places, Finishing, NoWorkspace, Trees, NoCommit
    <3> QED BY <1>2, <3>1, <3>2
  <2>5. CASE ws' = ws \/ \E t \in SUBSET ws.tree : ws' = [ws EXCEPT !.tree = t]
    <3>1. /\ ws'.tree \subseteq ws.tree /\ ws'.head = ws.head /\ ws'.has = ws.has
          /\ ws'.there = ws.there /\ ws'.known = ws.known /\ ws'.original = ws.original
      BY <2>5 DEF Places
    <3>2. TypeOK'
      BY <1>1, <1>2, <2>1, <3>1, TypeIs, TypeIsNext DEF TypeParts, Complete, origin
    <3>3. Places'
      BY <2>1, <2>5, <3>1 DEF Places, Trees
    <3>4. ws.there
      BY <2>1 DEF Places, Finishing
    <3>5. Finishing'
      BY <2>1, <3>1, <3>4 DEF Finishing
    <3> QED BY <1>2, <3>2, <3>3, <3>5
  <2> QED BY <2>2, <2>3, <2>4, <2>5
<1> QED BY <1>4, <1>5, <1>6, <1>7, <1>8, <1>9


LEMMA PushStep ==
  ASSUME IndInv, Push
  PROVE  IndInv'
<1> USE DEF IndInv
<1>1. /\ remote' = remote \cup commits[ws.head].past /\ branch' = ws.head
      /\ pc = "push" /\ pc' = "close"
      /\ UNCHANGED <<commits, main, clone, pin, ws, push, owed, forced>>
  BY DEF Push
<1>2. ws.known /\ ws.head \in AllMade
  BY <1>1, TypeIs DEF TypeParts, Complete, Finishing
<1>3. Closed' /\ AllMade' = AllMade
  BY <1>1 DEF Closed, AllMade
<1>4. ws.head \in commits[ws.head].past
  BY <1>2 DEF Closed
<1>5. Complete(remote)'
  BY <1>1, <1>2, TypeIs DEF TypeParts, Complete, Closed, AllMade
<1>6. TypeOK'
  BY <1>1, <1>3, <1>4, <1>5, TypeIs, TypeIsNext DEF TypeParts, Complete
<1>7. Places'
  BY <1>1 DEF Places
<1>8. Published'
  <2>1. ws.head # NoCommit
    BY <1>2 DEF AllMade, NoCommit
  <2> QED BY <1>1, <1>4, <2>1 DEF Published, Finishing
<1>9. Pinned'
  <2>1. branch' # NoCommit
    BY <1>1, <1>2 DEF AllMade, NoCommit
  <2> QED BY <1>1, <1>4, <2>1 DEF Pinned, Finishing
<1>10. Finishing'
  BY <1>1, <1>2, <1>8, <1>9 DEF Finishing
<1> QED BY <1>3, <1>6, <1>7, <1>10

LEMMA NextInv == IndInv /\ [Next]_vars => IndInv'
<1> SUFFICES ASSUME IndInv, [Next]_vars PROVE IndInv'
  OBVIOUS
<1>1. CASE UNCHANGED vars
  <2>1. TypeOK' /\ Closed'
    BY <1>1, TypeIs, TypeIsNext DEF IndInv, TypeParts, Closed, Complete, AllMade, vars, origin
  <2> QED BY <1>1, <2>1 DEF IndInv, Places, Finishing, Published, Pinned, vars, origin
<1>2. CASE Push
  BY <1>2, PushStep
<1>3. CASE CommitByHand \/ CommitAll
  BY <1>3, CommitStep
<1>4. CASE \E c \in Changes : UpstreamCommits(c) \/ OthersPush(c)
  BY <1>4, OthersStep
<1>5. CASE \/ \E c \in Changes : Edit(c)
           \/ FetchForce \/ Open \/ StartFinish \/ Status \/ Lock \/ Relock
           \/ PushFails \/ Close \/ Killed
  BY <1>5, QuietStep
<1> QED BY <1>1, <1>2, <1>3, <1>4, <1>5 DEF Next, People, Command

LEMMA Inductive == Spec => []IndInv
<1> QED BY InitInv, NextInv, PTL DEF Spec

-----------------------------------------------------------------------------
\* The variables have their types, what branches, HEAD and the lock name was
\* committed once, and a repository with a commit has its past: see TypeOK.
THEOREM TypeCorrect == Spec => []TypeOK
<1>1. IndInv => TypeOK
  BY DEF IndInv
<1> QED BY <1>1, Inductive, PTL

(***************************************************************************)
(* Once workspace-finish with -workspace-push has removed the workspace,   *)
(* the work it found is on the branch at origin (WorkspaceFinishGit), with *)
(* and without a commit, a failed push and a kill before.                  *)
(***************************************************************************)
THEOREM FinishedIsPublished == Spec => []WorkIsPublished
<1>1. IndInv => WorkIsPublished
  BY DEF IndInv, Finishing, Published, WorkIsPublished
<1> QED BY <1>1, Inductive, PTL

(***************************************************************************)
(* What workspace-finish with -workspace-push leaves in checksum.lock when  *)
(* it has removed the workspace is a commit of the branch at origin with    *)
(* all the work it found, whoever else commits to that branch, and however  *)
(* often the push was rejected or the command killed and started again;     *)
(* only `fetch -force' pins another one (WorkspaceFinishGit).               *)
(***************************************************************************)
THEOREM FinishedPinsItsWork == Spec => []FinishedIsPinned
<1>1. IndInv => FinishedIsPinned
  BY DEF IndInv, Finishing, Pinned, FinishedIsPinned
<1> QED BY <1>1, Inductive, PTL


-----------------------------------------------------------------------------
(***************************************************************************)
(* The pin of a finish that pushes is at origin before the workspace is    *)
(* removed.                                                                *)
(***************************************************************************)
PinIsKept ==
    /\ PinIsObtainable
    /\ pc \in {"status", "commit", "lock", "relock"} => push
    /\ pc = "close" => pin \in remote

(***************************************************************************)
(* If workspaces are always finished with -workspace-push, then whatever   *)
(* is killed or rejected there is always a repository with the commit that *)
(* checksum.lock pins.                                                     *)
(***************************************************************************)
THEOREM PinsExist == Pushes = {TRUE} => (Spec => []PinIsObtainable)
<1> SUFFICES ASSUME Pushes = {TRUE} PROVE Spec => []PinIsObtainable
  OBVIOUS
<1>1. Init => PinIsKept
  BY DEF Init, PinIsKept, PinIsObtainable
<1>2. IndInv /\ PinIsKept /\ [Next]_vars => PinIsKept'
  <2> SUFFICES ASSUME IndInv, PinIsKept, [Next]_vars PROVE PinIsKept'
    OBVIOUS
  <2> USE DEF PinIsKept, PinIsObtainable
  <2>1. CASE UNCHANGED vars
    BY <2>1 DEF vars, origin
  <2>2. ASSUME NEW c \in Changes, UpstreamCommits(c) \/ OthersPush(c) \/ Edit(c)
        PROVE  PinIsKept'
    <3>1. UNCHANGED <<clone, pin, pc, push>> /\ remote \subseteq remote'
      BY <2>2 DEF UpstreamCommits, OthersPush, Edit, origin
    <3>2. ws'.has = ws.has /\ ws'.head = ws.head
      BY <2>2 DEF UpstreamCommits, OthersPush, Edit, IndInv, Places
    <3> QED BY <3>1, <3>2
  <2>3. CASE CommitByHand \/ CommitAll
    <3>1. UNCHANGED <<remote, clone, pin, push>> /\ pc # "close" /\ pc # "push"
          /\ (pc' = pc \/ pc = "commit") /\ pc' \in {"idle", "lock"}
      BY <2>3 DEF CommitByHand, CommitAll, origin
    <3>2. ws.has \subseteq ws'.has
      BY <2>3 DEF CommitByHand, CommitAll, IndInv, Places
    <3> QED BY <3>1, <3>2
  <2>4. CASE FetchForce
    BY <2>4, TypeIs DEF FetchForce, IndInv, TypeParts
  <2>5. CASE Open
    <3>1. clone \subseteq Fetched
      BY DEF Fetched
    <3>2. UNCHANGED <<remote, pin, pc, push>> /\ clone' = Fetched /\ pc = "idle" /\ ws.has = {}
      BY <2>5 DEF Open, origin, IndInv, Places
    <3> QED BY <3>1, <3>2
  <2>6. CASE StartFinish \/ Status \/ Lock \/ PushFails
    <3>1. UNCHANGED <<remote, clone, ws>> /\ pin' \in {pin, NoCommit}
      BY <2>6 DEF StartFinish, Status, Lock, PushFails, origin
    <3> QED BY <2>6, <3>1 DEF StartFinish, Status, Lock, PushFails
  <2>7. CASE Relock
    BY <2>7, TypeIs DEF Relock, origin, IndInv, TypeParts, Finishing
  <2>8. CASE Push
    <3>1. ws.head \in commits[ws.head].past
      BY <2>8, TypeIs DEF Push, IndInv, TypeParts, Finishing, Complete, Closed
    <3> QED BY <2>8, <3>1 DEF Push, IndInv, Finishing
  <2>9. CASE Close \/ Killed
    <3>1. UNCHANGED <<remote, clone, pin, push>> /\ pc' = "idle"
      BY <2>9 DEF Close, Killed, origin
    <3>2. pc = "close" \/ ws' = ws
      BY <2>9 DEF Close, Killed
    <3> QED BY <3>1, <3>2
  <2> QED BY <2>1, <2>2, <2>3, <2>4, <2>5, <2>6, <2>7, <2>8, <2>9 DEF Next, People, Command
<1>3. PinIsKept => PinIsObtainable
  BY DEF PinIsKept
<1> QED BY <1>1, <1>2, <1>3, Inductive, PTL DEF Spec
=============================================================================
