---------------------------- MODULE ResolveProofs ----------------------------
(***************************************************************************)
(* Theorems about Resolve, for any recipes, with cycles or without, any    *)
(* lists of dependencies and any call.                                     *)
(*                                                                         *)
(* What lies below a recipe is the least set closed under edges, so that   *)
(* its properties follow from that of one closed set or another.  The      *)
(* search is correct because its stack is a path (Path), because what is   *)
(* visited is emitted or on the stack (Seen), and because a frame has seen *)
(* the dependencies before the one it looks at (Looked): a dependency that *)
(* is not emitted when its dependent returns is on the stack, hence on a   *)
(* cycle, and there Hash does not return.                                  *)
(***************************************************************************)
EXTENDS Resolve, SequenceTheorems, TLAPS

OnStack == {stack[k].id : k \in DOMAIN stack}

Seen ==
  /\ OnStack \subseteq visited /\ Emitted \subseteq visited
  /\ result = "running" => visited \subseteq Emitted \cup OnStack
  /\ OnStack \cup Emitted \subseteq project.pool

Path == \A k, m \in DOMAIN stack : k < m => stack[m].id \in HashBelow(stack[k].id)

Looked ==
  \A k \in DOMAIN stack : \A i \in DOMAIN Depends(stack[k].id) :
    i < stack[k].next => Depends(stack[k].id)[i] \in visited

\* Whatever is emitted was emitted a first time.
HasFirst ==
  \A id \in Emitted : \E k \in DOMAIN output :
    output[k].id = id /\ \A m \in 1..(k-1) : output[m].id # id

\* What is visited is wanted, and no id of the call is passed over.
Asked ==
  /\ visited \subseteq Wanted(Range(call.ids))
  /\ \A n \in DOMAIN call.ids : n < nextId => call.ids[n] \in visited

IndInv == TypeOK /\ Seen /\ Path /\ Looked /\ HasFirst /\ Asked /\ DepsFirst

-----------------------------------------------------------------------------
(* Graphs *)

LEMMA EdgesType ==
  ASSUME project \in ProjectType, call \in CallType, NEW id \in Recipes
  PROVE  /\ Depends(id) \in Seq(Recipes) /\ Range(Depends(id)) \subseteq Recipes
         /\ Range(HashEdges(id)) \subseteq Recipes
         /\ Range(Edges(id)) \subseteq Recipes
         /\ id \in project.pool => Range(Depends(id)) \subseteq Range(HashEdges(id))
<1> DEFINE D == project.depends[id]
           B == project.buildTimeDepends[id]
           I == project.include[id]
<1>1. D \in Seq(Recipes) /\ B \in Seq(Recipes) /\ I \in Seq(Recipes)
  BY DEF ProjectType, Lists
<1> HIDE DEF D, B, I
<1>2. \A s, t \in Seq(Recipes) :
        /\ s \o t \in Seq(Recipes) /\ Range(s) \subseteq Recipes
        /\ Range(s \o t) = Range(s) \cup Range(t)
  <2> SUFFICES ASSUME NEW s \in Seq(Recipes), NEW t \in Seq(Recipes)
               PROVE  /\ s \o t \in Seq(Recipes) /\ Range(s) \subseteq Recipes
                      /\ Range(s \o t) = Range(s) \cup Range(t)
    OBVIOUS
  <2>1. \A n \in DOMAIN s : (s \o t)[n] = s[n] /\ n \in DOMAIN (s \o t)
    OBVIOUS
  <2>2. \A n \in DOMAIN t : (s \o t)[n + Len(s)] = t[n] /\ n + Len(s) \in DOMAIN (s \o t)
    OBVIOUS
  <2>3. \A n \in DOMAIN (s \o t) : n \in DOMAIN s \/ n - Len(s) \in DOMAIN t
    OBVIOUS
  <2>4. \A n \in DOMAIN (s \o t) : (s \o t)[n] \in Range(s) \cup Range(t)
    BY <2>3 DEF Range
  <2>5. Range(s) \subseteq Range(s \o t) /\ Range(t) \subseteq Range(s \o t)
    BY <2>1, <2>2, Zenon DEF Range
  <2>6. Range(s \o t) \subseteq Range(s) \cup Range(t)
    BY <2>4 DEF Range
  <2>7. s \o t \in Seq(Recipes) /\ Range(s) \subseteq Recipes
    BY DEF Range
  <2> QED BY <2>5, <2>6, <2>7
<1>3. <<>> \in Seq(Recipes) /\ Range(<<>>) = {}
  BY DEF Range
<1>4. HashDepends(id) = D \o B \o I
  BY DEF HashDepends, D, B, I
<1>5. Depends(id) = D \o (IF call.devel THEN B ELSE <<>>)
                      \o (IF call.includeExtra THEN I ELSE <<>>)
  BY DEF Depends, D, B, I
<1>6. HashDepends(id) \in Seq(Recipes)
      /\ Range(HashDepends(id)) = Range(D) \cup Range(B) \cup Range(I)
  <2>1. D \o B \in Seq(Recipes) /\ Range(D \o B) = Range(D) \cup Range(B)
    BY <1>1, <1>2
  <2>2. D \o B \o I \in Seq(Recipes) /\ Range(D \o B \o I) = Range(D \o B) \cup Range(I)
    BY <1>1, <1>2, <2>1
  <2> QED BY <2>1, <2>2, <1>4
<1>7. Depends(id) \in Seq(Recipes) /\ Range(Depends(id)) \subseteq Range(HashDepends(id))
  <2> DEFINE b == IF call.devel THEN B ELSE <<>>
             i == IF call.includeExtra THEN I ELSE <<>>
  <2>1. b \in Seq(Recipes) /\ Range(b) \subseteq Range(B)
    BY <1>1, <1>3
  <2>2. i \in Seq(Recipes) /\ Range(i) \subseteq Range(I)
    BY <1>1, <1>3
  <2> HIDE DEF b, i
  <2>3. D \o b \in Seq(Recipes) /\ Range(D \o b) = Range(D) \cup Range(b)
    BY <1>1, <1>2, <2>1
  <2>4. D \o b \o i \in Seq(Recipes) /\ Range(D \o b \o i) = Range(D \o b) \cup Range(i)
    BY <1>2, <2>2, <2>3
  <2>5. Depends(id) = D \o b \o i
    BY <1>5 DEF b, i
  <2> QED BY <2>1, <2>2, <2>3, <2>4, <2>5, <1>6
<1> QED BY <1>2, <1>3, <1>6, <1>7 DEF HashEdges, Edges

LEMMA HashBelowIs ==
  \A id : HashBelow(id) =
    {x \in Recipes : \A C \in SUBSET Recipes :
       (/\ Range(HashEdges(id)) \subseteq C
        /\ \A y \in C : Range(HashEdges(y)) \subseteq C) => x \in C}
BY DEF HashBelow, Closure

LEMMA WantedIs ==
  \A S : Wanted(S) =
    {x \in Recipes : \A C \in SUBSET Recipes :
       (S \subseteq C /\ \A y \in C : Range(Edges(y)) \subseteq C) => x \in C}
BY DEF Wanted, Closure

\* Below a recipe is what it needs and what lies below that.
LEMMA HashBelowFacts ==
  ASSUME project \in ProjectType, call \in CallType, NEW id \in Recipes
  PROVE  /\ Range(HashEdges(id)) \subseteq HashBelow(id)
         /\ \A y \in HashBelow(id) : Range(HashEdges(y)) \subseteq HashBelow(id)
         /\ HashBelow(id) \subseteq Recipes
<1>1. \A y \in Recipes : Range(HashEdges(y)) \subseteq Recipes
  BY EdgesType
<1> QED BY <1>1, HashBelowIs, Zenon

LEMMA WantedFacts ==
  ASSUME project \in ProjectType, call \in CallType, NEW S \in SUBSET Recipes
  PROVE  /\ S \subseteq Wanted(S) /\ Wanted(S) \subseteq Recipes
         /\ \A y \in Wanted(S) : Range(Edges(y)) \subseteq Wanted(S)
         /\ \A C \in SUBSET Recipes :
              (S \subseteq C /\ \A y \in C : Range(Edges(y)) \subseteq C) => Wanted(S) \subseteq C
<1>1. \A y \in Recipes : Range(Edges(y)) \subseteq Recipes
  BY EdgesType
<1> QED BY <1>1, WantedIs, Zenon


\* What is wanted for a recipe is the recipe and what is wanted for those it needs.
LEMMA WantedOfOne ==
  ASSUME project \in ProjectType, call \in CallType, NEW id \in Recipes
  PROVE  Wanted({id}) = {id} \cup UNION {Wanted({dep}) : dep \in Range(Edges(id))}
<1> DEFINE C == {id} \cup UNION {Wanted({dep}) : dep \in Range(Edges(id))}
<1>1. \A y \in Recipes : Range(Edges(y)) \subseteq Recipes
  BY EdgesType
<1>2. \A dep \in Range(Edges(id)) :
        /\ dep \in Wanted({dep}) /\ Wanted({dep}) \subseteq Recipes
        /\ \A y \in Wanted({dep}) : Range(Edges(y)) \subseteq Wanted({dep})
        /\ \A D \in SUBSET Recipes :
             (dep \in D /\ \A y \in D : Range(Edges(y)) \subseteq D) => Wanted({dep}) \subseteq D
  <2> SUFFICES ASSUME NEW dep \in Range(Edges(id))
               PROVE  /\ dep \in Wanted({dep}) /\ Wanted({dep}) \subseteq Recipes
                      /\ \A y \in Wanted({dep}) : Range(Edges(y)) \subseteq Wanted({dep})
                      /\ \A D \in SUBSET Recipes :
                           (dep \in D /\ \A y \in D : Range(Edges(y)) \subseteq D)
                             => Wanted({dep}) \subseteq D
    OBVIOUS
  <2>1. {dep} \in SUBSET Recipes
    BY <1>1
  <2> QED BY <2>1, WantedFacts
<1>0. \A x : x \in C <=> x = id \/ \E dep \in Range(Edges(id)) : x \in Wanted({dep})
  OBVIOUS
<1> HIDE DEF C
<1>3. C \in SUBSET Recipes
  BY <1>0, <1>2
<1>4. \A y \in C : Range(Edges(y)) \subseteq C
  <2> SUFFICES ASSUME NEW y \in C, NEW x \in Range(Edges(y)) PROVE x \in C
    OBVIOUS
  <2>1. CASE y = id
    BY <2>1, <1>0, <1>2
  <2>2. ASSUME NEW dep \in Range(Edges(id)), y \in Wanted({dep}) PROVE x \in C
    BY <2>2, <1>0, <1>2
  <2> QED BY <2>1, <2>2, <1>0
<1>5. /\ id \in Wanted({id}) /\ Wanted({id}) \in SUBSET Recipes
      /\ \A y \in Wanted({id}) : Range(Edges(y)) \subseteq Wanted({id})
      /\ \A D \in SUBSET Recipes :
           ({id} \subseteq D /\ \A y \in D : Range(Edges(y)) \subseteq D) => Wanted({id}) \subseteq D
  <2>1. {id} \in SUBSET Recipes
    OBVIOUS
  <2> QED BY <2>1, WantedFacts
<1>6. Wanted({id}) \subseteq C
  BY <1>0, <1>3, <1>4, <1>5
<1>7. C \subseteq Wanted({id})
  BY <1>0, <1>2, <1>5
<1> QED BY <1>6, <1>7 DEF C

\* The inputs never change, and nothing that follows from them.
LEMMA SameGraph ==
  ASSUME UNCHANGED <<project, call>>
  PROVE  /\ \A id : Depends(id)' = Depends(id) /\ HashBelow(id)' = HashBelow(id)
         /\ \A S : Wanted(S)' = Wanted(S)
<1>1. \A id : Depends(id)' = Depends(id) /\ HashEdges(id)' = HashEdges(id) /\ Edges(id)' = Edges(id)
  BY DEF Depends, HashEdges, HashDepends, Edges
<1>2. \A id : HashBelow(id)' = HashBelow(id)
  BY <1>1 DEF HashBelow, Closure
<1>3. \A S : Wanted(S)' = Wanted(S)
  BY <1>1 DEF Wanted, Closure
<1> QED BY <1>1, <1>2, <1>3

LEMMA SameOrder ==
  ASSUME DepsFirst, UNCHANGED <<project, call, output>>
  PROVE  DepsFirst'
<1>1. \A k : Range(Depends(output[k].id))' = Range(Depends(output[k].id))
  BY SameGraph
<1>2. output' = output /\ call' = call
  OBVIOUS
<1> SUFFICES ASSUME call'.includeDepends, NEW k \in DOMAIN output',
                    NEW dep \in Range(Depends(output[k].id))'
             PROVE  \E m \in 1..(k-1) : output'[m].id = dep
  BY Zenon DEF DepsFirst
<1>3. dep \in Range(Depends(output[k].id))
  BY <1>1
<1>4. call.includeDepends /\ k \in DOMAIN output
  BY <1>2, Zenon
<1>5. \E m \in 1..(k-1) : output[m].id = dep
  BY <1>3, <1>4, Zenon DEF DepsFirst
<1> QED BY <1>2, <1>5, Zenon

-----------------------------------------------------------------------------
(* The search *)

LEMMA InitInv == Init => IndInv
<1> SUFFICES ASSUME Init PROVE IndInv
  OBVIOUS
<1>1. project \in ProjectType /\ call \in CallType
  BY ResolveAssumption DEF Init
<1>2. Emitted = {} /\ OnStack = {} /\ DOMAIN stack = {} /\ DOMAIN output = {}
  BY DEF Init, Emitted, OnStack
<1>3. TypeOK
  BY <1>1 DEF Init, TypeOK
<1>4. \A n \in DOMAIN call.ids : ~(n < nextId)
  BY <1>1 DEF Init, CallType
<1> QED BY <1>2, <1>3, <1>4 DEF Init, IndInv, Seen, Path, Looked, HasFirst, Asked, DepsFirst

Frames == [id : Recipes, next : Nat \ {0}]

LEMMA FrameFacts ==
  ASSUME TypeOK, NEW k \in DOMAIN stack
  PROVE  stack[k] \in Frames /\ stack[k].id \in Recipes /\ stack[k].next \in Nat \ {0}
<1>1. stack \in Seq(Frames)
  BY DEF TypeOK, Frames
<1>2. stack[k] \in Frames
  BY <1>1
<1> QED BY <1>2 DEF Frames

\* Top of the stack, which is not empty.
LEMMA TopFacts ==
  ASSUME TypeOK, stack # <<>>
  PROVE  /\ Len(stack) \in DOMAIN stack /\ Top = stack[Len(stack)] /\ Top \in Frames
         /\ Front(stack) \in Seq(Frames) /\ Len(Front(stack)) = Len(stack) - 1
         /\ \A k \in DOMAIN Front(stack) :
              k \in DOMAIN stack /\ k < Len(stack) /\ Front(stack)[k] = stack[k]
         /\ \A k \in DOMAIN stack : k = Len(stack) \/ k \in DOMAIN Front(stack)
<1>1. stack \in Seq(Frames) /\ Len(stack) \in Nat \ {0}
  BY DEF TypeOK, Frames
<1>2. Front(stack) = SubSeq(stack, 1, Len(stack) - 1)
  BY DEF Front
<1>3. Top = stack[Len(stack)] /\ Top \in Frames /\ Len(stack) \in DOMAIN stack
  <2>1. Top = stack[Len(stack)]
    BY Zenon DEF Top, Last
  <2>2. Len(stack) \in DOMAIN stack
    BY <1>1
  <2>3. \A k \in DOMAIN stack : stack[k] \in Frames
    BY <1>1
  <2> QED BY <2>1, <2>2, <2>3
<1> DEFINE n == Len(stack) - 1
<1>4. /\ Front(stack) \in Seq(Frames) /\ Len(Front(stack)) = n
      /\ \A k \in 1 .. n : Front(stack)[k] = stack[k]
  <2>1. n \in Nat /\ \A k \in 1 .. n : stack[k] \in Frames
    BY <1>1
  <2> HIDE DEF n
  <2>2. /\ SubSeq(stack, 1, n) \in Seq(Frames)
        /\ Len(SubSeq(stack, 1, n)) = IF 1 <= n THEN n - 1 + 1 ELSE 0
        /\ \A k \in 1 .. n - 1 + 1 : SubSeq(stack, 1, n)[k] = stack[1 + k - 1]
    BY <2>1, SubSeqProperties
  <2>3. Front(stack) = SubSeq(stack, 1, n)
    BY <1>2 DEF n
  <2> QED BY <2>1, <2>2, <2>3
<1>6. DOMAIN Front(stack) = 1 .. (Len(stack) - 1) /\ DOMAIN stack = 1 .. Len(stack)
  BY <1>1, <1>4
<1> QED BY <1>1, <1>3, <1>4, <1>6

LEMMA AdvancedFacts ==
  ASSUME TypeOK, stack # <<>>
  PROVE  /\ Advanced \in Seq(Frames) /\ Len(Advanced) = Len(stack)
         /\ \A k \in DOMAIN stack : k # Len(stack) => Advanced[k] = stack[k]
         /\ Advanced[Len(stack)].id = Top.id
         /\ Advanced[Len(stack)].next = Top.next + 1
<1> DEFINE top == [Top EXCEPT !.next = @ + 1]
<1>1. top \in Frames /\ top.id = Top.id /\ top.next = Top.next + 1
  BY TopFacts DEF Frames
<1>2. Advanced = Append(Front(stack), top)
  BY DEF Advanced
<1> HIDE DEF top
<1> QED BY <1>1, <1>2, TopFacts


(***************************************************************************)
(* dfs(id) is called from the frames `callers', which are those of the     *)
(* stack with a dependency more looked at, or none at the top.             *)
(***************************************************************************)
LEMMA EnterStep ==
  ASSUME IndInv, UNCHANGED <<project, call, output>>, result = "running",
         NEW id \in Wanted(Range(call.ids)), NEW callers \in Seq(Frames),
         Enter(id, callers),
         Len(callers) = Len(stack),
         \A k \in DOMAIN callers : callers[k].id = stack[k].id,
         \A k \in DOMAIN callers : id \in HashBelow(callers[k].id),
         \A k \in DOMAIN callers : \A i \in DOMAIN Depends(callers[k].id) :
           i < callers[k].next => Depends(callers[k].id)[i] \in visited \cup {id},
         nextId' \in Nat \ {0},
         \A n \in DOMAIN call.ids : n < nextId' => call.ids[n] \in visited \cup {id}
  PROVE  IndInv'
<1> USE DEF IndInv
<1>1. project \in ProjectType /\ call \in CallType /\ Range(call.ids) \subseteq Recipes
  BY DEF TypeOK, CallType, Range
<1>2. id \in Recipes
  BY <1>1, WantedFacts
<1> DEFINE frame == [id |-> id, next |-> 1]
           pushed == id \in project.pool
<1>3. /\ visited' = visited \cup {id}
      /\ pushed => stack' = Append(callers, frame) /\ result' = result
      /\ ~pushed => stack' = callers /\ result' = "missing"
  BY DEF Enter
<1>4. frame \in Frames /\ frame.id = id /\ frame.next = 1
  BY <1>2 DEF Frames
<1> HIDE DEF frame, pushed
<1>5. /\ stack' \in Seq(Frames)
      /\ \A k \in DOMAIN callers : k \in DOMAIN stack' /\ stack'[k] = callers[k]
      /\ \A k \in DOMAIN stack' : k \in DOMAIN callers \/ (pushed /\ stack'[k] = frame)
      /\ pushed => \E k \in DOMAIN stack' : stack'[k] = frame
      /\ \A k, m \in DOMAIN stack' : k < m => k \in DOMAIN callers
  <2>1. Len(callers) \in Nat /\ DOMAIN callers = 1 .. Len(callers)
    OBVIOUS
  <2>2. CASE ~pushed
    BY <2>1, <2>2, <1>3
  <2>3. CASE pushed
    <3>1. stack' = Append(callers, frame)
      BY <2>3, <1>3
    <3>2. /\ stack' \in Seq(Frames) /\ Len(stack') = Len(callers) + 1
          /\ \A k \in 1 .. Len(callers) : stack'[k] = callers[k]
          /\ stack'[Len(callers) + 1] = frame
      BY <3>1, <1>4, AppendProperties
    <3>3. DOMAIN stack' = 1 .. (Len(callers) + 1)
      BY <3>2
    <3>4. DOMAIN stack' = DOMAIN callers \cup {Len(callers) + 1}
      BY <2>1, <3>3
    <3>5. \A k, m \in DOMAIN stack' : k < m => k \in DOMAIN callers
      BY <2>1, <3>3
    <3> QED BY <2>1, <2>3, <3>2, <3>4, <3>5
  <2> QED BY <2>2, <2>3
<1>6. DOMAIN callers = DOMAIN stack
  BY DEF TypeOK
<1>7. TypeOK'
  BY <1>2, <1>3, <1>5 DEF TypeOK, Frames
<1>8. OnStack' = OnStack \cup (IF pushed THEN {id} ELSE {})
  BY <1>4, <1>5, <1>6 DEF OnStack
<1>9. Emitted' = Emitted
  BY DEF Emitted
<1>10. Seen'
  BY <1>3, <1>8, <1>9 DEF Seen, pushed
<1>11. Path'
  <2> SUFFICES ASSUME NEW k \in DOMAIN stack', NEW m \in DOMAIN stack', k < m
               PROVE  stack'[m].id \in HashBelow(stack'[k].id)
    BY SameGraph DEF Path
  <2>1. k \in DOMAIN callers /\ stack'[k] = callers[k]
    BY <1>5
  <2>2. CASE m \in DOMAIN callers
    BY <2>1, <2>2, <1>5, <1>6 DEF Path
  <2>3. CASE stack'[m] = frame
    BY <2>1, <2>3, <1>4
  <2> QED BY <2>2, <2>3, <1>5
<1>12. Looked'
  <2> SUFFICES ASSUME NEW k \in DOMAIN stack', NEW i \in DOMAIN Depends(stack'[k].id),
                      i < stack'[k].next
               PROVE  Depends(stack'[k].id)[i] \in visited'
    BY SameGraph DEF Looked
  <2>1. CASE k \in DOMAIN callers
    BY <2>1, <1>3, <1>5
  <2>2. CASE stack'[k] = frame
    <3>1. Depends(id) \in Seq(Recipes)
      BY <1>1, <1>2, EdgesType
    <3> QED BY <2>2, <3>1, <1>4
  <2> QED BY <2>1, <2>2, <1>5
<1>13. HasFirst' /\ DepsFirst'
  <2>1. HasFirst'
    BY <1>9 DEF HasFirst
  <2>2. DepsFirst'
    BY SameOrder
  <2> QED BY <2>1, <2>2
<1>14. Asked'
  BY <1>3, SameGraph DEF Asked
<1> QED BY <1>7, <1>10, <1>11, <1>12, <1>13, <1>14

LEMMA EnterTopStep == ASSUME IndInv, EnterTop PROVE IndInv'
<1> USE DEF IndInv
<1> DEFINE id == call.ids[nextId]
<1>1. /\ result = "running" /\ stack = <<>> /\ nextId \in DOMAIN call.ids
      /\ Enter(id, <<>>) /\ nextId' = nextId + 1 /\ UNCHANGED <<project, call, output>>
  BY DEF EnterTop, TypeOK, CallType
<1>2. call \in CallType /\ project \in ProjectType /\ nextId \in Nat \ {0}
  BY DEF TypeOK
<1>3. Range(call.ids) \in SUBSET Recipes /\ id \in Range(call.ids)
  BY <1>1, <1>2 DEF CallType, Range
<1>4. id \in Wanted(Range(call.ids))
  BY <1>2, <1>3, WantedFacts
<1>5. \A n \in DOMAIN call.ids : n < nextId' => call.ids[n] \in visited \cup {id}
  <2> SUFFICES ASSUME NEW n \in DOMAIN call.ids, n < nextId + 1
               PROVE  call.ids[n] \in visited \cup {id}
    BY <1>1
  <2>1. n < nextId \/ n = nextId
    BY <1>2 DEF CallType
  <2> QED BY <2>1 DEF Asked
<1>6. <<>> \in Seq(Frames) /\ Len(<<>>) = 0 /\ DOMAIN <<>> = {} /\ Len(stack) = 0
  BY <1>1
<1> DEFINE callers == <<>>
<1>7. /\ callers \in Seq(Frames) /\ Len(callers) = Len(stack)
      /\ Enter(id, callers) /\ DOMAIN callers = {} /\ nextId' \in Nat \ {0}
  BY <1>1, <1>2, <1>6
<1> HIDE DEF id, callers
<1> QED BY <1>1, <1>4, <1>5, <1>7, EnterStep

\* The dependency that is looked at.
LEMMA LookingFacts ==
  ASSUME IndInv, Looking
  PROVE  LET dep == Depends(Top.id)[Top.next]
         IN  /\ dep \in Wanted(Range(call.ids))
             /\ \A k \in DOMAIN stack : dep \in HashBelow(stack[k].id)
             /\ \A k \in DOMAIN Advanced : \A i \in DOMAIN Depends(Advanced[k].id) :
                  i < Advanced[k].next => Depends(Advanced[k].id)[i] \in visited \cup {dep}
             /\ \A k \in DOMAIN Advanced : Advanced[k].id = stack[k].id
<1> USE DEF IndInv
<1> DEFINE dep == Depends(Top.id)[Top.next]
<1>1. /\ result = "running" /\ stack # <<>> /\ call.includeDepends
      /\ Top.next <= Len(Depends(Top.id))
  BY DEF Looking
<1>2. /\ project \in ProjectType /\ call \in CallType /\ Range(call.ids) \in SUBSET Recipes
  BY DEF TypeOK, CallType, Range
<1>3. /\ Top.id \in Recipes /\ Top.next \in Nat \ {0} /\ Top = stack[Len(stack)]
      /\ Len(stack) \in DOMAIN stack
  BY <1>1, TopFacts DEF Frames
<1>4. Top.id \in project.pool /\ Top.id \in visited
  BY <1>3 DEF Seen, OnStack
<1>5. /\ Depends(Top.id) \in Seq(Recipes)
      /\ Range(Depends(Top.id)) \subseteq Range(HashEdges(Top.id))
  BY <1>2, <1>3, <1>4, EdgesType
<1>6. Top.next \in DOMAIN Depends(Top.id) /\ dep \in Range(Depends(Top.id))
  BY <1>1, <1>3, <1>5 DEF Range
<1>7. dep \in Wanted(Range(call.ids))
  <2>1. Top.id \in Wanted(Range(call.ids))
    BY <1>4 DEF Asked
  <2>2. Range(Edges(Top.id)) = Range(Depends(Top.id))
    BY <1>1, <1>4 DEF Edges
  <2> QED BY <2>1, <2>2, <1>2, <1>6, WantedFacts
<1>8. ASSUME NEW k \in DOMAIN stack PROVE dep \in HashBelow(stack[k].id)
  <2>1. stack[k].id \in Recipes
    BY FrameFacts
  <2>2. dep \in Range(HashEdges(Top.id))
    BY <1>5, <1>6
  <2>3. CASE k = Len(stack)
    BY <2>1, <2>2, <2>3, <1>2, <1>3, HashBelowFacts
  <2>4. CASE k < Len(stack)
    <3>1. Top.id \in HashBelow(stack[k].id)
      BY <2>4, <1>3 DEF Path
    <3> QED BY <2>1, <2>2, <3>1, <1>2, HashBelowFacts
  <2>5. k = Len(stack) \/ k < Len(stack)
    BY DEF TypeOK
  <2> QED BY <2>3, <2>4, <2>5
<1>9. DOMAIN Advanced = DOMAIN stack
  BY <1>1, AdvancedFacts DEF TypeOK
<1>10. \A k \in DOMAIN Advanced : Advanced[k].id = stack[k].id
  BY <1>1, <1>3, <1>9, AdvancedFacts
<1>11. ASSUME NEW k \in DOMAIN Advanced, NEW i \in DOMAIN Depends(Advanced[k].id),
              i < Advanced[k].next
       PROVE  Depends(Advanced[k].id)[i] \in visited \cup {dep}
  <2>1. CASE k # Len(stack)
    BY <2>1, <1>1, <1>9, <1>11, AdvancedFacts DEF Looked
  <2>2. CASE k = Len(stack)
    <3>1. Advanced[k].id = Top.id /\ i < Top.next + 1
      BY <2>2, <1>1, <1>11, AdvancedFacts
    <3>2. i \in DOMAIN Depends(Top.id) /\ i \in Nat
      BY <3>1, <1>5
    <3>3. i < Top.next \/ i = Top.next
      BY <3>1, <3>2, <1>3
    <3> QED BY <3>1, <3>2, <3>3, <1>3 DEF Looked
  <2> QED BY <2>1, <2>2
<1> QED BY <1>7, <1>8, <1>10, <1>11


LEMMA DescendStep == ASSUME IndInv, Descend PROVE IndInv'
<1> DEFINE dep == Depends(Top.id)[Top.next]
<1>1. /\ Looking /\ Enter(dep, Advanced) /\ UNCHANGED <<project, call, output, nextId>>
  BY DEF Descend
<1>2. result = "running" /\ stack # <<>>
  BY <1>1 DEF Looking
<1>3. /\ dep \in Wanted(Range(call.ids))
      /\ \A k \in DOMAIN stack : dep \in HashBelow(stack[k].id)
      /\ \A k \in DOMAIN Advanced : \A i \in DOMAIN Depends(Advanced[k].id) :
           i < Advanced[k].next => Depends(Advanced[k].id)[i] \in visited \cup {dep}
      /\ \A k \in DOMAIN Advanced : Advanced[k].id = stack[k].id
  BY <1>1, LookingFacts
<1>4. /\ Advanced \in Seq(Frames) /\ Len(Advanced) = Len(stack)
      /\ DOMAIN Advanced = DOMAIN stack
  BY <1>2, AdvancedFacts DEF IndInv, TypeOK
<1>5. nextId' \in Nat \ {0}
      /\ \A n \in DOMAIN call.ids : n < nextId' => call.ids[n] \in visited \cup {dep}
  BY <1>1 DEF IndInv, TypeOK, Asked
<1>6. \A k \in DOMAIN Advanced : dep \in HashBelow(Advanced[k].id)
  BY <1>3, <1>4
<1> HIDE DEF dep
<1> QED BY <1>1, <1>2, <1>3, <1>4, <1>5, <1>6, EnterStep

LEMMA SkipStep == ASSUME IndInv, Skip PROVE IndInv'
<1> USE DEF IndInv
<1> DEFINE dep == Depends(Top.id)[Top.next]
<1>1. /\ Looking /\ dep \in visited /\ stack' = Advanced
      /\ UNCHANGED <<project, call, visited, output, nextId, result>>
  BY DEF Skip
<1>2. result = "running" /\ stack # <<>>
  BY <1>1 DEF Looking
<1>3. /\ \A k \in DOMAIN Advanced : \A i \in DOMAIN Depends(Advanced[k].id) :
           i < Advanced[k].next => Depends(Advanced[k].id)[i] \in visited
      /\ \A k \in DOMAIN Advanced : Advanced[k].id = stack[k].id
  BY <1>1, LookingFacts
<1>4. Advanced \in Seq(Frames) /\ Len(Advanced) = Len(stack) /\ DOMAIN Advanced = DOMAIN stack
  BY <1>2, AdvancedFacts DEF TypeOK
<1> HIDE DEF dep
<1>5. TypeOK'
  BY <1>1, <1>4 DEF TypeOK, Frames
<1>6. OnStack' = OnStack /\ Emitted' = Emitted
  BY <1>1, <1>3, <1>4 DEF OnStack, Emitted
<1>7. Seen' /\ HasFirst'
  BY <1>1, <1>6 DEF Seen, HasFirst
<1>8. Path'
  BY <1>1, <1>3, <1>4, SameGraph DEF Path
<1>9. Looked'
  BY <1>1, <1>3, SameGraph DEF Looked
<1>10. Asked' /\ DepsFirst'
  BY <1>1, SameGraph, SameOrder DEF Asked
<1> QED BY <1>5, <1>7, <1>8, <1>9, <1>10

(***************************************************************************)
(* When a frame returns and its hash has come to an end, the dependencies  *)
(* of its recipe are emitted: one still on the stack would be on a cycle.  *)
(***************************************************************************)
LEMMA DependsAreEmitted ==
  ASSUME IndInv, Returning, ~HashOverflows(Top.id), call.includeDepends
  PROVE  Range(Depends(Top.id)) \subseteq Emitted
<1> USE DEF IndInv
<1>1. project \in ProjectType /\ call \in CallType
  BY DEF TypeOK
<1>2. /\ result = "running" /\ stack # <<>>
      /\ ~(Top.next <= Len(Depends(Top.id)))
  BY DEF Returning, Looking
<1>3. /\ Top = stack[Len(stack)] /\ Len(stack) \in DOMAIN stack
      /\ Top.id \in Recipes /\ Top.next \in Nat \ {0}
  BY <1>2, TopFacts DEF Frames
<1>4. Top.id \in project.pool
  BY <1>3 DEF Seen, OnStack
<1>5. /\ Depends(Top.id) \in Seq(Recipes)
      /\ Range(Depends(Top.id)) \subseteq Range(HashEdges(Top.id))
  BY <1>1, <1>3, <1>4, EdgesType
<1> SUFFICES ASSUME NEW dep \in Range(Depends(Top.id)) PROVE dep \in Emitted
  OBVIOUS
<1>6. dep \in visited
  <2>1. PICK i \in DOMAIN Depends(Top.id) : dep = Depends(Top.id)[i]
    BY DEF Range
  <2>2. i < Top.next
    BY <1>2, <1>3, <1>5
  <2> QED BY <2>1, <2>2, <1>3 DEF Looked
<1>7. ASSUME NEW k \in DOMAIN stack, stack[k].id = dep PROVE FALSE
  <2>1. dep \in Recipes /\ dep \in Range(HashEdges(Top.id)) /\ dep \in HashBelow(Top.id)
    BY <1>1, <1>3, <1>5, <1>7, FrameFacts, HashBelowFacts
  <2>2. dep \in HashBelow(dep)
    <3>1. CASE k = Len(stack)
      BY <3>1, <2>1, <1>3, <1>7
    <3>2. CASE k < Len(stack)
      <4>1. Top.id \in HashBelow(dep)
        BY <3>2, <1>3, <1>7 DEF Path
      <4> QED BY <4>1, <2>1, <1>1, HashBelowFacts
    <3>3. k = Len(stack) \/ k < Len(stack)
      BY DEF TypeOK
    <3> QED BY <3>1, <3>2, <3>3
  <2> QED BY <2>1, <2>2 DEF HashOverflows
<1> QED BY <1>2, <1>6, <1>7 DEF Seen, OnStack


Entries == [id : Recipes, cached : BOOLEAN]

LEMMA EmitFacts ==
  ASSUME IndInv, Emit
  PROVE  LET e == [id |-> Top.id, cached |-> Cached(Top.id)]
         IN  /\ e \in Entries /\ output' = Append(output, e)
             /\ output \in Seq(Entries) /\ Len(output) \in Nat /\ DOMAIN output = 1..Len(output)
             /\ output' \in Seq(Entries) /\ DOMAIN output' = 1..(Len(output) + 1)
             /\ \A k \in DOMAIN output : output'[k] = output[k]
             /\ output'[Len(output) + 1] = e
             /\ Emitted' = Emitted \cup {Top.id}
<1> DEFINE e == [id |-> Top.id, cached |-> Cached(Top.id)]
<1>1. Cached(Top.id) \in BOOLEAN
  BY Zenon DEF Cached
<1>2. Top.id \in Recipes
  BY TopFacts DEF Emit, Returning, IndInv, Frames
<1>3. e \in Entries
  BY <1>1, <1>2 DEF Entries
<1>4. output \in Seq(Entries)
  BY DEF IndInv, TypeOK, Entries
<1>5. output' = Append(output, e) /\ e.id = Top.id
  BY DEF Emit
<1> HIDE DEF e
<1>6. /\ Len(output) \in Nat /\ DOMAIN output = 1..Len(output)
      /\ output' \in Seq(Entries) /\ DOMAIN output' = 1..(Len(output) + 1)
      /\ \A k \in DOMAIN output : output'[k] = output[k]
      /\ output'[Len(output) + 1] = e
  BY <1>3, <1>4, <1>5
<1>7. DOMAIN output' = DOMAIN output \cup {Len(output) + 1}
  BY <1>6
<1>8. Emitted' = {output'[k].id : k \in DOMAIN output'}
  BY DEF Emitted
<1>9. Emitted' = Emitted \cup {Top.id}
  BY <1>5, <1>6, <1>7, <1>8 DEF Emitted
<1> QED BY <1>3, <1>4, <1>5, <1>6, <1>9 DEF e

LEMMA EmitStep == ASSUME IndInv, Emit PROVE IndInv'
<1> USE DEF IndInv
<1> DEFINE e == [id |-> Top.id, cached |-> Cached(Top.id)]
           n == Len(output) + 1
<1>1. /\ Returning /\ ~HashOverflows(Top.id) /\ stack' = Front(stack)
      /\ UNCHANGED <<project, call, visited, nextId, result>>
  BY DEF Emit
<1>2. /\ stack # <<>> /\ Len(stack) \in DOMAIN stack /\ Top = stack[Len(stack)]
      /\ stack' \in Seq(Frames)
      /\ \A k \in DOMAIN stack' : k \in DOMAIN stack /\ stack'[k] = stack[k]
      /\ \A k \in DOMAIN stack : k = Len(stack) \/ k \in DOMAIN stack'
  BY <1>1, TopFacts DEF Returning
<1>3. /\ e.id = Top.id /\ output \in Seq(Entries) /\ DOMAIN output = 1..Len(output)
      /\ Len(output) \in Nat
      /\ output' \in Seq(Entries) /\ DOMAIN output' = 1..n
      /\ \A k \in DOMAIN output : output'[k] = output[k]
      /\ output'[n] = e
      /\ Emitted' = Emitted \cup {Top.id}
  BY EmitFacts
<1> HIDE DEF e
<1>4. TypeOK'
  BY <1>1, <1>2, <1>3 DEF TypeOK, Frames, Entries
<1>5. OnStack' \subseteq OnStack /\ OnStack \subseteq OnStack' \cup {Top.id} /\ Top.id \in OnStack
  BY <1>2 DEF OnStack
<1>6. Seen'
  BY <1>1, <1>3, <1>5 DEF Seen
<1>7. Path' /\ Looked'
  <2>1. Path'
    BY <1>1, <1>2, SameGraph DEF Path
  <2>2. Looked'
    BY <1>1, <1>2, SameGraph DEF Looked
  <2> QED BY <2>1, <2>2
<1>8. HasFirst'
  <2> SUFFICES ASSUME NEW id \in Emitted'
               PROVE  \E k \in DOMAIN output' :
                        output'[k].id = id /\ \A m \in 1..(k-1) : output'[m].id # id
    BY DEF HasFirst
  <2>1. CASE id \in Emitted
    <3>1. PICK k \in DOMAIN output :
            output[k].id = id /\ \A m \in 1..(k-1) : output[m].id # id
      BY <2>1 DEF HasFirst
    <3>2. k \in DOMAIN output' /\ \A m \in 1..(k-1) : m \in DOMAIN output
      BY <1>3
    <3> QED BY <3>1, <3>2, <1>3
  <2>2. CASE id = Top.id /\ id \notin Emitted
    <3>1. n \in DOMAIN output' /\ \A m \in 1..(n-1) : m \in DOMAIN output
      BY <1>3
    <3>2. \A m \in DOMAIN output : output[m].id # id
      BY <2>2 DEF Emitted
    <3> QED BY <3>1, <3>2, <2>2, <1>3
  <2> QED BY <2>1, <2>2, <1>3
<1>9. Asked'
  BY <1>1, SameGraph DEF Asked
<1>10. DepsFirst'
  <2>1. \A k : Range(Depends(output[k].id))' = Range(Depends(output'[k].id))
    BY <1>1, SameGraph
  <2> SUFFICES ASSUME call'.includeDepends, NEW k \in DOMAIN output',
                      NEW dep \in Range(Depends(output[k].id))'
               PROVE  \E m \in 1..(k-1) : output'[m].id = dep
    BY Zenon DEF DepsFirst
  <2>4. call.includeDepends /\ dep \in Range(Depends(output'[k].id))
    BY <1>1, <2>1
  <2>2. CASE k \in DOMAIN output
    <3>1. \E m \in 1..(k-1) : output[m].id = dep
      BY <2>2, <2>4, <1>3 DEF DepsFirst
    <3> QED BY <3>1, <2>2, <1>3
  <2>3. CASE k = n
    <3>1. dep \in Emitted
      BY <2>3, <2>4, <1>1, <1>3, DependsAreEmitted
    <3>2. \E m \in DOMAIN output : output[m].id = dep
      BY <3>1 DEF Emitted
    <3> QED BY <3>2, <2>3, <1>3
  <2> QED BY <2>2, <2>3, <1>3
<1> QED BY <1>4, <1>6, <1>7, <1>8, <1>9, <1>10

LEMMA NextInv == IndInv /\ [Next]_vars => IndInv'
<1> SUFFICES ASSUME IndInv, [Next]_vars PROVE IndInv'
  OBVIOUS
<1>1. CASE EnterTop
  BY <1>1, EnterTopStep
<1>2. CASE Skip
  BY <1>2, SkipStep
<1>3. CASE Descend
  BY <1>3, DescendStep
<1>4. CASE Emit
  BY <1>4, EmitStep
<1>5. CASE HashFails \/ Finish \/ UNCHANGED vars
  <2> USE DEF IndInv
  <2>1. /\ UNCHANGED <<project, call, visited, output, stack, nextId>>
        /\ result' \in {result, "missing", "overflow", "ok"}
        /\ result' = "running" => result = "running"
    BY <1>5 DEF HashFails, Finish, vars
  <2>2. TypeOK' /\ Emitted' = Emitted /\ OnStack' = OnStack
    BY <2>1 DEF TypeOK, Emitted, OnStack
  <2>3. Seen' /\ HasFirst'
    BY <2>1, <2>2 DEF Seen, HasFirst
  <2>4. Path' /\ Looked' /\ Asked'
    <3>1. Path'
      BY <2>1, SameGraph DEF Path
    <3>2. Looked'
      BY <2>1, SameGraph DEF Looked
    <3>3. Asked'
      BY <2>1, SameGraph DEF Asked
    <3> QED BY <3>1, <3>2, <3>3
  <2>5. DepsFirst'
    BY <2>1, SameOrder
  <2> QED BY <2>2, <2>3, <2>4, <2>5
<1> QED BY <1>1, <1>2, <1>3, <1>4, <1>5 DEF Next

LEMMA Inductive == Spec => []IndInv
<1> QED BY InitInv, NextInv, PTL DEF Spec


-----------------------------------------------------------------------------
\* The variables have their types: see TypeOK.
THEOREM TypeCorrect == Spec => []TypeOK
<1>1. IndInv => TypeOK
  BY DEF IndInv
<1> QED BY <1>1, Inductive, PTL

(***************************************************************************)
(* Resolve lists a recipe after everything it depends on, so that the jobs *)
(* of enqueueResolvedBuildPlan find the artifacts they integrate, and      *)
(* makes no plan of a project with a cycle below what was asked for.       *)
(***************************************************************************)
THEOREM PlansInBuildOrder == Spec => []DepsFirst
<1>1. IndInv => DepsFirst
  BY DEF IndInv
<1> QED BY <1>1, Inductive, PTL

\* What is emitted is closed under the edges the flags select.
LEMMA EmittedIsClosed ==
  ASSUME IndInv
  PROVE  \A y \in Emitted : Range(Edges(y)) \subseteq Emitted
<1> SUFFICES ASSUME NEW y \in Emitted, NEW dep \in Range(Edges(y)) PROVE dep \in Emitted
  OBVIOUS
<1>1. Range(<<>>) = {}
  BY DEF Range
<1>2. call.includeDepends /\ dep \in Range(Depends(y))
  BY <1>1, Zenon DEF Edges
<1>3. PICK k \in DOMAIN output : output[k].id = y
  BY DEF Emitted
<1>4. \E m \in 1..(k-1) : output[m].id = dep
  BY <1>2, <1>3 DEF IndInv, DepsFirst
<1>5. \A m \in 1..(k-1) : m \in DOMAIN output
  BY <1>3 DEF IndInv, TypeOK
<1> QED BY <1>4, <1>5 DEF Emitted

(***************************************************************************)
(* A plan holds what the recipes need and nothing else, and a recipe is    *)
(* reported missing only if the plan, or a hash in it, needs it.           *)
(***************************************************************************)
THEOREM PlansAreComplete == Spec => []PlanComplete
<1>1. Init => PlanComplete
  BY DEF Init, PlanComplete
<1>2. IndInv /\ PlanComplete /\ [Next]_vars => PlanComplete'
  <2> SUFFICES ASSUME IndInv, PlanComplete, [Next]_vars PROVE PlanComplete'
    OBVIOUS
  <2> DEFINE W == Wanted(Range(call.ids))
  <2>1. /\ project \in ProjectType /\ call \in CallType
        /\ Range(call.ids) \in SUBSET Recipes
    BY DEF IndInv, TypeOK, CallType, Range
  <2>2. UNCHANGED <<project, call>>
    BY DEF Next, EnterTop, Skip, Descend, Emit, HashFails, Finish, vars
  <2>3. /\ Wanted(Range(call.ids))' = W
        /\ \A x : HashMisses(x)' = HashMisses(x)
    BY <2>2, SameGraph DEF HashMisses
  <2>4. CASE result' \notin {"ok", "missing"}
    BY <2>4 DEF PlanComplete
  <2>5. CASE UNCHANGED <<output, result>>
    <3>1. Emitted' = Emitted
      BY <2>5 DEF Emitted
    <3> QED BY <2>2, <2>3, <2>5, <3>1 DEF PlanComplete
  <2>6. ASSUME NEW x \in W, x \notin project.pool \/ HashMisses(x), result' = "missing"
        PROVE  PlanComplete'
    BY <2>2, <2>3, <2>6 DEF PlanComplete
  <2>7. ASSUME NEW id \in W, NEW callers, Enter(id, callers), UNCHANGED output
        PROVE  PlanComplete'
    <3>1. (id \notin project.pool /\ result' = "missing") \/ UNCHANGED result
      BY <2>7 DEF Enter
    <3> QED BY <3>1, <2>5, <2>6, <2>7
  <2>8. CASE EnterTop
    <3>1. call.ids[nextId] \in Range(call.ids)
      BY <2>8, <2>1 DEF EnterTop, CallType, IndInv, TypeOK, Range
    <3>2. call.ids[nextId] \in W
      BY <3>1, <2>1, WantedFacts
    <3> QED BY <3>2, <2>7, <2>8 DEF EnterTop
  <2>9. CASE Descend
    <3>1. Depends(Top.id)[Top.next] \in W
      BY <2>9, LookingFacts DEF Descend
    <3> QED BY <3>1, <2>7, <2>9 DEF Descend
  <2>10. CASE HashFails
    <3>1. Top.id \in W
      BY <2>10, TopFacts DEF HashFails, Returning, IndInv, Seen, OnStack, Asked
    <3>2. result' = "overflow" \/ (result' = "missing" /\ HashMisses(Top.id))
      BY <2>10 DEF HashFails
    <3> QED BY <3>1, <3>2, <2>4, <2>6
  <2>11. CASE Finish
    <3>1. /\ stack = <<>> /\ result = "running" /\ result' = "ok" /\ UNCHANGED output
          /\ nextId > Len(call.ids)
      BY <2>11 DEF Finish
    <3>2. visited = Emitted /\ Emitted \subseteq project.pool
      <4>1. OnStack = {}
        BY <3>1 DEF OnStack
      <4> QED BY <3>1, <4>1 DEF IndInv, Seen
    <3>3. Range(call.ids) \subseteq Emitted
      <4>1. \A n \in DOMAIN call.ids : n < nextId
        BY <3>1, <2>1 DEF CallType, IndInv, TypeOK
      <4> QED BY <4>1, <3>2 DEF IndInv, Asked, Range
    <3>4. Emitted \in SUBSET Recipes
      BY <3>2 DEF IndInv, TypeOK
    <3>5. W \subseteq Emitted
      BY <3>3, <3>4, <2>1, EmittedIsClosed, WantedFacts
    <3>6. Emitted \subseteq W
      BY <3>2 DEF IndInv, Asked
    <3>7. Emitted' = Emitted
      BY <3>1 DEF Emitted
    <3> QED BY <2>2, <2>3, <3>1, <3>2, <3>5, <3>6, <3>7 DEF PlanComplete
  <2>12. CASE Emit
    BY <2>4, <2>12 DEF Emit, Returning
  <2>13. CASE Skip \/ UNCHANGED vars
    BY <2>5, <2>13 DEF Skip, vars
  <2> QED BY <2>8, <2>9, <2>10, <2>11, <2>12, <2>13 DEF Next
<1> QED BY <1>1, <1>2, Inductive, PTL DEF Spec


\* The decision for one recipe, given those for the recipes before it.
LEMMA CachedSeesAll ==
  ASSUME IndInv, CachedIsTransitive, Emit, call.includeDepends
  PROVE  Cached(Top.id) <=> \A x \in Wanted({Top.id}) : Available(x)
<1> DEFINE id == Top.id
<1>1. project \in ProjectType /\ call \in CallType
  BY DEF IndInv, TypeOK
<1>2. id \in Recipes /\ id \in project.pool
  BY TopFacts DEF Emit, Returning, IndInv, Frames, Seen, OnStack
<1>3. Range(Depends(id)) \subseteq Emitted /\ Edges(id) = Depends(id)
  BY <1>2, DependsAreEmitted DEF Emit, Edges
<1>4. ASSUME NEW dep \in Emitted
      PROVE  FirstState(dep).cached <=> \A x \in Wanted({dep}) : Available(x)
  <2> DEFINE k0 == CHOOSE k \in DOMAIN output :
                   output[k].id = dep /\ \A m \in 1..(k-1) : output[m].id # dep
  <2>1. \E k \in DOMAIN output : output[k].id = dep /\ \A m \in 1..(k-1) : output[m].id # dep
    BY DEF IndInv, HasFirst
  <2>2. k0 \in DOMAIN output /\ output[k0].id = dep
    BY <2>1
  <2>3. FirstState(dep) = output[k0]
    BY DEF FirstState
  <2> HIDE DEF k0
  <2>4. output[k0].cached <=> \A x \in Wanted({output[k0].id}) : Available(x)
    BY <2>2, Zenon DEF CachedIsTransitive
  <2> QED BY <2>2, <2>3, <2>4
<1>5. Cached(id) <=> /\ Available(id)
                     /\ \A dep \in Range(Depends(id)) : FirstState(dep).cached
  BY <1>3 DEF Cached
<1>6. Wanted({id}) = {id} \cup UNION {Wanted({dep}) : dep \in Range(Depends(id))}
  BY <1>1, <1>2, <1>3, WantedOfOne
<1>7. \A x : x \in Wanted({id}) <=>
        x = id \/ \E dep \in Range(Depends(id)) : x \in Wanted({dep})
  BY <1>6
<1> HIDE DEF id
<1>8. (\A x \in Wanted({id}) : Available(x)) <=>
        /\ Available(id)
        /\ \A dep \in Range(Depends(id)) : \A x \in Wanted({dep}) : Available(x)
  BY <1>7, Zenon
<1> QED BY <1>3, <1>4, <1>5, <1>8, Zenon DEF id

(***************************************************************************)
(* Resolve takes a recipe from the cache exactly when its own artifact and *)
(* that of everything below it can be used, along all paths: for graphs of *)
(* any size.                                                               *)
(***************************************************************************)
THEOREM StaleIsRebuilt == Spec => []CachedIsTransitive
<1>1. Init => CachedIsTransitive
  BY DEF Init, CachedIsTransitive
<1>2. IndInv /\ CachedIsTransitive /\ [Next]_vars => CachedIsTransitive'
  <2> SUFFICES ASSUME IndInv, CachedIsTransitive, [Next]_vars PROVE CachedIsTransitive'
    OBVIOUS
  <2>1. UNCHANGED <<project, call>>
    BY DEF Next, EnterTop, Skip, Descend, Emit, HashFails, Finish, vars
  <2>2. \A S : Wanted(S)' = Wanted(S)
    BY <2>1, SameGraph
  <2>3. \A x : Available(x)' <=> Available(x)
    BY <2>1 DEF Available
  <2> SUFFICES ASSUME call.includeDepends, NEW k \in DOMAIN output'
               PROVE  output'[k].cached <=> \A x \in Wanted({output'[k].id}) : Available(x)
    BY <2>1, <2>2, <2>3, Zenon DEF CachedIsTransitive
  <2>4. CASE k \in DOMAIN output /\ output'[k] = output[k]
    BY <2>4, Zenon DEF CachedIsTransitive
  <2>5. CASE Emit
    <3> DEFINE e == [id |-> Top.id, cached |-> Cached(Top.id)]
    <3>1. /\ k \in DOMAIN output \/ k = Len(output) + 1
          /\ \A m \in DOMAIN output : output'[m] = output[m]
          /\ output'[Len(output) + 1] = e
      BY <2>5, EmitFacts
    <3>2. e.id = Top.id /\ e.cached = Cached(Top.id)
      OBVIOUS
    <3> HIDE DEF e
    <3>3. CASE k = Len(output) + 1
      BY <3>1, <3>2, <3>3, <2>5, CachedSeesAll, Zenon
    <3> QED BY <3>1, <3>3, <2>4
  <2>6. CASE UNCHANGED output
    BY <2>4, <2>6
  <2> QED
    BY <2>5, <2>6 DEF Next, EnterTop, Skip, Descend, HashFails, Finish, vars
<1> QED BY <1>1, <1>2, Inductive, PTL DEF Spec
=============================================================================
