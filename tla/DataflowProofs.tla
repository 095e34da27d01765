--------------------------- MODULE DataflowProofs ---------------------------
(***************************************************************************)
(* Proofs about Dataflow, for any objects, requests and client threads.    *)
(***************************************************************************)
EXTENDS Dataflow, TLAPS

\* What it means to be a token.
LEMMA TokenFacts ==
    /\ \A r \in Requests : Len(Accesses[r]) \in Nat
    /\ \A r \in Requests : \A k \in 1..Len(Accesses[r]) : <<r, k>> \in Tokens
    /\ \A t \in Tokens : /\ t[1] \in Requests
                         /\ t[2] \in 1..Len(Accesses[t[1]])
                         /\ t = <<t[1], t[2]>>
    /\ \A t \in Tokens : ObjectOf[t] \in Objects
<1>1. \A r \in Requests : Accesses[r] \in Seq(Objects) /\ Len(Accesses[r]) \in Nat
    BY RequestsAssumption
<1>2. \A r \in Requests : \A k \in 1..Len(Accesses[r]) : <<r, k>> \in Tokens
    BY DEF Tokens
<1>3. \A t \in Tokens : /\ t[1] \in Requests
                        /\ t[2] \in 1..Len(Accesses[t[1]])
                        /\ t = <<t[1], t[2]>>
    BY DEF Tokens
<1>4. \A t \in Tokens : ObjectOf[t] \in Objects
    BY <1>1, <1>3 DEF ObjectOf
<1> QED
    BY <1>1, <1>2, <1>3, <1>4

\* A token gives access to the object its request names in its place.
LEMMA TokenAccess == \A t \in Tokens : ObjectOf[t] = Accesses[t[1]][t[2]]
BY DEF ObjectOf

\* The token a scheduling request is about to queue is one of its own.
LEMMA CurrentTokenFacts ==
    ASSUME TypeOK, NEW r \in Requests, phase[r] = "scheduling"
    PROVE  /\ CurrentToken(r) \in Tokens
           /\ CurrentToken(r)[1] = r /\ CurrentToken(r)[2] = slot[r] + 1
           /\ ObjectOf[CurrentToken(r)] \in Objects
<1>1. slot[r] \in Nat /\ slot[r] + 1 \in 1..Len(Accesses[r])
    BY TokenFacts DEF TypeOK
<1>2. CurrentToken(r) \in Tokens
    BY <1>1, TokenFacts DEF CurrentToken
<1> QED
    BY <1>2, TokenFacts DEF CurrentToken

-----------------------------------------------------------------------------

LEMMA TypeInit == Init => TypeOK
BY TokenFacts DEF Init, TypeOK, Phases, TokenStates

LEMMA TypeStep == TypeOK /\ [Next]_vars => TypeOK'
<1> SUFFICES ASSUME TypeOK, [Next]_vars PROVE TypeOK'
    OBVIOUS
<1> USE DEF Phases, TokenStates
<1>1. ASSUME NEW r \in Requests, Call(r) PROVE TypeOK'
    <2>1. Accesses[r] # <<>> => Len(Accesses[r]) > 0
        BY RequestsAssumption
    <2> QED
        BY <1>1, <2>1 DEF Call, Registered, TypeOK, graphVars, shutdownVars
<1>2. ASSUME NEW r \in Requests, Lookup(r) PROVE TypeOK'
    <2> DEFINE t == CurrentToken(r)
               o == ObjectOf[t]
    <2>1. t \in Tokens /\ o \in Objects
        BY <1>2, CurrentTokenFacts DEF Lookup
    <2>2. \A q \in Tokens : Append(order[o], q) \in Seq(Tokens)
        BY <2>1 DEF TypeOK
    <2>3. order' \in [Objects -> Seq(Tokens)]
        BY <1>2, <2>1, <2>2 DEF Lookup, TypeOK
    <2> QED
        BY <1>2, <2>1, <2>3 DEF Lookup, TypeOK, shutdownVars
<1>3. ASSUME NEW r \in Requests, Publish(r) PROVE TypeOK'
    <2> DEFINE t == CurrentToken(r)
               o == ObjectOf[t]
    <2>1. phase[r] = "scheduling"
        BY <1>3 DEF Publish, TypeOK
    <2>2. t \in Tokens /\ o \in Objects
        BY <2>1, CurrentTokenFacts
    <2>3. slot[r] \in Nat /\ Len(Accesses[r]) \in Nat /\ slot[r] < Len(Accesses[r])
        BY <2>1, TokenFacts DEF TypeOK
    <2>4. wavefront' \in [Objects -> Tokens \cup {None}] /\ tok' \in [Tokens -> TokenStates]
        <3>1. PICK w \in Tokens \cup {None} : wavefront' = [wavefront EXCEPT ![o] = w]
            BY <1>3, <2>2 DEF Publish, TypeOK
        <3>2. tok' = tok \/ tok' = [tok EXCEPT ![t] = "granted"]
            BY <1>3 DEF Publish
        <3>3. wavefront' \in [Objects -> Tokens \cup {None}]
            BY <3>1 DEF TypeOK
        <3>4. tok' \in [Tokens -> TokenStates]
            BY <3>2 DEF TypeOK, TokenStates
        <3> QED
            BY <3>3, <3>4
    <2>5. /\ slot' = [slot EXCEPT ![r] = @ + 1] /\ slot' \in [Requests -> Nat]
          /\ search' = [search EXCEPT ![r] = "none"]
          /\ search' \in [Requests -> {"none", "found", "missing"}]
        BY <1>3 DEF Publish, TypeOK
    <2>6. /\ phase' = [phase EXCEPT ![r] =
                          IF slot[r] + 1 = Len(Accesses[r]) THEN "waiting" ELSE "scheduling"]
          /\ phase' \in [Requests -> Phases]
        BY <1>3 DEF Publish, TypeOK, Phases
    <2>7. \A q \in Requests : slot'[q] <= Len(Accesses[q]) /\ (phase'[q] = "idle" => slot'[q] = 0)
        BY <2>3, <2>5, <2>6 DEF TypeOK
    <2>8. \A q \in Requests : phase'[q] = "scheduling" => slot'[q] < Len(Accesses[q])
        BY <2>3, <2>5, <2>6 DEF TypeOK
    <2>9. \A q \in Requests : search'[q] # "none" => phase'[q] = "scheduling"
        BY <2>5, <2>6 DEF TypeOK
    <2>10. UNCHANGED <<pred, order, stage, visited, awaited>>
        BY <1>3 DEF Publish, shutdownVars
    <2> QED
        BY <2>4, <2>5, <2>6, <2>7, <2>8, <2>9, <2>10 DEF TypeOK
<1>4. ASSUME NEW r \in Requests, Run(r) \/ Finish(r) \/ Fail(r) \/ OpenView(r) \/ CloseView(r)
      PROVE TypeOK'
    <2>1. PICK p \in {"running", "finished", "failed"} : phase' = [phase EXCEPT ![r] = p]
        BY <1>4 DEF Run, Finish, Fail, OpenView, CloseView
    <2>2. phase[r] \in {"waiting", "running"}
        BY <1>4 DEF Run, Finish, Fail, OpenView, CloseView
    <2>3. phase' \in [Requests -> Phases]
        BY <2>1 DEF TypeOK, Phases
    <2>4. UNCHANGED <<slot, search, tok, wavefront, pred, order, stage, visited, awaited>>
        BY <1>4 DEF Run, Finish, Fail, OpenView, CloseView, graphVars, shutdownVars
    <2> QED
        BY <2>1, <2>2, <2>3, <2>4 DEF TypeOK
<1>5. ASSUME NEW t \in Tokens, TokenStep(t) PROVE TypeOK'
    BY <1>5 DEF TokenStep, Grant, ReleaseToken, TypeOK, requestVars, graphVars, shutdownVars
<1>6. ASSUME ShutdownStep PROVE TypeOK'
    BY <1>6 DEF ShutdownStep, Finalize, Registered, FinalizeAwait, FinalizeGet, Teardown, TypeOK,
        requestVars, graphVars
<1>7. ASSUME UNCHANGED vars PROVE TypeOK'
    BY <1>7 DEF vars, TypeOK
<1> QED
    BY <1>1, <1>2, <1>3, <1>4, <1>5, <1>6, <1>7 DEF Next, RequestStep, Terminated

\* The state of the runtime stays in its types, whatever the clients do.
THEOREM TypeCorrect == Spec => []TypeOK
<1> QED
    BY TypeInit, TypeStep, PTL DEF Spec
-----------------------------------------------------------------------------
(***************************************************************************)
(* The inductive invariant                                                 *)
(***************************************************************************)

LEMMA InvInit == Init => IInv
<1> SUFFICES ASSUME Init PROVE IInv
    OBVIOUS
<1>1. TypeOK
    BY TypeInit
<1>2. \A o \in Objects : Len(order[o]) = 0
    BY DEF Init
<1>3. \A t \in Tokens : ~InQueue(t) /\ ~LookedUp(t)
    BY <1>2, TokenFacts DEF Init, InQueue, LookedUp
<1>4. OneScheduler /\ QueueInv /\ ChainInv /\ PrefixInv
    BY <1>2, <1>3 DEF Init, OneScheduler, QueueInv, ChainInv, PrefixInv
<1>5. WavefrontInv /\ OwnerInv /\ FinalizeInv
    BY <1>2, TokenFacts DEF Init, WavefrontInv, OwnerInv, FinalizeInv, Over
<1> QED
    BY <1>1, <1>4, <1>5 DEF IInv

\* A step that leaves the graph, the slots and the searches alone leaves the
\* shape of the queues alone.
LEMMA GraphFrame ==
    ASSUME QueueInv, WavefrontInv, UNCHANGED <<slot, search, wavefront, pred, order>>
    PROVE  /\ QueueInv' /\ WavefrontInv'
           /\ \A t \in Tokens : InQueue(t)' <=> InQueue(t)
<1>1. \A t \in Tokens : InQueue(t)' <=> InQueue(t)
    BY DEF InQueue
<1>2. \A t \in Tokens : LookedUp(t)' <=> LookedUp(t)
    BY DEF LookedUp, CurrentToken
<1>3. QueueInv'
    BY <1>1, <1>2 DEF QueueInv
<1>4. WavefrontInv'
    BY DEF WavefrontInv, CurrentToken
<1> QED
    BY <1>1, <1>3, <1>4

LEMMA CallStep ==
    ASSUME IInv, OneScheduler', NEW r \in Requests, Call(r)
    PROVE  IInv'
<1> USE DEF IInv
<1>1. UNCHANGED <<slot, search, wavefront, pred, order, tok, stage, visited, awaited>>
    BY DEF Call, Registered, graphVars, shutdownVars
<1>2. TypeOK'
    BY TypeStep DEF Next, RequestStep
<1>3. QueueInv' /\ WavefrontInv' /\ \A t \in Tokens : InQueue(t)' <=> InQueue(t)
    BY <1>1, GraphFrame
<1>4. ChainInv' /\ PrefixInv' /\ FinalizeInv'
    <2>1. ChainInv'
        BY <1>1, <1>3 DEF ChainInv
    <2>2. PrefixInv' /\ FinalizeInv'
        BY <1>1 DEF PrefixInv, FinalizeInv
    <2> QED
        BY <2>1, <2>2
<1>5. OwnerInv'
    <2>1. \A q \in Requests : phase'[q] \notin {"idle", "scheduling"} => slot'[q] = Len(Accesses[q])
        <3>1. Accesses[r] = <<>> => slot[r] = Len(Accesses[r])
            BY DEF TypeOK, Call, Registered
        <3> QED
            BY <1>1, <3>1 DEF OwnerInv, Call, Registered, TypeOK
    <2>2. \A q \in Requests : phase'[q] \in {"running", "finished", "failed"} => phase'[q] = phase[q]
        BY DEF Call, Registered, TypeOK
    <2>3. \A q \in Requests : phase[q] \in {"finished", "failed"} => phase'[q] = phase[q]
        BY DEF Call, Registered, TypeOK
    <2> QED
        BY <1>1, <2>1, <2>2, <2>3, TokenFacts DEF OwnerInv, Over
<1> QED
    BY <1>2, <1>3, <1>4, <1>5

\* The queues right after the look-up of request r.
LEMMA LookupQueue ==
    ASSUME IInv, NEW r \in Requests, Lookup(r)
    PROVE  LET t == CurrentToken(r)
               o == ObjectOf[t]
           IN  /\ t \in Tokens /\ o \in Objects /\ ~InQueue(t)
               /\ order[o] \in Seq(Tokens) /\ Len(order[o]) \in Nat
               /\ \A q \in Requests : search[q] = "none"
               /\ Len(order'[o]) = Len(order[o]) + 1
               /\ \A i \in 1..Len(order[o]) : order'[o][i] = order[o][i]
               /\ order'[o][Len(order[o]) + 1] = t
               /\ \A p \in Objects : p # o => order'[p] = order[p]
<1> DEFINE t == CurrentToken(r)
           o == ObjectOf[t]
<1> USE DEF IInv
<1>1. phase[r] = "scheduling" /\ search[r] = "none"
    BY DEF Lookup
<1>2. t \in Tokens /\ o \in Objects /\ t[1] = r /\ t[2] = slot[r] + 1
    BY <1>1, CurrentTokenFacts
<1>3. \A q \in Requests : search[q] = "none"
    BY <1>1 DEF OneScheduler, TypeOK
<1>4. ~InQueue(t)
    <2>1. slot[r] \in Nat
        BY DEF TypeOK
    <2> QED
        BY <1>1, <1>2, <2>1 DEF QueueInv, LookedUp
<1>5. order[o] \in Seq(Tokens) /\ Len(order[o]) \in Nat
    BY <1>2 DEF TypeOK
<1>6. order' = [order EXCEPT ![o] = Append(@, t)]
    BY DEF Lookup
<1>7. order'[o] = Append(order[o], t) /\ \A p \in Objects : p # o => order'[p] = order[p]
    BY <1>2, <1>6 DEF TypeOK
<1> QED
    BY <1>2, <1>3, <1>4, <1>5, <1>7

LEMMA LookupStep ==
    ASSUME IInv, NEW r \in Requests, Lookup(r)
    PROVE  IInv'
<1> DEFINE t == CurrentToken(r)
           o == ObjectOf[t]
           n == Len(order[o])
<1> USE DEF IInv
<1>1. /\ t \in Tokens /\ o \in Objects /\ ~InQueue(t)
      /\ order[o] \in Seq(Tokens) /\ n \in Nat
      /\ \A q \in Requests : search[q] = "none"
      /\ Len(order'[o]) = n + 1
      /\ \A i \in 1..n : order'[o][i] = order[o][i]
      /\ order'[o][n + 1] = t
      /\ \A p \in Objects : p # o => order'[p] = order[p]
    BY LookupQueue
<1>a. ASSUME NEW p \in Objects
      PROVE  /\ Len(order[p]) \in Nat
             /\ \A i \in 1..Len(order[p]) : i \in 1..Len(order'[p]) /\ order'[p][i] = order[p][i]
             /\ \A i \in 1..Len(order'[p]) :
                    i \in 1..Len(order[p]) \/ (p = o /\ i = n + 1 /\ order'[p][i] = t)
    <2>1. Len(order[p]) \in Nat
        BY DEF TypeOK
    <2>2. CASE p = o
        BY <1>1, <2>2
    <2>3. CASE p # o
        BY <1>1, <2>1, <2>3
    <2> QED
        BY <2>2, <2>3
<1>2. UNCHANGED <<phase, slot, wavefront, stage, visited, awaited>>
    BY DEF Lookup, shutdownVars
<1>3. phase[r] = "scheduling" /\ t[1] = r /\ t[2] = slot[r] + 1 /\ slot[r] \in Nat
    BY CurrentTokenFacts DEF Lookup, TypeOK
<1>4. \A p \in Objects : wavefront[p] = IF order[p] = <<>> THEN None ELSE order[p][Len(order[p])]
    BY <1>1 DEF WavefrontInv
<1>5. /\ wavefront[o] = None <=> n = 0
      /\ n > 0 => wavefront[o] = order[o][n] /\ order[o][n] \in Tokens
    BY <1>1, <1>4, NoneAssumption
<1>6. /\ \A q \in Requests : q # r => search'[q] = "none"
      /\ search'[r] = IF n = 0 THEN "missing" ELSE "found"
    BY <1>1, <1>5 DEF Lookup, TypeOK
<1>7. /\ pred'[t] = IF n = 0 THEN None ELSE order[o][n]
      /\ tok'[t] = IF n = 0 THEN "unused" ELSE "waiting"
      /\ \A s \in Tokens : s # t => pred'[s] = pred[s] /\ tok'[s] = tok[s]
    <2>1. pred[t] = None /\ tok[t] = "unused"
        BY <1>1 DEF ChainInv
    <2> QED
        BY <1>1, <1>5, <2>1 DEF Lookup, TypeOK
<1>8. \A p \in Objects : \A i \in 1..Len(order[p]) : order[p][i] \in Tokens /\ order[p][i] # t
    <2>1. \A p \in Objects : order[p] \in Seq(Tokens)
        BY DEF TypeOK
    <2> QED
        BY <1>1, <2>1 DEF QueueInv, InQueue
<1>9. \A s \in Tokens : InQueue(s)' <=> InQueue(s) \/ s = t
    <2>1. \A s \in Tokens : ObjectOf[s] # o => (InQueue(s)' <=> InQueue(s))
        BY <1>1, TokenFacts DEF InQueue
    <2>2. ASSUME NEW s \in Tokens, ObjectOf[s] = o PROVE InQueue(s)' <=> InQueue(s) \/ s = t
        <3>1. InQueue(s) => InQueue(s)'
            BY <1>1, <2>2 DEF InQueue
        <3>2. s = t => InQueue(s)'
            BY <1>1, <2>2 DEF InQueue
        <3>3. InQueue(s)' => InQueue(s) \/ s = t
            <4> SUFFICES ASSUME NEW i \in 1..(n + 1), order'[o][i] = s PROVE InQueue(s) \/ s = t
                BY <1>1, <2>2 DEF InQueue
            <4>1. i \in 1..n \/ i = n + 1
                BY <1>1
            <4> QED
                BY <1>1, <2>2, <4>1 DEF InQueue
        <3> QED
            BY <3>1, <3>2, <3>3
    <2> QED
        BY <1>1, <2>1, <2>2
<1>10. TypeOK'
    BY TypeStep DEF Next, RequestStep
<1>11. OneScheduler'
    BY <1>2 DEF OneScheduler
<1>12. QueueInv'
    <2>1. \A p \in Objects : \A i \in 1..Len(order'[p]) : ObjectOf[order'[p][i]] = p
        BY <1>a DEF QueueInv
    <2>2. \A p \in Objects : \A i, j \in 1..Len(order'[p]) : order'[p][i] = order'[p][j] => i = j
        BY <1>a, <1>8 DEF QueueInv
    <2>3. ASSUME NEW s \in Tokens PROVE LookedUp(s)' <=> LookedUp(s) \/ s = t
        <3>1. s[1] # r => (LookedUp(s)' <=> LookedUp(s)) /\ s # t
            BY <1>1, <1>2, <1>3, <1>6, TokenFacts DEF LookedUp, CurrentToken
        <3>2. s[1] = r => (LookedUp(s)' <=> s[2] <= slot[r] \/ s = t) /\ (LookedUp(s) <=> s[2] <= slot[r])
            BY <1>1, <1>2, <1>3, <1>6, TokenFacts DEF LookedUp, CurrentToken
        <3> QED
            BY <3>1, <3>2
    <2> QED
        BY <2>1, <2>2, <2>3, <1>9 DEF QueueInv
<1>13. ChainInv'
    <2>1. \A p \in Objects : \A i \in 1..Len(order'[p]) :
            pred'[order'[p][i]] = IF i = 1 THEN None ELSE order'[p][i - 1]
        <3> SUFFICES ASSUME NEW p \in Objects, NEW i \in 1..Len(order'[p])
                     PROVE  pred'[order'[p][i]] = IF i = 1 THEN None ELSE order'[p][i - 1]
            OBVIOUS
        <3>1. CASE i \in 1..Len(order[p])
            <4>1. order'[p][i] = order[p][i] /\ (i # 1 => order'[p][i - 1] = order[p][i - 1])
                BY <1>a, <3>1
            <4> QED
                BY <1>7, <1>8, <3>1, <4>1 DEF ChainInv
        <3>2. CASE i \notin 1..Len(order[p])
            <4>1. p = o /\ i = n + 1
                BY <1>a, <3>2
            <4> QED
                BY <1>1, <1>7, <4>1
        <3> QED
            BY <3>1, <3>2
    <2>2. \A s \in Tokens : ~InQueue(s)' => pred'[s] = None /\ tok'[s] = "unused"
        BY <1>7, <1>9 DEF ChainInv
    <2>3. \A s \in Tokens : tok'[s] = "waiting" => pred'[s] # None
        BY <1>5, <1>7, NoneAssumption, <1>1 DEF ChainInv
    <2>4. \A s \in Tokens : tok'[s] \in {"granted", "released"} => pred'[s] # None \/ s[2] <= slot'[s[1]]
        BY <1>2, <1>7 DEF ChainInv
    <2> QED
        BY <2>1, <2>2, <2>3, <2>4 DEF ChainInv
<1>14. WavefrontInv'
    <2>1. CurrentToken(r)' = t
        BY <1>2 DEF CurrentToken
    <2>2. \A p \in Objects : p # o =>
            wavefront'[p] = IF order'[p] = <<>> THEN None ELSE order'[p][Len(order'[p])]
        BY <1>1, <1>2, <1>4
    <2>3. /\ Len(order'[o]) > 0 /\ order'[o][Len(order'[o])] = t
          /\ wavefront'[o] = IF Len(order'[o]) = 1 THEN None ELSE order'[o][Len(order'[o]) - 1]
          /\ search'[r] = "missing" <=> Len(order'[o]) = 1
        BY <1>1, <1>2, <1>5, <1>6
    <2>4. search'[r] # "none"
        BY <1>6
    <2> QED
        BY <2>1, <2>2, <2>3, <2>4, <1>6 DEF WavefrontInv
<1>15. PrefixInv'
    <2> SUFFICES ASSUME NEW p \in Objects, NEW j \in 1..Len(order'[p]), NEW i \in 1..(j - 1),
                        tok'[order'[p][j]] \in {"granted", "released"}
                 PROVE  tok'[order'[p][i]] = "released"
        BY DEF PrefixInv
    <2>1. j \in 1..Len(order[p])
        BY <1>a, <1>7
    <2>2. i \in 1..Len(order[p]) /\ order'[p][j] = order[p][j] /\ order'[p][i] = order[p][i]
        BY <1>a, <2>1
    <2> QED
        BY <1>7, <1>8, <2>1, <2>2 DEF PrefixInv
<1>16. OwnerInv'
    BY <1>1, <1>2, <1>3, <1>7 DEF OwnerInv, Over
<1>17. FinalizeInv'
    BY <1>2, <1>3 DEF FinalizeInv, OneScheduler, TypeOK
<1> QED
    BY <1>10, <1>11, <1>12, <1>13, <1>14, <1>15, <1>16, <1>17

LEMMA PublishStep ==
    ASSUME IInv, NEW r \in Requests, Publish(r)
    PROVE  IInv'
<1> DEFINE t == CurrentToken(r)
           o == ObjectOf[t]
           n == Len(order[o])
<1> USE DEF IInv
<1>1. UNCHANGED <<pred, order, stage, visited, awaited>>
    BY DEF Publish, shutdownVars
<1>2. /\ phase[r] = "scheduling" /\ search[r] # "none"
      /\ t \in Tokens /\ o \in Objects /\ t[1] = r /\ t[2] = slot[r] + 1
      /\ slot[r] \in Nat /\ stage = "up"
    BY CurrentTokenFacts DEF Publish, TypeOK, OneScheduler
<1>3. /\ order[o] \in Seq(Tokens) /\ n \in Nat /\ n > 0 /\ order[o][n] = t
      /\ wavefront[o] = IF n = 1 THEN None ELSE order[o][n - 1]
      /\ search[r] = "missing" <=> n = 1
    BY <1>2 DEF WavefrontInv, TypeOK
<1>4. \A q \in Requests : q # r => search[q] = "none" /\ phase[q] # "scheduling"
    BY <1>2 DEF OneScheduler, TypeOK
<1>5. /\ wavefront'[o] = t
      /\ \A p \in Objects : p # o => wavefront'[p] = wavefront[p]
    BY <1>2, <1>3 DEF Publish, TypeOK
<1>6. /\ tok'[t] = IF n = 1 THEN "granted" ELSE tok[t]
      /\ \A s \in Tokens : s # t => tok'[s] = tok[s]
    BY <1>2, <1>3 DEF Publish, TypeOK
<1>7. /\ \A q \in Requests : search'[q] = "none"
      /\ slot'[r] = slot[r] + 1
      /\ phase'[r] = IF slot[r] + 1 = Len(Accesses[r]) THEN "waiting" ELSE "scheduling"
      /\ \A q \in Requests : q # r => slot'[q] = slot[q] /\ phase'[q] = phase[q]
    BY <1>4 DEF Publish, TypeOK
<1>8. InQueue(t) /\ \A s \in Tokens : InQueue(s)' <=> InQueue(s)
    BY <1>1, <1>2, <1>3 DEF InQueue
<1>9. \A p \in Objects : \A i \in 1..Len(order[p]) : order[p][i] \in Tokens
    <2>1. \A p \in Objects : order[p] \in Seq(Tokens)
        BY DEF TypeOK
    <2> QED
        BY <2>1
<1>10. TypeOK'
    BY TypeStep DEF Next, RequestStep
<1>11. OneScheduler'
    BY <1>1, <1>2, <1>4, <1>7 DEF OneScheduler
<1>12. QueueInv'
    <2>1. ASSUME NEW s \in Tokens PROVE LookedUp(s)' <=> LookedUp(s)
        <3>1. s[1] # r => (LookedUp(s)' <=> LookedUp(s))
            BY <1>4, <1>7, TokenFacts DEF LookedUp, CurrentToken
        <3>2. s[1] = r => (LookedUp(s)' <=> s[2] <= slot[r] + 1)
            BY <1>7 DEF LookedUp, CurrentToken
        <3>3. s[1] = r => (LookedUp(s) <=> s[2] <= slot[r] \/ s[2] = slot[r] + 1)
            BY <1>2, TokenFacts DEF LookedUp, CurrentToken
        <3> QED
            BY <3>1, <3>2, <3>3, <1>2, TokenFacts
    <2> QED
        BY <1>1, <1>8, <2>1 DEF QueueInv
<1>13. ChainInv'
    <2>1. \A s \in Tokens : s[2] <= slot[s[1]] => s[2] <= slot'[s[1]]
        <3> SUFFICES ASSUME NEW s \in Tokens, s[2] <= slot[s[1]] PROVE s[2] <= slot'[s[1]]
            OBVIOUS
        <3>1. s[1] \in Requests /\ s[2] \in Nat
            BY TokenFacts
        <3> QED
            BY <1>2, <1>7, <3>1
    <2>2. t[2] <= slot'[t[1]]
        BY <1>2, <1>7
    <2> QED
        BY <1>1, <1>3, <1>6, <1>8, <1>9, <2>1, <2>2 DEF ChainInv
<1>14. WavefrontInv'
    <2>1. \A p \in Objects : p # o =>
            wavefront[p] = IF order[p] = <<>> THEN None ELSE order[p][Len(order[p])]
        BY <1>4, <1>2 DEF WavefrontInv
    <2>2. order[o] # <<>>
        BY <1>3
    <2> QED
        BY <1>1, <1>3, <1>5, <1>7, <2>1, <2>2 DEF WavefrontInv
<1>15. PrefixInv'
    <2>1. \A p \in Objects : \A i \in 1..Len(order[p]) : order[p][i] = t => p = o /\ i = n
        BY <1>2, <1>3 DEF QueueInv
    <2>2. tok[t] # "released"
        BY <1>2 DEF OwnerInv, Over
    <2>3. SUFFICES ASSUME NEW p \in Objects, NEW j \in 1..Len(order[p]), NEW i \in 1..(j - 1),
                          tok'[order[p][j]] \in {"granted", "released"}
                   PROVE  tok'[order[p][i]] = "released"
        BY <1>1 DEF PrefixInv
    <2>4. Len(order[p]) \in Nat /\ i \in 1..Len(order[p]) /\ i # j
        BY DEF TypeOK
    <2>5. CASE order[p][j] = t
        <3>1. p = o /\ j = n /\ n # 1
            BY <2>1, <2>4, <2>5
        <3>2. order[p][i] # t
            BY <2>1, <2>4, <3>1
        <3> QED
            BY <1>6, <1>9, <2>3, <2>4, <2>5, <3>1, <3>2 DEF PrefixInv
    <2>6. CASE order[p][j] # t
        <3>1. tok[order[p][i]] = "released"
            BY <1>6, <1>9, <2>3, <2>4, <2>6 DEF PrefixInv
        <3> QED
            BY <1>6, <1>9, <2>2, <2>4, <3>1
    <2> QED
        BY <2>5, <2>6
<1>16. OwnerInv'
    BY <1>2, <1>6, <1>7, TokenFacts DEF OwnerInv, Over
<1>17. FinalizeInv'
    BY <1>1, <1>2 DEF FinalizeInv
<1> QED
    BY <1>10, <1>11, <1>12, <1>13, <1>14, <1>15, <1>16, <1>17

LEMMA GrantStep ==
    ASSUME IInv, NEW t \in Tokens, Grant(t)
    PROVE  IInv'
<1> DEFINE o == ObjectOf[t]
<1> USE DEF IInv
<1>1. UNCHANGED <<phase, slot, search, wavefront, pred, order, stage, visited, awaited>>
    BY DEF Grant, requestVars, graphVars, shutdownVars
<1>2. tok'[t] = "granted" /\ \A s \in Tokens : s # t => tok'[s] = tok[s]
    BY DEF Grant, TypeOK
<1>3. TypeOK'
    BY TypeStep DEF Next, TokenStep
<1>4. QueueInv' /\ WavefrontInv' /\ \A s \in Tokens : InQueue(s)' <=> InQueue(s)
    BY <1>1, GraphFrame
<1>5. OneScheduler' /\ ChainInv'
    BY <1>1, <1>2, <1>4 DEF OneScheduler, ChainInv, Grant
<1>6. PICK n \in 1..Len(order[o]) : order[o][n] = t
    BY DEF ChainInv, InQueue, Grant
<1>7. o \in Objects /\ order[o] \in Seq(Tokens) /\ Len(order[o]) \in Nat
    BY TokenFacts DEF TypeOK
<1>8. \A i \in 1..(n - 1) : tok[order[o][i]] = "released"
    <2>1. n # 1 /\ tok[order[o][n - 1]] = "released" /\ n - 1 \in 1..Len(order[o])
        BY <1>6, <1>7 DEF ChainInv, Grant
    <2> QED
        BY <1>7, <2>1 DEF PrefixInv
<1>9. \A p \in Objects : \A i \in 1..Len(order[p]) :
        order[p][i] \in Tokens /\ (order[p][i] = t => p = o /\ i = n)
    <2>1. \A p \in Objects : order[p] \in Seq(Tokens)
        BY DEF TypeOK
    <2> QED
        BY <1>6, <1>7, <2>1 DEF QueueInv
<1>10. PrefixInv'
    <2> SUFFICES ASSUME NEW p \in Objects, NEW j \in 1..Len(order[p]), NEW i \in 1..(j - 1),
                        tok'[order[p][j]] \in {"granted", "released"}
                 PROVE  tok'[order[p][i]] = "released"
        BY <1>1 DEF PrefixInv
    <2>1. Len(order[p]) \in Nat /\ i \in 1..Len(order[p])
        BY DEF TypeOK
    <2>2. tok[order[p][i]] = "released"
        BY <1>2, <1>8, <1>9, <2>1 DEF PrefixInv
    <2> QED
        BY <1>2, <1>9, <2>1, <2>2 DEF Grant
<1>11. OwnerInv'
    BY <1>1, <1>2 DEF OwnerInv, Over
<1>12. FinalizeInv'
    BY <1>1, <1>2 DEF FinalizeInv, TypeOK, Grant
<1> QED
    BY <1>3, <1>4, <1>5, <1>10, <1>11, <1>12

LEMMA ReleaseStep ==
    ASSUME IInv, NEW t \in Tokens, ReleaseToken(t)
    PROVE  IInv'
<1> USE DEF IInv
<1>1. UNCHANGED <<phase, slot, search, wavefront, pred, order, stage, visited, awaited>>
    BY DEF ReleaseToken, requestVars, graphVars, shutdownVars
<1>2. tok[t] = "granted" /\ tok'[t] = "released" /\ \A s \in Tokens : s # t => tok'[s] = tok[s]
    BY DEF ReleaseToken, TypeOK
<1>3. TypeOK'
    BY TypeStep DEF Next, TokenStep
<1>4. QueueInv' /\ WavefrontInv' /\ \A s \in Tokens : InQueue(s)' <=> InQueue(s)
    BY <1>1, GraphFrame
<1>5. OneScheduler' /\ ChainInv'
    BY <1>1, <1>2, <1>4 DEF OneScheduler, ChainInv
<1>6. \A p \in Objects : order[p] \in Seq(Tokens)
    BY DEF TypeOK
<1>7. PrefixInv'
    BY <1>1, <1>2, <1>6 DEF PrefixInv
<1>8. OwnerInv'
    BY <1>1, <1>2 DEF OwnerInv, Over, ReleaseToken
<1>9. FinalizeInv'
    BY <1>1, <1>2 DEF FinalizeInv, TypeOK
<1> QED
    BY <1>3, <1>4, <1>5, <1>7, <1>8, <1>9

\* The steps of a request after its accesses are scheduled move its phase only.
LEMMA ExecutionStep ==
    ASSUME IInv, NEW r \in Requests, Run(r) \/ Finish(r) \/ Fail(r) \/ OpenView(r) \/ CloseView(r)
    PROVE  IInv'
<1> USE DEF IInv
<1>1. UNCHANGED <<slot, search, tok, wavefront, pred, order, stage, visited, awaited>>
    BY DEF Run, Finish, Fail, OpenView, CloseView, graphVars, shutdownVars
<1>2. /\ \A q \in Requests : q # r => phase'[q] = phase[q]
      /\ \/ phase[r] = "waiting" /\ phase'[r] = "running" /\ AllGranted(r)
         \/ phase[r] = "running" /\ phase'[r] \in {"finished", "failed"}
    BY DEF Run, Finish, Fail, OpenView, CloseView, TypeOK
<1>3. TypeOK'
    BY TypeStep DEF Next, RequestStep
<1>4. QueueInv' /\ WavefrontInv' /\ \A s \in Tokens : InQueue(s)' <=> InQueue(s)
    BY <1>1, GraphFrame
<1>5. OneScheduler' /\ ChainInv' /\ PrefixInv' /\ FinalizeInv'
    BY <1>1, <1>2, <1>4 DEF OneScheduler, ChainInv, PrefixInv, FinalizeInv
<1>6. OwnerInv'
    <2>1. \A t \in Tokens : t[1] = r /\ AllGranted(r) => tok[t] = "granted"
        BY TokenFacts DEF AllGranted
    <2> QED
        BY <1>1, <1>2, <2>1, TokenFacts DEF OwnerInv, Over
<1> QED
    BY <1>3, <1>4, <1>5, <1>6

LEMMA ShutdownSteps ==
    ASSUME IInv, OneScheduler', ShutdownStep
    PROVE  IInv'
<1> USE DEF IInv
<1>1. UNCHANGED <<phase, slot, search, tok, wavefront, pred, order>>
    BY DEF ShutdownStep, Finalize, Registered, FinalizeAwait, FinalizeGet, Teardown, requestVars, graphVars
<1>2. TypeOK'
    BY TypeStep DEF Next
<1>3. QueueInv' /\ WavefrontInv' /\ \A s \in Tokens : InQueue(s)' <=> InQueue(s)
    BY <1>1, GraphFrame
<1>4. ChainInv' /\ PrefixInv' /\ OwnerInv'
    <2>1. ChainInv'
        BY <1>1, <1>3 DEF ChainInv
    <2>2. PrefixInv' /\ OwnerInv'
        BY <1>1 DEF PrefixInv, OwnerInv, Over
    <2> QED
        BY <2>1, <2>2
<1>5. FinalizeInv'
    <2>1. ASSUME NEW c \in Callers, Finalize(c) PROVE FinalizeInv'
        BY <2>1, <1>1 DEF FinalizeInv, Finalize, Registered
    <2>2. ASSUME NEW o \in Objects, FinalizeAwait(o) PROVE FinalizeInv'
        BY <2>2, <1>1 DEF FinalizeInv, FinalizeAwait
    <2>3. ASSUME FinalizeGet PROVE FinalizeInv'
        BY <2>3, <1>1 DEF FinalizeInv, FinalizeGet
    <2>4. ASSUME Teardown PROVE FinalizeInv'
        BY <2>4, <1>1 DEF FinalizeInv, Teardown
    <2> QED
        BY <2>1, <2>2, <2>3, <2>4 DEF ShutdownStep
<1> QED
    BY <1>2, <1>3, <1>4, <1>5

\* Only calls that overlap with others can destroy the queues.
LEMMA InvStep == IInv /\ OneScheduler' /\ [Next]_vars => IInv'
<1> SUFFICES ASSUME IInv, OneScheduler', [Next]_vars PROVE IInv'
    OBVIOUS
<1>1. ASSUME NEW r \in Requests, RequestStep(r) PROVE IInv'
    BY <1>1, CallStep, LookupStep, PublishStep, ExecutionStep DEF RequestStep
<1>2. ASSUME NEW t \in Tokens, TokenStep(t) PROVE IInv'
    BY <1>2, GrantStep, ReleaseStep DEF TokenStep
<1>3. ASSUME ShutdownStep PROVE IInv'
    BY <1>3, ShutdownSteps
<1>4. ASSUME UNCHANGED vars PROVE IInv'
    <2>1. TypeOK' /\ QueueInv' /\ WavefrontInv' /\ \A s \in Tokens : InQueue(s)' <=> InQueue(s)
        BY <1>4, GraphFrame, TypeStep DEF IInv, vars
    <2>2. OneScheduler' /\ ChainInv' /\ PrefixInv' /\ OwnerInv' /\ FinalizeInv'
        BY <1>4, <2>1 DEF IInv, vars, OneScheduler, ChainInv, PrefixInv, OwnerInv, Over, FinalizeInv
    <2> QED
        BY <2>1, <2>2 DEF IInv
<1> QED
    BY <1>1, <1>2, <1>3, <1>4 DEF Next, Terminated

\* The queues of tokens keep their shape as long as calls do not overlap, however
\* many threads make them.
LEMMA InvInTurns == Spec /\ []OneScheduler => []IInv
<1> QED
    BY InvInit, InvStep, PTL DEF Spec

\* A single client thread makes one call after the other, and finalize last.
LEMMA OneSchedulerStep ==
    ASSUME SerialCallers PROVE TypeOK /\ OneScheduler /\ [Next]_vars => OneScheduler'
<1> SUFFICES ASSUME TypeOK, OneScheduler, [Next]_vars PROVE OneScheduler'
    OBVIOUS
<1>1. ASSUME NEW r \in Requests, Call(r) PROVE OneScheduler'
    <2>1. \A q \in Requests : phase[q] # "scheduling"
        BY <1>1, RequestsAssumption DEF Call, Registered, CallerFree, SerialCallers
    <2> QED
        BY <1>1, <2>1 DEF OneScheduler, Call, Registered, TypeOK, shutdownVars
<1>2. ASSUME NEW c \in Callers, Finalize(c) PROVE OneScheduler'
    <2>1. \A q \in Requests : phase[q] # "scheduling"
        BY <1>2 DEF Finalize, Registered, CallerFree, SerialCallers
    <2> QED
        BY <1>2, <2>1 DEF OneScheduler, Finalize, requestVars
<1>3. ASSUME \A q \in Requests : phase'[q] = "scheduling" => phase[q] = "scheduling",
             stage' # "up" => stage # "up"
      PROVE  OneScheduler'
    BY <1>3 DEF OneScheduler
<1>4. ASSUME NEW r \in Requests, RequestStep(r), ~Call(r) PROVE OneScheduler'
    <2>1. stage' = stage /\ \A q \in Requests : phase'[q] = "scheduling" => phase[q] = "scheduling"
        BY <1>4 DEF RequestStep, Lookup, Publish, Run, Finish, Fail, OpenView, CloseView, shutdownVars, TypeOK
    <2> QED
        BY <1>3, <2>1
<1>5. ASSUME NEW t \in Tokens, TokenStep(t) PROVE OneScheduler'
    BY <1>3, <1>5 DEF TokenStep, Grant, ReleaseToken, requestVars, shutdownVars
<1>6. ASSUME ShutdownStep, \A c \in Callers : ~Finalize(c) PROVE OneScheduler'
    BY <1>3, <1>6 DEF ShutdownStep, FinalizeAwait, FinalizeGet, Teardown, requestVars
<1>7. ASSUME UNCHANGED vars PROVE OneScheduler'
    BY <1>3, <1>7 DEF vars
<1> QED
    BY <1>1, <1>2, <1>4, <1>5, <1>6, <1>7 DEF Next, Terminated

\* The calls of a single client thread do not overlap.
LEMMA OneSchedulerCorrect == ASSUME SerialCallers PROVE Spec => []OneScheduler
<1>1. Init => OneScheduler
    BY DEF Init, OneScheduler
<1> QED
    BY <1>1, OneSchedulerStep, TypeCorrect, PTL DEF Spec

\* The queues of tokens keep their shape if one client thread makes the calls.
THEOREM InvCorrect == ASSUME SerialCallers PROVE Spec => []IInv
<1> QED
    BY InvInTurns, OneSchedulerCorrect, PTL

-----------------------------------------------------------------------------
(***************************************************************************)
(* What follows from the invariant                                         *)
(***************************************************************************)

\* At most the first of the tokens that are not released is granted.
LEMMA InvExclusive == IInv => ExclusiveAccess
<1> SUFFICES ASSUME IInv, NEW s \in Tokens, NEW t \in Tokens, s # t, ObjectOf[s] = ObjectOf[t],
                    tok[s] = "granted", tok[t] = "granted"
             PROVE  FALSE
    BY DEF ExclusiveAccess
<1> DEFINE o == ObjectOf[s]
<1>1. o \in Objects /\ Len(order[o]) \in Nat
    BY TokenFacts DEF IInv, TypeOK
<1>2. PICK i \in 1..Len(order[o]) : order[o][i] = s
    BY DEF IInv, ChainInv, InQueue
<1>3. PICK j \in 1..Len(order[o]) : order[o][j] = t
    BY DEF IInv, ChainInv, InQueue
<1>4. i \in 1..(j - 1) \/ j \in 1..(i - 1)
    BY <1>1, <1>2, <1>3
<1> QED
    BY <1>1, <1>2, <1>3, <1>4 DEF IInv, PrefixInv

\* dataflow_graph never has two tokens of one object granted at a time.
THEOREM ExclusiveAccessCorrect == ASSUME SerialCallers PROVE Spec => []ExclusiveAccess
<1> QED
    BY InvExclusive, InvCorrect, PTL

\* Who runs on an object has a token granted, so all before it are released.
LEMMA InvOrdered == IInv => RunsInScheduleOrder
<1> SUFFICES ASSUME IInv, NEW o \in Objects, NEW j \in 1..Len(order[o]), NEW i \in 1..(j - 1),
                    phase[order[o][j][1]] \in {"running", "finished", "failed"}
             PROVE  Over(order[o][i][1])
    BY DEF RunsInScheduleOrder
<1>1. order[o] \in Seq(Tokens) /\ Len(order[o]) \in Nat
    BY DEF IInv, TypeOK
<1>2. order[o][i] \in Tokens /\ order[o][j] \in Tokens
    BY <1>1
<1> QED
    BY <1>2 DEF IInv, OwnerInv, PrefixInv

\* A kernel or view starts only after all requests queued before it are over.
THEOREM ScheduleOrderCorrect == ASSUME SerialCallers PROVE Spec => []RunsInScheduleOrder
<1> QED
    BY InvOrdered, InvCorrect, PTL

\* When shutdown frees the runtime, a request that has any token is not pending.
LEMMA DownMeansDone ==
    ASSUME IInv, stage = "down", NEW r \in Requests, Accesses[r] # <<>>
    PROVE  phase[r] \notin {"scheduling", "waiting", "running"}
<1> SUFFICES ASSUME phase[r] \in {"scheduling", "waiting", "running"} PROVE FALSE
    OBVIOUS
<1> DEFINE t == <<r, 1>>
           o == ObjectOf[t]
<1>1. Len(Accesses[r]) \in Nat /\ Len(Accesses[r]) > 0
    BY RequestsAssumption
<1>2. t \in Tokens /\ t[1] = r /\ t[2] = 1
    BY <1>1, TokenFacts
<1>3. o \in Objects /\ order[o] \in Seq(Tokens) /\ Len(order[o]) \in Nat
    BY <1>2, TokenFacts DEF IInv, TypeOK
<1>4. phase[r] # "scheduling" /\ slot[r] = Len(Accesses[r])
    BY DEF IInv, OneScheduler, OwnerInv
<1>5. PICK i \in 1..Len(order[o]) : order[o][i] = t
    <2>1. LookedUp(t)
        BY <1>1, <1>2, <1>4 DEF LookedUp
    <2> QED
        BY <1>2, <2>1 DEF IInv, QueueInv, InQueue
<1>6. \A q \in Requests : search[q] = "none"
    BY DEF IInv, OneScheduler, TypeOK
<1>7. wavefront[o] = order[o][Len(order[o])] /\ wavefront[o] \in Tokens
    BY <1>3, <1>5, <1>6 DEF IInv, WavefrontInv
<1>8. tok[wavefront[o]] = "released"
    BY <1>3, <1>7, NoneAssumption DEF IInv, FinalizeInv
<1>9. tok[t] = "released"
    <2>1. CASE i = Len(order[o])
        BY <1>5, <1>7, <1>8, <2>1
    <2>2. CASE i # Len(order[o])
        <3>1. Len(order[o]) \in 1..Len(order[o]) /\ i \in 1..(Len(order[o]) - 1)
            BY <1>3, <1>5, <2>2
        <3> QED
            BY <1>3, <1>5, <1>7, <1>8, <3>1 DEF IInv, PrefixInv
    <2> QED
        BY <2>1, <2>2
<1> QED
    BY <1>2, <1>9 DEF IInv, OwnerInv, Over

\* If every request accesses some object, nothing is pending when shutdown
\* frees what kernels and views use.
THEOREM ShutdownCorrect ==
    ASSUME SerialCallers, \A r \in Requests : Accesses[r] # <<>>
    PROVE  Spec => []PendingWorkFinished
<1>1. IInv => PendingWorkFinished
    BY DownMeansDone DEF PendingWorkFinished
<1> QED
    BY <1>1, InvCorrect, PTL

-----------------------------------------------------------------------------

\* A kernel or view has all its tokens while it runs, for any number of client
\* threads, also if races have granted them to others too.
THEOREM HoldsTokensCorrect == Spec => []HoldsTokens
<1>1. Init => HoldsTokens
    BY DEF Init, HoldsTokens
<1>2. TypeOK /\ HoldsTokens /\ [Next]_vars => HoldsTokens'
    <2> SUFFICES ASSUME TypeOK, HoldsTokens, [Next]_vars,
                        NEW r \in Requests, phase'[r] = "running",
                        NEW k \in 1..Len(Accesses[r])
                 PROVE  tok'[<<r, k>>] = "granted"
        BY DEF HoldsTokens, AllGranted
    <2> DEFINE t == <<r, k>>
    <2>0. t \in Tokens /\ t[1] = r
        BY TokenFacts
    <2>1. ASSUME NEW q \in Requests, Run(q) \/ OpenView(q) PROVE tok'[t] = "granted"
        <3>1. tok' = tok /\ phase' = [phase EXCEPT ![q] = "running"] /\ AllGranted(q)
            BY <2>1 DEF Run, OpenView
        <3>2. phase[r] = "running" \/ r = q
            BY <3>1 DEF TypeOK
        <3> QED
            BY <3>1, <3>2 DEF AllGranted, HoldsTokens
    <2>2. ASSUME NEW q \in Requests, Call(q) \/ Finish(q) \/ Fail(q) \/ CloseView(q)
          PROVE  tok'[t] = "granted"
        <3>1. tok' = tok /\ phase[r] = "running"
            BY <2>2 DEF Call, Registered, Finish, Fail, CloseView, TypeOK
        <3> QED
            BY <3>1 DEF HoldsTokens, AllGranted
    <2>3. ASSUME NEW q \in Requests, Lookup(q) \/ Publish(q) PROVE tok'[t] = "granted"
        <3>1. phase[q] = "scheduling" /\ CurrentToken(q) \in Tokens /\ CurrentToken(q)[1] = q
            BY <2>3, CurrentTokenFacts DEF Lookup, Publish, TypeOK
        <3>2. phase[r] = "running"
            BY <2>3, <3>1 DEF Lookup, Publish, TypeOK
        <3>3. t # CurrentToken(q) /\ tok[t] = "granted"
            BY <2>0, <3>1, <3>2 DEF HoldsTokens, AllGranted
        <3> QED
            BY <2>0, <2>3, <3>1, <3>3 DEF Lookup, Publish, TypeOK
    <2>4. ASSUME NEW s \in Tokens, Grant(s) \/ ReleaseToken(s) PROVE tok'[t] = "granted"
        <3>1. phase[r] = "running" /\ tok[t] = "granted"
            BY <2>4 DEF Grant, ReleaseToken, requestVars, HoldsTokens, AllGranted
        <3> QED
            BY <2>0, <2>4, <3>1 DEF Grant, ReleaseToken, Over, TypeOK
    <2>5. ASSUME ShutdownStep \/ UNCHANGED vars PROVE tok'[t] = "granted"
        BY <2>5 DEF ShutdownStep, Finalize, Registered, FinalizeAwait, FinalizeGet, Teardown, requestVars, vars,
            HoldsTokens, AllGranted
    <2> QED
        BY <2>1, <2>2, <2>3, <2>4, <2>5 DEF Next, RequestStep, TokenStep, Terminated
<1> QED
    BY <1>1, <1>2, TypeCorrect, PTL DEF Spec

-----------------------------------------------------------------------------

\* Two tokens of one request on one object are never granted together.
LEMMA RepeatedNotGranted ==
    ASSUME IInv, NEW r \in Requests, Repeats(r)
    PROVE  ~AllGranted(r)
<1>1. PICK i \in 1..Len(Accesses[r]), j \in 1..Len(Accesses[r]) : i < j /\ Accesses[r][i] = Accesses[r][j]
    BY DEF Repeats
<1>2. <<r, i>> \in Tokens /\ <<r, j>> \in Tokens /\ <<r, i>> # <<r, j>>
    BY <1>1, TokenFacts
<1>3. ObjectOf[<<r, i>>] = ObjectOf[<<r, j>>]
    BY <1>1, <1>2 DEF ObjectOf
<1> QED
    BY <1>2, <1>3, InvExclusive DEF ExclusiveAccess, AllGranted

\* A queue is a sequence of tokens whose owners have looked them up.
LEMMA QueueFacts ==
    ASSUME IInv, NEW o \in Objects, NEW i \in 1..Len(order[o])
    PROVE  /\ Len(order[o]) \in Nat
           /\ order[o][i] \in Tokens
           /\ ObjectOf[order[o][i]] = o
           /\ order[o][i][1] \in Requests
           /\ InQueue(order[o][i])
           /\ phase[order[o][i][1]] # "idle"
<1>1. order[o] \in Seq(Tokens) /\ Len(order[o]) \in Nat
    BY DEF IInv, TypeOK
<1>2. order[o][i] \in Tokens /\ ObjectOf[order[o][i]] = o
    BY <1>1 DEF IInv, QueueInv
<1>3. InQueue(order[o][i])
    BY <1>2 DEF InQueue
<1>4. LookedUp(order[o][i])
    BY <1>2, <1>3 DEF IInv, QueueInv
<1>5. phase[order[o][i][1]] # "idle"
    BY <1>2, <1>4, TokenFacts DEF LookedUp, IInv, TypeOK
<1> QED
    BY <1>1, <1>2, <1>3, <1>5, TokenFacts

\* A kernel called with one object for two parameters hangs, and with it everything
\* queued behind it and shutdown.
LEMMA RepeatsHangInTurns == Spec /\ []OneScheduler => []RepeatsHang
<1> DEFINE NotStarted == \A r \in Requests : Repeats(r) => phase[r] \in {"idle", "scheduling", "waiting"}
<1>1. Init => NotStarted
    BY DEF Init
<1>2. IInv /\ NotStarted /\ [Next]_vars => NotStarted'
    <2> SUFFICES ASSUME IInv, [Next]_vars, NEW r \in Requests, Repeats(r),
                        phase[r] \in {"idle", "scheduling", "waiting"}
                 PROVE  phase'[r] \in {"idle", "scheduling", "waiting"}
        BY DEF Repeats
    <2>1. ~AllGranted(r)
        BY RepeatedNotGranted
    <2>2. ASSUME NEW q \in Requests, RequestStep(q) PROVE phase'[r] \in {"idle", "scheduling", "waiting"}
        BY <2>1, <2>2 DEF RequestStep, Call, Registered, Lookup, Publish, Run, Finish, Fail, OpenView, CloseView,
            IInv, TypeOK
    <2>3. ASSUME NEW t \in Tokens, TokenStep(t) PROVE phase' = phase
        BY <2>3 DEF TokenStep, Grant, ReleaseToken, requestVars
    <2>4. ASSUME ShutdownStep \/ UNCHANGED vars PROVE phase' = phase
        BY <2>4 DEF ShutdownStep, Finalize, Registered, FinalizeAwait, FinalizeGet, Teardown, requestVars, vars
    <2> QED
        BY <2>2, <2>3, <2>4 DEF Next, Terminated
<1>3. IInv /\ NotStarted => RepeatsHang
    <2> SUFFICES ASSUME IInv, NEW r \in Requests, Repeats(r),
                        phase[r] \in {"idle", "scheduling", "waiting"}
                 PROVE  /\ phase[r] # "idle" => stage # "down"
                        /\ \A o \in Objects : \A q \in Requests : q # r /\ Before(o, r, q) =>
                              phase[q] \in {"scheduling", "waiting"}
        BY DEF RepeatsHang
    <2>1. phase[r] # "idle" => stage # "down"
        <3>1. Accesses[r] # <<>>
            BY DEF Repeats
        <3> QED
            BY <3>1, DownMeansDone
    <2>2. ASSUME NEW o \in Objects, NEW q \in Requests, q # r, Before(o, r, q)
          PROVE  phase[q] \in {"scheduling", "waiting"}
        <3>1. PICK j \in 1..Len(order[o]) : \E i \in 1..(j - 1) : order[o][i][1] = r /\ order[o][j][1] = q
            BY <2>2 DEF Before
        <3>2. phase[q] # "idle"
            BY <3>1, QueueFacts
        <3>3. phase[q] \notin {"running", "finished", "failed"}
            BY <2>2, <3>1, InvOrdered DEF RunsInScheduleOrder, Over
        <3> QED
            BY <3>2, <3>3 DEF IInv, TypeOK, Phases
    <2> QED
        BY <2>1, <2>2
<1> QED
    BY <1>1, <1>2, <1>3, InvInTurns, PTL DEF Spec

\* With one client thread a kernel that names an object twice hangs for good.
THEOREM RepeatsHangCorrect == ASSUME SerialCallers PROVE Spec => []RepeatsHang
<1> QED
    BY RepeatsHangInTurns, OneSchedulerCorrect, PTL

-----------------------------------------------------------------------------

\* Every step of the graph is a step of the queues or none of them.
LEMMA RefinementInTurns == Spec /\ []OneScheduler => ImplementsAccessQueue
<1>1. Init => Q!Init
    BY DEF Init, Q!Init
<1>2. IInv /\ IInv' /\ [Next]_vars => [Q!Next]_Q!qvars
    <2> SUFFICES ASSUME IInv, IInv', [Next]_vars PROVE [Q!Next]_Q!qvars
        OBVIOUS
    <2>1. ASSUME NEW r \in Requests, Lookup(r) PROVE \E t \in Tokens : Q!Enqueue(t)
        <3> DEFINE t == CurrentToken(r)
        <3>1. t \in Tokens /\ ~InQueue(t)
            BY <2>1, LookupQueue
        <3>2. tok[t] = "unused" /\ tok'[t] \in {"unused", "waiting"}
            BY <2>1, <3>1 DEF Lookup, IInv, ChainInv, TypeOK
        <3>3. \A s \in Tokens : s # t => tok'[s] = tok[s]
            BY <2>1 DEF Lookup, IInv, TypeOK
        <3>4. Q!Enqueue(t)
            BY <2>1, <3>1, <3>2, <3>3 DEF Q!Enqueue, Q!Queued, InQueue, Lookup
        <3> QED
            BY <3>1, <3>4
    <2>2. ASSUME NEW r \in Requests, Publish(r) PROVE [Q!Next]_Q!qvars
        <3> DEFINE t == CurrentToken(r)
                   o == ObjectOf[t]
        <3>1. phase[r] = "scheduling" /\ search[r] # "none" /\ t \in Tokens /\ t[1] = r /\ order' = order
            BY <2>2, CurrentTokenFacts DEF IInv, TypeOK, Publish
        <3>2. CASE search[r] = "found"
            BY <2>2, <3>1, <3>2 DEF Publish, Q!qvars
        <3>3. CASE search[r] = "missing"
            <4>1. Len(order[o]) = 1 /\ order[o][1] = t
                BY <3>1, <3>3 DEF IInv, WavefrontInv
            <4>2. tok[t] \notin {"granted", "released"}
                <5>1. pred[t] = None /\ t[2] = slot[r] + 1 /\ slot[r] \in Nat
                    <6>1. o \in Objects /\ t[2] = slot[r] + 1 /\ slot[r] \in Nat
                        BY <3>1, CurrentTokenFacts DEF IInv, TypeOK
                    <6> QED
                        BY <4>1, <6>1 DEF IInv, ChainInv
                <5> QED
                    BY <3>1, <5>1 DEF IInv, ChainInv
            <4>3. tok' = [tok EXCEPT ![t] = "granted"]
                BY <2>2, <3>3 DEF Publish
            <4>4. ASSUME NEW s \in Tokens, s = t PROVE Q!Grant(s)
                BY <3>1, <4>1, <4>2, <4>3, <4>4 DEF Q!Grant, Q!AtFront, IInv, TypeOK
            <4>5. \E s \in Tokens : Q!Grant(s)
                BY <3>1, <4>4
            <4> QED
                BY <4>5 DEF Q!Next
        <3> QED
            BY <3>1, <3>2, <3>3 DEF IInv, TypeOK
    <2>3. ASSUME NEW t \in Tokens, Grant(t) PROVE Q!Grant(t)
        <3> DEFINE o == ObjectOf[t]
        <3>1. PICK n \in 1..Len(order[o]) : order[o][n] = t
            BY <2>3 DEF IInv, ChainInv, InQueue, Grant
        <3>2. order' = order /\ tok' = [tok EXCEPT ![t] = "granted"] /\ tok[t] = "waiting"
            BY <2>3 DEF Grant, graphVars
        <3>3. \A i \in 1..(n - 1) : tok'[order[o][i]] = "released"
            <4>1. o \in Objects /\ tok'[order'[o][n]] = "granted"
                BY <3>1, <3>2, TokenFacts DEF IInv, TypeOK
            <4>2. PrefixInv'
                BY DEF IInv
            <4> QED
                BY <3>1, <3>2, <4>1, <4>2 DEF PrefixInv
        <3>4. \A i \in 1..(n - 1) : order[o][i] \in Tokens /\ tok[order[o][i]] = "released"
            <4>1. order[o] \in Seq(Tokens) /\ Len(order[o]) \in Nat
                BY TokenFacts DEF IInv, TypeOK
            <4>2. \A i \in 1..(n - 1) : order[o][i] \in Tokens
                BY <3>1, <4>1
            <4> QED
                BY <3>2, <3>3, <4>2 DEF IInv, TypeOK
        <3> DEFINE G == {s \in Tokens : tok[s] = "granted"}
                   R == {s \in Tokens : tok[s] = "released"}
        <3>5. tok \in [Tokens -> TokenStates]
            BY DEF IInv, TypeOK
        <3>6. /\ t \in Tokens \ (G \cup R)
              /\ G' = G \cup {t} /\ R' = R
            BY <3>2, <3>5
        <3>7. Q!AtFront(t)
            BY <3>1, <3>4 DEF Q!AtFront
        <3> QED
            BY <3>2, <3>6, <3>7 DEF Q!Grant
    <2>4. ASSUME NEW t \in Tokens, ReleaseToken(t) PROVE Q!Release(t)
        BY <2>4 DEF ReleaseToken, Q!Release, graphVars, IInv, TypeOK
    <2>5. ASSUME NEW r \in Requests,
                 Call(r) \/ Run(r) \/ Finish(r) \/ Fail(r) \/ OpenView(r) \/ CloseView(r)
          PROVE  UNCHANGED Q!qvars
        BY <2>5 DEF Call, Registered, Run, Finish, Fail, OpenView, CloseView, graphVars, Q!qvars
    <2>6. ASSUME ShutdownStep \/ UNCHANGED vars PROVE UNCHANGED Q!qvars
        BY <2>6 DEF ShutdownStep, Finalize, Registered, FinalizeAwait, FinalizeGet, Teardown, graphVars, vars,
            Q!qvars
    <2> QED
        BY <2>1, <2>2, <2>3, <2>4, <2>5, <2>6 DEF Next, RequestStep, TokenStep, Terminated, Q!Next
<1> QED
    BY <1>1, <1>2, InvInTurns, PTL DEF Spec, ImplementsAccessQueue, Q!Spec

\* The graph implements a first-come first-served queue of tokens per object.
THEOREM Refinement == ASSUME SerialCallers PROVE Spec => ImplementsAccessQueue
<1> QED
    BY RefinementInTurns, OneSchedulerCorrect, PTL

\* The inductive invariant of the abstract queue, and what follows from it.
LEMMA QueueInvariant == ImplementsAccessQueue => [](Q!QueuesOK /\ Q!FirstComeFirstServed /\ Q!Exclusive)
<1> DEFINE G == {t \in Tokens : tok[t] = "granted"}
           R == {t \in Tokens : tok[t] = "released"}
           Inv == Q!QueuesOK /\ Q!FirstComeFirstServed
<1>0. \A t \in Tokens : ObjectOf[t] \in Objects
    BY TokenFacts
<1>1. Q!Init => Inv
    BY DEF Q!Init, Q!QueuesOK, Q!FirstComeFirstServed
<1>2. Inv => Q!Exclusive
    <2> SUFFICES ASSUME Inv, NEW s \in G, NEW t \in G, ObjectOf[s] = ObjectOf[t], s # t PROVE FALSE
        BY DEF Q!Exclusive
    <2> DEFINE o == ObjectOf[s]
    <2>1. o \in Objects /\ Len(order[o]) \in Nat
        BY <1>0 DEF Q!QueuesOK
    <2>2. PICK i \in 1..Len(order[o]) : order[o][i] = s /\ \A k \in 1..(i - 1) : order[o][k] \in R
        BY DEF Q!FirstComeFirstServed, Q!AtFront
    <2>3. PICK j \in 1..Len(order[o]) : order[o][j] = t /\ \A k \in 1..(j - 1) : order[o][k] \in R
        BY DEF Q!FirstComeFirstServed, Q!AtFront
    <2>4. i \in 1..(j - 1) \/ j \in 1..(i - 1)
        BY <2>1, <2>2, <2>3
    <2> QED
        BY <2>2, <2>3, <2>4
<1>3. Inv /\ [Q!Next]_Q!qvars => Inv'
    <2> SUFFICES ASSUME Inv, [Q!Next]_Q!qvars PROVE Inv'
        OBVIOUS
    <2>1. ASSUME NEW t \in Tokens, Q!Enqueue(t) PROVE Inv'
        <3> DEFINE o == ObjectOf[t]
                   n == Len(order[o])
        <3>1. o \in Objects /\ order[o] \in Seq(Tokens) /\ n \in Nat
            BY <1>0 DEF Q!QueuesOK
        <3>2. order' = [order EXCEPT ![o] = Append(@, t)] /\ G' = G /\ R' = R
            BY <2>1 DEF Q!Enqueue
        <3>3. order'[o] = Append(order[o], t) /\ \A p \in Objects : p # o => order'[p] = order[p]
            BY <3>1, <3>2 DEF Q!QueuesOK
        <3>4. /\ Len(order'[o]) = n + 1 /\ order'[o][n + 1] = t
              /\ \A i \in 1..n : order'[o][i] = order[o][i]
            BY <3>1, <3>3
        <3>5. \A i \in 1..n : order[o][i] # t
            BY <2>1 DEF Q!Enqueue, Q!Queued
        <3>6. order' \in [Objects -> Seq(Tokens)]
            BY <3>1, <3>2 DEF Q!QueuesOK
        <3>7. \A p \in Objects : \A i \in 1..Len(order'[p]) : ObjectOf[order'[p][i]] = p
            <4>1. \A p \in Objects : p # o => \A i \in 1..Len(order'[p]) : ObjectOf[order'[p][i]] = p
                BY <3>3 DEF Q!QueuesOK
            <4>2. \A i \in 1..(n + 1) : i \in 1..n \/ i = n + 1
                BY <3>1
            <4>3. \A i \in 1..n : ObjectOf[order[o][i]] = o
                BY <3>1 DEF Q!QueuesOK
            <4>4. \A i \in 1..(n + 1) : ObjectOf[order'[o][i]] = o
                BY <3>4, <4>2, <4>3
            <4> QED
                BY <3>4, <4>1, <4>4
        <3>8. \A p \in Objects : \A i, j \in 1..Len(order'[p]) : order'[p][i] = order'[p][j] => i = j
            <4>1. \A p \in Objects : p # o =>
                    \A i, j \in 1..Len(order'[p]) : order'[p][i] = order'[p][j] => i = j
                BY <3>3 DEF Q!QueuesOK
            <4>2. \A i \in 1..(n + 1) : i \in 1..n \/ i = n + 1
                BY <3>1
            <4>3. \A i, j \in 1..(n + 1) : order'[o][i] = order'[o][j] => i = j
                <5>1. \A i, j \in 1..n : order[o][i] = order[o][j] => i = j
                    BY <3>1 DEF Q!QueuesOK
                <5> QED
                    BY <3>4, <3>5, <4>2, <5>1
            <4> QED
                BY <3>4, <4>1, <4>3
        <3>9. Q!QueuesOK'
            BY <3>2, <3>6, <3>7, <3>8 DEF Q!QueuesOK
        <3>10. ASSUME NEW s \in G \cup R PROVE Q!AtFront(s)'
            <4>1. Q!AtFront(s) /\ ObjectOf[s] \in Objects
                BY <1>0 DEF Q!FirstComeFirstServed
            <4>2. PICK j \in 1..Len(order[ObjectOf[s]]) :
                    order[ObjectOf[s]][j] = s /\ \A i \in 1..(j - 1) : order[ObjectOf[s]][i] \in R
                BY <4>1 DEF Q!AtFront
            <4>3. CASE ObjectOf[s] = o
                <5>1. j \in 1..n /\ j \in 1..(n + 1) /\ \A i \in 1..(j - 1) : i \in 1..n
                    BY <3>1, <4>2, <4>3
                <5>2. /\ j \in 1..Len(order'[o]) /\ order'[o][j] = s
                      /\ \A i \in 1..(j - 1) : order'[o][i] \in R'
                    BY <3>2, <3>4, <4>2, <4>3, <5>1
                <5> QED
                    BY <4>3, <5>2 DEF Q!AtFront
            <4>4. CASE ObjectOf[s] # o
                BY <3>2, <3>3, <4>1, <4>2, <4>4 DEF Q!AtFront
            <4> QED
                BY <4>3, <4>4
        <3> QED
            BY <3>2, <3>9, <3>10 DEF Q!FirstComeFirstServed
    <2>2. ASSUME NEW t \in Tokens, Q!Grant(t) \/ Q!Release(t) PROVE Inv'
        <3>1. order' = order /\ Q!AtFront(t)
            BY <2>2 DEF Q!Grant, Q!Release, Q!FirstComeFirstServed
        <3>2. R \subseteq R' /\ (G \cup R)' \subseteq G \cup R \cup {t} /\ (G \cap R)' = {}
            BY <2>2 DEF Q!Grant, Q!Release, Q!QueuesOK
        <3>3. Q!QueuesOK'
            BY <3>1, <3>2 DEF Q!QueuesOK
        <3>4. \A s \in (G \cup R)' : Q!AtFront(s)
            BY <3>1, <3>2 DEF Q!FirstComeFirstServed
        <3>5. \A s \in Tokens : Q!AtFront(s) => Q!AtFront(s)'
            BY <3>1, <3>2 DEF Q!AtFront
        <3> QED
            BY <3>3, <3>4, <3>5 DEF Q!FirstComeFirstServed
    <2>3. CASE UNCHANGED Q!qvars
        BY <2>3 DEF Q!qvars, Q!QueuesOK, Q!FirstComeFirstServed, Q!AtFront
    <2> QED
        BY <2>1, <2>2, <2>3 DEF Q!Next
<1> QED
    BY <1>1, <1>2, <1>3, PTL DEF ImplementsAccessQueue, Q!Spec

\* What the holder of a token may rely on: the queue gives an object to one token
\* at a time, in the order in which they were queued.
THEOREM QueuePromise == ImplementsAccessQueue => [](Q!Exclusive /\ Q!FirstComeFirstServed)
<1> QED
    BY QueueInvariant, PTL

\* First-come first-served queues are locks.
LEMMA QueueIsLock == ImplementsAccessQueue => ImplementsTokenLock
<1> DEFINE G == {t \in Tokens : tok[t] = "granted"}
           R == {t \in Tokens : tok[t] = "released"}
           Inv == Q!QueuesOK /\ Q!FirstComeFirstServed /\ Q!Exclusive
<1>1. Q!Init => Lock!Init
    BY DEF Q!Init, Lock!Init
<1>2. Inv /\ Inv' /\ [Q!Next]_Q!qvars => [Lock!Next]_Lock!tvars
    <2> SUFFICES ASSUME Inv, Inv', [Q!Next]_Q!qvars PROVE [Lock!Next]_Lock!tvars
        OBVIOUS
    <2>1. ASSUME NEW t \in Tokens, Q!Enqueue(t) PROVE UNCHANGED Lock!tvars
        BY <2>1 DEF Q!Enqueue, Lock!tvars
    <2>2. ASSUME NEW t \in Tokens, Q!Grant(t) PROVE Lock!Take(t)
        <3>1. t \notin G /\ t \notin R /\ G' = G \cup {t} /\ R' = R
            BY <2>2 DEF Q!Grant
        <3>2. \A s \in G : ObjectOf[s] # ObjectOf[t]
            BY <3>1 DEF Q!Exclusive
        <3> QED
            BY <3>1, <3>2 DEF Lock!Take
    <2>3. ASSUME NEW t \in Tokens, Q!Release(t) PROVE Lock!Leave(t)
        BY <2>3 DEF Q!Release, Lock!Leave
    <2>4. CASE UNCHANGED Q!qvars
        BY <2>4 DEF Q!qvars, Lock!tvars
    <2> QED
        BY <2>1, <2>2, <2>3, <2>4 DEF Q!Next, Lock!Next
<1> QED
    BY <1>1, <1>2, QueueInvariant, PTL DEF ImplementsAccessQueue, Q!Spec, ImplementsTokenLock, Lock!Spec

\* The graph hands tokens out as the users of objects rely on: one holder at a
\* time, and each of them once.
THEOREM TokenLockRefinement ==
    ASSUME SerialCallers
    PROVE  Spec => ImplementsTokenLock /\ []Lock!OneHolder
<1>1. Lock!Init => Lock!OneHolder
    BY DEF Lock!Init, Lock!OneHolder
<1>2. Lock!OneHolder /\ [Lock!Next]_Lock!tvars => Lock!OneHolder'
    <2> SUFFICES ASSUME Lock!OneHolder, [Lock!Next]_Lock!tvars PROVE Lock!OneHolder'
        OBVIOUS
    <2>1. ASSUME NEW t \in Tokens, Lock!Take(t) \/ Lock!Leave(t) PROVE Lock!OneHolder'
        BY <2>1 DEF Lock!Take, Lock!Leave, Lock!OneHolder
    <2>2. CASE UNCHANGED Lock!tvars
        BY <2>2 DEF Lock!tvars, Lock!OneHolder
    <2> QED
        BY <2>1, <2>2 DEF Lock!Next
<1> QED
    BY <1>1, <1>2, Refinement, QueueIsLock, PTL DEF ImplementsTokenLock, Lock!Spec
=============================================================================
