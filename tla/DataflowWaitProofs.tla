------------------------- MODULE DataflowWaitProofs -------------------------
(***************************************************************************)
(* Proofs that the requests of Dataflow never deadlock, for any objects    *)
(* and requests of one client thread.                                      *)
(***************************************************************************)
EXTENDS DataflowProofs

\* The token of a view.
LEMMA ViewToken ==
    ASSUME NEW v \in Views
    PROVE  /\ v \in Requests /\ <<v, 1>> \in Tokens
           /\ ObjectOf[<<v, 1>>] = Accesses[v][1] /\ Accesses[v][1] \in Objects
           /\ \A t \in Tokens : t[1] = v => t = <<v, 1>>
<1>1. v \in Requests /\ Len(Accesses[v]) = 1
    BY RequestsAssumption
<1>2. <<v, 1>> \in Tokens
    BY <1>1, TokenFacts
<1>3. ObjectOf[<<v, 1>>] = Accesses[v][1]
    BY <1>2 DEF ObjectOf
<1>4. ASSUME NEW t \in Tokens, t[1] = v PROVE t = <<v, 1>>
    <2>1. t[2] \in 1..1 /\ t = <<t[1], t[2]>>
        BY <1>1, <1>4, TokenFacts
    <2>2. t[2] = 1
        BY <2>1
    <2> QED
        BY <1>4, <2>1, <2>2
<1> QED
    BY <1>1, <1>2, <1>3, <1>4, TokenFacts

\* Only one look-up at a time changes the queues; everything else keeps them.
LEMMA OrderFrame ==
    ASSUME [Next]_vars
    PROVE  (\E r \in Requests : Lookup(r)) \/ UNCHANGED order
BY DEF Next, RequestStep, TokenStep, ShutdownStep, Terminated, Call, Registered, Publish, Run, Finish,
    Fail, OpenView, CloseView, Grant, ReleaseToken, Finalize, FinalizeAwait, FinalizeGet, Teardown,
    graphVars, vars

\* After a look-up of r only r has come to stand behind others, and not behind
\* one that is idle.
LEMMA LookupBefore ==
    ASSUME IInv, NEW r \in Requests, Lookup(r), NEW o \in Objects,
           NEW p \in Requests, NEW q \in Requests, Before(o, p, q)'
    PROVE  Before(o, p, q) \/ (q = r /\ phase[p] # "idle")
<1> DEFINE n == Len(order[o])
<1>0. PICK j \in 1..Len(order'[o]) : \E i \in 1..(j - 1) : order'[o][i][1] = p /\ order'[o][j][1] = q
    BY DEF Before
<1>1. PICK i \in 1..(j - 1) : order'[o][i][1] = p /\ order'[o][j][1] = q
    BY <1>0
<1>2. n \in Nat /\ CurrentToken(r)[1] = r
    BY CurrentTokenFacts DEF IInv, TypeOK, Lookup
<1>3. CASE o = ObjectOf[CurrentToken(r)]
    <2>1. /\ Len(order'[o]) = n + 1
          /\ \A m \in 1..n : order'[o][m] = order[o][m]
          /\ order'[o][n + 1] = CurrentToken(r)
        BY <1>3, LookupQueue
    <2>2. CASE j = n + 1
        <3>1. i \in 1..Len(order[o]) /\ order[o][i][1] = p
            BY <1>1, <1>2, <2>1, <2>2
        <3> QED
            BY <1>1, <1>2, <2>1, <2>2, <3>1, QueueFacts
    <2>3. CASE j \in 1..n
        <3>1. i \in 1..(j - 1) /\ i \in 1..n
            BY <1>2, <2>3
        <3>2. order[o][i][1] = p /\ order[o][j][1] = q
            BY <1>1, <2>1, <2>3, <3>1
        <3> QED
            BY <2>3, <3>2 DEF Before
    <2> QED
        BY <1>2, <2>1, <2>2, <2>3
<1>4. CASE o # ObjectOf[CurrentToken(r)]
    <2>1. order'[o] = order[o]
        BY <1>4, LookupQueue
    <2> QED
        BY <1>1, <2>1 DEF Before
<1> QED
    BY <1>3, <1>4

-----------------------------------------------------------------------------
(***************************************************************************)
(* The requests wait for each other in one order                           *)
(***************************************************************************)

LEMMA LastStep ==
    ASSUME IInv, LastInv, [Next]_vars
    PROVE  LastInv'
<1> SUFFICES ASSUME NEW q \in Requests, NEW r \in Requests, q # r,
                    phase'[q] \in {"idle", "scheduling"}, NEW o \in Objects, Before(o, q, r)'
             PROVE  FALSE
    BY DEF LastInv
<1>1. phase[q] \in {"idle", "scheduling"}
    BY DEF Next, RequestStep, TokenStep, ShutdownStep, Terminated, Call, Registered, Lookup, Publish, Run,
        Finish, Fail, OpenView, CloseView, Grant, ReleaseToken, Finalize, FinalizeAwait, FinalizeGet,
        Teardown, requestVars, shutdownVars, vars, IInv, TypeOK
<1>2. ~Before(o, q, r)
    BY <1>1 DEF LastInv
<1>3. CASE UNCHANGED order
    BY <1>2, <1>3 DEF Before
<1>4. ASSUME NEW p \in Requests, Lookup(p) PROVE FALSE
    <2>1. r = p /\ phase[q] # "idle"
        BY <1>2, <1>4, LookupBefore
    <2> QED
        BY <1>1, <1>4, <2>1 DEF Lookup, IInv, OneScheduler
<1> QED
    BY <1>3, <1>4, OrderFrame

LEMMA NoCircularWaitStep ==
    ASSUME IInv, LastInv, NoCircularWait, [Next]_vars
    PROVE  NoCircularWait'
<1> SUFFICES ASSUME NEW S \in (SUBSET Requests) \ {{}}
             PROVE  \E r \in S : \A q \in S \ {r} : \A o \in Objects : ~Before(o, q, r)'
    BY DEF NoCircularWait
<1>1. CASE UNCHANGED order
    <2>1. PICK r \in S : \A q \in S \ {r} : \A o \in Objects : ~Before(o, q, r)
        BY DEF NoCircularWait
    <2>2. \A q \in S \ {r} : \A o \in Objects : ~Before(o, q, r)'
        BY <1>1, <2>1 DEF Before
    <2> QED
        BY <2>2
<1>2. ASSUME NEW p \in Requests, Lookup(p)
      PROVE  \E r \in S : \A q \in S \ {r} : \A o \in Objects : ~Before(o, q, r)'
    <2>1. CASE S = {p}
        BY <2>1
    <2>2. CASE S # {p}
        <3>1. S \ {p} \in (SUBSET Requests) \ {{}}
            BY <2>2
        <3>2. PICK r \in S \ {p} : \A q \in (S \ {p}) \ {r} : \A o \in Objects : ~Before(o, q, r)
            BY <3>1 DEF NoCircularWait
        <3>3. \A o \in Objects : ~Before(o, p, r)
            BY <1>2, <3>2 DEF LastInv, Lookup
        <3>4. \A q \in S \ {r} : \A o \in Objects : ~Before(o, q, r)
            BY <3>2, <3>3
        <3>5. \A q \in S \ {r} : \A o \in Objects : ~Before(o, q, r)'
            BY <1>2, <3>2, <3>4, LookupBefore
        <3> QED
            BY <3>2, <3>5
    <2> QED
        BY <2>1, <2>2
<1> QED
    BY <1>1, <1>2, OrderFrame

\* As long as calls do not overlap the requests have an order in which none waits for
\* a later one, however many threads make them.
LEMMA NoCircularWaitInTurns == Spec /\ []OneScheduler => []NoCircularWait
<1>1. Init => LastInv /\ NoCircularWait
    <2> SUFFICES ASSUME Init PROVE LastInv /\ NoCircularWait
        OBVIOUS
    <2>1. \A q, r \in Requests : \A o \in Objects : ~Before(o, q, r)
        BY DEF Init, Before
    <2> QED
        BY <2>1 DEF LastInv, NoCircularWait
<1>2. IInv /\ LastInv /\ NoCircularWait /\ [Next]_vars => LastInv' /\ NoCircularWait'
    BY LastStep, NoCircularWaitStep
<1> QED
    BY <1>1, <1>2, InvInTurns, PTL DEF Spec

\* However kernels name their objects, the requests never wait for each other in a circle.
THEOREM NoCircularWaitCorrect == ASSUME SerialCallers PROVE Spec => []NoCircularWait
<1> QED
    BY NoCircularWaitInTurns, OneSchedulerCorrect, PTL

-----------------------------------------------------------------------------

\* One thread is enough but not necessary: any number of threads may call execute
\* and acquire_*_access if they take turns until the accesses are scheduled, and
\* finalize comes when none is scheduling.  A thread that waits for a view, a
\* kernel or a token does not have to keep the others from calling.
THEOREM TakingTurnsSuffices ==
    Spec /\ []OneScheduler =>
        /\ [](ExclusiveAccess /\ RunsInScheduleOrder /\ NoCircularWait /\ RepeatsHang)
        /\ ImplementsAccessQueue
        /\ ImplementsTokenLock
<1> QED
    BY InvInTurns, InvExclusive, InvOrdered, NoCircularWaitInTurns, RepeatsHangInTurns, RefinementInTurns, QueueIsLock,
        PTL

-----------------------------------------------------------------------------
(***************************************************************************)
(* Nothing pending is ever stuck                                           *)
(***************************************************************************)

LEMMA PublishedStep ==
    ASSUME IInv, PublishedInv, [Next]_vars
    PROVE  PublishedInv'
<1>1. CASE UNCHANGED <<slot, search, tok>>
    BY <1>1 DEF PublishedInv, CurrentToken
<1>2. ASSUME NEW r \in Requests, Lookup(r) PROVE PublishedInv'
    <2> DEFINE t == CurrentToken(r)
    <2>1. slot' = slot /\ phase[r] = "scheduling" /\ search[r] = "none"
        BY <1>2 DEF Lookup
    <2>2. t \in Tokens /\ \A q \in Requests : search[q] = "none"
        BY <1>2, LookupQueue
    <2>3. \A q \in Requests : q # r => search'[q] = "none"
        BY <1>2, <2>2 DEF Lookup, IInv, TypeOK
    <2>4. \A s \in Tokens : tok'[s] = tok[s] \/ tok'[s] = "waiting"
        BY <1>2, <2>2 DEF Lookup, IInv, TypeOK
    <2>5. search'[r] = "found" => tok'[t] = "waiting"
        BY <1>2, <2>1, <2>2 DEF Lookup, IInv, TypeOK
    <2>6. CurrentToken(r)' = t
        BY <2>1 DEF CurrentToken
    <2> QED
        BY <2>1, <2>3, <2>4, <2>5, <2>6 DEF PublishedInv
<1>3. ASSUME NEW r \in Requests, Publish(r) PROVE PublishedInv'
    <2> DEFINE t == CurrentToken(r)
    <2>1. phase[r] = "scheduling" /\ search[r] \in {"found", "missing"}
        BY <1>3 DEF Publish, IInv, TypeOK
    <2>2. t \in Tokens /\ t[1] = r /\ t[2] = slot[r] + 1 /\ slot[r] \in Nat
        BY <2>1, CurrentTokenFacts DEF IInv, TypeOK
    <2>3. \A q \in Requests : search'[q] = "none"
        BY <1>3, <2>1 DEF Publish, IInv, TypeOK, OneScheduler
    <2>4. \A s \in Tokens : tok'[s] = tok[s] \/ tok'[s] = "granted"
        BY <1>3, <2>2 DEF Publish, IInv, TypeOK
    <2>5. tok'[t] # "unused"
        BY <1>3, <2>1, <2>2 DEF Publish, IInv, TypeOK, PublishedInv
    <2>6. /\ \A q \in Requests : q # r => slot'[q] = slot[q]
          /\ slot'[r] = slot[r] + 1
        BY <1>3 DEF Publish, IInv, TypeOK
    <2>7. ASSUME NEW s \in Tokens, s[2] <= slot'[s[1]] PROVE tok'[s] # "unused"
        <3>1. s[1] \in Requests /\ s[2] \in Nat /\ s = <<s[1], s[2]>> /\ t = <<t[1], t[2]>>
            BY <2>2, TokenFacts
        <3>2. s = t \/ s[2] <= slot[s[1]]
            BY <2>2, <2>6, <2>7, <3>1
        <3> QED
            BY <2>4, <2>5, <3>2 DEF PublishedInv
    <2> QED
        BY <2>3, <2>7 DEF PublishedInv
<1>4. ASSUME NEW t \in Tokens, TokenStep(t) PROVE PublishedInv'
    <2>1. UNCHANGED <<slot, search>> /\ \A s \in Tokens : tok'[s] = tok[s] \/ tok'[s] # "unused"
        BY <1>4 DEF TokenStep, Grant, ReleaseToken, requestVars, IInv, TypeOK
    <2>2. \A q \in Requests : search[q] = "found" => CurrentToken(q) \in Tokens
        BY CurrentTokenFacts DEF IInv, TypeOK
    <2> QED
        BY <2>1, <2>2 DEF PublishedInv, CurrentToken
<1>5. (\E r \in Requests : Lookup(r) \/ Publish(r)) \/ (\E t \in Tokens : TokenStep(t))
        \/ UNCHANGED <<slot, search, tok>> \/ ~[Next]_vars
    BY DEF Next, RequestStep, ShutdownStep, Terminated, Call, Run, Finish, Fail, OpenView, CloseView,
        Finalize, FinalizeAwait, FinalizeGet, Teardown, requestVars, vars
<1> QED
    BY <1>1, <1>2, <1>3, <1>4, <1>5

\* A caller is free exactly if none of its requests is busy.
LEMMA FreeMeansNotBusy ==
    ASSUME SerialCallers, NEW r \in Requests
    PROVE  CallerFree(Caller[r]) <=> \A q \in Requests : ~Busy(q)
BY RequestsAssumption DEF SerialCallers, CallerFree, Busy

LEMMA CallStaysAlone ==
    ASSUME SerialCallers, IInv, CallInv, [Next]_vars
    PROVE  CallInv'
<1>1. ASSUME NEW r \in Requests, Call(r) PROVE CallInv'
    <2>1. \A q \in Requests : ~Busy(q)
        BY <1>1, FreeMeansNotBusy DEF Call
    <2>2. stage' = "up" /\ \A q \in Requests : q # r => phase'[q] = phase[q]
        BY <1>1 DEF Call, Registered, shutdownVars, IInv, TypeOK
    <2> QED
        BY <2>1, <2>2 DEF CallInv, Busy
<1>2. ASSUME NEW r \in Requests,
             Lookup(r) \/ Publish(r) \/ Run(r) \/ Finish(r) \/ Fail(r) \/ OpenView(r) \/ CloseView(r)
      PROVE  CallInv'
    <2>1. stage' = stage /\ \A q \in Requests : q # r => phase'[q] = phase[q]
        BY <1>2 DEF Lookup, Publish, Run, Finish, Fail, OpenView, CloseView, shutdownVars, IInv, TypeOK
    <2>2. Busy(r)' => Busy(r)
        BY <1>2 DEF Lookup, Publish, Run, Finish, Fail, OpenView, CloseView, Busy, IInv, TypeOK
    <2>3. \A q \in Requests : Busy(q)' => Busy(q)
        BY <2>1, <2>2 DEF Busy
    <2> QED
        BY <2>1, <2>3 DEF CallInv
<1>3. ASSUME NEW c \in Callers, Finalize(c) PROVE CallInv'
    <2>1. \A q \in Requests : ~Busy(q)
        BY <1>3 DEF Finalize, CallerFree, SerialCallers, Busy
    <2>2. phase' = phase
        BY <1>3 DEF Finalize, requestVars
    <2> QED
        BY <2>1, <2>2 DEF CallInv, Busy
<1>4. CASE UNCHANGED <<phase, stage>>
    BY <1>4 DEF CallInv, Busy
<1>5. ASSUME Teardown PROVE CallInv'
    BY <1>5 DEF Teardown, requestVars, CallInv, Busy
<1>6. \/ \E r \in Requests : RequestStep(r)
      \/ \E c \in Callers : Finalize(c)
      \/ UNCHANGED <<phase, stage>>
      \/ Teardown
    BY DEF Next, TokenStep, ShutdownStep, Terminated, Grant, ReleaseToken, FinalizeAwait, FinalizeGet,
        requestVars, shutdownVars, vars
<1> QED
    BY <1>1, <1>2, <1>3, <1>4, <1>5, <1>6 DEF RequestStep

\* One thread makes every call.
LEMMA SameCaller == ASSUME SerialCallers PROVE \A q, r \in Requests : Caller[q] = Caller[r]
<1> TAKE q, r \in Requests
<1>1. Caller[r] \in Callers
    BY RequestsAssumption
<1> QED
    BY <1>1 DEF SerialCallers

\* The token of a running view is the last of its queue when its thread asks for a
\* view that does not come to wait for it.
LEMMA HeldViewIsLast ==
    ASSUME SerialCallers, IInv, NEW r \in Views, ~BlocksOnItself(r), \A q \in Requests : ~Busy(q),
           NEW v \in Views, phase[v] = "running"
    PROVE  order[Accesses[v][1]][Len(order[Accesses[v][1]])] = <<v, 1>>
<1> DEFINE o == Accesses[v][1]
           n == Len(order[o])
           s == order[o][n]
<1>1. v \in Requests /\ <<v, 1>> \in Tokens /\ ObjectOf[<<v, 1>>] = o /\ o \in Objects
    BY ViewToken
<1>2. n \in Nat
    BY <1>1 DEF IInv, TypeOK
<1>3. tok[<<v, 1>>] = "granted"
    BY <1>1 DEF IInv, TypeOK, OwnerInv, Over
<1>4. PICK i \in 1..n : order[o][i] = <<v, 1>>
    BY <1>1, <1>3 DEF IInv, ChainInv, InQueue
<1>5. CASE i = n
    BY <1>4, <1>5
<1>6. CASE i # n
    <2>1. n \in 1..n /\ i \in 1..(n - 1)
        BY <1>2, <1>4, <1>6
    <2>2. s \in Tokens /\ ObjectOf[s] = o /\ s[1] \in Requests /\ phase[s[1]] # "idle"
        BY <1>1, <2>1, QueueFacts
    <2>3. tok[s] \notin {"granted", "released"}
        BY <1>1, <1>3, <1>4, <2>1 DEF IInv, PrefixInv
    <2>4. phase[s[1]] = "waiting" /\ s[1] \notin Views
        <3>1. phase[s[1]] \in Phases
            BY <2>2 DEF IInv, TypeOK
        <3>2. phase[s[1]] \notin {"running", "finished", "failed"}
            BY <2>2, <2>3 DEF IInv, OwnerInv
        <3>3. ~Busy(s[1])
            BY <2>2
        <3> QED
            BY <2>2, <3>1, <3>2, <3>3 DEF Phases, Busy
    <2>5. s[2] \in 1..Len(Accesses[s[1]]) /\ Accesses[s[1]][s[2]] = o
        BY <2>2, TokenFacts, TokenAccess
    <2>6. Caller[s[1]] = Caller[r] /\ Caller[v] = Caller[r]
        <3>1. r \in Requests /\ v \in Requests /\ s[1] \in Requests
            BY <1>1, <2>2, RequestsAssumption
        <3> QED
            BY <3>1, SameCaller
    <2>7. BlocksOnItself(r)
        BY <2>2, <2>4, <2>5, <2>6 DEF BlocksOnItself
    <2> QED
        BY <2>7
<1> QED
    BY <1>5, <1>6

LEMMA HeldStep ==
    ASSUME SerialCallers, SelfBlocking = FALSE, IInv, CallInv, HeldInv, [Next]_vars
    PROVE  HeldInv'
<1> SUFFICES ASSUME NEW v \in Views, phase'[v] = "running"
             PROVE  /\ stage' = "up"
                    /\ \A w \in Views : phase'[w] \in {"scheduling", "waiting"} =>
                        /\ Accesses[w][1] # Accesses[v][1]
                        /\ order'[Accesses[v][1]][Len(order'[Accesses[v][1]])] = <<v, 1>>
    BY DEF HeldInv
<1> DEFINE Goal == /\ stage' = "up"
                   /\ \A w \in Views : phase'[w] \in {"scheduling", "waiting"} =>
                        /\ Accesses[w][1] # Accesses[v][1]
                        /\ order'[Accesses[v][1]][Len(order'[Accesses[v][1]])] = <<v, 1>>
<1>0. Views \subseteq Requests
    BY RequestsAssumption
<1>1. ASSUME NEW r \in Requests, Call(r) PROVE Goal
    <2>1. /\ stage' = "up" /\ order' = order /\ phase[v] = "running"
          /\ \A q \in Requests : q # r => phase'[q] = phase[q]
        BY <1>0, <1>1 DEF Call, Registered, shutdownVars, graphVars, IInv, TypeOK
    <2>2. \A q \in Requests : ~Busy(q)
        BY <1>1, FreeMeansNotBusy DEF Call
    <2>3. ASSUME NEW w \in Views, phase'[w] \in {"scheduling", "waiting"}
          PROVE  /\ Accesses[w][1] # Accesses[v][1]
                 /\ order[Accesses[v][1]][Len(order[Accesses[v][1]])] = <<v, 1>>
        <3>1. w = r
            BY <1>0, <2>1, <2>2, <2>3 DEF Busy
        <3>2. ~BlocksOnItself(w)
            BY <1>1, <3>1 DEF Call
        <3>3. Caller[v] = Caller[w]
            BY <1>0, RequestsAssumption DEF SerialCallers
        <3>4. Accesses[w][1] # Accesses[v][1]
            BY <2>1, <3>2, <3>3 DEF BlocksOnItself
        <3> QED
            BY <2>1, <2>2, <3>2, <3>4, HeldViewIsLast
    <2> QED
        BY <2>1, <2>3
<1>2. ASSUME NEW r \in Requests, Lookup(r) PROVE Goal
    <2>1. phase' = phase /\ stage' = stage /\ phase[r] = "scheduling"
        BY <1>2 DEF Lookup, shutdownVars
    <2>2. ASSUME NEW w \in Views, phase'[w] \in {"scheduling", "waiting"}
          PROVE  /\ Accesses[w][1] # Accesses[v][1]
                 /\ order'[Accesses[v][1]][Len(order'[Accesses[v][1]])] = <<v, 1>>
        <3>1. Accesses[w][1] # Accesses[v][1] /\ order[Accesses[v][1]][Len(order[Accesses[v][1]])] = <<v, 1>>
            BY <2>1, <2>2 DEF HeldInv
        <3>2. w = r
            BY <1>0, <2>1, <2>2 DEF CallInv, Busy
        <3>3. CurrentToken(r) \in Tokens /\ CurrentToken(r)[1] = r
            BY <2>1, CurrentTokenFacts DEF IInv
        <3>4. ObjectOf[CurrentToken(r)] = Accesses[w][1]
            BY <3>2, <3>3, ViewToken
        <3>5. order'[Accesses[v][1]] = order[Accesses[v][1]]
            BY <1>2, <3>1, <3>4, ViewToken, LookupQueue
        <3> QED
            BY <3>1, <3>5
    <2> QED
        BY <2>1, <2>2 DEF HeldInv
<1>3. ASSUME NEW r \in Requests, OpenView(r) PROVE Goal
    <2>1. /\ stage' = stage /\ order' = order /\ phase[r] = "waiting" /\ phase'[r] = "running" /\ r \in Views
          /\ \A q \in Requests : q # r => phase'[q] = phase[q]
        BY <1>3 DEF OpenView, graphVars, shutdownVars, IInv, TypeOK
    <2>2. stage = "up" /\ \A q \in Requests : q # r => ~Busy(q)
        BY <2>1 DEF CallInv, Busy
    <2> QED
        BY <1>0, <2>1, <2>2 DEF Busy
<1>4. ASSUME NEW r \in Requests, Publish(r) \/ Run(r) \/ Finish(r) \/ Fail(r) \/ CloseView(r) PROVE Goal
    <2>1. /\ stage' = stage /\ order' = order
          /\ \A q \in Requests : q # r => phase'[q] = phase[q]
          /\ r \in Views => phase'[r] # "running"
          /\ r \in Views /\ phase'[r] \in {"scheduling", "waiting"} => phase[r] \in {"scheduling", "waiting"}
        BY <1>4 DEF Publish, Run, Finish, Fail, CloseView, graphVars, shutdownVars, IInv, TypeOK
    <2>2. phase[v] = "running"
        BY <1>0, <2>1
    <2>3. \A w \in Views : phase'[w] \in {"scheduling", "waiting"} => phase[w] \in {"scheduling", "waiting"}
        BY <1>0, <2>1
    <2> QED
        BY <2>1, <2>2, <2>3 DEF HeldInv
<1>5. CASE UNCHANGED <<phase, order, stage>>
    BY <1>5 DEF HeldInv
<1>6. ASSUME NEW c \in Callers, Finalize(c) PROVE Goal
    <2>1. phase'[v] = phase[v]
        BY <1>6 DEF Finalize, requestVars
    <2>2. HoldsView(c)
        BY <1>0, <2>1 DEF HoldsView, SerialCallers
    <2> QED
        BY <1>6, <2>2 DEF Finalize
<1>7. ASSUME Teardown PROVE Goal
    <2>1. phase'[v] = phase[v] /\ stage = "finalizing"
        BY <1>7 DEF Teardown, requestVars
    <2> QED
        BY <2>1 DEF HeldInv
<1>8. \/ \E r \in Requests : RequestStep(r)
      \/ \E c \in Callers : Finalize(c)
      \/ UNCHANGED <<phase, order, stage>>
      \/ Teardown
    BY DEF Next, TokenStep, ShutdownStep, Terminated, Grant, ReleaseToken, FinalizeAwait, FinalizeGet,
        requestVars, graphVars, shutdownVars, vars
<1> QED
    BY <1>1, <1>2, <1>3, <1>4, <1>5, <1>6, <1>7, <1>8 DEF RequestStep

\* A view that is open can be closed unless its thread waits for another view, which
\* then nobody who is queued behind the open one can be.
LEMMA OpenViewMoves ==
    ASSUME SerialCallers, IInv, HeldInv, ~CanMove, NEW v \in Views, phase[v] = "running"
    PROVE  /\ \E w \in Views : phase[w] = "waiting"
           /\ order[Accesses[v][1]][Len(order[Accesses[v][1]])] = <<v, 1>>
<1>1. v \in Requests
    BY RequestsAssumption
<1>2. stage = "up"
    BY DEF HeldInv
<1>3. ~CallerFree(Caller[v])
    BY <1>1, <1>2 DEF CanMove, Registered
<1>4. PICK w \in Requests : Busy(w)
    BY <1>1, <1>3, FreeMeansNotBusy
<1>5. w \in Views /\ phase[w] = "waiting"
    BY <1>4 DEF Busy, CanMove
<1> QED
    BY <1>5 DEF HeldInv

\* A kernel that runs moves.
LEMMA OnlyViewsRun ==
    ASSUME ~CanMove, NEW r \in Requests, phase[r] = "running"
    PROVE  r \in Views
BY DEF CanMove

LEMMA NotStuck ==
    ASSUME SerialCallers, DistinctObjects, IInv, NoCircularWait, PublishedInv, HeldInv
    PROVE  NeverStuck
<1> SUFFICES ASSUME Pending, ~CanMove PROVE FALSE
    BY DEF NeverStuck
<1> DEFINE W == {r \in Requests : phase[r] = "waiting"}
<1>1. \A r \in Requests : phase[r] # "scheduling"
    BY DEF CanMove
<1>2. CASE W = {}
    <2>1. \A r \in Requests : phase[r] # "running"
        BY <1>2, OnlyViewsRun, OpenViewMoves, RequestsAssumption
    <2>2. PICK t \in Tokens : tok[t] \in {"waiting", "granted"}
        BY <1>1, <1>2, <2>1 DEF Pending
    <2>3. t[1] \in Requests /\ phase[t[1]] # "idle"
        <3>1. InQueue(t)
            BY <2>2 DEF IInv, ChainInv
        <3>2. LookedUp(t)
            BY <3>1 DEF IInv, QueueInv
        <3> QED
            BY <3>2, TokenFacts DEF LookedUp, IInv, TypeOK
    <2>4. Over(t[1])
        BY <1>1, <1>2, <2>1, <2>3 DEF Over, IInv, TypeOK, Phases
    <2> QED
        BY <2>2, <2>3, <2>4 DEF IInv, OwnerInv, Over, CanMove
<1>3. CASE W # {}
    <2>1. W \in (SUBSET Requests) \ {{}}
        BY <1>3
    <2>2. PICK r \in W : \A q \in W \ {r} : \A o \in Objects : ~Before(o, q, r)
        BY <2>1 DEF NoCircularWait
    <2>3. PICK k \in 1..Len(Accesses[r]) : tok[<<r, k>>] # "granted"
        BY <2>2 DEF CanMove, AllGranted
    <2> DEFINE t == <<r, k>>
               o == ObjectOf[t]
    <2>4. t \in Tokens /\ t[1] = r /\ t[2] = k /\ o \in Objects
        BY <2>2, TokenFacts
    <2>5. tok[t] = "waiting"
        <3>1. slot[r] = Len(Accesses[r])
            BY <2>2 DEF IInv, OwnerInv
        <3>2. t[2] <= slot[t[1]]
            BY <2>2, <2>4, <3>1, TokenFacts
        <3>3. tok[t] # "unused"
            BY <2>4, <3>2 DEF PublishedInv
        <3>4. tok[t] # "released"
            BY <2>2, <2>4 DEF IInv, OwnerInv, Over
        <3> QED
            BY <2>3, <2>4, <3>3, <3>4 DEF IInv, TypeOK, TokenStates
    <2>6. PICK j \in 1..Len(order[o]) : order[o][j] = t
        BY <2>4, <2>5 DEF IInv, ChainInv, InQueue
    <2> DEFINE s == order[o][j - 1]
               q == s[1]
    <2>7. Len(order[o]) \in Nat /\ j # 1 /\ pred[t] = s
        <3>1. pred[t] # None /\ Len(order[o]) \in Nat
            BY <2>4, <2>5 DEF IInv, TypeOK, ChainInv
        <3>2. pred[order[o][j]] = IF j = 1 THEN None ELSE order[o][j - 1]
            BY <2>4 DEF IInv, ChainInv
        <3> QED
            BY <2>6, <3>1, <3>2
    <2>8. j - 1 \in 1..Len(order[o]) /\ j - 1 \in 1..(j - 1)
        BY <2>7
    <2>9. s \in Tokens /\ ObjectOf[s] = o /\ q \in Requests /\ phase[q] # "idle"
        BY <2>4, <2>8, QueueFacts
    <2>10. tok[s] # "released"
        BY <2>4, <2>5, <2>7 DEF CanMove
    <2>11. q # r
        <3> SUFFICES ASSUME q = r PROVE FALSE
            OBVIOUS
        <3>1. /\ s[2] \in 1..Len(Accesses[r]) /\ s = <<r, s[2]>>
              /\ Accesses[r][s[2]] = o
            BY <2>9, TokenFacts, TokenAccess
        <3>2. Accesses[r][k] = o
            BY <2>4, TokenAccess
        <3>3. s[2] = k
            BY <2>2, <3>1, <3>2 DEF DistinctObjects
        <3>4. order[o][j - 1] = order[o][j]
            BY <2>6, <3>1, <3>3
        <3>5. j - 1 = j
            BY <2>4, <2>8, <3>4 DEF IInv, QueueInv
        <3> QED
            BY <2>7, <3>5
    <2>12. phase[q] # "waiting"
        <3>1. Before(o, q, r)
            BY <2>4, <2>6, <2>8 DEF Before
        <3> QED
            BY <2>2, <2>4, <2>9, <2>11, <3>1
    <2>13. ~Over(q)
        BY <2>9, <2>10 DEF IInv, OwnerInv, Over, CanMove
    <2>14. phase[q] = "running" /\ q \in Views
        BY <1>1, <2>9, <2>12, <2>13, OnlyViewsRun DEF Over, IInv, TypeOK, Phases
    <2>15. s = <<q, 1>> /\ Accesses[q][1] = o
        BY <2>9, <2>14, ViewToken
    <2>16. order[o][Len(order[o])] = s
        BY <2>14, <2>15, OpenViewMoves
    <2>17. Len(order[o]) = j - 1
        BY <2>4, <2>7, <2>8, <2>16 DEF IInv, QueueInv
    <2> QED
        BY <2>7, <2>17
<1> QED
    BY <1>2, <1>3

\* The runtime is never deadlocked, if one thread makes the calls, no kernel names
\* an object twice and no view is asked for that waits for one its thread holds.
THEOREM NeverStuckCorrect ==
    ASSUME SerialCallers, DistinctObjects, SelfBlocking = FALSE
    PROVE  Spec => []NeverStuck
<1>1. Init => PublishedInv /\ CallInv /\ HeldInv
    BY TokenFacts, RequestsAssumption DEF Init, PublishedInv, CallInv, Busy, HeldInv
<1>2. IInv /\ PublishedInv /\ CallInv /\ HeldInv /\ [Next]_vars => PublishedInv' /\ CallInv' /\ HeldInv'
    BY PublishedStep, CallStaysAlone, HeldStep
<1>3. IInv /\ NoCircularWait /\ PublishedInv /\ HeldInv => NeverStuck
    BY NotStuck
<1> QED
    BY <1>1, <1>2, <1>3, InvCorrect, NoCircularWaitCorrect, PTL DEF Spec

=============================================================================
