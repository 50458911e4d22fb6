----------------------------- MODULE AudioProofs -----------------------------
(***************************************************************************)
(* Proofs about Audio for every set of modems, length of their queues and  *)
(* number of calls: the list of bound threads holds the active threads and *)
(* none that has ended.                                                    *)
(***************************************************************************)
EXTENDS AudioProperties, SequenceTheorems, TLAPS

TypeInv ==
  /\ phase \in [Modems -> {"new", "setup", "bound", "ready", "unbind", "end", "crashed"}]
  /\ boundThreads \in Seq(Modems)
  /\ active \in [Modems -> BOOLEAN]
  /\ call \in [Callers -> [pc : {"idle", "return", "lock", "find", "switch"},
                           modem : Modems \cup {"none"}, state : BOOLEAN]]
  /\ \A c \in Callers : call[c].pc # "idle" => call[c].modem \in Modems
  /\ stopping \subseteq Modems \cup {"C"}
  /\ left = {"run"} \/ left \subseteq Modems
  /\ early \subseteq Modems

\* A thread is in the list once: bindThread looks for it first.
OnceInv ==
  \A i, j \in DOMAIN boundThreads : boundThreads[i] = boundThreads[j] => i = j

\* Nothing ends before terminateAll, and from then on threads are only
\* switched off, by main.
TerminateInv ==
  /\ \A m \in Modems :
       m \in stopping \/ phase[m] \in {"unbind", "end", "crashed"} => left # {"run"}
  /\ call["main"].pc # "idle" => left # {"run"}
  /\ left # {"run"} => \A c \in Callers : call[c].pc # "idle" => c = "main" /\ ~call[c].state

\* Active threads are bound, but for those switched on early.
BoundInv ==
  /\ EndedIsUnbound
  /\ \A m \in Modems :
       active[m] /\ m \notin early /\ phase[m] \notin {"end", "crashed"} => m \in Bound

AudioInv == TypeInv /\ OnceInv /\ TerminateInv /\ BoundInv

-----------------------------------------------------------------------------
\* What bindThread does to the list: it is a set kept in order.
LEMMA BindFacts ==
  ASSUME TypeInv, OnceInv, NEW m \in Modems, boundThreads' = BindThread(m)
  PROVE  boundThreads' \in Seq(Modems) /\ OnceInv' /\ Bound' = Bound \cup {m}
<1>1. CASE m \in Bound
  BY <1>1 DEF BindThread, Bound, OnceInv, TypeInv
<1>2. CASE m \notin Bound
  <2>1. /\ boundThreads' \in Seq(Modems)
        /\ Len(boundThreads') = Len(boundThreads) + 1
        /\ \A i \in 1..Len(boundThreads) : boundThreads'[i] = boundThreads[i]
        /\ boundThreads'[Len(boundThreads) + 1] = m
    BY <1>2, AppendProperties DEF BindThread, TypeInv
  <2>2. /\ DOMAIN boundThreads = 1..Len(boundThreads) /\ Len(boundThreads) \in Nat
        /\ DOMAIN boundThreads' = 1..(Len(boundThreads) + 1)
    BY <2>1 DEF TypeInv
  <2>3. Bound' = Bound \cup {m}
    <3>1. ASSUME NEW n \in Bound' PROVE n \in Bound \cup {m}
      BY <2>1, <2>2 DEF Bound
    <3>2. ASSUME NEW n \in Bound PROVE n \in Bound'
      BY <2>1, <2>2 DEF Bound
    <3>3. m \in Bound'
      BY <2>1, <2>2 DEF Bound
    <3>4. QED
      BY <3>1, <3>2, <3>3
  <2>4. OnceInv'
    <3>1. ASSUME NEW i \in DOMAIN boundThreads', NEW j \in DOMAIN boundThreads',
                 boundThreads'[i] = boundThreads'[j], i # j
          PROVE  FALSE
      <4>1. \A k \in 1..Len(boundThreads) : boundThreads[k] # m
        BY <1>2, <2>2 DEF Bound
      <4>2. i # Len(boundThreads) + 1 /\ j # Len(boundThreads) + 1
        BY <2>1, <2>2, <3>1, <4>1
      <4>3. QED
        BY <2>1, <2>2, <3>1, <4>2 DEF OnceInv
    <3>2. QED
      BY <3>1 DEF OnceInv
  <2>5. QED
    BY <2>1, <2>3, <2>4
<1>3. QED
  BY <1>1, <1>2

\* What removeThread does to it.
LEMMA RemoveFacts ==
  ASSUME TypeInv, OnceInv, NEW m \in Modems, boundThreads' = RemoveThread(m)
  PROVE  boundThreads' \in Seq(Modems) /\ OnceInv' /\ Bound' = Bound \ {m}
<1>1. CASE m \notin Bound
  BY <1>1 DEF RemoveThread, Bound, OnceInv, TypeInv
<1>2. CASE m \in Bound
  <2> DEFINE at == CHOOSE i \in DOMAIN boundThreads : boundThreads[i] = m
             last == Len(boundThreads) - 1
             from(i) == IF i < at THEN i ELSE i + 1
  <2>1. /\ DOMAIN boundThreads = 1..Len(boundThreads) /\ Len(boundThreads) \in Nat
        /\ \A i \in 1..Len(boundThreads) : boundThreads[i] \in Modems
    BY DEF TypeInv
  <2>2. at \in 1..Len(boundThreads) /\ boundThreads[at] = m
    <3>1. \E i \in DOMAIN boundThreads : boundThreads[i] = m
      BY <1>2 DEF Bound
    <3>2. QED
      BY <2>1, <3>1
  <2> HIDE DEF at
  <2>3. boundThreads' = [i \in 1..last |-> boundThreads[from(i)]]
    BY <1>2 DEF RemoveThread, at
  <2>4. \A i \in 1..last : from(i) \in 1..Len(boundThreads) /\ from(i) # at
    BY <2>1, <2>2
  <2>5. last \in Nat
    BY <2>1, <2>2
  <2>6. boundThreads' \in Seq(Modems) /\ DOMAIN boundThreads' = 1..last
    <3>1. \A i \in 1..last : boundThreads'[i] \in Modems
      BY <2>1, <2>3, <2>4
    <3>2. QED
      BY <2>3, <2>5, <3>1
  <2>7. Bound' = Bound \ {m}
    <3>1. ASSUME NEW n \in Bound' PROVE n \in Bound \ {m}
      <4>1. PICK i \in 1..last : boundThreads'[i] = n
        BY <2>6, <3>1 DEF Bound
      <4>2. boundThreads[from(i)] = n /\ from(i) \in 1..Len(boundThreads) /\ from(i) # at
        BY <2>3, <2>4, <4>1
      <4>3. n # m
        BY <2>1, <2>2, <4>2 DEF OnceInv
      <4>4. QED
        BY <2>1, <4>2, <4>3 DEF Bound
    <3>2. ASSUME NEW n \in Bound \ {m} PROVE n \in Bound'
      <4>1. PICK i \in 1..Len(boundThreads) : boundThreads[i] = n
        BY <2>1, <3>2 DEF Bound
      <4>2. i # at
        BY <2>2, <3>2, <4>1
      <4>3. PICK k \in 1..last : from(k) = i
        <5>1. CASE i < at
          <6>1. i \in 1..last /\ from(i) = i
            BY <2>1, <2>2, <5>1
          <6>2. QED
            BY <6>1
        <5>2. CASE i > at
          <6>1. i - 1 \in 1..last /\ from(i - 1) = i
            BY <2>1, <2>2, <5>2
          <6>2. QED
            BY <6>1
        <5>3. QED
          BY <2>1, <2>2, <4>2, <5>1, <5>2
      <4>4. boundThreads'[k] = n
        BY <2>3, <4>1, <4>3
      <4>5. QED
        BY <2>6, <4>4 DEF Bound
    <3>3. QED
      BY <3>1, <3>2
  <2>8. OnceInv'
    <3>1. ASSUME NEW i \in 1..last, NEW j \in 1..last, boundThreads'[i] = boundThreads'[j]
          PROVE  i = j
      <4>1. boundThreads[from(i)] = boundThreads[from(j)]
        BY <2>3, <3>1
      <4>2. from(i) = from(j)
        BY <2>1, <2>4, <4>1 DEF OnceInv
      <4>3. at \in Int /\ i \in Int /\ j \in Int
        BY <2>2
      <4>4. QED
        BY <4>2, <4>3
    <3>2. QED
      BY <2>6, <3>1 DEF OnceInv
  <2>9. QED
    BY <2>6, <2>7, <2>8
<1>3. QED
  BY <1>1, <1>2

\* The list stays one, without repetitions.
LEMMA ListStep ==
  ASSUME TypeInv, OnceInv, [Next]_vars
  PROVE  boundThreads' \in Seq(Modems) /\ OnceInv'
<1>1. ASSUME NEW m \in Modems, Bind(m)
      PROVE  boundThreads' \in Seq(Modems) /\ OnceInv'
  <2>1. boundThreads' = BindThread(m)
    BY <1>1 DEF Bind
  <2>2. QED
    BY <2>1, BindFacts
<1>2. ASSUME NEW m \in Modems, Unbind(m)
      PROVE  boundThreads' \in Seq(Modems) /\ OnceInv'
  <2>1. boundThreads' = RemoveThread(m)
    BY <1>2 DEF Unbind
  <2>2. QED
    BY <2>1, RemoveFacts
<1>3. ASSUME NEW c \in Callers, SwitchThread(c)
      PROVE  boundThreads' \in Seq(Modems) /\ OnceInv'
  <2> DEFINE m == call[c].modem
             s == call[c].state
  <2>1. m \in Modems
    BY <1>3 DEF SwitchThread, TypeInv
  <2>2. CASE boundThreads' = BindThread(m)
    BY <2>1, <2>2, BindFacts
  <2>3. CASE boundThreads' = RemoveThread(m)
    BY <2>1, <2>3, RemoveFacts
  <2>4. CASE boundThreads' = boundThreads
    BY <2>4 DEF TypeInv, OnceInv
  <2>5. boundThreads' = Relist(m, s)
    BY <1>3 DEF SwitchThread
  <2>6. QED
    BY <2>2, <2>3, <2>4, <2>5 DEF Relist
<1>4. CASE OpenStream \/ CloseStream \/ AudioCallback \/ Mix \/ CallbackReturns
  BY <1>4 DEF TypeInv, OnceInv, OpenStream, CloseStream, AudioCallback, Mix,
         CallbackReturns
<1>5. CASE TerminateAll \/ DeleteThread \/ DeviceCleanup \/ DeleteController
  BY <1>5 DEF TypeInv, OnceInv, TerminateAll, DeleteThread, DeviceCleanup,
         DeleteController
<1>6. ASSUME NEW m \in Modems,
        SetupDevice(m) \/ SetInputQueue(m) \/ Leave(m) \/ Receive(m)
      PROVE  boundThreads' \in Seq(Modems) /\ OnceInv'
  BY <1>6 DEF TypeInv, OnceInv, SetupDevice, SetInputQueue, Leave, Receive
<1>7. ASSUME NEW c \in Callers,
        SetActive(c) \/ LockThread(c) \/ FindController(c) \/ Return(c)
      PROVE  boundThreads' \in Seq(Modems) /\ OnceInv'
  BY <1>7 DEF TypeInv, OnceInv, SetActive, LockThread, FindController, Return
<1>8. CASE UNCHANGED vars
  BY <1>8 DEF TypeInv, OnceInv, vars
<1>9. QED
  BY <1>1, <1>2, <1>3, <1>4, <1>5, <1>6, <1>7, <1>8
  DEF Next, ThreadNext, CallbackNext, CallNext, MainNext

\* Types, but for the list.
LEMMA TypeInvStep ==
  ASSUME TypeInv, OnceInv, [Next]_vars
  PROVE  TypeInv'
<1> USE ListStep DEF TypeInv, Idle, Switches, Moves, threads
<1>1. CASE DeleteThread
  <2>1. PICK m \in left : Switches("main", m, FALSE) /\ left' = left \ {m}
    BY <1>1 DEF DeleteThread
  <2>2. m \in Modems
    BY <1>1, AudioAssumption DEF DeleteThread
  <2>3. left' \subseteq Modems
    BY <1>1, <2>1 DEF DeleteThread
  <2>4. QED
    BY <1>1, <2>1, <2>2, <2>3 DEF DeleteThread, Callers
<1>2. ASSUME NEW c \in Callers, SetActive(c)
      PROVE  TypeInv'
  BY <1>2 DEF SetActive
<1>3. ASSUME NEW c \in Callers, LockThread(c)
      PROVE  TypeInv'
  BY <1>3 DEF LockThread
<1>4. ASSUME NEW c \in Callers, FindController(c)
      PROVE  TypeInv'
  <2>1. call[c].pc = "find" /\ (Moves(c, "return") \/ Moves(c, "switch"))
    BY <1>4 DEF FindController
  <2>2. UNCHANGED <<threads, boundThreads, active, early>>
    BY <1>4 DEF FindController
  <2>3. CASE Moves(c, "return")
    BY <2>1, <2>2, <2>3
  <2>4. CASE Moves(c, "switch")
    BY <2>1, <2>2, <2>4
  <2>5. QED
    BY <2>1, <2>3, <2>4
<1>5. ASSUME NEW c \in Callers, SwitchThread(c)
      PROVE  TypeInv'
  <2> DEFINE m == call[c].modem
             s == call[c].state
  <2>1. /\ call[c].pc = "switch" /\ Moves(c, "return")
        /\ active' = [active EXCEPT ![m] = s]
        /\ early' = IF s /\ ~active[m] /\ ~HasQueue(m) THEN early \cup {m} ELSE early
    BY <1>5 DEF SwitchThread
  <2>2. UNCHANGED threads
    BY <1>5 DEF SwitchThread
  <2>3. active' \in [Modems -> BOOLEAN] /\ early' \subseteq Modems
    BY <2>1
  <2>4. QED
    BY <2>1, <2>2, <2>3
<1>6. ASSUME NEW c \in Callers, Return(c)
      PROVE  TypeInv'
  BY <1>6 DEF Return
<1>7. CASE OpenStream \/ CloseStream \/ AudioCallback \/ Mix
  BY <1>7 DEF OpenStream, CloseStream, AudioCallback, Mix
<1>8. CASE CallbackReturns \/ TerminateAll \/ DeviceCleanup \/ DeleteController
  BY <1>8 DEF CallbackReturns, TerminateAll, DeviceCleanup, DeleteController
<1>9. ASSUME NEW m \in Modems, SetupDevice(m) \/ Bind(m) \/ SetInputQueue(m)
      PROVE  TypeInv'
  BY <1>9 DEF SetupDevice, Bind, SetInputQueue
<1>10. ASSUME NEW m \in Modems, Leave(m) \/ Unbind(m) \/ Receive(m)
      PROVE  TypeInv'
  BY <1>10 DEF Leave, Unbind, Receive
<1>11. CASE UNCHANGED vars
  BY <1>11 DEF vars
<1>12. QED
  BY <1>1, <1>2, <1>3, <1>4, <1>5, <1>6, <1>7, <1>8, <1>9, <1>10, <1>11
  DEF Next, ThreadNext, CallbackNext, CallNext, MainNext

\* Threads leave, and modems are switched off for good, once main terminates
\* them; by then nobody else calls.
LEMMA TerminateInvStep ==
  ASSUME TypeInv, TerminateInv, [Next]_vars
  PROVE  TerminateInv'
<1> USE AudioAssumption DEF TypeInv, TerminateInv, Callers, Idle, Switches, Moves,
        threads
<1>1. ASSUME NEW m \in Modems, Leave(m)
      PROVE  TerminateInv'
  BY <1>1 DEF Leave
<1>2. ASSUME NEW m \in Modems, Unbind(m)
      PROVE  TerminateInv'
  BY <1>2 DEF Unbind
<1>3. CASE TerminateAll
  BY <1>3 DEF TerminateAll
<1>4. CASE DeleteThread
  <2>1. PICK m \in left : Switches("main", m, FALSE) /\ left' = left \ {m}
    BY <1>4 DEF DeleteThread
  <2>2. left' # {"run"}
    BY <1>4, <2>1 DEF DeleteThread
  <2>3. \A c \in Callers : call[c].pc # "idle" => c = "main"
    BY <1>4 DEF DeleteThread
  <2>4. /\ \A c \in Callers : c # "main" => call'[c] = call[c]
        /\ ~call'["main"].state
    BY <2>1
  <2>5. \A n \in Modems :
          n \in stopping' \/ phase'[n] \in {"unbind", "end", "crashed"} => left' # {"run"}
    BY <2>2
  <2>6. QED
    BY <2>2, <2>3, <2>4, <2>5
<1>5. ASSUME NEW c \in Callers, SetActive(c)
      PROVE  TerminateInv'
  BY <1>5 DEF SetActive
<1>6. ASSUME NEW c \in Callers, LockThread(c)
      PROVE  TerminateInv'
  BY <1>6 DEF LockThread
<1>7. ASSUME NEW c \in Callers, FindController(c)
      PROVE  TerminateInv'
  BY <1>7 DEF FindController
<1>8. ASSUME NEW c \in Callers, SwitchThread(c)
      PROVE  TerminateInv'
  BY <1>8 DEF SwitchThread
<1>9. ASSUME NEW c \in Callers, Return(c)
      PROVE  TerminateInv'
  BY <1>9 DEF Return
<1>10. CASE OpenStream \/ CloseStream \/ AudioCallback
  BY <1>10 DEF OpenStream, CloseStream, AudioCallback
<1>11. CASE Mix \/ CallbackReturns \/ DeviceCleanup
  BY <1>11 DEF Mix, CallbackReturns, DeviceCleanup
<1>12. CASE DeleteController
  BY <1>12 DEF DeleteController
<1>13. ASSUME NEW m \in Modems, SetupDevice(m) \/ Bind(m)
      PROVE  TerminateInv'
  BY <1>13 DEF SetupDevice, Bind
<1>14. ASSUME NEW m \in Modems, SetInputQueue(m) \/ Receive(m)
      PROVE  TerminateInv'
  BY <1>14 DEF SetInputQueue, Receive
<1>15. CASE UNCHANGED vars
  BY <1>15 DEF vars
<1>16. QED
  BY <1>1, <1>2, <1>3, <1>4, <1>5, <1>6, <1>7, <1>8, <1>9, <1>10, <1>11, <1>12,
     <1>13, <1>14, <1>15
  DEF Next, ThreadNext, CallbackNext, CallNext, MainNext

\* Active threads are bound and ended ones are not.
LEMMA BoundInvStep ==
  ASSUME TypeInv, OnceInv, TerminateInv, BoundInv, [Next]_vars
  PROVE  BoundInv'
<1>1. ASSUME NEW m \in Modems, Bind(m)
      PROVE  BoundInv'
  <2>1. Bound' = Bound \cup {m}
    BY <1>1, BindFacts DEF Bind
  <2>2. QED
    BY <1>1, <2>1 DEF TypeInv, BoundInv, EndedIsUnbound, Bind
<1>2. ASSUME NEW m \in Modems, Leave(m)
      PROVE  BoundInv'
  BY <1>2 DEF TypeInv, BoundInv, EndedIsUnbound, Bound, threads, Leave
<1>3. ASSUME NEW m \in Modems, Unbind(m)
      PROVE  BoundInv'
  <2>1. Bound' = Bound \ {m}
    BY <1>3, RemoveFacts DEF Unbind
  <2>2. QED
    BY <1>3, <2>1 DEF TypeInv, BoundInv, EndedIsUnbound, Unbind
<1>4. CASE DeleteThread
  BY <1>4 DEF TypeInv, BoundInv, EndedIsUnbound, Bound, threads, DeleteThread
<1>5. ASSUME NEW c \in Callers, SwitchThread(c)
      PROVE  BoundInv'
  <2> DEFINE m == call[c].modem
             s == call[c].state
  <2>1. /\ call[c].pc = "switch" /\ m \in Modems /\ s \in BOOLEAN
        /\ boundThreads' = Relist(m, s) /\ active' = [active EXCEPT ![m] = s]
        /\ early' = IF s /\ ~active[m] /\ ~HasQueue(m) THEN early \cup {m} ELSE early
        /\ phase' = phase
    BY <1>5 DEF SwitchThread, TypeInv, threads
  <2>2. CASE s /\ ~active[m] /\ HasQueue(m)
    <3>1. Bound' = Bound \cup {m}
      BY <2>1, <2>2, BindFacts DEF Relist
    \* Not terminated yet, it has not ended.
    <3>2. phase[m] # "end"
      BY <2>1, <2>2 DEF TerminateInv
    <3>3. QED
      BY <2>1, <2>2, <3>1, <3>2 DEF BoundInv, EndedIsUnbound, TypeInv
  <2>3. CASE ~s /\ active[m]
    <3>1. Bound' = Bound \ {m}
      BY <2>1, <2>3, RemoveFacts DEF Relist
    <3>2. QED
      BY <2>1, <2>3, <3>1 DEF BoundInv, EndedIsUnbound, TypeInv
  <2>4. CASE ~(s /\ ~active[m] /\ HasQueue(m)) /\ ~(~s /\ active[m])
    <3>1. Bound' = Bound
      BY <2>1, <2>4 DEF Relist, Bound
    <3>2. QED
      BY <2>1, <2>4, <3>1 DEF BoundInv, EndedIsUnbound, TypeInv
  <2>5. QED
    BY <2>2, <2>3, <2>4
<1>6. CASE OpenStream \/ CloseStream \/ AudioCallback \/ Mix
  BY <1>6 DEF TypeInv, BoundInv, EndedIsUnbound, Bound, threads, OpenStream,
         CloseStream, AudioCallback, Mix
<1>7. CASE CallbackReturns \/ TerminateAll \/ DeviceCleanup \/ DeleteController
  BY <1>7 DEF TypeInv, BoundInv, EndedIsUnbound, Bound, threads, CallbackReturns,
         TerminateAll,
         DeviceCleanup, DeleteController
<1>8. ASSUME NEW m \in Modems, SetupDevice(m) \/ SetInputQueue(m) \/ Receive(m)
      PROVE  BoundInv'
  BY <1>8 DEF TypeInv, BoundInv, EndedIsUnbound, Bound, threads, SetupDevice,
         SetInputQueue, Receive
<1>9. ASSUME NEW c \in Callers,
        SetActive(c) \/ LockThread(c) \/ FindController(c) \/ Return(c)
      PROVE  BoundInv'
  BY <1>9 DEF TypeInv, BoundInv, EndedIsUnbound, Bound, threads, SetActive,
         LockThread, FindController, Return
<1>10. CASE UNCHANGED vars
  BY <1>10 DEF TypeInv, BoundInv, EndedIsUnbound, Bound, threads, vars
<1>11. QED
  BY <1>1, <1>2, <1>3, <1>4, <1>5, <1>6, <1>7, <1>8, <1>9, <1>10
  DEF Next, ThreadNext, CallbackNext, CallNext, MainNext

\* No thread is bound, active or ended at first.
LEMMA InitInv == Init => AudioInv
<1> SUFFICES ASSUME Init PROVE AudioInv
  OBVIOUS
<1>1. TypeInv
  BY DEF Init, TypeInv, Idle
<1>2. DOMAIN boundThreads = {}
  BY DEF Init
<1>3. OnceInv /\ BoundInv
  BY <1>2 DEF Init, OnceInv, BoundInv, EndedIsUnbound, Bound
<1>4. TerminateInv
  BY DEF Init, TerminateInv, Callers, Idle
<1>5. QED
  BY <1>1, <1>3, <1>4 DEF AudioInv

\* Every step keeps the invariant.
LEMMA NextInv == AudioInv /\ [Next]_vars => AudioInv'
  BY ListStep, TypeInvStep, TerminateInvStep, BoundInvStep DEF AudioInv

-----------------------------------------------------------------------------
\* The list agrees with what the threads do at every step of the threads,
\* the callback, the post thread, the scanner and main.
THEOREM AudioInvariant == Spec => []AudioInv
  BY InitInv, NextInv, PTL DEF Spec

\* A thread that has ended is in no list: setActive cannot bind it again,
\* since only main calls then, to switch off (DemodulatorMgr::terminateAll).
THEOREM EndedNotBound == Spec => []EndedIsUnbound
<1>1. AudioInv => EndedIsUnbound
  BY DEF AudioInv, BoundInv
<1>2. QED
  BY <1>1, AudioInvariant, PTL

\* A modem whose audio is active is mixed (AudioThread::setActive,
\* AudioThread::setupDevice), unless it was switched on early.
THEOREM ActiveBound == Spec => []ActiveIsBound
<1>1. AudioInv => ActiveIsBound
  BY DEF AudioInv, BoundInv, ActiveIsBound
<1>2. QED
  BY <1>1, AudioInvariant, PTL

=============================================================================
