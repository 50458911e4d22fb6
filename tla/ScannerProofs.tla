--------------------------- MODULE ScannerProofs ---------------------------
(***************************************************************************)
(* Proofs about ScannerSM for every database, every set of callers' ids    *)
(* and every bound.  IndInv is inductive; the invariants follow from it.   *)
(***************************************************************************)
EXTENDS ScannerProperties, TLAPS

\* The constructors build entries, and their fields are what they say.
LEMMA EntryFacts ==
  /\ \A c \in Channels : /\ Chan(c) \in Entries
                         /\ Chan(c).kind = "channel" /\ Chan(c).id = c
  /\ \A f \in Freqs \cup Channels : /\ Manual(f) \in Entries
                                    /\ Manual(f).kind = "manual" /\ Manual(f).id = f
  /\ Dummy \in Entries /\ Dummy.kind = "dummy" /\ Dummy.id = NoId
  /\ NoEntry \in Entries /\ NoEntry.kind = "null" /\ NoEntry.id = NoId
  /\ \A e \in Entries : /\ e.kind \in {"channel", "manual", "dummy", "null"}
                        /\ e.id \in Channels \cup Freqs \cup {NoId}
                        /\ e.kind = "channel" => e.id \in Channels
                        /\ e.kind = "manual" => e.id \in Channels \cup Freqs
                        /\ e.kind = "dummy" => e = Dummy
                        /\ e.kind = "null" => e = NoEntry
<1>1. \A c \in Channels : /\ Chan(c) \in Entries
                           /\ Chan(c).kind = "channel" /\ Chan(c).id = c
  BY DEF Entries, Chan
<1>2. \A f \in Freqs \cup Channels : /\ Manual(f) \in Entries
                                      /\ Manual(f).kind = "manual" /\ Manual(f).id = f
  BY DEF Entries, Manual
<1>3. /\ Dummy \in Entries /\ Dummy.kind = "dummy" /\ Dummy.id = NoId
      /\ NoEntry \in Entries /\ NoEntry.kind = "null" /\ NoEntry.id = NoId
  BY DEF Entries, Dummy, NoEntry
<1>4. ASSUME NEW e \in Entries
      PROVE  /\ e.kind \in {"channel", "manual", "dummy", "null"}
             /\ e.id \in Channels \cup Freqs \cup {NoId}
             /\ e.kind = "channel" => e.id \in Channels
             /\ e.kind = "manual" => e.id \in Channels \cup Freqs
             /\ e.kind = "dummy" => e = Dummy
             /\ e.kind = "null" => e = NoEntry
  <2>1. CASE \E c \in Channels : e = Chan(c)
    BY <2>1, <1>1
  <2>2. CASE \E f \in Freqs \cup Channels : e = Manual(f)
    BY <2>2, <1>2
  <2>3. CASE e = Dummy \/ e = NoEntry
    BY <2>3, <1>3
  <2> QED
    BY <2>1, <2>2, <2>3 DEF Entries
<1> QED
  BY <1>1, <1>2, <1>3, <1>4

\* The bounds are naturals.
LEMMA BoundFacts == /\ TriggerHits \in Nat /\ TriggerHits > 0
                    /\ MaxRequests \in Nat /\ MaxBoots \in Nat
  BY ScannerAssumption

\* Idle is a call record, the initial context a context.
LEMMA RecordFacts == Idle \in Calls /\ NoContext \in Contexts /\ Scanning \in SavedStates
  BY DEF Idle, Calls, NoContext, Contexts, Scanning, SavedStates, Ops, States, Ignored

\* The initial states satisfy the inductive invariant.
LEMMA InitIndInv == Init => IndInv
<1> SUFFICES ASSUME Init PROVE IndInv
  OBVIOUS
<1> USE DEF Init, Booted, Started
<1>1. EngineType
  BY DEF EngineType, States, Labels
<1>2. ScanType
  <2>1. currentEntry \in Entries /\ published \in Contexts
    BY EntryFacts, RecordFacts
  <2>2. squelchHits \in 0..TriggerHits
    BY BoundFacts
  <2> QED
    BY <2>1, <2>2 DEF ScanType, Indexes, Ignored
<1>3. SystemType /\ call \in [Callers -> Calls]
  <2>1. db \in Databases /\ saved \in SavedStates /\ file \in SavedStates
    BY InitialAssumption
  <2>2. requests \in 0..MaxRequests /\ boots \in 0..MaxBoots
    BY BoundFacts
  <2>3. call \in [Callers -> Calls]
    BY RecordFacts
  <2> QED
    BY <2>1, <2>2, <2>3 DEF SystemType
<1>4. EngineOK
  BY EntryFacts DEF EngineOK, Receiving
<1>5. CallsOK
  BY DEF CallsOK, CallOK, Idle
<1>6. OnlyCurrentModemOpen /\ ReceivesRealEntry /\ HeardIsShown
  BY DEF OnlyCurrentModemOpen, ReceivesRealEntry, HeardIsShown, Receiving
<1>7. ManualIsHeld /\ DataBelongsToManual
  BY DEF ManualIsHeld, DataBelongsToManual
<1> QED
  BY <1>1, <1>2, <1>3, <1>4, <1>5, <1>6, <1>7 DEF IndInv, TypeOK

\* Replacing one caller's record by one that is right keeps all of them right.
LEMMA CallUpdate ==
  ASSUME call \in [Callers -> Calls], CallsOK, NEW c \in Callers,
         NEW r \in Calls, CallOK(r), call' = [call EXCEPT ![c] = r]
  PROVE  CallsOK' /\ (call \in [Callers -> Calls])'
<1>1. \A d \in Callers : call'[d] = IF d = c THEN r ELSE call[d]
  OBVIOUS
<1>2. (call \in [Callers -> Calls])'
  OBVIOUS
<1>3. \A d \in Callers : CallOK(call'[d])
  BY <1>1 DEF CallsOK
<1> QED
  BY <1>2, <1>3 DEF CallsOK

\* The invariants about the engine do not look at the callers or at main.
LEMMA EngineFrame ==
  ASSUME IndInv, UNCHANGED <<smVars, scanVars>>
  PROVE  /\ EngineType' /\ ScanType' /\ EngineOK'
         /\ OnlyCurrentModemOpen' /\ ReceivesRealEntry' /\ HeardIsShown'
         /\ ManualIsHeld' /\ DataBelongsToManual'
  BY DEF IndInv, TypeOK, EngineType, ScanType, EngineOK, OnlyCurrentModemOpen,
     ReceivesRealEntry, HeardIsShown, ManualIsHeld, DataBelongsToManual,
     Receiving, Shown, ModemOf, smVars, scanVars, holdVars, entryVars, timeVars,
     ctxVars, demodVars

\* startScan and manualEntry begin, and so do main's calls of them.
LEMMA BeginCallStep ==
  ASSUME IndInv, NEW c \in Callers, NEW op \in {"startScan", "manualEntry", "stopScanner"},
         NEW arg \in Ids \cup {NoId}, op = "manualEntry" => arg \in Ids,
         BeginCall(c, op, arg)
  PROVE  CallsOK' /\ (call \in [Callers -> Calls])'
<1> DEFINE r == [pc |-> "lookup", op |-> op, arg |-> arg, target |-> Ignored]
<1>1. r \in Calls
  BY DEF Calls, Ops
<1>2. CallOK(r)
  BY DEF CallOK
<1>3. call' = [call EXCEPT ![c] = r]
  BY DEF BeginCall
<1> HIDE DEF r
<1> QED
  BY <1>1, <1>2, <1>3, CallUpdate DEF IndInv, TypeOK

\* holdScan begins: its record is a call that will store an index.
LEMMA BeginHoldStep ==
  ASSUME IndInv, NEW c \in Callers, NEW index \in Indexes, BeginHold(c, index)
  PROVE  CallsOK' /\ (call \in [Callers -> Calls])'
<1> DEFINE r == [pc |-> "index", op |-> "holdScan", arg |-> index, target |-> Ignored]
<1>1. r \in Calls
  BY DEF Calls, Ops, Indexes, Ids
<1>2. CallOK(r)
  BY DEF CallOK
<1>3. call' = [call EXCEPT ![c] = r]
  BY DEF BeginHold
<1> HIDE DEF r
<1> QED
  BY <1>1, <1>2, <1>3, CallUpdate DEF IndInv, TypeOK

\* A client asks for a scan or a manual frequency.
LEMMA RequestStep ==
  ASSUME IndInv, NEW c \in Clients, RequestScan(c) \/ RequestManual(c)
  PROVE  IndInv'
<1>1. c \in Callers
  BY DEF Clients
<1>2. CallsOK' /\ (call \in [Callers -> Calls])'
  <2>1. CASE RequestScan(c)
    BY <2>1, <1>1, BeginCallStep DEF RequestScan
  <2>2. CASE RequestManual(c)
    <3> PICK f \in Freqs : BeginCall(c, "manualEntry", f)
      BY <2>2 DEF RequestManual
    <3> QED
      BY <1>1, BeginCallStep DEF Ids
  <2> QED
    BY <2>1, <2>2
<1>3. SystemType'
  BY BoundFacts DEF IndInv, TypeOK, SystemType, RequestScan, RequestManual, MayRequest
<1>4. UNCHANGED <<smVars, scanVars>>
  BY DEF RequestScan, RequestManual
<1> QED
  BY <1>2, <1>3, <1>4, EngineFrame DEF IndInv, TypeOK

\* Setting _externalHold disturbs nothing the engine relies on.
LEMMA HoldStoreFrame ==
  ASSUME IndInv, externalHold' = TRUE,
         UNCHANGED <<smVars, holdIndex, entryVars, timeVars, ctxVars, demodVars>>
  PROVE  /\ EngineType' /\ ScanType' /\ EngineOK'
         /\ OnlyCurrentModemOpen' /\ ReceivesRealEntry' /\ HeardIsShown'
         /\ ManualIsHeld' /\ DataBelongsToManual'
  BY DEF IndInv, TypeOK, EngineType, ScanType, EngineOK, OnlyCurrentModemOpen,
     ReceivesRealEntry, HeardIsShown, ManualIsHeld, DataBelongsToManual,
     Receiving, Shown, ModemOf, smVars, entryVars, timeVars, ctxVars, demodVars

\* A client asks for a hold: _externalHold is stored before the map is read.
LEMMA RequestHoldStep ==
  ASSUME IndInv, NEW c \in Clients, RequestHold(c)
  PROVE  IndInv'
<1>1. c \in Callers
  BY DEF Clients
<1> PICK index \in Indexes : BeginHold(c, index)
  BY DEF RequestHold
<1>2. CallsOK' /\ (call \in [Callers -> Calls])'
  BY <1>1, BeginHoldStep
<1>3. SystemType'
  BY BoundFacts DEF IndInv, TypeOK, SystemType, RequestHold, MayRequest
<1>4. /\ externalHold' = TRUE
      /\ UNCHANGED <<smVars, holdIndex, entryVars, timeVars, ctxVars, demodVars>>
  BY DEF RequestHold, BeginHold
<1> QED
  BY <1>2, <1>3, <1>4, HoldStoreFrame DEF IndInv, TypeOK

\* holdScan stores _holdIndex.
LEMMA StoreHoldIndexStep ==
  ASSUME IndInv, NEW c \in Callers, StoreHoldIndex(c)
  PROVE  IndInv'
<1> DEFINE r == [call[c] EXCEPT !.pc = "lookup"]
<1>1. call[c] \in Calls /\ CallOK(call[c])
  BY DEF IndInv, TypeOK, CallsOK
<1>2. r \in Calls /\ CallOK(r) /\ call[c].arg \in Indexes
  BY <1>1 DEF Calls, CallOK, StoreHoldIndex
<1>3. call' = [call EXCEPT ![c] = r]
  BY DEF StoreHoldIndex
<1>4. CallsOK' /\ (call \in [Callers -> Calls])'
  <2> HIDE DEF r
  <2> QED
    BY <1>2, <1>3, CallUpdate DEF IndInv, TypeOK
<1>5. EngineType' /\ SystemType'
  BY DEF IndInv, TypeOK, EngineType, SystemType, StoreHoldIndex, smVars, sysVars, lifeVars
<1>6. ScanType'
  BY <1>2 DEF IndInv, TypeOK, ScanType, StoreHoldIndex, entryVars, timeVars,
     ctxVars, demodVars
<1>7. /\ EngineOK' /\ OnlyCurrentModemOpen' /\ ReceivesRealEntry' /\ HeardIsShown'
      /\ ManualIsHeld' /\ DataBelongsToManual'
  BY DEF StoreHoldIndex, IndInv, EngineOK, OnlyCurrentModemOpen,
     ReceivesRealEntry, HeardIsShown, ManualIsHeld, DataBelongsToManual,
     Receiving, Shown, ModemOf, smVars, entryVars, timeVars, ctxVars, demodVars
<1> QED
  BY <1>4, <1>5, <1>6, <1>7 DEF IndInv, TypeOK

\* What a transition map answers.
LEMMA TransitionFacts ==
  ASSUME NEW op \in Ops, NEW s \in States, TRANSITIONS[op][s] # Ignored
  PROVE  /\ TRANSITIONS[op][s] \in {"SCAN", "HOLD", "MANUAL", "SAVEALL"}
         /\ TRANSITIONS[op][s] = "MANUAL" <=> op = "manualEntry"
         /\ s \in {"SAVEALL", "STOPPED"} => TRANSITIONS[op][s] = "SAVEALL"
<1>1. CASE op = "startScan"
  BY <1>1 DEF TRANSITIONS, AcceptsScan
<1>2. CASE op = "holdScan"
  BY <1>2 DEF TRANSITIONS, AcceptsHold
<1>3. CASE op = "stopScanner"
  BY <1>3 DEF TRANSITIONS, AcceptsStop
<1>4. CASE op = "manualEntry"
  BY <1>4 DEF TRANSITIONS, AcceptsManual
<1> QED
  BY <1>1, <1>2, <1>3, <1>4 DEF Ops

\* A caller reads the transition map: a target it may post, or nothing.
LEMMA CallerLookupStep ==
  ASSUME IndInv, NEW c \in Callers, CallerLookup(c)
  PROVE  IndInv'
<1> DEFINE target == TRANSITIONS[call[c].op][currentState]
           looked == [call[c] EXCEPT !.pc = "post", !.target = target]
<1>1. call[c] \in Calls /\ CallOK(call[c]) /\ currentState \in States
  BY DEF IndInv, TypeOK, CallsOK, EngineType
<1>2. ASSUME target # Ignored PROVE looked \in Calls /\ CallOK(looked)
  <2>1. call[c].op \in Ops
    BY <1>1 DEF Calls
  <2>2. /\ target \in {"SCAN", "HOLD", "MANUAL", "SAVEALL"}
        /\ target = "MANUAL" <=> call[c].op = "manualEntry"
    BY <2>1, <1>1, <1>2, TransitionFacts
  <2> HIDE DEF target
  <2>3. looked \in Calls
    BY <2>2, <1>1 DEF Calls, States
  <2>4. CallOK(looked)
    BY <2>2, <1>1 DEF Calls, CallOK
  <2> QED
    BY <2>3, <2>4
<1>3. Idle \in Calls /\ CallOK(Idle)
  BY RecordFacts DEF CallOK, Idle
<1>4. call' = [call EXCEPT ![c] = IF target = Ignored THEN Idle ELSE looked]
  BY DEF CallerLookup
<1>5. CallsOK' /\ (call \in [Callers -> Calls])'
  <2> HIDE DEF looked, target
  <2> DEFINE r == IF target = Ignored THEN Idle ELSE looked
  <2>1. r \in Calls /\ CallOK(r)
    BY <1>2, <1>3
  <2> HIDE DEF r
  <2> QED
    BY <2>1, <1>4, CallUpdate DEF IndInv, TypeOK, r
<1>6. SystemType' /\ UNCHANGED <<smVars, scanVars>>
  BY DEF IndInv, TypeOK, SystemType, CallerLookup, sysVars, lifeVars
<1> QED
  BY <1>5, <1>6, EngineFrame DEF IndInv, TypeOK

\* A caller posts: whatever was pending is replaced, by data and state that fit.
LEMMA CallerPostStep ==
  ASSUME IndInv, NEW c \in Callers, CallerPost(c)
  PROVE  IndInv'
<1>1. call[c] \in Calls /\ CallOK(call[c]) /\ call[c].pc = "post"
  BY DEF IndInv, TypeOK, CallsOK, CallerPost
<1> DEFINE target == call[c].target
           data == IF call[c].op = "manualEntry" THEN call[c].arg ELSE NoData
<1>2. /\ target \in {"SCAN", "HOLD", "MANUAL", "SAVEALL"}
      /\ data \in Ids \cup {NoData}
      /\ data # NoData <=> target = "MANUAL"
  BY <1>1, ScannerAssumption DEF CallOK, Ids
<1>3. /\ MutexFree /\ pEventData' = data /\ eventGenerated' = TRUE
      /\ lastState' = currentState /\ currentState' = target
      /\ evtSrcExternal' = TRUE /\ UNCHANGED <<run, engine, scanVars, sysVars>>
      /\ call' = [call EXCEPT ![c] = Idle]
  BY DEF CallerPost, ExternalEvent, InternalEvent
<1> HIDE DEF target, data
<1>4. CallsOK' /\ (call \in [Callers -> Calls])'
  <2>1. Idle \in Calls /\ CallOK(Idle)
    BY RecordFacts DEF CallOK, Idle
  <2> QED
    BY <2>1, <1>3, CallUpdate DEF IndInv, TypeOK
<1>5. EngineType' /\ SystemType'
  BY <1>2, <1>3 DEF IndInv, TypeOK, EngineType, SystemType, sysVars, lifeVars, States
<1>6. ScanType'
  BY <1>3 DEF IndInv, TypeOK, ScanType, scanVars, holdVars, entryVars,
     timeVars, ctxVars, demodVars
<1>7. ~Receiving' /\ engine' \in {"wait", "done"}
  BY <1>2, <1>3 DEF Receiving, MutexFree
<1>8. EngineOK'
  BY <1>3, <1>7 DEF IndInv, EngineOK, scanVars, holdVars, entryVars, demodVars, Real
<1>9. OnlyCurrentModemOpen' /\ ReceivesRealEntry' /\ HeardIsShown' /\ ManualIsHeld'
  BY <1>3, <1>7 DEF IndInv, OnlyCurrentModemOpen, ReceivesRealEntry,
     HeardIsShown, ManualIsHeld, scanVars, holdVars, entryVars, ctxVars, demodVars
<1>10. DataBelongsToManual'
  BY <1>2, <1>3 DEF DataBelongsToManual
<1> QED
  BY <1>4, <1>5, <1>6, <1>8, <1>9, <1>10 DEF IndInv, TypeOK

\* main calls startScanner with the saved mode.
LEMMA MainStartStep == ASSUME IndInv, MainStart PROVE IndInv'
<1>0. "main" \in Callers /\ saved \in SavedStates /\ db \in Databases
  BY DEF Callers, IndInv, TypeOK, SystemType
<1>1. SystemType'
  BY DEF IndInv, TypeOK, SystemType, MainStart
<1>2. CASE saved.mode = "HOLD" /\ saved.id \in db.channels /\ BeginHold("main", saved.id)
           /\ UNCHANGED smVars
  <2>1. saved.id \in Indexes
    BY <1>0, <1>2 DEF Databases, Indexes
  <2>2. CallsOK' /\ (call \in [Callers -> Calls])'
    BY <2>1, <1>0, <1>2, BeginHoldStep
  <2>3. /\ externalHold' = TRUE
        /\ UNCHANGED <<smVars, holdIndex, entryVars, timeVars, ctxVars, demodVars>>
    BY <1>2 DEF MainStart, BeginHold, entryVars, timeVars, ctxVars, demodVars
  <2> QED
    BY <1>1, <2>2, <2>3, HoldStoreFrame DEF IndInv, TypeOK
<1>3. CASE /\ \/ BeginCall("main", "startScan", NoId)
              \/ saved.mode = "MANUAL" /\ BeginCall("main", "manualEntry", saved.id)
              \/ UNCHANGED call
           /\ UNCHANGED <<smVars, externalHold>>
  <2>1. saved.mode = "MANUAL" => saved.id \in Ids
    BY <1>0 DEF SavedStates, Scanning, Ids
  <2>2. CallsOK' /\ (call \in [Callers -> Calls])'
    <3>1. CASE BeginCall("main", "startScan", NoId)
      BY <3>1, <1>0, BeginCallStep
    <3>2. CASE saved.mode = "MANUAL" /\ BeginCall("main", "manualEntry", saved.id)
      BY <3>2, <2>1, <1>0, BeginCallStep
    <3>3. CASE UNCHANGED call
      BY <3>3 DEF IndInv, TypeOK, CallsOK
    <3> QED
      BY <1>3, <3>1, <3>2, <3>3
  <2>3. UNCHANGED <<smVars, scanVars>>
    BY <1>3 DEF MainStart, scanVars, holdVars, entryVars, timeVars, ctxVars, demodVars
  <2> QED
    BY <1>1, <2>2, <2>3, EngineFrame DEF IndInv, TypeOK
<1>4. CASE /\ engine' = "crashed"
           /\ UNCHANGED <<currentState, lastState, evtSrcExternal, eventGenerated,
                          pEventData, run, externalHold, call>>
  <2>1. UNCHANGED scanVars
    BY <1>4 DEF MainStart, scanVars, holdVars, entryVars, timeVars, ctxVars, demodVars
  <2>2. CallsOK' /\ (call \in [Callers -> Calls])'
    BY <1>4 DEF IndInv, TypeOK, CallsOK
  <2>3. EngineType' /\ ScanType'
    BY <1>4, <2>1 DEF IndInv, TypeOK, EngineType, Labels, ScanType, scanVars,
       holdVars, entryVars, timeVars, ctxVars, demodVars
  <2>4. EngineOK' /\ OnlyCurrentModemOpen' /\ ReceivesRealEntry' /\ HeardIsShown'
    BY <1>4, <2>1 DEF IndInv, EngineOK, OnlyCurrentModemOpen, ReceivesRealEntry,
       HeardIsShown, Receiving, Real, scanVars, holdVars, entryVars, ctxVars, demodVars
  <2>5. ManualIsHeld' /\ DataBelongsToManual'
    BY <1>4, <2>1 DEF IndInv, ManualIsHeld, DataBelongsToManual, scanVars,
       holdVars, entryVars
  <2> QED
    BY <1>1, <2>2, <2>3, <2>4, <2>5 DEF IndInv, TypeOK
<1> QED
  BY <1>2, <1>3, <1>4 DEF MainStart

\* The other steps of main touch neither the engine nor, but for stopScanner,
\* the calls.
LEMMA MainStep2 ==
  ASSUME IndInv, MainRunning \/ MainStop \/ MainSave
  PROVE  IndInv'
<1>1. CallsOK' /\ (call \in [Callers -> Calls])'
  <2>1. CASE MainStop
    BY <2>1, BeginCallStep DEF MainStop, Callers
  <2>2. CASE MainRunning \/ MainSave
    BY <2>2 DEF MainRunning, MainSave, IndInv, TypeOK, CallsOK
  <2> QED
    BY <2>1, <2>2
<1>2. SystemType'
  BY DEF IndInv, TypeOK, SystemType, MainRunning, MainStop, MainSave
<1>3. UNCHANGED <<smVars, scanVars>>
  BY DEF MainRunning, MainStop, MainSave
<1> QED
  BY <1>1, <1>2, <1>3, EngineFrame DEF IndInv, TypeOK

\* A restart is a new initial state, whatever was going on.
LEMMA RebootStep == ASSUME IndInv, Reboot PROVE IndInv'
<1> USE DEF Reboot, StartEngine, InternalEvent
<1>1. EngineType'
  BY DEF EngineType, States, Labels
<1>2. ScanType'
  <2>1. (currentEntry \in Entries)' /\ (published \in Contexts)'
    BY EntryFacts, RecordFacts
  <2>2. (squelchHits \in 0..TriggerHits)'
    BY BoundFacts
  <2> QED
    BY <2>1, <2>2 DEF ScanType, Indexes, Ignored
<1>3. SystemType'
  <2>1. (boots \in 0..MaxBoots)' /\ (requests \in 0..MaxRequests)'
    BY BoundFacts DEF IndInv, TypeOK, SystemType
  <2> QED
    BY <2>1 DEF IndInv, TypeOK, SystemType
<1>4. CallsOK' /\ (call \in [Callers -> Calls])'
  BY RecordFacts DEF CallsOK, CallOK, Idle
<1>5. EngineOK'
  BY EntryFacts DEF EngineOK, Receiving
<1>6. OnlyCurrentModemOpen' /\ ReceivesRealEntry' /\ HeardIsShown'
  BY DEF OnlyCurrentModemOpen, ReceivesRealEntry, HeardIsShown, Receiving
<1>7. ManualIsHeld' /\ DataBelongsToManual'
  BY DEF ManualIsHeld, DataBelongsToManual
<1> QED
  BY <1>1, <1>2, <1>3, <1>4, <1>5, <1>6, <1>7 DEF IndInv, TypeOK

\* The clock does not disturb the engine.
LEMMA DelayExpiresStep == ASSUME IndInv, DelayExpires PROVE IndInv'
<1>1. EngineType' /\ SystemType' /\ CallsOK' /\ (call \in [Callers -> Calls])'
  BY DEF IndInv, TypeOK, EngineType, SystemType, CallsOK, DelayExpires, smVars,
     sysVars, lifeVars
<1>2. ScanType'
  BY DEF IndInv, TypeOK, ScanType, DelayExpires, holdVars, entryVars, ctxVars, demodVars
<1>3. EngineOK' /\ OnlyCurrentModemOpen' /\ ReceivesRealEntry' /\ HeardIsShown'
  BY DEF IndInv, EngineOK, OnlyCurrentModemOpen, ReceivesRealEntry, HeardIsShown,
     Receiving, Shown, ModemOf, DelayExpires, smVars, holdVars, entryVars, ctxVars,
     demodVars
<1>4. ManualIsHeld' /\ DataBelongsToManual'
  BY DEF IndInv, ManualIsHeld, DataBelongsToManual, DelayExpires, smVars, holdVars,
     entryVars
<1> QED
  BY <1>1, <1>2, <1>3, <1>4 DEF IndInv, TypeOK

-----------------------------------------------------------------------------
(* The state functions.                                                    *)

\* The functions that change neither the calls nor, but for the two flags of
\* Synchronizable and the saved state, the system.
LEMMA EngineKeepsSystem ==
  ASSUME IndInv,
         \/ ST_Load \/ ST_ScanEmpty \/ ST_ScanBegin \/ ST_ScanEnd
         \/ ST_HoldBegin \/ ST_HoldLost \/ ST_HoldDecide \/ ST_HoldEnd
         \/ ST_ReceiveBegin \/ ST_ReceiveEnd
         \/ ST_Manual \/ ST_ManualFault \/ ST_SaveAllFault \/ ST_Stopped
  PROVE  SystemType' /\ CallsOK' /\ (call \in [Callers -> Calls])'
<1>1. UNCHANGED <<db, file, boots, saved, phase, requests, call>>
  BY DEF ST_Load, ST_ScanEmpty, ST_ScanBegin, ST_ScanEnd, ST_HoldBegin, ST_HoldLost,
     ST_HoldDecide, ST_HoldEnd, ST_ReceiveBegin, ST_ReceiveEnd, ST_Manual,
     ST_ManualFault, ST_SaveAllFault, ST_Stopped, sysVars, lifeVars
<1>2. ready' \in BOOLEAN /\ deinit' \in BOOLEAN
  BY DEF IndInv, TypeOK, SystemType, ST_Load, ST_ScanEmpty, ST_ScanBegin, ST_ScanEnd,
     ST_HoldBegin, ST_HoldLost, ST_HoldDecide, ST_HoldEnd, ST_ReceiveBegin,
     ST_ReceiveEnd, ST_Manual, ST_ManualFault, ST_SaveAllFault, ST_Stopped,
     sysVars, lifeVars
<1> QED
  BY <1>1, <1>2 DEF IndInv, TypeOK, SystemType, CallsOK

\* A function that returns without touching the scanner's own variables.
LEMMA ReturnStep ==
  ASSUME IndInv, UNCHANGED scanVars, engine = "wait",
         \/ ReturnParked /\ currentState # "RECEIVE"
         \/ ReturnStopped
         \/ \E s \in {"STOPPED", "MANUAL"} :
              ReturnPosting(currentState, s, IF s = "MANUAL" THEN RawData ELSE NoData)
  PROVE  /\ EngineType' /\ ScanType' /\ EngineOK'
         /\ OnlyCurrentModemOpen' /\ ReceivesRealEntry' /\ HeardIsShown'
         /\ ManualIsHeld' /\ DataBelongsToManual'
<1> USE DEF ReturnParked, ReturnStopped, ReturnPosting, InternalEvent
<1>1. EngineType' /\ ~Receiving' /\ engine' \in {"wait", "done"}
  BY DEF IndInv, TypeOK, EngineType, States, Labels, Receiving
<1>2. ScanType'
  BY DEF IndInv, TypeOK, ScanType, scanVars, holdVars, entryVars, timeVars, ctxVars,
     demodVars
<1>3. EngineOK'
  BY <1>1 DEF IndInv, EngineOK, Real, scanVars, holdVars, entryVars, demodVars
<1>4. OnlyCurrentModemOpen' /\ ReceivesRealEntry' /\ HeardIsShown' /\ ManualIsHeld'
  BY <1>1 DEF IndInv, OnlyCurrentModemOpen, ReceivesRealEntry, HeardIsShown,
     ManualIsHeld, scanVars, holdVars, entryVars, ctxVars, demodVars
<1>5. DataBelongsToManual'
  BY ScannerAssumption DEF DataBelongsToManual
<1> QED
  BY <1>1, <1>2, <1>3, <1>4, <1>5

\* ST_Load and ST_Stopped only move the engine and Synchronizable's flags.
LEMMA LoadStep == ASSUME IndInv, ST_Load \/ ST_Stopped PROVE IndInv'
<1>1. /\ UNCHANGED scanVars /\ engine = "wait"
      /\ (ReturnParked /\ currentState # "RECEIVE") \/ ReturnStopped
  BY DEF ST_Load, ST_Stopped, EventTaken
<1> QED
  BY <1>1, ReturnStep, EngineKeepsSystem DEF IndInv, TypeOK

\* A fault: the thread stops where it is.
LEMMA FaultStep ==
  ASSUME IndInv, ST_HoldLost \/ ST_ManualFault \/ ST_SaveAllFault
  PROVE  IndInv'
<1>1. /\ UNCHANGED <<currentState, lastState, evtSrcExternal, run, scanVars>>
      /\ engine' \in {"crashed", "hung"} /\ eventGenerated' = FALSE /\ pEventData' = NoData
  BY DEF ST_HoldLost, ST_ManualFault, ST_SaveAllFault, EnterStateFunction
<1>2. EngineType' /\ ~Receiving'
  BY <1>1 DEF IndInv, TypeOK, EngineType, Labels, Receiving
<1>3. ScanType'
  BY <1>1 DEF IndInv, TypeOK, ScanType, scanVars, holdVars, entryVars, timeVars, ctxVars,
     demodVars
<1>4. EngineOK'
  BY <1>1, <1>2 DEF IndInv, EngineOK, Real, scanVars, holdVars, entryVars, demodVars
<1>5. OnlyCurrentModemOpen' /\ ReceivesRealEntry' /\ HeardIsShown' /\ ManualIsHeld'
  BY <1>1, <1>2 DEF IndInv, OnlyCurrentModemOpen, ReceivesRealEntry, HeardIsShown,
     ManualIsHeld, scanVars, holdVars, entryVars, ctxVars, demodVars
<1>6. DataBelongsToManual'
  BY <1>1 DEF DataBelongsToManual
<1> QED
  BY <1>2, <1>3, <1>4, <1>5, <1>6, EngineKeepsSystem DEF IndInv, TypeOK

\* ST_SaveAll records a state the next process can restore.
LEMMA SaveAllStep == ASSUME IndInv, ST_SaveAll PROVE IndInv'
<1>1. UNCHANGED scanVars /\ engine = "wait"
      /\ ReturnPosting(currentState, "STOPPED", NoData)
  BY DEF ST_SaveAll, EventTaken
<1>2. CallsOK' /\ (call \in [Callers -> Calls])'
  BY DEF IndInv, TypeOK, CallsOK, ST_SaveAll
<1>3. SavedMode \in SavedStates
  <2>1. currentEntry \in Entries /\ (manualMode => Real(currentEntry))
    BY DEF IndInv, TypeOK, ScanType, EngineOK
  <2>2. manualMode => currentEntry.id \in Freqs \cup Channels
    BY <2>1, EntryFacts DEF Real
  <2>3. currentEntry.kind = "channel" => currentEntry.id \in Channels
    BY <2>1, EntryFacts
  <2> QED
    BY <2>2, <2>3 DEF SavedMode, SavedStates
<1>4. SystemType'
  BY <1>3 DEF IndInv, TypeOK, SystemType, ST_SaveAll
<1> QED
  BY <1>1, <1>2, <1>4, ReturnStep DEF IndInv, TypeOK

\* ST_Scan with an empty database asks for manual entry.
LEMMA ScanEmptyStep == ASSUME IndInv, ST_ScanEmpty PROVE IndInv'
<1> USE DEF ST_ScanEmpty, ReturnPosting, InternalEvent
<1>1. EngineType' /\ ~Receiving' /\ engine' = "wait"
  BY DEF IndInv, TypeOK, EngineType, States, Labels, Receiving
<1>2. squelchHits' \in {0, squelchHits}
  OBVIOUS
<1>3. ScanType'
  <2>1. squelchHits' \in 0..TriggerHits
    BY <1>2, BoundFacts DEF IndInv, TypeOK, ScanType
  <2> QED
    BY <2>1 DEF IndInv, TypeOK, ScanType, holdVars, timeVars, ctxVars, demodVars
<1>4. EngineOK'
  BY <1>1, <1>2 DEF IndInv, EngineOK, Real, holdVars, demodVars
<1>5. OnlyCurrentModemOpen' /\ ReceivesRealEntry' /\ HeardIsShown' /\ ManualIsHeld'
  BY <1>1 DEF IndInv, OnlyCurrentModemOpen, ReceivesRealEntry, HeardIsShown,
     ManualIsHeld, holdVars, ctxVars, demodVars
<1>6. DataBelongsToManual'
  BY ScannerAssumption DEF DataBelongsToManual
<1> QED
  BY <1>1, <1>3, <1>4, <1>5, <1>6, EngineKeepsSystem DEF IndInv, TypeOK

\* getNextEntry returns an unlocked channel or a retune dummy.
LEMMA NextEntryFacts ==
  ASSUME IndInv, NEW e \in NextEntries
  PROVE  e \in Entries /\ e # NoEntry /\ (e # Dummy => Real(e))
<1>1. db.channels \subseteq Channels
  BY DEF IndInv, TypeOK, SystemType, Databases
<1>2. CASE e = Dummy
  BY <1>2, EntryFacts
<1>3. CASE \E c \in db.channels \ db.locked : e = Chan(c)
  BY <1>1, <1>3, EntryFacts DEF Real
<1> QED
  BY <1>2, <1>3 DEF NextEntries

\* Muting the current modem closes all audio; a context is well formed.
LEMMA MuteFacts ==
  ASSUME IndInv, SquelchBreak(FALSE)
  PROVE  openModems' = {}
  BY DEF IndInv, OnlyCurrentModemOpen, SquelchBreak

\* ST_Scan mutes, publishes the scan and selects an entry.
LEMMA ScanBeginStep == ASSUME IndInv, ST_ScanBegin PROVE IndInv'
<1>1. openModems' = {}
  BY MuteFacts DEF ST_ScanBegin
<1>2. /\ engine' \in {"scan", "hung"} /\ eventGenerated' = FALSE /\ pEventData' = NoData
      /\ UNCHANGED <<currentState, lastState, evtSrcExternal, run>>
      /\ currentState = "SCAN"
  BY DEF ST_ScanBegin, EnterStateFunction, EventTaken
<1>3. EngineType' /\ ~Receiving'
  BY <1>2 DEF IndInv, TypeOK, EngineType, Labels, Receiving
<1>4. squelchHits' \in {0, squelchHits}
  BY DEF ST_ScanBegin
<1>5. /\ currentEntry' \in Entries /\ (engine' = "scan" => currentEntry' # NoEntry)
      /\ squelchHits' # 0 => currentEntry' # NoEntry
  <2>1. CASE squelchHits' # 0
    BY <2>1, <1>4 DEF ST_ScanBegin, IndInv, TypeOK, ScanType, EngineOK
  <2>2. CASE squelchHits' = 0 /\ NextEntryHangs
    BY <2>2 DEF ST_ScanBegin, EnterStateFunction, IndInv, TypeOK, ScanType
  <2>3. CASE squelchHits' = 0 /\ ~NextEntryHangs
    BY <2>3, NextEntryFacts DEF ST_ScanBegin
  <2> QED
    BY <2>1, <2>2, <2>3
<1>6. published' \in Contexts
  BY DEF ST_ScanBegin, Context, Contexts, IndInv, TypeOK, ScanType
<1>7. squelchHits' \in 0..TriggerHits
  BY <1>4, BoundFacts DEF IndInv, TypeOK, ScanType
<1>8. ScanType'
  BY <1>1, <1>5, <1>6, <1>7 DEF ST_ScanBegin, ScanEndsHold, timeVars, IndInv, TypeOK, ScanType
<1>9. manualMode' = FALSE /\ ctxState' = "SCAN"
  BY DEF ST_ScanBegin, ScanEndsHold
<1>10. EngineOK'
  BY <1>1, <1>2, <1>3, <1>5, <1>9 DEF EngineOK
<1>11. OnlyCurrentModemOpen' /\ ReceivesRealEntry' /\ HeardIsShown' /\ ManualIsHeld'
       /\ DataBelongsToManual'
  BY <1>1, <1>2, <1>3, <1>9 DEF OnlyCurrentModemOpen, ReceivesRealEntry,
     HeardIsShown, ManualIsHeld, DataBelongsToManual
<1> QED
  BY <1>3, <1>8, <1>10, <1>11, EngineKeepsSystem DEF IndInv, TypeOK

\* ST_Scan ends: only a signal, which a dummy never has, leads to RECEIVE.
LEMMA ScanEndStep == ASSUME IndInv, ST_ScanEnd PROVE IndInv'
<1>1. /\ engine = "scan" /\ currentState = "SCAN" /\ ctxState = "SCAN"
      /\ currentEntry # NoEntry /\ openModems = {} /\ currentEntry \in Entries
  BY DEF ST_ScanEnd, IndInv, EngineOK, TypeOK, ScanType
<1> PICK signal \in HasSignal(currentEntry) :
       /\ squelchHits' = IF signal THEN CountedHits(squelchHits + 1) ELSE 0
       /\ ReturnPosting(currentState,
                        IF squelchHits' >= TriggerHits THEN "RECEIVE" ELSE "SCAN",
                        NoData)
  BY DEF ST_ScanEnd
<1>2. squelchHits' \in 0..TriggerHits /\ (squelchHits' >= TriggerHits => signal)
  BY BoundFacts DEF CountedHits, IndInv, TypeOK, ScanType, HasSignal
<1>3. /\ currentState' \in {"RECEIVE", "SCAN"} /\ lastState' = "SCAN"
      /\ engine' = "wait" /\ eventGenerated' = TRUE /\ pEventData' = NoData
      /\ evtSrcExternal' = FALSE /\ run' = run
      /\ currentState' = "RECEIVE" => signal
  BY <1>1, <1>2 DEF ReturnPosting, InternalEvent
<1>4. signal => Real(currentEntry)
  BY <1>1, EntryFacts DEF HasSignal, Real
<1>5. /\ UNCHANGED <<holdVars, timeVars, ctxVars, manualMode, currentEntry, openModems>>
      /\ modem' = ModemOf(currentEntry) /\ tuned' \in {tuned, "NFM", "AM"}
  BY DEF ST_ScanEnd, SelectModem
<1>6. /\ modem' \in {"NFM", "AM"} /\ ModemOf(currentEntry)' = modem'
      /\ tuned' \in {"NFM", "AM"}
  BY <1>5 DEF ModemOf, IndInv, TypeOK, ScanType
<1>7. EngineType'
  BY <1>3 DEF IndInv, TypeOK, EngineType, States, Labels
<1>8. ScanType'
  BY <1>2, <1>5, <1>6 DEF IndInv, TypeOK, ScanType, holdVars, timeVars, ctxVars
<1>9. ReceivesRealEntry'
  BY <1>3, <1>4, <1>5 DEF ReceivesRealEntry, Receiving, Real
<1>10. EngineOK'
  BY <1>1, <1>3, <1>5, <1>6 DEF IndInv, EngineOK, Receiving, Real
<1>11. OnlyCurrentModemOpen' /\ HeardIsShown' /\ ManualIsHeld' /\ DataBelongsToManual'
  BY <1>1, <1>3, <1>5 DEF IndInv, OnlyCurrentModemOpen, HeardIsShown, ManualIsHeld,
     DataBelongsToManual, ctxVars, holdVars
<1> QED
  BY <1>7, <1>8, <1>9, <1>10, <1>11, EngineKeepsSystem DEF IndInv, TypeOK

\* ST_Hold mutes, resolves the entry to hold and publishes it.
LEMMA HoldBeginStep == ASSUME IndInv, ST_HoldBegin PROVE IndInv'
<1>1. openModems' = {}
  BY MuteFacts DEF ST_HoldBegin
<1>2. /\ engine' = "hold" /\ eventGenerated' = FALSE /\ pEventData' = NoData
      /\ UNCHANGED <<currentState, lastState, evtSrcExternal, run>>
      /\ currentState = "HOLD" /\ ctxState' = "HOLD"
  BY DEF ST_HoldBegin, EnterStateFunction, EventTaken
<1>3. EngineType' /\ ~Receiving'
  BY <1>2 DEF IndInv, TypeOK, EngineType, Labels, Receiving
<1>4. db.channels \subseteq Channels /\ currentEntry \in Entries
  BY DEF IndInv, TypeOK, SystemType, ScanType, Databases
<1>5. currentEntry' \in Entries /\ Real(currentEntry')
  <2>1. CASE HoldAsksNext
    BY <2>1, NextEntryFacts DEF ST_HoldBegin
  <2>2. CASE ~HoldAsksNext /\ IndexHold
    <3>1. holdIndex \in Channels /\ currentEntry' = Chan(holdIndex)
      BY <2>2, <1>4 DEF ST_HoldBegin, HoldAsksNext
    <3> QED
      BY <3>1, EntryFacts DEF Real
  <2>3. CASE ~HoldAsksNext /\ ~IndexHold
    <3>1. currentEntry' = currentEntry /\ currentEntry # Dummy /\ currentEntry # NoEntry
      BY <2>3 DEF ST_HoldBegin, HoldAsksNext
    <3> QED
      BY <3>1, <1>4, EntryFacts DEF Real
  <2> QED
    BY <2>1, <2>2, <2>3
<1>6. published' \in Contexts
  <2>1. currentEntry'.id \in Ids \cup {NoId}
    BY <1>5, EntryFacts DEF Ids
  <2> QED
    BY <2>1 DEF ST_HoldBegin, Context, Contexts, IndInv, TypeOK, ScanType
<1>7. /\ UNCHANGED <<timeVars, externalHold, manualMode, squelchHits, modem, tuned>>
      /\ holdIndex' \in {NoId, holdIndex}
  BY DEF ST_HoldBegin
<1>8. ScanType'
  BY <1>1, <1>2, <1>5, <1>6, <1>7 DEF timeVars, IndInv, TypeOK, ScanType, Indexes
<1>9. EngineOK'
  BY <1>1, <1>2, <1>3, <1>5, EntryFacts DEF EngineOK, Real
<1>10. OnlyCurrentModemOpen' /\ ReceivesRealEntry' /\ HeardIsShown' /\ ManualIsHeld'
       /\ DataBelongsToManual'
  BY <1>1, <1>2, <1>3, <1>7 DEF IndInv, OnlyCurrentModemOpen, ReceivesRealEntry,
     HeardIsShown, ManualIsHeld, DataBelongsToManual
<1> QED
  BY <1>3, <1>8, <1>9, <1>10, EngineKeepsSystem DEF IndInv, TypeOK

\* ST_Hold samples the squelch: the modem follows the entry, nothing is audible.
LEMMA HoldDecideStep == ASSUME IndInv, ST_HoldDecide PROVE IndInv'
<1>1. /\ engine = "hold" /\ currentState = "HOLD" /\ ctxState = "HOLD"
      /\ Real(currentEntry) /\ openModems = {}
  BY DEF ST_HoldDecide, IndInv, EngineOK
<1>2. /\ engine' = "holdPost" /\ modem' = ModemOf(currentEntry)
      /\ tuned' \in {tuned, "NFM", "AM"}
      /\ UNCHANGED <<currentState, lastState, evtSrcExternal, eventGenerated, pEventData,
                     run, holdVars, entryVars, ctxVars, delayRunning, openModems>>
  BY DEF ST_HoldDecide, StayInStateFunction, SelectModem
<1>3. holdNext' \in {"RECEIVE", "HOLD", "SCAN", Ignored}
  <2> PICK signal \in HasSignal(currentEntry) :
       holdNext' = CASE signal -> "RECEIVE"
                     [] ~signal /\ externalHold -> "HOLD"
                     [] ~signal /\ ~externalHold /\ LockedOut(currentEntry) -> "SCAN"
                     [] OTHER -> IF HasDelay(currentEntry) /\ delayRunning
                                 THEN "HOLD"
                                 ELSE ResumeScan
    BY DEF ST_HoldDecide
  <2>1. ResumeScan \in {"SCAN", Ignored}
    BY DEF ResumeScan
  <2> QED
    BY <2>1
<1>4. /\ modem' \in {"NFM", "AM"} /\ ModemOf(currentEntry)' = modem'
      /\ tuned' \in {"NFM", "AM"}
  BY <1>2 DEF ModemOf, IndInv, TypeOK, ScanType, entryVars
<1>5. EngineType' /\ ~Receiving'
  BY <1>1, <1>2 DEF IndInv, TypeOK, EngineType, Labels, Receiving
<1>6. ScanType'
  BY <1>2, <1>3, <1>4 DEF IndInv, TypeOK, ScanType, holdVars, entryVars, ctxVars
<1>7. EngineOK'
  BY <1>1, <1>2, <1>4, <1>5 DEF IndInv, EngineOK, Real, entryVars, ctxVars
<1>8. OnlyCurrentModemOpen' /\ ReceivesRealEntry' /\ HeardIsShown' /\ ManualIsHeld'
      /\ DataBelongsToManual'
  BY <1>1, <1>2, <1>5 DEF IndInv, OnlyCurrentModemOpen, ReceivesRealEntry,
     HeardIsShown, ManualIsHeld, DataBelongsToManual, holdVars, entryVars
<1> QED
  BY <1>5, <1>6, <1>7, <1>8, EngineKeepsSystem DEF IndInv, TypeOK

\* ST_Hold ends: RECEIVE is posted with the entry and the modem that decided it.
LEMMA HoldEndStep == ASSUME IndInv, ST_HoldEnd PROVE IndInv'
<1>1. /\ engine = "holdPost" /\ currentState = "HOLD" /\ ctxState = "HOLD"
      /\ Real(currentEntry) /\ openModems = {} /\ modem = ModemOf(currentEntry)
  BY DEF ST_HoldEnd, IndInv, EngineOK
<1>2. /\ holdNext' = Ignored
      /\ UNCHANGED <<holdVars, entryVars, ctxVars, demodVars, delayRunning, run>>
      /\ engine' = "wait" /\ evtSrcExternal' = FALSE /\ pEventData' = NoData
      /\ \/ /\ eventGenerated' = FALSE /\ UNCHANGED <<currentState, lastState>>
         \/ /\ eventGenerated' = TRUE /\ lastState' = "HOLD"
            /\ currentState' \in {"RECEIVE", "HOLD", "SCAN"}
  BY <1>1 DEF ST_HoldEnd, ReturnParked, ReturnPosting, InternalEvent, IndInv, TypeOK,
     ScanType
<1>3. EngineType'
  BY <1>1, <1>2 DEF IndInv, TypeOK, EngineType, States, Labels
<1>4. ScanType'
  BY <1>2 DEF IndInv, TypeOK, ScanType, holdVars, entryVars, ctxVars, demodVars
<1>5. (Receiving /\ lastState = "RECEIVE")' => FALSE
  BY <1>1, <1>2 DEF Receiving
<1>6. ModemOf(currentEntry)' = modem'
  BY <1>1, <1>2 DEF ModemOf, entryVars, demodVars
<1>7. EngineOK'
  BY <1>2, <1>5, <1>6 DEF IndInv, EngineOK, Real, entryVars
<1>8. OnlyCurrentModemOpen' /\ ReceivesRealEntry' /\ HeardIsShown' /\ ManualIsHeld'
      /\ DataBelongsToManual'
  BY <1>1, <1>2 DEF IndInv, OnlyCurrentModemOpen, ReceivesRealEntry, Real,
     HeardIsShown, ManualIsHeld, DataBelongsToManual, holdVars, entryVars, ctxVars,
     demodVars
<1> QED
  BY <1>3, <1>4, <1>7, <1>8, EngineKeepsSystem DEF IndInv, TypeOK

\* ST_Receive opens the current modem and shows the entry unless it is shown.
LEMMA ReceiveBeginStep == ASSUME IndInv, ST_ReceiveBegin PROVE IndInv'
<1>1. /\ engine = "wait" /\ currentState = "RECEIVE" /\ Receiving
  BY DEF ST_ReceiveBegin, EventTaken, Receiving
<1>2. /\ Real(currentEntry) /\ currentEntry \in Entries
      /\ modem = ModemOf(currentEntry) /\ modem \in {"NFM", "AM"}
      /\ lastState = "RECEIVE" => Shown
      /\ openModems \subseteq {tuned} /\ tuned \in {"NFM", "AM"}
  BY <1>1 DEF IndInv, TypeOK, ScanType, EngineOK, ReceivesRealEntry, OnlyCurrentModemOpen
<1>3. /\ UNCHANGED <<holdVars, entryVars, timeVars, modem, tuned>> /\ ctxState' = "RECEIVE"
      /\ openModems' = {tuned}
  BY <1>2 DEF ST_ReceiveBegin, SquelchBreak
<1>4. /\ engine' = "receive" /\ UNCHANGED <<evtSrcExternal, run>>
      /\ pEventData' = NoData
      /\ \/ /\ eventGenerated' = FALSE /\ UNCHANGED <<currentState, lastState>>
         \/ /\ eventGenerated' = TRUE /\ lastState' = "RECEIVE" /\ currentState' = "SCAN"
  BY <1>1 DEF ST_ReceiveBegin, EnterStateFunction, InternalEvent
<1>5. Shown'
  <2>1. CASE Broadcasts(lastState', currentState')
    BY <2>1, <1>3 DEF ST_ReceiveBegin, Shown, Context, entryVars
  <2>2. CASE ~Broadcasts(lastState', currentState')
    <3>1. lastState = "RECEIVE" /\ published' = published /\ currentEntry' = currentEntry
      BY <2>2, <1>1, <1>3, <1>4 DEF ST_ReceiveBegin, Broadcasts, entryVars
    <3> QED
      BY <3>1, <1>2 DEF Shown
  <2> QED
    BY <2>1, <2>2
<1>6. published' \in Contexts
  <2>1. currentEntry.id \in Ids \cup {NoId}
    BY <1>2, EntryFacts DEF Ids
  <2> QED
    BY <2>1 DEF ST_ReceiveBegin, Context, Contexts, IndInv, TypeOK, ScanType
<1>7. EngineType'
  BY <1>4 DEF IndInv, TypeOK, EngineType, States, Labels
<1>8. ScanType'
  BY <1>2, <1>3, <1>6 DEF IndInv, TypeOK, ScanType, holdVars, entryVars, timeVars
<1>9. ModemOf(currentEntry)' = modem' /\ Real(currentEntry)'
  BY <1>2, <1>3 DEF ModemOf, Real, entryVars
<1>10. EngineOK'
  BY <1>1, <1>3, <1>4, <1>5, <1>9 DEF IndInv, EngineOK, Real, entryVars
<1>11. OnlyCurrentModemOpen' /\ ReceivesRealEntry' /\ HeardIsShown' /\ ManualIsHeld'
      /\ DataBelongsToManual'
  BY <1>3, <1>4, <1>5, <1>9 DEF IndInv, OnlyCurrentModemOpen, ReceivesRealEntry,
     HeardIsShown, ManualIsHeld, DataBelongsToManual, holdVars, entryVars
<1> QED
  BY <1>7, <1>8, <1>10, <1>11, EngineKeepsSystem DEF IndInv, TypeOK

\* ST_Receive ends: it stays with the entry or holds it.
LEMMA ReceiveEndStep == ASSUME IndInv, ST_ReceiveEnd PROVE IndInv'
<1>1. engine = "receive" /\ Receiving /\ ctxState = "RECEIVE"
  BY DEF ST_ReceiveEnd, Receiving, IndInv, EngineOK
<1>2. /\ Real(currentEntry) /\ Shown /\ openModems \subseteq {tuned}
      /\ modem = ModemOf(currentEntry)
  BY <1>1 DEF IndInv, EngineOK, ReceivesRealEntry, OnlyCurrentModemOpen, HeardIsShown
<1>3. /\ modem' = modem /\ tuned' = tuned /\ delayRunning' \in BOOLEAN
      /\ UNCHANGED <<holdVars, entryVars, ctxVars, holdNext, openModems>>
  BY <1>2 DEF ST_ReceiveEnd, SelectModem, IndInv, TypeOK, ScanType
<1>4. /\ engine' = "wait" /\ evtSrcExternal' = FALSE /\ run' = run
      /\ eventGenerated' = TRUE /\ pEventData' = NoData
      /\ lastState' = currentState /\ currentState' \in {"RECEIVE", "HOLD"}
  BY DEF ST_ReceiveEnd, ReturnPosting, InternalEvent
<1>5. EngineType'
  BY <1>4 DEF IndInv, TypeOK, EngineType, States, Labels
<1>6. ScanType'
  BY <1>3 DEF IndInv, TypeOK, ScanType, holdVars, entryVars, ctxVars
<1>7. ModemOf(currentEntry)' = modem' /\ Real(currentEntry)' /\ Shown'
  BY <1>2, <1>3 DEF ModemOf, Real, Shown, entryVars, ctxVars
<1>8. EngineOK'
  BY <1>3, <1>4, <1>7 DEF IndInv, EngineOK, entryVars
<1>9. OnlyCurrentModemOpen' /\ ReceivesRealEntry' /\ HeardIsShown' /\ ManualIsHeld'
      /\ DataBelongsToManual'
  BY <1>1, <1>2, <1>3, <1>4, <1>7 DEF IndInv, OnlyCurrentModemOpen, ReceivesRealEntry,
     HeardIsShown, ManualIsHeld, DataBelongsToManual, holdVars, entryVars, ctxVars
<1> QED
  BY <1>5, <1>6, <1>8, <1>9, EngineKeepsSystem DEF IndInv, TypeOK

\* ST_Manual replaces the entry while nothing is being received.
LEMMA ManualStep == ASSUME IndInv, ST_Manual PROVE IndInv'
<1> PICK f \in Freqs \cup Channels : currentEntry' = Manual(f)
  BY DEF ST_Manual
<1>1. /\ externalHold' = TRUE /\ manualMode' = TRUE
      /\ UNCHANGED <<timeVars, ctxVars, demodVars, holdIndex, squelchHits>>
      /\ engine = "wait" /\ currentState = "MANUAL"
  BY DEF ST_Manual, EventTaken
<1>2. /\ engine' = "wait" /\ evtSrcExternal' = FALSE /\ run' = run
      /\ eventGenerated' = TRUE /\ pEventData' = NoData
      /\ lastState' = currentState /\ currentState' = "HOLD"
  BY DEF ST_Manual, ReturnPosting, InternalEvent
<1>3. currentEntry' \in Entries /\ Real(currentEntry') /\ currentEntry' # NoEntry
  BY EntryFacts DEF Real
<1>4. EngineType' /\ ~Receiving'
  BY <1>2 DEF IndInv, TypeOK, EngineType, States, Labels, Receiving
<1>5. ScanType'
  BY <1>1, <1>3 DEF IndInv, TypeOK, ScanType, timeVars, ctxVars, demodVars
<1>6. EngineOK'
  BY <1>2, <1>3, <1>4 DEF EngineOK, Real
<1>7. OnlyCurrentModemOpen' /\ ReceivesRealEntry' /\ HeardIsShown' /\ ManualIsHeld'
      /\ DataBelongsToManual'
  BY <1>1, <1>2, <1>4 DEF IndInv, OnlyCurrentModemOpen, ReceivesRealEntry,
     HeardIsShown, ManualIsHeld, DataBelongsToManual, ctxVars, demodVars
<1> QED
  BY <1>4, <1>5, <1>6, <1>7, EngineKeepsSystem DEF IndInv, TypeOK

-----------------------------------------------------------------------------
(* The theorems.                                                           *)

\* Every step of Next preserves IndInv: one case per action of ScannerSM.
LEMMA NextIndInv == IndInv /\ [Next]_vars => IndInv'
<1> SUFFICES ASSUME IndInv, [Next]_vars PROVE IndInv'
  OBVIOUS
<1>1. CASE EngineStep
  BY <1>1, LoadStep, ScanEmptyStep, ScanBeginStep, ScanEndStep, HoldBeginStep,
     FaultStep, HoldDecideStep, HoldEndStep, ReceiveBeginStep, ReceiveEndStep,
     ManualStep, SaveAllStep DEF EngineStep
<1>2. CASE DelayExpires
  BY <1>2, DelayExpiresStep
<1>3. CASE MainStep \/ MainStop
  BY <1>3, MainStartStep, MainStep2 DEF MainStep
<1>4. CASE Reboot
  BY <1>4, RebootStep
<1>5. CASE \E c \in Callers : CallerStep(c)
  BY <1>5, StoreHoldIndexStep, CallerLookupStep, CallerPostStep DEF CallerStep
<1>6. CASE \E c \in Clients : Request(c)
  BY <1>6, RequestStep, RequestHoldStep DEF Request
<1>7. CASE UNCHANGED vars
  <2>1. UNCHANGED <<smVars, scanVars, sysVars, call>>
    BY <1>7 DEF vars
  <2>2. SystemType' /\ CallsOK' /\ (call \in [Callers -> Calls])'
    BY <2>1 DEF IndInv, TypeOK, SystemType, CallsOK, sysVars, lifeVars
  <2> QED
    BY <2>1, <2>2, EngineFrame DEF IndInv, TypeOK
<1> QED
  BY <1>1, <1>2, <1>3, <1>4, <1>5, <1>6, <1>7 DEF Next

\* The strengthened invariant holds of every behaviour of the scanner: at every
\* point of every state function, whatever the callers did, what is heard, shown,
\* selected and requested is consistent.
THEOREM InductiveInvariant == Spec => []IndInv
<1>1. Init => IndInv
  BY InitIndInv
<1>2. IndInv /\ [Next]_vars => IndInv'
  BY NextIndInv
<1> QED
  BY <1>1, <1>2, PTL DEF Spec

\* Type correctness of the scanner and its callers.
THEOREM TypeCorrect == Spec => []TypeOK
<1>1. IndInv => TypeOK
  BY DEF IndInv
<1> QED
  BY <1>1, InductiveInvariant, PTL

\* Audio is only ever heard from the modem the manager tunes, in RECEIVE, however
\* hasSignal() and the callers interleave with ST_Scan, ST_Hold and ST_Receive.
THEOREM AudioIsCurrentModem == Spec => []OnlyCurrentModemOpen
<1>1. IndInv => OnlyCurrentModemOpen
  BY DEF IndInv
<1> QED
  BY <1>1, InductiveInvariant, PTL

\* ST_Receive never runs with a null entry or a retune dummy.
THEOREM ReceiveHasEntry == Spec => []ReceivesRealEntry
<1>1. IndInv => ReceivesRealEntry
  BY DEF IndInv
<1> QED
  BY <1>1, InductiveInvariant, PTL

\* The context the clients last got names the entry that is being received.
THEOREM ReceptionIsShown == Spec => []HeardIsShown
<1>1. IndInv => HeardIsShown
  BY DEF IndInv
<1> QED
  BY <1>1, InductiveInvariant, PTL

\* _manualMode implies _externalHold in every interleaving of holdScan's stores.
THEOREM ManualModeIsHeld == Spec => []ManualIsHeld
<1>1. IndInv => ManualIsHeld
  BY DEF IndInv
<1> QED
  BY <1>1, InductiveInvariant, PTL

\* ST_Manual never gets the data of another event, nor another state its data.
THEOREM EventDataFits == Spec => []DataBelongsToManual
<1>1. IndInv => DataBelongsToManual
  BY DEF IndInv
<1> QED
  BY <1>1, InductiveInvariant, PTL

\* No caller is about to post anything but a stop.
PostsStop(r) == r.pc = "post" => r.target = "SAVEALL"

\* Replacing one caller's record by one that posts at most a stop.
LEMMA PostsUpdate ==
  ASSUME call \in [Callers -> Calls], \A d \in Callers : PostsStop(call[d]),
         NEW c \in Callers, NEW r \in Calls, PostsStop(r), call' = [call EXCEPT ![c] = r]
  PROVE  \A d \in Callers : PostsStop(call'[d])
  OBVIOUS

\* While a stop is pending, no step but a restart calls it off: the transition
\* maps ignore every other request looked up from now on, and no state function
\* but ST_SaveAll and ST_Stopped can be running.
LEMMA StoppingStep ==
  ASSUME IndInv, Stopping, [Next]_vars, boots' = boots
  PROVE  Stopping'
<1>0. /\ currentState \in {"SAVEALL", "STOPPED"} /\ call \in [Callers -> Calls]
      /\ \A d \in Callers : PostsStop(call[d])
  BY DEF Stopping, IndInv, TypeOK, PostsStop
<1>1. ASSUME currentState' \in {"SAVEALL", "STOPPED"},
             \A d \in Callers : PostsStop(call'[d])
      PROVE  Stopping'
  BY <1>1 DEF Stopping, PostsStop
<1>2. CASE EngineStep
  <2>1. engine = "wait" \/ UNCHANGED <<currentState, call>>
    BY <1>0, <1>2 DEF IndInv, EngineOK, EngineStep, ST_Load, ST_ScanEmpty, ST_ScanBegin,
       ST_ScanEnd, ST_HoldBegin, ST_HoldLost, ST_HoldDecide, ST_HoldEnd, ST_ReceiveBegin,
       ST_ReceiveEnd, ST_Manual, ST_ManualFault, ST_SaveAll, ST_SaveAllFault, ST_Stopped,
       EventTaken
  <2>2. CASE engine = "wait"
    <3>1. ST_SaveAll \/ ST_SaveAllFault \/ ST_Stopped
      BY <1>0, <1>2, <2>2 DEF EngineStep, ST_Load, ST_ScanEmpty, ST_ScanBegin,
         ST_ScanEnd, ST_HoldBegin, ST_HoldLost, ST_HoldDecide, ST_HoldEnd, ST_ReceiveBegin,
         ST_ReceiveEnd, ST_Manual, ST_ManualFault, EventTaken
    <3>2. currentState' \in {"SAVEALL", "STOPPED"} /\ call' = call
      BY <3>1, <1>0 DEF ST_SaveAll, ST_SaveAllFault, ST_Stopped, ReturnPosting,
         InternalEvent, EnterStateFunction, ReturnStopped
    <3> QED
      BY <3>2, <1>0, <1>1
  <2> QED
    BY <2>1, <2>2, <1>0, <1>1
<1>3. CASE DelayExpires \/ MainRunning \/ MainSave \/ UNCHANGED vars
  <2>1. UNCHANGED <<currentState, call>>
    BY <1>3 DEF DelayExpires, MainRunning, MainSave, vars, smVars
  <2> QED
    BY <2>1, <1>0, <1>1
<1>4. CASE MainStart \/ MainStop \/ \E c \in Clients : Request(c)
  <2>1. currentState' = currentState
    BY <1>4 DEF MainStart, MainStop, Request, RequestScan, RequestManual, RequestHold,
       smVars
  <2>2. \/ call' = call
        \/ \E c \in Callers, op \in {"startScan", "manualEntry", "stopScanner"},
              arg \in Ids \cup {NoId} : BeginCall(c, op, arg)
        \/ \E c \in Callers, index \in Indexes : BeginHold(c, index)
    <3>1. CASE MainStart
      <4>1. "main" \in Callers /\ saved \in SavedStates
        BY DEF Callers, IndInv, TypeOK, SystemType
      <4>2. /\ saved.mode = "HOLD" => saved.id \in Indexes
            /\ saved.mode = "MANUAL" => saved.id \in Ids
        BY <4>1 DEF SavedStates, Scanning, Ids, Indexes
      <4> QED
        BY <3>1, <4>1, <4>2 DEF MainStart
    <3>2. CASE MainStop
      BY <3>2 DEF MainStop, Callers
    <3>3. CASE \E c \in Clients : Request(c)
      BY <3>3 DEF Clients, Request, RequestScan, RequestManual, RequestHold, Ids
    <3> QED
      BY <1>4, <3>1, <3>2, <3>3
  <2>3. \A d \in Callers : PostsStop(call'[d])
    <3>1. CASE call' = call
      BY <3>1, <1>0
    <3>2. ASSUME NEW c \in Callers, NEW arg \in Ids \cup {NoId},
                 NEW op \in {"startScan", "manualEntry", "stopScanner"},
                 BeginCall(c, op, arg)
          PROVE  \A d \in Callers : PostsStop(call'[d])
      BY <3>2, <1>0 DEF BeginCall, PostsStop
    <3>3. ASSUME NEW c \in Callers, NEW index \in Indexes, BeginHold(c, index)
          PROVE  \A d \in Callers : PostsStop(call'[d])
      BY <3>3, <1>0 DEF BeginHold, PostsStop
    <3> QED
      BY <2>2, <3>1, <3>2, <3>3
  <2> QED
    BY <2>1, <2>3, <1>0, <1>1
<1>5. CASE Reboot
  BY <1>5, BoundFacts DEF Reboot, IndInv, TypeOK, SystemType
<1>6. ASSUME NEW c \in Callers, CallerStep(c) PROVE Stopping'
  <2>1. call[c] \in Calls /\ CallOK(call[c])
    BY DEF IndInv, TypeOK, CallsOK
  <2>2. CASE StoreHoldIndex(c)
    <3>1. currentState' = currentState /\ \A d \in Callers : PostsStop(call'[d])
      BY <2>1, <2>2, <1>0 DEF StoreHoldIndex, PostsStop, smVars, Calls
    <3> QED
      BY <3>1, <1>0, <1>1
  <2>3. CASE CallerLookup(c)
    <3> DEFINE target == TRANSITIONS[call[c].op][currentState]
               r == IF target = Ignored THEN Idle
                    ELSE [call[c] EXCEPT !.pc = "post", !.target = target]
    <3>1. call[c].op \in Ops /\ currentState \in States
      BY <2>1 DEF Calls, IndInv, TypeOK, EngineType
    <3>2. target # Ignored => target = "SAVEALL"
      BY <3>1, <1>0, TransitionFacts
    <3>3. call' = [call EXCEPT ![c] = r] /\ currentState' = currentState
      BY <2>3 DEF CallerLookup, smVars
    <3> HIDE DEF target
    <3>4. r \in Calls /\ PostsStop(r)
      BY <3>2, <2>1, RecordFacts DEF PostsStop, Idle, Calls, States
    <3> HIDE DEF r
    <3> QED
      BY <3>3, <3>4, <1>0, <1>1, PostsUpdate
  <2>4. CASE CallerPost(c)
    <3>1. currentState' = "SAVEALL" /\ call' = [call EXCEPT ![c] = Idle]
      BY <2>4, <1>0 DEF CallerPost, ExternalEvent, InternalEvent, PostsStop
    <3>2. Idle \in Calls /\ PostsStop(Idle)
      BY RecordFacts DEF PostsStop, Idle
    <3> QED
      BY <3>1, <3>2, <1>0, <1>1, PostsUpdate
  <2> QED
    BY <1>6, <2>2, <2>3, <2>4 DEF CallerStep
<1> QED
  BY <1>2, <1>3, <1>4, <1>5, <1>6 DEF Next, MainStep

\* Once a stop is pending and no caller holds an older target, nothing but a
\* restart calls it off.
THEOREM StopIsNotCalledOff == Spec => StoppingSticks
<1>1. IndInv /\ [Next]_vars => [Stopping /\ boots' = boots => Stopping']_vars
  BY StoppingStep
<1> QED
  BY <1>1, InductiveInvariant, PTL DEF Spec, StoppingSticks

-----------------------------------------------------------------------------
(* What a locked out channel is shown as.                                  *)

\* The entry that getNextEntry returns is not locked out.
LEMMA NextIsOpen == \A e \in NextEntries : ~LockedOut(e)
<1>1. \A c \in Channels : Chan(c).id = c /\ Chan(c).kind = "channel"
  BY EntryFacts
<1>2. \A c \in db.channels \ db.locked : ~LockedOut(Chan(c))
  BY DEF LockedOut, Chan
<1>3. ~LockedOut(Dummy)
  BY EntryFacts DEF LockedOut
<1> QED
  BY <1>2, <1>3 DEF NextEntries

\* The current entry becomes a locked one by an index only, which is published
\* at once; a scan is published when hits are reset, with the next entry.
LEMMA LockedStep ==
  ASSUME IndInv, LockedIsShown, [Next]_vars
  PROVE  LockedIsShown'
<1> USE DEF LockedIsShown
<1>1. CASE UNCHANGED <<currentEntry, published, db>> /\ (engine = "hung" => engine' = "hung")
  BY <1>1 DEF LockedOut
<1>2. CASE ST_ScanBegin
  <2>1. UNCHANGED db
    BY <1>2 DEF ST_ScanBegin, sysVars
  <2>2. CASE squelchHits' # 0
    <3>1. UNCHANGED <<currentEntry, published>> /\ engine # "hung"
      BY <1>2, <2>2 DEF ST_ScanBegin, Broadcasts, EventTaken
    <3> QED
      BY <2>1, <3>1 DEF LockedOut
  <2>3. CASE squelchHits' = 0
    <3>1. engine' = "hung" \/ currentEntry' \in NextEntries
      BY <1>2, <2>3 DEF ST_ScanBegin, EnterStateFunction
    <3> QED
      BY <2>1, <3>1, NextIsOpen DEF LockedOut
  <2> QED
    BY <2>2, <2>3
<1>3. CASE ST_HoldBegin
  <2>1. UNCHANGED db
    BY <1>3 DEF ST_HoldBegin, sysVars
  <2>2. CASE HoldAsksNext
    <3>1. currentEntry' \in NextEntries
      BY <1>3, <2>2 DEF ST_HoldBegin
    <3> QED
      BY <2>1, <3>1, NextIsOpen DEF LockedOut
  <2>3. CASE ~HoldAsksNext /\ IndexHold
    <3>1. published' = Context("HOLD", currentEntry', manualMode)
      BY <1>3, <2>3 DEF ST_HoldBegin
    <3> QED
      BY <3>1 DEF Context
  <2>4. CASE ~HoldAsksNext /\ ~IndexHold
    <3>1. /\ currentEntry' = currentEntry /\ engine # "hung"
          /\ published' \in {published, Context("HOLD", currentEntry', manualMode)}
      BY <1>3, <2>4 DEF ST_HoldBegin, EventTaken
    <3> QED
      BY <2>1, <3>1 DEF Context, LockedOut
  <2> QED
    BY <2>2, <2>3, <2>4
<1>4. CASE ST_ReceiveBegin
  <2>1. /\ UNCHANGED <<currentEntry, db>> /\ engine # "hung"
        /\ published' \in {published, Context("RECEIVE", currentEntry, manualMode)}
    BY <1>4 DEF ST_ReceiveBegin, EventTaken, entryVars, sysVars
  <2> QED
    BY <2>1 DEF Context, LockedOut
<1>5. CASE ST_Manual
  <2>1. PICK f \in Freqs \cup Channels : currentEntry' = Manual(f)
    BY <1>5 DEF ST_Manual
  <2> QED
    BY <2>1, EntryFacts DEF LockedOut
<1>6. CASE Reboot
  BY <1>6, EntryFacts DEF Reboot, LockedOut
<1>7. CASE ST_Load \/ ST_ScanEmpty \/ ST_ScanEnd \/ ST_HoldLost \/ ST_HoldDecide \/ ST_HoldEnd
  BY <1>1, <1>7 DEF ST_Load, ST_ScanEmpty, ST_ScanEnd, ST_HoldLost, ST_HoldDecide, ST_HoldEnd,
     EventTaken, scanVars, entryVars, ctxVars, sysVars
<1>8. CASE ST_ReceiveEnd \/ ST_ManualFault \/ ST_SaveAll \/ ST_SaveAllFault \/ ST_Stopped
  BY <1>1, <1>8 DEF ST_ReceiveEnd, ST_ManualFault, ST_SaveAll, ST_SaveAllFault, ST_Stopped,
     EventTaken, scanVars, entryVars, ctxVars, sysVars
<1>9. CASE DelayExpires \/ MainStart \/ MainRunning \/ MainSave \/ MainStop
  <2>1. CASE MainStart
    <3>1. /\ UNCHANGED <<currentEntry, published, db>>
          /\ engine' = engine \/ db.channels = {}
      BY <2>1 DEF MainStart, entryVars, ctxVars, smVars
    <3>2. db.channels = {} => db.locked = {}
      BY DEF IndInv, TypeOK, SystemType, Databases
    <3> QED
      BY <3>1, <3>2 DEF LockedOut
  <2> QED
    BY <1>1, <1>9, <2>1 DEF DelayExpires, MainRunning, MainSave, MainStop, smVars, scanVars,
       entryVars, ctxVars, sysVars
<1>10. CASE \E c \in Callers : CallerStep(c)
  BY <1>1, <1>10 DEF CallerStep, StoreHoldIndex, CallerLookup, CallerPost, ExternalEvent,
     smVars, scanVars, entryVars, ctxVars, sysVars
<1>11. CASE \E c \in Clients : Request(c)
  BY <1>1, <1>11 DEF Request, RequestScan, RequestManual, RequestHold, smVars, scanVars,
     entryVars, ctxVars, sysVars
<1>12. CASE UNCHANGED vars
  BY <1>1, <1>12 DEF vars, smVars, scanVars, entryVars, ctxVars, sysVars
<1> QED
  BY <1>2, <1>3, <1>4, <1>5, <1>6, <1>7, <1>8, <1>9, <1>10, <1>11, <1>12
  DEF Next, EngineStep, MainStep

\* A locked out channel that is scanned, held or received is one that a client
\* asked for by its index, and the clients see it as held or received.
THEOREM LockedOutIsShown == Spec => []LockedIsShown
<1>1. Init => LockedIsShown
  BY EntryFacts DEF Init, Booted, LockedIsShown, LockedOut
<1> QED
  BY <1>1, LockedStep, InductiveInvariant, PTL DEF Spec

-----------------------------------------------------------------------------
(* What is true until somebody makes a request.                            *)

\* No request has been made since the start: there is nobody but main.
Quiet == requests = 0

\* Main's call: the one of startScanner is under way while the machine is
\* loading, that of stopScanner is the last.
MainCallInv ==
  LET r == call["main"]
  IN /\ \A c \in Clients : call[c].pc = "idle"
     /\ phase \in {"boot", "running", "off", "hung"} => r.pc = "idle"
     /\ phase = "boot" => currentState = "LOAD" /\ saved = file /\ ~externalHold
     /\ phase = "starting" /\ r.pc # "idle" => currentState = "LOAD"
     /\ phase = "stopping" /\ r.pc # "idle" =>
          r.op = "stopScanner" /\ r.pc \in {"lookup", "post"}
     /\ phase = "stopping" /\ r.pc = "post" => r.target = "SAVEALL"
     /\ currentState \in {"SAVEALL", "STOPPED"} => phase \in {"stopping", "off"} /\ r.pc = "idle"
     /\ currentState = "LOAD" =>
          /\ currentEntry = NoEntry /\ ~manualMode /\ ctxState = "OTHER"
          /\ engine \in {"wait", "crashed"}
          /\ holdIndex # NoId => r.pc # "idle"
     /\ deinit \/ phase = "off" => currentState = "STOPPED" /\ engine = "done"

\* What main asks for at the start, by the mode in the file.
StartInv ==
  LET r == call["main"]
  IN phase = "starting" /\ r.pc # "idle" =>
       /\ r.op = IF file.mode = "MANUAL" THEN "manualEntry"
                 ELSE IF file.mode = "HOLD" /\ file.id \in db.channels THEN "holdScan"
                 ELSE "startScan"
       /\ r.op \in {"manualEntry", "holdScan"} => r.arg = file.id
       /\ r.pc = "post" => r.target = TRANSITIONS[r.op]["LOAD"]
       /\ externalHold <=> r.op = "holdScan"
       /\ holdIndex = IF r.op = "holdScan" /\ r.pc # "index" THEN file.id ELSE NoId

\* Without requests a manual entry is never left, and an index is only that
\* of the channel in the file.
EntryInv ==
  /\ manualMode => currentEntry.kind = "manual"
  /\ holdIndex # NoId => externalHold /\ ~manualMode
  /\ holdIndex # NoId /\ phase # "off" =>
       file.mode = "HOLD" /\ file.id \in db.channels /\ holdIndex = file.id

\* A manual frequency is entered, held and received, and nothing else.
ManualKept ==
  /\ currentState \in {"LOAD", "MANUAL", "HOLD", "RECEIVE", "SAVEALL", "STOPPED"}
  /\ holdIndex = NoId
  /\ manualMode => externalHold /\ currentEntry = Manual(file.id)
  /\ currentState = "MANUAL" => pEventData = file.id
  /\ currentState \in {"HOLD", "RECEIVE"} \/ ctxState # "OTHER" => manualMode
  /\ engine = "holdPost" => holdNext # "SCAN"

\* A held channel that the database has is held and received; when it is
\* locked out, the event for SCAN does not outlive ST_Receive.
HoldKept ==
  /\ currentState \in {"LOAD", "HOLD", "RECEIVE", "SAVEALL", "STOPPED"}
       \/ engine = "receive"
  /\ ~manualMode
  /\ phase # "boot" => externalHold
  /\ currentState = "HOLD" => holdIndex = file.id \/ currentEntry = Chan(file.id)
  /\ currentState = "RECEIVE" => currentEntry = Chan(file.id)
  /\ ctxState # "OTHER" => currentEntry = Chan(file.id)
  /\ engine = "holdPost" => holdNext # "SCAN"

\* The mode m is that of the scanner.
Restored(m) ==
  /\ m.mode = "MANUAL" => manualMode /\ currentEntry = Manual(m.id)
  /\ m.mode = "HOLD" /\ m.id \in db.channels =>
       externalHold /\ ~manualMode /\ currentEntry = Chan(m.id)

RestoreInv == Quiet =>
  /\ MainCallInv /\ StartInv /\ EntryInv
  /\ phase # "off" /\ file.mode = "MANUAL" => ManualKept
  /\ phase # "off" /\ file.mode = "HOLD" /\ file.id \in db.channels => HoldKept
  /\ currentState = "STOPPED" => Restored(saved)
  /\ phase = "off" => file = saved

-----------------------------------------------------------------------------
(* Without requests the scanner goes back to the mode in the file.         *)

\* What the types say of the ids of the saved modes.
LEMMA SavedFacts ==
  ASSUME NEW m \in SavedStates
  PROVE  /\ m.mode \in {"SCAN", "HOLD", "MANUAL"}
         /\ m.mode = "MANUAL" => m.id \in Freqs \cup Channels
         /\ m.mode = "HOLD" => m.id \in Channels \cup {BadId}
  BY DEF SavedStates, Scanning

\* An entry that holds a channel or a manual frequency is that of its id.
LEMMA EntryOfId ==
  ASSUME NEW e \in Entries
  PROVE  /\ e.kind = "manual" => e = Manual(e.id)
         /\ e.kind = "channel" => e = Chan(e.id)
<1>1. CASE \E c \in Channels : e = Chan(c)
  BY <1>1, EntryFacts
<1>2. CASE \E f \in Freqs \cup Channels : e = Manual(f)
  BY <1>2, EntryFacts
<1>3. CASE e \in {Dummy, NoEntry}
  BY <1>3, EntryFacts
<1> QED
  BY <1>1, <1>2, <1>3 DEF Entries

\* What a state function between LOAD and SAVEALL leaves alone.
LEMMA WorkingFrame ==
  ASSUME IndInv, RestoreInv, Quiet, UNCHANGED <<db, file, saved, phase, requests, call, deinit>>,
         currentState \notin {"LOAD", "SAVEALL", "STOPPED"}, engine # "done",
         currentState' \notin {"LOAD", "SAVEALL", "STOPPED"}
  PROVE  /\ MainCallInv' /\ StartInv' /\ phase # "off" /\ phase # "boot"
         /\ EntryInv
         /\ file.mode = "MANUAL" => ManualKept
         /\ file.mode = "HOLD" /\ file.id \in db.channels => HoldKept
         /\ (/\ EntryInv'
             /\ file.mode = "MANUAL" => ManualKept'
             /\ file.mode = "HOLD" /\ file.id \in db.channels => HoldKept') => RestoreInv'
<1>1. MainCallInv /\ StartInv /\ EntryInv
  BY DEF RestoreInv
<1>2. phase # "off" /\ phase # "boot" /\ ~deinit /\ (phase = "starting" => call["main"].pc = "idle")
  BY <1>1 DEF MainCallInv
<1>3. MainCallInv'
  BY <1>1, <1>2 DEF MainCallInv
<1>4. StartInv'
  BY <1>2 DEF StartInv
<1> QED
  BY <1>1, <1>2, <1>3, <1>4 DEF RestoreInv

\* ST_Scan is never run after a manual entry or a held channel.
LEMMA ScanRestores ==
  ASSUME IndInv, RestoreInv, Quiet, ST_ScanBegin \/ ST_ScanEnd \/ ST_ScanEmpty
  PROVE  RestoreInv'
<1>1. UNCHANGED <<db, file, saved, phase, requests, call, deinit, holdIndex>>
  BY DEF ST_ScanBegin, ST_ScanEnd, ST_ScanEmpty, sysVars, lifeVars, holdVars
<1>2. /\ currentState = "SCAN" /\ engine \in {"wait", "scan"}
      /\ currentState' \in {"SCAN", "RECEIVE", "MANUAL"}
  BY DEF ST_ScanBegin, ST_ScanEnd, ST_ScanEmpty, IndInv, EngineOK, EventTaken,
     EnterStateFunction, ReturnPosting, InternalEvent
<1>3. /\ EntryInv /\ phase # "off"
      /\ file.mode # "MANUAL" /\ ~(file.mode = "HOLD" /\ file.id \in db.channels)
      /\ EntryInv' => RestoreInv'
  BY <1>1, <1>2, WorkingFrame DEF ManualKept, HoldKept
<1>4. holdIndex = NoId
  BY <1>3 DEF EntryInv
<1>5. ~manualMode' \/ UNCHANGED <<manualMode, currentEntry>>
  BY DEF ST_ScanBegin, ST_ScanEnd, ST_ScanEmpty, ScanEndsHold
<1>6. EntryInv'
  BY <1>1, <1>3, <1>4, <1>5 DEF EntryInv
<1> QED
  BY <1>3, <1>6

\* ST_Hold takes the channel of the index, or keeps the entry it finds.
LEMMA HoldBeginRestores ==
  ASSUME IndInv, RestoreInv, Quiet, ST_HoldBegin
  PROVE  RestoreInv'
<1>1. /\ UNCHANGED <<db, file, saved, phase, requests, call, deinit, externalHold, manualMode>>
      /\ UNCHANGED currentState
  BY DEF ST_HoldBegin, EnterStateFunction, sysVars, lifeVars
<1>2. currentState = "HOLD" /\ engine = "wait" /\ engine' = "hold"
  BY DEF ST_HoldBegin, EventTaken, EnterStateFunction
<1>3. holdIndex' = NoId \/ (holdIndex' = holdIndex /\ ~IndexHold)
  BY DEF ST_HoldBegin
<1>4. /\ EntryInv /\ phase # "off"
      /\ file.mode = "MANUAL" => ManualKept
      /\ file.mode = "HOLD" /\ file.id \in db.channels => HoldKept
  BY <1>1, <1>2, WorkingFrame
<1>5. holdIndex' = NoId
  BY <1>3, <1>4 DEF EntryInv, IndexHold
<1>6. manualMode => currentEntry' = currentEntry
  <2> SUFFICES ASSUME manualMode PROVE currentEntry' = currentEntry
    OBVIOUS
  <2>1. holdIndex = NoId /\ currentEntry # Dummy
    BY <1>4, EntryFacts DEF EntryInv
  <2> QED
    BY <2>1 DEF ST_HoldBegin, HoldAsksNext, IndexHold
<1>7. EntryInv'
  BY <1>1, <1>4, <1>5, <1>6 DEF EntryInv
<1>8. file.mode = "MANUAL" => ManualKept'
  BY <1>1, <1>2, <1>4, <1>5, <1>6 DEF ManualKept
<1>9. ASSUME file.mode = "HOLD", file.id \in db.channels
      PROVE  HoldKept'
  <2>1. HoldKept /\ externalHold
    BY <1>2, <1>4, <1>9, <1>1, WorkingFrame DEF HoldKept
  <2>2. db.channels \subseteq Channels /\ file.id # NoId
    BY <1>9, ScannerAssumption DEF IndInv, TypeOK, SystemType, Databases
  <2>3. currentEntry' = Chan(file.id)
    <3>1. CASE holdIndex # NoId
      <4>1. holdIndex = file.id
        BY <1>4, <3>1 DEF EntryInv
      <4> QED
        BY <1>9, <2>1, <3>1, <4>1 DEF ST_HoldBegin, HoldAsksNext, IndexHold
    <3>2. CASE holdIndex = NoId
      <4>1. currentEntry = Chan(file.id)
        BY <1>2, <2>1, <2>2, <3>2 DEF HoldKept
      <4>2. Chan(file.id).kind = "channel" /\ Dummy.kind = "dummy"
        BY <1>9, <2>2, EntryFacts
      <4> QED
        BY <3>2, <4>1, <4>2 DEF ST_HoldBegin, HoldAsksNext, IndexHold
    <3> QED
      BY <3>1, <3>2
  <2> QED
    BY <1>1, <1>2, <2>1, <2>3 DEF HoldKept
<1> QED
  BY <1>1, <1>2, <1>7, <1>8, <1>9, WorkingFrame

\* A scan does not follow an external hold.
LEMMA HoldRestores ==
  ASSUME IndInv, RestoreInv, Quiet, ST_HoldDecide \/ ST_HoldEnd \/ ST_HoldLost
  PROVE  RestoreInv'
<1>1. UNCHANGED <<db, file, saved, phase, requests, call, deinit, holdVars, entryVars, ctxVars>>
  BY DEF ST_HoldDecide, ST_HoldEnd, ST_HoldLost, sysVars, lifeVars, scanVars
<1>2. /\ currentState = "HOLD" /\ engine \in {"wait", "hold", "holdPost"}
      /\ engine \in {"hold", "holdPost"} => ctxState = "HOLD"
  BY DEF ST_HoldDecide, ST_HoldEnd, ST_HoldLost, IndInv, EngineOK, EventTaken
<1>3. /\ currentState' \in {currentState, holdNext} /\ currentState' # Ignored
      /\ currentState' # currentState => engine = "holdPost"
      /\ engine' = "holdPost" => (holdNext' = "SCAN" => ~externalHold)
      /\ engine' # "receive"
  <2>1. CASE ST_HoldDecide
    <3>1. holdNext' = "SCAN" => ~externalHold
      <4> SUFFICES ASSUME externalHold PROVE holdNext' # "SCAN"
        OBVIOUS
      <4>1. PICK signal \in HasSignal(currentEntry) :
              holdNext' = CASE signal -> "RECEIVE"
                            [] ~signal /\ externalHold -> "HOLD"
                            [] ~signal /\ ~externalHold /\ LockedOut(currentEntry) -> "SCAN"
                            [] OTHER -> IF HasDelay(currentEntry) /\ delayRunning
                                        THEN "HOLD" ELSE ResumeScan
        BY <2>1 DEF ST_HoldDecide
      <4>2. signal \in BOOLEAN
        BY DEF HasSignal
      <4>3. CASE signal
        BY <4>1, <4>3
      <4>4. CASE ~signal
        BY <4>1, <4>4
      <4> QED
        BY <4>2, <4>3, <4>4
    <3> QED
      BY <1>2, <2>1, <3>1 DEF ST_HoldDecide, StayInStateFunction, Ignored
  <2>2. CASE ST_HoldEnd
    BY <1>2, <2>2 DEF ST_HoldEnd, ReturnParked, ReturnPosting, InternalEvent, Ignored
  <2>3. CASE ST_HoldLost
    BY <1>2, <2>3 DEF ST_HoldLost, EnterStateFunction, Ignored
  <2> QED
    BY <2>1, <2>2, <2>3
<1>4. currentState' \in {"HOLD", "RECEIVE", "SCAN"}
  BY <1>2, <1>3 DEF IndInv, TypeOK, ScanType
<1>5. /\ EntryInv /\ phase # "off" /\ phase # "boot"
      /\ file.mode = "MANUAL" => ManualKept
      /\ file.mode = "HOLD" /\ file.id \in db.channels => HoldKept
  BY <1>1, <1>2, <1>4, WorkingFrame
<1>6. EntryInv'
  BY <1>1, <1>5 DEF EntryInv, holdVars, entryVars
<1>7. file.mode = "MANUAL" => ManualKept'
  BY <1>1, <1>2, <1>3, <1>4, <1>5 DEF ManualKept, holdVars, entryVars, ctxVars
<1>8. file.mode = "HOLD" /\ file.id \in db.channels => HoldKept'
  BY <1>1, <1>2, <1>3, <1>4, <1>5 DEF HoldKept, holdVars, entryVars, ctxVars
<1> QED
  BY <1>1, <1>2, <1>4, <1>6, <1>7, <1>8, WorkingFrame

\* The event for SCAN that ST_Receive posts for a locked out channel is replaced
\* before anybody sees it.
LEMMA ReceiveRestores ==
  ASSUME IndInv, RestoreInv, Quiet, ST_ReceiveBegin \/ ST_ReceiveEnd
  PROVE  RestoreInv'
<1>1. UNCHANGED <<db, file, saved, phase, requests, call, deinit, holdVars, entryVars>>
  BY DEF ST_ReceiveBegin, ST_ReceiveEnd, sysVars, lifeVars
<1>2. /\ currentState \in {"RECEIVE", "SCAN"} /\ engine \in {"wait", "receive"}
      /\ engine = "receive" => ctxState = "RECEIVE"
      /\ engine = "wait" => currentState = "RECEIVE"
  BY DEF ST_ReceiveBegin, ST_ReceiveEnd, IndInv, EngineOK, EventTaken
<1>3. /\ currentState' \in {"HOLD", "RECEIVE"} \/ (engine' = "receive" /\ currentState' = "SCAN")
      /\ currentState' = "SCAN" => LockedOut(currentEntry)
      /\ engine' # "holdPost"
  BY DEF ST_ReceiveBegin, ST_ReceiveEnd, EventTaken, EnterStateFunction, ReturnPosting,
     InternalEvent
<1>4. /\ EntryInv /\ phase # "off" /\ phase # "boot"
      /\ file.mode = "MANUAL" => ManualKept
      /\ file.mode = "HOLD" /\ file.id \in db.channels => HoldKept
  BY <1>1, <1>2, <1>3, WorkingFrame
<1>5. EntryInv'
  BY <1>1, <1>4 DEF EntryInv, holdVars, entryVars
<1>6. file.mode = "MANUAL" => ManualKept'
  <2> SUFFICES ASSUME file.mode = "MANUAL" PROVE ManualKept'
    OBVIOUS
  <2>1. ManualKept /\ manualMode
    BY <1>2, <1>4 DEF ManualKept
  <2>2. ~LockedOut(currentEntry)
    BY <1>4, <2>1 DEF EntryInv, LockedOut
  <2> QED
    BY <1>1, <1>3, <2>1, <2>2 DEF ManualKept, holdVars, entryVars
<1>7. file.mode = "HOLD" /\ file.id \in db.channels => HoldKept'
  <2> SUFFICES ASSUME file.mode = "HOLD", file.id \in db.channels PROVE HoldKept'
    OBVIOUS
  <2>1. HoldKept /\ currentEntry = Chan(file.id)
    BY <1>2, <1>4 DEF HoldKept
  <2> QED
    BY <1>1, <1>3, <1>4, <2>1 DEF HoldKept, holdVars, entryVars
<1> QED
  BY <1>1, <1>2, <1>3, <1>5, <1>6, <1>7, WorkingFrame

\* ST_Manual makes the entry that the file has.
LEMMA ManualRestores ==
  ASSUME IndInv, RestoreInv, Quiet, ST_Manual \/ ST_ManualFault
  PROVE  RestoreInv'
<1>1. UNCHANGED <<db, file, saved, phase, requests, call, deinit, holdIndex, ctxVars>>
  BY DEF ST_Manual, ST_ManualFault, sysVars, lifeVars, scanVars, holdVars
<1>2. /\ currentState = "MANUAL" /\ engine = "wait"
      /\ currentState' \in {"MANUAL", "HOLD"} /\ engine' \in {"wait", "crashed"}
  BY DEF ST_Manual, ST_ManualFault, EventTaken, ReturnPosting, InternalEvent,
     EnterStateFunction
<1>3. /\ EntryInv /\ phase # "off"
      /\ file.mode = "MANUAL" => ManualKept
      /\ ~(file.mode = "HOLD" /\ file.id \in db.channels)
  BY <1>1, <1>2, WorkingFrame DEF HoldKept
<1>4. holdIndex = NoId
  BY <1>3 DEF EntryInv
<1>5. EntryInv'
  <2>1. CASE ST_Manual
    <3>1. PICK f \in Freqs \cup Channels : currentEntry' = Manual(f)
      BY <2>1 DEF ST_Manual
    <3>2. currentEntry'.kind = "manual"
      BY <3>1, EntryFacts
    <3> QED
      BY <1>1, <1>4, <3>2 DEF EntryInv
  <2>2. CASE ST_ManualFault
    BY <1>1, <1>3, <2>2 DEF EntryInv, ST_ManualFault, scanVars, holdVars, entryVars
  <2> QED
    BY <2>1, <2>2
<1>6. file.mode = "MANUAL" => ManualKept'
  <2> SUFFICES ASSUME file.mode = "MANUAL" PROVE ManualKept'
    OBVIOUS
  <2>1. ManualKept /\ pEventData = file.id
    BY <1>2, <1>3 DEF ManualKept
  <2>2. file.id \in Freqs \cup Channels
    BY SavedFacts DEF IndInv, TypeOK, SystemType
  <2>3. pEventData \notin {RawData, NoData}
    BY <2>1, <2>2, ScannerAssumption
  <2>4. ST_Manual /\ currentEntry' = Manual(file.id) /\ manualMode' /\ externalHold'
    BY <2>1, <2>3 DEF ST_Manual, ST_ManualFault
  <2>5. currentState' = "HOLD"
    BY <2>4 DEF ST_Manual, ReturnPosting, InternalEvent
  <2> QED
    BY <1>1, <1>2, <1>4, <2>4, <2>5 DEF ManualKept
<1> QED
  BY <1>1, <1>2, <1>3, <1>5, <1>6, WorkingFrame

\* ST_SaveAll records the mode the scanner is in, and ST_Stopped keeps it.
LEMMA StopRestores ==
  ASSUME IndInv, RestoreInv, Quiet, ST_SaveAll \/ ST_SaveAllFault \/ ST_Stopped
  PROVE  RestoreInv'
<1>1. UNCHANGED <<db, file, phase, requests, call, holdVars, entryVars, ctxVars>>
  BY DEF ST_SaveAll, ST_SaveAllFault, ST_Stopped, sysVars, lifeVars, scanVars
<1>2. /\ currentState \in {"SAVEALL", "STOPPED"} /\ engine = "wait"
      /\ currentState' \in {"SAVEALL", "STOPPED"}
      /\ engine' \notin {"receive", "holdPost"}
  BY DEF ST_SaveAll, ST_SaveAllFault, ST_Stopped, EventTaken, ReturnPosting, ReturnStopped,
     InternalEvent, EnterStateFunction
<1>3. MainCallInv /\ EntryInv
  BY DEF RestoreInv
<1>4. phase = "stopping" /\ call["main"].pc = "idle" /\ ~deinit
  BY <1>2, <1>3 DEF MainCallInv
<1>5. deinit' => currentState' = "STOPPED" /\ engine' = "done"
  BY <1>4 DEF ST_SaveAll, ST_SaveAllFault, ST_Stopped, sysVars, lifeVars, EventTaken,
     ReturnStopped
<1>6. MainCallInv' /\ StartInv'
  BY <1>1, <1>2, <1>3, <1>4, <1>5 DEF MainCallInv, StartInv
<1>7. EntryInv'
  BY <1>1, <1>3 DEF EntryInv, holdVars, entryVars
<1>8. file.mode = "MANUAL" => ManualKept'
  BY <1>1, <1>2, <1>4 DEF RestoreInv, ManualKept, holdVars, entryVars, ctxVars
<1>9. file.mode = "HOLD" /\ file.id \in db.channels => HoldKept'
  BY <1>1, <1>2, <1>4 DEF RestoreInv, HoldKept, holdVars, entryVars, ctxVars
<1>10. ASSUME currentState' = "STOPPED" PROVE Restored(saved)'
  <2>1. CASE ST_SaveAll
    <3>1. saved' = SavedMode /\ currentEntry \in Entries /\ db.channels \subseteq Channels
      BY <2>1 DEF ST_SaveAll, IndInv, TypeOK, ScanType, SystemType, Databases
    <3>2. CASE manualMode
      <4>1. saved' = [mode |-> "MANUAL", id |-> currentEntry.id]
        BY <3>1, <3>2 DEF SavedMode
      <4>2. currentEntry = Manual(currentEntry.id)
        BY <1>3, <3>1, <3>2, EntryOfId DEF EntryInv
      <4> QED
        BY <1>1, <3>2, <4>1, <4>2 DEF Restored, entryVars
    <3>3. CASE ~manualMode /\ externalHold
      <4>1. saved' = [mode |-> "HOLD", id |-> IF currentEntry.kind = "channel"
                                              THEN currentEntry.id ELSE BadId]
        BY <3>1, <3>3 DEF SavedMode
      <4>2. saved'.id \in db.channels => currentEntry = Chan(saved'.id)
        BY <3>1, <4>1, EntryOfId, ScannerAssumption
      <4> QED
        BY <1>1, <3>3, <4>1, <4>2 DEF Restored, holdVars, entryVars
    <3>4. CASE ~manualMode /\ ~externalHold
      BY <3>1, <3>4 DEF SavedMode, Scanning, Restored
    <3> QED
      BY <3>2, <3>3, <3>4
  <2>2. CASE ST_SaveAllFault \/ ST_Stopped
    <3>1. currentState = "STOPPED" /\ saved' = saved
      BY <1>10, <2>2 DEF ST_SaveAllFault, ST_Stopped, EventTaken, EnterStateFunction,
         sysVars, lifeVars
    <3>2. Restored(saved)
      BY <3>1 DEF RestoreInv
    <3> QED
      BY <1>1, <3>1, <3>2 DEF Restored, holdVars, entryVars
  <2> QED
    BY <2>1, <2>2
<1> QED
  BY <1>1, <1>4, <1>6, <1>7, <1>8, <1>9, <1>10 DEF RestoreInv

\* ST_Load parks.
LEMMA LoadRestores == ASSUME IndInv, RestoreInv, Quiet, ST_Load PROVE RestoreInv'
<1>1. /\ UNCHANGED <<db, file, saved, phase, requests, call, holdVars, entryVars, ctxVars>>
      /\ UNCHANGED currentState /\ currentState = "LOAD" /\ engine' = "wait" /\ ~deinit'
  BY DEF ST_Load, EventTaken, ReturnParked, scanVars
<1>2. MainCallInv /\ phase # "off"
  BY <1>1 DEF RestoreInv, MainCallInv
<1>3. MainCallInv'
  BY <1>1, <1>2 DEF MainCallInv, holdVars, entryVars, ctxVars
<1>4. StartInv' /\ EntryInv'
  BY <1>1 DEF RestoreInv, StartInv, EntryInv, holdVars, entryVars
<1>5. file.mode = "MANUAL" => ManualKept'
  BY <1>1, <1>2 DEF RestoreInv, ManualKept, holdVars, entryVars, ctxVars
<1>6. file.mode = "HOLD" /\ file.id \in db.channels => HoldKept'
  BY <1>1, <1>2 DEF RestoreInv, HoldKept, holdVars, entryVars, ctxVars
<1> QED
  BY <1>1, <1>2, <1>3, <1>4, <1>5, <1>6 DEF RestoreInv

\* startScanner asks for the mode in the file.
LEMMA MainStartRestores == ASSUME IndInv, RestoreInv, Quiet, MainStart PROVE RestoreInv'
<1>1. /\ UNCHANGED <<db, file, saved, requests, currentState, holdIndex, entryVars, ctxVars>>
      /\ UNCHANGED <<deinit, holdNext>>
      /\ phase = "boot" /\ phase' \in {"starting", "hung"} /\ engine' \in {engine, "crashed"}
  BY DEF MainStart, timeVars, smVars
<1>2. /\ MainCallInv /\ currentState = "LOAD" /\ saved = file /\ ~externalHold
      /\ call["main"].pc = "idle" /\ holdIndex = NoId /\ ~manualMode /\ currentEntry = NoEntry
      /\ ctxState = "OTHER" /\ ~deinit /\ engine \in {"wait", "crashed"}
  BY <1>1 DEF RestoreInv, MainCallInv
<1>3. call \in [Callers -> Calls] /\ "main" \in Callers /\ file \in SavedStates
  BY DEF IndInv, TypeOK, SystemType, Callers
<1>4. \A c \in Clients : call'[c].pc = "idle"
  BY <1>2, <1>3 DEF MainStart, BeginCall, BeginHold, MainCallInv, Clients
<1>5. CASE file.mode = "HOLD" /\ file.id \in db.channels
  <2>1. /\ BeginHold("main", file.id) /\ phase' = "starting"
    BY <1>2, <1>5 DEF MainStart
  <2>2. call'["main"] = [pc |-> "index", op |-> "holdScan", arg |-> file.id,
                         target |-> Ignored]
        /\ externalHold' = TRUE
    BY <1>3, <2>1 DEF BeginHold
  <2>3. MainCallInv'
    BY <1>1, <1>2, <1>4, <2>1, <2>2 DEF MainCallInv, entryVars, ctxVars
  <2>5. StartInv'
    BY <1>1, <1>2, <1>5, <2>1, <2>2 DEF StartInv
  <2>4. EntryInv' /\ HoldKept'
    BY <1>1, <1>2, <2>2 DEF EntryInv, HoldKept, entryVars, ctxVars
  <2> QED
    BY <1>1, <1>2, <1>5, <2>1, <2>3, <2>4, <2>5 DEF RestoreInv
<1>6. CASE ~(file.mode = "HOLD" /\ file.id \in db.channels)
  <2>1. /\ UNCHANGED externalHold
        /\ \/ call'["main"].pc = "idle"
           \/ /\ call'["main"].pc = "lookup" /\ phase' = "starting"
              /\ IF file.mode = "MANUAL"
                 THEN call'["main"].op = "manualEntry" /\ call'["main"].arg = file.id
                 ELSE call'["main"].op = "startScan"
    BY <1>2, <1>3, <1>6 DEF MainStart, BeginCall
  <2>2. MainCallInv'
    BY <1>1, <1>2, <1>4, <2>1 DEF MainCallInv, entryVars, ctxVars
  <2>4. StartInv'
    BY <1>1, <1>2, <1>6, <2>1 DEF StartInv
  <2>3. EntryInv' /\ (file.mode = "MANUAL" => ManualKept')
    BY <1>1, <1>2, <2>1 DEF EntryInv, ManualKept, entryVars, ctxVars
  <2> QED
    BY <1>1, <1>2, <1>6, <2>2, <2>3, <2>4 DEF RestoreInv
<1> QED
  BY <1>5, <1>6

\* Main goes on when the call of startScanner has returned, and stops.
LEMMA MainRestores ==
  ASSUME IndInv, RestoreInv, Quiet, MainRunning \/ MainSave \/ MainStop
  PROVE  RestoreInv'
<1>1. /\ UNCHANGED <<smVars, scanVars, db, deinit, saved, requests>>
      /\ phase # "off" /\ phase # "boot"
  BY DEF MainRunning, MainSave, MainStop
<1>2. MainCallInv /\ StartInv /\ EntryInv
  BY DEF RestoreInv
<1>3. CASE MainRunning
  <2>1. /\ UNCHANGED <<call, file>> /\ call["main"].pc = "idle" /\ phase = "starting"
        /\ phase' = "running"
    BY <1>3 DEF MainRunning
  <2>2. MainCallInv' /\ StartInv' /\ EntryInv'
    BY <1>1, <1>2, <2>1 DEF MainCallInv, StartInv, EntryInv, smVars, scanVars, holdVars,
       entryVars, ctxVars
  <2> QED
    BY <1>1, <2>1, <2>2 DEF RestoreInv, ManualKept, HoldKept, Restored, smVars, scanVars,
       holdVars, entryVars, ctxVars, timeVars
<1>4. CASE MainSave
  <2>1. /\ UNCHANGED call /\ call["main"].pc = "idle" /\ phase = "stopping"
        /\ phase' = "off" /\ file' = saved /\ deinit
    BY <1>4 DEF MainSave
  <2>2. MainCallInv' /\ StartInv' /\ EntryInv'
    BY <1>1, <1>2, <2>1 DEF MainCallInv, StartInv, EntryInv, smVars, scanVars, holdVars,
       entryVars, ctxVars
  <2> QED
    BY <1>1, <2>1, <2>2 DEF RestoreInv, Restored, smVars, scanVars, holdVars, entryVars
<1>5. CASE MainStop
  <2>1. /\ UNCHANGED file /\ phase = "running" /\ phase' = "stopping"
        /\ BeginCall("main", "stopScanner", NoId)
    BY <1>5 DEF MainStop
  <2>2. /\ call'["main"] = [pc |-> "lookup", op |-> "stopScanner", arg |-> NoId,
                            target |-> Ignored]
        /\ \A c \in Clients : call'[c] = call[c]
    BY <2>1 DEF BeginCall, IndInv, TypeOK, Callers, Clients
  <2>3. MainCallInv' /\ StartInv' /\ EntryInv'
    BY <1>1, <1>2, <2>1, <2>2 DEF MainCallInv, StartInv, EntryInv, smVars, scanVars, holdVars,
       entryVars, ctxVars
  <2> QED
    BY <1>1, <2>1, <2>3 DEF RestoreInv, ManualKept, HoldKept, Restored, smVars, scanVars,
       holdVars, entryVars, ctxVars, timeVars
<1> QED
  BY <1>3, <1>4, <1>5
\* What a step of main's call leaves alone.
LEMMA CallFrame ==
  ASSUME IndInv, RestoreInv, Quiet, NEW c \in Callers, CallerStep(c)
  PROVE  /\ c = "main" /\ MainCallInv /\ StartInv /\ EntryInv
         /\ UNCHANGED <<db, file, saved, phase, requests, deinit, externalHold>>
         /\ UNCHANGED <<engine, holdNext, entryVars, ctxVars>>
         /\ phase \in {"starting", "stopping"}
         /\ \A d \in Clients : call'[d] = call[d]
         /\ call \in [Callers -> Calls]
<1>1. MainCallInv /\ StartInv /\ EntryInv /\ call \in [Callers -> Calls]
  BY DEF RestoreInv, IndInv, TypeOK
<1>2. call[c].pc # "idle"
  BY DEF CallerStep, StoreHoldIndex, CallerLookup, CallerPost
<1>3. c = "main"
  BY <1>1, <1>2 DEF MainCallInv, Callers, Clients
<1>4. phase \in {"starting", "stopping"}
  BY <1>1, <1>2, <1>3 DEF MainCallInv, IndInv, TypeOK, SystemType
<1>5. /\ UNCHANGED <<db, file, saved, phase, requests, deinit, externalHold>>
      /\ UNCHANGED <<engine, holdNext, entryVars, ctxVars>>
  BY DEF CallerStep, StoreHoldIndex, CallerLookup, CallerPost, ExternalEvent, smVars,
     scanVars, holdVars, timeVars, sysVars, lifeVars
<1>6. \A d \in Clients : call'[d] = call[d]
  BY <1>1, <1>3 DEF CallerStep, StoreHoldIndex, CallerLookup, CallerPost, Callers, Clients
<1> QED
  BY <1>1, <1>3, <1>4, <1>5, <1>6

\* The index that main stores is that of the file.
LEMMA StoreRestores ==
  ASSUME IndInv, RestoreInv, Quiet, NEW c \in Callers, StoreHoldIndex(c)
  PROVE  RestoreInv'
<1>1. CallerStep(c) /\ UNCHANGED smVars
  BY DEF CallerStep, StoreHoldIndex
<1>2. /\ c = "main" /\ MainCallInv /\ StartInv /\ EntryInv
      /\ UNCHANGED <<db, file, saved, phase, requests, deinit, externalHold>>
      /\ UNCHANGED <<engine, holdNext, entryVars, ctxVars>>
      /\ phase \in {"starting", "stopping"}
      /\ \A d \in Clients : call'[d] = call[d]
      /\ call \in [Callers -> Calls]
  BY <1>1, CallFrame
<1>3. call["main"].pc = "index" /\ "main" \in Callers
  BY <1>2 DEF StoreHoldIndex
<1>4. phase = "starting" /\ currentState = "LOAD"
  BY <1>2, <1>3 DEF MainCallInv
<1>5. call["main"].op = "holdScan" /\ call["main"].arg = file.id
  BY <1>2, <1>3, <1>4 DEF StartInv, IndInv, CallsOK, CallOK
<1>6. file.mode = "HOLD" /\ file.id \in db.channels /\ externalHold
  BY <1>2, <1>3, <1>4, <1>5 DEF StartInv
<1>7. call'["main"] = [call["main"] EXCEPT !.pc = "lookup"] /\ holdIndex' = file.id
  BY <1>2, <1>3, <1>5 DEF StoreHoldIndex
<1>8. call'["main"].pc = "lookup" /\ call'["main"].op = "holdScan" /\ call'["main"].arg = file.id
  BY <1>2, <1>3, <1>5, <1>7 DEF Calls
<1>9. MainCallInv'
  BY <1>1, <1>2, <1>4, <1>8 DEF MainCallInv, entryVars, ctxVars, smVars
<1>10. StartInv'
  BY <1>2, <1>4, <1>6, <1>7, <1>8 DEF StartInv
<1>11. EntryInv'
  BY <1>2, <1>4, <1>6, <1>7 DEF MainCallInv, EntryInv, entryVars
<1>12. HoldKept'
  BY <1>1, <1>2, <1>4, <1>6, <1>7 DEF RestoreInv, HoldKept, MainCallInv, entryVars, ctxVars, smVars
<1> QED
  BY <1>1, <1>2, <1>4, <1>6, <1>9, <1>10, <1>11, <1>12 DEF RestoreInv, smVars

\* None of main's requests is ignored.
LEMMA LookupRestores ==
  ASSUME IndInv, RestoreInv, Quiet, NEW c \in Callers, CallerLookup(c)
  PROVE  RestoreInv'
<1>1. CallerStep(c) /\ UNCHANGED <<smVars, scanVars>>
  BY DEF CallerStep, CallerLookup
<1>2. /\ c = "main" /\ MainCallInv /\ StartInv /\ EntryInv
      /\ UNCHANGED <<db, file, saved, phase, requests, deinit, externalHold>>
      /\ UNCHANGED <<engine, holdNext, entryVars, ctxVars>>
      /\ phase \in {"starting", "stopping"}
      /\ \A d \in Clients : call'[d] = call[d]
      /\ call \in [Callers -> Calls]
  BY <1>1, CallFrame
<1> DEFINE target == TRANSITIONS[call["main"].op][currentState]
<1>3. /\ call["main"].pc = "lookup" /\ "main" \in Callers
      /\ call["main"].op \in Ops /\ currentState \in States
  BY <1>2 DEF CallerLookup, Calls, IndInv, TypeOK, EngineType
<1>4. call'["main"] = IF target = Ignored THEN Idle
                      ELSE [call["main"] EXCEPT !.pc = "post", !.target = target]
  BY <1>2, <1>3 DEF CallerLookup
<1>5. phase = "starting" => currentState = "LOAD"
  BY <1>2, <1>3 DEF MainCallInv
<1>6. phase = "stopping" =>
        call["main"].op = "stopScanner" /\ currentState \notin {"SAVEALL", "STOPPED"}
  BY <1>2, <1>3 DEF MainCallInv
<1>7. phase = "stopping" => target = "SAVEALL"
  BY <1>3, <1>6 DEF TRANSITIONS, AcceptsStop, Ignored
<1>8. phase = "starting" => call["main"].op \in {"startScan", "holdScan", "manualEntry"}
  BY <1>2, <1>3 DEF StartInv
<1>9. phase = "starting" => target = TRANSITIONS[call["main"].op]["LOAD"] /\ target # Ignored
  <2> SUFFICES ASSUME phase = "starting"
               PROVE  TRANSITIONS[call["main"].op]["LOAD"] # Ignored
    BY <1>5
  <2>1. CASE call["main"].op = "startScan"
    BY <2>1 DEF TRANSITIONS, AcceptsScan, Ignored, States
  <2>2. CASE call["main"].op = "holdScan"
    BY <2>2 DEF TRANSITIONS, AcceptsHold, Ignored, States
  <2>3. CASE call["main"].op = "manualEntry"
    BY <2>3 DEF TRANSITIONS, AcceptsManual, Ignored, States
  <2> QED
    BY <1>8, <2>1, <2>2, <2>3
<1> HIDE DEF target
<1>10. target # Ignored
  BY <1>2, <1>7, <1>9 DEF Ignored
<1>11. /\ call'["main"].pc = "post" /\ call'["main"].op = call["main"].op
       /\ call'["main"].arg = call["main"].arg /\ call'["main"].target = target
  BY <1>2, <1>3, <1>4, <1>10 DEF Calls
<1>12. MainCallInv'
  BY <1>1, <1>2, <1>3, <1>5, <1>6, <1>7, <1>11
  DEF MainCallInv, entryVars, ctxVars, smVars, scanVars, holdVars
<1>13. StartInv'
  BY <1>1, <1>2, <1>3, <1>9, <1>11 DEF StartInv, scanVars, holdVars
<1>14. EntryInv'
  BY <1>1, <1>2 DEF EntryInv, entryVars, scanVars, holdVars
<1> QED
  BY <1>1, <1>2, <1>12, <1>13, <1>14
  DEF RestoreInv, ManualKept, HoldKept, Restored, entryVars, ctxVars, smVars, scanVars, holdVars

\* Main posts the mode of the file, or the stop.
LEMMA PostRestores ==
  ASSUME IndInv, RestoreInv, Quiet, NEW c \in Callers, CallerPost(c)
  PROVE  RestoreInv'
<1>1. CallerStep(c) /\ UNCHANGED scanVars
  BY DEF CallerStep, CallerPost
<1>2. /\ c = "main" /\ MainCallInv /\ StartInv /\ EntryInv
      /\ UNCHANGED <<db, file, saved, phase, requests, deinit, externalHold>>
      /\ UNCHANGED <<engine, holdNext, entryVars, ctxVars>>
      /\ phase \in {"starting", "stopping"}
      /\ \A d \in Clients : call'[d] = call[d]
      /\ call \in [Callers -> Calls]
  BY <1>1, CallFrame
<1>3. /\ call["main"].pc = "post" /\ "main" \in Callers
      /\ call'["main"] = Idle /\ Idle.pc = "idle"
      /\ currentState' = call["main"].target
      /\ pEventData' = IF call["main"].op = "manualEntry" THEN call["main"].arg ELSE NoData
      /\ engine \in {"wait", "done"}
  BY <1>2 DEF CallerPost, ExternalEvent, InternalEvent, MutexFree, Idle
<1>4. phase = "stopping" => currentState' = "SAVEALL"
  BY <1>2, <1>3 DEF MainCallInv
<1>5. phase = "starting" =>
        /\ currentState = "LOAD"
        /\ currentState' = IF file.mode = "MANUAL" THEN "MANUAL"
                           ELSE IF file.mode = "HOLD" /\ file.id \in db.channels THEN "HOLD"
                           ELSE "SCAN"
  <2> SUFFICES ASSUME phase = "starting"
               PROVE  /\ currentState = "LOAD"
                      /\ currentState' = IF file.mode = "MANUAL" THEN "MANUAL"
                                         ELSE IF file.mode = "HOLD" /\ file.id \in db.channels
                                         THEN "HOLD" ELSE "SCAN"
    OBVIOUS
  <2>1. currentState = "LOAD" /\ currentState' = TRANSITIONS[call["main"].op]["LOAD"]
    BY <1>2, <1>3 DEF MainCallInv, StartInv
  <2>2. call["main"].op = IF file.mode = "MANUAL" THEN "manualEntry"
                          ELSE IF file.mode = "HOLD" /\ file.id \in db.channels THEN "holdScan"
                          ELSE "startScan"
    BY <1>2, <1>3 DEF StartInv
  <2>3. /\ TRANSITIONS["manualEntry"]["LOAD"] = "MANUAL"
        /\ TRANSITIONS["holdScan"]["LOAD"] = "HOLD"
        /\ TRANSITIONS["startScan"]["LOAD"] = "SCAN"
    BY DEF TRANSITIONS, AcceptsManual, AcceptsHold, AcceptsScan, States
  <2> QED
    BY <2>1, <2>2, <2>3
<1>6. currentState' \in {"SAVEALL", "MANUAL", "HOLD", "SCAN"}
      /\ (currentState' = "SAVEALL" => phase = "stopping")
  BY <1>2, <1>4, <1>5
<1>7. MainCallInv'
  BY <1>1, <1>2, <1>3, <1>6 DEF MainCallInv
<1>8. StartInv' /\ EntryInv'
  BY <1>1, <1>2, <1>3 DEF StartInv, EntryInv, entryVars, scanVars, holdVars
<1>9. file.mode = "MANUAL" => ManualKept'
  <2> SUFFICES ASSUME file.mode = "MANUAL" PROVE ManualKept'
    OBVIOUS
  <2>1. ManualKept
    BY <1>2 DEF RestoreInv
  <2>2. currentState' = "MANUAL" => pEventData' = file.id
    BY <1>2, <1>3, <1>4 DEF StartInv
  <2>3. currentState' \in {"MANUAL", "SAVEALL"}
    BY <1>2, <1>4, <1>5
  <2> QED
    BY <1>1, <1>2, <1>3, <2>1, <2>2, <2>3 DEF ManualKept, entryVars, ctxVars, scanVars, holdVars
<1>10. file.mode = "HOLD" /\ file.id \in db.channels => HoldKept'
  <2> SUFFICES ASSUME file.mode = "HOLD", file.id \in db.channels PROVE HoldKept'
    OBVIOUS
  <2>1. HoldKept
    BY <1>2 DEF RestoreInv
  <2>2. phase = "starting" => holdIndex = file.id
    BY <1>2, <1>3 DEF StartInv
  <2>3. currentState' \in {"HOLD", "SAVEALL"} /\ (currentState' = "HOLD" => phase = "starting")
    BY <1>2, <1>4, <1>5
  <2> QED
    BY <1>1, <1>2, <1>3, <2>1, <2>2, <2>3 DEF HoldKept, entryVars, ctxVars, scanVars, holdVars
<1> QED
  BY <1>2, <1>6, <1>7, <1>8, <1>9, <1>10 DEF RestoreInv

\* A process that starts has nothing but the file.
LEMMA BootRestores ==
  /\ Init => RestoreInv
  /\ IndInv /\ Reboot => RestoreInv'
<1>1. \A d \in Callers : [e \in Callers |-> Idle][d].pc = "idle"
  BY DEF Idle
<1>2. "main" \in Callers /\ Clients \subseteq Callers /\ NoEntry.kind = "null"
  BY EntryFacts DEF Callers, Clients
<1>3. ASSUME Init PROVE RestoreInv
  <2>1. MainCallInv /\ StartInv /\ EntryInv
    BY <1>1, <1>2, <1>3 DEF Init, Booted, Started, MainCallInv, StartInv, EntryInv
  <2>2. ManualKept /\ HoldKept /\ currentState = "LOAD" /\ phase = "boot"
    BY <1>3 DEF Init, Booted, Started, ManualKept, HoldKept
  <2> QED
    BY <2>1, <2>2 DEF RestoreInv
<1>4. ASSUME Reboot PROVE RestoreInv'
  <2>1. MainCallInv' /\ StartInv' /\ EntryInv'
    BY <1>1, <1>2, <1>4 DEF Reboot, StartEngine, InternalEvent, MainCallInv, StartInv, EntryInv
  <2>2. ManualKept' /\ HoldKept' /\ currentState' = "LOAD" /\ phase' = "boot"
    BY <1>4 DEF Reboot, StartEngine, InternalEvent, ManualKept, HoldKept
  <2> QED
    BY <2>1, <2>2 DEF RestoreInv
<1> QED
  BY <1>3, <1>4

\* Every step keeps the mode of the file, until somebody makes a request.
LEMMA RestoreStep == IndInv /\ RestoreInv /\ [Next]_vars => RestoreInv'
<1> SUFFICES ASSUME IndInv, RestoreInv, [Next]_vars PROVE RestoreInv'
  OBVIOUS
<1>1. CASE Reboot
  BY <1>1, BootRestores
<1>2. CASE \E c \in Clients : Request(c)
  <2>1. requests \in Nat /\ requests' = requests + 1
    BY <1>2, BoundFacts DEF Request, RequestScan, RequestManual, RequestHold, IndInv, TypeOK,
       SystemType
  <2> QED
    BY <2>1 DEF RestoreInv, Quiet
<1>3. CASE ~Quiet /\ UNCHANGED requests
  BY <1>3 DEF RestoreInv, Quiet
<1>4. CASE Quiet /\ EngineStep
  BY <1>4, ScanRestores, HoldBeginRestores, HoldRestores, ReceiveRestores, ManualRestores,
     StopRestores, LoadRestores DEF EngineStep
<1>5. CASE Quiet /\ (MainStep \/ MainStop)
  BY <1>5, MainStartRestores, MainRestores DEF MainStep
<1>6. CASE Quiet /\ \E c \in Callers : CallerStep(c)
  BY <1>6, StoreRestores, LookupRestores, PostRestores DEF CallerStep
<1>7. CASE DelayExpires \/ UNCHANGED vars
  BY <1>7 DEF DelayExpires, vars, smVars, scanVars, holdVars, entryVars, timeVars, ctxVars,
     sysVars, lifeVars, RestoreInv, MainCallInv, StartInv, EntryInv, ManualKept, HoldKept,
     Restored, Quiet
<1>8. CASE EngineStep \/ MainStep \/ MainStop \/ (\E c \in Callers : CallerStep(c))
  <2>1. UNCHANGED requests
    <3>1. CASE EngineStep
      BY <3>1 DEF EngineStep, ST_Load, ST_ScanEmpty, ST_ScanBegin, ST_ScanEnd, ST_HoldBegin,
         ST_HoldLost, ST_HoldDecide, ST_HoldEnd, ST_ReceiveBegin, ST_ReceiveEnd, ST_Manual,
         ST_ManualFault, ST_SaveAll, ST_SaveAllFault, ST_Stopped, sysVars, lifeVars
    <3>2. CASE MainStep \/ MainStop
      BY <3>2 DEF MainStep, MainStart, MainRunning, MainSave, MainStop
    <3>3. CASE \E c \in Callers : CallerStep(c)
      BY <3>3 DEF CallerStep, StoreHoldIndex, CallerLookup, CallerPost, sysVars, lifeVars
    <3> QED
      BY <1>8, <3>1, <3>2, <3>3
  <2> QED
    BY <1>3, <1>4, <1>5, <1>6, <1>8, <2>1
<1> QED
  BY <1>1, <1>2, <1>7, <1>8 DEF Next

\* A process nobody sends requests to goes back to the manual frequency or the
\* held channel of the state file, and stays with it until it is stopped.
THEOREM SavedModeIsRestored == Spec => []RestoresSavedMode
<1>1. RestoreInv => RestoresSavedMode
  <2> SUFFICES ASSUME RestoreInv, requests = 0, ctxState # "OTHER"
               PROVE  Restored(file)
    BY DEF RestoresSavedMode, Restored
  <2>1. CASE phase = "off"
    BY <2>1 DEF RestoreInv, MainCallInv, Quiet, Restored
  <2>2. CASE phase # "off"
    BY <2>2 DEF RestoreInv, MainCallInv, ManualKept, HoldKept, Quiet, Restored
  <2> QED
    BY <2>1, <2>2
<1>2. Init => RestoreInv
  BY BootRestores
<1> QED
  BY <1>1, <1>2, RestoreStep, InductiveInvariant, PTL DEF Spec
=============================================================================
