------------------------- MODULE ScannerProperties -------------------------
(***************************************************************************)
(* What the scanner of ScannerSM promises: invariants, action properties   *)
(* and liveness, then the statements of the documentation that it breaks.  *)
(***************************************************************************)
EXTENDS ScannerSM

Labels == {"wait", "scan", "hold", "holdPost", "receive", "done", "crashed", "hung"}

Ids == Channels \cup Freqs
Contexts == [state : {"OTHER", "SCAN", "HOLD", "RECEIVE"}, manual : BOOLEAN,
             id : Ids \cup {NoId}]
Calls == [pc : {"idle", "index", "lookup", "post"}, op : Ops,
          arg : Ids \cup {NoId, BadId}, target : States \cup {Ignored}]

EngineType ==
  /\ currentState \in States /\ lastState \in States
  /\ evtSrcExternal \in BOOLEAN /\ eventGenerated \in BOOLEAN /\ run \in BOOLEAN
  /\ pEventData \in Ids \cup {NoData, RawData}
  /\ engine \in Labels

ScanType ==
  /\ externalHold \in BOOLEAN /\ manualMode \in BOOLEAN
  /\ holdIndex \in Indexes /\ currentEntry \in Entries
  /\ squelchHits \in 0..TriggerHits /\ delayRunning \in BOOLEAN
  /\ holdNext \in {"RECEIVE", "HOLD", "SCAN", Ignored}
  /\ ctxState \in {"OTHER", "SCAN", "HOLD", "RECEIVE"} /\ published \in Contexts
  /\ modem \in {"NFM", "AM"} /\ tuned \in {"NFM", "AM"}
  /\ openModems \subseteq {"NFM", "AM"}

SystemType ==
  /\ db \in Databases /\ saved \in SavedStates /\ file \in SavedStates
  /\ ready \in BOOLEAN /\ deinit \in BOOLEAN
  /\ phase \in {"boot", "starting", "running", "stopping", "off", "hung"}
  /\ requests \in 0..MaxRequests /\ boots \in 0..MaxBoots

\* Every variable has its type, the parts in the order of ScannerSM's tuples.
TypeOK == EngineType /\ ScanType /\ SystemType /\ call \in [Callers -> Calls]

\* While audio can be heard (a modem is open) it comes from the manager's modem,
\* and the scanner is receiving: ST_Scan and ST_Hold mute the modem that was
\* opened, although hasSignal() may have switched modems in between.
OnlyCurrentModemOpen ==
  /\ openModems \subseteq {tuned}
  /\ openModems # {} => ctxState = "RECEIVE"

\* A received entry is a real one: RECEIVE is only ever pending or running
\* with a channel or a manual entry, never with null or a retune dummy.
Real(entry) == entry.kind \in {"channel", "manual"}
Receiving == engine = "receive" \/ (engine = "wait" /\ currentState = "RECEIVE")
ReceivesRealEntry == Receiving => Real(currentEntry)

\* What is heard is what the clients were told: during reception the last
\* context handed to the server says RECEIVE and names the current entry.
Shown == published.state = "RECEIVE" /\ published.id = currentEntry.id
HeardIsShown == Receiving /\ ctxState = "RECEIVE" => Shown

\* Manual mode is always an external hold, whatever callers do in between.
ManualIsHeld == manualMode => externalHold

\* A pending event carries data exactly when it is a manual entry.
DataBelongsToManual ==
  eventGenerated => (pEventData # NoData <=> currentState = "MANUAL")

\* A locked out channel becomes the current entry only because a client held it
\* by its index, and as long as it is, the clients see that: squelch hits of an
\* earlier entry and two requests in a row can make the scan go on with it
\* (ST_Scan), but never under the name of a scan. Only getNextEntry may hang then.
LockedIsShown ==
  LockedOut(currentEntry) =>
    \/ engine = "hung"
    \/ published.state \in {"HOLD", "RECEIVE"} /\ published.id = currentEntry.id

\* What each point of the engine's thread knows; with the calls in progress it
\* makes the invariants above inductive.
EngineOK ==
  /\ engine = "scan" => /\ currentState = "SCAN" /\ ctxState = "SCAN"
                        /\ currentEntry # NoEntry /\ openModems = {}
  /\ engine \in {"hold", "holdPost"} =>
       /\ currentState = "HOLD" /\ ctxState = "HOLD"
       /\ Real(currentEntry) /\ openModems = {}
  /\ engine = "holdPost" \/ Receiving => modem = ModemOf(currentEntry)
  /\ engine = "receive" => currentState \in {"RECEIVE", "SCAN"} /\ ctxState = "RECEIVE"
  /\ Receiving /\ lastState = "RECEIVE" => Shown
  /\ squelchHits # 0 => currentEntry # NoEntry
  /\ manualMode => Real(currentEntry)

CallOK(r) ==
  /\ r.pc = "index" => r.op = "holdScan"
  /\ r.op = "holdScan" => r.arg \in Indexes
  /\ r.op = "manualEntry" => r.arg \in Ids
  /\ r.pc = "post" => /\ r.target \in {"SCAN", "HOLD", "MANUAL", "SAVEALL"}
                      /\ r.target = "MANUAL" <=> r.op = "manualEntry"

CallsOK == \A c \in Callers : CallOK(call[c])

\* The inductive invariant of the proofs: what is heard, shown and selected is
\* consistent at every point of every state function.
IndInv ==
  /\ TypeOK /\ EngineOK /\ CallsOK
  /\ OnlyCurrentModemOpen /\ ReceivesRealEntry /\ HeardIsShown
  /\ ManualIsHeld /\ DataBelongsToManual

\* A stop is under way and no caller is about to post over it.
Stopping ==
  /\ currentState \in {"SAVEALL", "STOPPED"}
  /\ \A c \in Callers : call[c].pc = "post" => call[c].target = "SAVEALL"

\* Once a stop is pending and no caller holds an older target, nothing calls it
\* off: requests that look up the transition map from now on are ignored.
StoppingSticks == [][Stopping /\ boots' = boots => Stopping']_vars

\* Such a stop is carried out, once some entry has been selected, unless the
\* machine is switched off before.
StopCompletes ==
  \A n \in 0..MaxBoots :
    (Stopping /\ currentEntry # NoEntry /\ boots = n) ~> (deinit \/ boots > n)

\* Undisturbed, the hold after a lost signal ends: its delay expires or a
\* signal comes back.
InternalHoldEnds ==
  (requests = 0 /\ currentState = "HOLD" /\ ~externalHold)
    ~> (currentState # "HOLD" \/ requests > 0)

\* A process nobody sends requests to goes back to the mode in the state file:
\* the manual frequency, the held channel (if the database still has it).
RestoresSavedMode ==
  requests = 0 /\ ctxState # "OTHER" =>
    /\ file.mode = "MANUAL" => manualMode /\ currentEntry = Manual(file.id)
    /\ file.mode = "HOLD" /\ file.id \in db.channels =>
         externalHold /\ ~manualMode /\ currentEntry = Chan(file.id)

-----------------------------------------------------------------------------
(* What the documentation says and the code does not do.                   *)

\* client/README.md:65 "Hold: pauses scanning on the currently active channel
\* or whatever channel the scanner is currently checking".
HoldPauses ==
  (call["io"].op = "holdScan" /\ call["io"].pc = "lookup")
    ~> [](ctxState # "SCAN" \/ phase # "running")
=============================================================================
