---------------------------- MODULE ModemsProofs ----------------------------
(***************************************************************************)
(* Proofs about Modems for every set of channels and centres, rate, length *)
(* of the queue and number of visits: only the tuned modem can be heard,   *)
(* and it is fed once the post thread has caught up with the tuner.        *)
(***************************************************************************)
EXTENDS ModemsProperties, SequenceTheorems, TLAPS

Places == {"newNFM", "runNFM", "tuneNFM", "newAM", "tuneAM", "runAM", "select", "idle",
           "tunerSet", "activate", "change", "deactivate", "tune", "retune", "again", "measure",
           "signal", "receive", "crashed"}

Lapses == {"skipped", "order", "early", "switched", "forgotten"}

TypeInv ==
  /\ demods \in Seq(Names) /\ todo \in Seq(Names)
  /\ frequencyChanged \in [Names -> BOOLEAN] /\ telling \in BOOLEAN
  /\ newFrequency \in [Names -> Nat] /\ currentFrequency \in [Names -> Nat]
  /\ applying \subseteq Names /\ inbox \subseteq Names
  /\ active \in [Names -> BOOLEAN] /\ muted \in [Names -> BOOLEAN]
  /\ current \in Names \cup {None} /\ context \in Names \cup {None} /\ modem \in Names
  /\ center \in Nat /\ queue \in Seq(Nat) /\ band \in Nat \cup {-1}
  /\ post \in {"pop", "update", "check", "recheck"}
  /\ runDemods \subseteq Names
  /\ user \in Places
  /\ entry \in [mode : Names, freq : Nat]
  /\ lapses \subseteq Lapses

\* From the retune on there is a current modem, it was told the entry's frequency
\* once setFrequency has called it again, and it alone is opened, in reception.
OpenInv ==
  /\ telling => Target # None
  /\ telling => user \in {"tuneNFM", "tuneAM", "tunerSet", "tune", "again"}
  /\ user \in {"retune", "again", "measure", "signal", "receive"} => current # None
  /\ user \in {"measure", "signal", "receive"} => newFrequency[current] = entry.freq
  /\ \A d \in Names : muted[d] \/ (user = "receive" /\ d = current)

\* A modem is on the frequency that it was told, unless that was forgotten.
ToldInv == "forgotten" \in lapses \/ \A d \in Names : GetFrequency(d) = newFrequency[d]

\* Nothing has been popped while main was making the modems, and no AM entry
\* has been visited.
Plain == lapses \cap {"early", "switched"} = {}

\* Main's start without batches: main has the manager for itself.
StartInv ==
  Plain /\ Starting =>
    /\ band = -1 /\ post = "pop" /\ todo = <<>> /\ runDemods = {}
    /\ current = None /\ context = None /\ modem = "NFM" /\ center = FirstCenter
    /\ demods = CASE user = "newNFM" -> <<>>
                  [] user \in {"runNFM", "tuneNFM", "newAM"} -> <<"NFM">>
                  [] OTHER -> <<"NFM", "AM">>
    /\ user \notin {"newNFM", "runNFM"} => active["NFM"]
    /\ user \notin {"newNFM", "runNFM", "tuneNFM"} => newFrequency["NFM"] = InitFreq

\* Afterwards the NFM modem is current, and it and the tuner are set to the
\* same entry, but for the steps that change one after the other.
TuneInv ==
  Plain /\ ~Starting =>
    /\ user \notin {"change", "deactivate"}
    /\ current = "NFM" /\ context = "NFM" /\ modem = "NFM"
    /\ demods = <<"NFM", "AM">>
    /\ todo \in {<<>>, <<"AM">>, <<"NFM", "AM">>}
    /\ todo # <<>> => post \in {"update", "recheck"}
    /\ user = "tune" => entry.mode = "NFM"
    /\ user = "activate" => entry.mode = "AM"
    /\ user = "tunerSet" => center = entry.freq
    /\ user \in {"retune", "again"} => newFrequency["NFM"] = entry.freq
    /\ user \notin {"tunerSet", "retune"} => Distance(center, newFrequency["NFM"]) <= HalfRate

\* The post thread feeds the modem, or has still to look at it, or has not
\* seen that the tuner's frequency changed, or is about to see that it does.
FedInv ==
  (lapses = {} /\ ~Starting /\ band = center) =>
    \/ "NFM" \in runDemods /\ active["NFM"]
    \/ todo = <<"NFM", "AM">>
    \/ user = "retune" /\ Distance(center, newFrequency["NFM"]) >= HalfRate

ModemsInv == TypeInv /\ OpenInv /\ ToldInv /\ StartInv /\ TuneInv /\ FedInv

-----------------------------------------------------------------------------
\* How far a frequency is from another.
LEMMA DistanceType ==
  ASSUME NEW a \in Nat, NEW b \in Nat
  PROVE  Distance(a, b) \in Nat
  BY DEF Distance

\* The manager's list as newThread makes it.
LEMMA ListFacts == /\ Append(<<>>, "NFM") = <<"NFM">>
                   /\ Append(<<"NFM">>, "AM") = <<"NFM", "AM">>
<1> DEFINE S == {"NFM", "AM"}
<1>1. Append(<<>>, "NFM") = <<"NFM">>
  <2>1. <<>> \in Seq(S) /\ "NFM" \in S /\ <<"NFM">> \in Seq(S)
    OBVIOUS
  <2>2. QED
    BY <2>1, AppendProperties, SeqEqual
<1>2. Append(<<"NFM">>, "AM") = <<"NFM", "AM">>
  <2>1. <<"NFM">> \in Seq(S) /\ "AM" \in S /\ <<"NFM", "AM">> \in Seq(S)
    OBVIOUS
  <2>2. /\ Append(<<"NFM">>, "AM") \in Seq(S)
        /\ Len(Append(<<"NFM">>, "AM")) = 2
        /\ Append(<<"NFM">>, "AM")[1] = "NFM"
        /\ Append(<<"NFM">>, "AM")[2] = "AM"
    BY <2>1, AppendProperties
  <2>3. Len(<<"NFM", "AM">>) = 2
    OBVIOUS
  <2>4. \A i \in 1..2 : Append(<<"NFM">>, "AM")[i] = <<"NFM", "AM">>[i]
    BY <2>2
  <2>5. QED
    BY <2>1, <2>2, <2>3, <2>4, SeqEqual, Zenon
<1>3. QED
  BY <1>1, <1>2

\* Storing a frequency keeps the types of what the pre-processors look at.
LEMMA StoreType ==
  ASSUME TypeInv, NEW d \in Names, NEW f \in Nat, StoreFrequency(d, f)
  PROVE  /\ newFrequency' \in [Names -> Nat] /\ telling' \in BOOLEAN /\ lapses' \subseteq Lapses
         /\ UNCHANGED <<frequencyChanged, currentFrequency, applying>>
  BY DEF TypeInv, StoreFrequency, Lapses

\* Every step keeps the types: whoever the manager selects is one of the two modems.
LEMMA TypeInvStep ==
  ASSUME TypeInv, [Next]_vars
  PROVE  TypeInv'
<1> USE ModemsAssumption DEF TypeInv, Places, Lapses, SetActiveDemodulator, LastState,
        StoreFrequency, Target,         ActiveContext, Retuned, NoEntry, modems, preThread, manager, poster, scanner, Goes,
        Names, None
<1>1. CASE NewThread
  BY <1>1 DEF NewThread
<1>2. CASE Pop
  <2>1. Head(queue) \in Nat /\ Tail(queue) \in Seq(Nat)
    BY <1>2, HeadTailProperties DEF Pop
  <2>2. UNCHANGED <<demods, active, muted, preThread, inbox, current, context, modem, center, user, entry>>
    BY <1>2 DEF Pop
  <2>3. /\ band' \in Nat \cup {-1} /\ todo' \in Seq(Names)
        /\ queue' \in Seq(Nat)
    BY <1>2, <2>1 DEF Pop
  <2>4. post' \in {"pop", "update", "check", "recheck"} /\ runDemods' \subseteq Names
    BY <1>2 DEF Pop
  <2>5. lapses' \subseteq Lapses
    BY <1>2 DEF Pop
  <2>6. QED
    BY <2>2, <2>3, <2>4, <2>5
<1>3. CASE UpdateDemodulator
  <2>1. Head(todo) \in Names /\ Tail(todo) \in Seq(Names)
    BY <1>3, HeadTailProperties DEF UpdateDemodulator
  <2>2. UNCHANGED <<demods, muted, preThread, inbox, current, modem, center, queue, post, band, user, entry>>
    BY <1>3 DEF UpdateDemodulator
  <2>3. /\ active' \in [Names -> BOOLEAN] /\ context' \in Names \cup {None}
        /\ todo' \in Seq(Names)
    BY <1>3, <2>1 DEF UpdateDemodulator, InBand
  <2>4. runDemods' \subseteq Names
    BY <1>3, <2>1 DEF UpdateDemodulator
  <2>5. lapses' \subseteq Lapses
    BY <1>3 DEF UpdateDemodulator
  <2>6. QED
    BY <2>2, <2>3, <2>4, <2>5
<1>4. CASE Check
  <2>1. UNCHANGED <<demods, active, muted, preThread, inbox, current, context, modem, center, queue, band,
                    user, entry, lapses>>
    BY <1>4 DEF Check
  <2>2. /\ post' \in {"pop", "recheck"} /\ todo' \in Seq(Names)
        /\ runDemods' \subseteq Names
    BY <1>4 DEF Check
  <2>3. QED
    BY <2>1, <2>2
<1>5. CASE Run
  BY <1>5 DEF Run
<1>6. CASE TuneInit
  <2>1. PICK d \in Names : /\ StoreFrequency(d, InitFreq)
                           /\ user' = IF d = "NFM" THEN "newAM" ELSE "runAM"
    BY <1>6 DEF TuneInit
  <2>2. /\ newFrequency' \in [Names -> Nat] /\ telling' \in BOOLEAN /\ lapses' \subseteq Lapses
        /\ UNCHANGED <<frequencyChanged, currentFrequency, applying>>
    BY <2>1, StoreType
  <2>3. user' \in Places
    BY <2>1
  <2>4. UNCHANGED <<modems, manager, center, poster, entry>>
    BY <1>6 DEF TuneInit
  <2>5. QED
    BY <2>2, <2>3, <2>4
<1>7. CASE SelectFirst
  BY <1>7 DEF SelectFirst
<1>8. CASE SetTunerFrequency
  BY <1>8 DEF SetTunerFrequency
<1>9. CASE TuneToCenter
  BY <1>9 DEF TuneToCenter
<1>10. CASE HasSignal
  BY <1>10 DEF HasSignal
<1>11. CASE SetModemActivates
  BY <1>11 DEF SetModemActivates
<1>12. CASE SetModemChanges
  BY <1>12 DEF SetModemChanges
<1>13. CASE SetModemDeactivates
  BY <1>13 DEF SetModemDeactivates
<1>14. CASE SetFrequency
  BY <1>14 DEF SetFrequency
<1>15. CASE RetuneTuner
  BY <1>15 DEF RetuneTuner
<1>16. CASE Measure
  BY <1>16 DEF Measure
<1>17. CASE SquelchBreak
  BY <1>17 DEF SquelchBreak
<1>18. CASE SquelchClose
  BY <1>18 DEF SquelchClose
<1>19. CASE Produce
  BY <1>19 DEF Produce
<1>20. CASE Deliver
  BY <1>20 DEF Deliver
<1>21. CASE RaiseFlag
  <2>1. /\ frequencyChanged' \in [Names -> BOOLEAN] /\ telling' \in BOOLEAN
        /\ user' \in Places
    BY <1>21 DEF RaiseFlag
  <2>2. UNCHANGED <<modems, newFrequency, currentFrequency, applying, manager, center, poster, entry,
                    lapses>>
    BY <1>21 DEF RaiseFlag
  <2>3. QED
    BY <2>1, <2>2
<1>22. CASE SetFrequencyAgain
  BY <1>22 DEF SetFrequencyAgain
<1>23. CASE Rechecked
  BY <1>23 DEF Rechecked
<1>24. ASSUME NEW d \in Names, PreTakes(d) \/ PreClears(d) PROVE TypeInv'
  <2>1. CASE PreTakes(d)
    <3>1. /\ inbox' \subseteq Names /\ applying' \subseteq Names
          /\ currentFrequency' \in [Names -> Nat]
      <4>1. inbox' \subseteq Names
        BY <2>1 DEF PreTakes
      <4>2. applying' \subseteq Names /\ currentFrequency' \in [Names -> Nat]
        <5>1. newFrequency[d] \in Nat
          OBVIOUS
        <5>2. CASE frequencyChanged[d]
          <6>1. /\ applying' = applying \cup {d}
                /\ currentFrequency' = [currentFrequency EXCEPT ![d] = newFrequency[d]]
            BY <2>1, <5>2 DEF PreTakes
          <6>2. QED
            BY <6>1, <5>1
        <5>3. CASE ~frequencyChanged[d]
          BY <2>1, <5>3 DEF PreTakes
        <5>4. QED
          BY <5>2, <5>3
      <4>3. QED
        BY <4>1, <4>2
    <3>2. UNCHANGED <<modems, frequencyChanged, newFrequency, telling, manager, center, queue, post,
                      todo, band, runDemods, scanner, lapses>>
      BY <2>1 DEF PreTakes
    <3>3. QED
      BY <3>1, <3>2
  <2>2. CASE PreClears(d)
    <3>1. /\ applying' \subseteq Names /\ frequencyChanged' \in [Names -> BOOLEAN]
          /\ lapses' \subseteq Lapses
      BY <2>2 DEF PreClears
    <3>2. UNCHANGED <<modems, newFrequency, currentFrequency, telling, manager, center, poster,
                      scanner>>
      BY <2>2 DEF PreClears
    <3>3. QED
      BY <3>1, <3>2
  <2>3. QED
    BY <1>24, <2>1, <2>2
<1>25. CASE UNCHANGED vars
  BY <1>25 DEF vars
<1>26. QED
  BY <1>1, <1>2, <1>3, <1>4, <1>5, <1>6, <1>7, <1>8, <1>9, <1>10, <1>11, <1>12,
     <1>13, <1>14, <1>15, <1>16, <1>17, <1>18, <1>19, <1>20, <1>21, <1>22, <1>23,
     <1>24, <1>25 DEF Next

\* setModem changes current before the retune, and nothing does between the retune
\* and the end of reception.
LEMMA OpenInvStep ==
  ASSUME TypeInv, OpenInv, [Next]_vars
  PROVE  OpenInv'
<1> USE ModemsAssumption DEF OpenInv, TypeInv, SetActiveDemodulator, Retuned,
        StoreFrequency, Target,         Places, modems, preThread, manager, poster, scanner, Goes, Names, None
<1>1. CASE SelectFirst
  BY <1>1 DEF SelectFirst
<1>2. CASE SetModemChanges
  BY <1>2 DEF SetModemChanges
<1>3. CASE RetuneTuner
  BY <1>3 DEF RetuneTuner
<1>4. CASE SquelchBreak
  BY <1>4 DEF SquelchBreak
<1>5. CASE SquelchClose
  BY <1>5 DEF SquelchClose
<1>6. CASE NewThread \/ Run
  <2>1. CASE NewThread
    BY <2>1 DEF NewThread
  <2>2. CASE Run
    BY <2>2 DEF Run
  <2>3. QED
    BY <1>6, <2>1, <2>2
<1>7. CASE TuneInit \/ SetTunerFrequency
  <2>1. CASE TuneInit
    BY <2>1 DEF TuneInit
  <2>2. CASE SetTunerFrequency
    BY <2>2 DEF SetTunerFrequency
  <2>3. QED
    BY <1>7, <2>1, <2>2
<1>8. CASE TuneToCenter \/ HasSignal
  <2>1. CASE TuneToCenter
    BY <2>1 DEF TuneToCenter
  <2>2. CASE HasSignal
    BY <2>2 DEF HasSignal
  <2>3. QED
    BY <1>8, <2>1, <2>2
<1>9. CASE SetModemActivates \/ SetModemDeactivates
  BY <1>9 DEF SetModemActivates, SetModemDeactivates
<1>10. CASE SetFrequency \/ Measure
  BY <1>10 DEF SetFrequency, Measure
<1>11. CASE Produce \/ Pop
  <2>1. CASE Produce
    BY <2>1 DEF Produce
  <2>2. CASE Pop
    BY <2>2 DEF Pop
  <2>3. QED
    BY <1>11, <2>1, <2>2
<1>12. CASE UpdateDemodulator \/ Deliver
  <2>1. CASE UpdateDemodulator
    BY <2>1 DEF UpdateDemodulator
  <2>2. CASE Deliver
    BY <2>2 DEF Deliver
  <2>3. QED
    BY <1>12, <2>1, <2>2
<1>13. CASE Check
  BY <1>13 DEF Check
<1>14. CASE RaiseFlag
  BY <1>14 DEF RaiseFlag
<1>15. CASE SetFrequencyAgain
  BY <1>15 DEF SetFrequencyAgain
<1>16. CASE Rechecked
  BY <1>16 DEF Rechecked
<1>17. ASSUME NEW d \in Names, PreTakes(d) \/ PreClears(d) PROVE OpenInv'
  BY <1>17 DEF PreTakes, PreClears
<1>18. CASE UNCHANGED vars
  BY <1>18 DEF vars
<1>19. QED
  BY <1>1, <1>2, <1>3, <1>4, <1>5, <1>6, <1>7, <1>8, <1>9, <1>10, <1>11, <1>12,
     <1>13, <1>14, <1>15, <1>16, <1>17, <1>18 DEF Next

\* A frequency is forgotten when the flag is lowered over it, or is down already when it
\* is stored; the lapse is dropped when no frequency is forgotten.
LEMMA ToldInvStep ==
  ASSUME TypeInv, OpenInv, ToldInv, [Next]_vars
  PROVE  ToldInv'
<1> USE DEF ToldInv, TypeInv, GetFrequency, preThread, modems, manager, poster, scanner, Names
<1>1. CASE UNCHANGED <<preThread, lapses>>
  BY <1>1
<1>2. CASE RaiseFlag
  BY <1>2 DEF RaiseFlag
<1>3. ASSUME NEW d \in Names \cup {None}, NEW f \in Nat, StoreFrequency(d, f) PROVE ToldInv'
  BY <1>3 DEF StoreFrequency
<1>4. ASSUME NEW d \in Names, PreTakes(d) \/ PreClears(d) PROVE ToldInv'
  BY <1>4 DEF PreTakes, PreClears
<1>5. CASE Pop
  BY <1>5 DEF Pop, Seen, Forgotten
<1>6. CASE UNCHANGED preThread /\ lapses \subseteq lapses'
  BY <1>6
<1>7. CASE TuneInit \/ TuneToCenter \/ SetFrequency \/ SetFrequencyAgain
  BY <1>7, <1>3, ModemsAssumption DEF TuneInit, TuneToCenter, SetFrequency, SetFrequencyAgain
<1>8. CASE NewThread \/ Run \/ SelectFirst \/ SetTunerFrequency \/ HasSignal
  BY <1>8, <1>6 DEF NewThread, Run, SelectFirst, SetTunerFrequency, HasSignal, Retuned
<1>9. CASE SetModemActivates \/ SetModemChanges \/ SetModemDeactivates \/ RetuneTuner \/ Measure
  BY <1>9, <1>6 DEF SetModemActivates, SetModemChanges, SetModemDeactivates, RetuneTuner,
                    Retuned, Measure
<1>10. CASE SquelchBreak \/ SquelchClose \/ Produce \/ UpdateDemodulator
  BY <1>10, <1>6 DEF SquelchBreak, SquelchClose, Produce, UpdateDemodulator
<1>11. CASE Deliver \/ Check \/ Rechecked
  BY <1>11, <1>1 DEF Deliver, Check, Rechecked
<1>12. CASE UNCHANGED vars
  BY <1>12, <1>1 DEF vars
<1>13. QED
  BY <1>2, <1>4, <1>5, <1>7, <1>8, <1>9, <1>10, <1>11, <1>12 DEF Next

\* A batch that is popped during main's start is the first, and says so.
LEMMA StartInvStep ==
  ASSUME TypeInv, StartInv, [Next]_vars
  PROVE  StartInv'
<1> USE ModemsAssumption DEF StartInv, TypeInv, Places, Lapses, SetActiveDemodulator,
        StoreFrequency, Target, Seen,         LastState, ActiveContext, Retuned, Plain, Starting, NewBand, modems,
        preThread, manager, poster, scanner, Goes, Names, None
<1>1. CASE NewThread
  <2>1. CASE user = "newNFM"
    BY <1>1, <2>1, ListFacts DEF NewThread
  <2>2. CASE user = "newAM"
    BY <1>1, <2>2, ListFacts DEF NewThread
  <2>3. QED
    BY <1>1, <2>1, <2>2 DEF NewThread
<1>2. CASE Run
  BY <1>2 DEF Run
<1>3. CASE TuneInit
  BY <1>3 DEF TuneInit
<1>4. CASE Pop
  <2>1. SUFFICES ASSUME Plain', Starting' PROVE FALSE
    BY DEF StartInv
  <2>2. Plain /\ Starting /\ band = -1
    BY <1>4, <2>1 DEF Pop
  <2>3. Head(queue) # band
    <3>1. Head(queue) \in Nat
      BY <1>4, HeadTailProperties DEF Pop
    <3>2. QED
      BY <2>2, <3>1
  <2>4. "early" \in lapses'
    BY <1>4, <2>2, <2>3 DEF Pop
  <2>5. QED
    BY <2>1, <2>4
<1>5. CASE SelectFirst \/ SetTunerFrequency
  BY <1>5 DEF SelectFirst, SetTunerFrequency
<1>6. CASE TuneToCenter \/ HasSignal
  BY <1>6 DEF TuneToCenter, HasSignal
<1>7. CASE SetModemActivates \/ SetModemChanges
  BY <1>7 DEF SetModemActivates, SetModemChanges
<1>8. CASE SetModemDeactivates \/ SetFrequency
  BY <1>8 DEF SetModemDeactivates, SetFrequency
<1>9. CASE RetuneTuner \/ Measure
  BY <1>9 DEF RetuneTuner, Measure
<1>10. CASE SquelchBreak \/ SquelchClose
  BY <1>10 DEF SquelchBreak, SquelchClose
<1>11. CASE Produce \/ UpdateDemodulator
  BY <1>11 DEF Produce, UpdateDemodulator
<1>12. CASE Deliver \/ Check
  BY <1>12 DEF Deliver, Check
<1>13. CASE RaiseFlag
  BY <1>13 DEF RaiseFlag
<1>14. CASE SetFrequencyAgain
  BY <1>14 DEF SetFrequencyAgain
<1>15. CASE Rechecked
  BY <1>15 DEF Rechecked
<1>16. ASSUME NEW d \in Names, PreTakes(d) \/ PreClears(d) PROVE StartInv'
  BY <1>16 DEF PreTakes, PreClears
<1>17. CASE UNCHANGED vars
  BY <1>17 DEF vars
<1>18. QED
  BY <1>1, <1>2, <1>3, <1>4, <1>5, <1>6, <1>7, <1>8, <1>9, <1>10, <1>11, <1>12,
     <1>13, <1>14, <1>15, <1>16, <1>17 DEF Next

\* setFrequency and setTunerFrequency leave the modem in the tuner's band.
LEMMA TuneInvStep ==
  ASSUME TypeInv, StartInv, TuneInv, [Next]_vars
  PROVE  TuneInv'
<1> USE ModemsAssumption DEF TuneInv, TypeInv, StartInv, Places, Lapses,
        StoreFrequency, Target, Seen,         SetActiveDemodulator, LastState, ActiveContext, Retuned, NoEntry, Plain,
        Starting, Distance, modems, preThread, manager, poster, scanner, Goes, Names, None
<1>1. CASE SelectFirst
  BY <1>1 DEF SelectFirst
<1>2. CASE SetTunerFrequency
  BY <1>2 DEF SetTunerFrequency
<1>3. CASE TuneToCenter
  BY <1>3 DEF TuneToCenter
<1>4. CASE HasSignal
  BY <1>4 DEF HasSignal
<1>5. CASE SetModemActivates
  BY <1>5 DEF SetModemActivates
<1>6. CASE SetFrequency
  BY <1>6 DEF SetFrequency
<1>7. CASE RetuneTuner
  <2>1. CASE Distance(center, entry.freq) >= HalfRate
    BY <1>7, <2>1 DEF RetuneTuner
  <2>2. CASE ~(Distance(center, entry.freq) >= HalfRate)
    BY <1>7, <2>2 DEF RetuneTuner
  <2>3. QED
    BY <2>1, <2>2
<1>8. CASE Measure
  BY <1>8 DEF Measure
<1>9. CASE UpdateDemodulator
  <2>1. /\ Tail(<<"NFM", "AM">>) = <<"AM">> /\ Tail(<<"AM">>) = <<>>
    OBVIOUS
  <2>2. QED
    BY <1>9, <2>1 DEF UpdateDemodulator
<1>10. CASE Pop
  BY <1>10 DEF Pop
<1>11. CASE NewThread \/ Run
  BY <1>11 DEF NewThread, Run
<1>12. CASE TuneInit \/ SetModemChanges
  BY <1>12 DEF TuneInit, SetModemChanges
<1>13. CASE SetModemDeactivates \/ SquelchBreak
  BY <1>13 DEF SetModemDeactivates, SquelchBreak
<1>14. CASE SquelchClose \/ Produce
  BY <1>14 DEF SquelchClose, Produce
<1>15. CASE Deliver \/ Check
  BY <1>15 DEF Deliver, Check
<1>16. CASE RaiseFlag
  BY <1>16 DEF RaiseFlag
<1>17. CASE SetFrequencyAgain
  BY <1>17 DEF SetFrequencyAgain
<1>18. CASE Rechecked
  BY <1>18 DEF Rechecked
<1>19. ASSUME NEW d \in Names, PreTakes(d) \/ PreClears(d) PROVE TuneInv'
  BY <1>19 DEF PreTakes, PreClears
<1>20. CASE UNCHANGED vars
  BY <1>20 DEF vars
<1>21. QED
  BY <1>1, <1>2, <1>3, <1>4, <1>5, <1>6, <1>7, <1>8, <1>9, <1>10, <1>11, <1>12,
     <1>13, <1>14, <1>15, <1>16, <1>17, <1>18, <1>19, <1>20 DEF Next

\* The post thread makes its list when the modem is in the band, or makes it again.
LEMMA FedInvStep ==
  ASSUME TypeInv, ToldInv, StartInv, TuneInv, FedInv, [Next]_vars
  PROVE  FedInv'
<1> USE ModemsAssumption DEF FedInv, TypeInv, StartInv, TuneInv, Places, Lapses,
        StoreFrequency, Target, Seen, ToldInv,         ActiveContext, Retuned, Plain, Starting, Distance, InBand, NewBand, modems,
        preThread, manager, poster, scanner, Goes, Names, None
<1>1. CASE SelectFirst
  BY <1>1 DEF SelectFirst
<1>2. CASE SetTunerFrequency
  BY <1>2 DEF SetTunerFrequency
<1>3. CASE SetFrequency
  BY <1>3 DEF SetFrequency
<1>4. CASE RetuneTuner
  <2>1. CASE Distance(center, entry.freq) >= HalfRate
    <3>1. center' = entry.freq /\ center' # center
      BY <1>4, <2>1 DEF RetuneTuner
    <3>2. band # center /\ center' = band => lapses' # {}
      BY <1>4, <2>1 DEF RetuneTuner
    <3>3. band' = band
      BY <1>4 DEF RetuneTuner
    <3>4. QED
      BY <3>1, <3>2, <3>3
  <2>2. CASE ~(Distance(center, entry.freq) >= HalfRate)
    <3>1. /\ UNCHANGED <<center, lapses, band, todo, runDemods, active>>
          /\ user = "retune" /\ user' = "again"
      BY <1>4, <2>2 DEF RetuneTuner
    <3>2. QED
      BY <2>2, <3>1
  <2>3. QED
    BY <2>1, <2>2
<1>5. CASE Pop
  BY <1>5 DEF Pop
<1>6. CASE UpdateDemodulator
  <2>1. SUFFICES ASSUME lapses' = {}, ~Starting', band' = center' PROVE FedInv'
    OBVIOUS
  <2>2. /\ lapses = {} /\ ~Starting /\ user # "tunerSet" /\ band = center
        /\ todo # <<>> /\ UNCHANGED <<preThread, center, user>>
    BY <1>6, <2>1 DEF UpdateDemodulator
  <2>3. CASE todo = <<"NFM", "AM">>
    <3>1. Head(todo) = "NFM"
      BY <2>3
    <3>2. Distance(center, newFrequency["NFM"]) <= HalfRate \/ user = "retune"
      BY <2>2
    <3>3. InBand("NFM") \/ (user = "retune" /\ Distance(center, newFrequency["NFM"]) >= HalfRate)
      <4>1. band # -1 /\ center \in Nat /\ newFrequency["NFM"] \in Nat
        BY <2>2
      <4>2. Distance(center, newFrequency["NFM"]) \in Nat
        BY <4>1, DistanceType
      <4>3. CASE Distance(center, newFrequency["NFM"]) <= HalfRate
        BY <2>2, <4>1, <4>3
      <4>4. CASE ~(Distance(center, newFrequency["NFM"]) <= HalfRate)
        <5>1. HalfRate \in Nat
          OBVIOUS
        <5>2. Distance(center, newFrequency["NFM"]) >= HalfRate
          BY <4>2, <4>4, <5>1
        <5>3. QED
          BY <3>2, <4>4, <5>2
      <4>5. QED
        BY <4>3, <4>4
    <3>4. InBand("NFM") => "NFM" \in runDemods' /\ active'["NFM"]
      BY <1>6, <3>1 DEF UpdateDemodulator
    <3>5. QED
      BY <2>2, <3>3, <3>4
  <2>4. CASE todo = <<"AM">>
    <3>1. Head(todo) = "AM" /\ todo # <<"NFM", "AM">>
      BY <2>4
    <3>2. "NFM" \in runDemods /\ active["NFM"] =>
            "NFM" \in runDemods' /\ active'["NFM"]
      BY <1>6, <3>1 DEF UpdateDemodulator
    <3>3. QED
      BY <2>2, <3>1, <3>2
  <2>5. QED
    BY <2>2, <2>3, <2>4
<1>7. CASE Check
  BY <1>7 DEF Check
<1>8. CASE NewThread \/ Run
  BY <1>8 DEF NewThread, Run
<1>9. CASE TuneInit \/ TuneToCenter
  BY <1>9 DEF TuneInit, TuneToCenter
<1>10. CASE HasSignal \/ SetModemActivates
  BY <1>10 DEF HasSignal, SetModemActivates
<1>11. CASE SetModemChanges \/ SetModemDeactivates
  BY <1>11 DEF SetModemChanges, SetModemDeactivates
<1>12. CASE Measure \/ SquelchBreak
  BY <1>12 DEF Measure, SquelchBreak
<1>13. CASE SquelchClose \/ Produce
  BY <1>13 DEF SquelchClose, Produce
<1>14. CASE Deliver
  BY <1>14 DEF Deliver
<1>15. CASE RaiseFlag
  BY <1>15 DEF RaiseFlag
<1>16. CASE SetFrequencyAgain
  BY <1>16 DEF SetFrequencyAgain
<1>17. CASE Rechecked
  BY <1>17 DEF Rechecked
<1>18. ASSUME NEW d \in Names, PreTakes(d) \/ PreClears(d) PROVE FedInv'
  BY <1>18 DEF PreTakes, PreClears
<1>19. CASE UNCHANGED vars
  BY <1>19 DEF vars
<1>20. QED
  BY <1>1, <1>2, <1>3, <1>4, <1>5, <1>6, <1>7, <1>8, <1>9, <1>10, <1>11, <1>12,
     <1>13, <1>14, <1>15, <1>16, <1>17, <1>18, <1>19 DEF Next

\* Demodulator::start begins with no modem, and with the tuner and the modems'
\* frequency in one band.
LEMMA InitInv == Init => ModemsInv
<1> SUFFICES ASSUME Init PROVE ModemsInv
  OBVIOUS
<1> USE DEF Init, Names, None, NoEntry
<1>1. TypeInv
  <2>1. demods \in Seq(Names) /\ todo \in Seq(Names) /\ queue \in Seq(Nat) /\ center \in Nat
    BY ModemsAssumption
  <2>2. /\ newFrequency \in [Names -> Nat] /\ currentFrequency \in [Names -> Nat]
        /\ frequencyChanged \in [Names -> BOOLEAN]
    OBVIOUS
  <2>3. active \in [Names -> BOOLEAN] /\ muted \in [Names -> BOOLEAN]
    OBVIOUS
  <2>4. user \in Places /\ entry \in [mode : Names, freq : Nat]
    BY DEF Places
  <2>5. QED
    BY <2>1, <2>2, <2>3, <2>4 DEF TypeInv, Lapses
<1>2. OpenInv /\ ToldInv
  BY DEF OpenInv, ToldInv, GetFrequency
<1>3. StartInv /\ TuneInv /\ FedInv
  BY DEF StartInv, TuneInv, FedInv, Starting, Plain
<1>4. QED
  BY <1>1, <1>2, <1>3 DEF ModemsInv

\* Every step of main, the scanner, the tuner and the post thread keeps it.
LEMMA NextInv == ModemsInv /\ [Next]_vars => ModemsInv'
  BY TypeInvStep, OpenInvStep, ToldInvStep, StartInvStep, TuneInvStep, FedInvStep DEF ModemsInv

\* What each place of the scanner and of the post thread may rely on.
THEOREM ModemsInvariant == Spec => []ModemsInv
  BY InitInv, NextInv, PTL DEF Spec

\* Whatever setModem and the post thread do to the manager, only the modem that
\* setFrequency tuned to the entry is ever opened by squelchBreak.
THEOREM OnlyTunedIsOpen == Spec => []OpenModemIsTuned
<1>1. ModemsInv => OpenModemIsTuned
  BY DEF ModemsInv, TypeInv, OpenInv, ToldInv, OpenModemIsTuned
<1>2. QED
  BY <1>1, ModemsInvariant, PTL

\* Once the post thread has seen the tuner's frequency, the modem that the
\* scanner tuned is active and on its list, for every interleaving of the two
\* threads but the orders that "lapses" names.
THEOREM TunedIsFed == Spec => []TunedModemIsFed
<1>1. ModemsInv => TunedModemIsFed
  <2> SUFFICES ASSUME ModemsInv, user \in {"idle", "receive"}, post = "pop", band = center,
                      lapses = {}
               PROVE  /\ current = "NFM" /\ active["NFM"] /\ InBand("NFM")
                      /\ "NFM" \in runDemods
    BY DEF TunedModemIsFed
  <2> USE DEF ModemsInv, Plain, Starting
  <2>1. /\ current = "NFM" /\ todo = <<>>
        /\ Distance(center, newFrequency["NFM"]) <= HalfRate
    BY DEF TuneInv
  <2>2. InBand("NFM")
    BY <2>1 DEF InBand, TypeInv, ToldInv, Names
  <2>3. "NFM" \in runDemods /\ active["NFM"]
    BY <2>1 DEF FedInv
  <2>4. QED
    BY <2>1, <2>2, <2>3
<1>2. QED
  BY <1>1, ModemsInvariant, PTL
=============================================================================
