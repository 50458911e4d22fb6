--------------------------- MODULE PipelineProofs ---------------------------
(***************************************************************************)
(* Proofs about Pipeline for all frequencies, rates and lengths of the     *)
(* queues: a kit that is disposed of is held by nobody, and a batch is     *)
(* mixed for the rate it has while the rate has changed once at most.      *)
(***************************************************************************)
EXTENDS PipelineProperties, FiniteSetTheorems, SequenceTheorems, TLAPS

Centers == Freqs \cup {FirstCenter}
Batches == [freq : Nat, rate : Nat]
Commands == [cmd : {"make", "build"}, rate : Nat]
Results == [kit : Nat, rate : Nat]
Ncos == [shift : Int, rate : Nat]
Mixed == [kit : Nat, rate : Nat, shift : Int, nco : Ncos, frequency : Nat]
Pres == [pc : {"new", "pop", "clear", "push", "drain", "end"}, inp : Batches,
         cmd : {"none", "make", "build"}, frequency : Nat, typeChanged : BOOLEAN,
         bandwidthChanged : BOOLEAN, rateChanged : BOOLEAN, newRate : Nat, rate : Nat,
         kit : Nat, shift : Int, nco : Ncos]
Busy == {"clear", "push", "drain"}

QueueType ==
  /\ iqInput \in Seq(Batches) /\ commands \in Seq(Commands) /\ results \in Seq(Results)
  /\ iqDemod \in Seq(Mixed)
PreType == pre \in Pres
WorkerType ==
  worker \in [pc : {"new", "starting", "pop", "push", "end"}, rate : Nat, kit : Nat]
DemodType == demod \in [pc : {"new", "run", "end"}, kit : Nat, level : Nat]
TunerType ==
  /\ frequencyChanged \in BOOLEAN /\ newFrequency \in Nat /\ target \in Nat
  /\ user \in {"value", "retune"} => target \in Freqs
  /\ center \in Centers /\ source \in Rates /\ changes \in Nat
TypeInv == QueueType /\ PreType /\ WorkerType /\ DemodType /\ TunerType

\* The queues that hold kits have their bounds.
RoomInv == Len(iqDemod) <= IQMax /\ Len(results) <= ResultMax

\* A modem is made once.
MakeInv ==
  /\ pre.cmd # "none" => pre.pc \in {"clear", "push"}
  /\ pre.cmd = "make" => pre.typeChanged
  /\ pre.typeChanged => \A i \in DOMAIN commands : commands[i].cmd # "make"
  /\ \A i, j \in DOMAIN commands :
       commands[i].cmd = "make" /\ commands[j].cmd = "make" => i = j

\* The kits on their way: that of the demodulator, those of the batches that
\* wait for it and that of the pre-processor. Each has one stretch of it.
LineOf(first, batches, last) ==
  [i \in 0..(Len(batches) + 1) |->
     IF i = 0 THEN first ELSE IF i <= Len(batches) THEN batches[i].kit ELSE last]
Grouped(line) ==
  \A i, j, k \in DOMAIN line :
    i < j /\ j < k /\ line[i] = line[k] /\ line[i] # NoKit => line[j] = line[i]
KitInv ==
  /\ Grouped(LineOf(demod.kit, iqDemod, pre.kit))
  /\ \A i \in DOMAIN iqDemod : iqDemod[i].kit # NoKit
\* The worker's are not among them yet.
NewInv ==
  /\ \A i \in DOMAIN results :
       /\ results[i].kit \notin {NoKit, demod.kit, pre.kit}
       /\ \A j \in DOMAIN iqDemod : iqDemod[j].kit # results[i].kit
       /\ \A j \in DOMAIN results : results[j].kit = results[i].kit => j = i
  /\ worker.pc = "push" => worker.kit \notin Held \cup {NoKit}

\* The rates on their way, while the rate has changed once: none of the
\* first after one of the second ...
Second(r) == r \notin {0, FirstRate}
RateInv ==
  /\ (source # FirstRate) <=> (changes = 1)
  /\ \A i \in DOMAIN iqInput : iqInput[i].rate \in {FirstRate, source}
  /\ \A i, j \in DOMAIN iqInput : i < j /\ Second(iqInput[i].rate) => Second(iqInput[j].rate)
  /\ pre.newRate \in {0, FirstRate, source}
  /\ Second(pre.newRate) => \A i \in DOMAIN iqInput : Second(iqInput[i].rate)
  /\ pre.pc \in Busy => pre.inp.rate = pre.newRate /\ pre.newRate # 0
  /\ pre.pc \in Busy => pre.inp.freq \in Centers
  /\ \A i \in DOMAIN iqInput : iqInput[i].freq \in Centers
\* ... and until the second is there nothing else is built.
Rated == {pre.rate, worker.rate} \cup {commands[i].rate : i \in DOMAIN commands}
           \cup {results[i].rate : i \in DOMAIN results}
BuiltInv == ~Second(pre.newRate) => Rated \subseteq {0, pre.newRate}
\* The mixer is set for the rate that the resampler has been built for.
SetFor(shift, nco, rate) ==
  \/ shift \in Forgotten
  \/ nco = [shift |-> shift, rate |-> rate]
  \/ 2 * Abs(shift) > 3 * (rate \div 2)
MixerInv ==
  /\ pre.kit # NoKit /\ pre.newRate = pre.rate => SetFor(pre.shift, pre.nco, pre.rate)
  /\ \A i \in DOMAIN iqDemod :
       LET b == iqDemod[i]
       IN b.shift \notin {0} \cup Forgotten => b.nco = [shift |-> b.shift, rate |-> b.rate]
OnceInv == changes <= 1 => RateInv /\ BuiltInv /\ MixerInv

PipelineInv == TypeInv /\ RoomInv /\ MakeInv /\ KitInv /\ NewInv /\ OnceInv

-----------------------------------------------------------------------------
\* What the assumption says of each constant.
LEMMA ConstantFacts ==
  /\ Freqs \subseteq Nat /\ FirstFreq \in Nat /\ FirstCenter \in Nat
  /\ Rates \subseteq Nat /\ 0 \notin Rates /\ FirstRate \in Rates
  /\ IQMax \in Nat /\ IQMax > 0 /\ ResultMax \in Nat /\ ResultMax > 0
  BY PipelineAssumption DEF PipelineAssumption

\* The worker finds a command, the last make or else the last of all.
LEMMA EffectiveFacts ==
  ASSUME TypeInv, MakeInv, commands # <<>>
  PROVE  \E i \in DOMAIN commands : Effective(commands) = commands[i]
<1> DEFINE makes == {i \in DOMAIN commands : commands[i].cmd = "make"}
<1>1. DOMAIN commands = 1..Len(commands) /\ Len(commands) \in Nat \ {0}
  BY EmptySeq DEF TypeInv, QueueType
<1>2. CASE makes = {}
  <2>1. \E i \in DOMAIN commands : \A j \in DOMAIN commands : j <= i
    <3>1. Len(commands) \in DOMAIN commands
      BY <1>1
    <3>2. QED
      BY <1>1, <3>1
  <2>2. LastOf(DOMAIN commands) \in DOMAIN commands
    BY <2>1 DEF LastOf
  <2>3. Effective(commands) = commands[LastOf(DOMAIN commands)]
    BY <1>2 DEF Effective
  <2>4. QED
    BY <2>2, <2>3
<1>3. CASE makes # {}
  <2>1. \E i \in makes : \A j \in makes : j <= i
    BY <1>1, <1>3 DEF MakeInv
  <2>2. LastOf(makes) \in makes
    BY <2>1 DEF LastOf
  <2>3. Effective(commands) = commands[LastOf(makes)]
    BY <1>3 DEF Effective
  <2>4. QED
    BY <2>2, <2>3
<1>4. QED
  BY <1>2, <1>3

\* Numbers up to n.
LEMMA UpTo ==
  ASSUME NEW n \in Nat
  PROVE  IsFiniteSet(1..n) /\ Cardinality(1..n) = n
<1>1. 1 \in Int /\ n \in Int
  OBVIOUS
<1>2. IsFiniteSet(1..n) /\ Cardinality(1..n) = IF 1 > n THEN 0 ELSE n - 1 + 1
  BY <1>1, FS_Interval, Zenon
<1>3. QED
  BY <1>2

\* There is always a number that no kit has.
LEMMA NewKitFacts ==
  ASSUME TypeInv, RoomInv
  PROVE  NewKit \in Nat \ {NoKit} /\ NewKit \notin Held
<1> DEFINE sent == {iqDemod[i].kit : i \in DOMAIN iqDemod}
           built == {results[i].kit : i \in DOMAIN results}
           all == 1 .. (IQMax + ResultMax + 3)
<1>1. IsFiniteSet(sent) /\ Cardinality(sent) <= IQMax
  <2>1. DOMAIN iqDemod = 1..Len(iqDemod) /\ Len(iqDemod) \in Nat /\ IQMax \in Nat
    BY PipelineAssumption DEF TypeInv, QueueType
  <2>2. IsFiniteSet(DOMAIN iqDemod) /\ Cardinality(DOMAIN iqDemod) = Len(iqDemod)
    BY <2>1, UpTo
  <2> DEFINE f == [i \in DOMAIN iqDemod |-> iqDemod[i].kit]
  <2>3. f \in Surjection(DOMAIN iqDemod, sent)
    BY DEF Surjection
  <2>4. IsFiniteSet(sent) /\ Cardinality(sent) <= Cardinality(DOMAIN iqDemod)
    BY <2>2, <2>3, FS_Surjection
  <2>5. QED
    BY <2>1, <2>2, <2>4, FS_CardinalityType DEF RoomInv
<1>2. IsFiniteSet(built) /\ Cardinality(built) <= ResultMax
  <2>1. DOMAIN results = 1..Len(results) /\ Len(results) \in Nat /\ ResultMax \in Nat
    BY PipelineAssumption DEF TypeInv, QueueType
  <2>2. IsFiniteSet(DOMAIN results) /\ Cardinality(DOMAIN results) = Len(results)
    BY <2>1, UpTo
  <2> DEFINE f == [i \in DOMAIN results |-> results[i].kit]
  <2>3. f \in Surjection(DOMAIN results, built)
    BY DEF Surjection
  <2>4. IsFiniteSet(built) /\ Cardinality(built) <= Cardinality(DOMAIN results)
    BY <2>2, <2>3, FS_Surjection
  <2>5. QED
    BY <2>1, <2>2, <2>4, FS_CardinalityType DEF RoomInv
<1> HIDE DEF sent, built
<1>3. IsFiniteSet(Held) /\ Cardinality(Held) <= IQMax + ResultMax + 2
  <2>1. Held = ((sent \cup built) \cup {pre.kit}) \cup {demod.kit}
    BY DEF Held, sent, built
  <2>2. IsFiniteSet(sent \cup built) /\ Cardinality(sent \cup built) <= IQMax + ResultMax
    <3>1. IsFiniteSet(sent \cap built)
      BY <1>1, FS_Intersection
    <3>2. /\ IsFiniteSet(sent \cup built)
          /\ Cardinality(sent \cup built)
               = Cardinality(sent) + Cardinality(built) - Cardinality(sent \cap built)
      BY <1>1, <1>2, FS_Union
    <3>3. /\ Cardinality(sent) \in Nat /\ Cardinality(built) \in Nat
          /\ Cardinality(sent \cap built) \in Nat
      BY <1>1, <1>2, <3>1, FS_CardinalityType
    <3>4. QED
      BY <1>1, <1>2, <3>2, <3>3, PipelineAssumption
  <2>3. \A S : IsFiniteSet(S) => \A x :
          /\ IsFiniteSet(S \cup {x}) /\ Cardinality(S) \in Nat
          /\ Cardinality(S \cup {x}) \in Nat /\ Cardinality(S \cup {x}) <= Cardinality(S) + 1
    BY FS_AddElement, FS_CardinalityType
  <2> DEFINE u == sent \cup built
             v == u \cup {pre.kit}
  <2>4. IsFiniteSet(v) /\ Cardinality(v) \in Nat /\ Cardinality(v) <= Cardinality(u) + 1
    BY <2>2, <2>3
  <2>5. /\ IsFiniteSet(Held) /\ Cardinality(Held) \in Nat
        /\ Cardinality(Held) <= Cardinality(v) + 1
    BY <2>1, <2>3, <2>4
  <2>6. Cardinality(u) \in Nat
    BY <2>2, FS_CardinalityType
  <2>7. QED
    BY <2>2, <2>4, <2>5, <2>6, PipelineAssumption
<1>4. IsFiniteSet(all) /\ Cardinality(all) = IQMax + ResultMax + 3
  <2>1. IQMax + ResultMax + 3 \in Nat
    BY PipelineAssumption
  <2>2. QED
    BY <2>1, UpTo, Zenon
<1>5. ~(all \subseteq Held)
  <2>1. SUFFICES ASSUME all \subseteq Held PROVE FALSE
    OBVIOUS
  <2>2. Cardinality(all) <= Cardinality(Held)
    BY <1>3, <2>1, FS_Subset
  <2>3. Cardinality(Held) \in Nat
    BY <1>3, FS_CardinalityType
  <2>4. QED
    BY <1>3, <1>4, <2>2, <2>3, PipelineAssumption
<1>6. NewKit \in all /\ NewKit \notin Held
  BY <1>5 DEF NewKit
<1>7. QED
  BY <1>6 DEF NoKit

\* What the next batch changes of the pre-processor's members.
LEMMA PlanType == ASSUME NEW p \in Pres PROVE Plan(p) \in Pres
<1> DEFINE other == p.inp.rate # p.rate
           next == [p EXCEPT !.newRate = IF other THEN p.inp.rate ELSE @,
                             !.rateChanged = @ \/ other]
<1>1. p.inp.rate \in Nat /\ p.newRate \in Nat /\ p.rateChanged \in BOOLEAN /\ other \in BOOLEAN
  BY DEF Pres, Batches
<1>2. next \in Pres
  BY <1>1 DEF Pres
<1>3. Plan(p) \in {next, [next EXCEPT !.cmd = "make", !.rateChanged = FALSE],
                [next EXCEPT !.cmd = "build", !.rateChanged = FALSE, !.bandwidthChanged = FALSE]}
  BY DEF Plan
<1> HIDE DEF next
<1>4. [next EXCEPT !.cmd = "make", !.rateChanged = FALSE] \in Pres
  BY <1>2 DEF Pres
<1>5. [next EXCEPT !.cmd = "build", !.rateChanged = FALSE, !.bandwidthChanged = FALSE] \in Pres
  BY <1>2 DEF Pres
<1>6. QED
  BY <1>2, <1>3, <1>4, <1>5

\* The offset of the batch and the mixer.
LEMMA MixerType ==
  ASSUME PreType
  PROVE  Offset \in Int /\ Mixer \in Ncos
<1>1. /\ pre.frequency \in Nat /\ pre.inp.freq \in Nat /\ pre.inp.rate \in Nat
      /\ pre.nco \in Ncos
  BY DEF PreType, Pres, Batches
<1>2. Offset \in Int
  BY <1>1 DEF Offset
<1>3. QED
  BY <1>1, <1>2 DEF Mixer, Ncos

\* A queue that is pushed to or popped from.
LEMMA SeqFacts ==
  ASSUME NEW S, NEW q \in Seq(S)
  PROVE  /\ \A x \in S : /\ Append(q, x) \in Seq(S) /\ Len(Append(q, x)) = Len(q) + 1
                         /\ \A i \in 1..Len(q) : Append(q, x)[i] = q[i]
                         /\ Append(q, x)[Len(q) + 1] = x
         /\ q # <<>> => /\ Head(q) \in S /\ Head(q) = q[1]
                       /\ Tail(q) \in Seq(S) /\ Len(Tail(q)) = Len(q) - 1
                       /\ Len(q) \in Nat \ {0}
                       /\ \A i \in 1..(Len(q) - 1) : Tail(q)[i] = q[i + 1]
<1>1. Len(q) \in Nat
  OBVIOUS
<1>2. QED
  BY <1>1, AppendProperties, HeadTailProperties, EmptySeq

\* The queues keep their bounds.
LEMMA RoomInvStep ==
  ASSUME QueueType, RoomInv, [Next]_vars
  PROVE  RoomInv'
<1> USE ConstantFacts DEF RoomInv, Push, TryPush, Pop, HasRoom, Goes, queues, asked,
        control, tuner
<1>1. CASE PreSend
  BY <1>1 DEF PreSend, QueueType
<1>2. CASE WorkerPush
  BY <1>2 DEF WorkerPush, QueueType
<1>3. CASE Demodulate
  BY <1>3 DEF Demodulate, QueueType
<1>4. CASE PreDrain
  BY <1>4 DEF PreDrain, QueueType
<1>5. CASE PreEnd
  BY <1>5 DEF PreEnd
<1>6. CASE DemodEnd
  BY <1>6 DEF DemodEnd
<1>7. CASE Terminate
  BY <1>7 DEF Terminate
<1>8. CASE TerminatePre
  BY <1>8 DEF TerminatePre
<1>9. CASE Flush
  BY <1>9 DEF Flush
<1>10. CASE Join
  BY <1>10 DEF Join
<1>11. CASE Feed \/ ChangeRate \/ PreStart \/ PrePop
  BY <1>11 DEF Feed, ChangeRate, PreStart, PrePop
<1>12. CASE PreClear \/ PrePush \/ PreDone \/ WorkerStart
  BY <1>12 DEF PreClear, PrePush, PreDone, WorkerStart
<1>13. CASE WorkerBuild \/ WorkerEnd \/ DemodStart \/ SetFrequency
  BY <1>13 DEF WorkerBuild, WorkerEnd, DemodStart, SetFrequency
<1>14. CASE SetNewFrequency \/ Retune \/ SetFrequencyAgain \/ Terminated
  BY <1>14 DEF SetNewFrequency, Retune, SetFrequencyAgain, Terminated
<1>15. CASE UNCHANGED vars
  BY <1>15 DEF vars
<1>16. QED
  BY <1>1, <1>2, <1>3, <1>4, <1>5, <1>6, <1>7, <1>8, <1>9, <1>10, <1>11, <1>12,
     <1>13, <1>14, <1>15 DEF Next, PreNext, WorkerNext, DemodNext, UserNext

\* The command to make a modem is given once.
LEMMA MakeInvStep ==
  ASSUME TypeInv, MakeInv, [Next]_vars
  PROVE  MakeInv'
<1> USE DEF MakeInv, Push, TryPush, Pop, HasRoom, Goes,
        queues, asked, control, tuner
<1>1. CASE PrePop
  BY <1>1 DEF PrePop, Plan, TypeInv, QueueType, PreType, Pres
<1>2. CASE PrePush
  <2> DEFINE c == [cmd |-> pre.cmd, rate |-> pre.newRate]
  <2>1. commands' = Append(commands, c) /\ c.cmd = pre.cmd
    BY <1>2 DEF PrePush
  <2>2. commands \in Seq(Commands) /\ c \in Commands /\ pre \in Pres
    BY <1>2 DEF PrePush, TypeInv, QueueType, PreType, Pres, Commands
  <2> HIDE DEF c
  <2>3. \A i \in DOMAIN commands' :
          \/ i \in DOMAIN commands /\ commands'[i] = commands[i]
          \/ i = Len(commands) + 1 /\ commands'[i] = c
    BY <2>1, <2>2, SeqFacts
  <2>4. pre'.cmd = "none" /\ pre'.typeChanged = (pre.typeChanged /\ pre.cmd # "make")
    BY <1>2, <2>2 DEF PrePush, Pres
  <2>5. \A i \in DOMAIN commands' : commands'[i].cmd = "make" =>
          \/ i \in DOMAIN commands /\ commands[i].cmd = "make" /\ ~pre.typeChanged
          \/ i = Len(commands) + 1 /\ pre.cmd = "make"
    BY <2>1, <2>3
  <2>6. pre.cmd = "make" => \A i \in DOMAIN commands : commands[i].cmd # "make"
    OBVIOUS
  <2>7. pre'.typeChanged => \A i \in DOMAIN commands' : commands'[i].cmd # "make"
    BY <2>4, <2>5
  <2>8. \A i, j \in DOMAIN commands' :
          commands'[i].cmd = "make" /\ commands'[j].cmd = "make" => i = j
    BY <2>5, <2>6
  <2>9. QED
    BY <2>4, <2>7, <2>8
<1>3. CASE PreSend
  BY <1>3 DEF PreSend, TypeInv, QueueType, PreType, Pres
<1>4. CASE PreDrain
  BY <1>4 DEF PreDrain, TakeResult, TypeInv, QueueType, PreType, Pres
<1>5. CASE WorkerBuild
  BY <1>5 DEF WorkerBuild
<1>6. CASE PreStart
  BY <1>6 DEF PreStart, TypeInv, QueueType, PreType, Pres
<1>7. CASE PreClear
  BY <1>7 DEF PreClear, TypeInv, QueueType, PreType, Pres
<1>8. CASE PreDone
  BY <1>8 DEF PreDone, TypeInv, QueueType, PreType, Pres
<1>9. CASE PreEnd
  BY <1>9 DEF PreEnd, TypeInv, QueueType, PreType, Pres
<1>10. CASE Feed \/ ChangeRate \/ WorkerStart \/ WorkerPush \/ WorkerEnd
  BY <1>10 DEF Feed, ChangeRate, WorkerStart, WorkerPush, WorkerEnd
<1>11. CASE DemodStart \/ Demodulate \/ DemodEnd \/ SetFrequency \/ Terminate
  BY <1>11 DEF DemodStart, Demodulate, DemodEnd, SetFrequency, Terminate
<1>12. CASE SetNewFrequency \/ Retune \/ SetFrequencyAgain \/ TerminatePre \/ Flush
  BY <1>12 DEF SetNewFrequency, Retune, SetFrequencyAgain, TerminatePre, Flush
<1>13. CASE Join \/ Terminated
  BY <1>13 DEF Join, Terminated
<1>14. CASE UNCHANGED vars
  BY <1>14 DEF vars
<1>15. QED
  BY <1>1, <1>2, <1>3, <1>4, <1>5, <1>6, <1>7, <1>8, <1>9, <1>10, <1>11, <1>12,
     <1>13, <1>14 DEF Next, PreNext, WorkerNext, DemodNext, UserNext

\* Types of the queues.
LEMMA QueueTypeStep ==
  ASSUME TypeInv, [Next]_vars
  PROVE  QueueType'
<1> USE ConstantFacts DEF TypeInv, QueueType, Push, TryPush, Pop, HasRoom, Goes,
        queues, asked, control, tuner
<1>1. CASE Feed
  <2>1. [freq |-> center, rate |-> source] \in Batches
    BY ConstantFacts DEF TypeInv, TunerType, Batches, Centers
  <2> DEFINE b == [freq |-> center, rate |-> source]
  <2>2. iqInput' \in Seq(Batches)
    <3>1. iqInput' \in {iqInput, Append(iqInput, b)}
      BY <1>1 DEF Feed
    <3> HIDE DEF b
    <3>2. Append(iqInput, b) \in Seq(Batches)
      <4>1. b \in Batches
        BY <2>1 DEF b
      <4>2. QED
        BY <4>1, SeqFacts
    <3>3. QED
      BY <3>1, <3>2
  <2>3. QED
    BY <1>1, <2>2 DEF Feed, TypeInv
<1>2. CASE PrePop
  BY <1>2 DEF PrePop, TypeInv
<1>3. CASE PrePush
  BY <1>3 DEF PrePush, TypeInv, PreType, Pres, Commands
<1>4. CASE PreSend
  <2> DEFINE b == [kit |-> pre.kit, rate |-> pre.rate, shift |-> Offset, nco |-> Mixer,
                  frequency |-> pre.frequency]
  <2>1. b \in Mixed
    BY MixerType DEF TypeInv, PreType, Pres, Mixed
  <2>2. UNCHANGED <<iqInput, commands, results>>
    BY <1>4 DEF PreSend
  <2>3. iqDemod' \in {iqDemod, Append(iqDemod, b)}
    BY <1>4 DEF PreSend
  <2> HIDE DEF b
  <2>4. Append(iqDemod, b) \in Seq(Mixed)
    BY <2>1 DEF TypeInv
  <2>5. QED
    BY <2>2, <2>3, <2>4 DEF TypeInv
<1>5. CASE PreDrain
  BY <1>5 DEF PreDrain, TypeInv
<1>6. CASE WorkerBuild
  BY <1>6 DEF WorkerBuild
<1>7. CASE WorkerPush
  BY <1>7 DEF WorkerPush, TypeInv, WorkerType, Results
<1>8. CASE Demodulate
  BY <1>8 DEF Demodulate, TypeInv
<1>9. CASE PreEnd
  BY <1>9 DEF PreEnd
<1>10. CASE TerminatePre
  BY <1>10 DEF TerminatePre
<1>11. CASE DemodEnd
  BY <1>11 DEF DemodEnd
<1>12. CASE Terminate
  BY <1>12 DEF Terminate
<1>13. CASE Flush
  BY <1>13 DEF Flush
<1>14. CASE Join
  BY <1>14 DEF Join
<1>15. CASE ChangeRate \/ PreStart \/ PreClear
  BY <1>15 DEF ChangeRate, PreStart, PreClear
<1>16. CASE PreDone \/ WorkerStart \/ WorkerEnd
  BY <1>16 DEF PreDone, WorkerStart, WorkerEnd
<1>17. CASE DemodStart \/ SetFrequency \/ SetNewFrequency
  BY <1>17 DEF DemodStart, SetFrequency, SetNewFrequency
<1>18. CASE Retune \/ SetFrequencyAgain \/ Terminated
  BY <1>18 DEF Retune, SetFrequencyAgain, Terminated
<1>19. CASE UNCHANGED vars
  BY <1>19 DEF vars
<1>20. QED
  BY <1>1, <1>2, <1>3, <1>4, <1>5, <1>6, <1>7, <1>8, <1>9, <1>10, <1>11, <1>12,
     <1>13, <1>14, <1>15, <1>16, <1>17, <1>18, <1>19
  DEF Next, PreNext, WorkerNext, DemodNext, UserNext

\* Types of the pre-processor.
LEMMA PreTypeStep ==
  ASSUME TypeInv, [Next]_vars
  PROVE  PreType'
<1> USE DEF TypeInv, PreType, Pres, Batches, Ncos, NoKit, Push, TryPush, Pop, HasRoom, Goes,
        queues, asked, control, tuner
<1>1. CASE PrePop
  <2> DEFINE p == [pre EXCEPT !.inp = Head(iqInput),
                              !.pc = IF frequencyChanged THEN "clear" ELSE "push",
                              !.frequency = IF frequencyChanged THEN newFrequency ELSE @]
  <2>1. Head(iqInput) \in Batches
    BY <1>1, SeqFacts DEF PrePop, QueueType
  <2>2. p \in Pres
    BY <2>1 DEF TunerType
  <2>3. pre' = Plan(p)
    BY <1>1 DEF PrePop
  <2> HIDE DEF p
  <2>4. QED
    BY <2>2, <2>3, PlanType
<1>2. CASE PrePush
  BY <1>2 DEF PrePush, TypeInv
<1>3. CASE PreSend
  <2> DEFINE next == [pre EXCEPT !.shift = Offset, !.nco = Mixer]
  <2>1. next \in Pres
    BY MixerType
  <2>2. pre' \in {[next EXCEPT !.pc = "pop", !.inp = NoBatch], [next EXCEPT !.pc = "drain"]}
    BY <1>3 DEF PreSend
  <2>3. NoBatch \in Batches
    BY DEF NoBatch
  <2> HIDE DEF next
  <2>4. [next EXCEPT !.pc = "pop", !.inp = NoBatch] \in Pres
    BY <2>1, <2>3
  <2>5. [next EXCEPT !.pc = "drain"] \in Pres
    BY <2>1
  <2>6. QED
    BY <2>2, <2>4, <2>5
<1>4. CASE PreDrain
  <2>1. Head(results) \in Results
    BY <1>4, SeqFacts DEF PreDrain, QueueType
  <2>2. Head(results).kit \in Nat /\ Head(results).rate \in Nat /\ pre.inp.freq - 1 \in Int
    BY <2>1 DEF Results
  <2>3. pre' = TakeResult(Head(results))
    BY <1>4 DEF PreDrain
  <2>4. QED
    BY <2>2, <2>3 DEF TakeResult
<1>5. CASE PreDone
  BY <1>5 DEF PreDone, NoBatch, TypeInv
<1>6. CASE PreEnd
  BY <1>6 DEF PreEnd, TypeInv
<1>7. CASE PreClear
  BY <1>7 DEF PreClear, TypeInv
<1>8. CASE PreStart
  BY <1>8 DEF PreStart, TypeInv
<1>9. CASE Feed \/ ChangeRate \/ WorkerStart \/ WorkerBuild \/ WorkerPush \/
        WorkerEnd
  BY <1>9 DEF Feed, ChangeRate, WorkerStart, WorkerBuild, WorkerPush, WorkerEnd
<1>10. CASE DemodStart \/ Demodulate \/ DemodEnd \/ SetFrequency \/ Terminate \/
        SetNewFrequency
  BY <1>10 DEF DemodStart, Demodulate, DemodEnd, SetFrequency, Terminate,
         SetNewFrequency
<1>11. CASE Retune \/ SetFrequencyAgain \/ TerminatePre \/ Flush \/ Join \/
        Terminated
  BY <1>11 DEF Retune, SetFrequencyAgain, TerminatePre, Flush, Join, Terminated
<1>12. CASE UNCHANGED vars
  BY <1>12 DEF vars
<1>13. QED
  BY <1>1, <1>2, <1>3, <1>4, <1>5, <1>6, <1>7, <1>8, <1>9, <1>10, <1>11, <1>12
  DEF Next, PreNext, WorkerNext, DemodNext, UserNext

\* Types of the worker.
LEMMA WorkerTypeStep ==
  ASSUME TypeInv, RoomInv, MakeInv, [Next]_vars
  PROVE  WorkerType'
<1> USE DEF TypeInv, WorkerType, NoKit, Push, TryPush, Pop, HasRoom, Goes, queues, asked,
        control, tuner
<1>1. CASE PreStart
  BY <1>1 DEF PreStart
<1>2. CASE WorkerStart
  BY <1>2 DEF WorkerStart
<1>3. CASE WorkerBuild
  <2>1. Effective(commands).rate \in Nat
    <3>1. PICK i \in DOMAIN commands : Effective(commands) = commands[i]
      BY <1>3, EffectiveFacts DEF WorkerBuild
    <3>2. commands[i] \in Commands
      BY DEF QueueType
    <3>3. QED
      BY <3>1, <3>2 DEF Commands
  <2>2. NewKit \in Nat
    BY NewKitFacts
  <2>3. QED
    BY <1>3, <2>1, <2>2 DEF WorkerBuild
<1>4. CASE WorkerPush
  BY <1>4 DEF WorkerPush
<1>5. CASE WorkerEnd
  BY <1>5 DEF WorkerEnd
<1>6. CASE Feed \/ ChangeRate \/ PrePop \/ PreClear \/ PrePush \/ PreSend
  BY <1>6 DEF Feed, ChangeRate, PrePop, PreClear, PrePush, PreSend
<1>7. CASE PreDrain \/ PreDone \/ PreEnd \/ DemodStart \/ Demodulate \/ DemodEnd
  BY <1>7 DEF PreDrain, PreDone, PreEnd, DemodStart, Demodulate, DemodEnd
<1>8. CASE SetFrequency \/ Terminate \/ SetNewFrequency \/ Retune \/
        SetFrequencyAgain \/ TerminatePre
  BY <1>8 DEF SetFrequency, Terminate, SetNewFrequency, Retune, SetFrequencyAgain,
         TerminatePre
<1>9. CASE Flush \/ Join \/ Terminated
  BY <1>9 DEF Flush, Join, Terminated
<1>10. CASE UNCHANGED vars
  BY <1>10 DEF vars
<1>11. QED
  BY <1>1, <1>2, <1>3, <1>4, <1>5, <1>6, <1>7, <1>8, <1>9, <1>10
  DEF Next, PreNext, WorkerNext, DemodNext, UserNext

\* Types of the demodulator.
LEMMA DemodTypeStep ==
  ASSUME TypeInv, [Next]_vars
  PROVE  DemodType'
<1> USE DEF TypeInv, DemodType, Push, TryPush, Pop, HasRoom, Goes, queues, asked, control,
        tuner
<1>1. CASE DemodStart
  BY <1>1 DEF DemodStart
<1>2. CASE Demodulate
  <2>1. Head(iqDemod) \in Mixed
    BY <1>2, SeqFacts DEF Demodulate, QueueType
  <2>2. Head(iqDemod).kit \in Nat /\ Head(iqDemod).frequency \in Nat
    BY <2>1 DEF Mixed
  <2>3. QED
    BY <1>2, <2>2 DEF Demodulate
<1>3. CASE DemodEnd
  BY <1>3 DEF DemodEnd
<1>4. CASE Feed \/ ChangeRate \/ PreStart \/ PrePop \/ PreClear \/ PrePush
  BY <1>4 DEF Feed, ChangeRate, PreStart, PrePop, PreClear, PrePush
<1>5. CASE PreSend \/ PreDrain \/ PreDone \/ PreEnd \/ WorkerStart \/ WorkerBuild
  BY <1>5 DEF PreSend, PreDrain, PreDone, PreEnd, WorkerStart, WorkerBuild
<1>6. CASE WorkerPush \/ WorkerEnd \/ SetFrequency \/ Terminate \/
        SetNewFrequency \/ Retune
  BY <1>6 DEF WorkerPush, WorkerEnd, SetFrequency, Terminate, SetNewFrequency,
         Retune
<1>7. CASE SetFrequencyAgain \/ TerminatePre \/ Flush \/ Join \/ Terminated
  BY <1>7 DEF SetFrequencyAgain, TerminatePre, Flush, Join, Terminated
<1>8. CASE UNCHANGED vars
  BY <1>8 DEF vars
<1>9. QED
  BY <1>1, <1>2, <1>3, <1>4, <1>5, <1>6, <1>7, <1>8
  DEF Next, PreNext, WorkerNext, DemodNext, UserNext

\* Types of the tuner and of what is asked.
LEMMA TunerTypeStep ==
  ASSUME TypeInv, [Next]_vars
  PROVE  TunerType'
<1> USE ConstantFacts DEF TypeInv, TunerType, Centers, Push, TryPush, Pop, HasRoom, Goes,
        queues, asked, control, tuner
<1>1. CASE ChangeRate
  BY <1>1 DEF ChangeRate
<1>2. CASE PreClear
  BY <1>2 DEF PreClear
<1>3. CASE SetFrequency
  BY <1>3 DEF SetFrequency
<1>4. CASE SetNewFrequency
  BY <1>4 DEF SetNewFrequency
<1>5. CASE Retune
  <2>1. center' \in {center, target}
    BY <1>5 DEF Retune
  <2>2. QED
    BY <1>5, <2>1 DEF Retune
<1>6. CASE SetFrequencyAgain
  BY <1>6 DEF SetFrequencyAgain
<1>7. CASE Feed \/ PreStart \/ PrePop \/ PrePush \/ PreSend
  BY <1>7 DEF Feed, PreStart, PrePop, PrePush, PreSend
<1>8. CASE PreDrain \/ PreDone \/ PreEnd \/ WorkerStart \/ WorkerBuild
  BY <1>8 DEF PreDrain, PreDone, PreEnd, WorkerStart, WorkerBuild
<1>9. CASE WorkerPush \/ WorkerEnd \/ DemodStart \/ Demodulate \/ DemodEnd
  BY <1>9 DEF WorkerPush, WorkerEnd, DemodStart, Demodulate, DemodEnd
<1>10. CASE Terminate \/ TerminatePre \/ Flush \/ Join \/ Terminated
  BY <1>10 DEF Terminate, TerminatePre, Flush, Join, Terminated
<1>11. CASE UNCHANGED vars
  BY <1>11 DEF vars
<1>12. QED
  BY <1>1, <1>2, <1>3, <1>4, <1>5, <1>6, <1>7, <1>8, <1>9, <1>10, <1>11
  DEF Next, PreNext, WorkerNext, DemodNext, UserNext

\* Types.
LEMMA TypeInvStep ==
  ASSUME TypeInv, RoomInv, MakeInv, [Next]_vars
  PROVE  TypeInv'
<1>1. QueueType' /\ PreType'
  BY QueueTypeStep, PreTypeStep
<1>2. WorkerType'
  BY WorkerTypeStep
<1>3. DemodType' /\ TunerType'
  BY DemodTypeStep, TunerTypeStep
<1>4. QED
  BY <1>1, <1>2, <1>3 DEF TypeInv

\* A line of kits, place by place.
LEMMA LineFacts ==
  ASSUME NEW d, NEW q \in Seq(Mixed), NEW p
  PROVE  /\ Len(q) \in Nat /\ DOMAIN q = 1..Len(q)
         /\ DOMAIN LineOf(d, q, p) = 0..(Len(q) + 1)
         /\ LineOf(d, q, p)[0] = d
         /\ \A i \in 1..Len(q) : LineOf(d, q, p)[i] = q[i].kit
         /\ LineOf(d, q, p)[Len(q) + 1] = p
<1>1. Len(q) \in Nat /\ DOMAIN q = 1..Len(q)
  OBVIOUS
<1>2. QED
  BY <1>1 DEF LineOf

\* A line with no batch has nothing between its ends.
LEMMA GroupedEmpty == ASSUME NEW d, NEW p PROVE Grouped(LineOf(d, <<>>, p))
<1>1. <<>> \in Seq(Mixed) /\ Len(<<>>) = 0
  BY EmptySeq
<1>2. DOMAIN LineOf(d, <<>>, p) = 0..1
  BY <1>1 DEF LineOf
<1>3. QED
  BY <1>2 DEF Grouped

\* A batch joins the line with the last kit.
LEMMA GroupedPush ==
  ASSUME NEW d, NEW q \in Seq(Mixed), NEW p, NEW b \in Mixed, b.kit = p,
         Grouped(LineOf(d, q, p))
  PROVE  Grouped(LineOf(d, Append(q, b), p))
<1> DEFINE r == Append(q, b)
           old == LineOf(d, q, p)
           new == LineOf(d, r, p)
<1>1. /\ r \in Seq(Mixed) /\ Len(r) = Len(q) + 1 /\ Len(q) \in Nat
      /\ \A i \in 1..Len(q) : r[i] = q[i]
      /\ r[Len(q) + 1] = b
  BY SeqFacts
<1> HIDE DEF r
<1>2. /\ DOMAIN old = 0..(Len(q) + 1) /\ DOMAIN new = 0..(Len(q) + 2)
      /\ \A i \in 0..(Len(q) + 1) : new[i] = old[i]
      /\ new[Len(q) + 2] = old[Len(q) + 1]
  <2>1. /\ DOMAIN old = 0..(Len(q) + 1) /\ old[0] = d /\ old[Len(q) + 1] = p
        /\ \A i \in 1..Len(q) : old[i] = q[i].kit
    BY LineFacts
  <2>2. /\ DOMAIN new = 0..(Len(r) + 1) /\ new[0] = d /\ new[Len(r) + 1] = p
        /\ \A i \in 1..Len(r) : new[i] = r[i].kit
    BY <1>1, LineFacts
  <2> HIDE DEF old, new
  <2>3. new[Len(q) + 1] = p /\ new[Len(q) + 2] = p /\ \A i \in 1..Len(q) : new[i] = q[i].kit
    BY <1>1, <2>2
  <2>4. QED
    BY <1>1, <2>1, <2>2, <2>3
<1>3. Grouped(old)
  OBVIOUS
<1> HIDE DEF old, new
<1>4. ASSUME NEW i \in 0..(Len(q) + 2), NEW j \in 0..(Len(q) + 2), NEW k \in 0..(Len(q) + 2),
             i < j, j < k, new[i] = new[k], new[i] # NoKit
      PROVE  new[j] = new[i]
  <2>1. i \in DOMAIN old /\ j \in DOMAIN old
    BY <1>1, <1>2, <1>4
  <2>2. CASE k \in DOMAIN old
    BY <1>2, <1>3, <1>4, <2>1, <2>2 DEF Grouped
  <2>3. CASE k = Len(q) + 2
    <3>1. old[i] = old[Len(q) + 1]
      BY <1>2, <1>4, <2>1, <2>3
    <3>2. CASE j = Len(q) + 1
      BY <1>2, <2>1, <3>1, <3>2
    <3>3. CASE j < Len(q) + 1
      <4>1. Len(q) + 1 \in DOMAIN old /\ old[i] # NoKit
        BY <1>1, <1>2, <1>4, <2>1
      <4>2. old[j] = old[i]
        BY <1>3, <1>4, <2>1, <3>1, <3>3, <4>1 DEF Grouped
      <4>3. QED
        BY <1>2, <2>1, <4>2
    <3>4. QED
      BY <1>1, <1>2, <2>1, <3>2, <3>3
  <2>4. QED
    BY <1>1, <1>2, <2>2, <2>3
<1>5. Grouped(new)
  BY <1>2, <1>4 DEF Grouped
<1>6. QED
  BY <1>5 DEF new, r

\* The first leaves it.
LEMMA GroupedPop ==
  ASSUME NEW d, NEW q \in Seq(Mixed), q # <<>>, NEW p, Grouped(LineOf(d, q, p))
  PROVE  Grouped(LineOf(Head(q).kit, Tail(q), p))
<1> DEFINE r == Tail(q)
           old == LineOf(d, q, p)
           new == LineOf(Head(q).kit, r, p)
<1>1. /\ r \in Seq(Mixed) /\ Len(r) = Len(q) - 1 /\ Len(q) \in Nat \ {0}
      /\ \A i \in 1..(Len(q) - 1) : r[i] = q[i + 1]
      /\ Head(q) = q[1]
  BY SeqFacts
<1> HIDE DEF r
<1>2. /\ DOMAIN old = 0..(Len(q) + 1) /\ DOMAIN new = 0..Len(q)
      /\ \A i \in 0..Len(q) : new[i] = old[i + 1]
  <2>1. /\ DOMAIN old = 0..(Len(q) + 1) /\ old[Len(q) + 1] = p
        /\ \A i \in 1..Len(q) : old[i] = q[i].kit
    BY LineFacts
  <2>2. /\ DOMAIN new = 0..(Len(r) + 1) /\ new[0] = Head(q).kit /\ new[Len(r) + 1] = p
        /\ \A i \in 1..Len(r) : new[i] = r[i].kit
    BY <1>1, LineFacts
  <2> HIDE DEF old, new
  <2>3. new[0] = old[1] /\ new[Len(q)] = old[Len(q) + 1]
    BY <1>1, <2>1, <2>2
  <2>4. \A i \in 1..(Len(q) - 1) : new[i] = old[i + 1]
    BY <1>1, <2>1, <2>2
  <2>5. QED
    BY <1>1, <2>1, <2>2, <2>3, <2>4
<1>3. Grouped(old)
  OBVIOUS
<1> HIDE DEF old, new
<1>4. ASSUME NEW i \in 0..Len(q), NEW j \in 0..Len(q), NEW k \in 0..Len(q),
             i < j, j < k, new[i] = new[k], new[i] # NoKit
      PROVE  new[j] = new[i]
  <2>1. /\ i + 1 \in DOMAIN old /\ j + 1 \in DOMAIN old /\ k + 1 \in DOMAIN old
        /\ i + 1 < j + 1 /\ j + 1 < k + 1
    BY <1>1, <1>2, <1>4
  <2>2. old[i + 1] = old[k + 1] /\ old[i + 1] # NoKit
    BY <1>2, <1>4
  <2>3. old[j + 1] = old[i + 1]
    BY <1>3, <2>1, <2>2 DEF Grouped
  <2>4. QED
    BY <1>2, <2>3
<1>5. Grouped(new)
  BY <1>2, <1>4 DEF Grouped
<1>6. QED
  BY <1>5 DEF new, r

\* The last becomes one that nobody in the line has.
LEMMA GroupedLast ==
  ASSUME NEW d, NEW q \in Seq(Mixed), NEW p, NEW p2, Grouped(LineOf(d, q, p)),
         p2 = NoKit \/ (p2 # d /\ \A i \in 1..Len(q) : q[i].kit # p2)
  PROVE  Grouped(LineOf(d, q, p2))
<1> DEFINE old == LineOf(d, q, p)
           new == LineOf(d, q, p2)
<1>1. /\ DOMAIN old = 0..(Len(q) + 1) /\ old[0] = d /\ Len(q) \in Nat
      /\ \A i \in 1..Len(q) : old[i] = q[i].kit
  BY LineFacts
<1>2. /\ DOMAIN new = 0..(Len(q) + 1) /\ new[0] = d /\ new[Len(q) + 1] = p2
      /\ \A i \in 1..Len(q) : new[i] = q[i].kit
  BY LineFacts
<1>3. Grouped(old)
  OBVIOUS
<1> HIDE DEF old, new
<1>4. ASSUME NEW i \in 0..(Len(q) + 1), NEW j \in 0..(Len(q) + 1), NEW k \in 0..(Len(q) + 1),
             i < j, j < k, new[i] = new[k], new[i] # NoKit
      PROVE  new[j] = new[i]
  <2>1. k # Len(q) + 1
    BY <1>1, <1>2, <1>4
  <2>2. \A n \in 0..Len(q) : new[n] = old[n]
    BY <1>1, <1>2
  <2>3. i \in 0..Len(q) /\ j \in 0..Len(q) /\ k \in 0..Len(q)
    BY <1>1, <1>4, <2>1
  <2>4. QED
    BY <1>1, <1>3, <1>4, <2>2, <2>3 DEF Grouped
<1>5. Grouped(new)
  BY <1>2, <1>4 DEF Grouped
<1>6. QED
  BY <1>5 DEF new

\* What the next batch leaves alone.
LEMMA PlanKeeps ==
  ASSUME NEW p \in Pres
  PROVE  /\ Plan(p).pc = p.pc /\ Plan(p).inp = p.inp /\ Plan(p).kit = p.kit /\ Plan(p).rate = p.rate
         /\ Plan(p).shift = p.shift /\ Plan(p).nco = p.nco
         /\ Plan(p).newRate = IF p.inp.rate # p.rate THEN p.inp.rate ELSE p.newRate
  BY DEF Plan, Pres

\* Kits are held as they were.
LEMMA PopKeeps ==
  ASSUME TypeInv, PrePop
  PROVE  /\ pre'.kit = pre.kit /\ pre'.rate = pre.rate /\ pre'.shift = pre.shift
         /\ pre'.nco = pre.nco
         /\ pre'.inp = Head(iqInput) /\ pre'.pc \in {"clear", "push"}
         /\ pre'.newRate = IF Head(iqInput).rate # pre.rate THEN Head(iqInput).rate ELSE pre.newRate
<1> DEFINE p == [pre EXCEPT !.inp = Head(iqInput),
                            !.pc = IF frequencyChanged THEN "clear" ELSE "push",
                            !.frequency = IF frequencyChanged THEN newFrequency ELSE @]
<1>1. Head(iqInput) \in Batches
  BY SeqFacts DEF PrePop, Pop, TypeInv, QueueType
<1>2. p \in Pres
  BY <1>1 DEF TypeInv, PreType, TunerType, Pres
<1>3. /\ p.kit = pre.kit /\ p.rate = pre.rate /\ p.shift = pre.shift /\ p.nco = pre.nco
      /\ p.inp = Head(iqInput) /\ p.pc \in {"clear", "push"} /\ p.newRate = pre.newRate
  BY DEF TypeInv, PreType, Pres
<1>4. pre' = Plan(p)
  BY DEF PrePop
<1> HIDE DEF p
<1>5. QED
  BY <1>2, <1>3, <1>4, PlanKeeps

\* The kits on their way stay in order.
LEMMA KitInvStep ==
  ASSUME TypeInv, KitInv, NewInv, [Next]_vars
  PROVE  KitInv'
<1> USE DEF KitInv, Push, TryPush, Pop, HasRoom, Goes, queues, asked, control, tuner
<1>1. CASE PreStart
  BY <1>1 DEF PreStart, TypeInv, PreType, Pres
<1>2. CASE PrePop
  BY <1>2, PopKeeps DEF PrePop
<1>3. CASE PreClear
  BY <1>3 DEF PreClear, TypeInv, PreType, Pres
<1>4. CASE PrePush
  <2>1. pre'.kit \in {NoKit, pre.kit} /\ UNCHANGED <<iqDemod, demod>>
    BY <1>4 DEF PrePush, TypeInv, PreType, Pres
  <2>2. QED
    BY <2>1, GroupedLast DEF TypeInv, QueueType
<1>5. CASE PreSend
  <2> DEFINE b == [kit |-> pre.kit, rate |-> pre.rate, shift |-> Offset, nco |-> Mixer,
                  frequency |-> pre.frequency]
  <2>1. b \in Mixed /\ b.kit = pre.kit
    BY MixerType DEF TypeInv, PreType, Pres, Mixed
  <2>2. iqDemod' = iqDemod \/ (pre.kit # NoKit /\ iqDemod' = Append(iqDemod, b))
    BY <1>5 DEF PreSend
  <2>3. pre'.kit = pre.kit /\ demod' = demod
    BY <1>5 DEF PreSend, TypeInv, PreType, Pres
  <2> HIDE DEF b
  <2>4. CASE iqDemod' = iqDemod
    BY <2>3, <2>4
  <2>5. CASE pre.kit # NoKit /\ iqDemod' = Append(iqDemod, b)
    <3>1. Grouped(LineOf(demod.kit, Append(iqDemod, b), pre.kit))
      BY <2>1, GroupedPush DEF TypeInv, QueueType
    <3>2. \A i \in DOMAIN Append(iqDemod, b) : Append(iqDemod, b)[i].kit # NoKit
      BY <2>1, <2>5, SeqFacts DEF TypeInv, QueueType
    <3>3. QED
      BY <2>3, <2>5, <3>1, <3>2
  <2>6. QED
    BY <2>2, <2>4, <2>5
<1>6. CASE PreDrain
  <2>1. /\ results # <<>> /\ pre'.kit = Head(results).kit
        /\ UNCHANGED <<iqDemod, demod>>
    BY <1>6 DEF PreDrain, TakeResult, TypeInv, PreType, Pres
  <2>2. Head(results) = results[1] /\ 1 \in DOMAIN results
    BY <2>1, SeqFacts DEF TypeInv, QueueType
  <2>3. pre'.kit # demod.kit /\ \A i \in 1..Len(iqDemod) : iqDemod[i].kit # pre'.kit
    BY <2>1, <2>2 DEF NewInv, TypeInv, QueueType
  <2>4. Grouped(LineOf(demod.kit, iqDemod, pre'.kit))
    BY <2>3, GroupedLast DEF TypeInv, QueueType
  <2>5. QED
    BY <2>1, <2>4
<1>7. CASE PreDone
  BY <1>7 DEF PreDone, TypeInv, PreType, Pres
<1>8. CASE PreEnd
  <2>1. pre'.kit = pre.kit /\ iqDemod' = <<>>
    BY <1>8 DEF PreEnd, TypeInv, PreType, Pres
  <2>2. QED
    BY <2>1, GroupedEmpty
<1>9. CASE Demodulate
  <2>1. iqDemod # <<>> /\ iqDemod' = Tail(iqDemod) /\ demod'.kit = Head(iqDemod).kit /\ pre' = pre
    BY <1>9 DEF Demodulate, TypeInv, DemodType
  <2>2. Grouped(LineOf(Head(iqDemod).kit, Tail(iqDemod), pre.kit))
    BY <2>1, GroupedPop DEF TypeInv, QueueType
  <2>3. \A i \in DOMAIN Tail(iqDemod) : Tail(iqDemod)[i].kit # NoKit
    BY <2>1, SeqFacts DEF TypeInv, QueueType
  <2>4. QED
    BY <2>1, <2>2, <2>3
<1>10. CASE DemodStart
  BY <1>10 DEF DemodStart, TypeInv, DemodType
<1>11. CASE DemodEnd
  <2>1. demod'.kit = demod.kit /\ pre' = pre /\ iqDemod' = <<>>
    BY <1>11 DEF DemodEnd, TypeInv, DemodType
  <2>2. QED
    BY <2>1, GroupedEmpty
<1>12. CASE Terminate
  <2>1. demod'.kit = demod.kit /\ pre' = pre /\ iqDemod' = <<>>
    BY <1>12 DEF Terminate, TypeInv, DemodType
  <2>2. QED
    BY <2>1, GroupedEmpty
<1>13. CASE Flush
  <2>1. demod'.kit = demod.kit /\ pre' = pre /\ iqDemod' = <<>>
    BY <1>13 DEF Flush, TypeInv, DemodType
  <2>2. QED
    BY <2>1, GroupedEmpty
<1>14. CASE Join
  <2>1. demod'.kit = demod.kit /\ pre' = pre /\ iqDemod' = <<>>
    BY <1>14 DEF Join, TypeInv, DemodType
  <2>2. QED
    BY <2>1, GroupedEmpty
<1>15. CASE Feed \/ ChangeRate \/ WorkerStart \/ WorkerBuild
  BY <1>15 DEF Feed, ChangeRate, WorkerStart, WorkerBuild
<1>16. CASE WorkerPush \/ WorkerEnd \/ SetFrequency \/ SetNewFrequency
  BY <1>16 DEF WorkerPush, WorkerEnd, SetFrequency, SetNewFrequency
<1>17. CASE Retune \/ SetFrequencyAgain \/ TerminatePre \/ Terminated
  BY <1>17 DEF Retune, SetFrequencyAgain, TerminatePre, Terminated
<1>18. CASE UNCHANGED vars
  BY <1>18 DEF vars
<1>19. QED
  BY <1>1, <1>2, <1>3, <1>4, <1>5, <1>6, <1>7, <1>8, <1>9, <1>10, <1>11, <1>12,
     <1>13, <1>14, <1>15, <1>16, <1>17, <1>18 DEF Next, PreNext, WorkerNext, DemodNext, UserNext

\* The kits of the worker and its results are new.
LEMMA NewInvStep ==
  ASSUME TypeInv, RoomInv, NewInv, [Next]_vars
  PROVE  NewInv'
<1> USE DEF NewInv, Held, Push, TryPush, Pop, HasRoom, Goes, queues, asked, control,
        tuner
<1>1. CASE PreStart
  BY <1>1 DEF PreStart, WorkerType, TypeInv, PreType, Pres
<1>2. CASE PrePop
  BY <1>2, PopKeeps DEF PrePop
<1>3. CASE PreClear
  BY <1>3 DEF PreClear, TypeInv, PreType, Pres
<1>4. CASE PrePush
  <2>1. pre'.kit \in {NoKit, pre.kit} /\ UNCHANGED <<iqDemod, results, demod, worker>>
    BY <1>4 DEF PrePush, TypeInv, PreType, Pres
  <2>2. QED
    BY <2>1
<1>5. CASE PreSend
  <2> DEFINE b == [kit |-> pre.kit, rate |-> pre.rate, shift |-> Offset, nco |-> Mixer,
                  frequency |-> pre.frequency]
  <2>1. b \in Mixed /\ b.kit = pre.kit
    BY MixerType DEF TypeInv, PreType, Pres, Mixed
  <2>2. iqDemod' = iqDemod \/ iqDemod' = Append(iqDemod, b)
    BY <1>5 DEF PreSend
  <2>3. pre'.kit = pre.kit /\ UNCHANGED <<demod, results, worker>>
    BY <1>5 DEF PreSend, TypeInv, PreType, Pres
  <2> HIDE DEF b
  <2>4. \A i \in DOMAIN iqDemod' :
          iqDemod'[i].kit = pre.kit \/ \E j \in DOMAIN iqDemod : iqDemod'[i].kit = iqDemod[j].kit
    <3>1. CASE iqDemod' = iqDemod
      BY <3>1
    <3>2. CASE iqDemod' = Append(iqDemod, b)
      <4>1. /\ DOMAIN iqDemod = 1..Len(iqDemod) /\ Len(iqDemod) \in Nat
            /\ DOMAIN iqDemod' = 1..(Len(iqDemod) + 1)
            /\ \A i \in 1..Len(iqDemod) : iqDemod'[i] = iqDemod[i]
            /\ iqDemod'[Len(iqDemod) + 1] = b
        BY <2>1, <3>2, SeqFacts DEF TypeInv, QueueType
      <4>2. QED
        BY <2>1, <4>1
    <3>3. QED
      BY <2>2, <3>1, <3>2
  <2>5. QED
    BY <2>3, <2>4
<1>6. CASE PreDrain
  <2>1. /\ results # <<>> /\ pre'.kit = Head(results).kit /\ results' = Tail(results)
        /\ UNCHANGED <<iqDemod, demod, worker>>
    BY <1>6 DEF PreDrain, TakeResult, TypeInv, PreType, Pres
  <2>2. /\ Head(results) = results[1] /\ 1 \in DOMAIN results
        /\ \A i \in DOMAIN results' : i + 1 \in DOMAIN results /\ i + 1 # 1
               /\ results'[i] = results[i + 1]
        /\ DOMAIN results' \subseteq Nat
    <3>1. /\ Tail(results) \in Seq(Results) /\ Len(Tail(results)) = Len(results) - 1
          /\ Len(results) \in Nat \ {0} /\ Head(results) = results[1]
          /\ \A i \in 1..(Len(results) - 1) : Tail(results)[i] = results[i + 1]
      BY <2>1, SeqFacts DEF TypeInv, QueueType
    <3>2. DOMAIN results' = 1..(Len(results) - 1) /\ DOMAIN results = 1..Len(results)
      BY <2>1, <3>1 DEF TypeInv, QueueType
    <3>3. QED
      BY <2>1, <3>1, <3>2
  <2>3. Held' \subseteq Held
    BY <2>1, <2>2
  <2>4. \A i \in DOMAIN results' :
          /\ results'[i].kit \notin {NoKit, demod.kit, pre'.kit}
          /\ \A j \in DOMAIN iqDemod : iqDemod[j].kit # results'[i].kit
    BY <2>1, <2>2
  <2>5. \A i, j \in DOMAIN results' : results'[j].kit = results'[i].kit => j = i
    BY <2>2
  <2>6. QED
    BY <2>1, <2>3, <2>4, <2>5
<1>7. CASE PreDone
  BY <1>7 DEF PreDone, TypeInv, PreType, Pres
<1>8. CASE PreEnd
  BY <1>8 DEF PreEnd, TypeInv, PreType, Pres
<1>9. CASE Demodulate
  <2>1. /\ iqDemod # <<>> /\ iqDemod' = Tail(iqDemod) /\ demod'.kit = Head(iqDemod).kit
        /\ UNCHANGED <<pre, worker, results>>
    BY <1>9 DEF Demodulate, TypeInv, DemodType
  <2>2. /\ Head(iqDemod) = iqDemod[1] /\ 1 \in DOMAIN iqDemod
        /\ \A i \in DOMAIN iqDemod' : i + 1 \in DOMAIN iqDemod /\ iqDemod'[i] = iqDemod[i + 1]
    BY <2>1, SeqFacts DEF TypeInv, QueueType
  <2>3. QED
    BY <2>1, <2>2
<1>10. CASE DemodStart
  BY <1>10 DEF DemodStart, TypeInv, DemodType
<1>11. CASE DemodEnd
  BY <1>11 DEF DemodEnd, TypeInv, DemodType
<1>12. CASE Terminate
  BY <1>12 DEF Terminate
<1>13. CASE TerminatePre
  BY <1>13 DEF TerminatePre
<1>14. CASE Flush
  BY <1>14 DEF Flush
<1>15. CASE Join
  BY <1>15 DEF Join
<1>16. CASE WorkerBuild
  <2>1. worker'.kit = NewKit /\ UNCHANGED <<pre, demod, iqDemod, results>>
    BY <1>16 DEF WorkerBuild
  <2>2. NewKit # NoKit /\ NewKit \notin Held
    BY NewKitFacts
  <2>3. QED
    BY <2>1, <2>2
<1>17. CASE WorkerPush
  <2> DEFINE r == [kit |-> worker.kit, rate |-> worker.rate]
  <2>1. /\ worker.pc = "push" /\ worker'.pc = "pop" /\ results' = Append(results, r)
        /\ UNCHANGED <<pre, demod, iqDemod>>
    BY <1>17 DEF WorkerPush
  <2>2. r \in Results /\ r.kit = worker.kit
    BY DEF TypeInv, WorkerType, Results
  <2> HIDE DEF r
  <2>3. /\ DOMAIN results = 1..Len(results) /\ Len(results) \in Nat
        /\ DOMAIN results' = 1..(Len(results) + 1)
        /\ \A i \in DOMAIN results : results'[i] = results[i]
        /\ results'[Len(results) + 1] = r
    BY <2>1, <2>2, SeqFacts DEF TypeInv, QueueType
  <2>4. worker.kit \notin Held \cup {NoKit}
    BY <2>1
  <2>5. \A i \in DOMAIN results : results[i].kit # worker.kit
    BY <2>4
  <2>6. QED
    BY <2>1, <2>2, <2>3, <2>4, <2>5
<1>18. CASE WorkerStart
  BY <1>18 DEF WorkerStart, TypeInv, WorkerType
<1>19. CASE WorkerEnd
  BY <1>19 DEF WorkerEnd, TypeInv, WorkerType
<1>20. CASE Feed \/ ChangeRate \/ SetFrequency \/ SetNewFrequency
  BY <1>20 DEF Feed, ChangeRate, SetFrequency, SetNewFrequency
<1>21. CASE Retune \/ SetFrequencyAgain \/ Terminated
  BY <1>21 DEF Retune, SetFrequencyAgain, Terminated
<1>22. CASE UNCHANGED vars
  BY <1>22 DEF vars
<1>23. QED
  BY <1>1, <1>2, <1>3, <1>4, <1>5, <1>6, <1>7, <1>8, <1>9, <1>10, <1>11, <1>12,
     <1>13, <1>14, <1>15, <1>16, <1>17, <1>18, <1>19, <1>20, <1>21, <1>22
  DEF Next, PreNext, WorkerNext, DemodNext, UserNext

\* Rates are positive.
LEMMA RatesPositive == ASSUME TypeInv PROVE FirstRate # 0 /\ source # 0
  BY ConstantFacts DEF TypeInv, TunerType

\* The next batch, and those after it.
LEMMA NextBatch ==
  ASSUME TypeInv, RateInv, Pop(iqInput)
  PROVE  /\ Head(iqInput).rate \in {FirstRate, source} /\ Head(iqInput).freq \in Centers
         /\ \A i \in DOMAIN iqInput' : i + 1 \in DOMAIN iqInput
                /\ iqInput'[i] = iqInput[i + 1] /\ i \in Nat
         /\ Second(Head(iqInput).rate) \/ Second(pre.newRate)
              => \A i \in DOMAIN iqInput' : Second(iqInput'[i].rate)
         /\ Second(pre.newRate) => Second(Head(iqInput).rate)
<1>1. /\ iqInput # <<>> /\ iqInput' = Tail(iqInput)
      /\ Tail(iqInput) \in Seq(Batches) /\ Len(Tail(iqInput)) = Len(iqInput) - 1
      /\ Len(iqInput) \in Nat \ {0} /\ Head(iqInput) = iqInput[1]
      /\ \A i \in 1..(Len(iqInput) - 1) : Tail(iqInput)[i] = iqInput[i + 1]
  BY SeqFacts DEF Pop, TypeInv, QueueType
<1>2. DOMAIN iqInput' = 1..(Len(iqInput) - 1) /\ DOMAIN iqInput = 1..Len(iqInput)
  BY <1>1 DEF TypeInv, QueueType
<1>3. 1 \in DOMAIN iqInput
      /\ \A i \in DOMAIN iqInput' : i + 1 \in DOMAIN iqInput /\ 1 < i + 1
             /\ iqInput'[i] = iqInput[i + 1] /\ i \in Nat
  BY <1>1, <1>2
<1>4. QED
  BY <1>1, <1>3 DEF RateInv

\* The pre-processor sees no batch of the first rate after one of the second.
LEMMA RateInvStep ==
  ASSUME TypeInv, MakeInv, RateInv, BuiltInv, [Next]_vars
  PROVE  changes' <= 1 => RateInv'
<1> USE DEF RateInv, Push, TryPush, Pop, HasRoom, Goes, queues, asked,
        control, tuner
<1>1. CASE Feed
  <2> DEFINE b == [freq |-> center, rate |-> source]
  <2>1. /\ iqInput' \in {iqInput, Append(iqInput, b)}
        /\ UNCHANGED <<pre, source, changes>>
    BY <1>1 DEF Feed
  <2>2. b \in Batches /\ b.rate = source /\ b.freq \in Centers
         /\ (Second(source) <=> source # FirstRate)
    BY ConstantFacts, RatesPositive DEF TypeInv, TunerType, Batches, Centers, Second
  <2> HIDE DEF b
  <2>3. CASE iqInput' = iqInput
    BY <2>1, <2>3
  <2>4. CASE iqInput' = Append(iqInput, b)
    <3>1. /\ DOMAIN iqInput = 1..Len(iqInput) /\ Len(iqInput) \in Nat
          /\ DOMAIN iqInput' = 1..(Len(iqInput) + 1)
          /\ \A i \in 1..Len(iqInput) : iqInput'[i] = iqInput[i]
          /\ iqInput'[Len(iqInput) + 1] = b
      BY <2>2, <2>4, SeqFacts DEF TypeInv, QueueType
    <3>2. \A i \in DOMAIN iqInput' : iqInput'[i].rate \in {FirstRate, source}
           /\ iqInput'[i].freq \in Centers
      BY <2>2, <3>1
    \* A batch of the second rate is of the source's.
    <3>3. \A r \in {0, FirstRate, source} : Second(r) => Second(source)
      BY DEF Second
    <3>4. \A i, j \in DOMAIN iqInput' :
            i < j /\ Second(iqInput'[i].rate) => Second(iqInput'[j].rate)
      BY <2>2, <3>1, <3>2, <3>3
    <3>5. Second(pre.newRate) => \A i \in DOMAIN iqInput' : Second(iqInput'[i].rate)
      BY <2>2, <3>1, <3>3
    <3>6. QED
      BY <2>1, <3>2, <3>4, <3>5
  <2>5. QED
    BY <2>1, <2>3, <2>4
<1>2. CASE ChangeRate
  <2>1. changes' <= 1 => changes = 0 /\ changes' = 1
    BY <1>2 DEF ChangeRate, TypeInv, TunerType
  <2>2. source' # source /\ UNCHANGED <<iqInput, pre>>
    BY <1>2 DEF ChangeRate
  <2>3. QED
    BY <2>1, <2>2
<1>3. CASE PreStart
  BY <1>3 DEF PreStart, Busy, TypeInv, PreType, Pres
<1>4. CASE PrePop
  <2>1. Pop(iqInput) /\ UNCHANGED <<source, changes>>
    BY <1>4 DEF PrePop
  <2> DEFINE b == Head(iqInput)
  <2>2. /\ pre'.inp = b /\ pre'.pc \in {"clear", "push"}
        /\ pre'.newRate = IF b.rate # pre.rate THEN b.rate ELSE pre.newRate
    BY <1>4, PopKeeps
  <2>3. /\ b.rate \in {FirstRate, source} /\ b.freq \in Centers
        /\ \A i \in DOMAIN iqInput' : i + 1 \in DOMAIN iqInput
               /\ iqInput'[i] = iqInput[i + 1] /\ i \in Nat
        /\ Second(b.rate) \/ Second(pre.newRate)
               => \A i \in DOMAIN iqInput' : Second(iqInput'[i].rate)
        /\ Second(pre.newRate) => Second(b.rate)
    BY <2>1, NextBatch
  <2> HIDE DEF b
  <2>4. b.rate = pre.rate => pre.newRate = b.rate
    <3>1. CASE Second(pre.newRate)
      BY <2>3, <3>1 DEF Second
    <3>2. CASE ~Second(pre.newRate)
      BY <2>3, <3>2, RatesPositive DEF BuiltInv, Rated, Second
    <3>3. QED
      BY <3>1, <3>2
  <2>5. pre'.newRate = b.rate
    BY <2>2, <2>4
  <2>6. \A i, j \in DOMAIN iqInput' : i < j /\ Second(iqInput'[i].rate) => Second(iqInput'[j].rate)
    <3>1. ASSUME NEW i \in DOMAIN iqInput', NEW j \in DOMAIN iqInput', i < j,
                 Second(iqInput'[i].rate)
          PROVE  Second(iqInput'[j].rate)
      <4>1. i + 1 < j + 1
        BY <2>3, <3>1
      <4>2. QED
        BY <2>3, <3>1, <4>1
    <3>2. QED
      BY <3>1
  <2>7. \A i \in DOMAIN iqInput' : iqInput'[i].rate \in {FirstRate, source}
         /\ iqInput'[i].freq \in Centers
    BY <2>3
  <2>8. b.rate # 0 /\ (pre'.cmd # "none" => pre'.pc \in Busy)
    BY <2>2, <2>3, RatesPositive DEF Busy
  <2>9. QED
    BY <2>1, <2>2, <2>3, <2>5, <2>6, <2>7, <2>8
<1>5. CASE PreClear
  BY <1>5 DEF PreClear, Busy, TypeInv, PreType, Pres
<1>6. CASE PrePush
  BY <1>6 DEF PrePush, Busy, TypeInv, PreType, Pres
<1>7. CASE PreSend
  <2>1. /\ pre.pc = "push" /\ pre'.newRate = pre.newRate
        /\ pre'.pc = "pop" \/ (pre'.pc = "drain" /\ pre'.inp = pre.inp)
        /\ UNCHANGED <<iqInput, source, changes>>
    BY <1>7 DEF PreSend, TypeInv, PreType, Pres
  <2>2. QED
    BY <2>1 DEF Busy
<1>8. CASE PreDrain
  BY <1>8 DEF PreDrain, TakeResult, Busy, TypeInv, PreType, Pres
<1>9. CASE PreDone
  BY <1>9 DEF PreDone, Busy, TypeInv, PreType, Pres
<1>10. CASE PreEnd
  BY <1>10 DEF PreEnd, Busy, TypeInv, PreType, Pres
<1>11. CASE Flush
  BY <1>11 DEF Flush
<1>12. CASE Join
  BY <1>12 DEF Join
<1>13. CASE WorkerStart \/ WorkerBuild \/ WorkerPush \/ WorkerEnd \/ DemodStart
  BY <1>13 DEF WorkerStart, WorkerBuild, WorkerPush, WorkerEnd, DemodStart
<1>14. CASE Demodulate \/ DemodEnd \/ SetFrequency \/ Terminate \/ SetNewFrequency
  BY <1>14 DEF Demodulate, DemodEnd, SetFrequency, Terminate, SetNewFrequency
<1>15. CASE Retune \/ SetFrequencyAgain \/ TerminatePre \/ Terminated
  BY <1>15 DEF Retune, SetFrequencyAgain, TerminatePre, Terminated
<1>16. CASE UNCHANGED vars
  BY <1>16 DEF vars
<1>17. QED
  BY <1>1, <1>2, <1>3, <1>4, <1>5, <1>6, <1>7, <1>8, <1>9, <1>10, <1>11, <1>12,
     <1>13, <1>14, <1>15, <1>16 DEF Next, PreNext, WorkerNext, DemodNext, UserNext

\* Nothing is built for another rate before the pre-processor has seen it.
LEMMA BuiltInvStep ==
  ASSUME TypeInv, MakeInv, RateInv, BuiltInv, [Next]_vars
  PROVE  changes' <= 1 => BuiltInv'
<1> USE DEF BuiltInv, Rated, Push, TryPush, Pop, HasRoom, Goes, queues, asked,
        control, tuner
<1>1. CASE PreStart
  <2>1. /\ pre'.newRate = pre.newRate /\ pre'.rate = pre.rate /\ worker'.rate = worker.rate
        /\ UNCHANGED <<commands, results>>
    BY <1>1 DEF PreStart, WorkerType, TypeInv, PreType, Pres
  <2>2. QED
    BY <2>1
<1>2. CASE PrePop
  <2>1. Pop(iqInput) /\ UNCHANGED <<commands, results, worker>>
    BY <1>2 DEF PrePop
  <2> DEFINE b == Head(iqInput)
  <2>2. /\ pre'.rate = pre.rate
        /\ pre'.newRate = IF b.rate # pre.rate THEN b.rate ELSE pre.newRate
    BY <1>2, PopKeeps
  <2>3. b.rate \in {FirstRate, source} /\ (Second(pre.newRate) => Second(b.rate))
    BY <2>1, NextBatch
  <2> HIDE DEF b
  <2>4. Rated' = Rated
    BY <2>1, <2>2 DEF Rated
  <2>5. ASSUME ~Second(pre'.newRate) PROVE ~Second(pre.newRate) /\ pre.newRate \in {0, pre'.newRate}
    <3>1. ~Second(pre.newRate)
      BY <2>2, <2>3, <2>5
    <3>2. QED
      BY <2>2, <2>3, <2>5, <3>1, RatesPositive DEF RateInv, Second
  <2>6. QED
    BY <2>4, <2>5 DEF BuiltInv
<1>3. CASE PreClear
  <2>1. /\ pre'.newRate = pre.newRate /\ pre'.rate = pre.rate /\ worker'.rate = worker.rate
        /\ UNCHANGED <<commands, results>>
    BY <1>3 DEF PreClear, WorkerType, TypeInv, PreType, Pres
  <2>2. QED
    BY <2>1
<1>4. CASE PrePush
  <2> DEFINE x == [cmd |-> pre.cmd, rate |-> pre.newRate]
  <2>1. /\ commands' = Append(commands, x) /\ pre'.newRate = pre.newRate /\ pre'.rate = pre.rate
        /\ UNCHANGED <<results, worker>>
    BY <1>4 DEF PrePush, TypeInv, PreType, Pres
  <2>2. x \in Commands /\ x.rate = pre.newRate
    BY <1>4 DEF PrePush, TypeInv, PreType, Pres, Commands
  <2> HIDE DEF x
  <2>3. \A i \in DOMAIN commands' :
          commands'[i].rate = pre.newRate \/ (i \in DOMAIN commands /\ commands'[i] = commands[i])
    BY <2>1, <2>2, SeqFacts DEF TypeInv, QueueType
  <2>4. QED
    BY <2>1, <2>3
<1>5. CASE PreSend
  <2>1. pre'.newRate = pre.newRate /\ pre'.rate = pre.rate
         /\ UNCHANGED <<commands, results, worker>>
    BY <1>5 DEF PreSend, TypeInv, PreType, Pres
  <2>2. QED
    BY <2>1
<1>6. CASE PreDrain
  <2>1. /\ results # <<>> /\ results' = Tail(results) /\ pre'.rate = Head(results).rate
        /\ pre'.newRate = pre.newRate /\ UNCHANGED <<commands, worker>>
    BY <1>6 DEF PreDrain, TakeResult, TypeInv, PreType, Pres
  <2>2. /\ 1 \in DOMAIN results /\ Head(results) = results[1]
        /\ \A i \in DOMAIN results' : i + 1 \in DOMAIN results /\ results'[i] = results[i + 1]
    BY <2>1, SeqFacts DEF TypeInv, QueueType
  <2>3. Rated' \subseteq Rated
    BY <2>1, <2>2
  <2>4. QED
    BY <2>1, <2>3
<1>7. CASE PreDone
  <2>1. /\ pre'.newRate = pre.newRate /\ pre'.rate = pre.rate /\ worker'.rate = worker.rate
        /\ UNCHANGED <<commands, results>>
    BY <1>7 DEF PreDone, WorkerType, TypeInv, PreType, Pres
  <2>2. QED
    BY <2>1
<1>8. CASE PreEnd
  <2>1. /\ pre'.newRate = pre.newRate /\ pre'.rate = pre.rate /\ worker'.rate = worker.rate
        /\ UNCHANGED <<commands, results>>
    BY <1>8 DEF PreEnd, WorkerType, TypeInv, PreType, Pres
  <2>2. QED
    BY <2>1
<1>9. CASE TerminatePre
  BY <1>9 DEF TerminatePre
<1>10. CASE WorkerStart
  BY <1>10 DEF WorkerStart, TypeInv, WorkerType
<1>11. CASE WorkerBuild
  <2>1. PICK i \in DOMAIN commands : worker'.rate = commands[i].rate
    BY <1>11, EffectiveFacts DEF WorkerBuild
  <2>2. commands' = <<>> /\ UNCHANGED <<pre, results>>
    BY <1>11 DEF WorkerBuild
  <2>3. Rated' \subseteq Rated
    BY <2>1, <2>2
  <2>4. QED
    BY <2>2, <2>3
<1>12. CASE WorkerPush
  <2> DEFINE x == [kit |-> worker.kit, rate |-> worker.rate]
  <2>1. /\ results' = Append(results, x) /\ worker'.rate = 0 /\ UNCHANGED <<pre, commands>>
    BY <1>12 DEF WorkerPush
  <2>2. x \in Results /\ x.rate = worker.rate
    BY DEF TypeInv, WorkerType, Results
  <2> HIDE DEF x
  <2>3. \A i \in DOMAIN Append(results, x) :
          \/ Append(results, x)[i].rate = worker.rate
          \/ i \in DOMAIN results /\ Append(results, x)[i] = results[i]
    <3>1. results \in Seq(Results)
      BY DEF TypeInv, QueueType
    <3>2. QED
      BY <2>2, <3>1, SeqFacts
  <2>4. QED
    BY <2>1, <2>3
<1>13. CASE WorkerEnd
  BY <1>13 DEF WorkerEnd, TypeInv, WorkerType
<1>14. CASE Feed \/ ChangeRate \/ DemodStart \/ Demodulate \/ DemodEnd
  BY <1>14 DEF Feed, ChangeRate, DemodStart, Demodulate, DemodEnd
<1>15. CASE SetFrequency \/ Terminate \/ SetNewFrequency \/ Retune \/
        SetFrequencyAgain
  BY <1>15 DEF SetFrequency, Terminate, SetNewFrequency, Retune, SetFrequencyAgain
<1>16. CASE Flush \/ Join \/ Terminated
  BY <1>16 DEF Flush, Join, Terminated
<1>17. CASE UNCHANGED vars
  BY <1>17 DEF vars
<1>18. QED
  BY <1>1, <1>2, <1>3, <1>4, <1>5, <1>6, <1>7, <1>8, <1>9, <1>10, <1>11, <1>12,
     <1>13, <1>14, <1>15, <1>16, <1>17 DEF Next, PreNext, WorkerNext, DemodNext, UserNext

\* The mixer is set for the rate of the resampler.
LEMMA MixerInvStep ==
  ASSUME TypeInv, RateInv, MixerInv, [Next]_vars
  PROVE  changes' <= 1 => MixerInv'
<1> USE DEF MixerInv, Push, TryPush, Pop, HasRoom, Goes, queues, asked, control,
        tuner
<1>1. CASE PreStart
  BY <1>1 DEF PreStart, TypeInv, PreType, Pres
<1>2. CASE PrePop
  <2>1. /\ pre'.kit = pre.kit /\ pre'.rate = pre.rate /\ pre'.shift = pre.shift
         /\ pre'.nco = pre.nco
        /\ pre'.newRate = pre'.rate => pre.newRate = pre.rate
    BY <1>2, PopKeeps
  <2>2. iqDemod' = iqDemod
    BY <1>2 DEF PrePop
  <2>3. QED
    BY <2>1, <2>2
<1>3. CASE PreClear
  BY <1>3 DEF PreClear, TypeInv, PreType, Pres
<1>4. CASE PrePush
  BY <1>4 DEF PrePush, TypeInv, PreType, Pres
<1>5. CASE PreSend
  <2> DEFINE b == [kit |-> pre.kit, rate |-> pre.rate, shift |-> Offset, nco |-> Mixer,
                  frequency |-> pre.frequency]
  <2>1. /\ pre.inp.rate = pre.newRate /\ Offset \in Int /\ Mixer \in Ncos
        /\ InRange <=> ~(2 * Abs(Offset) > 3 * (pre.inp.rate \div 2))
    <3>1. pre.inp.rate = pre.newRate /\ pre.inp.rate \in Nat
      BY <1>5 DEF PreSend, RateInv, Busy, TypeInv, PreType, Pres, Batches
    <3>2. Offset \in Int /\ Mixer \in Ncos
      BY MixerType DEF TypeInv
    <3>3. Abs(Offset) \in Int /\ pre.inp.rate \div 2 \in Int
      BY <3>1, <3>2 DEF Abs
    <3>4. QED
      BY <3>1, <3>2, <3>3 DEF InRange
  <2>2. pre.kit # NoKit /\ pre.newRate = pre.rate => SetFor(Offset, Mixer, pre.rate)
    <3>1. CASE Offset # pre.shift /\ InRange
      BY <2>1, <3>1 DEF Mixer, SetFor
    <3>2. CASE ~InRange
      BY <2>1, <3>2 DEF SetFor
    <3>3. CASE Offset = pre.shift
      BY <2>1, <3>3 DEF Mixer
    <3>4. QED
      BY <3>1, <3>2, <3>3
  <2>3. /\ pre'.shift = Offset /\ pre'.nco = Mixer
        /\ pre'.kit = pre.kit /\ pre'.newRate = pre.newRate /\ pre'.rate = pre.rate
    BY <1>5 DEF PreSend, TypeInv, PreType, Pres
  <2>4. \/ iqDemod' = iqDemod
        \/ pre.kit # NoKit /\ InRange /\ pre.inp.rate = pre.rate /\ iqDemod' = Append(iqDemod, b)
    BY <1>5 DEF PreSend
  <2>5. /\ b.shift = Offset /\ b.nco = Mixer /\ b.rate = pre.rate
        /\ b \in Mixed
    BY <2>1 DEF TypeInv, PreType, Pres, Mixed
  <2> HIDE DEF b
  <2>6. CASE iqDemod' = iqDemod
    BY <2>2, <2>3, <2>6
  <2>7. CASE pre.kit # NoKit /\ InRange /\ pre.inp.rate = pre.rate /\ iqDemod' = Append(iqDemod, b)
    <3>1. b.shift \notin Forgotten => b.nco = [shift |-> b.shift, rate |-> b.rate]
      BY <2>1, <2>2, <2>5, <2>7 DEF SetFor
    <3>2. /\ DOMAIN iqDemod = 1..Len(iqDemod) /\ Len(iqDemod) \in Nat
          /\ DOMAIN iqDemod' = 1..(Len(iqDemod) + 1)
          /\ \A i \in 1..Len(iqDemod) : iqDemod'[i] = iqDemod[i]
          /\ iqDemod'[Len(iqDemod) + 1] = b
      BY <2>5, <2>7, SeqFacts DEF TypeInv, QueueType
    <3>3. \A i \in DOMAIN iqDemod' : iqDemod'[i] = b \/ (i \in DOMAIN iqDemod
           /\ iqDemod'[i] = iqDemod[i])
      BY <3>2
    <3>4. QED
      BY <2>2, <2>3, <3>1, <3>3
  <2>8. QED
    BY <2>4, <2>6, <2>7
<1>6. CASE PreDrain
  <2>1. /\ pre.pc = "drain" /\ pre'.shift = pre.inp.freq - 1 /\ iqDemod' = iqDemod
    BY <1>6 DEF PreDrain, TakeResult, TypeInv, PreType, Pres
  <2>2. pre'.shift \in Forgotten
    BY <2>1 DEF RateInv, Busy, Forgotten, Centers
  <2>3. QED
    BY <2>1, <2>2 DEF SetFor
<1>7. CASE PreDone
  BY <1>7 DEF PreDone, TypeInv, PreType, Pres
<1>8. CASE PreEnd
  BY <1>8 DEF PreEnd, TypeInv, PreType, Pres
<1>9. CASE Demodulate
  <2>1. iqDemod # <<>> /\ iqDemod' = Tail(iqDemod) /\ pre' = pre
    BY <1>9 DEF Demodulate
  <2>2. \A i \in DOMAIN iqDemod' : i + 1 \in DOMAIN iqDemod /\ iqDemod'[i] = iqDemod[i + 1]
    BY <2>1, SeqFacts DEF TypeInv, QueueType
  <2>3. QED
    BY <2>1, <2>2
<1>10. CASE DemodEnd
  BY <1>10 DEF DemodEnd
<1>11. CASE Terminate
  BY <1>11 DEF Terminate
<1>12. CASE Flush
  BY <1>12 DEF Flush
<1>13. CASE Join
  BY <1>13 DEF Join
<1>14. CASE Feed \/ ChangeRate \/ WorkerStart \/ WorkerBuild \/ WorkerPush
  BY <1>14 DEF Feed, ChangeRate, WorkerStart, WorkerBuild, WorkerPush
<1>15. CASE WorkerEnd \/ DemodStart \/ SetFrequency \/ SetNewFrequency \/ Retune
  BY <1>15 DEF WorkerEnd, DemodStart, SetFrequency, SetNewFrequency, Retune
<1>16. CASE SetFrequencyAgain \/ TerminatePre \/ Terminated
  BY <1>16 DEF SetFrequencyAgain, TerminatePre, Terminated
<1>17. CASE UNCHANGED vars
  BY <1>17 DEF vars
<1>18. QED
  BY <1>1, <1>2, <1>3, <1>4, <1>5, <1>6, <1>7, <1>8, <1>9, <1>10, <1>11, <1>12,
     <1>13, <1>14, <1>15, <1>16, <1>17 DEF Next, PreNext, WorkerNext, DemodNext, UserNext

\* As long as the rate has changed once at most, it had before.
LEMMA OnceInvStep ==
  ASSUME TypeInv, MakeInv, OnceInv, [Next]_vars
  PROVE  OnceInv'
<1>1. changes' <= 1 => changes <= 1
  <2>1. changes' = changes \/ changes' = changes + 1
    BY DEF Next, PreNext, WorkerNext, DemodNext, UserNext, vars, tuner, Feed, ChangeRate, PreStart,
         PrePop, PreClear, PrePush, PreSend, PreDrain, PreDone, PreEnd, WorkerStart, WorkerBuild,
         WorkerPush, WorkerEnd, DemodStart, Demodulate, DemodEnd, SetFrequency, Terminate,
         SetNewFrequency, Retune, SetFrequencyAgain, TerminatePre, Flush, Join, Terminated
  <2>2. changes \in Nat
    BY DEF TypeInv, TunerType
  <2>3. QED
    BY <2>1, <2>2
<1>2. QED
  BY <1>1, RateInvStep, BuiltInvStep, MixerInvStep DEF OnceInv

\* A new pipeline.
LEMMA InitInv == Init => PipelineInv
<1> SUFFICES ASSUME Init PROVE PipelineInv
  OBVIOUS
<1> USE ConstantFacts DEF Init
<1>1. QueueType
  BY EmptySeq DEF QueueType
<1>2. PreType
  BY DEF PreType, Pres, Batches, Ncos, NoBatch, NoKit
<1>3. WorkerType /\ DemodType /\ TunerType
  BY DEF WorkerType, DemodType, TunerType, Centers, NoKit
<1>4. RoomInv /\ MakeInv
  BY DEF RoomInv, MakeInv
<1>5. KitInv
  BY GroupedEmpty DEF KitInv
<1>6. NewInv
  BY DEF NewInv
<1>7. RateInv
  BY DEF RateInv, Second, Busy
<1>8. BuiltInv /\ MixerInv
  BY DEF BuiltInv, Rated, MixerInv, NoKit
<1>9. QED
  BY <1>1, <1>2, <1>3, <1>4, <1>5, <1>6, <1>7, <1>8 DEF PipelineInv, TypeInv, OnceInv

\* Every step keeps the invariant.
LEMMA NextInv == PipelineInv /\ [Next]_vars => PipelineInv'
  BY TypeInvStep, RoomInvStep, MakeInvStep, KitInvStep, NewInvStep, OnceInvStep
  DEF PipelineInv, TypeInv

-----------------------------------------------------------------------------
\* Kits and rates are in order in the queues at every step of the
\* pre-processor, the worker, the demodulator, the scanner and main.
THEOREM PipelineInvariant == Spec => []PipelineInv
  BY InitInv, NextInv, PTL DEF Spec

\* A batch is mixed for the rate it has, as long as the rate has changed once
\* at most (DemodulatorPreThread::run).
THEOREM BatchesAreMixed == Spec => []MixedForItsRate
<1>1. PipelineInv => MixedForItsRate
  BY DEF PipelineInv, OnceInv, MixerInv, MixedForItsRate
<1>2. QED
  BY <1>1, PipelineInvariant, PTL

\* A kit that the demodulator disposes of when another comes is no longer in
\* the queue, with the pre-processor or the worker: its stretch of the line
\* has come to an end (DemodulatorThread::run).
THEOREM DeadKitsAreFree == Spec => NoDeadKit
<1>1. ASSUME PipelineInv, Demodulate
      PROVE  LET k == Disposed(Head(iqDemod).kit) IN k # NoKit => k \notin Held'
  <2> DEFINE k == demod.kit
             q == iqDemod
             line == LineOf(demod.kit, iqDemod, pre.kit)
  <2>1. SUFFICES ASSUME Head(q).kit # k, k # NoKit PROVE k \notin Held'
    BY DEF Disposed
  <2>2. /\ q # <<>> /\ iqDemod' = Tail(q) /\ demod'.kit = Head(q).kit
        /\ UNCHANGED <<pre, results>>
    BY <1>1 DEF Demodulate, Pop, PipelineInv, TypeInv, DemodType
  <2>3. /\ q \in Seq(Mixed) /\ Head(q) = q[1] /\ Len(q) \in Nat \ {0}
        /\ \A i \in DOMAIN Tail(q) : i \in Nat /\ i + 1 \in 2..Len(q) /\ Tail(q)[i] = q[i + 1]
    BY <1>1, <2>2, SeqFacts DEF PipelineInv, TypeInv, QueueType
  <2>4. /\ DOMAIN line = 0..(Len(q) + 1) /\ line[0] = k /\ line[Len(q) + 1] = pre.kit
        /\ \A i \in 1..Len(q) : line[i] = q[i].kit
    BY <2>3, LineFacts
  \* Whoever is behind the first batch has another kit.
  <2>5. ASSUME NEW i \in 2..(Len(q) + 1) PROVE line[i] # k
    <3>1. 0 \in DOMAIN line /\ 1 \in DOMAIN line /\ i \in DOMAIN line /\ 0 < 1 /\ 1 < i
      BY <2>3, <2>4, <2>5
    <3>2. line[1] = Head(q).kit
      BY <2>3, <2>4
    <3>3. Grouped(line)
      BY <1>1 DEF PipelineInv, KitInv
    <3> HIDE DEF line
    <3>4. QED
      BY <2>1, <2>4, <3>1, <3>2, <3>3 DEF Grouped
  <2>6. \A i \in DOMAIN Tail(q) : Tail(q)[i].kit # k
    BY <2>3, <2>4, <2>5
  <2>7. pre.kit # k
    BY <2>3, <2>4, <2>5
  <2>8. \A i \in DOMAIN results : results[i].kit # k
    BY <1>1 DEF PipelineInv, NewInv
  <2>9. QED
    BY <2>1, <2>2, <2>6, <2>7, <2>8 DEF Held
<1>2. PipelineInv /\ [Next]_vars
        => [Demodulate => LET k == Disposed(Head(iqDemod).kit) IN k # NoKit => k \notin Held']_vars
  BY <1>1
<1>3. QED
  BY <1>2, PipelineInvariant, PTL DEF Spec, NoDeadKit

=============================================================================
