------------------------------- MODULE Pipeline -------------------------------
(***************************************************************************)
(* One modem's threads (DemodulatorInstance.cpp) and the bounded queues    *)
(* between them: the pre-processor shifts and resamples the batches of the *)
(* post thread, the worker builds modem, kit and resampler on its command, *)
(* the demodulator consumes. The scanner tunes the modem meanwhile, and    *)
(* main terminates it. Whether the post thread feeds the modem is decided  *)
(* as in Modems, here for one modem that stays current.                    *)
(*                                                                         *)
(* Type, bandwidth and audio rate are set before DemodulatorInstance::run  *)
(* and never change in PiScan, so a modem is made once; its kit is built   *)
(* again for every command. Signal data, squelch and audio are left out.   *)
(***************************************************************************)
EXTENDS Integers, Sequences

CONSTANTS
  Freqs,        \* frequencies the scanner tunes to
  FirstFreq,    \* INIT_FREQUENCY
  FirstCenter,  \* the tuner's first centre
  Rates,        \* sample rates of the batches
  FirstRate,
  IQMax,        \* capacity of pipeIQInputData and of pipeIQDemodData (100)
  CommandMax,   \* capacity of the worker's command queue (2)
  ResultMax,    \* capacity of its result queue (100)
  MaxTunes, MaxRates  \* bounds: calls of setFrequency, changes of the rate

ASSUME PipelineAssumption ==
  /\ Freqs \subseteq Nat /\ FirstFreq \in Nat /\ FirstCenter \in Nat
  /\ Rates \subseteq Nat \ {0} /\ FirstRate \in Rates
  /\ {IQMax, CommandMax, ResultMax} \subseteq Nat \ {0}
  /\ {MaxTunes, MaxRates} \subseteq Nat

VARIABLES
  iqInput,      \* pipeIQInputData: [freq, rate]
  commands,     \* workerQueue: [cmd, rate]
  results,      \* workerResults: [kit, rate]
  iqDemod,      \* pipeIQDemodData: batches as they leave the pre-processor
  frequencyChanged, newFrequency,  \* shared with setFrequency
  pre,          \* DemodulatorPreThread, one field for each member it keeps
  worker,       \* DemodulatorWorkerThread: where it is, the result it has built
  demod,        \* DemodulatorThread: where it is, cModemKit, the level's frequency
  stopping,     \* threads told to stop
  user, target, tunes,     \* setFrequency and terminate
  lost,         \* the flag was cleared over a frequency not taken
  center, source, changes, \* the tuner: its frequency and rate
  post,         \* SDRPostThread: the label it has seen, if it feeds the modem
  missed        \* it leaves the modem out since it was not on its target, or not there

queues == <<iqInput, commands, results, iqDemod>>
asked == <<frequencyChanged, newFrequency, lost>>
control == <<user, target, tunes>>
tuner == <<center, source, changes, post, missed>>
vars == <<queues, asked, pre, worker, demod, stopping, control, tuner>>

NoKit == 0
NoBatch == [freq |-> 0, rate |-> 0]
Abs(n) == IF n < 0 THEN -n ELSE n

Init ==
  /\ iqInput = <<>> /\ commands = <<>> /\ results = <<>> /\ iqDemod = <<>>
  /\ frequencyChanged = TRUE /\ newFrequency = FirstFreq
  /\ pre = [pc |-> "new", inp |-> NoBatch, cmd |-> "none", frequency |-> 0,
            typeChanged |-> TRUE, bandwidthChanged |-> TRUE, rateChanged |-> FALSE,
            newRate |-> 0, rate |-> 0, kit |-> NoKit, shift |-> 0,
            nco |-> [shift |-> 0, rate |-> 0]]
  /\ worker = [pc |-> "new", rate |-> 0, kit |-> NoKit]
  /\ demod = [pc |-> "new", kit |-> NoKit, level |-> 0]
  /\ stopping = {}
  /\ user = "idle" /\ target = FirstFreq /\ tunes = 0 /\ lost = FALSE
  /\ center = FirstCenter /\ source = FirstRate /\ changes = 0
  \* Batches may have come before the modem was made.
  /\ missed \in BOOLEAN
  /\ post = [fed |-> FALSE,
             label |-> IF missed THEN [freq |-> FirstCenter, rate |-> FirstRate] ELSE NoBatch]

-----------------------------------------------------------------------------
(* ThreadBlockingQueue: push waits for room, pop for an item (its timeout  *)
(* only lets a loop look at its stop flag), flush empties.                 *)

HasRoom(q, max) == Len(q) < max
Push(q, max, item) == HasRoom(q, max) /\ q' = Append(q, item)
TryPush(q, max, item) == q' = IF HasRoom(q, max) THEN Append(q, item) ELSE q
Pop(q) == q # <<>> /\ q' = Tail(q)

-----------------------------------------------------------------------------
(* The tuner and SDRPostThread.                                            *)

\* DemodulatorPreThread::getFrequency
GetFrequency == IF frequencyChanged THEN newFrequency ELSE pre.frequency

\* OnExit has ended the post thread before it terminates the modems.
Terminating == user \in {"pre", "flush", "join", "wait", "done", "crashed"}

\* updateActiveDemodulators
InBand(label) == Abs(GetFrequency - label.freq) <= label.rate \div 2

\* One batch: a new label, or rate, and the post thread looks whether the modem
\* is in the band; the batch goes to a modem on its list, without waiting for
\* room; and a modem of the list that has left the band is dropped, to be
\* looked at again with the next label. Modems takes these steps apart.
Feed ==
  LET label == [freq |-> center, rate |-> source]
      lists == IF label # post.label THEN InBand(label) ELSE post.fed
      fed == lists /\ InBand(label)
  IN /\ ~Terminating
     /\ post' = [label |-> label, fed |-> fed]
     /\ IF lists THEN TryPush(iqInput, IQMax, label) ELSE UNCHANGED iqInput
     /\ missed' = (~fed /\ (GetFrequency # target \/ (missed /\ label = post.label)))
     /\ UNCHANGED <<commands, results, iqDemod, asked, pre, worker, demod, stopping, control,
                    center, source, changes>>

ChangeRate ==
  /\ changes < MaxRates /\ changes' = changes + 1
  /\ \E r \in Rates \ {source} : source' = r
  /\ UNCHANGED <<queues, asked, pre, worker, demod, stopping, control, center, post, missed>>

-----------------------------------------------------------------------------
(* DemodulatorPreThread.                                                   *)

\* IOThread::threadMain clears the flag; run makes the worker's thread.
PreStart ==
  /\ pre.pc = "new" /\ pre' = [pre EXCEPT !.pc = "pop"]
  /\ worker' = [worker EXCEPT !.pc = "starting"]
  /\ stopping' = stopping \ {"pre"}
  /\ UNCHANGED <<queues, asked, demod, control, tuner>>

\* What has changed decides the command: p is about to look at its batch.
Plan(p) ==
  LET other == p.inp.rate # p.rate
      next == [p EXCEPT !.newRate = IF other THEN p.inp.rate ELSE @, !.rateChanged = @ \/ other]
  IN IF p.typeChanged
     THEN [next EXCEPT !.cmd = "make", !.rateChanged = FALSE]
     ELSE IF p.kit # NoKit /\ (p.bandwidthChanged \/ next.rateChanged)
     THEN [next EXCEPT !.cmd = "build", !.rateChanged = FALSE, !.bandwidthChanged = FALSE]
     ELSE next

\* A new frequency is taken over ...
PrePop ==
  /\ pre.pc = "pop" /\ "pre" \notin stopping
  /\ Pop(iqInput)
  /\ pre' = Plan([pre EXCEPT !.inp = Head(iqInput),
                             !.pc = IF frequencyChanged THEN "clear" ELSE "push",
                             !.frequency = IF frequencyChanged THEN newFrequency ELSE @])
  /\ UNCHANGED <<commands, results, iqDemod, asked, worker, demod, stopping, control, tuner>>

\* ... and the flag cleared after it, for what was asked in between too.
PreClear ==
  /\ pre.pc = "clear" /\ pre' = [pre EXCEPT !.pc = "push"]
  /\ frequencyChanged' = FALSE /\ lost' = (newFrequency # pre.frequency)
  /\ UNCHANGED <<queues, newFrequency, worker, demod, stopping, control, tuner>>

\* A blocking push; to make a modem means to have none until the result.
PrePush ==
  /\ pre.pc = "push" /\ pre.cmd # "none"
  /\ Push(commands, CommandMax, [cmd |-> pre.cmd, rate |-> pre.newRate])
  /\ pre' = IF pre.cmd = "make"
            THEN [pre EXCEPT !.cmd = "none", !.kit = NoKit, !.typeChanged = FALSE]
            ELSE [pre EXCEPT !.cmd = "none"]
  /\ UNCHANGED <<iqInput, results, iqDemod, asked, worker, demod, stopping, control, tuner>>

\* The mixer is set when the offset changes to one within its range ...
Offset == pre.frequency - pre.inp.freq
InRange == 2 * Abs(Offset) <= 3 * (pre.inp.rate \div 2)
Mixer ==
  IF Offset # pre.shift /\ InRange THEN [shift |-> Offset, rate |-> pre.inp.rate] ELSE pre.nco

\* ... a batch out of its range is dropped, and the results left for later.
PreSend ==
  /\ pre.pc = "push" /\ pre.cmd = "none"
  /\ LET next == [pre EXCEPT !.shift = Offset, !.nco = Mixer]
     IN pre' = IF pre.kit # NoKit /\ ~InRange
               THEN [next EXCEPT !.pc = "pop", !.inp = NoBatch]
               ELSE [next EXCEPT !.pc = "drain"]
  /\ IF pre.kit # NoKit /\ InRange /\ pre.inp.rate = pre.rate
     THEN Push(iqDemod, IQMax, [kit |-> pre.kit, rate |-> pre.rate, shift |-> Offset,
                                nco |-> Mixer, frequency |-> pre.frequency])
     ELSE UNCHANGED iqDemod
  /\ UNCHANGED <<iqInput, commands, results, asked, worker, demod, stopping, control, tuner>>

\* The mixer keeps the offset it had at another rate.
TakeResultMutant(r) == [pre EXCEPT !.kit = r.kit, !.rate = r.rate, !.typeChanged = FALSE]
\* The offset is forgotten with the rate it was set for.
TakeResult(r) ==
  [pre EXCEPT !.kit = r.kit, !.rate = r.rate, !.typeChanged = FALSE, !.shift = pre.inp.freq - 1]

PreDrain ==
  /\ pre.pc = "drain" /\ "pre" \notin stopping
  /\ Pop(results) /\ pre' = TakeResult(Head(results))
  /\ UNCHANGED <<iqInput, commands, iqDemod, asked, worker, demod, stopping, control, tuner>>

PreDone ==
  /\ pre.pc = "drain" /\ (results = <<>> \/ "pre" \in stopping)
  /\ pre' = [pre EXCEPT !.pc = "pop", !.inp = NoBatch]
  /\ UNCHANGED <<queues, asked, worker, demod, stopping, control, tuner>>

PreEnd ==
  /\ pre.pc = "pop" /\ "pre" \in stopping
  /\ pre' = [pre EXCEPT !.pc = "end"]
  /\ iqDemod' = <<>> /\ iqInput' = <<>>
  /\ UNCHANGED <<commands, results, asked, worker, demod, stopping, control, tuner>>

-----------------------------------------------------------------------------
(* DemodulatorWorkerThread.                                                *)

WorkerStart ==
  /\ worker.pc = "starting" /\ worker' = [worker EXCEPT !.pc = "pop"]
  /\ stopping' = stopping \ {"worker"}
  /\ UNCHANGED <<queues, asked, pre, demod, control, tuner>>

\* The last command of a kind counts, and making a modem before building.
LastOf(is) == CHOOSE i \in is : \A j \in is : j <= i
Effective(cs) ==
  LET makes == {i \in DOMAIN cs : cs[i].cmd = "make"}
  IN cs[LastOf(IF makes # {} THEN makes ELSE DOMAIN cs)]

\* The kits that anyone holds; the number of another is free for a new one.
Held ==
  {iqDemod[i].kit : i \in DOMAIN iqDemod} \cup {results[i].kit : i \in DOMAIN results}
    \cup {pre.kit, demod.kit}
NewKit == CHOOSE k \in 1 .. (IQMax + ResultMax + 3) : k \notin Held

\* All that is waiting is consumed before anything is built.
WorkerBuild ==
  /\ worker.pc = "pop" /\ "worker" \notin stopping
  /\ commands # <<>> /\ commands' = <<>>
  /\ worker' = [pc |-> "push", rate |-> Effective(commands).rate, kit |-> NewKit]
  /\ UNCHANGED <<iqInput, results, iqDemod, asked, pre, demod, stopping, control, tuner>>

WorkerPush ==
  /\ worker.pc = "push"
  /\ Push(results, ResultMax, [kit |-> worker.kit, rate |-> worker.rate])
  /\ worker' = [pc |-> "pop", rate |-> 0, kit |-> NoKit]
  /\ UNCHANGED <<iqInput, commands, iqDemod, asked, pre, demod, stopping, control, tuner>>

WorkerEnd ==
  /\ worker.pc = "pop" /\ "worker" \in stopping
  /\ worker' = [worker EXCEPT !.pc = "end"]
  /\ UNCHANGED <<queues, asked, pre, demod, stopping, control, tuner>>

-----------------------------------------------------------------------------
(* DemodulatorThread.                                                      *)

DemodStart ==
  /\ demod.pc = "new" /\ demod' = [demod EXCEPT !.pc = "run"]
  /\ stopping' = stopping \ {"demod"}
  /\ UNCHANGED <<queues, asked, pre, worker, control, tuner>>

\* The kit that comes with the batch is disposed of instead of the old one.
DisposedMutant(new) == IF new # demod.kit /\ demod.kit # NoKit THEN new ELSE NoKit
\* The kit disposed of for another one.
Disposed(new) == IF new # demod.kit THEN demod.kit ELSE NoKit

Demodulate ==
  /\ demod.pc = "run" /\ "demod" \notin stopping
  /\ Pop(iqDemod)
  /\ demod' = [demod EXCEPT !.kit = Head(iqDemod).kit, !.level = Head(iqDemod).frequency]
  /\ UNCHANGED <<iqInput, commands, results, asked, pre, worker, stopping, control, tuner>>

DemodEnd ==
  /\ demod.pc = "run" /\ "demod" \in stopping
  /\ demod' = [demod EXCEPT !.pc = "end"] /\ iqDemod' = <<>>
  /\ UNCHANGED <<iqInput, commands, results, asked, pre, worker, stopping, control, tuner>>

-----------------------------------------------------------------------------
(* Demodulator::setFrequency, on the scanner's thread: the modem, the      *)
(* tuner when it must, the modem again. The flag is set before the value.  *)

Goes(from, to) == user = from /\ user' = to

SetFrequency ==
  /\ Goes("idle", "value") /\ tunes < MaxTunes /\ tunes' = tunes + 1
  /\ \E f \in Freqs : target' = f
  /\ frequencyChanged' = TRUE
  /\ UNCHANGED <<queues, newFrequency, lost, pre, worker, demod, stopping, tuner>>

SetNewFrequency ==
  /\ Goes("value", "retune")
  /\ newFrequency' = target
  /\ UNCHANGED <<queues, frequencyChanged, lost, pre, worker, demod, stopping, target, tunes,
                 tuner>>

\* Back to the label the post thread has seen last, it is not a new one.
Retune ==
  /\ Goes("retune", "again")
  /\ center' = IF 2 * Abs(center - target) >= source THEN target ELSE center
  /\ missed' = (missed \/ (center' # center /\ center' = post.label.freq /\ ~post.fed))
  /\ UNCHANGED <<queues, asked, pre, worker, demod, stopping, target, tunes, source, changes, post>>

SetFrequencyAgainMutant ==
  /\ Goes("again", "idle")
  /\ UNCHANGED <<queues, asked, pre, worker, demod, stopping, target, tunes, tuner>>
\* The value is there already: what is between the halves does not matter.
SetFrequencyAgain ==
  /\ Goes("again", "idle")
  /\ frequencyChanged' = TRUE /\ newFrequency' = target /\ lost' = FALSE
  /\ UNCHANGED <<queues, pre, worker, demod, stopping, target, tunes, tuner>>

-----------------------------------------------------------------------------
(* DemodulatorInstance::terminate and isTerminated, on main's thread; the  *)
(* audio thread, terminated first, has its own module.                     *)

\* DemodulatorThread::terminate. The members are set by run: before that
\* they are null.
Terminate ==
  /\ Goes("idle", IF demod.pc = "new" THEN "crashed" ELSE "pre")
  /\ stopping' = stopping \cup {"demod"} /\ iqDemod' = <<>>
  /\ UNCHANGED <<iqInput, commands, results, asked, pre, worker, demod, target, tunes, tuner>>

\* DemodulatorPreThread::terminate: the pre-processor and its worker, ...
TerminatePreMutant ==
  /\ Goes("pre", IF worker.pc \in {"new", "starting"} THEN "crashed" ELSE "flush")
  /\ stopping' = stopping \cup {"pre", "worker"} /\ results' = <<>>
  /\ UNCHANGED <<iqInput, commands, iqDemod, asked, pre, worker, demod, target, tunes, tuner>>
TerminatePre ==
  /\ Goes("pre", IF worker.pc \in {"new", "starting"} THEN "crashed" ELSE "flush")
  /\ stopping' = stopping \cup {"pre", "worker"} /\ results' = <<>> /\ commands' = <<>>
  /\ UNCHANGED <<iqInput, iqDemod, asked, pre, worker, demod, target, tunes, tuner>>

\* ... its queues, ...
Flush ==
  /\ Goes("flush", "join")
  /\ iqInput' = <<>> /\ iqDemod' = <<>>
  /\ UNCHANGED <<commands, results, asked, pre, worker, demod, stopping, target, tunes,
                 tuner>>

\* ... and its worker's thread is joined; then the queues are flushed once more.
Join ==
  /\ Goes("join", "wait") /\ worker.pc = "end"
  /\ iqInput' = <<>> /\ iqDemod' = <<>>
  /\ UNCHANGED <<commands, results, asked, pre, worker, demod, stopping, target, tunes,
                 tuner>>

\* isTerminated
Terminated ==
  /\ Goes("wait", "done") /\ pre.pc = "end" /\ demod.pc = "end"
  /\ UNCHANGED <<queues, asked, pre, worker, demod, stopping, target, tunes, tuner>>

-----------------------------------------------------------------------------
PreNext == PreStart \/ PrePop \/ PreClear \/ PrePush \/ PreSend \/ PreDrain \/ PreDone
             \/ PreEnd
WorkerNext == WorkerStart \/ WorkerBuild \/ WorkerPush \/ WorkerEnd
DemodNext == DemodStart \/ Demodulate \/ DemodEnd
UserNext == SetNewFrequency \/ Retune \/ SetFrequencyAgain \/ TerminatePre \/ Flush \/ Join \/ Terminated

Next == Feed \/ ChangeRate \/ PreNext \/ WorkerNext \/ DemodNext \/ SetFrequency
          \/ Terminate \/ UserNext

\* Every thread is scheduled, the tuner goes on delivering.
Spec ==
  /\ Init /\ [][Next]_vars
  /\ WF_vars(Feed)
  /\ WF_vars(PreNext) /\ WF_vars(WorkerNext) /\ WF_vars(DemodNext) /\ WF_vars(UserNext)
=============================================================================
