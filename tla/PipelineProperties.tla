-------------------------- MODULE PipelineProperties --------------------------
(* What a modem's threads owe each other.                                  *)
EXTENDS Pipeline

\* The offsets that mean that there is none: that of a channel at nearly
\* twice the centre is taken for one of them.
Forgotten == {f - 1 : f \in Freqs \cup {FirstCenter}}

\* A batch was mixed with the offset and the rate it has: a mixer set for
\* another sample rate would demodulate the wrong frequency. That is so
\* while the rate changes once; one that changes back before the worker has
\* built the resampler for the other finds the mixer as it was set for the
\* other (DemodulatorPreThread::run).
MixedForItsRate ==
  changes <= 1 =>
    \A i \in DOMAIN iqDemod :
      LET b == iqDemod[i]
      IN b.shift \notin {0} \cup Forgotten => b.nco = [shift |-> b.shift, rate |-> b.rate]

\* The kit that the demodulator disposes of is held by nobody any more: not
\* by the pre-processor, not in a queue, not by itself
\* (DemodulatorThread::run).
NoDeadKit ==
  [][Demodulate => LET k == Disposed(Head(iqDemod).kit) IN k # NoKit => k \notin Held']_vars

\* When the scanner has tuned the modem, the level it reads is sooner or
\* later one of that frequency: the second call makes up for a flag cleared
\* between the halves of the first (Demodulator::setFrequency). Three things
\* it cannot make up for: a pre-processor that takes the old frequency over
\* and clears the flag only after both calls (lost); one that pushes a command
\* for each of a full queue of batches it drops without draining the results
\* (DemodulatorPreThread::run; both queues hold 100); and a post thread that
\* looked at the modem when it was not on its target, or not there yet, and
\* does not look again before the next label (SDRPostThread::run, missed).
Stuck == pre.cmd # "none" /\ worker.pc = "push" /\ ~HasRoom(commands, CommandMax)
           /\ ~HasRoom(results, ResultMax)
LevelIsOfTarget == <>[](Terminating \/ lost \/ missed \/ Stuck \/ demod.level = target)

\* Once its threads run, a modem that is terminated ends, and they do: none
\* stays in a push to a queue that nobody empties
\* (DemodulatorPreThread::terminate). Before, the flags are erased by the
\* threads' start, or the pointers they set are null.
Running == pre.pc # "new" /\ worker.pc \notin {"new", "starting"}
TerminateEnds == (user = "pre" /\ Running) ~> user = "done"
=============================================================================
