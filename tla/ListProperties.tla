--------------------------- MODULE ListProperties ---------------------------
(***************************************************************************)
(* What the scan database promises the scanner.                            *)
(***************************************************************************)
EXTENDS SystemList

Sorted == bins # <<>> /\ pc # "crashed"

InBins(bs) == UNION {ToSet(bs[b]) : b \in DOMAIN bs}
InSystems(list) == UNION {ToSet(list[s].entries) : s \in DOMAIN list}

\* Every channel is in a bin, and nothing else; the channels of a bin lie within the bandwidth of
\* its first one, up to the last one, so that the tuner can stay between these
\* two; and no two neighbouring bins could have been one.
BinsFitTuner ==
  Sorted =>
    /\ InBins(bins) = InSystems(systems)
    /\ \A b \in DOMAIN bins : \A e \in ToSet(bins[b]) :
         /\ bins[b][1].freq <= e.freq /\ e.freq <= bins[b][Len(bins[b])].freq
         /\ e = bins[b][1] \/ e.freq < bins[b][1].freq + bandwidth
    /\ \A b \in 2..Len(bins) : bins[b][1].freq >= bins[b - 1][1].freq + bandwidth

\* A channel the scan comes to was preceded by the dummy of its own bin, however
\* many bins are locked out and whatever indexes were asked for in between; it
\* does not hold if the first system, which every dummy belongs to, is locked out.
RetunedForBin ==
  [][pc = "searching" /\ pc' = "ready" /\ ~current'.dummy /\ ~systems[1].lockout
       => tuned' = CenterFreq(bins[binNum])]_listVars

\* Scanning goes round: every channel that is not locked out is come to again
\* and again, whatever indexes are asked for in between.
Scannable(s, i) ==
  /\ s \in DOMAIN systems /\ i \in DOMAIN systems[s].entries
  /\ ~Skipped(systems[s].entries[i])
At(s, i) == ~current.dummy /\ current.sys = s /\ current.idx = i
EveryChannelIsScanned ==
  \A s, i \in 1..MaxIndex :
    (pc = "ready" /\ Scannable(s, i)) ~> (pc \notin {"ready", "searching"} \/ At(s, i))

\* The index of a held channel, which is what the state file keeps, names the
\* same channel when the database is loaded again.
SavedIndexIsStable == pc = "saved" => Populated(file) = systems
=============================================================================
