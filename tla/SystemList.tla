----------------------------- MODULE SystemList -----------------------------
(***************************************************************************)
(* The scan database (SystemList.cpp, RadioSystem.cpp): systems.json is    *)
(* loaded, its channels are sorted into bins the tuner can hear at once,   *)
(* a cursor walks the bins, with a retune dummy ahead of each, and a stop  *)
(* writes the systems back for the next start.                             *)
(*                                                                         *)
(* Data: a frequency is a small natural.  Tags, tones and codes are left   *)
(* out; a channel's type is known to the program or not.  Indexes and the  *)
(* cursor count from 1.                                                    *)
(***************************************************************************)
EXTENDS Naturals, Sequences, FiniteSets, SequencesExt

CONSTANTS
  Files,        \* contents of systems.json to start from
  Bandwidths,   \* sample rates the tuner may report, 0 before it has started
  MaxInt,       \* largest frequency that property_tree reads as an int
  MaxIndex,     \* bound: indexes that are asked for
  MaxStarts     \* bound: starts of the program

\* What a system and a channel of the file may say.
RawChannels == [known : BOOLEAN, freq : Nat, lockout : BOOLEAN]
RawSystems == [known : BOOLEAN, lockout : BOOLEAN, channels : Seq(RawChannels)]

ASSUME ListAssumption ==
  /\ Files \subseteq Seq(RawSystems)
  /\ Bandwidths \subseteq Nat /\ MaxInt \in Nat /\ MaxIndex \in Nat /\ MaxStarts \in Nat

VARIABLES
  file, torn,   \* systems.json, and whether it was cut off while it was written
  systems,      \* _systems
  bins,         \* _bins
  binNum, entryNum, retune,   \* the cursor
  bandwidth,    \* what sortBins was called with
  current,      \* the entry returned last
  tuned,        \* the frequency of the dummy returned last
  pc,           \* where the scanner's thread is
  starts

cursor == <<binNum, entryNum, retune>>
loaded == <<systems, bins, bandwidth>>
listVars == <<file, torn, loaded, cursor, current, tuned, pc, starts>>

-----------------------------------------------------------------------------
(* Loading and saving.                                                     *)

\* pt.get(freq_key, 0) reads an int: what does not fit becomes the default.
Parsed(freq) == IF freq > MaxInt THEN 0 ELSE freq

\* makeFMChannel and its like refuse frequency 0; an unknown type throws.
Accepted(raw) == raw.known /\ Parsed(raw.freq) # 0

\* AnalogSystem: the accepted channels, numbered without gaps by addEntry.
NewEntry(sys, idx, raw) ==
  [sys |-> sys, idx |-> idx, freq |-> Parsed(raw.freq), locked |-> raw.lockout, dummy |-> FALSE]
EntriesOf(sys, raws) ==
  LET made[n \in 0..Len(raws)] ==
        IF n = 0 THEN <<>>
        ELSE IF Accepted(raws[n])
             THEN Append(made[n - 1], NewEntry(sys, Len(made[n - 1]) + 1, raws[n]))
             ELSE made[n - 1]
  IN  made[Len(raws)]

\* populateFromFile: systems of an unknown type are skipped, too.
NewSystem(sys, raw) == [lockout |-> raw.lockout, entries |-> EntriesOf(sys, raw.channels)]
Populated(contents) ==
  LET made[n \in 0..Len(contents)] ==
        IF n = 0 THEN <<>>
        ELSE IF contents[n].known
             THEN Append(made[n - 1], NewSystem(Len(made[n - 1]) + 1, contents[n]))
             ELSE made[n - 1]
  IN  made[Len(contents)]

\* writeToFile: getPropertyTree of what was loaded.
PropertyTreeMutant(e) == [known |-> TRUE, freq |-> e.freq, lockout |-> FALSE]
PropertyTree(e) == [known |-> TRUE, freq |-> e.freq, lockout |-> e.locked]
Saved(list) ==
  [s \in DOMAIN list |->
     [known |-> TRUE, lockout |-> list[s].lockout,
      channels |-> [i \in DOMAIN list[s].entries |-> PropertyTree(list[s].entries[i])]]]

-----------------------------------------------------------------------------
(* sortBins.                                                               *)

GoesFirst(x, y) == x.freq <= y.freq
Merge(L, R) ==
  LET from[at \in (1..(Len(L) + 1)) \X (1..(Len(R) + 1))] ==
        LET i == at[1]  j == at[2]
        IN  IF i > Len(L) THEN SubSeq(R, j, Len(R))
            ELSE IF j > Len(R) THEN SubSeq(L, i, Len(L))
            ELSE IF GoesFirst(L[i], R[j])
                 THEN <<L[i]>> \o from[<<i + 1, j>>]
                 ELSE <<R[j]>> \o from[<<i, j + 1>>]
  IN  from[<<1, 1>>]

MergeSort(arr) ==
  LET sort[part \in (1..(Len(arr) + 1)) \X (0..Len(arr))] ==
        LET l == part[1]  r == part[2]  m == l + (r - l) \div 2
        IN  IF l >= r THEN SubSeq(arr, l, r)
            ELSE Merge(sort[<<l, m>>], sort[<<m + 1, r>>])
  IN  sort[<<1, Len(arr)>>]

AllEntries(list) == FlattenSeq([s \in DOMAIN list |-> list[s].entries])

\* An entry goes to the last bin, or opens one if it is out of its reach.
OpensBinMutant(bin, e, bw) == bin # <<>> /\ e.freq >= bin[Len(bin)].freq + bw
OpensBin(bin, e, bw) == bin # <<>> /\ e.freq >= bin[1].freq + bw
AddToBins(bw, bs, e) ==
  IF OpensBin(Last(bs), e, bw)
  THEN Append(bs, <<e>>)
  ELSE Append(Front(bs), Append(Last(bs), e))
Binned(list, bw) ==
  LET arr == MergeSort(AllEntries(list))
      fill[n \in 0..Len(arr)] ==
        IF n = 0 THEN << <<>> >> ELSE AddToBins(bw, fill[n - 1], arr[n])
  IN  fill[Len(arr)]

CenterFreq(bin) ==
  IF Len(bin) > 1 THEN (bin[Len(bin)].freq + bin[1].freq) \div 2 ELSE bin[1].freq

-----------------------------------------------------------------------------
(* The cursor.                                                             *)

\* The do-while's condition, for a channel or a dummy (of system 1, always).
Skipped(e) == e.locked \/ systems[e.sys].lockout

\* entriesLockedOut: counted by sortBins, and nothing is locked out later.
BinLocked(b) == \A i \in DOMAIN bins[b] : Skipped(bins[b][i])
OpenBins == {b \in DOMAIN bins : ~BinLocked(b)}
\* The first bin that is not locked out, from the cursor on.
Ahead(b) == (b + Len(bins) - binNum) % Len(bins)
NextOpenBin == CHOOSE b \in OpenBins : \A o \in OpenBins : Ahead(b) <= Ahead(o)

DummyMutant(b) ==
  [sys |-> 1, idx |-> 1, freq |-> CenterFreq(bins[binNum]), locked |-> FALSE, dummy |-> TRUE]
Dummy(b) ==
  [sys |-> 1, idx |-> 1, freq |-> CenterFreq(bins[b]), locked |-> FALSE, dummy |-> TRUE]

NoEntry == [sys |-> 0, idx |-> 0, freq |-> 0, locked |-> FALSE, dummy |-> TRUE]

-----------------------------------------------------------------------------
ListInit ==
  /\ systems = <<>> /\ bins = <<>> /\ bandwidth = 0
  /\ binNum = 1 /\ entryNum = 1 /\ retune = TRUE
  /\ current = NoEntry /\ tuned = 0
  /\ file \in Files /\ torn = FALSE /\ pc = "start" /\ starts = 1

\* ST_Load.  The parser's error is caught; that the tree is then empty is not.
PopulateFromFile ==
  /\ pc = "start"
  /\ systems' = IF torn THEN systems ELSE Populated(file)
  /\ pc' = IF torn THEN "crashed" ELSE "populated"
  /\ UNCHANGED <<file, torn, bins, bandwidth, cursor, current, tuned, starts>>

\* Without systems nothing is sorted; systems without a channel make one empty
\* bin, whose center frequency is read from its front.
SortBins ==
  /\ pc = "populated"
  /\ bandwidth' \in Bandwidths
  /\ IF systems = <<>>
     THEN bins' = bins /\ pc' = "ready"
     ELSE /\ bins' = Binned(systems, bandwidth')
          /\ pc' = IF <<>> \in ToSet(bins') THEN "crashed" ELSE "ready"
  /\ UNCHANGED <<file, torn, systems, cursor, current, tuned, starts>>

\* ST_Scan asks for the next entry, if there are systems.
GetNextEntry ==
  /\ pc = "ready" /\ systems # <<>>
  /\ pc' = "searching"
  /\ UNCHANGED <<file, torn, loaded, cursor, current, tuned, starts>>

\* ST_Hold asks for an index; a bad one stands for the next entry.  Without
\* systems there are no bins to take it from.
GetEntryByIndex(s, i) ==
  /\ pc = "ready"
  /\ IF s \in DOMAIN systems /\ i \in DOMAIN systems[s].entries
     THEN current' = systems[s].entries[i] /\ pc' = pc
     ELSE current' = current /\ pc' = IF bins = <<>> THEN "crashed" ELSE "searching"
  /\ UNCHANGED <<file, torn, loaded, cursor, tuned, starts>>

\* One turn of the do-while takes e; the loop ends unless e is skipped.
Takes(e) ==
  /\ current' = IF Skipped(e) THEN current ELSE e
  /\ pc' = IF Skipped(e) THEN pc ELSE "ready"

\* At the start of a bin: a dummy for the next bin that is not locked out.
AtBinStart == entryNum = 1 /\ retune
SearchRetune ==
  /\ pc = "searching" /\ AtBinStart /\ OpenBins # {}
  /\ retune' = FALSE
  /\ binNum' = NextOpenBin
  /\ LET d == Dummy(binNum')
     IN Takes(d) /\ tuned' = IF Skipped(d) THEN tuned ELSE d.freq
  /\ UNCHANGED <<file, torn, loaded, entryNum, starts>>

\* Every bin is locked out: the inner loop does not end.
SearchHangs ==
  /\ pc = "searching" /\ AtBinStart /\ OpenBins = {}
  /\ pc' = "hung" /\ retune' = FALSE
  /\ UNCHANGED <<file, torn, loaded, binNum, entryNum, current, tuned, starts>>

\* Inside a bin: its next channel; after the last one the cursor moves on.
NextBin == (binNum % Len(bins)) + 1
AdvanceMutant ==
  /\ entryNum' = (entryNum % Len(bins[binNum])) + 1
  /\ binNum' = IF entryNum' = 1 /\ entryNum # 1 THEN NextBin ELSE binNum
  /\ retune' = (retune \/ entryNum' = 1)
Advance ==
  /\ entryNum' = (entryNum % Len(bins[binNum])) + 1
  /\ binNum' = IF entryNum' = 1 THEN NextBin ELSE binNum
  /\ retune' = (retune \/ entryNum' = 1)
SearchChannel ==
  /\ pc = "searching" /\ ~AtBinStart
  /\ Advance
  /\ Takes(bins[binNum][entryNum])
  /\ UNCHANGED <<file, torn, loaded, tuned, starts>>

\* ST_SaveAll: write_json truncates the file, then writes it.
WriteBegin ==
  /\ pc = "ready"
  /\ torn' = TRUE /\ pc' = "writing"
  /\ UNCHANGED <<file, loaded, cursor, current, tuned, starts>>

WriteToFile ==
  /\ pc = "writing"
  /\ file' = Saved(systems) /\ torn' = FALSE
  /\ pc' = "saved"
  /\ UNCHANGED <<loaded, cursor, current, tuned, starts>>

\* The process is started again, after a stop or a kill.
Restart ==
  /\ pc \in {"ready", "writing", "saved"} /\ starts < MaxStarts
  /\ systems' = <<>> /\ bins' = <<>> /\ bandwidth' = 0
  /\ binNum' = 1 /\ entryNum' = 1 /\ retune' = TRUE
  /\ current' = NoEntry /\ tuned' = 0
  /\ pc' = "start" /\ starts' = starts + 1
  /\ UNCHANGED <<file, torn>>

SearchStep == SearchRetune \/ SearchHangs \/ SearchChannel

ListNext ==
  \/ PopulateFromFile \/ SortBins \/ GetNextEntry \/ SearchStep
  \/ \E s, i \in 1..MaxIndex : GetEntryByIndex(s, i)
  \/ WriteBegin \/ WriteToFile \/ Restart

\* The scanner's thread runs, and asks for entries while it scans.
ListFairness == WF_listVars(SearchStep) /\ WF_listVars(GetNextEntry)

ListSpec == ListInit /\ [][ListNext]_listVars
FairListSpec == ListSpec /\ ListFairness
=============================================================================
