---------------------------- MODULE TunerSelect ----------------------------
(***************************************************************************)
(* Which tuner a start uses: what SDREnumerator finds, the list of tuners  *)
(* in config.json and TunerManager's choice. Names stand for descriptors   *)
(* and are numbered in the order in which std::map keeps them; of a tuner  *)
(* its rank, its name and who wrote it into the list are kept, its sample  *)
(* rate and correction are not (Tuner has them).                           *)
(***************************************************************************)
EXTENDS Integers, FiniteSets, Sequences, Functions

CONSTANTS
  Names,      \* descriptors of the dongles there are
  MaxRank     \* bound: ranks a user writes

ASSUME SelectAssumption == Names \subseteq Nat /\ MaxRank \in Nat

NoTuner == [rank |-> 0, name |-> -1, by |-> "nobody"]
Tuners == [rank : 0..MaxRank, name : Names, by : {"user", "piscan"}]

-----------------------------------------------------------------------------
(* SDREnumerator::enumerate_devices, TunerManager::enumerateDevices: the   *)
(* sound card is left out, and one dongle of a name is kept. A device that *)
(* could not be made is listed and not available.                          *)

Devices == [name : Names, available : BOOLEAN]

\* getDevices() is a null pointer when nothing at all was found.
NothingFound(found) == found = {}

Devs(found) == {d \in found : d.name \in Names}
SoundCard == [name |-> -2, available |-> TRUE]
Plugged == {found \in SUBSET (Devices \cup {SoundCard}) : \A d, e \in found : d.name = e.name => d = e}

-----------------------------------------------------------------------------
(* TunerList: a std::set that compares ranks.                              *)

InsertTuner(list, t) == IF \E u \in list : u.rank = t.rank THEN list ELSE list \cup {t}

\* TunerList::load inserts in the order of the file: of the tuners of one
\* rank the first stays.
LoadTuners(file) ==
  {file[i] : i \in {j \in DOMAIN file : \A k \in 1..(j - 1) : file[k].rank # file[j].rank}}

\* TunerList::save goes through the set in the order of the ranks.
SaveTuners(list) ==
  CHOOSE s \in [1..Cardinality(list) -> list] :
    Range(s) = list /\ \A i, j \in DOMAIN s : i < j => s[i].rank < s[j].rank

-----------------------------------------------------------------------------
(* autoSelectTuner                                                         *)

Known(list, devs) == {t \in list : \E d \in devs : d.name = t.name /\ d.available}

\* A tuner that a larger rank wins.
FirstByRankMutant(known) == CHOOSE t \in known : \A u \in known : t.rank >= u.rank
FirstByRank(known) == CHOOSE t \in known : \A u \in known : t.rank <= u.rank

\* selectFirstAvailableDevice: by name, available or not.
FirstDevice(devs) == CHOOSE d \in devs : \A e \in devs : d.name <= e.name

NewTuner(list, devs) ==
  [rank |-> Cardinality(list), name |-> FirstDevice(devs).name, by |-> "piscan"]

\* The tuner selected and the list afterwards.
AutoSelectTuner(list, devs) ==
  IF Known(list, devs) # {} THEN [tuner |-> FirstByRank(Known(list, devs)), list |-> list]
  ELSE [tuner |-> NewTuner(list, devs), list |-> InsertTuner(list, NewTuner(list, devs))]
=============================================================================
