----------------------------- MODULE PartsProofs -----------------------------
(***************************************************************************)
(* Proofs about three parts: the interval timer, the scan database with    *)
(* its cursor and its bins, and the Qt client with its requests and its    *)
(* sliders.                                                                *)
(***************************************************************************)
EXTENDS IntervalTimer, ListProperties, ClientProperties, WellFoundedInduction, TLAPS

-----------------------------------------------------------------------------
(* IntervalTimer: its mutexes are where the code says, and a stopped timer *)
(* ticks at most once more, for every number of calls.                     *)

TimerLabels ==
  {"top", "lock", "testRun", "testExecute", "waiting", "unlock", "unlocked", "func",
   "sleepLock", "asleep?", "sleeping", "timedOut", "late?", "woken", "done"}
UserLabels ==
  {"idle", "start", "starting", "stop", "stopping", "notify", "stopped", "ended",
   "destroy", "wake", "join", "destroyed"}

PlacesOK ==
  /\ timer \in TimerLabels /\ user \in [Users -> UserLabels]
  /\ mtx \in {"timer", "scanner", Free} /\ sleepMtx \in {"timer", Free}

\* A late tick can only come from a thread that passed the test of _runTimer
\* before the stop; one that passes it because of _execute leaves instead.
LateOK ==
  ~runTimer =>
    /\ timer = "func" => late = 0
    /\ timer \in {"unlock", "unlocked"} => late = 0 \/ ~execute

TimerInv == TimerTypeOK /\ PlacesOK /\ OneLateTick /\ LateOK

\* The timer is created stopped, with its thread at the top of the loop.
LEMMA TimerInit == Init => TimerInv
<1> SUFFICES ASSUME Init PROVE TimerInv
  OBVIOUS
<1> USE DEF Init
<1>1. user \in [Users -> UserLabels] /\ user["scanner"] = "idle"
  BY DEF Users, UserLabels
<1>2. calls \in 0..MaxCalls /\ late \in 0..ManyTicks
  BY TimerAssumption DEF ManyTicks
<1>3. TimerTypeOK
  BY <1>1, <1>2 DEF TimerTypeOK, Free
<1>4. PlacesOK
  BY <1>1 DEF PlacesOK, TimerLabels, Free
<1>5. OneLateTick /\ LateOK
  BY DEF OneLateTick, LateOK
<1> QED
  BY <1>3, <1>4, <1>5 DEF TimerInv

\* A step of the timer's thread keeps the invariant.
LEMMA ThreadKeeps == ASSUME TimerInv, ThreadStep \/ SpuriousWake PROVE TimerInv'
<1> USE DEF TimerInv, TimerTypeOK, PlacesOK, OneLateTick, LateOK, TimerLabels, Free,
            ManyTicks, Goes, flags, mutexes
<1>1. CASE ThreadTop \/ ThreadUnlock \/ ThreadLeaves
  BY <1>1 DEF ThreadTop, ThreadUnlock, ThreadLeaves
<1>2. CASE ThreadLock
  BY <1>2 DEF ThreadLock
<1>3. CASE ThreadTestRun \/ ThreadTestExecute
  BY <1>3 DEF ThreadTestRun, ThreadTestExecute
<1>4. CASE ThreadTicks
  BY <1>4 DEF ThreadTicks
<1>5. CASE ThreadSleepLock \/ ThreadIsWoken
  BY <1>5 DEF ThreadSleepLock, ThreadIsWoken
<1>6. CASE ThreadSleeps \/ ThreadConsumes
  BY <1>6 DEF ThreadSleeps, ThreadConsumes, AfterSleep
<1>7. CASE Timeout \/ SpuriousWake
  BY <1>7 DEF Timeout, SpuriousWake
<1> QED
  BY <1>1, <1>2, <1>3, <1>4, <1>5, <1>6, <1>7 DEF ThreadStep

\* A user moves on, and no other user does.
LEMMA UserMoves ==
  ASSUME PlacesOK, NEW u \in Users, NEW from, NEW to \in UserLabels, UserGoes(u, from, to)
  PROVE  /\ user' \in [Users -> UserLabels]
         /\ user[u] = from /\ user'[u] = to
         /\ \A o \in Users : o # u => user'[o] = user[o]
  BY DEF PlacesOK, UserGoes

\* A notification only ever moves a thread out of one of its waits.
LEMMA NotifyFacts ==
  ASSUME TimerInv, NotifyCv \/ NotifySleep
  PROVE  /\ timer' \in TimerLabels
         /\ timer' = timer \/ (timer \in {"waiting", "sleeping"} /\ timer' \in {"lock", "sleepLock"})
  BY DEF TimerInv, PlacesOK, NotifyCv, NotifySleep, TimerLabels

\* start(): the mutex is held between its two steps.
LEMMA StartKeeps ==
  ASSUME TimerInv, ScannerCalls \/ StartSets \/ StartNotifies PROVE TimerInv'
<1> USE DEF TimerInv, TimerTypeOK, PlacesOK, OneLateTick, LateOK, Users, Free, ManyTicks,
            flags, mutexes
<1>1. CASE ScannerCalls
  <2>1. /\ user' \in [Users -> UserLabels]
        /\ user["scanner"] = "idle" /\ user'["scanner"] \in {"start", "stop"}
    BY <1>1, UserMoves DEF ScannerCalls, UserLabels
  <2>2. calls' \in 0..MaxCalls
    BY <1>1, TimerAssumption DEF ScannerCalls
  <2> QED
    BY <1>1, <2>1, <2>2 DEF ScannerCalls
<1>2. CASE StartSets
  <2>1. user' \in [Users -> UserLabels] /\ user'["scanner"] = "starting"
    BY <1>2, UserMoves DEF StartSets, UserLabels
  <2> QED
    BY <1>2, <2>1 DEF StartSets
<1>3. CASE StartNotifies
  <2>1. /\ user' \in [Users -> UserLabels]
        /\ user["scanner"] = "starting" /\ user'["scanner"] = "idle"
    BY <1>3, UserMoves DEF StartNotifies, UserLabels
  <2>2. /\ timer' \in TimerLabels
        /\ timer' = timer \/ (timer \in {"waiting", "sleeping"} /\ timer' \in {"lock", "sleepLock"})
    BY <1>3, NotifyFacts DEF StartNotifies
  <2> QED
    BY <1>3, <2>1, <2>2 DEF StartNotifies
<1> QED
  BY <1>1, <1>2, <1>3

\* stop(), by either user.
LEMMA StopKeeps ==
  ASSUME TimerInv, NEW u \in Users, StopClears(u) \/ StopChanges(u) \/ StopNotifies(u)
  PROVE  TimerInv'
<1> USE DEF TimerInv, TimerTypeOK, PlacesOK, OneLateTick, LateOK, Free, ManyTicks,
            flags, mutexes
<1> DEFINE Moved == /\ user' \in [Users -> UserLabels]
                    /\ user'["scanner"] = "starting" <=> user["scanner"] = "starting"
<1>1. CASE StopClears(u)
  <2>1. Moved
    BY <1>1, UserMoves DEF StopClears, UserLabels, Users
  <2>2. late' \in 0..ManyTicks /\ (runTimer => late' = 0) /\ (~runTimer => late' = late)
    BY <1>1 DEF StopClears
  <2>3. TimerTypeOK' /\ PlacesOK'
    BY <1>1, <2>1, <2>2 DEF StopClears
  <2>4. OneLateTick' /\ LateOK'
    BY <1>1, <2>2 DEF StopClears
  <2> QED
    BY <2>3, <2>4
<1>2. CASE StopChanges(u)
  <2>1. Moved
    BY <1>2, UserMoves DEF StopChanges, UserLabels, Users
  <2> QED
    BY <1>2, <2>1 DEF StopChanges
<1>3. CASE StopNotifies(u)
  <2>1. AfterStop(u) \in UserLabels /\ AfterStop(u) # "starting"
    BY DEF AfterStop, UserLabels
  <2>2. Moved
    BY <1>3, <2>1, UserMoves DEF StopNotifies, Users
  <2>3. /\ timer' \in TimerLabels
        /\ timer' = timer \/ (timer \in {"waiting", "sleeping"} /\ timer' \in {"lock", "sleepLock"})
    BY <1>3, NotifyFacts DEF StopNotifies
  <2> QED
    BY <1>3, <2>2, <2>3 DEF StopNotifies
<1> QED
  BY <1>1, <1>2, <1>3

\* main's stop, the end of the scanner, and the destructor.
LEMMA MainKeeps ==
  ASSUME TimerInv,
         \/ MainStops \/ ScannerEnds \/ DestroyClears \/ DestroyTests
         \/ DestroyNotifies \/ DestroyJoins
  PROVE  TimerInv'
<1> USE DEF TimerInv, TimerTypeOK, PlacesOK, OneLateTick, LateOK, Free, ManyTicks,
            flags, mutexes
<1> DEFINE Moved == /\ user' \in [Users -> UserLabels]
                    /\ user'["scanner"] = "starting" <=> user["scanner"] = "starting"
<1>1. CASE MainStops \/ ScannerEnds \/ DestroyTests \/ DestroyJoins
  <2>1. Moved
    BY <1>1, UserMoves DEF MainStops, ScannerEnds, DestroyTests, DestroyJoins, UserLabels, Users
  <2> QED
    BY <1>1, <2>1 DEF MainStops, ScannerEnds, DestroyTests, DestroyJoins
<1>2. CASE DestroyClears
  <2>1. Moved
    BY <1>2, UserMoves DEF DestroyClears, UserLabels, Users
  <2> QED
    BY <1>2, <2>1 DEF DestroyClears
<1>3. CASE DestroyNotifies
  <2>1. Moved
    BY <1>3, UserMoves DEF DestroyNotifies, UserLabels, Users
  <2>2. /\ timer' \in TimerLabels
        /\ timer' = timer \/ (timer \in {"waiting", "sleeping"} /\ timer' \in {"lock", "sleepLock"})
    BY <1>3, NotifyFacts DEF DestroyNotifies
  <2> QED
    BY <1>3, <2>1, <2>2 DEF DestroyNotifies
<1> QED
  BY <1>1, <1>2, <1>3

\* Every step keeps the invariant.
LEMMA TimerNext == TimerInv /\ [Next]_vars => TimerInv'
<1> SUFFICES ASSUME TimerInv, [Next]_vars PROVE TimerInv'
  OBVIOUS
<1>1. CASE ThreadStep \/ SpuriousWake
  BY <1>1, ThreadKeeps
<1>2. CASE ScannerCalls \/ ScannerStep
  BY <1>2, StartKeeps, StopKeeps DEF ScannerStep, Users
<1>3. CASE MainStops \/ MainStep
  BY <1>3, MainKeeps, StopKeeps DEF MainStep, Users
<1>4. CASE UNCHANGED vars
  BY <1>4 DEF TimerInv, TimerTypeOK, PlacesOK, OneLateTick, LateOK, vars, flags, mutexes
<1> QED
  BY <1>1, <1>2, <1>3, <1>4 DEF Next

\* The invariant of IntervalTimer.h holds for every number of starts and stops.
THEOREM TimerInvariant == Spec => []TimerInv
  BY TimerInit, TimerNext, PTL DEF Spec

\* Every variable has its type, and _mtx and _sleepMtx are held exactly by the
\* threads whose place in create(), start() and stop() says so.
THEOREM TimerTypeCorrect == Spec => []TimerTypeOK
<1>1. TimerInv => TimerTypeOK
  BY DEF TimerInv
<1> QED
  BY <1>1, TimerInvariant, PTL

\* After stop() at most one more tick is begun, however starts, stops and the
\* destructor interleave.
THEOREM StopTicksAtMostOnce == Spec => []OneLateTick
<1>1. TimerInv => OneLateTick
  BY DEF TimerInv
<1> QED
  BY <1>1, TimerInvariant, PTL

-----------------------------------------------------------------------------
(* SystemList: the cursor and the dummies.                                 *)

\* Inside a bin the tuner is where the dummy of that bin has put it. The cursor
\* does not move before there are bins.
CursorInv ==
  /\ retune \in BOOLEAN
  /\ pc \in {"start", "populated"} => AtBinStart
  /\ ~AtBinStart /\ ~systems[1].lockout /\ pc # "hung" =>
       tuned = CenterFreq(bins[binNum])

\* A turn of the loop inside a bin stays in it, or asks for a dummy.
LEMMA CursorStep == ASSUME CursorInv, [ListNext]_listVars PROVE CursorInv'
<1> USE DEF CursorInv, AtBinStart
<1>1. CASE PopulateFromFile
  BY <1>1 DEF PopulateFromFile, cursor
<1>2. CASE SortBins
  BY <1>2 DEF SortBins, cursor
<1>3. CASE SearchRetune
  <2>1. /\ retune' = FALSE /\ pc' \in {"searching", "ready"} /\ UNCHANGED <<systems, bins>>
        /\ tuned' = IF Skipped(Dummy(binNum')) THEN tuned
                    ELSE Dummy(binNum').freq
    BY <1>3 DEF SearchRetune, Takes, loaded
  <2>2. Skipped(Dummy(binNum')) <=> systems[1].lockout
    <3>1. ~Dummy(binNum').locked /\ Dummy(binNum').sys = 1
      BY DEF Dummy
    <3>2. QED
      BY <3>1, Zenon DEF Skipped
  <2>3. Dummy(binNum').freq = CenterFreq(bins[binNum'])
    BY DEF Dummy
  <2>4. QED
    BY <2>1, <2>2, <2>3 DEF CenterFreq
<1>4. CASE SearchHangs
  BY <1>4 DEF SearchHangs, loaded, CenterFreq
<1>5. CASE SearchChannel
  <2>1. /\ pc = "searching" /\ pc' \in {"searching", "ready"}
        /\ UNCHANGED <<systems, bins, tuned>>
        /\ ~AtBinStart /\ retune' \in BOOLEAN
        /\ entryNum' = 1 => retune' = TRUE
        /\ entryNum' # 1 => binNum' = binNum
    BY <1>5 DEF SearchChannel, Advance, Takes, loaded
  <2>2. QED
    BY <2>1 DEF CenterFreq
<1>6. CASE GetNextEntry \/ (\E s, i \in 1..MaxIndex : GetEntryByIndex(s, i))
           \/ WriteBegin \/ WriteToFile \/ UNCHANGED listVars
  <2>1. /\ UNCHANGED <<systems, bins, tuned, binNum, entryNum, retune>>
        /\ pc' \in {"start", "populated"} => pc \in {"start", "populated"}
        /\ pc' # "hung" => pc # "hung"
    BY <1>6 DEF GetNextEntry, GetEntryByIndex, WriteBegin, WriteToFile,
       listVars, loaded, cursor
  <2>2. QED
    BY <2>1 DEF CenterFreq
<1>7. CASE Restart
  BY <1>7 DEF Restart
<1>8. QED
  BY <1>1, <1>2, <1>3, <1>4, <1>5, <1>6, <1>7 DEF ListNext, SearchStep

\* A channel that getNextEntry returns was preceded by the dummy of its own bin,
\* for every database and whatever is locked out, unless the first system is.
THEOREM ChannelsAreTunedTo == ListSpec => RetunedForBin
<1>1. ListInit => CursorInv
  BY DEF ListInit, CursorInv, AtBinStart
<1>2. CursorInv /\ [ListNext]_listVars =>
        [pc = "searching" /\ pc' = "ready" /\ ~current'.dummy /\ ~systems[1].lockout
           => tuned' = CenterFreq(bins[binNum])]_listVars
  <2> SUFFICES ASSUME CursorInv, ListNext, pc = "searching", pc' = "ready", ~current'.dummy,
                      ~systems[1].lockout
               PROVE  tuned' = CenterFreq(bins[binNum])
    OBVIOUS
  <2>1. CASE SearchChannel
    BY <2>1 DEF SearchChannel, CursorInv
  <2>2. CASE SearchRetune
    <3>1. current' = Dummy(binNum') \/ pc' = pc
      BY <2>2 DEF SearchRetune, Takes
    <3>2. QED
      BY <3>1 DEF Dummy
  <2>3. QED
    BY <2>1, <2>2 DEF ListNext, SearchStep, PopulateFromFile, SortBins,
       GetNextEntry, SearchHangs, GetEntryByIndex, WriteBegin,
       WriteToFile, Restart
<1>3. QED
  BY <1>1, <1>2, CursorStep, PTL DEF ListSpec, RetunedForBin

-----------------------------------------------------------------------------
(* Recursion and induction, with sets in place of the operators that the   *)
(* theorems of the library take.                                           *)

\* What holds of a number if it holds of all smaller ones holds of every number.
LEMMA StrongInduction ==
  ASSUME NEW S, \A n \in Nat : (\A k \in 0..(n - 1) : k \in S) => n \in S
  PROVE  Nat \subseteq S
<1> DEFINE T == Nat \ S
<1> SUFFICES ASSUME T # {} PROVE FALSE
  OBVIOUS
<1>1. PICK m \in T : \A k \in T : ~(<<k, m>> \in OpToRel(<, Nat))
  BY NatLessThanWellFounded, WFMin
<1>2. \A k \in 0..(m - 1) : k \in S
  <2> SUFFICES ASSUME NEW k \in 0..(m - 1), k \notin S PROVE FALSE
    OBVIOUS
  <2>1. k \in T /\ k < m
    OBVIOUS
  <2>2. <<k, m>> \in OpToRel(<, Nat)
    BY <2>1 DEF OpToRel
  <2>3. QED
    BY <1>1, <2>1, <2>2
<1>3. QED
  BY <1>2

\* A loop invariant.
LEMMA LoopInduction ==
  ASSUME NEW N \in Nat, NEW S, 0 \in S, \A n \in 1..N : n - 1 \in S => n \in S
  PROVE  0..N \subseteq S
<1> DEFINE T == {n \in Nat : n \in S \/ n > N}
<1>1. ASSUME NEW n \in Nat, \A k \in 0..(n - 1) : k \in T PROVE n \in T
  <2>1. CASE n = 0
    BY <2>1
  <2>2. CASE n # 0 /\ n <= N
    <3>1. n - 1 \in 0..(n - 1) /\ n \in 1..N
      BY <2>2
    <3>2. n - 1 \in T /\ ~(n - 1 > N)
      BY <1>1, <3>1
    <3>3. QED
      BY <3>1, <3>2
  <2>3. QED
    BY <2>1, <2>2
<1> HIDE DEF T
<1>2. Nat \subseteq T
  BY <1>1, StrongInduction
<1>3. QED
  BY <1>2 DEF T

\* A definition by recursion over a bounded rank has a solution.
Recursion(D, V, rank, K, step) ==
  /\ V # {} /\ rank \in [D -> Nat] /\ K \in Nat /\ \A d \in D : rank[d] < K
  /\ step \in [D \X [D -> V] -> V]
  /\ \A d \in D : \A f, g \in [D -> V] :
       (\A e \in D : rank[e] < rank[d] => f[e] = g[e]) => step[<<d, f>>] = step[<<d, g>>]

LEMMA RecursionHasSolution ==
  ASSUME NEW D, NEW V, NEW rank, NEW K, NEW step, Recursion(D, V, rank, K, step)
  PROVE  \E f \in [D -> V] : \A d \in D : f[d] = step[<<d, f>>]
<1> USE DEF Recursion
<1> DEFINE Solved(f, k) == \A d \in D : rank[d] < k => f[d] = step[<<d, f>>]
           S == {k \in Nat : \E f \in [D -> V] : Solved(f, k)}
<1>1. 0 \in S
  <2> PICK v \in V : TRUE
    OBVIOUS
  <2>1. [d \in D |-> v] \in [D -> V]
    OBVIOUS
  <2>2. Solved([d \in D |-> v], 0)
    OBVIOUS
  <2>3. QED
    BY <2>1, <2>2
<1>2. ASSUME NEW k \in 1..K, k - 1 \in S PROVE k \in S
  <2>1. PICK f \in [D -> V] : Solved(f, k - 1)
    BY <1>2
  <2> DEFINE g == [d \in D |-> step[<<d, f>>]]
  <2>2. g \in [D -> V]
    OBVIOUS
  <2>3. ASSUME NEW d \in D, rank[d] < k PROVE g[d] = step[<<d, g>>]
    <3>1. \A e \in D : rank[e] < rank[d] => f[e] = g[e]
      BY <2>1, <2>3
    <3> HIDE DEF g
    <3>2. step[<<d, f>>] = step[<<d, g>>]
      BY <2>2, <3>1
    <3>3. QED
      BY <3>2 DEF g
  <2> HIDE DEF g
  <2>4. Solved(g, k)
    BY <2>3
  <2> HIDE DEF Solved
  <2>5. QED
    BY <2>2, <2>4
<1>3. K \in S
  <2> HIDE DEF S
  <2>1. 0..K \subseteq S
    BY <1>1, <1>2, LoopInduction
  <2>2. QED
    BY <2>1
<1>4. QED
  BY <1>3

\* A loop over a list, as a recursive function, has a run.
Loop(N, V, start, turn) == N \in Nat /\ start \in V /\ turn \in [(1..N) \X V -> V]
LEMMA LoopRuns ==
  ASSUME NEW N, NEW V, NEW start, NEW turn, Loop(N, V, start, turn)
  PROVE  \E f \in [0..N -> V] :
           f[0] = start /\ \A n \in 1..N : f[n] = turn[<<n, f[n - 1]>>]
<1> USE DEF Loop
<1> DEFINE D == 0..N
           rank == [d \in D |-> d]
           step == [p \in D \X [D -> V] |->
                      IF p[1] = 0 THEN start ELSE turn[<<p[1], p[2][p[1] - 1]>>]]
<1>1. rank \in [D -> Nat] /\ N + 1 \in Nat /\ \A d \in D : rank[d] < N + 1
  OBVIOUS
<1>2. ASSUME NEW d \in D, NEW f \in [D -> V]
      PROVE  step[<<d, f>>] = IF d = 0 THEN start ELSE turn[<<d, f[d - 1]>>]
  OBVIOUS
<1>3. step \in [D \X [D -> V] -> V]
  <2>1. ASSUME NEW p \in D \X [D -> V], p[1] # 0 PROVE turn[<<p[1], p[2][p[1] - 1]>>] \in V
    BY <2>1
  <2>2. QED
    BY <2>1
<1>4. ASSUME NEW d \in D, NEW f \in [D -> V], NEW g \in [D -> V],
             \A e \in D : rank[e] < rank[d] => f[e] = g[e]
      PROVE  step[<<d, f>>] = step[<<d, g>>]
  <2>1. d # 0 => f[d - 1] = g[d - 1]
    BY <1>4
  <2> HIDE DEF step
  <2>2. QED
    BY <1>2, <2>1
<1>5. \E f \in [D -> V] : \A d \in D : f[d] = step[<<d, f>>]
  <2>1. Recursion(D, V, rank, N + 1, step)
    <3> HIDE DEF D, rank, step
    <3>1. QED
      BY <1>1, <1>3, <1>4 DEF Recursion
  <2> HIDE DEF D, rank, step
  <2>2. QED
    BY <2>1, RecursionHasSolution
<1>6. PICK f \in [D -> V] : \A d \in D : f[d] = step[<<d, f>>]
  BY <1>5
<1>7. \A d \in D : f[d] = IF d = 0 THEN start ELSE turn[<<d, f[d - 1]>>]
  <2> HIDE DEF step
  <2>1. QED
    BY <1>2, <1>6
<1> HIDE DEF step, rank
<1>8. f \in [0..N -> V]
  OBVIOUS
<1>9. f[0] = start
  <2>1. 0 \in D
    OBVIOUS
  <2> HIDE DEF D
  <2>2. QED
    BY <1>7, <2>1
<1>10. \A n \in 1..N : f[n] = turn[<<n, f[n - 1]>>]
  BY <1>7
<1>11. QED
  BY <1>8, <1>9, <1>10

-----------------------------------------------------------------------------
(* SystemList: what is saved is loaded again.                              *)

Entries == [sys : Nat, idx : Nat, freq : Nat, locked : BOOLEAN, dummy : BOOLEAN]

\* What was read as an int is read as the same int again.
LEMMA ParsedTyped ==
  ASSUME NEW freq \in Nat
  PROVE  Parsed(freq) \in Nat /\ Parsed(Parsed(freq)) = Parsed(freq)
BY ListAssumption DEF Parsed

\* The loop that makes the entries of a system.
LEMMA EntriesLoop ==
  ASSUME NEW sys \in Nat, NEW raws \in Seq(RawChannels)
  PROVE  \E made \in [0..Len(raws) -> Seq(Entries)] :
           /\ EntriesOf(sys, raws) = made[Len(raws)] /\ made[0] = <<>>
           /\ \A n \in 1..Len(raws) :
                made[n] = IF Accepted(raws[n])
                          THEN Append(made[n - 1], NewEntry(sys, Len(made[n - 1]) + 1, raws[n]))
                          ELSE made[n - 1]
<1> DEFINE N == Len(raws)
           Body(n, made) ==
             IF Accepted(raws[n]) THEN Append(made, NewEntry(sys, Len(made) + 1, raws[n])) ELSE made
           turn == [p \in (1..N) \X Seq(Entries) |-> Body(p[1], p[2])]
           made == CHOOSE g : g = [n \in 0..N |-> IF n = 0 THEN <<>> ELSE
             IF Accepted(raws[n])
             THEN Append(g[n - 1], NewEntry(sys, Len(g[n - 1]) + 1, raws[n])) ELSE g[n - 1]]
<1>1. ASSUME NEW n \in 1..N, NEW es \in Seq(Entries) PROVE Body(n, es) \in Seq(Entries)
  <2>1. raws[n] \in RawChannels
    OBVIOUS
  <2>2. Parsed(raws[n].freq) \in Nat
    BY <2>1, ParsedTyped DEF RawChannels
  <2>3. NewEntry(sys, Len(es) + 1, raws[n]) \in Entries
    BY <2>1, <2>2 DEF NewEntry, Entries, RawChannels
  <2>4. QED
    BY <2>3
<1>2. turn \in [(1..N) \X Seq(Entries) -> Seq(Entries)]
  <2> HIDE DEF Body
  <2>1. QED
    BY <1>1
<1>3. PICK f \in [0..N -> Seq(Entries)] :
        f[0] = <<>> /\ \A n \in 1..N : f[n] = turn[<<n, f[n - 1]>>]
  <2>1. Loop(N, Seq(Entries), <<>>, turn)
    BY <1>2 DEF Loop
  <2> HIDE DEF turn, N
  <2>2. QED
    BY <2>1, LoopRuns
<1>4. \A n \in 1..N : f[n] = Body(n, f[n - 1])
  <2> TAKE n \in 1..N
  <2>1. n - 1 \in 0..N
    OBVIOUS
  <2>2. f[n - 1] \in Seq(Entries)
    BY <2>1
  <2>3. turn[<<n, f[n - 1]>>] = Body(n, f[n - 1])
    BY <2>2
  <2>4. QED
    BY <1>3, <2>3
<1>5. f = [n \in 0..N |-> IF n = 0 THEN <<>> ELSE Body(n, f[n - 1])]
  <2> HIDE DEF Body, turn
  <2>1. QED
    BY <1>3, <1>4
<1>6. made = [n \in 0..N |-> IF n = 0 THEN <<>> ELSE Body(n, made[n - 1])]
  BY <1>5
<1>7. EntriesOf(sys, raws) = made[N]
  BY DEF EntriesOf
<1> HIDE DEF made, Body
<1>8. made[0] = <<>> /\ \A n \in 1..N : made[n] = Body(n, made[n - 1])
  BY <1>6
<1>9. \A n \in 0..N : made[n] \in Seq(Entries)
  <2> DEFINE S == {n \in 0..N : made[n] \in Seq(Entries)}
  <2>1. 0 \in S
    BY <1>8
  <2>2. \A n \in 1..N : n - 1 \in S => n \in S
    BY <1>1, <1>8
  <2>3. N \in Nat
    OBVIOUS
  <2> HIDE DEF S, N
  <2>4. 0..N \subseteq S
    BY <2>1, <2>2, <2>3, LoopInduction
  <2>5. QED
    BY <2>4 DEF S
<1>10. made \in [0..N -> Seq(Entries)]
  BY <1>6, <1>9
<1>11. QED
  BY <1>7, <1>8, <1>10 DEF Body

\* The entries of a system, as they are loaded: numbered, and as they are saved.
Numbered(sys, es) ==
  /\ es \in Seq(Entries)
  /\ \A i \in 1..Len(es) :
       Accepted(PropertyTree(es[i])) /\ es[i] = NewEntry(sys, i, PropertyTree(es[i]))

\* What a system has loaded is numbered.
LEMMA EntriesNumbered ==
  ASSUME NEW sys \in Nat, NEW raws \in Seq(RawChannels)
  PROVE  Numbered(sys, EntriesOf(sys, raws))
<1> DEFINE N == Len(raws)
<1>1. PICK made \in [0..N -> Seq(Entries)] :
        /\ EntriesOf(sys, raws) = made[N] /\ made[0] = <<>>
        /\ \A n \in 1..N :
             made[n] = IF Accepted(raws[n])
                       THEN Append(made[n - 1], NewEntry(sys, Len(made[n - 1]) + 1, raws[n]))
                       ELSE made[n - 1]
  BY EntriesLoop
<1> DEFINE S == {n \in 0..N : Numbered(sys, made[n])}
<1>2. 0 \in S
  BY <1>1 DEF Numbered
<1>3. ASSUME NEW n \in 1..N, n - 1 \in S PROVE n \in S
  <2> DEFINE es == made[n - 1]
             e == NewEntry(sys, Len(es) + 1, raws[n])
  <2>1. Numbered(sys, es)
    BY <1>3
  <2>2. CASE ~Accepted(raws[n])
    <3>1. made[n] = es
      BY <1>1, <2>2
    <3>2. QED
      BY <2>1, <3>1
  <2>3. CASE Accepted(raws[n])
    <3>1. raws[n] \in RawChannels
      OBVIOUS
    <3>2. /\ Parsed(raws[n].freq) \in Nat
          /\ Parsed(Parsed(raws[n].freq)) = Parsed(raws[n].freq)
      BY <3>1, ParsedTyped DEF RawChannels
    <3>3. es \in Seq(Entries)
      BY <2>1 DEF Numbered
    <3>4. e \in Entries
      BY <3>1, <3>2, <3>3 DEF Entries, NewEntry, RawChannels
    <3>5. Accepted(PropertyTree(e)) /\ e = NewEntry(sys, Len(es) + 1, PropertyTree(e))
      BY <2>3, <3>2 DEF Accepted, PropertyTree, NewEntry
    <3> HIDE DEF e
    <3>6. Numbered(sys, Append(es, e))
      BY <2>1, <3>3, <3>4, <3>5 DEF Numbered
    <3>7. made[n] = Append(es, e)
      BY <1>1, <2>3 DEF e
    <3>8. n \in 0..N
      OBVIOUS
    <3> HIDE DEF es
    <3>9. QED
      BY <3>6, <3>7, <3>8
  <2>4. QED
    BY <2>2, <2>3
<1>4. N \in Nat
  OBVIOUS
<1> HIDE DEF S, N
<1>5. 0..N \subseteq S
  BY <1>2, <1>3, <1>4, LoopInduction
<1>6. QED
  BY <1>1, <1>4, <1>5 DEF S

\* What a system has saved it loads again.
SavedEntries(es) == [i \in DOMAIN es |-> PropertyTree(es[i])]
LEMMA EntriesReloaded ==
  ASSUME NEW sys \in Nat, NEW es, Numbered(sys, es)
  PROVE  SavedEntries(es) \in Seq(RawChannels) /\ EntriesOf(sys, SavedEntries(es)) = es
<1> DEFINE raws == SavedEntries(es)
           N == Len(es)
<1>1. es \in Seq(Entries) /\ N \in Nat /\ DOMAIN es = 1..N
  BY DEF Numbered
<1>2. raws \in Seq(RawChannels) /\ Len(raws) = N /\ \A n \in 1..N : raws[n] = PropertyTree(es[n])
  <2>1. ASSUME NEW n \in 1..N PROVE PropertyTree(es[n]) \in RawChannels
    <3>1. es[n] \in Entries
      BY <1>1
    <3>2. QED
      BY <3>1 DEF PropertyTree, RawChannels, Entries
  <2> HIDE DEF N
  <2>2. raws = [n \in 1..N |-> PropertyTree(es[n])]
    BY <1>1 DEF SavedEntries
  <2> HIDE DEF raws
  <2>3. QED
    BY <1>1, <2>1, <2>2
<1> HIDE DEF raws
<1>3. PICK made \in [0..Len(raws) -> Seq(Entries)] :
        /\ EntriesOf(sys, raws) = made[Len(raws)] /\ made[0] = <<>>
        /\ \A n \in 1..Len(raws) :
             made[n] = IF Accepted(raws[n])
                       THEN Append(made[n - 1], NewEntry(sys, Len(made[n - 1]) + 1, raws[n]))
                       ELSE made[n - 1]
  BY <1>2, EntriesLoop
<1> HIDE DEF N
<1> DEFINE S == {n \in 0..N : Len(made[n]) = n /\ \A i \in 1..n : made[n][i] = es[i]}
<1>4. 0 \in S
  BY <1>1, <1>3
<1>5. ASSUME NEW n \in 1..N, n - 1 \in S PROVE n \in S
  <2>1. n - 1 \in 0..N /\ made[n - 1] \in Seq(Entries)
    BY <1>1, <1>2, <1>3
  <2>2. Len(made[n - 1]) = n - 1 /\ \A i \in 1..(n - 1) : made[n - 1][i] = es[i]
    BY <1>5
  <2>3. Accepted(raws[n]) /\ es[n] = NewEntry(sys, n, raws[n])
    BY <1>2 DEF Numbered, N
  <2>4. made[n] = Append(made[n - 1], es[n])
    <3>1. n \in 1..Len(raws) /\ Len(made[n - 1]) + 1 = n
      BY <1>1, <1>2, <2>2
    <3>2. QED
      BY <1>3, <2>3, <3>1
  <2>5. Len(made[n]) = n /\ \A i \in 1..n : made[n][i] = es[i]
    BY <1>1, <2>1, <2>2, <2>4
  <2>6. QED
    BY <1>1, <2>5
<1> HIDE DEF S
<1>6. 0..N \subseteq S
  BY <1>1, <1>4, <1>5, LoopInduction
<1>7. Len(made[N]) = N /\ \A i \in 1..N : made[N][i] = es[i]
  BY <1>1, <1>6 DEF S
<1>8. made[N] \in Seq(Entries)
  BY <1>1, <1>2, <1>3
<1>9. made[N] = es
  BY <1>1, <1>7, <1>8 DEF N
<1>10. QED
  BY <1>2, <1>3, <1>9 DEF raws

Systems == [lockout : BOOLEAN, entries : Seq(Entries)]

\* The loop that makes the systems.
LEMMA SystemsLoop ==
  ASSUME NEW contents \in Seq(RawSystems)
  PROVE  \E made \in [0..Len(contents) -> Seq(Systems)] :
           /\ Populated(contents) = made[Len(contents)] /\ made[0] = <<>>
           /\ \A n \in 1..Len(contents) :
                made[n] = IF contents[n].known
                          THEN Append(made[n - 1], NewSystem(Len(made[n - 1]) + 1, contents[n]))
                          ELSE made[n - 1]
<1> DEFINE N == Len(contents)
           Body(n, made) ==
             IF contents[n].known
             THEN Append(made, NewSystem(Len(made) + 1, contents[n])) ELSE made
           turn == [p \in (1..N) \X Seq(Systems) |-> Body(p[1], p[2])]
           made == CHOOSE g : g = [n \in 0..N |-> IF n = 0 THEN <<>> ELSE
             IF contents[n].known
             THEN Append(g[n - 1], NewSystem(Len(g[n - 1]) + 1, contents[n])) ELSE g[n - 1]]
<1>1. ASSUME NEW n \in 1..N, NEW list \in Seq(Systems) PROVE Body(n, list) \in Seq(Systems)
  <2>1. contents[n] \in RawSystems /\ Len(list) + 1 \in Nat
    OBVIOUS
  <2>2. contents[n].channels \in Seq(RawChannels) /\ contents[n].lockout \in BOOLEAN
    BY <2>1 DEF RawSystems
  <2>3. EntriesOf(Len(list) + 1, contents[n].channels) \in Seq(Entries)
    BY <2>1, <2>2, EntriesNumbered DEF Numbered
  <2>4. NewSystem(Len(list) + 1, contents[n]) \in Systems
    BY <2>2, <2>3 DEF NewSystem, Systems
  <2>5. QED
    BY <2>4
<1>2. PICK f \in [0..N -> Seq(Systems)] :
        f[0] = <<>> /\ \A n \in 1..N : f[n] = turn[<<n, f[n - 1]>>]
  <2>1. turn \in [(1..N) \X Seq(Systems) -> Seq(Systems)]
    <3> HIDE DEF Body
    <3>1. QED
      BY <1>1
  <2>2. Loop(N, Seq(Systems), <<>>, turn)
    BY <2>1 DEF Loop
  <2> HIDE DEF turn, N
  <2>3. QED
    BY <2>2, LoopRuns
<1>3. \A n \in 1..N : f[n] = Body(n, f[n - 1])
  <2> TAKE n \in 1..N
  <2>1. f[n - 1] \in Seq(Systems)
    OBVIOUS
  <2> HIDE DEF Body
  <2>2. QED
    BY <1>2, <2>1
<1>4. f = [n \in 0..N |-> IF n = 0 THEN <<>> ELSE Body(n, f[n - 1])]
  <2> HIDE DEF Body, turn
  <2>1. QED
    BY <1>2, <1>3
<1>5. made = [n \in 0..N |-> IF n = 0 THEN <<>> ELSE Body(n, made[n - 1])]
  BY <1>4
<1>6. Populated(contents) = made[N]
  BY DEF Populated
<1>7. N \in Nat
  OBVIOUS
<1> HIDE DEF made, Body, N
<1>8. made[0] = <<>> /\ \A n \in 1..N : made[n] = Body(n, made[n - 1])
  BY <1>5, <1>7
<1> DEFINE S == {n \in 0..N : made[n] \in Seq(Systems)}
<1>9. 0 \in S
  <2>1. 0 \in 0..N
    BY <1>7
  <2>2. made[0] \in Seq(Systems)
    BY <1>8
  <2>3. QED
    BY <2>1, <2>2
<1>10. \A n \in 1..N : n - 1 \in S => n \in S
  BY <1>1, <1>8
<1> HIDE DEF S
<1>11. 0..N \subseteq S
  BY <1>7, <1>9, <1>10, LoopInduction
<1>12. made \in [0..N -> Seq(Systems)]
  BY <1>5, <1>11 DEF S
<1>13. QED
  BY <1>6, <1>8, <1>12 DEF Body, N

\* The systems as they are loaded.
Loaded(list) ==
  /\ list \in Seq(Systems)
  /\ \A s \in 1..Len(list) : Numbered(s, list[s].entries)

\* What populateFromFile makes of any file.
LEMMA PopulatedLoaded ==
  ASSUME NEW contents \in Seq(RawSystems)
  PROVE  Loaded(Populated(contents))
<1> DEFINE N == Len(contents)
<1>1. PICK made \in [0..N -> Seq(Systems)] :
        /\ Populated(contents) = made[N] /\ made[0] = <<>>
        /\ \A n \in 1..N :
             made[n] = IF contents[n].known
                       THEN Append(made[n - 1], NewSystem(Len(made[n - 1]) + 1, contents[n]))
                       ELSE made[n - 1]
  BY SystemsLoop
<1> DEFINE S == {n \in 0..N : Loaded(made[n])}
<1>2. 0 \in S
  BY <1>1 DEF Loaded
<1>3. ASSUME NEW n \in 1..N, n - 1 \in S PROVE n \in S
  <2> DEFINE list == made[n - 1]
             system == NewSystem(Len(list) + 1, contents[n])
  <2>1. n \in 0..N /\ contents[n] \in RawSystems /\ list \in Seq(Systems) /\ Loaded(list)
    BY <1>3 DEF Loaded
  <2>2. made[n] = IF contents[n].known THEN Append(list, system) ELSE list
    BY <1>1
  <2> HIDE DEF list
  <2>3. contents[n].channels \in Seq(RawChannels) /\ contents[n].lockout \in BOOLEAN
    BY <2>1 DEF RawSystems
  <2>4. Numbered(Len(list) + 1, system.entries)
    BY <2>1, <2>3, EntriesNumbered DEF NewSystem
  <2>5. system \in Systems
    BY <2>3, <2>4 DEF NewSystem, Systems, Numbered
  <2> HIDE DEF system
  <2>6. Loaded(Append(list, system))
    BY <2>1, <2>4, <2>5 DEF Loaded
  <2>7. QED
    BY <2>1, <2>2, <2>6
<1>4. N \in Nat
  OBVIOUS
<1> HIDE DEF S, N
<1>5. 0..N \subseteq S
  BY <1>2, <1>3, <1>4, LoopInduction
<1>6. QED
  BY <1>1, <1>4, <1>5 DEF S

\* What was loaded and saved loads again as it was.
LEMMA SavedReloads ==
  ASSUME NEW list, Loaded(list)
  PROVE  Saved(list) \in Seq(RawSystems) /\ Populated(Saved(list)) = list
<1> DEFINE contents == Saved(list)
           N == Len(list)
           Raw(s) == [known |-> TRUE, lockout |-> list[s].lockout,
                      channels |-> SavedEntries(list[s].entries)]
<1>1. list \in Seq(Systems) /\ N \in Nat /\ DOMAIN list = 1..N
  BY DEF Loaded
<1>2. contents = [s \in 1..N |-> Raw(s)]
  BY <1>1 DEF Saved, SavedEntries
<1>3. ASSUME NEW s \in 1..N
      PROVE  Raw(s) \in RawSystems /\ NewSystem(s, Raw(s)) = list[s]
  <2>1. list[s] \in Systems /\ s \in Nat /\ Numbered(s, list[s].entries)
    BY <1>1 DEF Loaded
  <2>2. /\ SavedEntries(list[s].entries) \in Seq(RawChannels)
        /\ EntriesOf(s, SavedEntries(list[s].entries)) = list[s].entries
    BY <2>1, EntriesReloaded
  <2>3. Raw(s) \in RawSystems
    BY <2>1, <2>2 DEF RawSystems, Systems
  <2>4. NewSystem(s, Raw(s)) = list[s]
    BY <2>1, <2>2 DEF NewSystem, Systems
  <2>5. QED
    BY <2>3, <2>4
<1>4. \A s \in 1..N : Raw(s).known
  OBVIOUS
<1> HIDE DEF contents, N, Raw
<1>5. /\ contents \in Seq(RawSystems) /\ Len(contents) = N
      /\ \A s \in 1..N : contents[s] = Raw(s)
  BY <1>1, <1>2, <1>3
<1>6. PICK made \in [0..N -> Seq(Systems)] :
        /\ Populated(contents) = made[N] /\ made[0] = <<>>
        /\ \A n \in 1..N :
             made[n] = IF contents[n].known
                       THEN Append(made[n - 1], NewSystem(Len(made[n - 1]) + 1, contents[n]))
                       ELSE made[n - 1]
  BY <1>5, SystemsLoop
<1> DEFINE S == {n \in 0..N : Len(made[n]) = n /\ \A s \in 1..n : made[n][s] = list[s]}
<1>7. 0 \in S
  BY <1>1, <1>6
<1>8. ASSUME NEW n \in 1..N, n - 1 \in S PROVE n \in S
  <2>1. made[n - 1] \in Seq(Systems)
    BY <1>1
  <2>2. Len(made[n - 1]) = n - 1 /\ \A s \in 1..(n - 1) : made[n - 1][s] = list[s]
    BY <1>8
  <2>3. contents[n].known /\ NewSystem(n, contents[n]) = list[n]
    BY <1>3, <1>4, <1>5
  <2>4. Len(made[n - 1]) + 1 = n
    BY <2>2, <1>1
  <2>5. made[n] = Append(made[n - 1], list[n])
    BY <1>6, <2>3, <2>4
  <2>6. Len(made[n]) = n /\ \A s \in 1..n : made[n][s] = list[s]
    BY <1>1, <2>1, <2>2, <2>5
  <2>7. QED
    BY <1>1, <2>6
<1> HIDE DEF S
<1>9. 0..N \subseteq S
  BY <1>1, <1>7, <1>8, LoopInduction
<1>10. Len(made[N]) = N /\ \A s \in 1..N : made[N][s] = list[s]
  BY <1>1, <1>9 DEF S
<1>11. made[N] \in Seq(Systems)
  BY <1>1
<1>12. made[N] = list
  BY <1>1, <1>10, <1>11 DEF N
<1>13. QED
  BY <1>5, <1>6, <1>12 DEF contents

\* The systems of the program are as they were loaded, and what was saved are they.
SystemsInv ==
  /\ file \in Seq(RawSystems) /\ Loaded(systems)
  /\ pc = "saved" => file = Saved(systems)

\* They are so before anything is loaded.
LEMMA SystemsInit == ListInit => SystemsInv
<1> SUFFICES ASSUME ListInit PROVE SystemsInv
  OBVIOUS
<1>1. file \in Seq(RawSystems) /\ systems = <<>> /\ pc = "start"
  BY ListAssumption DEF ListInit
<1>2. Loaded(<<>>)
  BY DEF Loaded
<1>3. QED
  BY <1>1, <1>2 DEF SystemsInv

\* They are loaded, saved and forgotten, and otherwise left alone.
LEMMA SystemsStep == SystemsInv /\ [ListNext]_listVars => SystemsInv'
<1> SUFFICES ASSUME SystemsInv, [ListNext]_listVars PROVE SystemsInv'
  OBVIOUS
<1> USE DEF SystemsInv
<1>1. CASE PopulateFromFile
  <2>1. /\ file' = file /\ pc' # "saved"
        /\ systems' = systems \/ systems' = Populated(file)
    BY <1>1 DEF PopulateFromFile
  <2>2. QED
    BY <2>1, PopulatedLoaded DEF Loaded
<1>2. CASE WriteToFile
  <2>1. file' = Saved(systems) /\ systems' = systems
    BY <1>2 DEF WriteToFile, loaded
  <2>2. QED
    BY <2>1, SavedReloads DEF Loaded, Saved
<1>3. CASE Restart
  <2>1. file' = file /\ systems' = <<>> /\ pc' = "start"
    BY <1>3 DEF Restart
  <2>2. QED
    BY <2>1 DEF Loaded
<1>4. CASE SortBins \/ GetNextEntry \/ SearchStep \/ WriteBegin
           \/ \E s, i \in 1..MaxIndex : GetEntryByIndex(s, i)
  <2>1. file' = file /\ systems' = systems /\ pc' # "saved"
    BY <1>4 DEF SortBins, GetNextEntry, SearchStep, SearchRetune, SearchHangs, SearchChannel,
       Takes, WriteBegin, GetEntryByIndex, loaded
  <2>2. QED
    BY <2>1 DEF Loaded
<1>5. CASE UNCHANGED listVars
  BY <1>5 DEF listVars, loaded, Loaded, Saved
<1>6. QED
  BY <1>1, <1>2, <1>3, <1>4, <1>5 DEF ListNext

\* For every file, and however often the program is started.
LEMMA SystemsInvariant == ListSpec => []SystemsInv
  BY SystemsInit, SystemsStep, PTL DEF ListSpec

\* The database that a stop has saved is loaded at the next start with every
\* channel at the index it had, for every file: what the first start refused was
\* not saved, and what it accepted is accepted again.
THEOREM IndexesOutliveRestarts == ListSpec => []SavedIndexIsStable
<1>1. SystemsInv => SavedIndexIsStable
  BY SavedReloads DEF SystemsInv, SavedIndexIsStable
<1>2. QED
  BY <1>1, SystemsInvariant, PTL

-----------------------------------------------------------------------------
(* SystemList: the bins fit the tuner.                                     *)

\* What merge sort keeps.
Ascending(s) == \A i, j \in 1..Len(s) : i <= j => s[i].freq <= s[j].freq

\* What is in two sequences put together.
LEMMA JoinedSet ==
  ASSUME NEW V, NEW s \in Seq(V), NEW t \in Seq(V)
  PROVE  s \o t \in Seq(V) /\ ToSet(s \o t) = ToSet(s) \cup ToSet(t)
<1>1. /\ s \o t \in Seq(V) /\ Len(s \o t) = Len(s) + Len(t)
      /\ \A i \in 1..Len(s) : (s \o t)[i] = s[i]
      /\ \A i \in 1..Len(t) : (s \o t)[Len(s) + i] = t[i]
  OBVIOUS
<1>2. ASSUME NEW x \in ToSet(s \o t) PROVE x \in ToSet(s) \cup ToSet(t)
  <2>1. PICK k \in 1..(Len(s) + Len(t)) : x = (s \o t)[k]
    BY <1>1 DEF ToSet
  <2>2. CASE k <= Len(s)
    BY <1>1, <2>1, <2>2 DEF ToSet
  <2>3. CASE k > Len(s)
    <3>1. k - Len(s) \in 1..Len(t) /\ Len(s) + (k - Len(s)) = k
      BY <2>3
    <3>2. x = t[k - Len(s)]
      BY <1>1, <2>1, <3>1
    <3>3. QED
      BY <3>1, <3>2 DEF ToSet
  <2>4. QED
    BY <2>2, <2>3
<1>3. ASSUME NEW k \in 1..Len(s) PROVE s[k] \in ToSet(s \o t)
  BY <1>1 DEF ToSet
<1>4. ASSUME NEW k \in 1..Len(t) PROVE t[k] \in ToSet(s \o t)
  <2>1. Len(s) + k \in 1..Len(s \o t)
    BY <1>1
  <2>2. QED
    BY <1>1, <2>1 DEF ToSet
<1>5. DOMAIN s = 1..Len(s) /\ DOMAIN t = 1..Len(t)
  OBVIOUS
<1>6. ToSet(s) \subseteq ToSet(s \o t)
  BY <1>3, <1>5 DEF ToSet
<1>7. ToSet(t) \subseteq ToSet(s \o t)
  BY <1>4, <1>5 DEF ToSet
<1>8. QED
  BY <1>1, <1>2, <1>6, <1>7

\* What is in a part of a sequence.
LEMMA SliceSet ==
  ASSUME NEW V, NEW s \in Seq(V), NEW i \in 1..(Len(s) + 1), NEW j \in 0..Len(s)
  PROVE  SubSeq(s, i, j) \in Seq(V) /\ ToSet(SubSeq(s, i, j)) = {s[k] : k \in i..j}
<1> DEFINE n == IF i <= j THEN j - i + 1 ELSE 0
<1>1. /\ SubSeq(s, i, j) \in Seq(V) /\ Len(SubSeq(s, i, j)) = n
      /\ \A k \in 1..n : SubSeq(s, i, j)[k] = s[i + k - 1]
  OBVIOUS
<1>2. DOMAIN SubSeq(s, i, j) = 1..n
  BY <1>1
<1>3. ASSUME NEW k \in i..j PROVE s[k] \in ToSet(SubSeq(s, i, j))
  <2>1. k - i + 1 \in 1..n /\ i + (k - i + 1) - 1 = k
    OBVIOUS
  <2>2. SubSeq(s, i, j)[k - i + 1] = s[k]
    BY <1>1, <2>1
  <2> HIDE DEF n
  <2>3. QED
    BY <1>2, <2>1, <2>2 DEF ToSet
<1>4. ASSUME NEW k \in 1..n PROVE SubSeq(s, i, j)[k] \in {s[x] : x \in i..j}
  <2>1. i + k - 1 \in i..j
    OBVIOUS
  <2>2. QED
    BY <1>1, <2>1
<1>5. QED
  BY <1>1, <1>3, <1>4, <1>2 DEF ToSet

\* A part of an ascending sequence ascends.
LEMMA SliceAscends ==
  ASSUME NEW s \in Seq(Entries), Ascending(s), NEW i \in 1..(Len(s) + 1), NEW j \in 0..Len(s)
  PROVE  Ascending(SubSeq(s, i, j))
<1> DEFINE n == IF i <= j THEN j - i + 1 ELSE 0
<1>1. /\ Len(SubSeq(s, i, j)) = n
      /\ \A k \in 1..n : i + k - 1 \in 1..Len(s) /\ SubSeq(s, i, j)[k] = s[i + k - 1]
  OBVIOUS
<1>2. QED
  BY <1>1 DEF Ascending

\* One that goes first, ahead of an ascending rest.
LEMMA AheadAscends ==
  ASSUME NEW e \in Entries, NEW s \in Seq(Entries), Ascending(s),
         \A x \in ToSet(s) : e.freq <= x.freq
  PROVE  /\ <<e>> \o s \in Seq(Entries) /\ Ascending(<<e>> \o s)
         /\ ToSet(<<e>> \o s) = {e} \cup ToSet(s)
<1>1. /\ <<e>> \o s \in Seq(Entries) /\ Len(<<e>> \o s) = Len(s) + 1
      /\ (<<e>> \o s)[1] = e /\ \A k \in 2..(Len(s) + 1) : (<<e>> \o s)[k] = s[k - 1]
  OBVIOUS
<1>2. <<e>> \in Seq(Entries) /\ ToSet(<<e>>) = {e}
  BY DEF ToSet
<1>3. ToSet(<<e>> \o s) = {e} \cup ToSet(s)
  <2> DEFINE one == <<e>>
  <2>1. one \in Seq(Entries)
    BY <1>2
  <2> HIDE DEF one
  <2>2. ToSet(one \o s) = ToSet(one) \cup ToSet(s)
    BY <2>1, JoinedSet
  <2>3. QED
    BY <1>2, <2>2 DEF one
<1>4. \A k \in 2..(Len(s) + 1) : s[k - 1] \in ToSet(s)
  BY DEF ToSet
<1>5. e.freq \in Nat
  BY DEF Entries
<1>6. ASSUME NEW i \in 1..(Len(s) + 1), NEW j \in 1..(Len(s) + 1), i <= j
      PROVE  (<<e>> \o s)[i].freq <= (<<e>> \o s)[j].freq
  <2>1. CASE i = 1 /\ j = 1
    BY <1>1, <1>5, <2>1
  <2>2. CASE i = 1 /\ j # 1
    BY <1>1, <1>4, <2>2
  <2>3. CASE i # 1
    <3>1. i \in 2..(Len(s) + 1) /\ j \in 2..(Len(s) + 1) /\ i - 1 <= j - 1
      BY <1>6, <2>3
    <3>2. s[i - 1].freq <= s[j - 1].freq
      BY <3>1 DEF Ascending
    <3>3. QED
      BY <1>1, <3>1, <3>2
  <2>4. QED
    BY <2>1, <2>2, <2>3
<1>7. Ascending(<<e>> \o s)
  BY <1>1, <1>6 DEF Ascending
<1>8. QED
  BY <1>1, <1>3, <1>7

\* merge puts two ascending sequences together.
LEMMA MergeAscends ==
  ASSUME NEW L \in Seq(Entries), NEW R \in Seq(Entries), Ascending(L), Ascending(R)
  PROVE  /\ Merge(L, R) \in Seq(Entries) /\ Ascending(Merge(L, R))
         /\ ToSet(Merge(L, R)) = ToSet(L) \cup ToSet(R)
<1> DEFINE l == Len(L)
           r == Len(R)
           D == (1..(l + 1)) \X (1..(r + 1))
           V == Seq(Entries)
           rank == [at \in D |-> (l + 1 - at[1]) + (r + 1 - at[2])]
           Cell(i, j, f) ==
             IF i > l THEN SubSeq(R, j, r)
             ELSE IF j > r THEN SubSeq(L, i, l)
             ELSE IF GoesFirst(L[i], R[j])
                  THEN <<L[i]>> \o f[<<i + 1, j>>]
                  ELSE <<R[j]>> \o f[<<i, j + 1>>]
           Body(at, f) == Cell(at[1], at[2], f)
           step == [p \in D \X [D -> V] |-> Body(p[1], p[2])]
           from == CHOOSE f : f = [at \in D |-> Body(at, f)]
<1>1. l \in Nat /\ r \in Nat
  OBVIOUS
<1>2. /\ rank \in [D -> Nat] /\ \A d \in D : rank[d] < l + r + 1
  <2> HIDE DEF l, r
  <2>1. ASSUME NEW d \in D
        PROVE  /\ (l + 1 - d[1]) + (r + 1 - d[2]) \in Nat
               /\ (l + 1 - d[1]) + (r + 1 - d[2]) < l + r + 1
    <3>1. d[1] \in 1..(l + 1) /\ d[2] \in 1..(r + 1)
      OBVIOUS
    <3>2. QED
      BY <1>1, <3>1
  <2> HIDE DEF D
  <2>2. QED
    BY <2>1
<1>3. ASSUME NEW i \in 1..(l + 1), NEW j \in 1..(r + 1)
      PROVE  /\ <<i, j>> \in D /\ rank[<<i, j>>] = (l + 1 - i) + (r + 1 - j)
             /\ i <= l => <<i + 1, j>> \in D /\ rank[<<i + 1, j>>] = rank[<<i, j>>] - 1
             /\ j <= r => <<i, j + 1>> \in D /\ rank[<<i, j + 1>>] = rank[<<i, j>>] - 1
  <2> HIDE DEF l, r
  <2>1. <<i, j>> \in D /\ (i <= l => <<i + 1, j>> \in D) /\ (j <= r => <<i, j + 1>> \in D)
    BY <1>1
  <2>2. ASSUME NEW x, NEW y, <<x, y>> \in D
        PROVE  rank[<<x, y>>] = (l + 1 - x) + (r + 1 - y)
    <3> HIDE DEF D
    <3>1. QED
      BY <2>2
  <2> HIDE DEF D, rank
  <2>3. rank[<<i, j>>] = (l + 1 - i) + (r + 1 - j)
    BY <2>1, <2>2
  <2>4. i <= l => rank[<<i + 1, j>>] = (l + 1 - (i + 1)) + (r + 1 - j)
    BY <2>1, <2>2
  <2>5. j <= r => rank[<<i, j + 1>>] = (l + 1 - i) + (r + 1 - (j + 1))
    BY <2>1, <2>2
  <2>6. QED
    BY <1>1, <2>1, <2>3, <2>4, <2>5
<1>4. ASSUME NEW i \in 1..l PROVE L[i] \in Entries
  OBVIOUS
<1>5. ASSUME NEW j \in 1..r PROVE R[j] \in Entries
  OBVIOUS
<1>6. ASSUME NEW i, NEW j, NEW f PROVE Body(<<i, j>>, f) = Cell(i, j, f)
  <2> HIDE DEF Cell
  <2>1. QED
    OBVIOUS
<1>7. ASSUME NEW i \in 1..(l + 1), NEW j \in 1..(r + 1), NEW f
       PROVE  /\ i <= l /\ j > r => Cell(i, j, f) = SubSeq(L, i, l)
              /\ i <= l /\ j <= r /\ GoesFirst(L[i], R[j]) => Cell(i, j, f) = <<L[i]>> \o f[<<i + 1, j>>]
              /\ i <= l /\ j <= r /\ ~GoesFirst(L[i], R[j]) => Cell(i, j, f) = <<R[j]>> \o f[<<i, j + 1>>]
  <2> HIDE DEF l, r
  <2>1. (i <= l => ~(i > l)) /\ (j <= r => ~(j > r))
    BY <1>1
  <2>2. QED
    BY ONLY <2>1, Zenon
<1>8. ASSUME NEW i \in 1..(l + 1), NEW j \in 1..(r + 1), NEW f,
             i <= l => f[<<i + 1, j>>] \in V, j <= r => f[<<i, j + 1>>] \in V
      PROVE  Body(<<i, j>>, f) \in V
  <2>1. CASE i > l \/ j > r
    BY <2>1
  <2>2. CASE i <= l /\ j <= r
    <3>1. L[i] \in Entries /\ R[j] \in Entries
      BY <2>2
    <3>2. f[<<i + 1, j>>] \in V /\ f[<<i, j + 1>>] \in V
      BY <1>8, <2>2
    <3>3. <<L[i]>> \o f[<<i + 1, j>>] \in V /\ <<R[j]>> \o f[<<i, j + 1>>] \in V
      BY <3>1, <3>2
    <3>4. \/ Body(<<i, j>>, f) = <<L[i]>> \o f[<<i + 1, j>>]
          \/ Body(<<i, j>>, f) = <<R[j]>> \o f[<<i, j + 1>>]
      <4> HIDE DEF Body, Cell, D, V, l, r
      <4>1. Body(<<i, j>>, f) = Cell(i, j, f)
        BY <1>6
      <4>2. CASE GoesFirst(L[i], R[j])
        BY <1>7, <2>2, <4>1, <4>2
      <4>3. CASE ~GoesFirst(L[i], R[j])
        BY <1>7, <2>2, <4>1, <4>3
      <4>4. QED
        BY <4>2, <4>3
    <3>5. QED
      BY <3>3, <3>4
  <2> HIDE DEF Body, V, l, r
  <2>3. QED
    BY <2>1, <2>2, <1>1
<1>9. \A d \in D : \E i \in 1..(l + 1), j \in 1..(r + 1) : d = <<i, j>>
  OBVIOUS
<1>10. step \in [D \X [D -> V] -> V]
  <2>1. ASSUME NEW d \in D, NEW f \in [D -> V] PROVE Body(d, f) \in V
    <3>1. PICK i \in 1..(l + 1), j \in 1..(r + 1) : d = <<i, j>>
      BY <1>9
    <3>2. (i <= l => f[<<i + 1, j>>] \in V) /\ (j <= r => f[<<i, j + 1>>] \in V)
      BY <1>3
    <3> HIDE DEF Body
    <3>3. QED
      BY <1>8, <3>1, <3>2
  <2> HIDE DEF Body, D, V
  <2>2. QED
    BY <2>1
<1>11. ASSUME NEW d \in D, NEW f \in [D -> V], NEW g \in [D -> V],
             \A e \in D : rank[e] < rank[d] => f[e] = g[e]
      PROVE  step[<<d, f>>] = step[<<d, g>>]
  <2>1. PICK i \in 1..(l + 1), j \in 1..(r + 1) : d = <<i, j>>
    BY <1>9
  <2>2. rank[d] \in Nat
    BY <1>2
  <2>3. i <= l => f[<<i + 1, j>>] = g[<<i + 1, j>>]
    <3>1. i <= l => <<i + 1, j>> \in D /\ rank[<<i + 1, j>>] = rank[d] - 1
      BY <1>3, <2>1
    <3> HIDE DEF D, rank
    <3>2. QED
      BY <1>11, <2>2, <3>1
  <2>4. j <= r => f[<<i, j + 1>>] = g[<<i, j + 1>>]
    <3>1. j <= r => <<i, j + 1>> \in D /\ rank[<<i, j + 1>>] = rank[d] - 1
      BY <1>3, <2>1
    <3> HIDE DEF D, rank
    <3>2. QED
      BY <1>11, <2>2, <3>1
  <2>5. Body(d, f) = Cell(i, j, f) /\ Body(d, g) = Cell(i, j, g)
    BY <1>6, <2>1
  <2> HIDE DEF Body, D, V, l, r
  <2>6. Cell(i, j, f) = Cell(i, j, g)
    BY <1>1, <2>3, <2>4
  <2>7. QED
    BY <2>5, <2>6
<1>12. PICK f \in [D -> V] : \A d \in D : f[d] = step[<<d, f>>]
  <2>1. V # {} /\ l + r + 1 \in Nat
    BY <1>1
  <2> HIDE DEF D, V, rank, step, l, r
  <2>2. Recursion(D, V, rank, l + r + 1, step)
    BY <1>2, <1>10, <1>11, <2>1 DEF Recursion
  <2>3. QED
    BY <2>2, RecursionHasSolution
<1>13. f = [at \in D |-> Body(at, f)]
  <2> HIDE DEF Body, D, V
  <2>1. QED
    BY <1>12
<1>14. from = [at \in D |-> Body(at, from)]
  <2> HIDE DEF Body, D
  <2>1. QED
    BY <1>13
<1>15. Merge(L, R) = from[<<1, 1>>]
  BY DEF Merge
<1> HIDE DEF from, step
<1> DEFINE Rest(i, j) == {L[k] : k \in i..l} \cup {R[k] : k \in j..r}
           OK(d) == /\ from[d] \in V /\ Ascending(from[d])
                    /\ ToSet(from[d]) = Rest(d[1], d[2])
           S == {k \in Nat : \A d \in D : rank[d] = k => OK(d)}
<1>16. ASSUME NEW i \in 1..l, NEW j \in 1..r
       PROVE  /\ L[i].freq <= R[j].freq => \A x \in Rest(i + 1, j) : L[i].freq <= x.freq
              /\ ~(L[i].freq <= R[j].freq) => \A x \in Rest(i, j + 1) : R[j].freq <= x.freq
  <2>1. \A k \in 1..l : L[k].freq \in Nat
    <3> TAKE k \in 1..l
    <3>1. L[k] \in Entries
      OBVIOUS
    <3>2. QED
      BY <3>1 DEF Entries
  <2>2. \A k \in 1..r : R[k].freq \in Nat
    <3> TAKE k \in 1..r
    <3>1. R[k] \in Entries
      OBVIOUS
    <3>2. QED
      BY <3>1 DEF Entries
  <2>3. \A k \in i..l : L[i].freq <= L[k].freq
    BY DEF Ascending
  <2>4. \A k \in j..r : R[j].freq <= R[k].freq
    BY DEF Ascending
  <2> HIDE DEF l, r
  <2>5. (i + 1)..l \subseteq i..l /\ (j + 1)..r \subseteq j..r
    BY <1>1
  <2>6. i..l \subseteq 1..l /\ j..r \subseteq 1..r
    BY <1>1
  <2>7. CASE L[i].freq <= R[j].freq
    BY <2>1, <2>2, <2>3, <2>4, <2>5, <2>6, <2>7
  <2>8. CASE ~(L[i].freq <= R[j].freq)
    BY <2>1, <2>2, <2>3, <2>4, <2>5, <2>6, <2>8
  <2>9. QED
    BY <2>7, <2>8
<1>17. ASSUME NEW i \in 1..(l + 1), NEW j \in 1..(r + 1),
              i <= l => OK(<<i + 1, j>>), j <= r => OK(<<i, j + 1>>)
       PROVE  OK(<<i, j>>)
  <2>1. from[<<i, j>>] = Body(<<i, j>>, from)
    <3>1. <<i, j>> \in D
      BY <1>3
    <3> HIDE DEF Body, D
    <3>2. QED
      BY <1>14, <3>1
  <2>2. CASE i > l
    <3>1. from[<<i, j>>] = SubSeq(R, j, r)
      BY <2>1, <2>2
    <3>2. i..l = {} /\ r \in 0..r
      BY <1>1, <2>2
    <3>3. /\ SubSeq(R, j, r) \in V /\ ToSet(SubSeq(R, j, r)) = {R[k] : k \in j..r}
          /\ Ascending(SubSeq(R, j, r))
      <4>1. j \in 1..(Len(R) + 1) /\ r \in 0..Len(R)
        BY <3>2
      <4> HIDE DEF r
      <4>2. QED
        BY <4>1, SliceSet, SliceAscends
    <3>4. QED
      BY <3>1, <3>2, <3>3
  <2>3. CASE i <= l /\ j > r
    <3>1. from[<<i, j>>] = SubSeq(L, i, l)
      <4> HIDE DEF Body, Cell, D, V, OK, l, r
      <4>1. Body(<<i, j>>, from) = Cell(i, j, from)
        BY ONLY <1>6
      <4>2. Cell(i, j, from) = SubSeq(L, i, l)
        BY <1>7, <2>3
      <4>3. QED
        BY ONLY <2>1, <4>1, <4>2
    <3>2. j..r = {} /\ l \in 0..l
      BY <1>1, <2>3
    <3>3. /\ SubSeq(L, i, l) \in V /\ ToSet(SubSeq(L, i, l)) = {L[k] : k \in i..l}
          /\ Ascending(SubSeq(L, i, l))
      <4>1. i \in 1..(Len(L) + 1) /\ l \in 0..Len(L)
        BY <3>2
      <4> HIDE DEF l
      <4>2. QED
        BY <4>1, SliceSet, SliceAscends
    <3>4. QED
      BY <3>1, <3>2, <3>3
  <2>4. CASE i <= l /\ j <= r
    <3>1. i \in 1..l /\ j \in 1..r
      BY <1>1, <2>4
    <3>2. L[i] \in Entries /\ R[j] \in Entries
      BY <3>1
    <3>3. OK(<<i + 1, j>>) /\ OK(<<i, j + 1>>)
      BY <1>17, <2>4
    <3>4. Rest(i, j) = {L[i]} \cup Rest(i + 1, j) /\ Rest(i, j) = {R[j]} \cup Rest(i, j + 1)
      <4> HIDE DEF l, r
      <4>1. i..l = {i} \cup ((i + 1)..l) /\ j..r = {j} \cup ((j + 1)..r)
        BY <1>1, <3>1
      <4>2. QED
        BY <4>1
    <3>5. CASE GoesFirst(L[i], R[j])
      <4> DEFINE t == from[<<i + 1, j>>]
      <4>1. from[<<i, j>>] = <<L[i]>> \o t
        <5> HIDE DEF Body, Cell, D, V, OK, l, r, t
        <5>1. Body(<<i, j>>, from) = Cell(i, j, from)
          BY ONLY <1>6
        <5>2. Cell(i, j, from) = <<L[i]>> \o from[<<i + 1, j>>]
          BY <1>7, <2>4, <3>5
        <5>3. QED
          BY ONLY <2>1, <5>1, <5>2 DEF t
      <4>2. t \in Seq(Entries) /\ Ascending(t) /\ ToSet(t) = Rest(i + 1, j)
        BY <3>3
      <4>3. \A x \in ToSet(t) : L[i].freq <= x.freq
        BY <1>16, <3>1, <3>5, <4>2 DEF GoesFirst
      <4> HIDE DEF t, Rest
      <4>4. QED
        BY <3>2, <3>4, <4>1, <4>2, <4>3, AheadAscends
    <3>6. CASE ~GoesFirst(L[i], R[j])
      <4> DEFINE t == from[<<i, j + 1>>]
      <4>1. from[<<i, j>>] = <<R[j]>> \o t
        <5> HIDE DEF Body, Cell, D, V, OK, l, r, t
        <5>1. Body(<<i, j>>, from) = Cell(i, j, from)
          BY ONLY <1>6
        <5>2. Cell(i, j, from) = <<R[j]>> \o from[<<i, j + 1>>]
          BY <1>7, <2>4, <3>6
        <5>3. QED
          BY ONLY <2>1, <5>1, <5>2 DEF t
      <4>2. t \in Seq(Entries) /\ Ascending(t) /\ ToSet(t) = Rest(i, j + 1)
        BY <3>3
      <4>3. \A x \in ToSet(t) : R[j].freq <= x.freq
        BY <1>16, <3>1, <3>6, <4>2 DEF GoesFirst
      <4> HIDE DEF t, Rest
      <4>4. QED
        BY <3>2, <3>4, <4>1, <4>2, <4>3, AheadAscends
    <3>7. QED
      BY <3>5, <3>6
  <2> HIDE DEF OK, l, r
  <2>5. QED
    BY <1>1, <2>2, <2>3, <2>4
<1>18. ASSUME NEW n \in Nat, \A k \in 0..(n - 1) : k \in S PROVE n \in S
  <2> SUFFICES ASSUME NEW d \in D, rank[d] = n PROVE OK(d)
    OBVIOUS
  <2>1. PICK i \in 1..(l + 1), j \in 1..(r + 1) : d = <<i, j>>
    BY <1>9
  <2>2. /\ i <= l => <<i + 1, j>> \in D /\ rank[<<i + 1, j>>] = n - 1
        /\ j <= r => <<i, j + 1>> \in D /\ rank[<<i, j + 1>>] = n - 1
    BY <1>3, <2>1
  <2>3. \A e \in D : rank[e] = n - 1 => OK(e)
    <3> SUFFICES ASSUME NEW e \in D, rank[e] = n - 1 PROVE OK(e)
      OBVIOUS
    <3> HIDE DEF OK, D, rank
    <3>1. rank[e] \in Nat
      BY <1>2
    <3>2. n - 1 \in S
      BY <1>18, <3>1
    <3>3. QED
      BY <3>2
  <2> HIDE DEF OK, D, rank
  <2>4. QED
    BY <1>17, <2>1, <2>2, <2>3
<1>19. \A d \in D : OK(d)
  <2> HIDE DEF OK, D, rank
  <2>1. Nat \subseteq S
    <3> HIDE DEF S
    <3>1. QED
      BY <1>18, StrongInduction
  <2>2. QED
    BY <1>2, <2>1
<1>20. OK(<<1, 1>>)
  <2>1. <<1, 1>> \in D
    BY <1>1
  <2> HIDE DEF OK, D
  <2>2. QED
    BY <1>19, <2>1
<1>21. Rest(1, 1) = ToSet(L) \cup ToSet(R)
  BY DEF ToSet
<1>22. QED
  BY <1>15, <1>20, <1>21

\* mergeSort puts the entries in the order of their frequencies.
LEMMA SortAscends ==
  ASSUME NEW arr \in Seq(Entries)
  PROVE  /\ MergeSort(arr) \in Seq(Entries) /\ Ascending(MergeSort(arr))
         /\ ToSet(MergeSort(arr)) = ToSet(arr)
<1> DEFINE N == Len(arr)
           D == (1..(N + 1)) \X (0..N)
           V == {s \in Seq(Entries) : Ascending(s)}
           rank == [part \in D |-> IF part[1] >= part[2] THEN 0 ELSE part[2] - part[1]]
           Mid(l, r) == l + (r - l) \div 2
           Body(part, f) ==
             IF part[1] >= part[2] THEN SubSeq(arr, part[1], part[2])
             ELSE Merge(f[<<part[1], Mid(part[1], part[2])>>],
                        f[<<Mid(part[1], part[2]) + 1, part[2]>>])
           step == [p \in D \X [D -> V] |-> Body(p[1], p[2])]
           sort == CHOOSE f : f = [part \in D |-> Body(part, f)]
<1>1. N \in Nat
  OBVIOUS
<1>2. MergeSort(arr) = sort[<<1, N>>]
  BY DEF MergeSort
<1>3. \A d \in D : \E l \in 1..(N + 1), r \in 0..N : d = <<l, r>>
  OBVIOUS
<1>4. ASSUME NEW d \in D PROVE rank[d] \in Nat /\ rank[d] < N + 1
  <2> HIDE DEF N
  <2>1. PICK l \in 1..(N + 1), r \in 0..N : d = <<l, r>>
    BY <1>3
  <2>2. rank[d] = IF l >= r THEN 0 ELSE r - l
    BY <2>1
  <2> HIDE DEF rank
  <2>3. QED
    BY <1>1, <2>2
<1>5. rank \in [D -> Nat]
  <2> HIDE DEF D
  <2>1. ASSUME NEW d \in D PROVE (IF d[1] >= d[2] THEN 0 ELSE d[2] - d[1]) \in Nat
    BY <1>4
  <2>2. QED
    BY <2>1
<1>6. ASSUME NEW l \in 1..(N + 1), NEW r \in 0..N
      PROVE  /\ <<l, r>> \in D /\ rank[<<l, r>>] = IF l >= r THEN 0 ELSE r - l
             /\ l < r => /\ Mid(l, r) \in l..(r - 1)
                         /\ <<l, Mid(l, r)>> \in D /\ rank[<<l, Mid(l, r)>>] < rank[<<l, r>>]
                         /\ <<Mid(l, r) + 1, r>> \in D
                         /\ rank[<<Mid(l, r) + 1, r>>] < rank[<<l, r>>]
  <2> HIDE DEF N
  <2>1. ASSUME NEW x \in 1..(N + 1), NEW y \in 0..N
        PROVE  <<x, y>> \in D /\ rank[<<x, y>>] = IF x >= y THEN 0 ELSE y - x
    BY <1>1
  <2>2. ASSUME l < r PROVE Mid(l, r) \in l..(r - 1)
    BY <1>1, <2>2
  <2> HIDE DEF Mid, D, rank
  <2>3. ASSUME l < r
        PROVE  /\ <<l, Mid(l, r)>> \in D /\ rank[<<l, Mid(l, r)>>] < rank[<<l, r>>]
               /\ <<Mid(l, r) + 1, r>> \in D /\ rank[<<Mid(l, r) + 1, r>>] < rank[<<l, r>>]
    <3>1. Mid(l, r) \in 0..N /\ Mid(l, r) + 1 \in 1..(N + 1)
      BY <1>1, <2>2, <2>3
    <3>2. rank[<<l, r>>] = r - l
      BY <2>1, <2>3, <1>1
    <3>3. /\ <<l, Mid(l, r)>> \in D
          /\ rank[<<l, Mid(l, r)>>] = IF l >= Mid(l, r) THEN 0 ELSE Mid(l, r) - l
      BY <2>1, <3>1
    <3>4. /\ <<Mid(l, r) + 1, r>> \in D
          /\ rank[<<Mid(l, r) + 1, r>>] = IF Mid(l, r) + 1 >= r THEN 0 ELSE r - (Mid(l, r) + 1)
      BY <2>1, <3>1
    <3>5. QED
      BY <1>1, <2>2, <2>3, <3>1, <3>2, <3>3, <3>4
  <2>4. QED
    BY <2>1, <2>2, <2>3
<1>7. ASSUME NEW l \in 1..(N + 1), NEW r \in 0..N
      PROVE  /\ SubSeq(arr, l, r) \in Seq(Entries)
             /\ ToSet(SubSeq(arr, l, r)) = {arr[k] : k \in l..r}
             /\ l >= r => Ascending(SubSeq(arr, l, r))
  <2>1. /\ SubSeq(arr, l, r) \in Seq(Entries)
        /\ ToSet(SubSeq(arr, l, r)) = {arr[k] : k \in l..r}
    BY SliceSet
  <2>2. ASSUME l >= r PROVE Ascending(SubSeq(arr, l, r))
    <3> SUFFICES ASSUME NEW i \in 1..Len(SubSeq(arr, l, r)), NEW j \in 1..Len(SubSeq(arr, l, r))
                 PROVE  SubSeq(arr, l, r)[i].freq <= SubSeq(arr, l, r)[j].freq
      BY DEF Ascending
    <3>1. i = 1 /\ j = 1 /\ SubSeq(arr, l, r)[1] \in Entries
      BY <2>2
    <3>2. SubSeq(arr, l, r)[1].freq \in Nat
      BY <3>1 DEF Entries
    <3>3. QED
      BY <3>1, <3>2
  <2>3. QED
    BY <2>1, <2>2
<1>8. ASSUME NEW l \in 1..(N + 1), NEW r \in 0..N, NEW f,
             l < r => f[<<l, Mid(l, r)>>] \in V /\ f[<<Mid(l, r) + 1, r>>] \in V
      PROVE  /\ Body(<<l, r>>, f) \in V
             /\ l >= r => ToSet(Body(<<l, r>>, f)) = {arr[k] : k \in l..r}
             /\ l < r => ToSet(Body(<<l, r>>, f)) =
                           ToSet(f[<<l, Mid(l, r)>>]) \cup ToSet(f[<<Mid(l, r) + 1, r>>])
  <2>1. CASE l >= r
    <3>1. Body(<<l, r>>, f) = SubSeq(arr, l, r)
      BY <2>1
    <3> HIDE DEF Body
    <3>2. /\ SubSeq(arr, l, r) \in V
          /\ ToSet(SubSeq(arr, l, r)) = {arr[k] : k \in l..r}
      BY <1>7, <2>1
    <3> HIDE DEF N, V
    <3>3. ~(l < r)
      BY <1>1, <2>1
    <3>4. Body(<<l, r>>, f) \in V /\ ToSet(Body(<<l, r>>, f)) = {arr[k] : k \in l..r}
      BY <3>1, <3>2
    <3>5. QED
      BY <3>3, <3>4
  <2>2. CASE l < r
    <3> DEFINE A == f[<<l, Mid(l, r)>>]
               B == f[<<Mid(l, r) + 1, r>>]
    <3>1. Body(<<l, r>>, f) = Merge(A, B)
      BY <2>2
    <3>2. A \in V /\ B \in V
      BY <1>8, <2>2
    <3> HIDE DEF Body, A, B
    <3>3. Merge(A, B) \in V /\ ToSet(Merge(A, B)) = ToSet(A) \cup ToSet(B)
      BY <3>2, MergeAscends
    <3>4. /\ Body(<<l, r>>, f) \in V
          /\ ToSet(Body(<<l, r>>, f)) = ToSet(A) \cup ToSet(B)
      BY <3>1, <3>3
    <3> HIDE DEF N, V
    <3>5. ~(l >= r)
      BY <1>1, <2>2
    <3> HIDE DEF Mid
    <3>6. QED
      BY <2>2, <3>4, <3>5 DEF A, B
  <2> HIDE DEF Body, V, N, Mid
  <2>3. l >= r \/ l < r
    BY <1>1
  <2>4. QED
    BY <2>1, <2>2, <2>3
<1> HIDE DEF Mid
<1>9. step \in [D \X [D -> V] -> V]
  <2>1. ASSUME NEW d \in D, NEW f \in [D -> V] PROVE Body(d, f) \in V
    <3>1. PICK l \in 1..(N + 1), r \in 0..N : d = <<l, r>>
      BY <1>3
    <3>2. l < r => <<l, Mid(l, r)>> \in D /\ <<Mid(l, r) + 1, r>> \in D
      BY <1>6
    <3> HIDE DEF Body, D, V
    <3>3. l < r => f[<<l, Mid(l, r)>>] \in V /\ f[<<Mid(l, r) + 1, r>>] \in V
      BY <3>2
    <3>4. QED
      BY <1>8, <3>1, <3>3
  <2> HIDE DEF Body, D, V
  <2>2. QED
    BY <2>1
<1>10. ASSUME NEW d \in D, NEW f \in [D -> V], NEW g \in [D -> V],
              \A e \in D : rank[e] < rank[d] => f[e] = g[e]
       PROVE  step[<<d, f>>] = step[<<d, g>>]
  <2>1. PICK l \in 1..(N + 1), r \in 0..N : d = <<l, r>>
    BY <1>3
  <2>2. l < r => /\ <<l, Mid(l, r)>> \in D /\ rank[<<l, Mid(l, r)>>] < rank[d]
                 /\ <<Mid(l, r) + 1, r>> \in D /\ rank[<<Mid(l, r) + 1, r>>] < rank[d]
    BY <1>6, <2>1
  <2>3. l < r => /\ f[<<l, Mid(l, r)>>] = g[<<l, Mid(l, r)>>]
                 /\ f[<<Mid(l, r) + 1, r>>] = g[<<Mid(l, r) + 1, r>>]
    <3> HIDE DEF D, rank, V
    <3>1. QED
      BY <1>10, <2>2
  <2>4. Body(d, f) = Body(d, g)
    <3>1. CASE l >= r
      BY <2>1, <3>1
    <3>2. CASE l < r
      BY <2>1, <2>3, <3>2
    <3> HIDE DEF Body, N
    <3>3. QED
      BY <1>1, <3>1, <3>2
  <2> HIDE DEF Body, D, V
  <2>5. QED
    BY <2>4
<1>11. PICK f \in [D -> V] : \A d \in D : f[d] = step[<<d, f>>]
  <2>1. <<>> \in V
    BY DEF Ascending
  <2> HIDE DEF D, V, rank, step, N
  <2>2. V # {} /\ N + 1 \in Nat /\ \A d \in D : rank[d] < N + 1
    BY <1>1, <1>4, <2>1
  <2>3. Recursion(D, V, rank, N + 1, step)
    BY <1>5, <1>9, <1>10, <2>2 DEF Recursion
  <2>4. QED
    BY <2>3, RecursionHasSolution
<1>12. f = [part \in D |-> Body(part, f)]
  <2> HIDE DEF Body, D, V
  <2>1. QED
    BY <1>11
<1>13. sort = [part \in D |-> Body(part, sort)]
  <2> HIDE DEF Body, D
  <2>1. QED
    BY <1>12
<1> HIDE DEF sort, step
<1> DEFINE OK(d) == sort[d] \in V /\ ToSet(sort[d]) = {arr[k] : k \in d[1]..d[2]}
           S == {k \in Nat : \A d \in D : rank[d] = k => OK(d)}
<1>14. ASSUME NEW l \in 1..(N + 1), NEW r \in 0..N,
              l < r => OK(<<l, Mid(l, r)>>) /\ OK(<<Mid(l, r) + 1, r>>)
       PROVE  OK(<<l, r>>)
  <2>1. sort[<<l, r>>] = Body(<<l, r>>, sort)
    <3>1. <<l, r>> \in D
      BY <1>6
    <3> HIDE DEF Body, D
    <3>2. QED
      BY <1>13, <3>1
  <2>2. /\ l < r => sort[<<l, Mid(l, r)>>] \in V /\ sort[<<Mid(l, r) + 1, r>>] \in V
    BY <1>14
  <2> HIDE DEF Body
  <2>3. sort[<<l, r>>] \in V
    <3> HIDE DEF V, N, Mid
    <3>1. Body(<<l, r>>, sort) \in V
      BY <1>8, <2>2
    <3>2. QED
      BY <2>1, <3>1
  <2>4. CASE l >= r
    <3> HIDE DEF V
    <3>1. ToSet(sort[<<l, r>>]) = {arr[k] : k \in l..r}
      BY <1>8, <2>1, <2>2, <2>4
    <3>2. QED
      BY <2>3, <3>1
  <2>5. CASE l < r
    <3>1. /\ ToSet(sort[<<l, Mid(l, r)>>]) = {arr[k] : k \in l..Mid(l, r)}
          /\ ToSet(sort[<<Mid(l, r) + 1, r>>]) = {arr[k] : k \in (Mid(l, r) + 1)..r}
      BY <1>14, <2>5
    <3>2. Mid(l, r) \in l..(r - 1)
      BY <1>6, <2>5
    <3>3. l..r = (l..Mid(l, r)) \cup ((Mid(l, r) + 1)..r)
      BY <1>1, <3>2
    <3>4. {arr[k] : k \in l..r} =
            {arr[k] : k \in l..Mid(l, r)} \cup {arr[k] : k \in (Mid(l, r) + 1)..r}
      BY <3>3
    <3> HIDE DEF V
    <3>5. ToSet(sort[<<l, r>>]) = {arr[k] : k \in l..r}
      <4>1. ToSet(Body(<<l, r>>, sort)) =
              ToSet(sort[<<l, Mid(l, r)>>]) \cup ToSet(sort[<<Mid(l, r) + 1, r>>])
        BY <1>8, <2>2, <2>5
      <4>2. QED
        BY <2>1, <3>1, <3>4, <4>1
    <3>6. QED
      BY <2>3, <3>5
  <2> HIDE DEF OK, N
  <2>6. QED
    BY <1>1, <2>4, <2>5
<1>15. ASSUME NEW n \in Nat, \A k \in 0..(n - 1) : k \in S PROVE n \in S
  <2> SUFFICES ASSUME NEW d \in D, rank[d] = n PROVE OK(d)
    OBVIOUS
  <2>1. PICK l \in 1..(N + 1), r \in 0..N : d = <<l, r>>
    BY <1>3
  <2>2. l < r => /\ <<l, Mid(l, r)>> \in D /\ rank[<<l, Mid(l, r)>>] < n
                 /\ <<Mid(l, r) + 1, r>> \in D /\ rank[<<Mid(l, r) + 1, r>>] < n
    BY <1>6, <2>1
  <2> HIDE DEF OK, D, rank
  <2>3. \A e \in D : rank[e] < n => OK(e)
    <3> SUFFICES ASSUME NEW e \in D, rank[e] < n PROVE OK(e)
      OBVIOUS
    <3>1. rank[e] \in 0..(n - 1)
      BY <1>5
    <3>2. QED
      BY <1>15, <3>1
  <2>4. QED
    BY <1>14, <2>1, <2>2, <2>3
<1>16. ASSUME NEW d \in D PROVE OK(d)
  <2> HIDE DEF OK, D, rank
  <2>1. Nat \subseteq S
    <3> HIDE DEF S
    <3>1. QED
      BY <1>15, StrongInduction
  <2>2. QED
    BY <1>5, <2>1
<1>17. OK(<<1, N>>)
  <2>1. <<1, N>> \in D
    BY <1>1
  <2> HIDE DEF OK, D
  <2>2. QED
    BY <1>16, <2>1
<1>18. ToSet(arr) = {arr[k] : k \in 1..N}
  BY DEF ToSet
<1>19. QED
  BY <1>2, <1>17, <1>18

\* sortBins first puts all entries into one array.
LEMMA FlattenedSet ==
  ASSUME NEW seqs \in Seq(Seq(Entries))
  PROVE  /\ FlattenSeq(seqs) \in Seq(Entries)
         /\ ToSet(FlattenSeq(seqs)) = UNION {ToSet(seqs[s]) : s \in 1..Len(seqs)}
<1> DEFINE N == Len(seqs)
           V == Seq(Entries)
           turn == [p \in (1..N) \X V |-> p[2] \o seqs[p[1]]]
           flatten == CHOOSE f : f = [i \in 1..N |-> IF i = 1 THEN seqs[i] ELSE f[i - 1] \o seqs[i]]
<1>1. N \in Nat
  OBVIOUS
<1>2. CASE N = 0
  <2>1. FlattenSeq(seqs) = seqs /\ seqs = <<>>
    BY <1>2 DEF FlattenSeq
  <2>2. QED
    BY <2>1 DEF ToSet
<1>3. CASE N # 0
  <2>1. PICK f \in [0..N -> V] : f[0] = <<>> /\ \A n \in 1..N : f[n] = turn[<<n, f[n - 1]>>]
    <3>1. ASSUME NEW n \in 1..N, NEW s \in V PROVE s \o seqs[n] \in V
      OBVIOUS
    <3>2. turn \in [(1..N) \X V -> V]
      <4> HIDE DEF V
      <4>1. QED
        BY <3>1
    <3>3. Loop(N, V, <<>>, turn)
      BY <3>2 DEF Loop
    <3> HIDE DEF turn, N, V
    <3>4. QED
      BY <3>3, LoopRuns
  <2>2. ASSUME NEW n \in 1..N PROVE f[n] = f[n - 1] \o seqs[n] /\ f[n - 1] \in V /\ seqs[n] \in V
    <3>1. seqs[n] \in V
      OBVIOUS
    <3> HIDE DEF V, N
    <3>3. n - 1 \in 0..N
      BY <1>1
    <3>4. f[n - 1] \in V
      BY <3>3
    <3>5. QED
      BY <2>1, <3>1, <3>4
  <2>3. 1 \in 1..N /\ f[1] = seqs[1]
    <3>1. 1 \in 1..N
      BY <1>1, <1>3
    <3>2. seqs[1] \in V /\ f[1] = f[1 - 1] \o seqs[1]
      BY <2>2, <3>1
    <3>3. f[1 - 1] = <<>>
      BY <2>1
    <3>4. QED
      BY <3>1, <3>2, <3>3
  <2> DEFINE g == [n \in 1..N |-> f[n]]
  <2>4. g = [i \in 1..N |-> IF i = 1 THEN seqs[i] ELSE g[i - 1] \o seqs[i]]
    <3>1. ASSUME NEW i \in 1..N PROVE f[i] = IF i = 1 THEN seqs[i] ELSE g[i - 1] \o seqs[i]
      <4>1. i # 1 => g[i - 1] = f[i - 1]
        BY <1>1
      <4> HIDE DEF g
      <4>2. QED
        BY <2>2, <2>3, <4>1
    <3>2. QED
      BY <3>1
  <2>5. flatten = [i \in 1..N |-> IF i = 1 THEN seqs[i] ELSE flatten[i - 1] \o seqs[i]]
    <3> HIDE DEF g
    <3>1. QED
      BY <2>4
  <2>6. FlattenSeq(seqs) = flatten[N]
    BY <1>3 DEF FlattenSeq
  <2> HIDE DEF flatten, N
  <2> DEFINE S == {n \in 0..N : n = 0 \/ /\ flatten[n] \in V
                                         /\ ToSet(flatten[n]) = UNION {ToSet(seqs[s]) : s \in 1..n}}
  <2>7. 0 \in S
    BY <1>1
  <2>8. ASSUME NEW n \in 1..N, n - 1 \in S PROVE n \in S
    <3>1. seqs[n] \in V
      BY <2>2
    <3>2. CASE n = 1
      <4>1. flatten[n] = seqs[n]
        BY <2>5, <3>2
      <4>2. UNION {ToSet(seqs[s]) : s \in 1..n} = ToSet(seqs[n])
        BY <3>2
      <4>3. QED
        BY <1>1, <3>1, <4>1, <4>2
    <3>3. CASE n # 1
      <4>1. flatten[n] = flatten[n - 1] \o seqs[n]
        BY <2>5, <3>3
      <4>2. /\ flatten[n - 1] \in V
            /\ ToSet(flatten[n - 1]) = UNION {ToSet(seqs[s]) : s \in 1..(n - 1)}
        BY <2>8, <3>3, <1>1
      <4>3. /\ flatten[n] \in V
            /\ ToSet(flatten[n]) = ToSet(flatten[n - 1]) \cup ToSet(seqs[n])
        BY <3>1, <4>1, <4>2, JoinedSet
      <4>4. 1..n = (1..(n - 1)) \cup {n}
        BY <1>1
      <4>5. UNION {ToSet(seqs[s]) : s \in 1..n} =
              (UNION {ToSet(seqs[s]) : s \in 1..(n - 1)}) \cup ToSet(seqs[n])
        BY <4>4
      <4>6. ToSet(flatten[n]) = UNION {ToSet(seqs[s]) : s \in 1..n}
        BY <4>2, <4>3, <4>5
      <4>7. n \in 0..N
        BY <1>1
      <4>8. QED
        BY <4>3, <4>6, <4>7
    <3>4. QED
      BY <3>2, <3>3
  <2> HIDE DEF S
  <2>9. 0..N \subseteq S
    BY <1>1, <2>7, <2>8, LoopInduction
  <2>10. N \in S
    BY <1>1, <2>9
  <2>11. QED
    BY <1>3, <2>6, <2>10 DEF S, N
<1>4. QED
  BY <1>2, <1>3

\* The entries of all systems.
LEMMA AllEntriesSet ==
  ASSUME NEW list \in Seq(Systems)
  PROVE  AllEntries(list) \in Seq(Entries) /\ ToSet(AllEntries(list)) = InSystems(list)
<1> DEFINE seqs == [s \in DOMAIN list |-> list[s].entries]
<1>1. DOMAIN list = 1..Len(list) /\ \A s \in 1..Len(list) : list[s].entries \in Seq(Entries)
  <2>1. \A s \in 1..Len(list) : list[s] \in Systems
    OBVIOUS
  <2>2. QED
    BY <2>1 DEF Systems
<1>2. seqs \in Seq(Seq(Entries)) /\ Len(seqs) = Len(list)
      /\ \A s \in 1..Len(list) : seqs[s] = list[s].entries
  BY <1>1
<1> HIDE DEF seqs
<1>3. /\ FlattenSeq(seqs) \in Seq(Entries)
      /\ ToSet(FlattenSeq(seqs)) = UNION {ToSet(seqs[s]) : s \in 1..Len(seqs)}
  BY <1>2, FlattenedSet
<1>4. UNION {ToSet(seqs[s]) : s \in 1..Len(seqs)} = InSystems(list)
  BY <1>1, <1>2 DEF InSystems
<1>5. QED
  BY <1>3, <1>4 DEF AllEntries, seqs

\* A bin that has channels, and the bins of an ascending list, whose last channel
\* has the frequency top.
BinFits(bin, bw) ==
  /\ bin \in Seq(Entries) /\ bin # <<>>
  /\ \A i \in 1..Len(bin) :
       /\ bin[1].freq <= bin[i].freq /\ bin[i].freq <= bin[Len(bin)].freq
       /\ bin[i] = bin[1] \/ bin[i].freq < bin[1].freq + bw

BinsFit(bs, bw, top) ==
  /\ bs \in Seq(Seq(Entries)) /\ bs # <<>>
  /\ \A b \in 1..Len(bs) : BinFits(bs[b], bw)
  /\ \A b \in 2..Len(bs) : bs[b][1].freq >= bs[b - 1][1].freq + bw
  /\ bs[Len(bs)][Len(bs[Len(bs)])].freq <= top

\* A bin that is opened for a channel.
LEMMA NewBin ==
  ASSUME NEW e \in Entries, NEW bw
  PROVE  BinFits(<<e>>, bw) /\ ToSet(<<e>>) = {e} /\ <<e>>[Len(<<e>>)] = e /\ <<e>>[1] = e
<1>1. <<e>> \in Seq(Entries) /\ Len(<<e>>) = 1 /\ <<e>>[1] = e /\ <<e>> # <<>> /\ e.freq \in Nat
  BY DEF Entries
<1>2. ToSet(<<e>>) = {e}
  BY DEF ToSet
<1>3. \A i \in 1..Len(<<e>>) : <<e>>[i] = e
  BY <1>1
<1>4. QED
  BY <1>1, <1>2, <1>3 DEF BinFits

\* A channel within the reach of a bin, and not before its last one, is added.
LEMMA BinGrows ==
  ASSUME NEW bw \in Nat, NEW bin, BinFits(bin, bw), NEW e \in Entries,
         bin[Len(bin)].freq <= e.freq, ~(e.freq >= bin[1].freq + bw)
  PROVE  /\ BinFits(Append(bin, e), bw) /\ ToSet(Append(bin, e)) = ToSet(bin) \cup {e}
         /\ Append(bin, e)[Len(Append(bin, e))] = e /\ Append(bin, e)[1] = bin[1]
<1> DEFINE new == Append(bin, e)
           n == Len(bin)
<1>1. bin \in Seq(Entries) /\ n \in Nat /\ n > 0
  BY DEF BinFits
<1>2. /\ new \in Seq(Entries) /\ Len(new) = n + 1 /\ new[n + 1] = e
      /\ \A i \in 1..n : new[i] = bin[i] /\ bin[i] \in Entries
  BY <1>1
<1>3. new = bin \o <<e>> /\ <<e>> \in Seq(Entries)
  BY <1>1
<1>4. ToSet(new) = ToSet(bin) \cup {e}
  <2> DEFINE one == <<e>>
  <2>1. ToSet(one) = {e}
    BY NewBin
  <2>2. one \in Seq(Entries) /\ new = bin \o one
    BY <1>3
  <2> HIDE DEF one, new
  <2>3. ToSet(bin \o one) = ToSet(bin) \cup ToSet(one)
    BY <1>1, <2>2, JoinedSet
  <2>4. QED
    BY <2>1, <2>2, <2>3
<1> HIDE DEF new, n
<1>5. e.freq \in Nat /\ \A i \in 1..n : bin[i].freq \in Nat
  BY <1>2 DEF Entries
<1>6. /\ 1 \in 1..n /\ n \in 1..n /\ new[1] = bin[1]
  BY <1>1, <1>2
<1>7. \A i \in 1..n : /\ bin[1].freq <= bin[i].freq /\ bin[i].freq <= bin[n].freq
                      /\ bin[i] = bin[1] \/ bin[i].freq < bin[1].freq + bw
  BY DEF BinFits, n
<1>8. ASSUME NEW i \in 1..(n + 1)
      PROVE  /\ new[1].freq <= new[i].freq /\ new[i].freq <= new[n + 1].freq
             /\ new[i] = new[1] \/ new[i].freq < new[1].freq + bw
  <2>1. CASE i \in 1..n
    <3>1. bin[n].freq <= e.freq
      BY DEF n
    <3>2. new[i] = bin[i] /\ bin[i].freq <= e.freq
      BY <1>2, <1>5, <1>6, <1>7, <2>1, <3>1
    <3>3. QED
      BY <1>2, <1>6, <1>7, <2>1, <3>2
  <2>2. CASE i = n + 1
    <3>1. bin[1].freq <= e.freq /\ e.freq < bin[1].freq + bw
      BY <1>5, <1>6, <1>7 DEF n
    <3>2. QED
      BY <1>2, <1>5, <1>6, <2>2, <3>1
  <2>3. QED
    BY <1>1, <2>1, <2>2
<1>9. new # <<>>
  BY <1>1, <1>2
<1>10. BinFits(new, bw)
  BY <1>2, <1>8, <1>9 DEF BinFits
<1>11. QED
  BY <1>2, <1>4, <1>6, <1>10 DEF new

\* The last bin aside.
LEMMA UpToLast ==
  ASSUME NEW bs, NEW n \in Nat, n > 0
  PROVE  UNION {ToSet(bs[b]) : b \in 1..n} =
           (UNION {ToSet(bs[b]) : b \in 1..(n - 1)}) \cup ToSet(bs[n])
<1>1. 1..n = (1..(n - 1)) \cup {n}
  OBVIOUS
<1>2. QED
  BY <1>1

\* The next channel goes to the last bin or opens one.
LEMMA BinsGrow ==
  ASSUME NEW bw \in Nat, NEW bs, NEW top \in Nat, BinsFit(bs, bw, top),
         NEW e \in Entries, top <= e.freq
  PROVE  /\ BinsFit(AddToBins(bw, bs, e), bw, e.freq)
         /\ InBins(AddToBins(bw, bs, e)) = InBins(bs) \cup {e}
<1> DEFINE new == AddToBins(bw, bs, e)
           n == Len(bs)
           bin == bs[n]
<1>1. /\ bs \in Seq(Seq(Entries)) /\ n \in Nat /\ n > 0 /\ DOMAIN bs = 1..n /\ n \in 1..n
      /\ Last(bs) = bin
  BY DEF BinsFit, Last
<1>2. /\ \A b \in 1..n : BinFits(bs[b], bw)
      /\ \A b \in 2..n : bs[b][1].freq >= bs[b - 1][1].freq + bw
      /\ bin[Len(bin)].freq <= top
  BY DEF BinsFit
<1>3. BinFits(bin, bw)
  BY <1>1, <1>2
<1>4. bin \in Seq(Entries) /\ bin # <<>> /\ Len(bin) \in 1..Len(bin) /\ 1 \in 1..Len(bin)
  BY <1>3 DEF BinFits
<1>5. e.freq \in Nat /\ bin[Len(bin)].freq \in Nat /\ bin[1].freq \in Nat
  <2>1. bin[Len(bin)] \in Entries /\ bin[1] \in Entries
    BY <1>4
  <2>2. QED
    BY <2>1 DEF Entries
<1>6. bin[Len(bin)].freq <= e.freq
  BY <1>2, <1>5
<1>7. CASE OpensBin(bin, e, bw)
  <2>1. new = Append(bs, <<e>>)
    BY <1>1, <1>7 DEF AddToBins
  <2>2. e.freq >= bin[1].freq + bw
    BY <1>7 DEF OpensBin
  <2> HIDE DEF new
  <2> DEFINE one == <<e>>
  <2>3. BinFits(one, bw) /\ ToSet(one) = {e} /\ one[Len(one)] = e /\ one[1] = e
    BY NewBin
  <2>4. one \in Seq(Entries) /\ new = Append(bs, one)
    BY <2>1
  <2> HIDE DEF one
  <2>5. /\ new \in Seq(Seq(Entries)) /\ Len(new) = n + 1 /\ DOMAIN new = 1..(n + 1)
        /\ new[n + 1] = one /\ \A b \in 1..n : new[b] = bs[b]
    BY <1>1, <2>4
  <2> HIDE DEF n
  <2>6. \A b \in 1..(n + 1) : BinFits(new[b], bw)
    BY <1>1, <1>2, <2>3, <2>5
  <2>7. \A b \in 2..(n + 1) : new[b][1].freq >= new[b - 1][1].freq + bw
    <3> TAKE b \in 2..(n + 1)
    <3>1. CASE b = n + 1
      BY <1>1, <2>2, <2>3, <2>5, <3>1
    <3>2. CASE b # n + 1
      <4>1. b \in 2..n /\ b \in 1..n /\ b - 1 \in 1..n
        BY <1>1, <3>2
      <4>2. QED
        BY <1>2, <2>5, <4>1
    <3>3. QED
      BY <3>1, <3>2
  <2>8. new[Len(new)][Len(new[Len(new)])].freq <= e.freq
    BY <1>5, <2>3, <2>5
  <2>9. new # <<>>
    BY <1>1, <2>5
  <2>10. BinsFit(new, bw, e.freq)
    BY <2>5, <2>6, <2>7, <2>8, <2>9 DEF BinsFit
  <2>11. InBins(new) = InBins(bs) \cup {e}
    <3>1. UNION {ToSet(new[b]) : b \in 1..(n + 1)} =
            (UNION {ToSet(new[b]) : b \in 1..n}) \cup ToSet(new[n + 1])
      <4>1. n + 1 \in Nat /\ n + 1 > 0 /\ (n + 1) - 1 = n
        BY <1>1
      <4> DEFINE m == n + 1
      <4> HIDE DEF m
      <4>2. UNION {ToSet(new[b]) : b \in 1..m} =
              (UNION {ToSet(new[b]) : b \in 1..(m - 1)}) \cup ToSet(new[m])
        BY <4>1, UpToLast DEF m
      <4>3. QED
        BY <4>1, <4>2 DEF m
    <3>2. UNION {ToSet(new[b]) : b \in 1..n} = UNION {ToSet(bs[b]) : b \in 1..n}
      BY <2>5
    <3>3. QED
      BY <1>1, <2>3, <2>5, <3>1, <3>2 DEF InBins
  <2>12. QED
    BY <2>10, <2>11 DEF new
<1>8. CASE ~OpensBin(bin, e, bw)
  <2> DEFINE longer == Append(bin, e)
  <2>1. new = Append(Front(bs), longer)
    BY <1>1, <1>8 DEF AddToBins
  <2>2. ~(e.freq >= bin[1].freq + bw)
    BY <1>4, <1>8 DEF OpensBin
  <2> HIDE DEF new
  <2>3. /\ BinFits(longer, bw) /\ ToSet(longer) = ToSet(bin) \cup {e}
        /\ longer[Len(longer)] = e /\ longer[1] = bin[1]
    BY <1>3, <1>6, <2>2, BinGrows
  <2>4. longer \in Seq(Entries)
    BY <1>4
  <2> HIDE DEF longer
  <2>5. /\ new \in Seq(Seq(Entries)) /\ Len(new) = n /\ DOMAIN new = 1..n
        /\ new[n] = longer /\ \A b \in 1..(n - 1) : new[b] = bs[b]
    <3>1. /\ Front(bs) \in Seq(Seq(Entries)) /\ Len(Front(bs)) = n - 1
          /\ \A b \in 1..(n - 1) : Front(bs)[b] = bs[b]
      BY <1>1 DEF Front
    <3> HIDE DEF n
    <3>2. QED
      BY <1>1, <2>1, <2>4, <3>1
  <2>6. \A b \in 1..n : new[b][1] = bs[b][1] /\ BinFits(new[b], bw)
    <3> TAKE b \in 1..n
    <3>1. CASE b = n
      BY <2>3, <2>5, <3>1
    <3>2. CASE b # n
      <4> HIDE DEF n
      <4>1. b \in 1..(n - 1)
        BY <1>1, <3>2
      <4>2. QED
        BY <1>2, <2>5, <4>1
    <3>3. QED
      BY <3>1, <3>2
  <2> HIDE DEF n
  <2>7. \A b \in 2..n : new[b][1].freq >= new[b - 1][1].freq + bw
    <3> TAKE b \in 2..n
    <3>1. b \in 1..n /\ b - 1 \in 1..n
      BY <1>1
    <3>2. QED
      BY <1>2, <2>6, <3>1
  <2>8. new[Len(new)][Len(new[Len(new)])].freq <= e.freq
    BY <1>5, <2>3, <2>5
  <2>9. new # <<>>
    BY <1>1, <2>5
  <2>10. BinsFit(new, bw, e.freq)
    BY <2>5, <2>6, <2>7, <2>8, <2>9 DEF BinsFit
  <2>11. InBins(new) = InBins(bs) \cup {e}
    <3>2. UNION {ToSet(new[b]) : b \in 1..n} =
            (UNION {ToSet(new[b]) : b \in 1..(n - 1)}) \cup ToSet(new[n])
      BY <1>1, UpToLast
    <3>3. UNION {ToSet(bs[b]) : b \in 1..n} =
            (UNION {ToSet(bs[b]) : b \in 1..(n - 1)}) \cup ToSet(bs[n])
      BY <1>1, UpToLast
    <3>4. UNION {ToSet(new[b]) : b \in 1..(n - 1)} = UNION {ToSet(bs[b]) : b \in 1..(n - 1)}
      BY <2>5
    <3>5. /\ InBins(new) = UNION {ToSet(new[b]) : b \in 1..n}
          /\ InBins(bs) = UNION {ToSet(bs[b]) : b \in 1..n}
      BY <1>1, <2>5 DEF InBins
    <3>6. ToSet(new[n]) = ToSet(bs[n]) \cup {e}
      BY <2>3, <2>5
    <3>7. QED
      BY <3>2, <3>3, <3>4, <3>5, <3>6
  <2>12. QED
    BY <2>10, <2>11 DEF new
<1>9. QED
  BY <1>7, <1>8

\* The first channel goes to the bin that is there.
LEMMA FirstBin ==
  ASSUME NEW e \in Entries, NEW bw
  PROVE  AddToBins(bw, << <<>> >>, e) = << <<e>> >>
<1>1. Last(<< <<>> >>) = <<>> /\ Front(<< <<>> >>) = <<>>
  BY DEF Last, Front
<1>2. ~OpensBin(<<>>, e, bw)
  BY DEF OpensBin
<1>3. Append(<<>>, e) = <<e>> /\ Append(<<>>, <<e>>) = << <<e>> >>
  OBVIOUS
<1>4. QED
  BY <1>1, <1>2, <1>3 DEF AddToBins

\* Adding leaves bins.
LEMMA BinsTyped ==
  ASSUME NEW bs \in Seq(Seq(Entries)), bs # <<>>, NEW e \in Entries, NEW bw
  PROVE  AddToBins(bw, bs, e) \in Seq(Seq(Entries)) /\ AddToBins(bw, bs, e) # <<>>
<1>1. Last(bs) \in Seq(Entries) /\ Front(bs) \in Seq(Seq(Entries))
  BY DEF Last, Front
<1>2. Append(Last(bs), e) \in Seq(Entries) /\ <<e>> \in Seq(Entries)
  BY <1>1
<1> DEFINE one == <<e>>
           longer == Append(Last(bs), e)
<1>3. \/ AddToBins(bw, bs, e) = Append(bs, one)
      \/ AddToBins(bw, bs, e) = Append(Front(bs), longer)
  BY DEF AddToBins
<1>4. one \in Seq(Entries) /\ longer \in Seq(Entries)
  BY <1>2
<1> HIDE DEF one, longer
<1>5. \A s \in Seq(Seq(Entries)), x \in Seq(Entries) :
        Append(s, x) \in Seq(Seq(Entries)) /\ Append(s, x) # <<>>
  <2> TAKE s \in Seq(Seq(Entries)), x \in Seq(Entries)
  <2>1. Append(s, x) \in Seq(Seq(Entries)) /\ Len(Append(s, x)) = Len(s) + 1 /\ Len(s) \in Nat
    OBVIOUS
  <2>2. ASSUME Append(s, x) = <<>> PROVE FALSE
    <3>1. Len(Append(s, x)) = 0
      BY <2>2
    <3>2. QED
      BY <2>1, <3>1
  <2>3. QED
    BY <2>1, <2>2
<1>6. QED
  BY <1>1, <1>3, <1>4, <1>5

\* The bins of a list.
LEMMA BinnedFits ==
  ASSUME NEW list \in Seq(Systems), NEW bw \in Nat
  PROVE  \/ Binned(list, bw) = << <<>> >>
         \/ /\ \E top \in Nat : BinsFit(Binned(list, bw), bw, top)
            /\ InBins(Binned(list, bw)) = InSystems(list)
<1> DEFINE arr == MergeSort(AllEntries(list))
           N == Len(arr)
           V == {bs \in Seq(Seq(Entries)) : bs # <<>>}
           turn == [p \in (1..N) \X V |-> AddToBins(bw, p[2], arr[p[1]])]
           fill == CHOOSE f : f = [n \in 0..N |->
                     IF n = 0 THEN << <<>> >> ELSE AddToBins(bw, f[n - 1], arr[n])]
<1>1. Binned(list, bw) = fill[N]
  BY DEF Binned
<1>2. arr \in Seq(Entries) /\ Ascending(arr) /\ ToSet(arr) = InSystems(list)
  BY AllEntriesSet, SortAscends
<1> HIDE DEF arr
<1>3. N \in Nat /\ \A n \in 1..N : arr[n] \in Entries
  BY <1>2
<1>4. PICK f \in [0..N -> V] : f[0] = << <<>> >> /\ \A n \in 1..N : f[n] = turn[<<n, f[n - 1]>>]
  <2>1. << <<>> >> \in V
    OBVIOUS
  <2>2. ASSUME NEW n \in 1..N, NEW bs \in V PROVE AddToBins(bw, bs, arr[n]) \in V
    BY <1>3, BinsTyped
  <2>3. turn \in [(1..N) \X V -> V]
    <3> HIDE DEF V, N
    <3>1. QED
      BY <2>2
  <2> HIDE DEF V, N, turn
  <2>4. Loop(N, V, << <<>> >>, turn)
    BY <1>3, <2>1, <2>3 DEF Loop
  <2>5. QED
    BY <2>4, LoopRuns
<1>5. ASSUME NEW n \in 1..N PROVE f[n] = AddToBins(bw, f[n - 1], arr[n])
  <2> HIDE DEF V, N
  <2>1. n - 1 \in 0..N
    BY <1>3
  <2>2. f[n - 1] \in V
    BY <2>1
  <2>3. QED
    BY <1>4, <2>2
<1>6. f = [n \in 0..N |-> IF n = 0 THEN << <<>> >> ELSE AddToBins(bw, f[n - 1], arr[n])]
  <2> HIDE DEF V, N, turn
  <2>1. ASSUME NEW n \in 0..N, n # 0 PROVE n \in 1..N
    BY <1>3, <2>1
  <2>2. QED
    BY <1>4, <1>5, <2>1
<1>7. fill = [n \in 0..N |-> IF n = 0 THEN << <<>> >> ELSE AddToBins(bw, fill[n - 1], arr[n])]
  <2> HIDE DEF N
  <2>1. QED
    BY <1>6
<1> HIDE DEF fill, N
<1>8. fill[0] = << <<>> >> /\ \A n \in 1..N : fill[n] = AddToBins(bw, fill[n - 1], arr[n])
  <2>1. 0 \in 0..N /\ \A n \in 1..N : n \in 0..N /\ n # 0
    BY <1>3
  <2>2. QED
    BY <1>7, <2>1
<1> DEFINE S == {n \in 0..N : n = 0 \/ /\ BinsFit(fill[n], bw, arr[n].freq)
                                       /\ InBins(fill[n]) = {arr[k] : k \in 1..n}}
<1>9. 0 \in S
  BY <1>3
<1>10. ASSUME NEW n \in 1..N, n - 1 \in S PROVE n \in S
  <2> DEFINE e == arr[n]
  <2>1. e \in Entries /\ e.freq \in Nat /\ n \in 0..N
    BY <1>3 DEF Entries
  <2>2. CASE n = 1
    <3>1. fill[n] = << <<e>> >>
      <4>1. fill[n - 1] = << <<>> >>
        BY <1>8, <2>2
      <4>2. fill[n] = AddToBins(bw, fill[n - 1], e)
        BY <1>8
      <4>3. QED
        BY <2>1, <4>1, <4>2, FirstBin
    <3>2. BinFits(<<e>>, bw) /\ ToSet(<<e>>) = {e} /\ <<e>>[Len(<<e>>)] = e
      BY <2>1, NewBin
    <3>3. <<e>> \in Seq(Entries)
      BY <2>1
    <3> DEFINE bin == <<e>>
    <3> HIDE DEF bin
    <3>4. <<bin>> \in Seq(Seq(Entries)) /\ <<bin>> # <<>> /\ Len(<<bin>>) = 1
          /\ <<bin>>[1] = bin /\ DOMAIN <<bin>> = {1}
      BY <3>3 DEF bin
    <3>5. fill[n] = <<bin>> /\ BinFits(bin, bw) /\ ToSet(bin) = {e} /\ bin[Len(bin)] = e
      BY <3>1, <3>2 DEF bin
    <3>6. BinsFit(<<bin>>, bw, e.freq)
      BY <2>1, <3>4, <3>5 DEF BinsFit
    <3>7. InBins(<<bin>>) = {e}
      BY <3>4, <3>5 DEF InBins
    <3>8. {arr[k] : k \in 1..n} = {e}
      BY <2>2
    <3>9. QED
      BY <2>1, <3>5, <3>6, <3>7, <3>8
  <2>3. CASE n # 1
    <3>1. n - 1 \in 1..N /\ n - 1 # 0
      BY <1>3, <2>3
    <3>2. /\ BinsFit(fill[n - 1], bw, arr[n - 1].freq)
          /\ InBins(fill[n - 1]) = {arr[k] : k \in 1..(n - 1)}
      BY <1>10, <3>1
    <3>3. arr[n - 1].freq \in Nat /\ arr[n - 1].freq <= e.freq
      <4>1. arr[n - 1] \in Entries /\ n - 1 <= n
        BY <1>3, <3>1
      <4>2. QED
        BY <1>2, <3>1, <4>1 DEF Ascending, Entries, N
    <3>4. fill[n] = AddToBins(bw, fill[n - 1], e)
      BY <1>8
    <3> HIDE DEF e
    <3>5. /\ BinsFit(fill[n], bw, e.freq)
          /\ InBins(fill[n]) = InBins(fill[n - 1]) \cup {e}
      BY <2>1, <3>2, <3>3, <3>4, BinsGrow
    <3>6. {arr[k] : k \in 1..n} = {arr[k] : k \in 1..(n - 1)} \cup {e}
      <4>1. 1..n = (1..(n - 1)) \cup {n}
        BY <1>3
      <4>2. QED
        BY <4>1 DEF e
    <3>7. QED
      BY <2>1, <3>2, <3>5, <3>6 DEF e
  <2>4. QED
    BY <2>2, <2>3
<1> HIDE DEF S
<1>11. 0..N \subseteq S
  BY <1>3, <1>9, <1>10, LoopInduction
<1>12. N \in S
  BY <1>3, <1>11
<1>13. CASE N = 0
  BY <1>1, <1>8, <1>13
<1>14. CASE N # 0
  <2>1. N \in 1..N
    BY <1>3, <1>14
  <2>2. arr[N].freq \in Nat
    BY <1>3, <2>1 DEF Entries
  <2>3. BinsFit(fill[N], bw, arr[N].freq) /\ InBins(fill[N]) = {arr[k] : k \in 1..N}
    BY <1>12, <1>14 DEF S
  <2>4. ToSet(arr) = {arr[k] : k \in 1..N}
    BY <1>2 DEF ToSet, N
  <2>5. QED
    BY <1>1, <1>2, <2>2, <2>3, <2>4
<1>15. QED
  BY <1>13, <1>14

\* The bins of the program are the bins of its systems, once it has sorted them.
BinsInv ==
  /\ systems \in Seq(Systems)
  /\ pc \in {"start", "populated"} => bins = <<>>
  /\ Sorted => /\ \E top \in Nat : BinsFit(bins, bandwidth, top)
               /\ InBins(bins) = InSystems(systems)

\* Bins are made by sortBins alone, and forgotten at the next start.
LEMMA BinsStep ==
  ASSUME SystemsInv, BinsInv, [ListNext]_listVars, SystemsInv'
  PROVE  BinsInv'
<1>1. systems' \in Seq(Systems)
  BY DEF SystemsInv, Loaded
<1>2. CASE PopulateFromFile
  <2>1. bins' = <<>>
    BY <1>2 DEF PopulateFromFile, BinsInv
  <2>2. QED
    BY <1>1, <2>1 DEF BinsInv, Sorted
<1>3. CASE SortBins
  <2>1. /\ bandwidth' \in Nat /\ systems' = systems /\ pc' \in {"crashed", "ready"}
        /\ pc = "populated" /\ systems \in Seq(Systems)
    BY <1>3, ListAssumption DEF SortBins, BinsInv
  <2>2. CASE systems = <<>>
    <3>1. bins' = <<>>
      BY <1>3, <2>1, <2>2 DEF SortBins, BinsInv
    <3>2. QED
      BY <1>1, <2>1, <3>1 DEF BinsInv, Sorted
  <2>3. CASE systems # <<>>
    <3>1. bins' = Binned(systems, bandwidth') /\ (<<>> \in ToSet(bins') => pc' = "crashed")
      BY <1>3, <2>3 DEF SortBins
    <3>2. \/ bins' = << <<>> >>
          \/ /\ \E top \in Nat : BinsFit(bins', bandwidth', top)
             /\ InBins(bins') = InSystems(systems)
      BY <2>1, <3>1, BinnedFits
    <3>3. bins' = << <<>> >> => <<>> \in ToSet(bins')
      BY DEF ToSet
    <3>4. Sorted' => /\ \E top \in Nat : BinsFit(bins', bandwidth', top)
                     /\ InBins(bins') = InSystems(systems)
      BY <3>1, <3>2, <3>3 DEF Sorted
    <3>5. QED
      BY <1>1, <2>1, <3>4 DEF BinsInv, BinsFit, InBins, InSystems
  <2>4. QED
    BY <2>2, <2>3
<1>4. CASE Restart
  <2>1. bins' = <<>>
    BY <1>4 DEF Restart
  <2>2. QED
    BY <1>1, <2>1 DEF BinsInv, Sorted
<1>5. CASE GetNextEntry \/ SearchStep \/ WriteBegin \/ WriteToFile \/ UNCHANGED listVars
           \/ \E s, i \in 1..MaxIndex : GetEntryByIndex(s, i)
  <2>1. /\ bins' = bins /\ systems' = systems /\ bandwidth' = bandwidth
        /\ pc' \in {"start", "populated"} => pc \in {"start", "populated"}
        /\ pc = "crashed" => pc' = "crashed"
    BY <1>5 DEF GetNextEntry, SearchStep, SearchRetune, SearchHangs, SearchChannel, Takes,
       WriteBegin, WriteToFile, GetEntryByIndex, listVars, loaded
  <2>2. Sorted' => Sorted
    BY <2>1 DEF Sorted
  <2>3. QED
    BY <1>1, <2>1, <2>2 DEF BinsInv, BinsFit, InBins, InSystems
<1>6. QED
  BY <1>2, <1>3, <1>4, <1>5 DEF ListNext

\* Every bin that the scan stays in fits the tuner, for every database and every
\* bandwidth, whatever the order of the channels in the file: merge sort puts
\* them in order without losing one, and the loop after it cuts where the next
\* channel is out of reach.
THEOREM EveryBinFitsTuner == ListSpec => []BinsFitTuner
<1>1. BinsInv => BinsFitTuner
  <2> SUFFICES ASSUME BinsInv, Sorted PROVE BinsFitTuner
    BY DEF BinsFitTuner
  <2>1. PICK top \in Nat : BinsFit(bins, bandwidth, top)
    BY DEF BinsInv
  <2>2. bins \in Seq(Seq(Entries)) /\ DOMAIN bins = 1..Len(bins)
    BY <2>1 DEF BinsFit
  <2>3. ASSUME NEW b \in DOMAIN bins, NEW e \in ToSet(bins[b])
        PROVE  /\ bins[b][1].freq <= e.freq /\ e.freq <= bins[b][Len(bins[b])].freq
               /\ e = bins[b][1] \/ e.freq < bins[b][1].freq + bandwidth
    <3>1. BinFits(bins[b], bandwidth)
      BY <2>1, <2>2 DEF BinsFit
    <3>2. PICK i \in 1..Len(bins[b]) : e = bins[b][i]
      BY <3>1 DEF ToSet, BinFits
    <3>3. QED
      BY <3>1, <3>2 DEF BinFits
  <2>4. \A b \in 2..Len(bins) : bins[b][1].freq >= bins[b - 1][1].freq + bandwidth
    BY <2>1 DEF BinsFit
  <2>5. InBins(bins) = InSystems(systems)
    BY DEF BinsInv
  <2>6. QED
    BY <2>3, <2>4, <2>5 DEF BinsFitTuner
<1>2. ListInit => BinsInv
  BY DEF ListInit, BinsInv, Sorted
<1>3. SystemsInv /\ BinsInv /\ [ListNext]_listVars => (SystemsInv /\ BinsInv)'
  BY SystemsStep, BinsStep
<1>4. QED
  BY <1>1, <1>2, <1>3, SystemsInit, PTL DEF ListSpec

-----------------------------------------------------------------------------
(* Client: requests on their way to the server.                            *)

Messages == [type : 0..4, which : 0..4, a : Int, b : Int]
Settings == [squelch : Int, gain : Int]
SliderRanges == [min : Int, max : Int]

ClientTyped ==
  /\ slider \in Settings /\ settings \in Settings /\ buffer \in Messages
  /\ range \in SliderRanges /\ scale \in SliderRanges
  /\ gui \in Seq(Messages) /\ events \in Seq(Messages) /\ up \in Seq(Messages)
  /\ down \in Seq(Messages) /\ pending \in Seq(Messages) /\ reply \in Seq(Messages)
  /\ outbox \in Seq(Messages)

IsGeneral(m) == m.type = General /\ m.which = General

\* What is on its way to the server: the requests for contexts first, and then
\* scanner requests that were asked for and changes of settings.
InOrder(ms) ==
  /\ \A i \in DOMAIN ms : /\ ms[i].which = ms[i].type
                          /\ ms[i].type = Scanner => ms[i].a \in asked
  /\ \A i, j \in DOMAIN ms :
       i <= j /\ ms[j].type = General => ms[i].type = General

RequestsInv ==
  /\ ClientTyped /\ InOrder(up)
  /\ \A i \in DOMAIN gui : IsGeneral(gui[i])
  /\ gui # <<>> => \A i \in DOMAIN up : up[i].type = General
  /\ ScanRequestsAreAsked

\* A set of positions that is not empty has a last one.
LEMMA LastPosition ==
  ASSUME NEW n \in Nat, NEW S \in SUBSET (1..n), S # {}
  PROVE  Max(S) \in S /\ \A i \in S : i <= Max(S)
<1> DEFINE T == {n - i : i \in S}
<1>1. PICK x \in T : \A y \in T : ~(<<y, x>> \in OpToRel(<, Nat))
  <2>1. T \subseteq Nat /\ T # {}
    <3>1. \A i \in S : n - i \in Nat
      OBVIOUS
    <3>2. \E i : i \in S
      OBVIOUS
    <3>3. QED
      BY <3>1, <3>2
  <2> HIDE DEF T
  <2>2. QED
    BY <2>1, NatLessThanWellFounded, WFMin
<1>2. PICK m \in S : x = n - m
  OBVIOUS
<1>3. \A i \in S : m >= i
  <2> TAKE i \in S
  <2>1. n - i \in T /\ n - i \in Nat /\ n - m \in Nat
    OBVIOUS
  <2>2. ~(<<n - i, n - m>> \in OpToRel(<, Nat))
    BY <1>1, <1>2, <2>1
  <2>3. (n - i < n - m) => <<n - i, n - m>> \in OpToRel(<, Nat)
    BY <2>1 DEF OpToRel
  <2>4. ~(n - i < n - m)
    BY <2>2, <2>3
  <2>5. i \in Int /\ m \in Int
    OBVIOUS
  <2> HIDE DEF T
  <2>6. QED
    BY <2>4, <2>5
<1>4. QED
  BY <1>3 DEF Max

\* A field is read as zero, which every message then had, or as in one of them.
LEMMA LastSetFacts ==
  ASSUME NEW ms \in Seq(Messages), NEW S \in SUBSET DOMAIN ms, NEW field \in {"type", "a", "b"}
  PROVE  LET v == LastSet(ms, S, field)
         IN  \/ v = 0 /\ \A i \in S : ms[i][field] = 0
             \/ \E i \in S : /\ v = ms[i][field] /\ v # 0
                             /\ \A j \in S : j > i => ms[j][field] = 0
<1> DEFINE set == {i \in S : ms[i][field] # 0}
<1>1. CASE set = {}
  BY <1>1 DEF LastSet
<1>2. CASE set # {}
  <2>1. Max(set) \in set /\ \A i \in set : i <= Max(set)
    <3>1. set \in SUBSET (1..Len(ms)) /\ Len(ms) \in Nat
      OBVIOUS
    <3> HIDE DEF set
    <3>2. QED
      BY <3>1, <1>2, LastPosition
  <2>2. LastSet(ms, S, field) = ms[Max(set)][field]
    BY <1>2 DEF LastSet
  <2>3. \A j \in S : j > Max(set) => ms[j][field] = 0
    <3>1. \A j \in S : j \in Int
      OBVIOUS
    <3>2. ASSUME NEW j \in S, j > Max(set) PROVE j \notin set
      <4>1. j \in set => j <= Max(set)
        BY <2>1
      <4>2. QED
        BY <2>1, <3>1, <3>2, <4>1
    <3>3. QED
      BY <3>2
  <2>4. QED
    BY <2>1, <2>2, <2>3
<1>3. QED
  BY <1>1, <1>2

\* What is parsed from messages is one.
LEMMA ParseTyped ==
  ASSUME NEW ms \in Seq(Messages), ms # <<>> PROVE Parse(ms) \in Messages
<1>1. DOMAIN ms = 1..Len(ms) /\ Len(ms) \in DOMAIN ms
  OBVIOUS
<1>2. \A i \in DOMAIN ms : ms[i] \in Messages
  BY <1>1
<1>3. \A S \in SUBSET DOMAIN ms :
        /\ LastSet(ms, S, "type") \in 0..4
        /\ LastSet(ms, S, "a") \in Int /\ LastSet(ms, S, "b") \in Int
  <2> TAKE S \in SUBSET DOMAIN ms
  <2>1. LastSet(ms, S, "type") \in 0..4
    <3>1. \A i \in S : ms[i]["type"] \in 0..4
      BY <1>2 DEF Messages
    <3>2. QED
      BY LastSetFacts, <3>1
  <2>2. LastSet(ms, S, "a") \in Int
    BY LastSetFacts, <1>2 DEF Messages
  <2>3. LastSet(ms, S, "b") \in Int
    BY LastSetFacts, <1>2 DEF Messages
  <2>4. QED
    BY <2>1, <2>2, <2>3
<1>4. SameMember(ms) \in SUBSET DOMAIN ms
  BY DEF SameMember
<1>5. Last(ms).which \in 0..4
  BY <1>1, <1>2 DEF Last, Messages
<1>6. QED
  BY <1>3, <1>4, <1>5 DEF Parse, Messages

\* A read that is taken for a scanner request ends in one, and is one of those
\* it merges.
LEMMA ParsedRequest ==
  ASSUME NEW ms \in Seq(Messages), ms # <<>>, InOrder(ms), Parse(ms).type = Scanner
  PROVE  Parse(ms).which = Scanner /\ Parse(ms).a \in asked
<1>1. DOMAIN ms = 1..Len(ms) /\ Len(ms) \in DOMAIN ms
  OBVIOUS
<1> DEFINE n == Len(ms)
<1>2. LastSet(ms, DOMAIN ms, "type") = 1
  BY DEF Parse, Scanner
<1>3. PICK k \in DOMAIN ms : ms[k].type = 1 /\ \A j \in DOMAIN ms : j > k => ms[j].type = 0
  BY <1>2, LastSetFacts
<1>4. k = n
  BY <1>1, <1>3 DEF InOrder, General
<1>5. ms[n].which = 1 /\ Parse(ms).which = 1
  BY <1>1, <1>3, <1>4 DEF InOrder, Parse, Last
<1>6. \A i \in SameMember(ms) : i \in DOMAIN ms /\ ms[i].type = 1 /\ ms[i].a \in asked
  BY <1>1, <1>5 DEF SameMember, InOrder, Last, Scanner
<1>7. n \in SameMember(ms)
  BY <1>1, <1>5 DEF SameMember, Last
<1>8. Parse(ms).a = LastSet(ms, SameMember(ms), "a")
  BY DEF Parse
<1>9. \/ LastSet(ms, SameMember(ms), "a") = ms[n].a
      \/ \E i \in SameMember(ms) : LastSet(ms, SameMember(ms), "a") = ms[i].a
  <2>1. SameMember(ms) \in SUBSET DOMAIN ms
    BY DEF SameMember
  <2>2. QED
    BY <2>1, <1>7, LastSetFacts
<1>10. QED
  BY <1>5, <1>6, <1>7, <1>8, <1>9 DEF Scanner

\* sendData appends, or finds the socket closed.
LEMMA SendDataFacts ==
  ASSUME up \in Seq(Messages), NEW m \in Messages, SendData(m)
  PROVE  \/ up' = up
         \/ up' = Append(up, m)
  BY DEF SendData

\* The order is kept by a request at its end, or by a request for a context when
\* there are only such.
LEMMA AppendedInOrder ==
  ASSUME up \in Seq(Messages), InOrder(up), NEW m \in Messages, m.which = m.type,
         up' = up \/ up' = Append(up, m),
         asked \subseteq asked',
         m.type = Scanner => m.a \in asked',
         m.type = General => \A i \in DOMAIN up : up[i].type = General
  PROVE  InOrder(up)' /\ up' \in Seq(Messages)
<1>1. CASE up' = up
  BY <1>1 DEF InOrder
<1>2. CASE up' = Append(up, m)
  <2>1. /\ up' \in Seq(Messages) /\ DOMAIN up' = 1..(Len(up) + 1) /\ DOMAIN up = 1..Len(up)
        /\ up'[Len(up) + 1] = m /\ \A i \in DOMAIN up : up'[i] = up[i]
        /\ Len(up) \in Nat
    BY <1>2
  <2>2. \A i \in DOMAIN up' : i \in DOMAIN up \/ i = Len(up) + 1
    BY <2>1
  <2>3. \A i \in DOMAIN up' : /\ up'[i].which = up'[i].type
                              /\ up'[i].type = Scanner => up'[i].a \in asked'
    BY <2>1, <2>2 DEF InOrder
  <2>4. ASSUME NEW i \in DOMAIN up', NEW j \in DOMAIN up', i <= j, up'[j].type = General
        PROVE  up'[i].type = General
    <3>1. CASE j \in DOMAIN up
      <4>1. i \in DOMAIN up
        BY <2>1, <2>4, <3>1
      <4>2. QED
        BY <2>1, <2>4, <3>1, <4>1 DEF InOrder
    <3>2. CASE j = Len(up) + 1
      BY <2>1, <2>2, <2>4, <3>2
    <3>3. QED
      BY <2>2, <3>1, <3>2
  <2>5. QED
    BY <2>1, <2>3, <2>4 DEF InOrder
<1>3. QED
  BY <1>1, <1>2

\* What a read takes, and what it leaves.
LEMMA ReadFacts ==
  ASSUME NEW ms \in Seq(Messages), NEW n \in 1..Len(ms)
  PROVE  /\ SubSeq(ms, 1, n) \in Seq(Messages) /\ SubSeq(ms, 1, n) # <<>>
         /\ SubSeq(ms, n + 1, Len(ms)) \in Seq(Messages)
         /\ DOMAIN SubSeq(ms, 1, n) = 1..n
         /\ \A i \in 1..n : SubSeq(ms, 1, n)[i] = ms[i]
         /\ DOMAIN SubSeq(ms, n + 1, Len(ms)) = 1..(Len(ms) - n)
         /\ \A i \in 1..(Len(ms) - n) : SubSeq(ms, n + 1, Len(ms))[i] = ms[n + i]
<1>1. Len(ms) \in Nat
  OBVIOUS
<1>2. SubSeq(ms, 1, n) \in Seq(Messages) /\ Len(SubSeq(ms, 1, n)) = n
      /\ \A i \in 1..n : SubSeq(ms, 1, n)[i] = ms[i]
  OBVIOUS
<1>3. /\ SubSeq(ms, n + 1, Len(ms)) \in Seq(Messages)
      /\ Len(SubSeq(ms, n + 1, Len(ms))) = Len(ms) - n
      /\ \A i \in 1..(Len(ms) - n) : SubSeq(ms, n + 1, Len(ms))[i] = ms[n + i]
  OBVIOUS
<1>4. QED
  BY <1>1, <1>2, <1>3

\* Both are in order.
LEMMA ReadInOrder ==
  ASSUME NEW ms \in Seq(Messages), NEW n \in 1..Len(ms), InOrder(ms)
  PROVE  InOrder(SubSeq(ms, 1, n)) /\ InOrder(SubSeq(ms, n + 1, Len(ms)))
<1>1. DOMAIN ms = 1..Len(ms) /\ Len(ms) \in Nat
  OBVIOUS
<1>2. InOrder(SubSeq(ms, 1, n))
  <2>1. \A i \in 1..n : i \in DOMAIN ms
    BY <1>1
  <2>2. QED
    BY <2>1, ReadFacts DEF InOrder
<1>3. InOrder(SubSeq(ms, n + 1, Len(ms)))
  <2>1. \A i \in 1..(Len(ms) - n) : n + i \in DOMAIN ms
    BY <1>1
  <2>2. \A i, j \in 1..(Len(ms) - n) : i <= j => n + i <= n + j
    BY <1>1
  <2>3. QED
    BY <2>1, <2>2, ReadFacts DEF InOrder
<1>4. QED
  BY <1>2, <1>3

\* What the two sides build are messages.
LEMMA MessageTyped ==
  /\ \A type \in 0..4, a, b \in Int : Message(type, a, b) \in Messages
  /\ \A s \in Settings : Context(s) \in Messages
<1>1. \A type \in 0..4, a, b \in Int : Message(type, a, b) \in Messages
  BY DEF Message, Messages
<1>2. \A s \in Settings : Context(s) = Message(2, s.squelch, s.gain)
  BY DEF Context, DemodCtx
<1>3. QED
  BY <1>1, <1>2 DEF Settings

\* Where setValue puts a slider is a position.
LEMMA FitTyped ==
  ASSUME NEW v \in Int, NEW r \in SliderRanges PROVE Fit(v, r) \in Int
  BY DEF Fit, SliderRanges

\* The ranges that are written in the code.
LEMMA RangesTyped == {GainRange, DBM, PCT} \subseteq SliderRanges
  BY DEF GainRange, DBM, PCT, SliderRange, SliderRanges

\* A message that the client takes for a context of the settings.
Shows(m) == m.which # Info /\ m.type = DemodCtx

\* What a message does to the sliders: one that moves is sent to the server, at
\* once or by the timer, and a squelch that does not fit and moves nothing is noted.
LEMMA ReceivedFacts ==
  ASSUME RequestsInv, HandleReceived
  PROVE  /\ slider' \in Settings /\ range' \in SliderRanges
         /\ slider'.squelch # slider.squelch =>
              SendData(Message(Demod, SET_SQUELCH, slider'.squelch))
         /\ slider'.squelch = slider.squelch => up' = up
         /\ slider'.gain # slider.gain => gainTimer'
         /\ gainTimer => gainTimer'
         /\ slider'.squelch = slider.squelch /\ cut => cut'
         /\ Shows(Head(events)) =>
              /\ slider'.gain = Fit(Head(events).b, GainRange)
              /\ slider'.squelch = slider.squelch /\ Head(events).a # slider.squelch => cut'
<1> DEFINE e == Head(events)
<1>1. /\ slider \in Settings /\ range \in SliderRanges
      /\ slider.squelch \in Int /\ slider.gain \in Int
      /\ events \in Seq(Messages) /\ events # <<>>
  BY DEF HandleReceived, RequestsInv, ClientTyped, Settings
<1>2. e \in Messages
  BY <1>1
<1>3. /\ e.which = Info => SetSquelchRange(e.a, e.b)
      /\ Shows(e) => UpdateDemodContext(e.a, e.b)
      /\ e.which # Info /\ ~Shows(e) => UNCHANGED <<slider, range, gainTimer, cut, up>>
  BY DEF HandleReceived, Shows
<1> HIDE DEF e
<1>4. e.a \in Int /\ e.b \in Int
  BY <1>2 DEF Messages
<1>5. CASE e.which = Info
  <2>1. range' \in SliderRanges
    BY <1>3, <1>4, <1>5 DEF SetSquelchRange, SliderRange, SliderRanges
  <2> DEFINE v == Fit(slider.squelch, range')
  <2>2. v \in Int
    BY <1>1, <2>1, FitTyped
  <2>3. /\ slider' = [slider EXCEPT !.squelch = v] /\ SquelchSlides(v)
        /\ cut' = (cut /\ v = slider.squelch) /\ gainTimer' = gainTimer
    BY <1>3, <1>5 DEF SetSquelchRange
  <2> HIDE DEF v
  <2>4. slider' \in Settings /\ slider'.squelch = v /\ slider'.gain = slider.gain
    BY <1>1, <2>2, <2>3 DEF Settings
  <2>5. ~Shows(e)
    BY <1>5 DEF Shows
  <2>6. IF slider.squelch # v THEN SendData(Message(Demod, SET_SQUELCH, v)) ELSE up' = up
    BY <2>3 DEF SquelchSlides, Emits
  <2>7. QED
    BY <2>1, <2>3, <2>4, <2>5, <2>6 DEF e
<1>6. CASE Shows(e)
  <2> DEFINE v == Fit(e.a, range)
             w == Fit(e.b, GainRange)
  <2>1. v \in Int /\ w \in Int
    BY <1>1, <1>4, FitTyped, RangesTyped
  <2>2. /\ slider' = [squelch |-> v, gain |-> w] /\ SquelchSlides(v) /\ range' = range
        /\ gainTimer' = (gainTimer \/ slider.gain # w)
        /\ cut' = (v = slider.squelch /\ (cut \/ e.a # slider.squelch))
    BY <1>3, <1>6 DEF UpdateDemodContext, Emits
  <2>3. w = Fit(e.b, GainRange)
    OBVIOUS
  <2> HIDE DEF v, w
  <2>4. slider' \in Settings /\ slider'.squelch = v /\ slider'.gain = w
    BY <2>1, <2>2 DEF Settings
  <2>5. IF slider.squelch # v THEN SendData(Message(Demod, SET_SQUELCH, v)) ELSE up' = up
    BY <2>2 DEF SquelchSlides, Emits
  <2>6. QED
    BY <1>1, <2>2, <2>3, <2>4, <2>5 DEF e
<1>7. CASE e.which # Info /\ ~Shows(e)
  BY <1>1, <1>3, <1>7 DEF e
<1>8. QED
  BY <1>5, <1>6, <1>7

\* What leaves the requests alone.
LEMMA NoRequestMade ==
  ASSUME RequestsInv, ClientTyped', UNCHANGED <<up, gui, asked, ran>> PROVE RequestsInv'
  BY DEF RequestsInv, InOrder, ScanRequestsAreAsked

\* A request that the GUI sends when no session is being opened.
LEMMA RequestMade ==
  ASSUME RequestsInv, gui = <<>>, NEW m \in Messages, m.which = m.type, SendData(m),
         m.type # General, asked \subseteq asked', m.type = Scanner => m.a \in asked',
         UNCHANGED <<gui, ran>>, up' \in Seq(Messages) => ClientTyped'
  PROVE  RequestsInv'
<1>1. up' = up \/ up' = Append(up, m)
  BY SendDataFacts DEF RequestsInv, ClientTyped
<1>2. InOrder(up)' /\ up' \in Seq(Messages)
  BY <1>1, AppendedInOrder DEF RequestsInv, ClientTyped
<1>3. ScanRequestsAreAsked'
  BY DEF RequestsInv, ScanRequestsAreAsked
<1>4. QED
  BY <1>2, <1>3 DEF RequestsInv

\* The user's and the GUI thread's steps.
LEMMA GuiKeeps ==
  ASSUME RequestsInv, User \/ Gui PROVE RequestsInv'
<1> USE DEF clientVars, serverVars, bounds
<1>1. CASE Connect
  <2>1. ClientTyped'
    <3>1. \A k \in 0..2 : Message(General, k, 0) \in Messages
      BY MessageTyped DEF General
    <3>2. gui' \in Seq(Messages)
      BY <1>1, <3>1 DEF Connect
    <3>3. QED
      BY <1>1, <3>2 DEF Connect, RequestsInv, ClientTyped
  <2>2. InOrder(up)'
    BY <1>1 DEF Connect, InOrder
  <2>3. \A i \in DOMAIN gui' : IsGeneral(gui'[i])
    <3>1. \A k \in 0..2 : IsGeneral(Message(General, k, 0))
      BY DEF IsGeneral, Message
    <3>2. QED
      BY <1>1, <3>1 DEF Connect
  <2>4. (\A i \in DOMAIN up : up[i].type = General)'
    BY <1>1 DEF Connect
  <2>5. ScanRequestsAreAsked'
    BY <1>1 DEF Connect, ScanRequestsAreAsked
  <2>6. QED
    BY <2>1, <2>2, <2>3, <2>4, <2>5 DEF RequestsInv
<1>2. CASE RequestContext
  <2> DEFINE m == Head(gui)
  <2>1. m \in Messages /\ IsGeneral(m) /\ gui' = Tail(gui) /\ gui' \in Seq(Messages)
    BY <1>2 DEF RequestContext, RequestsInv, ClientTyped
  <2>2. /\ up' = up \/ up' = Append(up, m)
        /\ up \in Seq(Messages)
        /\ UNCHANGED <<asked, ran>>
    BY <1>2 DEF RequestContext, SendData, RequestsInv, ClientTyped
  <2>3. \A i \in DOMAIN up : up[i].type = General
    BY <1>2 DEF RequestContext, RequestsInv
  <2>4. InOrder(up)' /\ up' \in Seq(Messages)
    <3>1. m.which = m.type /\ m.type # Scanner
      BY <2>1 DEF IsGeneral, General, Scanner
    <3> HIDE DEF m
    <3>2. QED
      BY <2>1, <2>2, <2>3, <3>1, AppendedInOrder DEF RequestsInv
  <2>5. \A i \in DOMAIN up' : up'[i].type = General
    <3>1. m.type = General
      BY <2>1 DEF IsGeneral
    <3> HIDE DEF m
    <3>2. CASE up' = Append(up, m)
      BY <2>1, <2>2, <2>3, <3>1, <3>2
    <3>3. QED
      BY <2>2, <2>3, <3>2
  <2>6. \A i \in DOMAIN gui' : IsGeneral(gui'[i])
    <3>1. gui \in Seq(Messages) /\ gui # <<>> /\ \A i \in DOMAIN gui : IsGeneral(gui[i])
      BY <1>2 DEF RequestContext, RequestsInv, ClientTyped
    <3>2. \A i \in DOMAIN Tail(gui) : i + 1 \in DOMAIN gui /\ Tail(gui)[i] = gui[i + 1]
      BY <3>1
    <3>3. QED
      BY <2>1, <3>1, <3>2
  <2>7. ClientTyped'
    BY <1>2, <2>1, <2>4 DEF RequestContext, RequestsInv, ClientTyped
  <2>8. QED
    BY <2>2, <2>4, <2>5, <2>6, <2>7 DEF RequestsInv, ScanRequestsAreAsked
<1>3. ASSUME NEW r \in {SCAN, HOLD, MANUAL}, Press(r)
      PROVE  RequestsInv'
  <2>1. PICK m \in Messages : /\ m = Message(Scanner, r,
                                                    IF r = MANUAL THEN 1 ELSE 0)
                              /\ SendData(m)
    BY <1>3, MessageTyped
       DEF Press, Scanner, SCAN, HOLD, MANUAL
  <2>2. /\ m.which = m.type /\ m.type = Scanner /\ m.a = r
        /\ m.type # General
    BY <2>1 DEF Message, Scanner, General
  <2>3. gui = <<>> /\ UNCHANGED <<gui, ran>> /\ asked \subseteq asked' /\ r \in asked'
    BY <1>3 DEF Press, Idle
  <2>4. up' \in Seq(Messages) => ClientTyped'
    BY <1>3 DEF Press, RequestsInv, ClientTyped
  <2>5. QED
    BY <2>1, <2>2, <2>3, <2>4, RequestMade
<1>4. ASSUME NEW v \in Squelches, MoveSquelch(v) PROVE RequestsInv'
  <2>1. v \in Int
    BY ClientAssumption
  <2>2. PICK m \in Messages : /\ m = Message(Demod, SET_SQUELCH, v)
                              /\ SendData(m)
    <3>1. Message(Demod, SET_SQUELCH, v) \in Messages
      BY <2>1, MessageTyped DEF Demod, SET_SQUELCH
    <3>2. SendData(Message(Demod, SET_SQUELCH, v))
      BY <1>4 DEF MoveSquelch
    <3>3. QED
      BY <3>1, <3>2
  <2>3. m.which = m.type /\ m.type # Scanner /\ m.type # General
    BY <2>2 DEF Message, Demod, Scanner, General
  <2>4. gui = <<>> /\ UNCHANGED <<gui, ran, asked>>
    BY <1>4 DEF MoveSquelch, Idle
  <2>5. up' \in Seq(Messages) => ClientTyped'
    BY <1>4, <2>1 DEF MoveSquelch, RequestsInv, ClientTyped, Settings
  <2>6. QED
    BY <2>2, <2>3, <2>4, <2>5, RequestMade
<1>5. ASSUME NEW v \in Gains, MoveGain(v) PROVE RequestsInv'
  <2>1. v \in Int
    BY ClientAssumption
  <2>2. ClientTyped'
    BY <1>5, <2>1 DEF MoveGain, RequestsInv, ClientTyped, Settings
  <2>3. QED
    BY <1>5, <2>2, NoRequestMade DEF MoveGain
<1>6. CASE SetGain
  <2>1. slider.gain \in Int
    BY DEF RequestsInv, ClientTyped, Settings
  <2>2. PICK m \in Messages : /\ m = Message(Demod, SET_GAIN, slider.gain)
                              /\ SendData(m)
    <3>1. Message(Demod, SET_GAIN, slider.gain) \in Messages
      BY <2>1, MessageTyped DEF Demod, SET_GAIN
    <3>2. SendData(Message(Demod, SET_GAIN, slider.gain))
      BY <1>6 DEF SetGain
    <3>3. QED
      BY <3>1, <3>2
  <2>3. m.which = m.type /\ m.type # Scanner /\ m.type # General
    BY <2>2 DEF Message, Demod, Scanner, General
  <2>4. gui = <<>> /\ UNCHANGED <<gui, ran, asked>>
    BY <1>6 DEF SetGain, Idle
  <2>5. up' \in Seq(Messages) => ClientTyped'
    BY <1>6 DEF SetGain, RequestsInv, ClientTyped
  <2>6. QED
    BY <2>2, <2>3, <2>4, <2>5, RequestMade
<1>7. CASE HandleReceived
  <2> DEFINE e == Head(events)
  <2>1. e \in Messages /\ e.a \in Int /\ e.b \in Int /\ events' \in Seq(Messages)
    <3>1. events \in Seq(Messages) /\ events # <<>> /\ events' = Tail(events)
      BY <1>7 DEF HandleReceived, RequestsInv, ClientTyped
    <3>2. e \in Messages /\ events' \in Seq(Messages)
      BY <3>1
    <3>3. QED
      BY <3>2 DEF Messages
  <2>2. gui = <<>> /\ UNCHANGED <<gui, ran, asked>>
    BY <1>7 DEF HandleReceived, Idle
  <2>3. slider' \in Settings /\ range' \in SliderRanges
    BY <1>7, ReceivedFacts
  <2>4. up' \in Seq(Messages) => ClientTyped'
    BY <1>7, <2>1, <2>3 DEF HandleReceived, RequestsInv, ClientTyped
  <2>5. CASE up' = up
    BY <2>2, <2>4, <2>5, NoRequestMade DEF RequestsInv, ClientTyped
  <2>6. CASE SendData(Message(Demod, SET_SQUELCH, slider'.squelch))
    <3>1. slider'.squelch \in Int
      BY <2>3 DEF Settings
    <3>2. PICK m \in Messages : /\ m = Message(Demod, SET_SQUELCH, slider'.squelch)
                                /\ SendData(m)
      BY <3>1, <2>6, MessageTyped DEF Demod, SET_SQUELCH
    <3>3. m.which = m.type /\ m.type # Scanner /\ m.type # General
      BY <3>2 DEF Message, Demod, Scanner, General
    <3>4. QED
      BY <2>2, <2>4, <3>2, <3>3, RequestMade
  <2>7. QED
    BY <1>7, <2>5, <2>6, ReceivedFacts
<1>8. CASE Disconnect
  BY <1>8, NoRequestMade DEF Disconnect, RequestsInv, ClientTyped
<1>9. QED
  BY <1>1, <1>2, <1>3, <1>4, <1>5, <1>6, <1>7, <1>8 DEF User, Gui

\* A context or a level is put into the write buffer.
LEMMA WriteTyped ==
  ASSUME ClientTyped, NEW m \in Messages, Write(m)
  PROVE  buffer' \in Messages /\ pending' \in Seq(Messages)
  BY DEF ClientTyped, Write

\* A setting is stored and published.
LEMMA SetTyped ==
  ASSUME ClientTyped, NEW which \in {"squelch", "gain"}, NEW v \in Int, Set(which, v)
  PROVE  settings' \in Settings /\ outbox' \in Seq(Messages)
<1>1. settings' \in Settings
  <2> DEFINE w == IF which = "gain" /\ v < 0 THEN AUTO_GAIN ELSE v
  <2>1. w \in Int /\ settings' = [settings EXCEPT ![which] = w]
    BY DEF Set, AUTO_GAIN
  <2> HIDE DEF w
  <2>2. settings \in Settings
    BY DEF ClientTyped
  <2>3. CASE which = "squelch"
    BY <2>1, <2>2, <2>3 DEF Settings
  <2>4. CASE which = "gain"
    BY <2>1, <2>2, <2>4 DEF Settings
  <2>5. QED
    BY <2>3, <2>4
<1>2. QED
  BY <1>1, MessageTyped DEF ClientTyped, Set

\* The client's receiving thread.
LEMMA MonitorKeeps == ASSUME RequestsInv, Monitor PROVE RequestsInv'
<1>1. ASSUME NEW n \in 1..Len(down), Receive(n) PROVE RequestsInv'
  <2>1. down \in Seq(Messages) /\ events \in Seq(Messages)
    BY DEF RequestsInv, ClientTyped
  <2>2. /\ Parse(SubSeq(down, 1, n)) \in Messages
        /\ SubSeq(down, n + 1, Len(down)) \in Seq(Messages)
    BY <2>1, ReadFacts, ParseTyped
  <2>3. events' \in Seq(Messages) /\ down' \in Seq(Messages)
    BY <1>1, <2>1, <2>2 DEF Receive
  <2>4. ClientTyped'
    BY <1>1, <2>3 DEF Receive, serverVars, RequestsInv, ClientTyped
  <2>5. QED
    BY <1>1, <2>4, NoRequestMade DEF Receive
<1>2. CASE ReceiveEnds
  BY <1>2, NoRequestMade DEF ReceiveEnds, serverVars, RequestsInv, ClientTyped
<1>3. QED
  BY <1>1, <1>2 DEF Monitor

\* _handleRead: what it executes was asked for.
LEMMA HandleReadKeeps ==
  ASSUME RequestsInv, NEW n \in 1..Len(up), HandleRead(n) PROVE RequestsInv'
<1> DEFINE ms == SubSeq(up, 1, n)
           rest == SubSeq(up, n + 1, Len(up))
           m == Parse(ms)
<1>1. up \in Seq(Messages) /\ InOrder(up)
  BY DEF RequestsInv, ClientTyped
<1>2. /\ ms \in Seq(Messages) /\ ms # <<>> /\ InOrder(ms)
      /\ rest \in Seq(Messages) /\ InOrder(rest)
      /\ m \in Messages
  BY <1>1, ReadFacts, ReadInOrder, ParseTyped
<1>3. Field(m, m.a) \in Int /\ Field(m, m.b) \in Int
  <2> HIDE DEF m
  <2>1. QED
    BY <1>2 DEF Field, Messages
<1>4. ClientTyped'
  <2>1. reply' \in Seq(Messages)
    <3>1. /\ Message(ScannerCtx, 0, 0) \in Messages
          /\ Context(settings) \in Messages
          /\ SystemInfo \in Messages
      BY MessageTyped DEF ScannerCtx, Info, SystemInfo, SliderRanges, RequestsInv, ClientTyped
    <3>2. \/ reply' = <<>> \/ reply' = <<Message(ScannerCtx, 0, 0)>>
          \/ reply' = <<Context(settings)>>
          \/ reply' = <<SystemInfo>>
      BY DEF HandleRead
    <3>3. \A x \in Messages : <<x>> \in Seq(Messages)
      OBVIOUS
    <3>4. <<>> \in Seq(Messages)
      OBVIOUS
    <3> HIDE DEF m, ms, rest
    <3>5. QED
      BY <3>1, <3>2, <3>3, <3>4
  <2>2. settings' \in Settings /\ outbox' \in Seq(Messages)
    <3>1. CASE m.type = Demod
      <4>1. Set(IF Field(m, m.a) = SET_GAIN THEN "gain" ELSE "squelch",
                       Field(m, m.b))
        BY <3>1 DEF HandleRead
      <4> HIDE DEF m
      <4>2. PICK which \in {"squelch", "gain"} : Set(which, Field(m, m.b))
        BY <4>1
      <4>3. QED
        BY <1>3, <4>2, SetTyped DEF RequestsInv
    <3>2. CASE m.type # Demod
      BY <3>2 DEF HandleRead, RequestsInv, ClientTyped
    <3>3. QED
      BY <3>1, <3>2
  <2>3. up' = rest
    BY DEF HandleRead
  <2>4. QED
    BY <1>2, <2>1, <2>2, <2>3 DEF HandleRead, clientVars, RequestsInv, ClientTyped
<1>5. InOrder(up)'
  <2>1. up' = rest /\ asked' = asked
    BY DEF HandleRead
  <2>2. QED
    BY <1>2, <2>1 DEF InOrder
<1>6. gui' = gui /\ (gui # <<>> => \A i \in DOMAIN up' : up'[i].type = General)
  <2>1. gui' = gui /\ up' = rest
    BY DEF HandleRead, clientVars
  <2>2. \A i \in 1..(Len(up) - n) : n + i \in DOMAIN up
    BY <1>1
  <2>3. QED
    BY <1>1, <2>1, <2>2, ReadFacts DEF RequestsInv
<1>7. ScanRequestsAreAsked'
  <2>1. CASE m.type = Scanner
    <3>1. m.which = Scanner /\ m.a \in asked
      BY <1>2, <2>1, ParsedRequest
    <3>2. ran' = Field(m, m.a) /\ asked' = asked
      BY <2>1 DEF HandleRead
    <3>3. Field(m, m.a) = m.a
      BY <2>1, <3>1 DEF Field
    <3>4. QED
      BY <3>1, <3>2, <3>3 DEF ScanRequestsAreAsked
  <2>2. CASE m.type # Scanner
    BY <2>2 DEF HandleRead, RequestsInv, ScanRequestsAreAsked
  <2>3. QED
    BY <2>1, <2>2
<1>8. QED
  BY <1>4, <1>5, <1>6, <1>7 DEF RequestsInv

\* The server's other steps, and the console's.
LEMMA ServerKeeps ==
  ASSUME RequestsInv,
         \/ Reply \/ Transmit \/ Broadcast
         \/ SignalLevel \/ ConsoleSets
  PROVE  RequestsInv'
<1> USE DEF clientVars
<1>1. UNCHANGED <<up, gui, asked, ran>>
  BY DEF Reply, Transmit, Broadcast, SignalLevel, ConsoleSets
<1>2. ClientTyped
  BY DEF RequestsInv
<1>3. CASE Reply
  <2>1. reply \in Seq(Messages) /\ reply # <<>> /\ reply' = <<>>
    BY <1>2, <1>3 DEF Reply, ClientTyped
  <2>2. Head(reply) \in Messages /\ reply' \in Seq(Messages)
    BY <2>1
  <2>3. buffer' \in Messages /\ pending' \in Seq(Messages)
    BY <1>2, <1>3, <2>2, WriteTyped DEF Reply, ClientTyped
  <2>4. ClientTyped'
    BY <1>2, <1>3, <2>2, <2>3 DEF Reply, ClientTyped
  <2>5. QED
    BY <1>1, <2>4, NoRequestMade
<1>4. CASE Transmit
  <2>1. /\ pending' \in Seq(Messages)
        /\ down' = down \/ down' = Append(down, buffer)
    <3>1. pending \in Seq(Messages) /\ pending # <<>> /\ pending' = Tail(pending)
      BY <1>2, <1>4 DEF Transmit, ClientTyped
    <3>2. down' = down \/ down' = Append(down, buffer)
      BY <1>4 DEF Transmit
    <3>3. QED
      BY <3>1, <3>2
  <2>2. down' \in Seq(Messages)
    <3>1. down \in Seq(Messages) /\ buffer \in Messages
      BY <1>2 DEF ClientTyped
    <3>2. Append(down, buffer) \in Seq(Messages)
      BY <3>1
    <3>3. QED
      BY <2>1, <3>1, <3>2
  <2>3. ClientTyped'
    BY <1>2, <1>4, <2>1, <2>2 DEF Transmit, ClientTyped
  <2>4. QED
    BY <1>1, <2>3, NoRequestMade
<1>5. CASE Broadcast
  <2>1. outbox \in Seq(Messages) /\ outbox # <<>> /\ outbox' = Tail(outbox)
    BY <1>2, <1>5 DEF Broadcast, ClientTyped
  <2>2. Head(outbox) \in Messages /\ outbox' \in Seq(Messages)
    BY <2>1
  <2>3. buffer' \in Messages /\ pending' \in Seq(Messages)
    BY <1>2, <1>5, <2>2, WriteTyped DEF Broadcast, ClientTyped
  <2>4. ClientTyped'
    BY <1>2, <1>5, <2>2, <2>3 DEF Broadcast, ClientTyped
  <2>5. QED
    BY <1>1, <2>4, NoRequestMade
<1>6. CASE SignalLevel
  <2>1. Message(Level, 1, 0) \in Messages
    BY MessageTyped DEF Level
  <2>2. buffer' \in Messages /\ pending' \in Seq(Messages)
    BY <1>2, <1>6, <2>1, WriteTyped DEF SignalLevel
  <2>3. ClientTyped'
    BY <1>2, <1>6, <2>2 DEF SignalLevel, ClientTyped
  <2>4. QED
    BY <1>1, <2>3, NoRequestMade
<1>7. CASE ConsoleSets
  <2>1. Squelches \subseteq Int /\ Gains \subseteq Int
    BY ClientAssumption
  <2>2. settings' \in Settings /\ outbox' \in Seq(Messages)
    BY <1>2, <1>7, <2>1, SetTyped DEF ConsoleSets
  <2>3. ClientTyped'
    BY <1>2, <1>7, <2>2 DEF ConsoleSets, ClientTyped
  <2>4. QED
    BY <1>1, <2>3, NoRequestMade
<1>8. QED
  BY <1>3, <1>4, <1>5, <1>6, <1>7

\* So it is in every state of every session.
LEMMA RequestsInvariant == SessionSpec => []RequestsInv
<1>1. SessionInit => RequestsInv
  <2> SUFFICES ASSUME SessionInit PROVE RequestsInv
    OBVIOUS
  <2>1. Message(Info, 0, 0) \in Messages
    BY MessageTyped DEF Info
  <2>2. settings \in Settings /\ range \in SliderRanges /\ scale \in SliderRanges
    BY ClientAssumption, RangesTyped DEF SessionInit, Settings
  <2>3. QED
    BY <2>1, <2>2 DEF SessionInit, RequestsInv, ClientTyped, Settings, InOrder,
       ScanRequestsAreAsked
<1>2. RequestsInv /\ [SessionNext]_sessionVars => RequestsInv'
  <2> SUFFICES ASSUME RequestsInv, [SessionNext]_sessionVars PROVE RequestsInv'
    OBVIOUS
  <2>1. CASE User \/ Gui
    BY <2>1, GuiKeeps
  <2>2. CASE Monitor
    BY <2>2, MonitorKeeps
  <2>3. CASE Io \/ Broadcast \/ SignalLevel \/ ConsoleSets
    BY <2>3, HandleReadKeeps, ServerKeeps DEF Io
  <2>4. CASE UNCHANGED sessionVars
    BY <2>4, NoRequestMade
       DEF sessionVars, clientVars, serverVars, RequestsInv, ClientTyped
  <2>5. QED
    BY <2>1, <2>2, <2>3, <2>4 DEF SessionNext
<1>3. QED
  BY <1>1, <1>2, PTL DEF SessionSpec

\* A scanner request that the server executes is one that the user made in this
\* session, whatever the reads merge: a request for a context has no type on the
\* wire and would take over another's (completeConnection, _handleRead).
THEOREM OnlyAskedRequestsAreRun == SessionSpec => []ScanRequestsAreAsked
<1>1. RequestsInv => ScanRequestsAreAsked
  BY DEF RequestsInv
<1>2. QED
  BY <1>1, RequestsInvariant, PTL

-----------------------------------------------------------------------------
(* Client: settings on their way in both directions. A setting that the    *)
(* slider does not show is on its way to it as a context, or what the      *)
(* slider shows is on its way to the server, or the client has still to be *)
(* answered for the first time; unless the last change was swallowed, or a *)
(* squelch beyond the slider's range has left it where it was.             *)

Kinds == {"squelch", "gain"}
Code(k) == IF k = "squelch" THEN SET_SQUELCH ELSE SET_GAIN
Value(m, k) == IF k = "squelch" THEN m.a ELSE m.b

\* What a slider shows of a value: the gain's has a range that never changes.
Position(v, k) == IF k = "squelch" THEN v ELSE Fit(v, GainRange)

\* Messages that are, or will be, handled by the client as contexts.
OnTheWay == Range(outbox) \cup Range(pending) \cup Range(reply) \cup Range(down) \cup Range(events)

Told(k) == \E m \in Range(up) : m.type = Demod /\ m.a = Code(k)
Due(k) == Told(k) \/ (k = "gain" /\ gainTimer)
Corrected(k) == \E m \in OnTheWay : Shows(m) /\ Position(Value(m, k), k) # slider[k]
Agrees(k) ==
  slider[k] = Position(settings[k], k) \/ Corrected(k) \/ (k = "squelch" /\ cut)

FirstQuestion == Message(General, 1, 0)
Awaited == FirstQuestion \in Range(gui) \cup Range(up)

\* The I/O thread has one reply at a time.
ReplyInv == Len(reply) <= 1

SettlesInv == open /\ ~lost => Awaited \/ \A k \in Kinds : Due(k) \/ Agrees(k)

\* What a queue holds, as a set.
LEMMA QueueRanges ==
  ASSUME NEW q \in Seq(Messages)
  PROVE  /\ \A m \in Messages : Range(Append(q, m)) = Range(q) \cup {m}
         /\ q # <<>> => Head(q) \in Messages /\ Range(q) = {Head(q)} \cup Range(Tail(q))
         /\ q # <<>> => Tail(q) \in Seq(Messages)
         /\ Range(q) \subseteq Messages
<1>1. DOMAIN q = 1..Len(q) /\ Len(q) \in Nat /\ \A i \in 1..Len(q) : q[i] \in Messages
  OBVIOUS
<1>2. ASSUME NEW m \in Messages PROVE Range(Append(q, m)) = Range(q) \cup {m}
  <2>1. /\ DOMAIN Append(q, m) = 1..(Len(q) + 1) /\ Append(q, m)[Len(q) + 1] = m
        /\ \A i \in 1..Len(q) : Append(q, m)[i] = q[i]
    BY <1>1
  <2>2. \A i \in 1..(Len(q) + 1) : i \in 1..Len(q) \/ i = Len(q) + 1
    BY <1>1
  <2>3. Len(q) + 1 \in 1..(Len(q) + 1) /\ 1..Len(q) \subseteq 1..(Len(q) + 1)
    BY <1>1
  <2>4. Range(Append(q, m)) \subseteq Range(q) \cup {m}
    BY <1>1, <2>1, <2>2 DEF Range
  <2>5. m \in Range(Append(q, m)) /\ Range(q) \subseteq Range(Append(q, m))
    BY <1>1, <2>1, <2>3 DEF Range
  <2>6. QED
    BY <2>4, <2>5
<1>3. ASSUME q # <<>>
      PROVE  /\ Range(q) = {Head(q)} \cup Range(Tail(q)) /\ Tail(q) \in Seq(Messages)
             /\ Head(q) \in Messages
  <2>1. /\ Head(q) = q[1] /\ 1 \in 1..Len(q) /\ Tail(q) \in Seq(Messages)
        /\ DOMAIN Tail(q) = 1..(Len(q) - 1)
        /\ \A i \in 1..(Len(q) - 1) : Tail(q)[i] = q[i + 1]
    BY <1>1, <1>3
  <2>2. \A i \in 1..Len(q) : i = 1 \/ (i - 1 \in 1..(Len(q) - 1) /\ Tail(q)[i - 1] = q[i])
    BY <1>1, <2>1
  <2>3. \A i \in 1..(Len(q) - 1) : i + 1 \in 1..Len(q)
    BY <1>1
  <2>4. Range(q) \subseteq {Head(q)} \cup Range(Tail(q))
    <3> SUFFICES ASSUME NEW i \in 1..Len(q) PROVE q[i] \in {Head(q)} \cup Range(Tail(q))
      BY <1>1 DEF Range
    <3>1. CASE i = 1
      BY <2>1, <3>1
    <3>2. CASE i - 1 \in 1..(Len(q) - 1) /\ Tail(q)[i - 1] = q[i]
      BY <2>1, <3>2 DEF Range
    <3>3. QED
      BY <2>2, <3>1, <3>2
  <2>5. {Head(q)} \cup Range(Tail(q)) \subseteq Range(q)
    BY <1>1, <2>1, <2>3 DEF Range
  <2>6. QED
    BY <1>1, <2>1, <2>4, <2>5
<1>4. QED
  BY <1>1, <1>2, <1>3 DEF Range

\* A read divides it in two.
LEMMA ReadRanges ==
  ASSUME NEW q \in Seq(Messages), NEW n \in 1..Len(q)
  PROVE  Range(q) = Range(SubSeq(q, 1, n)) \cup Range(SubSeq(q, n + 1, Len(q)))
<1> DEFINE ms == SubSeq(q, 1, n)
           rest == SubSeq(q, n + 1, Len(q))
<1>1. DOMAIN q = 1..Len(q) /\ Len(q) \in Nat
  OBVIOUS
<1>2. /\ DOMAIN ms = 1..n /\ \A i \in 1..n : ms[i] = q[i]
      /\ DOMAIN rest = 1..(Len(q) - n) /\ \A i \in 1..(Len(q) - n) : rest[i] = q[n + i]
  BY ReadFacts
<1> HIDE DEF ms, rest
<1>3. \A i \in 1..Len(q) : i \in 1..n \/ (i - n \in 1..(Len(q) - n) /\ n + (i - n) = i)
  BY <1>1
<1>4. 1..n \subseteq 1..Len(q) /\ \A i \in 1..(Len(q) - n) : n + i \in 1..Len(q)
  BY <1>1
<1>5. Range(q) \subseteq Range(ms) \cup Range(rest)
  <2> SUFFICES ASSUME NEW i \in 1..Len(q) PROVE q[i] \in Range(ms) \cup Range(rest)
    BY <1>1 DEF Range
  <2>1. CASE i \in 1..n
    BY <2>1, <1>2 DEF Range
  <2>2. CASE i - n \in 1..(Len(q) - n) /\ n + (i - n) = i
    <3>1. rest[i - n] = q[i]
      BY <2>2, <1>2
    <3>2. QED
      BY <2>2, <3>1, <1>2 DEF Range
  <2>3. QED
    BY <1>3, <2>1, <2>2
<1>6. Range(ms) \subseteq Range(q) /\ Range(rest) \subseteq Range(q)
  BY <1>1, <1>2, <1>4 DEF Range
<1>7. QED
  BY <1>5, <1>6 DEF ms, rest

\* A context of the settings shows them, or corrects the slider.
LEMMA ContextAgrees ==
  ASSUME settings \in Settings, Context(settings) \in OnTheWay
  PROVE  \A k \in Kinds : Agrees(k)
<1>1. /\ Shows(Context(settings)) /\ Context(settings).a = settings.squelch
      /\ Context(settings).b = settings.gain
  BY DEF Shows, Context, Message, DemodCtx, Info
<1>2. \A k \in Kinds : Value(Context(settings), k) = settings[k]
  BY <1>1 DEF Value, Kinds
<1>3. QED
  BY <1>1, <1>2 DEF Agrees, Corrected

\* A step that neither changes nor loses anything.
LEMMA StillSettles ==
  ASSUME SettlesInv, UNCHANGED <<slider, settings>>, open' /\ ~lost' => open /\ ~lost,
         cut => cut',
         Range(up) \subseteq Range(up)', Range(gui) \cup Range(up) \subseteq (Range(gui) \cup Range(up))',
         gainTimer => gainTimer' \/ Told("gain")',
         \A m \in OnTheWay : Shows(m) => m \in OnTheWay'
  PROVE  SettlesInv'
<1>1. SUFFICES ASSUME open', ~lost' PROVE Awaited' \/ \A k \in Kinds : Due(k)' \/ Agrees(k)'
  BY DEF SettlesInv
<1>2. Awaited => Awaited'
  BY DEF Awaited
<1>3. ASSUME NEW k \in Kinds, Due(k) PROVE Due(k)'
  BY <1>3 DEF Due, Told
<1>4. ASSUME NEW k \in Kinds, Agrees(k) PROVE Agrees(k)'
  BY <1>4 DEF Agrees, Corrected
<1>5. QED
  BY <1>1, <1>2, <1>3, <1>4 DEF SettlesInv

\* The console or a request changes a setting: it is published.
LEMMA SetSettles ==
  ASSUME ClientTyped, NEW which \in Kinds, NEW v \in Int, Set(which, v)
  PROVE  (\A k \in Kinds : Agrees(k))'
<1>1. settings' \in Settings
  BY SetTyped DEF Kinds
<1>2. Context(settings') \in Messages
  BY <1>1, MessageTyped
<1>3. Context(settings') \in Range(outbox')
  BY <1>2, QueueRanges DEF Set, ClientTyped
<1>4. (settings \in Settings /\ Context(settings) \in OnTheWay)'
  BY <1>1, <1>3 DEF OnTheWay
<1>5. QED
  BY <1>4, ContextAgrees, PTL

\* A context that is written settles the settings it was made of.
LEMMA WriteSettles ==
  ASSUME RequestsInv, SettlesInv, NEW m \in Messages, Write(m), open,
         UNCHANGED <<clientVars, settings, open, up, down>>,
         \A x \in OnTheWay : x \in OnTheWay'
  PROVE  SettlesInv'
<1>1. CASE ~lost
  BY <1>1, StillSettles DEF clientVars
<1>2. CASE lost
  <2>1. SUFFICES ASSUME ~lost' PROVE (\A k \in Kinds : Agrees(k))'
    BY DEF SettlesInv
  <2>2. m = Context(settings)
    BY <1>2, <2>1 DEF Write
  <2>3. pending' = Append(pending, m) /\ pending \in Seq(Messages)
    BY DEF Write, RequestsInv, ClientTyped
  <2>4. m \in Range(pending')
    BY <2>3, QueueRanges
  <2>5. settings \in Settings
    BY DEF RequestsInv, ClientTyped
  <2>6. (settings \in Settings /\ Context(settings) \in OnTheWay)'
    BY <2>2, <2>4, <2>5 DEF OnTheWay
  <2>7. QED
    BY <2>6, ContextAgrees, PTL
<1>3. QED
  BY <1>1, <1>2

\* A message leaves its queue for the write buffer, or is a signal level.
LEMMA WritersSettle ==
  ASSUME RequestsInv, ReplyInv, SettlesInv, Reply \/ Broadcast \/ SignalLevel
  PROVE  SettlesInv'
<1> USE DEF clientVars
<1>1. /\ outbox \in Seq(Messages) /\ reply \in Seq(Messages) /\ pending \in Seq(Messages)
  BY DEF RequestsInv, ClientTyped
<1>2. CASE ~open
  BY <1>2 DEF Reply, Broadcast, SignalLevel, SettlesInv
<1>3. CASE Reply /\ open
  <2>1. /\ reply # <<>> /\ reply' = <<>> /\ Write(Head(reply))
        /\ UNCHANGED <<clientVars, settings, open, up, down, outbox>>
    BY <1>3 DEF Reply
  <2>2. Head(reply) \in Messages /\ Len(reply) \in Nat
    BY <1>1, <2>1
  <2>3. Range(pending') = Range(pending) \cup {Head(reply)}
    BY <1>1, <2>1, <2>2, QueueRanges DEF Write
  <2>4. Range(reply) \subseteq {Head(reply)}
    <3>1. DOMAIN reply = 1..Len(reply) /\ Head(reply) = reply[1]
      BY <1>1, <2>1
    <3>2. \A i \in 1..Len(reply) : i = 1
      BY <2>2 DEF ReplyInv
    <3>3. QED
      BY <3>1, <3>2 DEF Range
  <2>5. \A x \in OnTheWay : x \in OnTheWay'
    BY <2>1, <2>3, <2>4 DEF OnTheWay
  <2>6. QED
    BY <1>3, <2>1, <2>2, <2>5, WriteSettles
<1>4. CASE Broadcast /\ open
  <2>1. /\ outbox # <<>> /\ outbox' = Tail(outbox) /\ Write(Head(outbox))
        /\ UNCHANGED <<clientVars, settings, open, up, down, reply>>
    BY <1>4 DEF Broadcast
  <2>2. Head(outbox) \in Messages /\ Range(outbox) = {Head(outbox)} \cup Range(outbox')
    BY <1>1, <2>1, QueueRanges
  <2>3. Range(pending') = Range(pending) \cup {Head(outbox)}
    BY <1>1, <2>1, <2>2, QueueRanges DEF Write
  <2>4. \A x \in OnTheWay : x \in OnTheWay'
    BY <2>1, <2>2, <2>3 DEF OnTheWay
  <2>5. QED
    BY <1>4, <2>1, <2>2, <2>4, WriteSettles
<1>5. CASE SignalLevel /\ open
  <2>1. Message(Level, 1, 0) \in Messages
    BY MessageTyped DEF Level
  <2>2. Write(Message(Level, 1, 0)) /\ UNCHANGED <<clientVars, settings, open, up, down, reply, outbox>>
    BY <1>5 DEF SignalLevel
  <2>3. Range(pending') = Range(pending) \cup {Message(Level, 1, 0)}
    BY <1>1, <2>1, <2>2, QueueRanges DEF Write
  <2>4. \A x \in OnTheWay : x \in OnTheWay'
    BY <2>2, <2>3 DEF OnTheWay
  <2>5. QED
    BY <1>5, <2>1, <2>2, <2>4, WriteSettles
<1>6. QED
  BY <1>2, <1>3, <1>4, <1>5

\* The write buffer: a context that another message has overwritten is noted.
LEMMA TransmitSettles ==
  ASSUME RequestsInv, SettlesInv, Transmit
  PROVE  SettlesInv'
<1>1. /\ pending \in Seq(Messages) /\ down \in Seq(Messages) /\ buffer \in Messages
  BY DEF RequestsInv, ClientTyped
<1>2. /\ pending # <<>> /\ pending' = Tail(pending)
      /\ UNCHANGED <<clientVars, open, settings, outbox, reply, up>>
      /\ lost' = (lost \/ (IsDemod(Head(pending)) /\ buffer # Head(pending)))
      /\ down' \in {Append(down, buffer)} \cup (IF buffer = Head(pending) THEN {} ELSE {down})
  BY DEF Transmit
<1>3. Range(pending) = {Head(pending)} \cup Range(pending')
  BY <1>1, <1>2, QueueRanges
<1>4. Range(down) \subseteq Range(down') /\ (buffer = Head(pending) => buffer \in Range(down'))
  <2>1. Range(Append(down, buffer)) = Range(down) \cup {buffer}
    BY <1>1, QueueRanges
  <2>2. QED
    BY <1>2, <2>1
<1>5. CASE lost'
  BY <1>5 DEF SettlesInv
<1>6. CASE ~lost'
  <2>1. \A m \in OnTheWay : Shows(m) => m \in OnTheWay'
    <3> SUFFICES ASSUME NEW m \in OnTheWay, Shows(m) PROVE m \in OnTheWay'
      OBVIOUS
    <3>1. CASE m = Head(pending)
      BY <1>2, <1>4, <1>6, <3>1 DEF Shows, IsDemod, OnTheWay
    <3>2. CASE m # Head(pending)
      BY <1>2, <1>3, <1>4, <3>2 DEF OnTheWay, clientVars
    <3>3. QED
      BY <3>1, <3>2
  <2>2. QED
    BY <1>2, <1>6, <2>1, StillSettles DEF clientVars
<1>7. QED
  BY <1>5, <1>6

\* The client's receiving thread: a context that a read merges into something
\* else is noted.
LEMMA MonitorSettles ==
  ASSUME RequestsInv, SettlesInv, Monitor
  PROVE  SettlesInv'
<1>1. ASSUME NEW n \in 1..Len(down), Receive(n) PROVE SettlesInv'
  <2> DEFINE ms == SubSeq(down, 1, n)
             rest == SubSeq(down, n + 1, Len(down))
  <2>1. down \in Seq(Messages) /\ events \in Seq(Messages)
    BY DEF RequestsInv, ClientTyped
  <2>2. Parse(ms) \in Messages
    BY <2>1, ReadFacts, ParseTyped
  <2>3. Range(down) = Range(ms) \cup Range(rest)
    BY <2>1, ReadRanges
  <2>4. /\ events' = Append(events, Parse(ms)) /\ down' = rest /\ lost' = (lost \/ Garbles(ms))
        /\ UNCHANGED <<open, slider, gainTimer, cut, gui, up, serverVars>>
    BY <1>1 DEF Receive
  <2> HIDE DEF ms, rest
  <2>5. Range(events') = Range(events) \cup {Parse(ms)}
    BY <2>1, <2>2, <2>4, QueueRanges
  <2>6. ~lost' => \A m \in Range(ms) : Shows(m) => m = Parse(ms)
    BY <2>4 DEF Garbles, Range, Shows, IsDemod
  <2>7. CASE lost'
    BY <2>7 DEF SettlesInv
  <2>8. CASE ~lost'
    <3>1. \A m \in OnTheWay : Shows(m) => m \in OnTheWay'
      BY <2>3, <2>4, <2>5, <2>6, <2>8 DEF OnTheWay, serverVars
    <3>2. QED
      BY <2>4, <2>8, <3>1, StillSettles DEF serverVars
  <2>9. QED
    BY <2>7, <2>8
<1>2. CASE ReceiveEnds
  BY <1>2 DEF ReceiveEnds, SettlesInv
<1>3. QED
  BY <1>1, <1>2 DEF Monitor

\* Only a read makes a reply, and only when there is none.
LEMMA ReplyStep ==
  ASSUME RequestsInv, ReplyInv, [SessionNext]_sessionVars
  PROVE  ReplyInv'
<1> USE DEF ReplyInv, clientVars, serverVars
<1>1. CASE User
  BY <1>1 DEF User, Connect, Disconnect, Press, MoveSquelch, MoveGain
<1>2. CASE Gui
  BY <1>2 DEF Gui, RequestContext, SetGain, HandleReceived
<1>3. CASE Monitor
  BY <1>3 DEF Monitor, Receive, ReceiveEnds
<1>4. ASSUME NEW n \in 1..Len(up), HandleRead(n) PROVE ReplyInv'
  BY <1>4 DEF HandleRead
<1>5. CASE Reply \/ Transmit \/ Broadcast \/ SignalLevel \/ ConsoleSets
  BY <1>5 DEF Reply, Transmit, Broadcast, SignalLevel, ConsoleSets
<1>6. CASE UNCHANGED sessionVars
  BY <1>6 DEF sessionVars
<1>7. QED
  BY <1>1, <1>2, <1>3, <1>4, <1>5, <1>6 DEF SessionNext, Io

\* What a read of requests about settings leads to: the settings are published
\* or replied, unless the read has made them into something else, which is noted.
LEMMA HandleReadSettles ==
  ASSUME RequestsInv, SettlesInv, NEW n \in 1..Len(up), HandleRead(n)
  PROVE  SettlesInv'
<1> DEFINE ms == SubSeq(up, 1, n)
           rest == SubSeq(up, n + 1, Len(up))
           m == Parse(ms)
<1>1. up \in Seq(Messages) /\ ClientTyped /\ settings \in Settings
  BY DEF RequestsInv, ClientTyped
<1>2. m \in Messages /\ ms \in Seq(Messages) /\ ms # <<>>
  BY <1>1, ReadFacts, ParseTyped
<1>3. Range(up) = Range(ms) \cup Range(rest)
  BY <1>1, ReadRanges
<1>4. /\ open /\ reply = <<>> /\ up' = rest /\ open' = open
      /\ UNCHANGED <<clientVars, pending, down>>
      /\ reply' = IF m.type # General THEN <<>>
                  ELSE CASE Field(m, m.a) = 0 -> <<Message(ScannerCtx, 0, 0)>>
                         [] Field(m, m.a) = 1 -> <<Context(settings)>>
                         [] OTHER -> <<SystemInfo>>
      /\ lost' = (lost \/ Swallows(ms))
      /\ m.type = Demod => Set(IF Field(m, m.a) = SET_GAIN THEN "gain" ELSE "squelch", Field(m, m.b))
      /\ m.type # Demod => UNCHANGED <<settings, outbox>>
  BY DEF HandleRead
<1> HIDE DEF m
<1>5. ~Swallows(ms) => \A x \in Range(ms) : AboutSettings(x) => x = m
  BY DEF Swallows, Range, m
<1> HIDE DEF ms, rest
<1>6. CASE lost'
  BY <1>6 DEF SettlesInv
<1>7. CASE m.type = Demod
  <2>1. Field(m, m.b) \in Int
    BY <1>2 DEF Field, Messages
  <2>2. PICK which \in Kinds : Set(which, Field(m, m.b))
    BY <1>4, <1>7 DEF Kinds
  <2>3. (\A k \in Kinds : Agrees(k))'
    BY <1>1, <2>1, <2>2, SetSettles
  <2>4. QED
    BY <2>3 DEF SettlesInv
<1>8. CASE m.type # Demod /\ ~lost'
  <2>1. \A x \in Range(ms) : AboutSettings(x) => x = m
    BY <1>4, <1>5, <1>8
  <2>2. Awaited \/ \A k \in Kinds : Due(k) \/ Agrees(k)
    BY <1>4, <1>8 DEF SettlesInv
  <2>3. CASE FirstQuestion \in Range(ms)
    <3>1. m = FirstQuestion
      BY <2>1, <2>3 DEF AboutSettings, FirstQuestion
    <3>2. m.type = General /\ Field(m, m.a) = 1
      BY <3>1 DEF FirstQuestion, Message, Field
    <3>3. reply' = <<Context(settings)>> /\ settings' = settings
      BY <1>4, <1>8, <3>2
    <3>4. Context(settings) \in Range(reply')
      BY <3>3 DEF Range
    <3>5. (settings \in Settings /\ Context(settings) \in OnTheWay)'
      BY <1>1, <3>3, <3>4 DEF OnTheWay
    <3>6. (\A k \in Kinds : Agrees(k))'
      BY <3>5, ContextAgrees, PTL
    <3>7. QED
      BY <3>6 DEF SettlesInv
  <2>4. CASE FirstQuestion \notin Range(ms)
    <3>1. Awaited => Awaited'
      BY <1>3, <1>4, <2>4 DEF Awaited, clientVars
    <3>2. ASSUME NEW k \in Kinds, Due(k) PROVE Due(k)'
      <4>1. \A x \in Range(ms) : x.type # Demod
        BY <1>8, <2>1 DEF AboutSettings
      <4>2. QED
        BY <1>3, <1>4, <3>2, <4>1 DEF Due, Told, clientVars
    <3>3. \A x \in OnTheWay : x \in OnTheWay'
      BY <1>4, <1>8 DEF OnTheWay, clientVars, Range
    <3>4. ASSUME NEW k \in Kinds, Agrees(k) PROVE Agrees(k)'
      BY <1>4, <1>8, <3>3, <3>4 DEF Agrees, Corrected, clientVars
    <3>5. QED
      BY <2>2, <3>1, <3>2, <3>4 DEF SettlesInv
  <2>5. QED
    BY <2>3, <2>4
<1>9. QED
  BY <1>6, <1>7, <1>8

\* The console.
LEMMA ConsoleSettles ==
  ASSUME RequestsInv, SettlesInv, ConsoleSets
  PROVE  SettlesInv'
<1>1. PICK which \in Kinds, v \in Int : Set(which, v)
  BY ClientAssumption DEF ConsoleSets, Kinds
<1>2. (\A k \in Kinds : Agrees(k))'
  BY <1>1, SetSettles DEF RequestsInv
<1>3. QED
  BY <1>2 DEF SettlesInv

\* What the GUI thread sends, it sends in addition.
LEMMA SendAdds ==
  ASSUME RequestsInv, open, NEW m \in Messages, SendData(m)
  PROVE  Range(up') = Range(up) \cup {m}
  BY QueueRanges DEF SendData, RequestsInv, ClientTyped

\* A slider that has moved is sent to the server, at once or by the timer; the
\* other one is as before.
LEMMA MovedSettles ==
  ASSUME SettlesInv, NEW moved \in SUBSET Kinds, \A k \in moved : Due(k)',
         \A k \in Kinds \ moved : Agrees(k) => Agrees(k)',
         UNCHANGED <<open, lost, gui>>, Range(up) \subseteq Range(up)',
         gainTimer => gainTimer' \/ Told("gain")'
  PROVE  SettlesInv'
<1>1. SUFFICES ASSUME open', ~lost' PROVE Awaited' \/ \A k \in Kinds : Due(k)' \/ Agrees(k)'
  BY DEF SettlesInv
<1>2. Awaited => Awaited'
  BY DEF Awaited
<1>3. ASSUME NEW k \in Kinds \ moved, Due(k) PROVE Due(k)'
  BY <1>3 DEF Due, Told
<1>4. QED
  BY <1>1, <1>2, <1>3 DEF SettlesInv

\* The controls, and the timer.
LEMMA ControlsSettle ==
  ASSUME RequestsInv, SettlesInv,
         \/ SetGain \/ (\E v \in Squelches : MoveSquelch(v)) \/ \E v \in Gains : MoveGain(v)
         \/ \E r \in {SCAN, HOLD, MANUAL} : Press(r)
  PROVE  SettlesInv'
<1> USE DEF serverVars
<1>1. slider \in Settings
  BY DEF RequestsInv, ClientTyped
<1>2. UNCHANGED <<open, lost, gui, events, serverVars, down>>
  BY DEF SetGain, MoveSquelch, MoveGain, Press, clientVars
<1>3. OnTheWay' = OnTheWay
  BY <1>2 DEF OnTheWay
<1>4. CASE ~open
  BY <1>2, <1>4 DEF SettlesInv
<1>5. ASSUME open, NEW v \in Squelches, MoveSquelch(v) PROVE SettlesInv'
  <2> DEFINE m == Message(Demod, SET_SQUELCH, v)
  <2>1. m \in Messages
    BY ClientAssumption, MessageTyped DEF Demod, SET_SQUELCH
  <2>2. SendData(m) /\ gainTimer' = gainTimer /\ slider' = [slider EXCEPT !.squelch = v]
    BY <1>5 DEF MoveSquelch
  <2>3. m.type = Demod /\ m.a = Code("squelch")
    BY DEF Message, Code
  <2> HIDE DEF m
  <2>4. Range(up') = Range(up) \cup {m}
    BY <1>5, <2>1, <2>2, SendAdds
  <2>5. Due("squelch")'
    BY <2>3, <2>4 DEF Due, Told
  <2>6. \A k \in Kinds \ {"squelch"} : slider'[k] = slider[k]
    BY <1>1, <2>2 DEF Kinds, Settings
  <2>7. \A k \in Kinds \ {"squelch"} : Agrees(k) => Agrees(k)'
    BY <1>2, <1>3, <2>6 DEF Agrees, Corrected
  <2>8. {"squelch"} \in SUBSET Kinds /\ \A k \in {"squelch"} : Due(k)'
    BY <2>5 DEF Kinds
  <2>9. UNCHANGED <<open, lost, gui>> /\ Range(up) \subseteq Range(up)'
        /\ (gainTimer => gainTimer' \/ Told("gain")')
    BY <1>2, <2>2, <2>4
  <2>10. QED
    BY <2>7, <2>8, <2>9, MovedSettles
<1>6. ASSUME open, NEW v \in Gains, MoveGain(v) PROVE SettlesInv'
  <2>1. gainTimer' /\ up' = up /\ slider' = [slider EXCEPT !.gain = v]
    BY <1>6 DEF MoveGain
  <2>2. Due("gain")'
    BY <2>1 DEF Due
  <2>3. \A k \in Kinds \ {"gain"} : slider'[k] = slider[k]
    BY <1>1, <2>1 DEF Kinds, Settings
  <2>4. gainTimer => gainTimer' \/ Told("gain")'
    BY <2>1
  <2>5. {"gain"} \in SUBSET Kinds /\ Range(up) \subseteq Range(up)'
        /\ \A k \in {"gain"} : Due(k)'
    BY <2>1, <2>2 DEF Kinds
  <2>6. UNCHANGED <<open, lost, gui>>
    BY <1>2
  <2>7. cut' = cut
    BY <1>6 DEF MoveGain
  <2>8. \A k \in Kinds \ {"gain"} : Agrees(k) => Agrees(k)'
    BY <1>2, <1>3, <2>3, <2>7 DEF Agrees, Corrected
  <2>9. QED
    BY <2>4, <2>5, <2>6, <2>8, MovedSettles
<1>7. ASSUME open, SetGain PROVE SettlesInv'
  <2> DEFINE m == Message(Demod, SET_GAIN, slider.gain)
  <2>1. m \in Messages
    BY <1>1, MessageTyped DEF Demod, SET_GAIN, Settings
  <2>2. SendData(m) /\ slider' = slider /\ cut' = cut
    BY <1>7 DEF SetGain
  <2>3. m.type = Demod /\ m.a = Code("gain")
    BY DEF Message, Code
  <2> HIDE DEF m
  <2>4. Range(up') = Range(up) \cup {m}
    BY <1>7, <2>1, <2>2, SendAdds
  <2>5. Told("gain")'
    BY <2>3, <2>4 DEF Told
  <2>6. QED
    BY <1>2, <1>3, <2>2, <2>4, <2>5, StillSettles
<1>8. ASSUME open, NEW r \in {SCAN, HOLD, MANUAL}, Press(r) PROVE SettlesInv'
  <2> DEFINE m == Message(Scanner, r, IF r = MANUAL THEN 1 ELSE 0)
  <2>1. m \in Messages
    BY MessageTyped DEF Scanner, SCAN, HOLD, MANUAL
  <2>2. SendData(m) /\ UNCHANGED <<slider, gainTimer, cut>>
    BY <1>8 DEF Press, clientVars
  <2> HIDE DEF m
  <2>3. Range(up') = Range(up) \cup {m}
    BY <1>8, <2>1, <2>2, SendAdds
  <2>4. QED
    BY <1>2, <1>3, <2>2, <2>3, StillSettles
<1>9. QED
  BY <1>4, <1>5, <1>6, <1>7, <1>8

\* A slider that a context or a new range moves is sent back.
LEMMA HandleReceivedSettles ==
  ASSUME RequestsInv, SettlesInv, HandleReceived
  PROVE  SettlesInv'
<1> DEFINE e == Head(events)
           moved == {k \in Kinds : slider'[k] # slider[k]}
           m == Message(Demod, SET_SQUELCH, slider'.squelch)
<1>1. /\ events \in Seq(Messages) /\ events # <<>> /\ slider \in Settings
      /\ events' = Tail(events) /\ UNCHANGED <<open, gui, serverVars, down, lost>>
  BY DEF HandleReceived, RequestsInv, ClientTyped
<1>2. e \in Messages /\ Range(events) = {e} \cup Range(events')
  BY <1>1, QueueRanges
<1>3. /\ slider' \in Settings
      /\ slider'.squelch # slider.squelch => SendData(m)
      /\ slider'.squelch = slider.squelch => up' = up
      /\ slider'.gain # slider.gain => gainTimer'
      /\ gainTimer => gainTimer'
      /\ slider'.squelch = slider.squelch /\ cut => cut'
      /\ Shows(e) => /\ slider'.gain = Fit(e.b, GainRange)
                     /\ slider'.squelch = slider.squelch /\ e.a # slider.squelch => cut'
  BY ReceivedFacts
<1> HIDE DEF e
<1>4. \A x \in OnTheWay : x # e => x \in OnTheWay'
  BY <1>1, <1>2 DEF OnTheWay, serverVars
<1>5. CASE ~open
  BY <1>1, <1>5 DEF SettlesInv
<1>6. CASE open
  <2>1. m \in Messages /\ m.type = Demod /\ m.a = Code("squelch")
    <3>1. slider'.squelch \in Int
      BY <1>3 DEF Settings
    <3>2. m \in Messages
      BY <3>1, MessageTyped DEF Demod, SET_SQUELCH
    <3>3. QED
      BY <3>2 DEF Message, Code
  <2> HIDE DEF m
  <2>2. Range(up) \subseteq Range(up') /\ (slider'.squelch # slider.squelch => m \in Range(up'))
    BY <1>3, <1>6, <2>1, SendAdds
  <2>3. \A k \in moved : Due(k)'
    <3>1. slider'.squelch # slider.squelch => Due("squelch")'
      BY <2>1, <2>2 DEF Due, Told
    <3>2. slider'.gain # slider.gain => Due("gain")'
      BY <1>3 DEF Due
    <3>3. QED
      BY <3>1, <3>2 DEF Kinds
  <2>4. ASSUME NEW k \in Kinds \ moved, Agrees(k) PROVE Agrees(k)'
    <3>1. k \in Kinds /\ slider'[k] = slider[k]
      BY <2>4
    <3>2. settings' = settings
      BY <1>1 DEF serverVars
    <3>3. CASE slider[k] = Position(settings[k], k)
      BY <3>1, <3>2, <3>3 DEF Agrees, Position
    <3>4. CASE k = "squelch" /\ cut
      BY <1>3, <3>1, <3>4 DEF Agrees
    <3>5. ASSUME NEW x \in OnTheWay, Shows(x), Position(Value(x, k), k) # slider[k]
          PROVE  Agrees(k)'
      <4>1. CASE x # e
        BY <1>4, <3>1, <3>5, <4>1 DEF Agrees, Corrected
      <4>2. CASE x = e /\ k = "squelch"
        BY <1>3, <3>1, <3>5, <4>2 DEF Agrees, Position, Value
      <4>3. CASE x = e /\ k = "gain"
        BY <1>3, <3>1, <3>5, <4>3 DEF Position, Value
      <4>4. QED
        BY <3>1, <4>1, <4>2, <4>3 DEF Kinds
    <3>6. QED
      BY <2>4, <3>3, <3>4, <3>5 DEF Agrees, Corrected
  <2>5. moved \in SUBSET Kinds
    OBVIOUS
  <2> HIDE DEF moved
  <2>6. QED
    BY <1>1, <1>3, <2>2, <2>3, <2>4, <2>5, MovedSettles
<1>7. QED
  BY <1>5, <1>6

\* A session begins with a question, which is on its way until it is answered.
LEMMA SessionSettles ==
  ASSUME RequestsInv, SettlesInv, Connect \/ RequestContext \/ Disconnect
  PROVE  SettlesInv'
<1>1. CASE Connect
  <2>1. gui' = <<Message(General, 0, 0), FirstQuestion, Message(General, 2, 0)>>
    BY <1>1 DEF Connect, FirstQuestion
  <2>2. DOMAIN gui' = 1..3 /\ gui'[2] = FirstQuestion /\ 2 \in 1..3
    BY <2>1
  <2>3. Awaited'
    BY <2>2 DEF Awaited, Range
  <2>4. QED
    BY <2>3 DEF SettlesInv
<1>2. CASE RequestContext /\ open
  <2> DEFINE m == Head(gui)
  <2>1. /\ gui # <<>> /\ gui' = Tail(gui) /\ SendData(m)
        /\ UNCHANGED <<open, slider, gainTimer, cut, events, serverVars, down, lost>>
    BY <1>2 DEF RequestContext
  <2>2. m \in Messages /\ Range(gui) = {m} \cup Range(gui')
    BY <2>1, QueueRanges DEF RequestsInv, ClientTyped
  <2> HIDE DEF m
  <2>3. Range(up') = Range(up) \cup {m}
    BY <1>2, <2>1, <2>2, SendAdds
  <2>4. \A x \in OnTheWay : x \in OnTheWay'
    BY <2>1 DEF OnTheWay, serverVars
  <2>5. QED
    BY <2>1, <2>2, <2>3, <2>4, StillSettles DEF serverVars
<1>3. CASE ~open /\ RequestContext
  BY <1>3 DEF RequestContext, SettlesInv
<1>4. CASE Disconnect
  BY <1>4 DEF Disconnect, SettlesInv
<1>5. QED
  BY <1>1, <1>2, <1>3, <1>4

\* When nothing is on its way in either direction the sliders show the server's
\* settings, whatever the user and the console did, whichever values they chose,
\* and however many sessions there were, unless the last change was swallowed or
\* a squelch beyond the slider's range did not even move it
\* (Scanner.updateDemodContext and setSquelchRange, SocketConnection::contextUpdate
\* and _handleRead).
THEOREM SlidersComeToAgree == SessionSpec => []SlidersAgree
<1> DEFINE Inv == ReplyInv /\ SettlesInv
<1>1. SessionInit => Inv
  BY DEF SessionInit, ReplyInv, SettlesInv
<1>2. RequestsInv /\ Inv /\ [SessionNext]_sessionVars => Inv'
  <2> SUFFICES ASSUME RequestsInv, ReplyInv, SettlesInv, [SessionNext]_sessionVars
               PROVE  SettlesInv'
    BY ReplyStep
  <2>1. CASE User \/ Gui
    BY <2>1, ControlsSettle, HandleReceivedSettles, SessionSettles DEF User, Gui
  <2>2. CASE Monitor
    BY <2>2, MonitorSettles
  <2>3. CASE Io \/ Broadcast \/ SignalLevel \/ ConsoleSets
    BY <2>3, HandleReadSettles, WritersSettle, TransmitSettles, ConsoleSettles DEF Io
  <2>4. CASE UNCHANGED sessionVars
    <3>1. /\ UNCHANGED <<slider, settings, open, lost, cut, up, gui, gainTimer>>
          /\ UNCHANGED <<outbox, pending, reply, down, events>>
      BY <2>4 DEF sessionVars, clientVars, serverVars
    <3>2. \A m \in OnTheWay : m \in OnTheWay'
      BY <3>1 DEF OnTheWay
    <3>3. QED
      BY <3>1, <3>2, StillSettles
  <2>5. QED
    BY <2>1, <2>2, <2>3, <2>4 DEF SessionNext
<1>3. RequestsInv /\ Inv => SlidersAgree
  <2> SUFFICES ASSUME RequestsInv, SettlesInv, Quiet, ~lost
               PROVE  /\ slider.squelch = settings.squelch \/ cut
                      /\ slider.gain = Fit(settings.gain, GainRange)
    BY DEF SlidersAgree
  <2>1. /\ open /\ gui = <<>> /\ up = <<>> /\ ~gainTimer
        /\ outbox = <<>> /\ pending = <<>> /\ reply = <<>> /\ down = <<>> /\ events = <<>>
    BY DEF Quiet, Idle, InFlight, RequestsInv, ClientTyped
  <2>2. \A q \in {gui, up, outbox, pending, reply, down, events} : Range(q) = {}
    BY <2>1 DEF Range
  <2>3. OnTheWay = {} /\ ~Awaited /\ \A k \in Kinds : ~Due(k)
    BY <2>1, <2>2 DEF OnTheWay, Awaited, Due, Told
  <2>4. \A k \in Kinds : Agrees(k) /\ ~Corrected(k)
    BY <2>1, <2>3 DEF SettlesInv, Corrected
  <2>5. QED
    BY <2>4 DEF Kinds, Agrees, Position
<1>4. QED
  BY <1>1, <1>2, <1>3, RequestsInvariant, PTL DEF SessionSpec
=============================================================================
