------------------------------- MODULE Client -------------------------------
(***************************************************************************)
(* The Qt client (client/py) and its session with the server: the GUI      *)
(* thread, the thread that receives, the TCP stream in both directions,    *)
(* SocketConnection's one write buffer and its handlers on the I/O thread, *)
(* the connection manager's queue of contexts and the demodulator's        *)
(* settings, which the debug console changes too.                          *)
(*                                                                         *)
(* Messages are protobuf (proto3) with no frame around them. A field with  *)
(* its default value, zero, is not written, and what one read returns is   *)
(* parsed as one message: the fields of several are merged. Numbers of     *)
(* types and functions are those of proto/*.proto.                         *)
(*                                                                         *)
(* One client; a read never cuts a message in two. Labels are left out,    *)
(* and of a scanner context everything but its arrival. Gains are whole    *)
(* numbers, as the sliders and the console send them.                      *)
(***************************************************************************)
EXTENDS Integers, Sequences, SequencesExt, FiniteSetsExt

CONSTANTS
  Squelches,    \* squelch levels that the user and the console choose from
  Gains,        \* gains that they choose from
  Stored,       \* settings the state file may hold
  MaxMoves,     \* bound: settings that the user and the console change
  MaxPresses,   \* bound: buttons pressed and signal levels of the timer
  MaxSessions,  \* bound: connections made
  MaxBatch      \* bound: messages that one read returns

ASSUME ClientAssumption ==
  /\ Squelches \subseteq Int /\ Gains \subseteq Int
  /\ Stored \subseteq [squelch : Int, gain : Int]
  /\ MaxMoves \in Nat /\ MaxPresses \in Nat /\ MaxSessions \in Nat /\ MaxBatch \in Nat \ {0}

VARIABLES
  slider,       \* squelchSlider, gainSlider
  range,        \* minimum and maximum of squelchSlider
  gainTimer,    \* gainTimer runs, with lastGainVal
  gui,          \* requests completeConnection has still to send
  page,         \* setWindowMode: connect, wait (contextWait), scanner
  receiving,    \* the socket monitor thread
  events,       \* dataReceived signals the GUI thread has not handled
  open,         \* the socket is
  up, down,     \* the stream's two directions
  buffer,       \* _writeBuffer
  pending,      \* asynchronous writes not done
  reply,        \* a context the I/O thread has read and not written
  settings,     \* _squelchLevel, _gain
  scale,        \* the squelch range of the configured squelch mode
  outbox,       \* contexts in the connection manager's queue
  moves, presses, sessions,
  asked, ran,   \* scanner requests made in this session, the last one executed
  lost,         \* the last change of a setting did not get through
  cut           \* a squelch beyond the slider's range has left it where it is

clientVars == <<slider, range, gainTimer, gui, page, receiving, events, cut>>
serverVars == <<buffer, pending, reply, settings, scale, outbox>>
bounds == <<moves, presses, sessions>>
sessionVars == <<clientVars, serverVars, open, up, down, bounds, asked, ran, lost>>

-----------------------------------------------------------------------------
(* The wire.                                                               *)

General == 0  Scanner == 1  Demod == 2                  \* ClientToServer.Type
Info == 0     ScannerCtx == 1  DemodCtx == 2  Level == 4  \* ServerToClient.Type

NoRequest == -1  SCAN == 0  HOLD == 1  MANUAL == 2
SET_SQUELCH == 0  SET_GAIN == 1

\* type, the member of the oneof, and its two fields.
Message(type, a, b) == [type |-> type, which |-> type, a |-> a, b |-> b]

\* What is read of a field that messages i \in S of ms had: a zero is not on the wire.
LastSet(ms, S, field) ==
  LET set == {i \in S : ms[i][field] # 0}
  IN  IF set = {} THEN 0 ELSE ms[Max(set)][field]

\* The member set last drops what the ones before it held.
SameMember(ms) == {i \in DOMAIN ms : \A j \in i..Len(ms) : ms[j].which = Last(ms).which}

Parse(ms) ==
  [type |-> LastSet(ms, DOMAIN ms, "type"), which |-> Last(ms).which,
   a |-> LastSet(ms, SameMember(ms), "a"), b |-> LastSet(ms, SameMember(ms), "b")]

\* A member that is not the one that was set reads as its default.
Field(m, value) == IF m.type = m.which THEN value ELSE 0

Context(s) == Message(DemodCtx, s.squelch, s.gain)
SystemInfo == Message(Info, scale.min, scale.max)
IsDemod(m) == m.type = DemodCtx
HasDemod(ms) == \E i \in DOMAIN ms : IsDemod(ms[i])

-----------------------------------------------------------------------------
(* Sliders have ranges: setValue takes what lies outside for the nearer    *)
(* end. The gain slider's is fixed, the squelch slider's comes with the    *)
(* system info; before the first it is that of the layout file.            *)

SliderRange(min, max) == [min |-> min, max |-> max]
GainRange == SliderRange(-1, 50)
DBM == SliderRange(-100, 0)
PCT == SliderRange(0, 100)   \* SNR too

AUTO_GAIN == -10

Fit(v, r) == IF v > r.max THEN r.max ELSE IF v < r.min THEN r.min ELSE v

-----------------------------------------------------------------------------
SessionInit ==
  /\ slider = [squelch |-> 0, gain |-> 0] /\ range = DBM /\ gainTimer = FALSE
  /\ gui = <<>> /\ page = "connect" /\ receiving = FALSE /\ events = <<>>
  /\ open = FALSE /\ up = <<>> /\ down = <<>>
  /\ buffer = Message(Info, 0, 0) /\ pending = <<>> /\ reply = <<>>
  /\ settings \in Stored /\ scale \in {DBM, PCT} /\ outbox = <<>>
  /\ moves = 0 /\ presses = 0 /\ sessions = 0
  /\ asked = {} /\ ran = NoRequest /\ lost = FALSE /\ cut = FALSE

-----------------------------------------------------------------------------
(* The GUI thread.                                                         *)

\* sendData: a socket that is closed makes the client disconnect once more.
SendData(m) == up' = IF open THEN Append(up, m) ELSE up

\* tryConnect, completeConnection: the thread starts, then three requests
\* follow, with pauses in which the GUI does nothing else.
Connect ==
  /\ page = "connect" /\ ~receiving /\ sessions < MaxSessions /\ sessions' = sessions + 1
  /\ page' = "wait" /\ receiving' = TRUE
  /\ gui' = <<Message(General, 0, 0), Message(General, 1, 0), Message(General, 2, 0)>>
  /\ open' = TRUE /\ up' = <<>> /\ down' = <<>> /\ pending' = <<>> /\ reply' = <<>>
  /\ asked' = {} /\ ran' = NoRequest /\ lost' = FALSE /\ cut' = FALSE
  /\ UNCHANGED <<slider, range, gainTimer, events, buffer, settings, scale, outbox, moves, presses>>

RequestContext ==
  /\ gui # <<>> /\ gui' = Tail(gui)
  /\ SendData(Head(gui))
  /\ UNCHANGED <<open, slider, range, gainTimer, page, receiving, events, cut, serverVars, down, bounds,
                 asked, ran, lost>>

\* The pauses of completeConnection run the event loop.
IdleMutant == TRUE
Idle == gui = <<>>
Moves == moves < MaxMoves /\ moves' = moves + 1
Presses == presses < MaxPresses /\ presses' = presses + 1

\* scan, hold, manualEntry
Press(request) ==
  /\ Idle /\ page = "scanner" /\ Presses
  /\ SendData(Message(Scanner, request, IF request = MANUAL THEN 1 ELSE 0))
  /\ asked' = asked \cup {request}
  /\ UNCHANGED <<open, clientVars, serverVars, down, moves, sessions, ran, lost>>

\* valueChanged: squelch goes out at once, gain when its timer ends.
MoveSquelch(v) ==
  /\ Idle /\ page = "scanner" /\ Moves /\ v # slider.squelch /\ v \in range.min..range.max
  /\ slider' = [slider EXCEPT !.squelch = v] /\ cut' = FALSE
  /\ SendData(Message(Demod, SET_SQUELCH, v))
  /\ UNCHANGED <<open, range, gainTimer, gui, page, receiving, events, serverVars, down, presses,
                 sessions, asked, ran, lost>>

MoveGain(v) ==
  /\ Idle /\ page = "scanner" /\ Moves /\ v # slider.gain /\ v \in GainRange.min..GainRange.max
  /\ slider' = [slider EXCEPT !.gain = v] /\ gainTimer' = TRUE
  /\ UNCHANGED <<open, range, gui, page, receiving, events, cut, serverVars, up, down, presses,
                 sessions, asked, ran, lost>>

SetGain ==
  /\ Idle /\ gainTimer /\ gainTimer' = FALSE
  /\ SendData(Message(Demod, SET_GAIN, slider.gain))
  /\ UNCHANGED <<open, slider, range, gui, page, receiving, events, cut, serverVars, down, bounds,
                 asked, ran, lost>>

\* setValue emits valueChanged although nothing changed.
EmitsMutant(old, new) == TRUE
Emits(old, new) == old # new

\* What setValue and setRange make of the squelch slider goes to the server.
SquelchSlides(v) ==
  IF Emits(slider.squelch, v) THEN SendData(Message(Demod, SET_SQUELCH, v)) ELSE UNCHANGED up

\* updateDemodContext: its two flags are locals, so that what it sets is
\* taken for the user's and sent back.
UpdateDemodContextMutant(s, g) ==
  /\ slider' = [slider EXCEPT !.squelch = Fit(s, range)]
  /\ SquelchSlides(Fit(s, range))
  /\ cut' = (Fit(s, range) = slider.squelch /\ (cut \/ s # slider.squelch))
  /\ UNCHANGED <<range, gainTimer>>
UpdateDemodContext(s, g) ==
  /\ slider' = [squelch |-> Fit(s, range), gain |-> Fit(g, GainRange)]
  /\ SquelchSlides(Fit(s, range))
  /\ gainTimer' = (gainTimer \/ Emits(slider.gain, Fit(g, GainRange)))
  /\ cut' = (Fit(s, range) = slider.squelch /\ (cut \/ s # slider.squelch))
  /\ UNCHANGED range

\* setSquelchRange: a value that the new range leaves out moves to its end.
SetSquelchRange(min, max) ==
  /\ range' = SliderRange(min, max)
  /\ slider' = [slider EXCEPT !.squelch = Fit(@, range')]
  /\ SquelchSlides(Fit(slider.squelch, range'))
  /\ cut' = (cut /\ Fit(slider.squelch, range') = slider.squelch)
  /\ UNCHANGED gainTimer

\* handleReceived, decodeMessage
HandleReceived ==
  LET m == Head(events)
  IN /\ Idle /\ events # <<>> /\ events' = Tail(events)
     /\ CASE m.which = Info -> SetSquelchRange(m.a, m.b)
          [] m.which # Info /\ m.type = DemodCtx -> UpdateDemodContext(m.a, m.b)
          [] OTHER -> UNCHANGED <<slider, range, gainTimer, cut, up>>
     /\ page' = IF page = "wait" /\ m.which # Info /\ m.type = ScannerCtx THEN "scanner" ELSE page
     /\ UNCHANGED <<open, gui, receiving, serverVars, down, bounds, asked, ran, lost>>

\* The socket is closed at once; the thread that reads it notices later.
Disconnect ==
  /\ Idle /\ page = "scanner" /\ open /\ open' = FALSE
  /\ UNCHANGED <<clientVars, serverVars, up, down, bounds, asked, ran, lost>>

-----------------------------------------------------------------------------
(* The socket monitor thread: recv returns what has come so far.           *)

\* Contexts that one read makes into something else.
Garbles(ms) == \E i \in DOMAIN ms : IsDemod(ms[i]) /\ Parse(ms) # ms[i]

Receive(n) ==
  /\ receiving /\ open /\ n \in 1..Len(down) /\ n <= MaxBatch
  /\ LET ms == SubSeq(down, 1, n)
     IN /\ events' = Append(events, Parse(ms))
        /\ lost' = (lost \/ Garbles(ms))
  /\ down' = SubSeq(down, n + 1, Len(down))
  /\ UNCHANGED <<open, slider, range, gainTimer, gui, page, receiving, cut, serverVars, up, bounds, asked, ran>>

\* showConnectDialog, with the signals sent before still to be handled.
ReceiveEnds ==
  /\ receiving /\ ~open /\ receiving' = FALSE
  /\ page' = "connect"
  /\ UNCHANGED <<open, slider, range, gainTimer, gui, events, cut, serverVars, up, down, bounds, asked, ran, lost>>

-----------------------------------------------------------------------------
(* The server.                                                             *)

\* SocketConnection::contextUpdate and the like: into the buffer, and an
\* asynchronous write of it.
Write(m) ==
  /\ buffer' = m /\ pending' = Append(pending, m)
  /\ lost' = (lost /\ m # Context(settings))

\* The write sends what the buffer holds by then, with the length it had.
Transmit ==
  /\ open /\ pending # <<>> /\ pending' = Tail(pending)
  /\ down' \in {Append(down, buffer)} \cup (IF buffer = Head(pending) THEN {} ELSE {down})
  /\ lost' = (lost \/ (IsDemod(Head(pending)) /\ buffer # Head(pending)))
  /\ UNCHANGED <<open, clientVars, buffer, reply, settings, scale, outbox, up, bounds, asked, ran>>

\* Demodulator::setSquelch, setTunerGain: stored and published.
Set(which, v) ==
  /\ settings' = [settings EXCEPT ![which] = IF which = "gain" /\ v < 0 THEN AUTO_GAIN ELSE v]
  /\ outbox' = Append(outbox, Context(settings'))

\* Requests about the settings that one read makes into something else.
AboutSettings(m) == m.type = Demod \/ m = Message(General, 1, 0)
Swallows(ms) == \E i \in DOMAIN ms : AboutSettings(ms[i]) /\ Parse(ms) # ms[i]

\* _handleRead: the type decides, the fields follow.
HandleRead(n) ==
  /\ open /\ reply = <<>> /\ n \in 1..Len(up) /\ n <= MaxBatch
  /\ LET ms == SubSeq(up, 1, n)
         m == Parse(ms)
         a == Field(m, m.a)
     IN /\ reply' = IF m.type # General THEN <<>>
                    ELSE CASE a = 0 -> <<Message(ScannerCtx, 0, 0)>>
                           [] a = 1 -> <<Context(settings)>>
                           [] OTHER -> <<SystemInfo>>
        /\ ran' = IF m.type = Scanner THEN a ELSE ran
        /\ IF m.type = Demod THEN Set(IF a = SET_GAIN THEN "gain" ELSE "squelch", Field(m, m.b))
           ELSE UNCHANGED <<settings, outbox>>
        /\ lost' = (lost \/ Swallows(ms))
  /\ up' = SubSeq(up, n + 1, Len(up))
  /\ UNCHANGED <<open, clientVars, buffer, pending, scale, down, bounds, asked>>

\* The reply is written after what it says was read.
Reply ==
  /\ reply # <<>> /\ reply' = <<>>
  /\ IF open THEN Write(Head(reply)) ELSE UNCHANGED <<buffer, pending, lost>>
  /\ UNCHANGED <<open, clientVars, settings, scale, outbox, up, down, bounds, asked, ran>>

\* The connection manager's thread passes a context on, or drops it when
\* nobody is connected.
Broadcast ==
  /\ outbox # <<>> /\ outbox' = Tail(outbox)
  /\ IF open THEN Write(Head(outbox)) ELSE UNCHANGED <<buffer, pending, lost>>
  /\ UNCHANGED <<open, clientVars, reply, settings, scale, up, down, bounds, asked, ran>>

SignalLevel ==
  /\ open /\ Presses
  /\ Write(Message(Level, 1, 0))
  /\ UNCHANGED <<open, clientVars, reply, settings, scale, outbox, up, down, moves, sessions, asked, ran>>

\* The console's squelch and gain commands, on its own thread.
ConsoleSets ==
  /\ Moves
  /\ \/ \E v \in Squelches : Set("squelch", v)
     \/ \E v \in Gains : Set("gain", v)
  /\ UNCHANGED <<open, clientVars, buffer, pending, reply, scale, up, down, presses, sessions, asked, ran, lost>>

-----------------------------------------------------------------------------
User ==
  \/ Connect \/ Disconnect
  \/ \E r \in {SCAN, HOLD, MANUAL} : Press(r)
  \/ \E v \in Squelches : MoveSquelch(v)
  \/ \E v \in Gains : MoveGain(v)
Gui == RequestContext \/ SetGain \/ HandleReceived
Monitor == (\E n \in 1..Len(down) : Receive(n)) \/ ReceiveEnds
Io == (\E n \in 1..Len(up) : HandleRead(n)) \/ Reply \/ Transmit

SessionNext == User \/ Gui \/ Monitor \/ Io \/ Broadcast \/ SignalLevel \/ ConsoleSets

\* Every thread runs; nobody has to touch a control.
SessionSpec ==
  /\ SessionInit /\ [][SessionNext]_sessionVars
  /\ WF_sessionVars(Gui) /\ WF_sessionVars(Monitor) /\ WF_sessionVars(Io) /\ WF_sessionVars(Broadcast)
=============================================================================
