-------------------------- MODULE ClientProperties --------------------------
(* What a client and the server it is connected to agree on.               *)
EXTENDS Client, FiniteSets

InFlight == outbox \o pending \o reply \o down \o events
Quiet ==
  /\ page # "connect" /\ receiving /\ open /\ Idle /\ up = <<>> /\ ~gainTimer
  /\ InFlight = <<>>

\* When nothing is on its way the sliders show the server's settings, the
\* gain's to the ends of its slider, whoever changed them last and whatever
\* overtook what, unless the last change was swallowed: merged with others in
\* one read, or overwritten in the write buffer. A squelch beyond the slider's
\* range that does not even move it is told to nobody
\* (SocketConnection.cpp, Scanner.updateDemodContext and setSquelchRange).
SlidersAgree ==
  Quiet => \/ lost
           \/ /\ slider.squelch = settings.squelch \/ cut
              /\ slider.gain = Fit(settings.gain, GainRange)

\* The scanner only does what the user asked for in this session. A read
\* that merges requests may lose one, never invent one: the requests for
\* contexts, whose type is not written, all come first
\* (SocketConnection::_handleRead, PiScanClient.completeConnection).
ScanRequestsAreAsked == ran # NoRequest => ran \in asked

\* Two values of the same setting are on their way at once.
Values(k) ==
  {m[k] : m \in {x \in Range(InFlight) : IsDemod(x)}}
Sent(f) == {m.b : m \in {x \in Range(up) : open /\ x.type = Demod /\ x.a = f}}
Echo ==
  \/ Cardinality(Values("a") \cup Sent(SET_SQUELCH)) > 1
  \/ Cardinality(Values("b") \cup Sent(SET_GAIN)) > 1

Still == open => ~HasDemod(InFlight) /\ Sent(SET_SQUELCH) \cup Sent(SET_GAIN) = {}

\* Client and server send a setting to each other for ever only if two
\* values of it follow one another round: one value alone dies down
\* (Scanner.updateDemodContext sends back what it is given,
\* Demodulator::_contextUpdate publishes what it is sent).
OneValueDiesDown == <>[]~Echo => <>[]Still
=============================================================================
