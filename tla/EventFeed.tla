------------------------------- MODULE EventFeed -------------------------------
(***************************************************************************)
(* The event feed: EventBroadcaster (crates/core/src/events.rs) and one    *)
(* WebSocket session per subscriber, run_session in crates/api/src/routes/ *)
(* events.rs.  Every session reads the broadcast ring with a cursor of its *)
(* own and takes, in this order of preference, the heartbeat, the next     *)
(* event, the next frame of the client.                                    *)
(*                                                                         *)
(* Every send of a session waits for room in the outbox of the connection, *)
(* so a client that does not read stops the whole loop, heartbeat and idle *)
(* check included.  An event is its position in the broadcast; its content *)
(* and its label are left out.  Time advances only when no session has     *)
(* something to do: the sessions are not starved of processor time.        *)
(***************************************************************************)
EXTENDS Integers, Sequences, SequencesExt

CONSTANTS
  Clients,
  RingCap,             \* of the broadcast ring
  OutboxCap,           \* of the channel between a session and its connection
  HeartbeatInterval, IdleTimeout,
  MaxEvents, MaxClock, MaxConnects   \* bounds of the exploration

ASSUME FeedAssumption ==
  /\ {RingCap, OutboxCap, HeartbeatInterval, IdleTimeout} \subseteq Nat \ {0}
  /\ {MaxEvents, MaxClock, MaxConnects} \subseteq Nat

VARIABLES
  clock,
  sent,      \* events broadcast so far
  session,   \* the loop of run_session
  outbox,    \* frames written and not yet read by the client
  inbox,     \* frames of the client not yet read by the session
  gone,      \* the connection is closed on the client's side
  connects,  \* connections made
  heard,     \* history: the last event the client has read, and if a notice came since
  spoke,     \* history: when the client last sent a frame
  slack      \* history: "SILENT" if the client once was, for IdleTimeout; "HELD" if
             \* it once kept the session waiting for room

vars == <<clock, sent, session, outbox, inbox, gone, connects, heard, spoke, slack>>
wire == <<outbox, inbox, gone>>
past == <<heard, spoke, slack>>

Event(p) == [kind |-> "EVENT", pos |-> p]
Frame(k) == [kind |-> k, pos |-> 0]
Frames   == {Frame(k) : k \in {"PING", "PONG", "LAGGED"}} \cup {Event(p) : p \in 1..MaxEvents}
Nothing  == Frame("NOTHING")
Spoken   == {"PING", "PONG", "TEXT", "CLOSE"}

\* A loop at SELECT holds nothing; at SEND it holds the frame it waits to write.
NoSession == [at |-> "NONE", next |-> 1, beat |-> 0, seen |-> 0, hand |-> Nothing]

HeardUpTo(p) == [last |-> p, noticed |-> FALSE]

Init ==
  /\ clock = 0 /\ sent = 0
  /\ session = [c \in Clients |-> NoSession]
  /\ outbox = [c \in Clients |-> <<>>] /\ inbox = [c \in Clients |-> <<>>]
  /\ gone = [c \in Clients |-> FALSE] /\ connects = [c \in Clients |-> 0]
  /\ heard = [c \in Clients |-> HeardUpTo(0)] /\ spoke = [c \in Clients |-> 0]
  /\ slack = [c \in Clients |-> {}]

-----------------------------------------------------------------------------
(* The broadcast ring *)

\* The oldest event the ring still holds.
Oldest == IF sent > RingCap THEN sent - RingCap + 1 ELSE 1

\* EventBroadcaster::send: never waits, overwrites what nobody has read.
Send ==
  /\ sent < MaxEvents
  /\ sent' = sent + 1
  /\ UNCHANGED <<clock, session, wire, connects, past>>

-----------------------------------------------------------------------------
(* run_session *)

IsOpen(c)  == session[c].at \in {"SELECT", "SEND"}
HasRoom(c) == Len(outbox[c]) < OutboxCap
IsDue(c)   == session[c].beat <= clock

Selecting(c) == session[c].at = "SELECT"

Writing(s, frame) == [s EXCEPT !.at = "SEND", !.hand = frame]

\* Mutant: what the session writes counts as activity of the client.
RestingSeen(s) == [s EXCEPT !.at = "SELECT", !.hand = Nothing, !.seen = clock]

Resting(s) == [s EXCEPT !.at = "SELECT", !.hand = Nothing]

\* The upgrade is answered, the session subscribes and skips the first beat.  The
\* client may have been here before.
Connect(c) ==
  /\ ~IsOpen(c) /\ connects[c] < MaxConnects
  /\ connects' = [connects EXCEPT ![c] = @ + 1]
  /\ session' = [session EXCEPT ![c] =
       [at |-> "SELECT", next |-> sent + 1, beat |-> clock + HeartbeatInterval, seen |-> clock,
        hand |-> Nothing]]
  /\ outbox' = [outbox EXCEPT ![c] = <<>>] /\ inbox' = [inbox EXCEPT ![c] = <<>>]
  /\ gone' = [gone EXCEPT ![c] = FALSE]
  /\ heard' = [heard EXCEPT ![c] = HeardUpTo(sent)]
  /\ spoke' = [spoke EXCEPT ![c] = clock] /\ slack' = [slack EXCEPT ![c] = {}]
  /\ UNCHANGED <<clock, sent>>

\* MissedTickBehavior::Skip: the beats that were missed are left out, the others
\* stay where they were.
NextBeat(beat) == beat + ((clock - beat) \div HeartbeatInterval + 1) * HeartbeatInterval

\* First arm: the ping is written before the idle check.
Heartbeat(c) ==
  /\ Selecting(c) /\ IsDue(c)
  /\ session' = [session EXCEPT ![c] =
       Writing([session[c] EXCEPT !.beat = NextBeat(session[c].beat)], Frame("PING"))]
  /\ UNCHANGED <<clock, sent, wire, connects, past>>

\* Mutant: a cursor that was overtaken goes on at the oldest event, unsaid.
TakeSilently(s) ==
  LET p == IF s.next < Oldest THEN Oldest ELSE s.next
  IN  Writing([s EXCEPT !.next = p + 1], Event(p))

\* Mutant: a cursor that was overtaken stays where it is.
TakeStaying(s) ==
  IF s.next < Oldest
    THEN Writing(s, Frame("LAGGED"))
    ELSE Writing([s EXCEPT !.next = @ + 1], Event(s.next))

\* recv: the next event, or the notice that some were overwritten, after which
\* the cursor stands at the oldest.
Take(s) ==
  IF s.next < Oldest
    THEN Writing([s EXCEPT !.next = Oldest], Frame("LAGGED"))
    ELSE Writing([s EXCEPT !.next = @ + 1], Event(s.next))

\* Second arm.
Receive(c) ==
  /\ Selecting(c) /\ ~IsDue(c) /\ session[c].next <= sent
  /\ session' = [session EXCEPT ![c] = Take(@)]
  /\ UNCHANGED <<clock, sent, wire, connects, past>>

\* Mutant: only frames of the client's own making count, not its pongs.
AnswerIgnoringPong(s, frame) ==
  CASE frame = "CLOSE" -> [s EXCEPT !.at = "CLOSED"]
    [] frame = "PING"  -> Writing([s EXCEPT !.seen = clock], Frame("PONG"))
    [] frame = "TEXT"  -> [s EXCEPT !.seen = clock]
    [] OTHER           -> s

\* What a frame of the client makes of the session.
Answer(s, frame) ==
  CASE frame = "CLOSE" -> [s EXCEPT !.at = "CLOSED"]
    [] frame = "PING"  -> Writing([s EXCEPT !.seen = clock], Frame("PONG"))
    [] OTHER           -> [s EXCEPT !.seen = clock]

\* Third arm.
Inbound(c) ==
  /\ Selecting(c) /\ ~IsDue(c) /\ session[c].next > sent /\ inbox[c] # <<>>
  /\ session' = [session EXCEPT ![c] = Answer(@, Head(inbox[c]))]
  /\ inbox' = [inbox EXCEPT ![c] = Tail(@)]
  /\ UNCHANGED <<clock, sent, outbox, gone, connects, past>>

\* At equality the instants within a unit decide.
MayIdle(s) == clock - s.seen >= IdleTimeout
MayStay(s) == clock - s.seen <= IdleTimeout

\* The frame in hand is written; after a ping comes the idle check.
Write(c) ==
  /\ session[c].at = "SEND" /\ ~gone[c] /\ HasRoom(c)
  /\ outbox' = [outbox EXCEPT ![c] = Append(@, session[c].hand)]
  /\ \/ /\ session[c].hand.kind = "PING" /\ MayIdle(session[c])
        /\ session' = [session EXCEPT ![c].at = "IDLED"]
     \/ /\ session[c].hand.kind = "PING" => MayStay(session[c])
        /\ session' = [session EXCEPT ![c] = Resting(@)]
  /\ UNCHANGED <<clock, sent, inbox, gone, connects, past>>

\* The connection is closed: the session ends, unless it was the notice that
\* could not be written.
WriteFails(c) ==
  /\ session[c].at = "SEND" /\ gone[c]
  /\ session' = [session EXCEPT ![c] =
       IF @.hand.kind = "LAGGED" THEN Resting(@) ELSE [@ EXCEPT !.at = "CLOSED"]]
  /\ UNCHANGED <<clock, sent, wire, connects, past>>

Run(c) == Heartbeat(c) \/ Receive(c) \/ Inbound(c) \/ Write(c) \/ WriteFails(c)

-----------------------------------------------------------------------------
(* The clients and time *)

\* The client, or the network on its behalf, takes the next frame; a client that is
\* there answers a ping with a pong.
Read(c) ==
  /\ outbox[c] # <<>> /\ ~gone[c]
  /\ outbox' = [outbox EXCEPT ![c] = Tail(@)]
  /\ LET frame == Head(outbox[c])
     IN  /\ heard' = CASE frame.kind = "EVENT"  -> [heard EXCEPT ![c] = HeardUpTo(frame.pos)]
                        [] frame.kind = "LAGGED" -> [heard EXCEPT ![c].noticed = TRUE]
                        [] OTHER                 -> heard
         /\ \/ /\ frame.kind = "PING"
               /\ inbox' = [inbox EXCEPT ![c] = Append(@, "PONG")]
               /\ spoke' = [spoke EXCEPT ![c] = clock]
            \/ UNCHANGED <<inbox, spoke>>
  /\ UNCHANGED <<clock, sent, session, gone, connects, slack>>

\* The client sends a frame of its own, at most one ahead of the session.
Speak(c) ==
  /\ IsOpen(c) /\ ~gone[c] /\ inbox[c] = <<>>
  /\ \E frame \in {"PING", "TEXT"} : inbox' = [inbox EXCEPT ![c] = <<frame>>]
  /\ spoke' = [spoke EXCEPT ![c] = clock]
  /\ UNCHANGED <<clock, sent, session, outbox, gone, connects, heard, slack>>

\* The client closes the connection.
Leave(c) ==
  /\ IsOpen(c) /\ ~gone[c]
  /\ gone' = [gone EXCEPT ![c] = TRUE]
  /\ inbox' = [inbox EXCEPT ![c] = Append(@, "CLOSE")]
  /\ UNCHANGED <<clock, sent, session, outbox, connects, past>>

\* The session has nothing to do but wait for time, an event or its client.
IsWaiting(c) ==
  \/ session[c].at \notin {"SELECT", "SEND"}
  \/ Selecting(c) /\ ~IsDue(c) /\ session[c].next > sent /\ inbox[c] = <<>>
  \/ session[c].at = "SEND" /\ ~gone[c] /\ ~HasRoom(c)

Tick ==
  /\ clock < MaxClock
  /\ \A c \in Clients : IsWaiting(c)
  /\ clock' = clock + 1
  /\ slack' = [c \in Clients |->
       slack[c] \cup (IF session[c].at = "SEND" THEN {"HELD"} ELSE {})
                \cup (IF clock + 1 - spoke[c] >= IdleTimeout THEN {"SILENT"} ELSE {})]
  /\ UNCHANGED <<sent, session, wire, connects, heard, spoke>>

Next ==
  \/ Send
  \/ Tick
  \/ \E c \in Clients : Connect(c) \/ Run(c) \/ Read(c) \/ Speak(c) \/ Leave(c)

\* The executor polls a session as long as it has something to do.
Spec == Init /\ [][Next]_vars /\ \A c \in Clients : WF_vars(Run(c))

-----------------------------------------------------------------------------
(* Properties *)

\* The variables hold what their declarations say, no frame is in an outbox
\* beyond its capacity, no cursor past the event to come, and no beat further off
\* than an interval.
TypeOK ==
  /\ clock \in 0..MaxClock /\ sent \in 0..MaxEvents
  /\ session \in [Clients -> [at : {"NONE", "SELECT", "SEND", "IDLED", "CLOSED"},
                              next : 1..(sent + 1), beat : 0..(clock + HeartbeatInterval),
                              seen : 0..clock, hand : Frames \cup {Nothing}]]
  /\ outbox \in [Clients -> Seq(Frames)] /\ \A c \in Clients : Len(outbox[c]) <= OutboxCap
  /\ inbox \in [Clients -> Seq(Spoken)]
  /\ connects \in [Clients -> 0..MaxConnects]
  /\ gone \in [Clients -> BOOLEAN] /\ slack \in [Clients -> SUBSET {"SILENT", "HELD"}]
  /\ spoke \in [Clients -> 0..clock]
  /\ heard \in [Clients -> [last : 0..sent, noticed : BOOLEAN]]

\* A subscriber gets the events from its subscription on in the order they were
\* broadcast, none of them twice, and where some are missing a "lagged" notice
\* comes before the next one, however the ring, the outbox and the client's
\* reading overtake each other.
GapsAnnounced ==
  \A c \in Clients :
    outbox[c] # <<>> /\ Head(outbox[c]).kind = "EVENT" =>
      LET p == Head(outbox[c]).pos IN
      \/ p = heard[c].last + 1
      \/ p > heard[c].last /\ heard[c].noticed

\* "idle timeout" ends only sessions whose client was silent for
\* IDLE_TIMEOUT, or kept the loop waiting for room in the outbox: a client that
\* reads, and answers the pings, keeps its session.
IdledWasSlack == \A c \in Clients : session[c].at = "IDLED" => slack[c] # {}

\* A client that is silent loses its session at the heartbeat after IDLE_TIMEOUT,
\* whatever is broadcast meanwhile, if the loop was never held up in a send.
SilentIsClosed ==
  \A c \in Clients :
    Selecting(c) /\ IsWaiting(c) /\ "HELD" \notin slack[c] =>
      clock - spoke[c] <= IdleTimeout + HeartbeatInterval

\* A session gets through the events that were broadcast: again and again it has
\* none left, or has ended, or its client leaves it no room to write.
EventuallyServed ==
  \A c \in Clients : []<>(~IsOpen(c) \/ session[c].next > sent \/ ~HasRoom(c))
-----------------------------------------------------------------------------
(* The inductive invariant behind the properties *)

IsEvent(frame) == frame.kind = "EVENT"

NoEventIn(frames, i, j) == \A m \in i..j : ~IsEvent(frames[m])

\* An event among the frames comes after its predecessor, or after a notice that
\* is nearer than any event; h is what was heard before them.
Announced(frames, h, j) ==
  \/ frames[j].pos = h.last + 1
  \/ h.noticed /\ NoEventIn(frames, 1, j - 1)
  \/ \E i \in 1..j - 1 : IsEvent(frames[i]) /\ frames[j].pos = frames[i].pos + 1
  \/ \E k \in 1..j - 1 : frames[k].kind = "LAGGED" /\ NoEventIn(frames, k + 1, j - 1)

Told(frames, h) == \A j \in 1..Len(frames) : IsEvent(frames[j]) =>
  /\ frames[j].pos > h.last
  /\ \A i \in 1..j - 1 : IsEvent(frames[i]) => frames[i].pos < frames[j].pos
  /\ Announced(frames, h, j)

\* What a client has yet to read, down to the event its session comes to next.
Ahead(c) ==
  LET frames == IF session[c].at = "SEND" THEN Append(outbox[c], session[c].hand) ELSE outbox[c]
  IN  Append(frames, Event(session[c].next))

StreamInv(c) ==
  /\ Told(outbox[c], heard[c])
  /\ IsOpen(c) /\ ~gone[c] => Told(Ahead(c), heard[c])
  /\ \A i \in 1..Len(outbox[c]) : IsEvent(outbox[c][i]) => outbox[c][i].pos <= sent
  /\ IsEvent(session[c].hand) => session[c].hand.pos <= sent
  /\ session[c].at = "SEND" => session[c].hand # Nothing

\* Only what the client just sent waits to be read; what was read counts from then.
SpokenInv(c) ==
  /\ (\E i \in 1..Len(inbox[c]) : inbox[c][i] # "CLOSE") => spoke[c] = clock
  /\ session[c].seen <= spoke[c]
  /\ spoke[c] <= session[c].seen \/ (spoke[c] = clock /\ inbox[c] # <<>>)

\* A ping whose idle check is still to come.
Pinging(c) == session[c].at = "SEND" /\ session[c].hand.kind = "PING"

\* The beat is kept to the unit, and at the last one the client was not yet idle.
BeatInv(c) ==
  /\ clock <= session[c].beat
  /\ IF Pinging(c) THEN session[c].beat = clock + HeartbeatInterval
     ELSE session[c].beat - HeartbeatInterval - session[c].seen <= IdleTimeout

TimeInv(c) ==
  /\ clock - spoke[c] >= IdleTimeout => "SILENT" \in slack[c]
  /\ IsOpen(c) /\ "HELD" \notin slack[c] => SpokenInv(c) /\ BeatInv(c)
  /\ IsOpen(c) /\ slack[c] = {} => clock - session[c].seen < IdleTimeout
  /\ session[c].at = "IDLED" => slack[c] # {}

FeedInv == TypeOK /\ \A c \in Clients : StreamInv(c) /\ TimeInv(c)
===============================================================================
