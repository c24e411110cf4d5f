--------------------------- MODULE CouncilWatcher ---------------------------
(***************************************************************************)
(* How the provider learns what its councils decide about it.              *)
(*                                                                         *)
(*   watcher   crates/core/src/pipelines/event_watcher.rs                  *)
(*             replays the contract events of every council it has a row   *)
(*             for, from an in-memory cursor; converges the channel states *)
(*             by query at boot and when the cursor fell out of retention  *)
(*   converge  crates/core/src/pipelines/membership_convergence.rs         *)
(*             asks each council for the provider's status, at boot and    *)
(*             whenever the operator asks for a sync                       *)
(*   join      crates/api/src/routes/council.rs  post_join                 *)
(*                                                                         *)
(* The councils and the RPC server are external.  A council has one        *)
(* privacy channel here; its events are numbered by ledger, one each.      *)
(* Every query, every HTTP request and every RPC call is a step.           *)
(***************************************************************************)
EXTENDS Naturals, Sequences

CONSTANTS
  Councils,    \* channel-auth contract ids
  MaxEvents,   \* events a council ever emits (bound)
  MaxRows,     \* membership rows ever inserted (bound)
  MaxCrashes,  \* restarts (bound)
  EventLimit,  \* EVENT_LIMIT: events per page (100 in the code)
  Faults       \* which of FaultKinds this instance lets happen

FaultKinds == {
  "rpc",        \* getHealth or getEvents fails
  "db",         \* a query fails, before or after the database applied it
  "council",    \* a council does not answer
  "downtime",   \* events fall out of retention while the process is down,
  "outage",     \* ... while getEvents keeps failing
  "oldHistory", \* events fall out of retention before the provider joined
  "others",     \* a council adds and removes other providers too
  "sync",       \* the operator asks for a sync while the watcher works
  "rejoin" }    \* the operator joins a council there is already a row for

ASSUME WatcherBounds ==
  /\ MaxEvents \in Nat
  /\ MaxRows \in Nat
  /\ MaxCrashes \in Nat
  /\ EventLimit \in Nat \ {0}
  /\ Faults \subseteq FaultKinds

MembershipEvents == {"added", "removed"}
OtherEvents      == {"otherAdded", "otherRemoved"}
ChannelEvents    == {"enabled", "disabled"}
Events           == MembershipEvents \cup OtherEvents \cup ChannelEvents

MembershipStatus == {"PENDING", "ACTIVE", "REJECTED"}
ChannelState     == {"UNKNOWN", "ENABLED", "DISABLED"}
NoAnswer         == "NONE"
NoCouncil        == "NONE"
Rows             == [council : Councils, status : MembershipStatus]
Converging       == {"boot", "operator"}

VARIABLES
  \* ---- the councils and the RPC server ----
  log,            \* council -> its contract's events, one a ledger
  first,          \* council -> the oldest ledger still retained
  asked,          \* councils that hold an undecided join request
  \* ---- tables council_memberships and channel_states ----
  memberships,    \* rows in created_at order
  channelStates,  \* council -> state of its channel ("UNKNOWN": no row)
  \* ---- the process ----
  cursors,        \* council -> the next ledger to read (0: no entry)
  crashes,
  wPc,            \* the watcher: boot, then ticks
  wQueue,         \* councils of the rows the tick has still to handle
  wFrom,          \* the ledger its page starts at; once read, the page's cursor
  wPage,          \* events of the page still to apply
  chQueue,        \* converge_channel_states: councils still to ask
  chAnswer,
  mbBusy,         \* converge_membership_statuses, one instance per caller
  mbQueue,        \* rows, as listed, it has still to ask about
  mbAnswer,
  joining         \* council whose join request was accepted, row not inserted

chainVars == <<log, first, asked>>
tableVars == <<memberships, channelStates>>
tickVars  == <<wPc, wQueue, wFrom, wPage>>
chVars    == <<chQueue, chAnswer>>
mbVars    == <<mbBusy, mbQueue, mbAnswer>>
vars == <<chainVars, tableVars, cursors, crashes, tickVars, chVars, mbVars, joining>>

Asking == {"bootChannels", "recoverChannels"}
WPcs   == {"down", "boot", "members", "idle", "next", "fetch", "recover", "refetch", "apply"} \cup Asking

\* Every variable keeps its type.
TypeOK ==
  /\ log \in [Councils -> Seq(Events)]
  /\ first \in [Councils -> Nat \ {0}]
  /\ asked \subseteq Councils
  /\ memberships \in Seq(Rows)
  /\ channelStates \in [Councils -> ChannelState]
  /\ cursors \in [Councils -> Nat]
  /\ crashes \in 0..MaxCrashes
  /\ wPc \in WPcs
  /\ wQueue \in Seq(Councils)
  /\ wFrom \in Nat
  /\ wPage \in Seq(Events)
  /\ chQueue \in Seq(Councils)
  /\ chAnswer \in ChannelState \cup {NoAnswer}
  /\ mbBusy \in [Converging -> BOOLEAN]
  /\ mbQueue \in [Converging -> Seq(Rows)]
  /\ mbAnswer \in [Converging -> MembershipStatus \cup {NoAnswer}]
  /\ joining \in Councils \cup {NoCouncil}

NoCursors == [c \in Councils |-> 0]
NoRows    == [p \in Converging |-> <<>>]
Quiet     == [p \in Converging |-> FALSE]
NoAnswers == [p \in Converging |-> NoAnswer]

Init ==
  /\ log = [c \in Councils |-> <<>>]
  /\ first = [c \in Councils |-> 1]
  /\ asked = {}
  /\ memberships = <<>>
  /\ channelStates = [c \in Councils |-> "UNKNOWN"]
  /\ cursors = NoCursors
  /\ crashes = 0
  /\ wPc = "boot" /\ wQueue = <<>> /\ wFrom = 0 /\ wPage = <<>>
  /\ chQueue = <<>> /\ chAnswer = NoAnswer
  /\ mbBusy = Quiet /\ mbQueue = NoRows /\ mbAnswer = NoAnswers
  /\ joining = NoCouncil

-----------------------------------------------------------------------------
(* What a council has decided, and what it answers when asked *)

\* Ledgers in lo..hi-1 that hold an event of kinds K.
At(c, K, lo, hi) == {i \in 1..Len(log[c]) : lo <= i /\ i < hi /\ log[c][i] \in K}
LastOf(S)  == CHOOSE i \in S : \A j \in S : j <= i
End(c)     == Len(log[c]) + 1

\* What a handled event makes of the row it is about.
Verdict(event) == CASE event = "added"    -> "ACTIVE"
                    [] event = "removed"  -> "REJECTED"
                    [] event = "enabled"  -> "ENABLED"
                    [] event = "disabled" -> "DISABLED"

\* The topic decides alone: whose provider the payload names is not read.
Topic(event) == CASE event = "otherAdded"   -> "added"
                  [] event = "otherRemoved" -> "removed"
                  [] OTHER -> event

Decided(c, K, default) ==
  LET S == At(c, K, 1, End(c)) IN IF S = {} THEN default ELSE log[c][LastOf(S)]

Member(c) == Decided(c, MembershipEvents, "removed") = "added"

\* membership-status: 200 for a member, 202 for a request, 404 otherwise.
CouncilSays(c) == IF Member(c) THEN "ACTIVE" ELSE IF c \in asked THEN "PENDING" ELSE "REJECTED"
\* public/council: the status of the council's channel.
ChannelSays(c) == IF Decided(c, ChannelEvents, "enabled") = "disabled" THEN "DISABLED" ELSE "ENABLED"

Emit(c, event) == log' = [log EXCEPT ![c] = Append(@, event)]

Decide(c) ==
  /\ Len(log[c]) < MaxEvents
  /\ \/ c \in asked /\ Emit(c, "added") /\ asked' = asked \ {c}
     \/ c \in asked /\ asked' = asked \ {c} /\ UNCHANGED log
     \/ Member(c) /\ Emit(c, "removed") /\ UNCHANGED asked
     \/ ChannelSays(c) = "ENABLED" /\ Emit(c, "disabled") /\ UNCHANGED asked
     \/ ChannelSays(c) = "DISABLED" /\ Emit(c, "enabled") /\ UNCHANGED asked
     \/ "others" \in Faults /\ (\E e \in OtherEvents : Emit(c, e)) /\ UNCHANGED asked
  /\ UNCHANGED <<first, tableVars, cursors, crashes, tickVars, chVars, mbVars, joining>>

HasRow(c) == \E i \in 1..Len(memberships) : memberships[i].council = c

Forget(c) ==
  /\ first[c] < End(c)
  /\ \/ "downtime" \in Faults /\ HasRow(c) /\ wPc = "down"
     \/ "outage" \in Faults /\ HasRow(c) /\ wPc = "idle" /\ cursors[c] > 0
     \/ "oldHistory" \in Faults /\ ~HasRow(c) /\ joining # c
  /\ first' = [first EXCEPT ![c] = @ + 1]
  /\ UNCHANGED <<log, asked, tableVars, cursors, crashes, tickVars, chVars, mbVars, joining>>

-----------------------------------------------------------------------------
(* The two tables *)

\* list_active: the newest row first.
NewestFirst == [i \in 1..Len(memberships) |-> memberships[Len(memberships) + 1 - i]]
ListedCouncils == [i \in 1..Len(memberships) |-> NewestFirst[i].council]

\* Mutant: only a row that waits is decided.
SetStatusOfPending(c, status) ==
  memberships' = [i \in 1..Len(memberships) |->
    IF memberships[i] = [council |-> c, status |-> "PENDING"]
    THEN [council |-> c, status |-> status] ELSE memberships[i]]

\* set_status has no condition on the status it overwrites, and updates
\* every row of the council.
SetStatus(c, status) ==
  memberships' = [i \in 1..Len(memberships) |->
    IF memberships[i].council = c THEN [memberships[i] EXCEPT !.status = status] ELSE memberships[i]]

\* Mutant: ON CONFLICT DO NOTHING.
ApplyStateOnce(c, state) ==
  channelStates' = [channelStates EXCEPT ![c] = IF @ = "UNKNOWN" THEN state ELSE @]

\* apply_state: an upsert that last_event_ledger does not guard.
ApplyState(c, state) == channelStates' = [channelStates EXCEPT ![c] = state]

-----------------------------------------------------------------------------
(* POST /provider/council/join *)

Join(c) ==
  /\ wPc # "down" /\ joining = NoCouncil
  /\ c \notin asked                                        \* 409 otherwise
  /\ Len(memberships) < MaxRows
  /\ ~HasRow(c) \/ "rejoin" \in Faults
  /\ asked' = asked \cup {c} /\ joining' = c
  /\ UNCHANGED <<log, first, tableVars, cursors, crashes, tickVars, chVars, mbVars>>

InsertRow ==
  /\ joining # NoCouncil
  /\ \/ memberships' = Append(memberships, [council |-> joining, status |-> "PENDING"])
     \/ "db" \in Faults /\ UNCHANGED memberships
  /\ joining' = NoCouncil
  /\ UNCHANGED <<chainVars, channelStates, cursors, crashes, tickVars, chVars, mbVars>>

-----------------------------------------------------------------------------
(* converge_membership_statuses *)

\* run calls it once after the channels; post_membership whenever asked.
BeginMemberships(p) ==
  /\ ~mbBusy[p]
  /\ IF p = "boot" THEN wPc = "members" ELSE "sync" \in Faults /\ wPc # "down"
  /\ mbBusy' = [mbBusy EXCEPT ![p] = TRUE]
  /\ \/ mbQueue' = [mbQueue EXCEPT ![p] = NewestFirst]
     \/ "db" \in Faults /\ UNCHANGED mbQueue
  /\ UNCHANGED <<chainVars, tableVars, cursors, crashes, tickVars, chVars, mbAnswer, joining>>

\* A council that does not answer, and an answer that agrees with the row as
\* it was listed, leave the row alone.
AskMembership(p) ==
  /\ mbQueue[p] # <<>> /\ mbAnswer[p] = NoAnswer
  /\ LET row == Head(mbQueue[p])
         says == CouncilSays(row.council)
     IN \/ /\ says # row.status
           /\ mbAnswer' = [mbAnswer EXCEPT ![p] = says]
           /\ UNCHANGED mbQueue
        \/ /\ says = row.status \/ "council" \in Faults
           /\ mbQueue' = [mbQueue EXCEPT ![p] = Tail(@)]
           /\ UNCHANGED mbAnswer
  /\ UNCHANGED <<chainVars, tableVars, cursors, crashes, tickVars, chVars, mbBusy, joining>>

\* A failed write ends the pass: the rows behind it are not asked about.
StoreMembership(p) ==
  /\ mbAnswer[p] # NoAnswer
  /\ mbAnswer' = [mbAnswer EXCEPT ![p] = NoAnswer]
  /\ \/ /\ SetStatus(Head(mbQueue[p]).council, mbAnswer[p])
        /\ mbQueue' = [mbQueue EXCEPT ![p] = Tail(@)]
     \/ /\ "db" \in Faults
        /\ UNCHANGED memberships \/ SetStatus(Head(mbQueue[p]).council, mbAnswer[p])
        /\ mbQueue' = [mbQueue EXCEPT ![p] = <<>>]
  /\ UNCHANGED <<chainVars, channelStates, cursors, crashes, tickVars, chVars, mbBusy, joining>>

EndMemberships(p) ==
  /\ mbBusy[p] /\ mbQueue[p] = <<>>
  /\ mbBusy' = [mbBusy EXCEPT ![p] = FALSE]
  /\ wPc' = IF p = "boot" THEN "idle" ELSE wPc
  /\ UNCHANGED <<chainVars, tableVars, cursors, crashes, wQueue, wFrom, wPage, chVars,
                 mbQueue, mbAnswer, joining>>

-----------------------------------------------------------------------------
(* converge_channel_states: its failures never reach the caller *)

\* Mutant: the recovery skips the convergence.
BeginChannelsAtBoot ==
  /\ \/ wPc = "boot" /\ wPc' = "bootChannels" /\ chQueue' = ListedCouncils
     \/ wPc = "recover" /\ wPc' = "recoverChannels" /\ chQueue' = <<>>
  /\ UNCHANGED <<chainVars, tableVars, cursors, crashes, wQueue, wFrom, wPage, chAnswer,
                 mbVars, joining>>

BeginChannels ==
  /\ \/ wPc = "boot" /\ wPc' = "bootChannels"
     \/ wPc = "recover" /\ wPc' = "recoverChannels"
  /\ chQueue' = ListedCouncils \/ ("db" \in Faults /\ chQueue' = <<>>)
  /\ UNCHANGED <<chainVars, tableVars, cursors, crashes, wQueue, wFrom, wPage, chAnswer,
                 mbVars, joining>>

AskChannel ==
  /\ wPc \in Asking /\ chQueue # <<>> /\ chAnswer = NoAnswer
  /\ \/ chAnswer' = ChannelSays(Head(chQueue)) /\ UNCHANGED chQueue
     \/ "council" \in Faults /\ chQueue' = Tail(chQueue) /\ UNCHANGED chAnswer
  /\ UNCHANGED <<chainVars, tableVars, cursors, crashes, tickVars, mbVars, joining>>

StoreChannel ==
  /\ chAnswer # NoAnswer
  /\ ApplyState(Head(chQueue), chAnswer) \/ ("db" \in Faults /\ UNCHANGED channelStates)
  /\ chQueue' = Tail(chQueue) /\ chAnswer' = NoAnswer
  /\ UNCHANGED <<chainVars, memberships, cursors, crashes, tickVars, mbVars, joining>>

EndChannels ==
  /\ wPc \in Asking /\ chQueue = <<>>
  /\ wPc' = IF wPc = "bootChannels" THEN "members" ELSE "refetch"
  /\ UNCHANGED <<chainVars, tableVars, cursors, crashes, wQueue, wFrom, wPage, chVars,
                 mbVars, joining>>

-----------------------------------------------------------------------------
(* run_tick *)

\* A tick whose list_active fails changes nothing.
Tick ==
  /\ wPc = "idle" /\ wPc' = "next"
  /\ wQueue' = ListedCouncils
  /\ UNCHANGED <<chainVars, tableVars, cursors, crashes, wFrom, wPage, chVars, mbVars, joining>>

\* `?` inside the loop: the councils behind this one wait for the next tick.
AbortTick == wPc' = "idle" /\ wQueue' = <<>> /\ wFrom' = 0 /\ wPage' = <<>>

\* Without a cursor the tick asks getHealth where history begins.
NextCouncil ==
  /\ wPc = "next" /\ wQueue # <<>>
  /\ LET c == Head(wQueue) IN
     \/ /\ wFrom' = IF cursors[c] > 0 THEN cursors[c] ELSE first[c]
        /\ wPc' = "fetch" /\ UNCHANGED <<wQueue, wPage>>
     \/ "rpc" \in Faults /\ cursors[c] = 0 /\ AbortTick
  /\ UNCHANGED <<chainVars, tableVars, cursors, crashes, chVars, mbVars, joining>>

EndTick ==
  /\ wPc = "next" /\ wQueue = <<>> /\ wPc' = "idle"
  /\ UNCHANGED <<chainVars, tableVars, cursors, crashes, wQueue, wFrom, wPage, chVars,
                 mbVars, joining>>

SkipCouncil == wPc' = "next" /\ wQueue' = Tail(wQueue) /\ wFrom' = 0 /\ wPage' = <<>>

PageLen(c, from) == IF End(c) - from < EventLimit THEN End(c) - from ELSE EventLimit

ReadPage(c) ==
  /\ wFrom >= first[c]
  /\ wPage' = [k \in 1..PageLen(c, wFrom) |-> log[c][wFrom + k - 1]]
  /\ wFrom' = wFrom + PageLen(c, wFrom)
  /\ wPc' = "apply" /\ UNCHANGED wQueue

\* getEvents.  A start below retention is answered with the retained range:
\* the watcher drops its cursor, converges the channels and reads once more
\* from the minimum it was told.
Fetch ==
  /\ wPc = "fetch"
  /\ LET c == Head(wQueue) IN
     \/ ReadPage(c) /\ UNCHANGED cursors
     \/ /\ wFrom < first[c]
        /\ cursors' = [cursors EXCEPT ![c] = 0]
        /\ wFrom' = first[c] /\ wPc' = "recover"
        /\ UNCHANGED <<wQueue, wPage>>
     \/ "rpc" \in Faults /\ SkipCouncil /\ UNCHANGED cursors
  /\ UNCHANGED <<chainVars, tableVars, crashes, chVars, mbVars, joining>>

Refetch ==
  /\ wPc = "refetch"
  /\ \/ ReadPage(Head(wQueue))
     \/ "rpc" \in Faults /\ SkipCouncil
  /\ UNCHANGED <<chainVars, tableVars, cursors, crashes, chVars, mbVars, joining>>

WriteEvent(c, event) ==
  IF event \in MembershipEvents
  THEN SetStatus(c, Verdict(event)) /\ UNCHANGED channelStates
  ELSE ApplyState(c, Verdict(event)) /\ UNCHANGED memberships

\* Mutant: a failed write is logged and the page goes on.
ApplyEventGoesOn ==
  /\ wPc = "apply" /\ wPage # <<>>
  /\ WriteEvent(Head(wQueue), Topic(Head(wPage))) \/ ("db" \in Faults /\ UNCHANGED tableVars)
  /\ wPage' = Tail(wPage)
  /\ UNCHANGED <<chainVars, cursors, crashes, wPc, wQueue, wFrom, chVars, mbVars, joining>>

\* A failed write ends the tick with the cursor where it was.
ApplyEvent ==
  /\ wPc = "apply" /\ wPage # <<>>
  /\ LET written == WriteEvent(Head(wQueue), Topic(Head(wPage))) IN
     \/ written /\ wPage' = Tail(wPage) /\ UNCHANGED <<wPc, wQueue, wFrom>>
     \/ "db" \in Faults /\ (written \/ UNCHANGED tableVars) /\ AbortTick
  /\ UNCHANGED <<chainVars, cursors, crashes, chVars, mbVars, joining>>

\* Mutant: the next page starts one ledger late.
EndPageOneLate ==
  /\ wPc = "apply" /\ wPage = <<>>
  /\ cursors' = [cursors EXCEPT ![Head(wQueue)] = wFrom + 1]
  /\ SkipCouncil
  /\ UNCHANGED <<chainVars, tableVars, crashes, chVars, mbVars, joining>>

EndPage ==
  /\ wPc = "apply" /\ wPage = <<>>
  /\ cursors' = [cursors EXCEPT ![Head(wQueue)] = wFrom]
  /\ SkipCouncil
  /\ UNCHANGED <<chainVars, tableVars, crashes, chVars, mbVars, joining>>

-----------------------------------------------------------------------------
(* The process *)

Crash ==
  /\ wPc # "down" /\ crashes < MaxCrashes
  /\ crashes' = crashes + 1
  /\ cursors' = NoCursors
  /\ wPc' = "down" /\ wQueue' = <<>> /\ wFrom' = 0 /\ wPage' = <<>>
  /\ chQueue' = <<>> /\ chAnswer' = NoAnswer
  /\ mbBusy' = Quiet /\ mbQueue' = NoRows /\ mbAnswer' = NoAnswers
  /\ joining' = NoCouncil
  /\ UNCHANGED <<chainVars, tableVars>>

Start ==
  /\ wPc = "down" /\ wPc' = "boot"
  /\ UNCHANGED <<chainVars, tableVars, cursors, crashes, wQueue, wFrom, wPage, chVars,
                 mbVars, joining>>

Memberships(p) == BeginMemberships(p) \/ AskMembership(p) \/ StoreMembership(p) \/ EndMemberships(p)

Watch == \/ BeginChannels \/ AskChannel \/ StoreChannel \/ EndChannels
         \/ Memberships("boot")
         \/ Tick \/ NextCouncil \/ EndTick \/ Fetch \/ Refetch \/ ApplyEvent \/ EndPage

Next ==
  \/ \E c \in Councils : Decide(c) \/ Forget(c) \/ Join(c)
  \/ InsertRow
  \/ Memberships("operator")
  \/ Watch
  \/ Crash \/ Start

Spec == Init /\ [][Next]_vars

\* The watcher's loop goes on as long as its process lives, a handler that
\* began ends, and a process that died is started again.  Councils and
\* operators need not do anything.
Fairness == WF_vars(Watch) /\ WF_vars(InsertRow) /\ WF_vars(Memberships("operator"))
            /\ WF_vars(Start)

FairSpec == Spec /\ Fairness

-----------------------------------------------------------------------------
(* Properties *)

StatusesOf(c) == {memberships[i].status : i \in {j \in 1..Len(memberships) : memberships[j].council = c}}

\* What the stored state may be once the events of kinds K below the cursor
\* were read: what the last of them says, or what a later one said (an aborted
\* page and a query both run ahead of the cursor).
SaidSince(c, K) ==
  LET read == At(c, K, first[c], cursors[c])
  IN {Verdict(log[c][i]) : i \in At(c, K, LastOf(read), End(c))}

HasRead(c, K) == cursors[c] > 0 /\ At(c, K, first[c], cursors[c]) # {}

\* No membership event below the cursor is lost on the way to the row: not by a
\* write that fails in the middle of a page, not by a restart that starts over,
\* not by a cursor that fell out of retention.
MembershipFollows ==
  \A c \in Councils : HasRead(c, MembershipEvents) => StatusesOf(c) \subseteq SaidSince(c, MembershipEvents)

\* The same for the state of the channel that the submission gate reads.
ChannelFollows ==
  \A c \in Councils : HasRead(c, ChannelEvents) => channelStates[c] \in SaidSince(c, ChannelEvents)

CaughtUp(c) == wPc = "idle" /\ HasRow(c) /\ cursors[c] = End(c)

\* A watcher that read everything knows whether the provider is a member: only
\* then is its row ACTIVE, however often pages were read again.
MembershipCaughtUp ==
  \A c \in Councils : CaughtUp(c) /\ ~mbBusy["operator"] =>
    \A status \in StatusesOf(c) : (status = "ACTIVE") = Member(c)

\* A watcher that read everything knows whether the channel is disabled, also
\* when the deciding event was gone before it could be read, and whatever other
\* providers, operators and second rows do.
ChannelCaughtUp ==
  \A c \in Councils : CaughtUp(c) => (channelStates[c] = "DISABLED") = (ChannelSays(c) = "DISABLED")

Readmitted(c) == \E i, j \in 1..Len(log[c]) : i < j /\ log[c][i] = "removed" /\ log[c][j] = "added"

\* Whatever the councils decide and whenever the process restarts, the rows end
\* up saying it and keep saying it.
EventuallyFollows ==
  \A c \in Councils : <>[](HasRow(c) => /\ ("ACTIVE" \in StatusesOf(c)) = Member(c)
                                        /\ (channelStates[c] = "DISABLED") = (ChannelSays(c) = "DISABLED"))
-----------------------------------------------------------------------------
(* The inductive invariant behind TypeOK, ChannelFollows and MembershipFollows *)

\* If an event of kinds K is among those from lo up to hi, then v is the verdict of
\* the last one of them, or of a later one.
Said(events, K, lo, hi, v) ==
  (\E j \in 1..Len(events) : lo <= j /\ j < hi /\ events[j] \in K) =>
    \E i \in 1..Len(events) :
      /\ events[i] \in K /\ Verdict(events[i]) = v
      /\ \A j \in 1..Len(events) : lo <= j /\ j < hi /\ i < j => events[j] \notin K

\* The tick is about the council at the head of its queue.
Handling == {"fetch", "recover", "recoverChannels", "refetch", "apply"}

\* The ledger up to which the tick has handled the events of that council, and the
\* one up to which those of any council were.
Handled  == wFrom - Len(wPage)
Reach(c) == IF wPc \in Handling /\ c = Head(wQueue) THEN Handled ELSE cursors[c]

\* v is what the stored value may be, by the events handled.
May(c, K, v) == Said(log[c], K, first[c], Reach(c), v)

CursorInv ==
  \A c \in Councils : /\ first[c] <= End(c)
                      /\ cursors[c] <= Reach(c) /\ Reach(c) <= End(c)

\* A page holds what its council's log has from where the tick has got to.
PageInv ==
  /\ wPc \in Handling =>
       /\ wQueue # <<>> /\ 1 <= Handled /\ wFrom <= End(Head(wQueue))
       /\ \A k \in 1..Len(wPage) : wPage[k] = log[Head(wQueue)][Handled + k - 1]
  /\ wPc # "apply" => wPage = <<>>

\* A convergence works through its queue, and the one of the memberships at boot is
\* over before there is a cursor.
ConvergeInv ==
  /\ wPc \in {"down", "boot", "bootChannels", "members"} => \A c \in Councils : cursors[c] = 0
  /\ mbBusy["boot"] => wPc = "members"
  /\ \A p \in Converging : /\ mbQueue[p] # <<>> => mbBusy[p]
                           /\ mbAnswer[p] # NoAnswer => mbQueue[p] # <<>>
  /\ chQueue # <<>> => wPc \in Asking
  /\ chAnswer # NoAnswer => chQueue # <<>>

ChannelInv ==
  /\ \A c \in Councils : May(c, ChannelEvents, channelStates[c])
  /\ chAnswer # NoAnswer => May(Head(chQueue), ChannelEvents, chAnswer)

TickInv == TypeOK /\ CursorInv /\ PageInv /\ ConvergeInv /\ ChannelInv

\* The same for the rows, where every membership event is about this provider and no
\* row is written but by the watcher and by its boot.
MemberInv ==
  /\ \A i \in 1..Len(memberships) :
       May(memberships[i].council, MembershipEvents, memberships[i].status)
  /\ \A c \in Councils : cursors[c] > 0 => HasRow(c)
  /\ \A k \in 1..Len(wQueue) : HasRow(wQueue[k])
  /\ joining # NoCouncil => ~HasRow(joining)
  /\ ~mbBusy["operator"]
  /\ \A c \in Councils : \A i \in 1..Len(log[c]) : log[c][i] \notin OtherEvents

OwnRows == Faults \cap {"others", "sync", "rejoin"} = {}

\* Of councils that are asked: v says what is the case at the ledger hi, or was at a
\* later one, of whether the last event of kinds K is one that turns it on.
Learnt(events, K, on, hi, v) ==
  \/ v # on /\ \A j \in 1..Len(events) : j < hi => events[j] \notin K
  \/ \E i \in 1..Len(events) :
       /\ events[i] \in K /\ (v = on <=> Verdict(events[i]) = on)
       /\ \A j \in 1..Len(events) : i < j /\ j < hi => events[j] \notin K

\* The ledger from which events of the council are still to be read.
ReadTo(c) == IF Reach(c) = 0 THEN first[c] ELSE Reach(c)

\* A convergence has still to ask about the channel, or to store the answer.
ChannelOwed(c) ==
  LET queued == \E k \in 1..Len(chQueue) : chQueue[k] = c
  IN \/ wPc \in {"down", "boot"}
     \/ wPc = "bootChannels" /\ queued
     \/ (wPc = "recover" \/ (wPc = "recoverChannels" /\ queued)) /\ c = Head(wQueue)
ChannelKnown(c) == IF ChannelOwed(c) THEN 1 ELSE ReadTo(c)

\* Retention moves on for a council with a row only, and a tick without a cursor begins
\* where retention does.
HistoryInv ==
  /\ \A k \in 1..Len(wQueue) : HasRow(wQueue[k])
  /\ \A c \in Councils : ~HasRow(c) => first[c] = 1
  /\ wPc \in Handling /\ cursors[Head(wQueue)] = 0 => first[Head(wQueue)] <= Handled

\* What was gone before it could be read, a convergence has learnt.
AnsweredInv ==
  /\ \A c \in Councils :
       Learnt(log[c], ChannelEvents, "DISABLED", ChannelKnown(c), channelStates[c])
  /\ chAnswer # NoAnswer =>
       Learnt(log[Head(chQueue)], ChannelEvents, "DISABLED", ReadTo(Head(chQueue)), chAnswer)

Answering == Faults \cap {"db", "council", "oldHistory"} = {}

\* The boot has still to ask about the row, or to store the answer.
RowOwed(c) ==
  \/ wPc \in {"down", "boot", "bootChannels"}
  \/ wPc = "members" /\ (mbBusy["boot"] => \E k \in 1..Len(mbQueue["boot"]) : mbQueue["boot"][k].council = c)
RowKnown(c) == IF RowOwed(c) THEN 1 ELSE ReadTo(c)

Distinct(rows) == \A i, j \in 1..Len(rows) : rows[i].council = rows[j].council => i = j

\* The same for the rows, of which the boot has one for each council, listed as it is.
AskedInv ==
  /\ \A c \in Councils : cursors[c] > 0 => first[c] <= cursors[c]
  /\ Distinct(memberships) /\ Distinct(mbQueue["boot"])
  /\ \A k \in 1..Len(mbQueue["boot"]) : \E i \in 1..Len(memberships) : memberships[i] = mbQueue["boot"][k]
  /\ \A i \in 1..Len(memberships) :
       LET c == memberships[i].council
       IN Learnt(log[c], MembershipEvents, "ACTIVE", RowKnown(c), memberships[i].status)
  /\ mbAnswer["boot"] # NoAnswer =>
       LET c == Head(mbQueue["boot"]).council
       IN Learnt(log[c], MembershipEvents, "ACTIVE", ReadTo(c), mbAnswer["boot"])

OnlyDowntime == Faults \subseteq {"rpc", "downtime"}

WatcherInv ==
  /\ TickInv
  /\ OwnRows => MemberInv
  /\ Answering => HistoryInv /\ AnsweredInv
  /\ OnlyDowntime => AskedInv
=============================================================================
