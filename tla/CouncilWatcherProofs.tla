------------------------- MODULE CouncilWatcherProofs -------------------------
(***************************************************************************)
(* Theorems about CouncilWatcher, for every number of councils, events,    *)
(* rows and restarts, every page size and every kind of fault.             *)
(***************************************************************************)
EXTENDS CouncilWatcher, NaturalOrder, SequenceTheorems, TLAPS

-----------------------------------------------------------------------------
(* Sequences *)

LEMMA Lengthened ==
  ASSUME NEW S, NEW s \in Seq(S), NEW e \in S
  PROVE  /\ Append(s, e) \in Seq(S) /\ Len(s) \in Nat /\ Len(Append(s, e)) = Len(s) + 1
         /\ \A i \in 1..Len(s) : Append(s, e)[i] = s[i]
         /\ Append(s, e)[Len(s) + 1] = e
BY AppendProperties, LenProperties

LEMMA Shortened ==
  ASSUME NEW S, NEW s \in Seq(S), s # <<>>
  PROVE  /\ Tail(s) \in Seq(S) /\ Len(s) \in Nat /\ Len(s) >= 1 /\ Len(Tail(s)) = Len(s) - 1
         /\ Head(s) = s[1] /\ Head(s) \in S
         /\ \A i \in 1..Len(s) - 1 : Tail(s)[i] = s[i + 1]
<1>1. Len(s) \in Nat /\ Len(s) # 0
  BY EmptySeq, LenProperties
<1>2. 1 \in 1..Len(s)
  BY <1>1
<1> QED BY <1>1, <1>2, HeadTailProperties, ElementOfSeq

LEMMA Tabled ==
  ASSUME NEW S, NEW n \in Nat, NEW f \in [1..n -> S]
  PROVE  f \in Seq(S) /\ Len(f) = n
<1>1. f \in Seq(S)
  BY SeqDef
<1> QED BY <1>1, LenProperties

LEMMA NothingIn == ASSUME NEW S PROVE <<>> \in Seq(S) /\ Len(<<>>) = 0
BY EmptySeq

-----------------------------------------------------------------------------
(* What a log has said up to a ledger *)

Log == Seq(Events)

LEMMA LogTyped ==
  ASSUME NEW events \in Log
  PROVE  Len(events) \in Nat /\ \A i \in 1..Len(events) : events[i] \in Events
BY LenProperties, ElementOfSeq DEF Log

\* Nothing was said before the first ledger that is read.
LEMMA SaidNone ==
  ASSUME NEW events, Len(events) \in Nat, NEW K, NEW lo \in Nat, NEW hi \in Int, hi <= lo, NEW v
  PROVE  Said(events, K, lo, hi, v)
BY DEF Said

\* What was said stays so when the log grows, when retention moves on, and up to an
\* earlier ledger.
LEMMA SaidKept ==
  ASSUME NEW events, NEW more, Len(events) \in Nat, Len(more) \in Nat, Len(events) <= Len(more),
         \A i \in 1..Len(events) : more[i] = events[i],
         NEW lo \in Nat, NEW lo2 \in Nat, lo <= lo2,
         NEW hi \in Int, NEW hi2 \in Int, hi2 <= hi, hi2 <= Len(events) + 1,
         NEW K, NEW v, Said(events, K, lo, hi, v)
  PROVE  Said(more, K, lo2, hi2, v)
<1> SUFFICES ASSUME NEW j \in 1..Len(more), lo2 <= j, j < hi2, more[j] \in K
             PROVE  \E i \in 1..Len(more) :
                      /\ more[i] \in K /\ Verdict(more[i]) = v
                      /\ \A k \in 1..Len(more) : lo2 <= k /\ k < hi2 /\ i < k => more[k] \notin K
  BY DEF Said
<1>1. \A k \in 1..Len(more) : lo2 <= k /\ k < hi2 =>
        /\ k \in 1..Len(events) /\ lo <= k /\ k < hi /\ more[k] = events[k]
  OBVIOUS
<1>2. PICK i \in 1..Len(events) :
        /\ events[i] \in K /\ Verdict(events[i]) = v
        /\ \A k \in 1..Len(events) : lo <= k /\ k < hi /\ i < k => events[k] \notin K
  BY <1>1 DEF Said
<1>3. i \in 1..Len(more) /\ more[i] = events[i]
  BY <1>2
<1> QED BY <1>1, <1>2, <1>3

\* An event of another kind says nothing.
LEMMA SaidNext ==
  ASSUME NEW events, Len(events) \in Nat, NEW lo \in Nat, NEW hi \in Nat,
         NEW K, NEW v, Said(events, K, lo, hi, v), events[hi] \notin K
  PROVE  Said(events, K, lo, hi + 1, v)
<1> SUFFICES ASSUME NEW j \in 1..Len(events), lo <= j, j < hi + 1, events[j] \in K
             PROVE  \E i \in 1..Len(events) :
                      /\ events[i] \in K /\ Verdict(events[i]) = v
                      /\ \A k \in 1..Len(events) : lo <= k /\ k < hi + 1 /\ i < k => events[k] \notin K
  BY DEF Said
<1>1. \A k \in 1..Len(events) : k < hi + 1 /\ events[k] \in K => k < hi
  <2> SUFFICES ASSUME NEW k \in 1..Len(events), k < hi + 1, events[k] \in K PROVE k < hi
    OBVIOUS
  <2>1. k # hi
    OBVIOUS
  <2> QED BY <2>1
<1>2. PICK i \in 1..Len(events) :
        /\ events[i] \in K /\ Verdict(events[i]) = v
        /\ \A k \in 1..Len(events) : lo <= k /\ k < hi /\ i < k => events[k] \notin K
  BY <1>1 DEF Said
<1> QED BY <1>1, <1>2

\* The event that is applied is the last one up to the ledger behind it.
LEMMA SaidAhead ==
  ASSUME NEW events, Len(events) \in Nat, NEW lo \in Nat, NEW hi \in Int,
         NEW i \in 1..Len(events), hi <= i + 1, NEW K, events[i] \in K
  PROVE  Said(events, K, lo, hi, Verdict(events[i]))
<1>1. \A k \in 1..Len(events) : ~(k < hi /\ i < k)
  OBVIOUS
<1> QED BY <1>1 DEF Said

\* The last of all the events of a kind exists, and nothing is later.
LEMMA LastExists ==
  ASSUME NEW n \in Nat, NEW S \in SUBSET 1..n, S # {}
  PROVE  LastOf(S) \in S /\ \A j \in S : j <= LastOf(S)
<1>1. S \in SUBSET 0..n
  OBVIOUS
<1>2. PICK i \in S : \A j \in S : j <= i
  BY <1>1, GreatestNatural
<1> QED BY <1>2 DEF LastOf

\* What a council has decided is its last event, if there is one.
LEMMA DecidedByLast ==
  ASSUME TypeOK, NEW c \in Councils, NEW K, NEW default
  PROVE  \/ /\ Decided(c, K, default) = default
            /\ \A j \in 1..Len(log[c]) : log[c][j] \notin K
         \/ \E i \in 1..Len(log[c]) :
              /\ log[c][i] \in K /\ Decided(c, K, default) = log[c][i]
              /\ \A j \in 1..Len(log[c]) : i < j => log[c][j] \notin K
<1> DEFINE events == log[c]
           S == At(c, K, 1, End(c))
<1>1. Len(events) \in Nat
  BY LogTyped DEF TypeOK, Log
<1>2. S = {i \in 1..Len(events) : events[i] \in K}
  BY <1>1 DEF At, End
<1>3. CASE S = {}
  BY <1>2, <1>3 DEF Decided
<1>4. CASE S # {}
  <2> DEFINE i == LastOf(S)
  <2>1. S \in SUBSET 1..Len(events)
    BY <1>2
  <2>2. i \in S /\ \A j \in S : j <= i
    BY <1>1, <1>4, <2>1, LastExists
  <2>3. Decided(c, K, default) = events[i]
    BY <1>4 DEF Decided
  <2> HIDE DEF i, S
  <2>4. i \in 1..Len(events) /\ events[i] \in K
    BY <1>2, <2>2
  <2>5. \A j \in 1..Len(events) : i < j => events[j] \notin K
    BY <1>1, <1>2, <2>2, <2>4
  <2> QED BY <2>3, <2>4, <2>5
<1> QED BY <1>3, <1>4

\* What a council answers about its channel is the verdict of its last event.
LEMMA ChannelAnswer ==
  ASSUME TypeOK, NEW c \in Councils, NEW lo \in Nat, NEW hi \in Int
  PROVE  /\ ChannelSays(c) \in {"ENABLED", "DISABLED"}
         /\ Said(log[c], ChannelEvents, lo, hi, ChannelSays(c))
<1>1. CASE \A j \in 1..Len(log[c]) : log[c][j] \notin ChannelEvents
  BY <1>1 DEF Said, ChannelSays
<1>2. ASSUME NEW i \in 1..Len(log[c]), log[c][i] \in ChannelEvents,
             Decided(c, ChannelEvents, "enabled") = log[c][i],
             \A j \in 1..Len(log[c]) : i < j => log[c][j] \notin ChannelEvents
      PROVE  Said(log[c], ChannelEvents, lo, hi, ChannelSays(c))
  <2>1. ChannelSays(c) = Verdict(log[c][i])
    BY <1>2 DEF ChannelSays, ChannelEvents, Verdict
  <2>2. Said(log[c], ChannelEvents, lo, hi, Verdict(log[c][i]))
    BY <1>2 DEF Said
  <2> QED BY <2>1, <2>2
<1> QED BY <1>1, <1>2, DecidedByLast DEF ChannelSays

\* A value that follows what was read is one of those its property allows.
LEMMA FollowsIsSince ==
  ASSUME TypeOK, NEW c \in Councils, NEW K, HasRead(c, K), NEW v,
         Said(log[c], K, first[c], cursors[c], v), cursors[c] <= End(c)
  PROVE  v \in SaidSince(c, K)
<1> DEFINE read == At(c, K, first[c], cursors[c])
<1>1. Len(log[c]) \in Nat /\ read \in SUBSET 1..Len(log[c]) /\ read # {}
  BY LogTyped DEF TypeOK, Log, At, HasRead
<1>2. LastOf(read) \in read
  BY <1>1, LastExists
<1>3. PICK i \in 1..Len(log[c]) :
        /\ log[c][i] \in K /\ Verdict(log[c][i]) = v
        /\ \A j \in 1..Len(log[c]) : first[c] <= j /\ j < cursors[c] /\ i < j => log[c][j] \notin K
  BY <1>1 DEF At, Said
<1> DEFINE last == LastOf(read)
<1>4. last \in 1..Len(log[c]) /\ first[c] <= last /\ last < cursors[c] /\ log[c][last] \in K
  BY <1>2 DEF At
<1> HIDE DEF last
<1>5. last <= i
  BY <1>1, <1>3, <1>4
<1>6. i \in At(c, K, last, End(c))
  BY <1>1, <1>3, <1>5 DEF At, End
<1> QED BY <1>3, <1>6 DEF SaidSince, last

-----------------------------------------------------------------------------
(* The tables *)

LEMMA RowsTyped ==
  ASSUME TypeOK
  PROVE  /\ Len(memberships) \in Nat
         /\ \A i \in 1..Len(memberships) : /\ memberships[i] \in Rows
                                           /\ memberships[i].council \in Councils
                                           /\ memberships[i].status \in MembershipStatus
<1>1. memberships \in Seq(Rows)
  BY DEF TypeOK
<1>2. \A i \in 1..Len(memberships) : memberships[i] \in Rows
  BY <1>1, ElementOfSeq
<1> QED BY <1>1, <1>2, LenProperties DEF Rows

LEMMA Listed ==
  ASSUME TypeOK
  PROVE  /\ NewestFirst \in Seq(Rows)
         /\ ListedCouncils \in Seq(Councils)
         /\ \A k \in 1..Len(ListedCouncils) : HasRow(ListedCouncils[k])
<1> DEFINE n == Len(memberships)
<1>1. n \in Nat /\ \A i \in 1..n : memberships[i] \in Rows /\ memberships[i].council \in Councils
  BY RowsTyped
<1>2. \A i \in 1..n : n + 1 - i \in 1..n
  BY <1>1
<1>3. NewestFirst \in [1..n -> Rows] /\ \A i \in 1..n : NewestFirst[i] = memberships[n + 1 - i]
  BY <1>1, <1>2 DEF NewestFirst
<1>4. ListedCouncils \in [1..n -> Councils]
      /\ \A i \in 1..n : ListedCouncils[i] = memberships[n + 1 - i].council
  BY <1>1, <1>2, <1>3 DEF ListedCouncils
<1>5. Len(ListedCouncils) = n
  BY <1>1, <1>4, Tabled
<1>6. \A k \in 1..n : HasRow(ListedCouncils[k])
  BY <1>2, <1>4 DEF HasRow
<1> QED BY <1>1, <1>3, <1>4, <1>5, <1>6, Tabled

\* set_status touches the rows of its council and gives each of them the status.
LEMMA StatusSet ==
  ASSUME TypeOK, NEW c \in Councils, NEW status \in MembershipStatus, SetStatus(c, status)
  PROVE  /\ memberships' \in Seq(Rows) /\ Len(memberships') = Len(memberships)
         /\ \A i \in 1..Len(memberships) :
              /\ memberships'[i].council = memberships[i].council
              /\ memberships[i].council = c => memberships'[i].status = status
              /\ memberships[i].council # c => memberships'[i].status = memberships[i].status
<1> DEFINE n == Len(memberships)
<1>1. n \in Nat /\ \A i \in 1..n : memberships[i] \in Rows
  BY RowsTyped
<1>2. ASSUME NEW i \in 1..n
      PROVE  /\ memberships'[i] \in Rows
             /\ memberships'[i].council = memberships[i].council
             /\ memberships[i].council = c => memberships'[i].status = status
             /\ memberships[i].council # c => memberships'[i].status = memberships[i].status
  BY <1>1 DEF SetStatus, Rows
<1>3. memberships' \in [1..n -> Rows]
  BY <1>2 DEF SetStatus
<1> QED BY <1>1, <1>2, <1>3, Tabled

-----------------------------------------------------------------------------
(* The steps: types, cursors, pages and queues *)

LEMMA ReachTyped ==
  ASSUME TickInv, NEW c \in Councils
  PROVE  /\ log[c] \in Seq(Events) /\ Len(log[c]) \in Nat /\ End(c) = Len(log[c]) + 1
         /\ first[c] \in Nat /\ first[c] >= 1 /\ first[c] <= End(c)
         /\ cursors[c] \in Nat /\ wFrom \in Nat /\ Len(wPage) \in Nat
         /\ Reach(c) \in Int /\ cursors[c] <= Reach(c) /\ Reach(c) <= End(c)
<1>1. log[c] \in Seq(Events) /\ Len(log[c]) \in Nat /\ Len(wPage) \in Nat
  BY LenProperties DEF TickInv, TypeOK
<1> QED BY <1>1 DEF TickInv, TypeOK, CursorInv, Reach, Handled, End

\* Between two steps a council is read no further, or from its retained history on.
Falls(c) == Reach(c)' <= Reach(c) \/ Reach(c)' <= first'[c]

Tame == TypeOK' /\ CursorInv' /\ PageInv' /\ ConvergeInv' /\ \A c \in Councils : Falls(c)

\* A step that touches neither the chain nor the tick disturbs no page.
LEMMA TickAlone ==
  ASSUME TickInv, UNCHANGED <<log, first, cursors, wPc, wQueue, wFrom, wPage>>
  PROVE  CursorInv' /\ PageInv' /\ \A c \in Councils : Falls(c)
<1>1. CursorInv'
  BY DEF TickInv, CursorInv, End, Reach, Handled
<1>2. PageInv'
  BY DEF TickInv, PageInv, End, Handled
<1>3. ASSUME NEW c \in Councils PROVE Falls(c)
  <2>1. Reach(c)' = Reach(c)
    BY DEF Reach, Handled
  <2> QED BY <2>1, ReachTyped DEF Falls
<1> QED BY <1>1, <1>2, <1>3

LEMMA TickInvInit == Init => TickInv
<1> SUFFICES ASSUME Init PROVE TickInv
  OBVIOUS
<1>1. /\ \A c \in Councils : log[c] = <<>> /\ first[c] = 1 /\ cursors[c] = 0
      /\ wPc = "boot" /\ wQueue = <<>> /\ wFrom = 0 /\ wPage = <<>>
  BY DEF Init, NoCursors
<1>2. \A S : <<>> \in Seq(S) /\ Len(<<>>) = 0
  BY NothingIn
<1>3. TypeOK
  <2>1. log \in [Councils -> Seq(Events)] /\ memberships \in Seq(Rows)
        /\ wQueue \in Seq(Councils) /\ wPage \in Seq(Events) /\ chQueue \in Seq(Councils)
    BY <1>2 DEF Init
  <2>2. mbQueue \in [Converging -> Seq(Rows)] /\ mbBusy \in [Converging -> BOOLEAN]
        /\ mbAnswer \in [Converging -> MembershipStatus \cup {NoAnswer}]
    BY <1>2 DEF Init, NoRows, Quiet, NoAnswers
  <2>3. /\ first \in [Councils -> Nat \ {0}] /\ asked \subseteq Councils
        /\ channelStates \in [Councils -> ChannelState] /\ cursors \in [Councils -> Nat]
    BY DEF Init, NoCursors, ChannelState
  <2>4. crashes \in 0..MaxCrashes /\ wPc \in WPcs /\ wFrom \in Nat
        /\ chAnswer \in ChannelState \cup {NoAnswer} /\ joining \in Councils \cup {NoCouncil}
    BY WatcherBounds DEF Init, WPcs
  <2> QED BY <2>1, <2>2, <2>3, <2>4 DEF TypeOK
<1>4. \A c \in Councils : Reach(c) = 0 /\ End(c) = 1
  <2> SUFFICES ASSUME NEW c \in Councils PROVE Reach(c) = 0 /\ End(c) = 1
    OBVIOUS
  <2>1. Len(log[c]) = 0
    BY <1>1, <1>2
  <2> QED BY <1>1, <2>1 DEF Reach, Handling, End
<1>5. CursorInv
  <2> SUFFICES ASSUME NEW c \in Councils
               PROVE  first[c] <= End(c) /\ cursors[c] <= Reach(c) /\ Reach(c) <= End(c)
    BY DEF CursorInv
  <2>1. first[c] = 1 /\ cursors[c] = 0 /\ Reach(c) = 0 /\ End(c) = 1
    BY <1>1, <1>4
  <2> QED BY <2>1
<1>6. PageInv
  BY <1>1 DEF PageInv, Handling
<1>7. ConvergeInv
  BY <1>1 DEF Init, ConvergeInv, Quiet, NoRows, NoAnswers, Converging
<1>8. ChannelInv
  <2>1. ASSUME NEW c \in Councils PROVE May(c, ChannelEvents, channelStates[c])
    <3>1. Len(log[c]) = 0
      BY <1>1, <1>2
    <3> QED BY <1>1, <1>4, <3>1, SaidNone, SMTT(30) DEF May
  <2> QED BY <2>1 DEF Init, ChannelInv
<1> QED BY <1>3, <1>5, <1>6, <1>7, <1>8 DEF TickInv

\* A council's log only grows.
LEMMA LogGrows ==
  ASSUME TypeOK, NEW c \in Councils, Decide(c)
  PROVE  /\ log' \in [Councils -> Seq(Events)]
         /\ \A d \in Councils : /\ Len(log[d]) \in Nat /\ Len(log'[d]) \in Nat
                                /\ Len(log[d]) <= Len(log'[d])
                                /\ \A i \in 1..Len(log[d]) : log'[d][i] = log[d][i]
<1>1. /\ log \in [Councils -> Seq(Events)]
      /\ \A d \in Councils : log[d] \in Seq(Events) /\ Len(log[d]) \in Nat
  BY LenProperties DEF TypeOK
<1>2. ASSUME NEW e \in Events, Emit(c, e)
      PROVE  /\ log' \in [Councils -> Seq(Events)]
             /\ \A d \in Councils : /\ Len(log'[d]) \in Nat
                                    /\ Len(log[d]) <= Len(log'[d])
                                    /\ \A i \in 1..Len(log[d]) : log'[d][i] = log[d][i]
  <2> DEFINE more == Append(log[c], e)
  <2>1. /\ more \in Seq(Events) /\ Len(more) = Len(log[c]) + 1
        /\ \A i \in 1..Len(log[c]) : more[i] = log[c][i]
    BY <1>1, <1>2, Lengthened
  <2>2. log' = [log EXCEPT ![c] = more]
    BY <1>2 DEF Emit
  <2> HIDE DEF more
  <2> QED BY <1>1, <2>1, <2>2
<1>3. \/ UNCHANGED log
      \/ \E e \in Events : Emit(c, e)
  BY DEF Decide, Events, MembershipEvents, OtherEvents, ChannelEvents
<1> QED BY <1>1, <1>2, <1>3

LEMMA DecideTame ==
  ASSUME TickInv, NEW c \in Councils, Decide(c)
  PROVE  Tame
<1>1. /\ log' \in [Councils -> Seq(Events)]
      /\ \A d \in Councils : /\ Len(log[d]) \in Nat /\ Len(log'[d]) \in Nat
                             /\ Len(log[d]) <= Len(log'[d])
                             /\ \A i \in 1..Len(log[d]) : log'[d][i] = log[d][i]
  BY LogGrows DEF TickInv
<1>2. /\ UNCHANGED <<first, memberships, channelStates, cursors, crashes, wPc, wQueue, wFrom, wPage>>
      /\ UNCHANGED <<chQueue, chAnswer, mbBusy, mbQueue, mbAnswer, joining>>
      /\ asked' \subseteq Councils
  BY DEF Decide, tableVars, tickVars, chVars, mbVars, TickInv, TypeOK
<1>3. TypeOK'
  BY <1>1, <1>2 DEF TickInv, TypeOK
<1>4. \A d \in Councils : Reach(d)' = Reach(d) /\ End(d)' >= End(d)
  BY <1>1, <1>2, ReachTyped DEF Reach, Handled, End
<1>5. CursorInv' /\ \A d \in Councils : Falls(d)
  <2> SUFFICES ASSUME NEW d \in Councils
               PROVE  /\ first'[d] <= End(d)' /\ cursors'[d] <= Reach(d)' /\ Reach(d)' <= End(d)'
                      /\ Falls(d)
    BY DEF CursorInv
  <2>1. End(d)' \in Nat
    BY <1>1 DEF End
  <2> QED BY <1>2, <1>4, <2>1, ReachTyped DEF Falls
<1>6. PageInv'
  <2>1. ASSUME wPc \in Handling
        PROVE  /\ wFrom <= Len(log'[Head(wQueue)]) + 1
               /\ \A k \in 1..Len(wPage) : wPage[k] = log'[Head(wQueue)][Handled + k - 1]
    <3> DEFINE h == Head(wQueue)
    <3>1. h \in Councils
      BY <2>1, Shortened DEF TickInv, TypeOK, PageInv
    <3>2. /\ wFrom <= Len(log[h]) + 1 /\ 1 <= Handled
          /\ \A k \in 1..Len(wPage) : wPage[k] = log[h][Handled + k - 1]
      BY <2>1 DEF TickInv, PageInv, End
    <3>3. wFrom \in Nat /\ Len(wPage) \in Nat /\ Handled = wFrom - Len(wPage)
      BY <3>1, ReachTyped DEF Handled
    <3> HIDE DEF h
    <3>4. \A k \in 1..Len(wPage) : Handled + k - 1 \in 1..Len(log[h])
      BY ONLY <1>1, <3>1, <3>2, <3>3
    <3>5. wFrom <= Len(log'[h]) + 1
      BY ONLY <1>1, <3>1, <3>2, <3>3
    <3> QED BY <1>1, <3>1, <3>2, <3>4, <3>5 DEF h
  <2> QED BY <1>2, <2>1 DEF TickInv, PageInv, Handled, End
<1>7. ConvergeInv'
  BY <1>2 DEF TickInv, ConvergeInv
<1> QED BY <1>3, <1>5, <1>6, <1>7 DEF Tame

LEMMA ForgetTame ==
  ASSUME TickInv, NEW c \in Councils, Forget(c)
  PROVE  Tame
<1>1. /\ first' = [first EXCEPT ![c] = first[c] + 1] /\ first[c] < End(c)
      /\ UNCHANGED <<log, asked, memberships, channelStates, cursors, crashes>>
      /\ UNCHANGED <<wPc, wQueue, wFrom, wPage, chQueue, chAnswer, mbBusy, mbQueue, mbAnswer, joining>>
  BY DEF Forget, tableVars, tickVars, chVars, mbVars
<1>2. first \in [Councils -> Nat \ {0}]
  BY DEF TickInv, TypeOK
<1>3. TypeOK'
  <2>1. first' \in [Councils -> Nat \ {0}]
    BY <1>1, <1>2
  <2> QED BY <1>1, <2>1 DEF TickInv, TypeOK
<1>4. \A d \in Councils : Reach(d)' = Reach(d) /\ End(d)' = End(d)
  BY <1>1 DEF Reach, Handled, End
<1>5. \A d \in Councils : first'[d] <= End(d)
  <2> SUFFICES ASSUME NEW d \in Councils PROVE first'[d] <= End(d)
    OBVIOUS
  <2>1. End(d) \in Nat /\ first[d] \in Nat /\ first[d] <= End(d)
    BY ReachTyped
  <2> QED BY <1>1, <1>2, <2>1
<1>6. CursorInv' /\ \A d \in Councils : Falls(d)
  BY <1>1, <1>4, <1>5, ReachTyped DEF CursorInv, Falls
<1>7. PageInv' /\ ConvergeInv'
  BY <1>1 DEF TickInv, PageInv, ConvergeInv, Handled, End
<1> QED BY <1>3, <1>6, <1>7 DEF Tame

LEMMA JoinTame ==
  ASSUME TickInv, NEW c \in Councils, Join(c)
  PROVE  Tame
<1>1. /\ asked' = asked \cup {c} /\ joining' = c
      /\ UNCHANGED <<log, first, memberships, channelStates, cursors, crashes>>
      /\ UNCHANGED <<wPc, wQueue, wFrom, wPage, chQueue, chAnswer, mbBusy, mbQueue, mbAnswer>>
  BY DEF Join, tableVars, tickVars, chVars, mbVars
<1>2. TypeOK'
  BY <1>1 DEF TickInv, TypeOK
<1>3. ConvergeInv'
  BY <1>1 DEF TickInv, ConvergeInv
<1> QED BY <1>1, <1>2, <1>3, TickAlone DEF Tame

LEMMA InsertRowTame ==
  ASSUME TickInv, InsertRow
  PROVE  /\ Tame
         /\ \/ UNCHANGED memberships
            \/ /\ Len(memberships') = Len(memberships) + 1
               /\ \A i \in 1..Len(memberships) : memberships'[i] = memberships[i]
               /\ memberships'[Len(memberships) + 1] = [council |-> joining, status |-> "PENDING"]
<1>1. /\ joining # NoCouncil /\ joining' = NoCouncil
      /\ UNCHANGED <<log, first, asked, channelStates, cursors, crashes>>
      /\ UNCHANGED <<wPc, wQueue, wFrom, wPage, chQueue, chAnswer, mbBusy, mbQueue, mbAnswer>>
  BY DEF InsertRow, chainVars, tickVars, chVars, mbVars
<1>2. memberships \in Seq(Rows) /\ [council |-> joining, status |-> "PENDING"] \in Rows
  BY <1>1 DEF TickInv, TypeOK, Rows, MembershipStatus
<1>3. \/ UNCHANGED memberships
      \/ /\ memberships' \in Seq(Rows)
         /\ Len(memberships') = Len(memberships) + 1
         /\ \A i \in 1..Len(memberships) : memberships'[i] = memberships[i]
         /\ memberships'[Len(memberships) + 1] = [council |-> joining, status |-> "PENDING"]
  BY <1>2, Lengthened DEF InsertRow
<1>4. TypeOK'
  BY <1>1, <1>2, <1>3 DEF TickInv, TypeOK
<1>5. ConvergeInv'
  BY <1>1 DEF TickInv, ConvergeInv
<1> QED BY <1>1, <1>3, <1>4, <1>5, TickAlone DEF Tame

LEMMA BeginMembershipsTame ==
  ASSUME TickInv, NEW p \in Converging, BeginMemberships(p)
  PROVE  Tame
<1>1. /\ mbBusy' = [mbBusy EXCEPT ![p] = TRUE]
      /\ p = "boot" => wPc = "members"
      /\ mbQueue' = [mbQueue EXCEPT ![p] = NewestFirst] \/ UNCHANGED mbQueue
      /\ UNCHANGED <<log, first, asked, memberships, channelStates, cursors, crashes>>
      /\ UNCHANGED <<wPc, wQueue, wFrom, wPage, chQueue, chAnswer, mbAnswer, joining>>
      /\ ~mbBusy[p]
  BY DEF BeginMemberships, chainVars, tableVars, tickVars, chVars
<1>2. NewestFirst \in Seq(Rows)
  BY Listed DEF TickInv
<1> HIDE DEF NewestFirst
<1>3. TypeOK'
  <2>1. mbBusy' \in [Converging -> BOOLEAN] /\ mbQueue' \in [Converging -> Seq(Rows)]
    BY <1>1, <1>2 DEF TickInv, TypeOK
  <2> QED BY <1>1, <2>1 DEF TickInv, TypeOK
<1>4. ConvergeInv'
  <2>1. /\ mbBusy'[p] = TRUE /\ mbAnswer[p] = NoAnswer
        /\ \A q \in Converging : q # p => mbBusy'[q] = mbBusy[q] /\ mbQueue'[q] = mbQueue[q]
    BY <1>1 DEF TickInv, TypeOK, ConvergeInv
  <2> QED BY <1>1, <2>1 DEF TickInv, ConvergeInv, Converging
<1> QED BY <1>1, <1>3, <1>4, TickAlone DEF Tame

\* What a council says of the provider is a status.
LEMMA CouncilAnswer ==
  ASSUME NEW c PROVE CouncilSays(c) \in MembershipStatus
BY DEF CouncilSays, MembershipStatus

LEMMA AskMembershipTame ==
  ASSUME TickInv, NEW p \in Converging, AskMembership(p)
  PROVE  Tame
<1> DEFINE queue == mbQueue[p]
           says  == CouncilSays(Head(queue).council)
<1>1. /\ queue # <<>> /\ mbAnswer[p] = NoAnswer
      /\ \/ mbAnswer' = [mbAnswer EXCEPT ![p] = says] /\ UNCHANGED mbQueue
         \/ mbQueue' = [mbQueue EXCEPT ![p] = Tail(queue)] /\ UNCHANGED mbAnswer
      /\ UNCHANGED <<log, first, asked, memberships, channelStates, cursors, crashes>>
      /\ UNCHANGED <<wPc, wQueue, wFrom, wPage, chQueue, chAnswer, mbBusy, joining>>
  BY DEF AskMembership, chainVars, tableVars, tickVars, chVars
<1>2. says \in MembershipStatus
  BY CouncilAnswer
<1>3. mbQueue \in [Converging -> Seq(Rows)] /\ Tail(queue) \in Seq(Rows)
  BY <1>1, Shortened DEF TickInv, TypeOK
<1> HIDE DEF says
<1>4. TypeOK'
  <2>1. /\ mbAnswer' \in [Converging -> MembershipStatus \cup {NoAnswer}]
        /\ mbQueue' \in [Converging -> Seq(Rows)]
    BY <1>1, <1>2, <1>3 DEF TickInv, TypeOK
  <2> QED BY <1>1, <2>1 DEF TickInv, TypeOK
<1>5. ConvergeInv'
  <2>1. \A q \in Converging : q # p => mbAnswer'[q] = mbAnswer[q] /\ mbQueue'[q] = mbQueue[q]
    BY <1>1 DEF TickInv, TypeOK
  <2>2. mbBusy[p]
    BY <1>1 DEF TickInv, ConvergeInv
  <2>3. \/ mbQueue'[p] = queue
        \/ mbAnswer'[p] = NoAnswer
    BY <1>1
  <2> QED BY <1>1, <2>1, <2>2, <2>3 DEF TickInv, ConvergeInv
<1> QED BY <1>1, <1>4, <1>5, TickAlone DEF Tame

LEMMA StoreMembershipTame ==
  ASSUME TickInv, NEW p \in Converging, StoreMembership(p)
  PROVE  /\ Tame /\ mbBusy[p]
         /\ Len(memberships') = Len(memberships)
         /\ \A i \in 1..Len(memberships) : memberships'[i].council = memberships[i].council
<1> DEFINE queue == mbQueue[p]
           c     == Head(queue).council
           says  == mbAnswer[p]
<1>1. /\ says # NoAnswer /\ mbAnswer' = [mbAnswer EXCEPT ![p] = NoAnswer]
      /\ UNCHANGED memberships \/ SetStatus(c, says)
      /\ \/ mbQueue' = [mbQueue EXCEPT ![p] = Tail(queue)]
         \/ mbQueue' = [mbQueue EXCEPT ![p] = <<>>]
      /\ UNCHANGED <<log, first, asked, channelStates, cursors, crashes>>
      /\ UNCHANGED <<wPc, wQueue, wFrom, wPage, chQueue, chAnswer, mbBusy, joining>>
  BY DEF StoreMembership, chainVars, tickVars, chVars
<1>2. queue # <<>> /\ mbBusy[p]
  BY <1>1 DEF TickInv, ConvergeInv
<1>3. /\ mbQueue \in [Converging -> Seq(Rows)] /\ Tail(queue) \in Seq(Rows) /\ <<>> \in Seq(Rows)
      /\ c \in Councils
  <2>1. queue \in Seq(Rows)
    BY DEF TickInv, TypeOK
  <2>2. Head(queue) \in Rows
    BY <1>2, <2>1, Shortened
  <2> QED BY <1>2, <2>1, <2>2, Shortened, NothingIn DEF TickInv, TypeOK, Rows
<1>4. says \in MembershipStatus
  BY <1>1 DEF TickInv, TypeOK
<1> HIDE DEF c, says
<1>5. /\ memberships' \in Seq(Rows) /\ Len(memberships') = Len(memberships)
      /\ \A i \in 1..Len(memberships) : memberships'[i].council = memberships[i].council
  <2>1. CASE UNCHANGED memberships
    BY <2>1 DEF TickInv, TypeOK
  <2>2. CASE SetStatus(c, says)
    BY <1>3, <1>4, <2>2, StatusSet DEF TickInv
  <2> QED BY <1>1, <2>1, <2>2
<1>6. TypeOK'
  <2>1. /\ mbAnswer' \in [Converging -> MembershipStatus \cup {NoAnswer}]
        /\ mbQueue' \in [Converging -> Seq(Rows)]
    BY <1>1, <1>3 DEF TickInv, TypeOK
  <2> QED BY <1>1, <1>5, <2>1 DEF TickInv, TypeOK
<1>7. ConvergeInv'
  <2>1. /\ mbAnswer'[p] = NoAnswer
        /\ \A q \in Converging : q # p => mbAnswer'[q] = mbAnswer[q] /\ mbQueue'[q] = mbQueue[q]
    BY <1>1 DEF TickInv, TypeOK
  <2> QED BY <1>1, <1>2, <2>1 DEF TickInv, ConvergeInv
<1> QED BY <1>1, <1>2, <1>5, <1>6, <1>7, TickAlone DEF Tame

\* A step between two states of the watcher that handle nothing.
LEMMA Resting ==
  ASSUME TickInv, wPc \notin Handling, wPc' \notin Handling, UNCHANGED <<log, first, cursors>>,
         wPage' = <<>>
  PROVE  CursorInv' /\ PageInv' /\ \A c \in Councils : Falls(c)
<1>1. ASSUME NEW c \in Councils
      PROVE  Reach(c) = cursors[c] /\ Reach(c)' = cursors[c] /\ End(c)' = End(c)
  BY DEF Reach, End
<1>2. CursorInv'
  BY <1>1 DEF TickInv, CursorInv
<1>3. \A c \in Councils : Falls(c)
  BY <1>1, ReachTyped DEF Falls
<1> QED BY <1>2, <1>3 DEF PageInv

LEMMA EndMembershipsTame ==
  ASSUME TickInv, NEW p \in Converging, EndMemberships(p)
  PROVE  Tame
<1>1. /\ mbBusy[p] /\ mbQueue[p] = <<>> /\ mbBusy' = [mbBusy EXCEPT ![p] = FALSE]
      /\ wPc' = IF p = "boot" THEN "idle" ELSE wPc
      /\ UNCHANGED <<log, first, asked, memberships, channelStates, cursors, crashes>>
      /\ UNCHANGED <<wQueue, wFrom, wPage, chQueue, chAnswer, mbQueue, mbAnswer, joining>>
  BY DEF EndMemberships, chainVars, tableVars, chVars
<1>2. p = "boot" => wPc = "members"
  BY <1>1 DEF TickInv, ConvergeInv
<1>3. TypeOK'
  <2>1. mbBusy' \in [Converging -> BOOLEAN]
    BY <1>1 DEF TickInv, TypeOK
  <2> QED BY <1>1, <2>1 DEF TickInv, TypeOK, WPcs
<1>4. ConvergeInv'
  <2>1. /\ mbBusy'[p] = FALSE
        /\ \A q \in Converging : q # p => mbBusy'[q] = mbBusy[q]
    BY <1>1 DEF TickInv, TypeOK
  <2> QED BY <1>1, <1>2, <2>1 DEF TickInv, ConvergeInv, Converging, Asking
<1>5. CursorInv' /\ PageInv' /\ \A c \in Councils : Falls(c)
  <2>1. CASE p = "boot"
    BY <1>1, <1>2, <2>1, Resting DEF Handling, TickInv, PageInv
  <2>2. CASE p # "boot"
    BY <1>1, <2>2, TickAlone
  <2> QED BY <2>1, <2>2
<1> QED BY <1>3, <1>4, <1>5 DEF Tame

\* A step of the watcher that leaves the page and the cursors alone goes on handling the
\* same council, or none.
LEMMA SameTick ==
  ASSUME TickInv, wPc \in Handling <=> wPc' \in Handling, wPc = "apply" <=> wPc' = "apply",
         UNCHANGED <<log, first, cursors, wQueue, wFrom, wPage>>
  PROVE  CursorInv' /\ PageInv' /\ \A c \in Councils : Falls(c)
<1>1. ASSUME NEW c \in Councils
      PROVE  Reach(c)' = Reach(c) /\ End(c)' = End(c)
  BY DEF Reach, End, Handled
<1>2. CursorInv'
  BY <1>1 DEF TickInv, CursorInv
<1>3. \A c \in Councils : Falls(c)
  BY <1>1, ReachTyped DEF Falls
<1>4. PageInv'
  BY DEF TickInv, PageInv, End, Handled
<1> QED BY <1>2, <1>3, <1>4

LEMMA BeginChannelsTame ==
  ASSUME TickInv, BeginChannels
  PROVE  Tame /\ chAnswer' = NoAnswer
<1>1. /\ \/ wPc = "boot" /\ wPc' = "bootChannels"
         \/ wPc = "recover" /\ wPc' = "recoverChannels"
      /\ chQueue' = ListedCouncils \/ chQueue' = <<>>
      /\ UNCHANGED <<log, first, asked, memberships, channelStates, cursors, crashes>>
      /\ UNCHANGED <<wQueue, wFrom, wPage, chAnswer, mbBusy, mbQueue, mbAnswer, joining>>
  BY DEF BeginChannels, chainVars, tableVars, mbVars
<1>2. chQueue' \in Seq(Councils)
  BY <1>1, Listed, NothingIn DEF TickInv
<1>3. chAnswer = NoAnswer
  BY <1>1 DEF TickInv, ConvergeInv, Asking
<1>4. TypeOK'
  BY <1>1, <1>2 DEF TickInv, TypeOK, WPcs, Asking
<1>5. ConvergeInv'
  BY <1>1, <1>3 DEF TickInv, ConvergeInv, Asking
<1> QED BY <1>1, <1>3, <1>4, <1>5, SameTick DEF Tame, Handling

LEMMA AskChannelTame ==
  ASSUME TickInv, AskChannel
  PROVE  Tame
<1>1. /\ wPc \in Asking /\ chQueue # <<>> /\ chAnswer = NoAnswer
      /\ \/ chAnswer' = ChannelSays(Head(chQueue)) /\ UNCHANGED chQueue
         \/ chQueue' = Tail(chQueue) /\ UNCHANGED chAnswer
      /\ UNCHANGED <<log, first, asked, memberships, channelStates, cursors, crashes>>
      /\ UNCHANGED <<wPc, wQueue, wFrom, wPage, mbBusy, mbQueue, mbAnswer, joining>>
  BY DEF AskChannel, chainVars, tableVars, tickVars, mbVars
<1>2. ChannelSays(Head(chQueue)) \in ChannelState
  BY DEF ChannelSays, ChannelState
<1>3. Tail(chQueue) \in Seq(Councils)
  BY <1>1, Shortened DEF TickInv, TypeOK
<1>4. TypeOK'
  BY <1>1, <1>2, <1>3 DEF TickInv, TypeOK
<1>5. ConvergeInv'
  BY <1>1 DEF TickInv, ConvergeInv
<1> QED BY <1>1, <1>4, <1>5, TickAlone DEF Tame

LEMMA StoreChannelTame ==
  ASSUME TickInv, StoreChannel
  PROVE  /\ Tame /\ chAnswer' = NoAnswer
         /\ \A c \in Councils : \/ channelStates'[c] = channelStates[c]
                                \/ c = Head(chQueue) /\ channelStates'[c] = chAnswer
<1>1. /\ chAnswer # NoAnswer /\ chAnswer' = NoAnswer /\ chQueue' = Tail(chQueue)
      /\ channelStates' = [channelStates EXCEPT ![Head(chQueue)] = chAnswer] \/ UNCHANGED channelStates
      /\ UNCHANGED <<log, first, asked, memberships, cursors, crashes>>
      /\ UNCHANGED <<wPc, wQueue, wFrom, wPage, mbBusy, mbQueue, mbAnswer, joining>>
  BY DEF StoreChannel, ApplyState, chainVars, tickVars, mbVars
<1>2. wPc \in Asking /\ chQueue # <<>>
  BY <1>1 DEF TickInv, ConvergeInv
<1>3. Tail(chQueue) \in Seq(Councils) /\ channelStates \in [Councils -> ChannelState]
      /\ chAnswer \in ChannelState
  BY <1>1, <1>2, Shortened DEF TickInv, TypeOK
<1>4. channelStates' \in [Councils -> ChannelState]
      /\ \A c \in Councils : \/ channelStates'[c] = channelStates[c]
                             \/ c = Head(chQueue) /\ channelStates'[c] = chAnswer
  BY <1>1, <1>3
<1>5. TypeOK'
  BY <1>1, <1>3, <1>4 DEF TickInv, TypeOK
<1>6. ConvergeInv'
  BY <1>1, <1>2 DEF TickInv, ConvergeInv
<1> QED BY <1>1, <1>4, <1>5, <1>6, TickAlone DEF Tame

LEMMA EndChannelsTame ==
  ASSUME TickInv, EndChannels
  PROVE  Tame
<1>1. /\ chQueue = <<>>
      /\ \/ wPc = "bootChannels" /\ wPc' = "members"
         \/ wPc = "recoverChannels" /\ wPc' = "refetch"
      /\ UNCHANGED <<log, first, asked, memberships, channelStates, cursors, crashes>>
      /\ UNCHANGED <<wQueue, wFrom, wPage, chQueue, chAnswer, mbBusy, mbQueue, mbAnswer, joining>>
  BY DEF EndChannels, Asking, chainVars, tableVars, chVars, mbVars
<1>2. TypeOK'
  BY <1>1 DEF TickInv, TypeOK, WPcs
<1>3. ConvergeInv'
  BY <1>1 DEF TickInv, ConvergeInv
<1> QED BY <1>1, <1>2, <1>3, SameTick DEF Tame, Handling

LEMMA TickTame ==
  ASSUME TickInv, Tick
  PROVE  Tame
<1>1. /\ wPc = "idle" /\ wPc' = "next" /\ wQueue' = ListedCouncils
      /\ UNCHANGED <<log, first, asked, memberships, channelStates, cursors, crashes>>
      /\ UNCHANGED <<wFrom, wPage, chQueue, chAnswer, mbBusy, mbQueue, mbAnswer, joining>>
  BY DEF Tick, chainVars, tableVars, chVars, mbVars
<1>2. wQueue' \in Seq(Councils)
  BY <1>1, Listed DEF TickInv
<1>3. TypeOK'
  BY <1>1, <1>2 DEF TickInv, TypeOK, WPcs
<1>4. ConvergeInv'
  BY <1>1 DEF TickInv, ConvergeInv, Asking
<1>5. wPage = <<>>
  BY <1>1 DEF TickInv, PageInv
<1> QED BY <1>1, <1>3, <1>4, <1>5, Resting DEF Tame, Handling

LEMMA EndTickTame ==
  ASSUME TickInv, EndTick
  PROVE  Tame
<1>1. /\ wPc = "next" /\ wPc' = "idle"
      /\ UNCHANGED <<log, first, asked, memberships, channelStates, cursors, crashes>>
      /\ UNCHANGED <<wQueue, wFrom, wPage, chQueue, chAnswer, mbBusy, mbQueue, mbAnswer, joining>>
  BY DEF EndTick, chainVars, tableVars, chVars, mbVars
<1>2. TypeOK'
  BY <1>1 DEF TickInv, TypeOK, WPcs
<1>3. ConvergeInv'
  BY <1>1 DEF TickInv, ConvergeInv, Asking
<1>4. wPage = <<>>
  BY <1>1 DEF TickInv, PageInv
<1> QED BY <1>1, <1>2, <1>3, <1>4, Resting DEF Tame, Handling

LEMMA StartTame ==
  ASSUME TickInv, Start
  PROVE  Tame
<1>1. /\ wPc = "down" /\ wPc' = "boot"
      /\ UNCHANGED <<log, first, asked, memberships, channelStates, cursors, crashes>>
      /\ UNCHANGED <<wQueue, wFrom, wPage, chQueue, chAnswer, mbBusy, mbQueue, mbAnswer, joining>>
  BY DEF Start, chainVars, tableVars, chVars, mbVars
<1>2. TypeOK'
  BY <1>1 DEF TickInv, TypeOK, WPcs
<1>3. ConvergeInv'
  BY <1>1 DEF TickInv, ConvergeInv, Asking
<1>4. wPage = <<>>
  BY <1>1 DEF TickInv, PageInv
<1> QED BY <1>1, <1>2, <1>3, <1>4, Resting DEF Tame, Handling

LEMMA CrashTame ==
  ASSUME TickInv, Crash
  PROVE  Tame
<1>1. /\ crashes < MaxCrashes /\ crashes' = crashes + 1 /\ cursors' = NoCursors
      /\ wPc' = "down" /\ wQueue' = <<>> /\ wFrom' = 0 /\ wPage' = <<>>
      /\ chQueue' = <<>> /\ chAnswer' = NoAnswer
      /\ mbBusy' = Quiet /\ mbQueue' = NoRows /\ mbAnswer' = NoAnswers
      /\ joining' = NoCouncil
      /\ UNCHANGED <<log, first, asked, memberships, channelStates>>
  BY DEF Crash, chainVars, tableVars
<1>2. \A S : <<>> \in Seq(S)
  BY NothingIn
<1>3. TypeOK'
  <2>1. crashes' \in 0..MaxCrashes
    BY <1>1, WatcherBounds DEF TickInv, TypeOK
  <2>2. /\ wQueue' \in Seq(Councils) /\ wPage' \in Seq(Events) /\ chQueue' \in Seq(Councils)
        /\ mbQueue' \in [Converging -> Seq(Rows)]
    BY <1>1, <1>2 DEF NoRows
  <2>3. /\ cursors' \in [Councils -> Nat] /\ wPc' \in WPcs /\ wFrom' \in Nat
        /\ chAnswer' \in ChannelState \cup {NoAnswer}
        /\ joining' \in Councils \cup {NoCouncil}
    BY <1>1 DEF NoCursors, WPcs
  <2>4. /\ mbBusy' \in [Converging -> BOOLEAN]
        /\ mbAnswer' \in [Converging -> MembershipStatus \cup {NoAnswer}]
    BY <1>1 DEF Quiet, NoAnswers
  <2> QED BY <1>1, <2>1, <2>2, <2>3, <2>4 DEF TickInv, TypeOK
<1>4. ConvergeInv'
  BY <1>1 DEF ConvergeInv, NoCursors, Quiet, NoRows, NoAnswers, Converging
<1>5. ASSUME NEW c \in Councils
      PROVE  cursors'[c] = 0 /\ Reach(c)' = 0 /\ first'[c] = first[c] /\ End(c)' = End(c)
  BY <1>1 DEF NoCursors, Reach, Handling, End
<1>6. CursorInv' /\ \A c \in Councils : Falls(c)
  <2> SUFFICES ASSUME NEW c \in Councils
               PROVE  /\ first'[c] <= End(c)' /\ cursors'[c] <= Reach(c)' /\ Reach(c)' <= End(c)'
                      /\ Falls(c)
    BY DEF CursorInv
  <2>1. /\ cursors'[c] = 0 /\ Reach(c)' = 0 /\ first'[c] = first[c] /\ End(c)' = End(c)
        /\ first[c] \in Nat /\ first[c] <= End(c) /\ End(c) \in Nat
    BY <1>5, ReachTyped
  <2> QED BY <2>1 DEF Falls
<1>7. PageInv'
  BY <1>1 DEF PageInv, Handling
<1> QED BY <1>3, <1>4, <1>6, <1>7 DEF Tame

\* The tick puts its page away and keeps, for every council, the cursor or the ledger it
\* has got to.
LEMMA PageLeft ==
  ASSUME TickInv, wPc' \notin Handling, wPage' = <<>>, UNCHANGED <<log, first>>,
         \A c \in Councils : cursors'[c] = cursors[c] \/ cursors'[c] = Reach(c)
  PROVE  CursorInv' /\ PageInv' /\ \A c \in Councils : Falls(c)
<1>1. ASSUME NEW c \in Councils
      PROVE  Reach(c)' = cursors'[c] /\ End(c)' = End(c)
  BY DEF Reach, End
<1>2. ASSUME NEW c \in Councils
      PROVE  /\ first'[c] <= End(c)' /\ cursors'[c] <= Reach(c)' /\ Reach(c)' <= End(c)'
             /\ Falls(c)
  <2>1. /\ first[c] \in Nat /\ cursors[c] \in Nat /\ Reach(c) \in Int /\ End(c) \in Int
        /\ first[c] <= End(c) /\ cursors[c] <= Reach(c) /\ Reach(c) <= End(c)
    BY ReachTyped
  <2> QED BY <1>1, <2>1 DEF Falls
<1> QED BY <1>2 DEF CursorInv, PageInv

\* What the steps of a tick leave alone.
InTick == /\ UNCHANGED <<log, first, asked, crashes>>
          /\ UNCHANGED <<chQueue, chAnswer, mbBusy, mbQueue, mbAnswer, joining>>

\* Between the boot and the next restart nothing but the watcher's own loop is busy at boot.
LEMMA TickConverge ==
  ASSUME TickInv, InTick, wPc \in {"next", "fetch", "refetch", "apply"},
         wPc' \in {"next", "idle", "fetch", "recover", "apply"}
  PROVE  ConvergeInv'
BY DEF InTick, TickInv, ConvergeInv, Asking

LEMMA TickTyped ==
  ASSUME TypeOK, InTick, UNCHANGED <<memberships, channelStates>>, wPc' \in WPcs,
         cursors' \in [Councils -> Nat], wQueue' \in Seq(Councils), wFrom' \in Nat,
         wPage' \in Seq(Events)
  PROVE  TypeOK'
BY DEF TypeOK, InTick

LEMMA QueueTyped ==
  ASSUME TickInv, wQueue # <<>>
  PROVE  /\ wQueue \in Seq(Councils) /\ Tail(wQueue) \in Seq(Councils) /\ Head(wQueue) \in Councils
         /\ \A S : <<>> \in Seq(S)
BY Shortened, NothingIn DEF TickInv, TypeOK

\* getHealth, or the page ends early: the tick moves on and keeps its cursors.
LEMMA TickMovesOn ==
  ASSUME TickInv, InTick, UNCHANGED <<memberships, channelStates, cursors>>,
         wQueue # <<>>, wPc \in {"next", "fetch", "refetch", "apply"}, SkipCouncil \/ AbortTick
  PROVE  Tame
<1>1. /\ wPc' \in {"next", "idle"}
      /\ wQueue' = Tail(wQueue) \/ wQueue' = <<>>
      /\ wFrom' = 0 /\ wPage' = <<>>
  BY DEF SkipCouncil, AbortTick
<1>2. wQueue' \in Seq(Councils) /\ wPage' \in Seq(Events)
  BY <1>1, QueueTyped
<1>3. TypeOK'
  BY <1>1, <1>2, TickTyped DEF TickInv, TypeOK, WPcs
<1>4. ConvergeInv'
  BY <1>1, TickConverge
<1> QED BY <1>1, <1>3, <1>4, PageLeft DEF Tame, Handling, InTick

LEMMA NextCouncilTame ==
  ASSUME TickInv, NextCouncil
  PROVE  Tame
<1> DEFINE h == Head(wQueue)
<1>1. /\ wPc = "next" /\ wQueue # <<>> /\ InTick /\ UNCHANGED <<memberships, channelStates, cursors>>
      /\ \/ /\ wFrom' = IF cursors[h] > 0 THEN cursors[h] ELSE first[h]
            /\ wPc' = "fetch" /\ UNCHANGED <<wQueue, wPage>>
         \/ AbortTick
  BY DEF NextCouncil, InTick, chainVars, tableVars, chVars, mbVars
<1>2. CASE AbortTick
  BY <1>1, <1>2, TickMovesOn
<1>3. CASE /\ wFrom' = IF cursors[h] > 0 THEN cursors[h] ELSE first[h]
           /\ wPc' = "fetch" /\ UNCHANGED <<wQueue, wPage>>
  <2>1. h \in Councils /\ wQueue \in Seq(Councils)
    BY <1>1, QueueTyped
  <2>2. wPage = <<>> /\ Len(wPage) = 0
    BY <1>1, NothingIn DEF TickInv, PageInv
  <2>3. /\ wFrom' \in Nat /\ wFrom' >= 1 /\ wFrom' >= cursors[h] /\ wFrom' <= End(h)
        /\ wFrom' <= cursors[h] \/ wFrom' <= first[h]
    <3>1. /\ first[h] \in Nat /\ first[h] >= 1 /\ first[h] <= End(h) /\ End(h) \in Int
          /\ cursors[h] \in Nat /\ Reach(h) \in Int /\ cursors[h] <= Reach(h) /\ Reach(h) <= End(h)
      BY <2>1, ReachTyped, SMTT(30)
    <3> HIDE DEF h
    <3> QED BY <1>3, <3>1
  <2>4. TypeOK'
    BY <1>1, <1>3, <2>1, <2>3, TickTyped DEF TickInv, TypeOK, WPcs
  <2>5. ConvergeInv'
    BY <1>1, <1>3, TickConverge
  <2>6. PageInv'
    <3>1. Handled' = wFrom'
      BY <1>3, <2>2, <2>3 DEF Handled
    <3>2. End(h)' = End(h) /\ h' = h
      BY <1>1, <1>3 DEF End, InTick
    <3>3. wPage' = <<>> /\ 1..Len(wPage') = {}
      BY <1>3, <2>2
    <3> QED BY <1>1, <1>3, <2>3, <3>1, <3>2, <3>3 DEF PageInv, End
  <2>7. ASSUME NEW c \in Councils
        PROVE  /\ first'[c] <= End(c)' /\ cursors'[c] <= Reach(c)' /\ Reach(c)' <= End(c)'
               /\ Falls(c)
    <3>1. /\ first[c] \in Nat /\ cursors[c] \in Nat /\ Reach(c) \in Int /\ End(c) \in Int
          /\ first[c] <= End(c) /\ cursors[c] <= Reach(c) /\ Reach(c) <= End(c)
      BY ReachTyped
    <3>2. End(c)' = End(c) /\ first'[c] = first[c] /\ cursors'[c] = cursors[c]
      BY <1>1 DEF End, InTick
    <3>3. Reach(c) = cursors[c]
      BY <1>1 DEF Reach, Handling
    <3>4. Reach(c)' = IF c = h THEN wFrom' ELSE cursors[c]
      BY <1>1, <1>3, <2>2, <2>3 DEF Reach, Handling, Handled
    <3> QED BY <2>3, <3>1, <3>2, <3>3, <3>4 DEF Falls
  <2> QED BY <2>4, <2>5, <2>6, <2>7 DEF Tame, CursorInv
<1> QED BY <1>1, <1>2, <1>3

\* A page is read from where the tick is, and nothing of it is handled yet.
LEMMA PageRead ==
  ASSUME TickInv, InTick, UNCHANGED <<memberships, channelStates, cursors>>,
         wPc \in {"fetch", "refetch"}, ReadPage(Head(wQueue))
  PROVE  Tame
<1> DEFINE h == Head(wQueue)
           n == PageLen(h, wFrom)
<1>1. /\ wPage' = [k \in 1..n |-> log[h][wFrom + k - 1]]
      /\ wFrom' = wFrom + n /\ wPc' = "apply" /\ UNCHANGED wQueue
  BY DEF ReadPage
<1>2. wQueue # <<>> /\ 1 <= Handled /\ wFrom <= End(h) /\ wPage = <<>>
  BY DEF TickInv, PageInv, Handling
<1>3. h \in Councils /\ wQueue \in Seq(Councils)
  BY <1>2, QueueTyped
<1>4. /\ log[h] \in Seq(Events) /\ Len(log[h]) \in Nat /\ End(h) = Len(log[h]) + 1
      /\ wFrom \in Nat /\ Handled = wFrom /\ wFrom >= 1
  BY <1>2, <1>3, ReachTyped, NothingIn DEF Handled
<1>5. n \in Nat /\ wFrom + n <= End(h)
  BY <1>2, <1>4, WatcherBounds DEF PageLen
<1> HIDE DEF h, n
<1>6. \A k \in 1..n : wFrom + k - 1 \in 1..Len(log[h])
  BY ONLY <1>4, <1>5
<1>7. wPage' \in Seq(Events) /\ Len(wPage') = n
  <2>1. \A i \in 1..Len(log[h]) : log[h][i] \in Events
    BY <1>4, ElementOfSeq
  <2>2. wPage' \in [1..n -> Events]
    BY <1>1, <1>6, <2>1
  <2> QED BY <1>5, <2>2, Tabled
<1>8. Handled' = wFrom
  BY <1>1, <1>4, <1>5, <1>7 DEF Handled
<1>9. TypeOK'
  <2>1. wFrom' \in Nat /\ wPc' \in WPcs /\ cursors' \in [Councils -> Nat]
    BY <1>1, <1>4, <1>5 DEF TickInv, TypeOK, WPcs
  <2> QED BY <1>1, <1>3, <1>7, <2>1, TickTyped DEF TickInv
<1>10. ConvergeInv'
  BY <1>1, TickConverge
<1>11. PageInv'
  <2>1. Head(wQueue') = h /\ End(h)' = End(h) /\ log' = log /\ h' = h
    BY <1>1 DEF h, End, InTick
  <2>2. \A k \in 1..Len(wPage') : wPage'[k] = log'[Head(wQueue')][Handled' + k - 1]
    BY <1>1, <1>7, <1>8, <2>1
  <2>3. wFrom' <= End(Head(wQueue))'
    BY <1>1, <1>5, <2>1 DEF End
  <2> QED BY <1>1, <1>2, <1>4, <1>8, <2>2, <2>3 DEF PageInv
<1>12. ASSUME NEW c \in Councils
       PROVE  Reach(c)' = Reach(c) /\ End(c)' = End(c) /\ first'[c] = first[c] /\ cursors'[c] = cursors[c]
  <2>1. wPc \in Handling /\ wPc' \in Handling
    BY <1>1 DEF Handling
  <2> QED BY <1>1, <1>4, <1>8, <2>1 DEF Reach, End, InTick
<1>13. CursorInv' /\ \A c \in Councils : Falls(c)
  BY <1>12, ReachTyped DEF CursorInv, Falls
<1> QED BY <1>9, <1>10, <1>11, <1>13 DEF Tame

LEMMA FetchTame ==
  ASSUME TickInv, Fetch
  PROVE  Tame
<1> DEFINE h == Head(wQueue)
<1>1. /\ wPc = "fetch" /\ InTick /\ UNCHANGED <<memberships, channelStates>>
      /\ \/ ReadPage(h) /\ UNCHANGED cursors
         \/ /\ cursors' = [cursors EXCEPT ![h] = 0]
            /\ wFrom' = first[h] /\ wPc' = "recover" /\ UNCHANGED <<wQueue, wPage>>
         \/ SkipCouncil /\ UNCHANGED cursors
  BY DEF Fetch, InTick, chainVars, tableVars, chVars, mbVars
<1>2. wQueue # <<>> /\ wPage = <<>> /\ Len(wPage) = 0
  BY <1>1, NothingIn DEF TickInv, PageInv, Handling
<1>3. CASE ReadPage(h) /\ UNCHANGED cursors
  BY <1>1, <1>3, PageRead
<1>4. CASE SkipCouncil /\ UNCHANGED cursors
  BY <1>1, <1>2, <1>4, TickMovesOn
<1>5. CASE /\ cursors' = [cursors EXCEPT ![h] = 0]
           /\ wFrom' = first[h] /\ wPc' = "recover" /\ UNCHANGED <<wQueue, wPage>>
  <2>1. h \in Councils /\ wQueue \in Seq(Councils)
    BY <1>2, QueueTyped
  <2>2. first[h] \in Nat /\ first[h] >= 1 /\ first[h] <= End(h)
    BY <2>1, ReachTyped
  <2>3. cursors \in [Councils -> Nat] /\ wPage \in Seq(Events)
    BY DEF TickInv, TypeOK
  <2>4. TypeOK'
    BY <1>1, <1>5, <2>1, <2>2, <2>3, TickTyped DEF TickInv, WPcs
  <2>5. ConvergeInv'
    BY <1>1, <1>5, TickConverge
  <2>6. Handled' = first[h] /\ Head(wQueue') = h
    BY <1>2, <1>5, <2>2 DEF Handled
  <2>7. PageInv'
    <3>1. End(Head(wQueue))' = End(h) /\ 1..Len(wPage') = {}
      BY <1>1, <1>2, <1>5 DEF End, InTick
    <3> QED BY <1>2, <1>5, <2>2, <2>6, <3>1 DEF PageInv, End
  <2>8. ASSUME NEW c \in Councils
        PROVE  /\ first'[c] <= End(c)' /\ cursors'[c] <= Reach(c)' /\ Reach(c)' <= End(c)'
               /\ Falls(c)
    <3>1. /\ first[c] \in Nat /\ cursors[c] \in Nat /\ Reach(c) \in Int /\ End(c) \in Int
          /\ first[c] <= End(c) /\ cursors[c] <= Reach(c) /\ Reach(c) <= End(c)
      BY ReachTyped
    <3>2. End(c)' = End(c) /\ first'[c] = first[c] /\ cursors'[c] = IF c = h THEN 0 ELSE cursors[c]
      BY <1>1, <1>5, <2>3 DEF End, InTick
    <3>3. Reach(c) = IF c = h THEN Handled ELSE cursors[c]
      BY <1>1 DEF Reach, Handling
    <3>4. Reach(c)' = IF c = h THEN first[c] ELSE cursors[c]
      BY <1>5, <2>6, <3>2 DEF Reach, Handling
    <3> HIDE DEF h
    <3> QED BY <3>1, <3>2, <3>3, <3>4 DEF Falls
  <2> QED BY <2>4, <2>5, <2>7, <2>8 DEF Tame, CursorInv
<1> QED BY <1>1, <1>3, <1>4, <1>5

LEMMA RefetchTame ==
  ASSUME TickInv, Refetch
  PROVE  Tame
<1>1. /\ wPc = "refetch" /\ InTick /\ UNCHANGED <<memberships, channelStates, cursors>>
      /\ ReadPage(Head(wQueue)) \/ SkipCouncil
  BY DEF Refetch, InTick, chainVars, tableVars, chVars, mbVars
<1>2. wQueue # <<>>
  BY <1>1 DEF TickInv, PageInv, Handling
<1> QED BY <1>1, <1>2, PageRead, TickMovesOn

LEMMA EndPageTame ==
  ASSUME TickInv, EndPage
  PROVE  Tame
<1> DEFINE h == Head(wQueue)
<1>1. /\ wPc = "apply" /\ wPage = <<>> /\ cursors' = [cursors EXCEPT ![h] = wFrom] /\ SkipCouncil
      /\ InTick /\ UNCHANGED <<memberships, channelStates>>
  BY DEF EndPage, InTick, chainVars, tableVars, chVars, mbVars
<1>2. wQueue # <<>> /\ Len(wPage) = 0
  BY <1>1, NothingIn DEF TickInv, PageInv, Handling
<1>3. h \in Councils /\ Tail(wQueue) \in Seq(Councils) /\ <<>> \in Seq(Events)
  BY <1>2, QueueTyped
<1>4. wFrom \in Nat /\ cursors \in [Councils -> Nat] /\ Reach(h) = wFrom
  BY <1>1, <1>2 DEF TickInv, TypeOK, Reach, Handling, Handled
<1>5. \A c \in Councils : cursors'[c] = cursors[c] \/ cursors'[c] = Reach(c)
  BY <1>1, <1>4
<1>6. TypeOK'
  BY <1>1, <1>3, <1>4, TickTyped DEF TickInv, SkipCouncil, WPcs
<1>7. ConvergeInv'
  BY <1>1, TickConverge DEF SkipCouncil
<1> QED BY <1>1, <1>5, <1>6, <1>7, PageLeft DEF Tame, SkipCouncil, Handling, InTick

\* What a handled event writes has the type of its column.
LEMMA EventWritten ==
  ASSUME TypeOK, NEW c \in Councils, NEW e \in Events, WriteEvent(c, Topic(e))
  PROVE  /\ memberships' \in Seq(Rows) /\ channelStates' \in [Councils -> ChannelState]
         /\ \A d \in Councils : d # c => channelStates'[d] = channelStates[d]
         /\ e \in ChannelEvents => channelStates'[c] = Verdict(e) /\ UNCHANGED memberships
         /\ e \notin ChannelEvents => UNCHANGED channelStates
         /\ e \in MembershipEvents => SetStatus(c, Verdict(e)) /\ Verdict(e) \in MembershipStatus
<1>1. /\ channelStates \in [Councils -> ChannelState] /\ memberships \in Seq(Rows)
  BY DEF TypeOK
<1>2. CASE e \in ChannelEvents
  <2>1. Topic(e) = e /\ e \notin MembershipEvents /\ Verdict(e) \in ChannelState
    BY <1>2 DEF Topic, ChannelEvents, MembershipEvents, Verdict, ChannelState
  <2>2. channelStates' = [channelStates EXCEPT ![c] = Verdict(e)] /\ UNCHANGED memberships
    BY <2>1 DEF WriteEvent, ApplyState
  <2> QED BY <1>1, <1>2, <2>1, <2>2
<1>3. CASE e \notin ChannelEvents
  <2>1. /\ Topic(e) \in MembershipEvents /\ Verdict(Topic(e)) \in MembershipStatus
        /\ e \in MembershipEvents => Topic(e) = e
    BY <1>3 DEF Events, OtherEvents, MembershipEvents, Topic, Verdict, MembershipStatus
  <2>2. SetStatus(c, Verdict(Topic(e))) /\ UNCHANGED channelStates
    BY <2>1 DEF WriteEvent
  <2>3. memberships' \in Seq(Rows)
    BY <2>1, <2>2, StatusSet
  <2> QED BY <1>1, <1>3, <2>1, <2>2, <2>3
<1> QED BY <1>2, <1>3

\* The event is the one its council's log has where the tick has got to; the tick is one
\* ledger further at most when it was written, and no further when it was not.
LEMMA Applied ==
  ASSUME TickInv, ApplyEvent, NEW h, h = Head(wQueue)
  PROVE  /\ TypeOK' /\ CursorInv' /\ PageInv' /\ ConvergeInv'
         /\ InTick /\ wPc = "apply"
         /\ h \in Councils /\ wQueue # <<>>
         /\ Reach(h) = Handled /\ Handled \in 1..Len(log[h])
         /\ log[h][Handled] \in Events
         /\ \A c \in Councils : c # h => Falls(c)
         /\ \/ /\ WriteEvent(h, Topic(log[h][Handled]))
               /\ Reach(h)' <= Handled + 1
            \/ /\ UNCHANGED <<memberships, channelStates>>
               /\ Falls(h)
         /\ wQueue' = wQueue \/ wQueue' = <<>>
         /\ UNCHANGED cursors
<1> DEFINE e == log[h][Handled]
<1>1. /\ wPc = "apply" /\ wPage # <<>> /\ InTick /\ UNCHANGED cursors
      /\ \/ /\ WriteEvent(h, Topic(Head(wPage)))
            /\ wPage' = Tail(wPage) /\ UNCHANGED <<wPc, wQueue, wFrom>>
         \/ /\ WriteEvent(h, Topic(Head(wPage))) \/ UNCHANGED <<memberships, channelStates>>
            /\ AbortTick
  BY DEF ApplyEvent, InTick, chainVars, tableVars, chVars, mbVars
<1>2. /\ wQueue # <<>> /\ 1 <= Handled /\ wFrom <= End(h)
      /\ \A k \in 1..Len(wPage) : wPage[k] = log[h][Handled + k - 1]
  BY <1>1 DEF TickInv, PageInv, Handling
<1>3. h \in Councils /\ wQueue \in Seq(Councils) /\ \A S : <<>> \in Seq(S)
  BY <1>2, QueueTyped
<1>4. /\ log[h] \in Seq(Events) /\ Len(log[h]) \in Nat /\ End(h) = Len(log[h]) + 1
      /\ wFrom \in Nat /\ Handled = wFrom - Len(wPage)
  BY <1>3, ReachTyped DEF Handled
<1>5. /\ Tail(wPage) \in Seq(Events) /\ Len(wPage) \in Nat /\ Len(wPage) >= 1
      /\ Len(Tail(wPage)) = Len(wPage) - 1 /\ Head(wPage) = wPage[1]
      /\ \A i \in 1..Len(wPage) - 1 : Tail(wPage)[i] = wPage[i + 1]
  BY <1>1, Shortened DEF TickInv, TypeOK
<1>6. Handled \in 1..Len(log[h])
  BY ONLY <1>2, <1>4, <1>5
<1>7. Head(wPage) = e /\ e \in Events
  <2>1. Handled + 1 - 1 = Handled /\ 1 \in 1..Len(wPage)
    BY <1>5, <1>6
  <2>2. \A i \in 1..Len(log[h]) : log[h][i] \in Events
    BY <1>4, ElementOfSeq
  <2> QED BY <1>2, <1>5, <1>6, <2>1, <2>2
<1> HIDE DEF e
<1>8. memberships' \in Seq(Rows) /\ channelStates' \in [Councils -> ChannelState]
  BY <1>1, <1>3, <1>7, EventWritten DEF TickInv, TypeOK
<1>9. Reach(h) = Handled
  BY <1>1 DEF Reach, Handling
<1>10. ConvergeInv'
  BY <1>1, TickConverge DEF AbortTick
<1>11. CASE AbortTick
  <2>1. wPc' = "idle" /\ wQueue' = <<>> /\ wFrom' = 0 /\ wPage' = <<>>
    BY <1>11 DEF AbortTick
  <2>2. TypeOK'
    BY <1>1, <1>3, <1>8, <2>1 DEF TickInv, TypeOK, InTick, WPcs
  <2>3. CursorInv' /\ PageInv' /\ \A c \in Councils : Falls(c)
    BY <1>1, <2>1, PageLeft DEF Handling, InTick
  <2>4. Reach(h)' <= Handled + 1
    <3>1. Reach(h)' = cursors[h] /\ cursors[h] <= Reach(h) /\ cursors[h] \in Nat
      BY <1>1, <1>3, <2>1, ReachTyped DEF Reach, Handling
    <3> QED BY <1>6, <1>9, <3>1
  <2> QED BY <1>1, <1>2, <1>3, <1>6, <1>7, <1>9, <1>10, <2>1, <2>2, <2>3, <2>4 DEF e
<1>12. CASE /\ WriteEvent(h, Topic(Head(wPage)))
            /\ wPage' = Tail(wPage) /\ UNCHANGED <<wPc, wQueue, wFrom>>
  <2>1. TypeOK'
    BY <1>1, <1>5, <1>8, <1>12 DEF TickInv, TypeOK, InTick
  <2>2. Handled' = Handled + 1
    BY <1>4, <1>5, <1>12 DEF Handled
  <2>3. Head(wQueue') = h /\ End(h)' = End(h)
    BY <1>1, <1>12 DEF End, InTick
  <2>4. PageInv'
    <3>1. ASSUME NEW k \in 1..Len(wPage') PROVE wPage'[k] = log[h][Handled' + k - 1]
      <4>1. k + 1 \in 1..Len(wPage) /\ k \in 1..Len(wPage) - 1 /\ Handled + (k + 1) - 1 = Handled' + k - 1
        BY <1>5, <1>6, <1>12, <2>2
      <4>2. wPage'[k] = wPage[k + 1]
        BY <1>5, <1>12, <4>1
      <4> QED BY <1>2, <4>1, <4>2
    <3>2. 1 <= Handled' /\ wFrom' <= End(Head(wQueue))'
      BY <1>2, <1>6, <1>12, <2>2, <2>3 DEF End
    <3> QED BY <1>1, <1>2, <1>12, <2>3, <3>1, <3>2 DEF PageInv, InTick
  <2>5. ASSUME NEW c \in Councils
        PROVE  /\ End(c)' = End(c) /\ first'[c] = first[c] /\ cursors'[c] = cursors[c]
               /\ Reach(c)' = IF c = h THEN Handled + 1 ELSE Reach(c)
    BY <1>1, <1>12, <2>2 DEF End, InTick, Reach, Handling
  <2>6. Handled + 1 <= End(h) /\ cursors[h] <= Handled + 1
    <3>1. cursors[h] \in Nat /\ cursors[h] <= Reach(h)
      BY <1>3, ReachTyped
    <3> QED BY <1>4, <1>6, <1>9, <3>1
  <2>7. CursorInv'
    <3> SUFFICES ASSUME NEW c \in Councils
                 PROVE  first'[c] <= End(c)' /\ cursors'[c] <= Reach(c)' /\ Reach(c)' <= End(c)'
      BY DEF CursorInv
    <3> QED BY <2>5, <2>6, ReachTyped
  <2>8. \A c \in Councils : c # h => Falls(c)
    BY <2>5, ReachTyped DEF Falls
  <2>9. Reach(h)' <= Handled + 1
    BY <1>3, <1>6, <2>5
  <2> QED BY <1>1, <1>2, <1>3, <1>6, <1>7, <1>9, <1>10, <1>12, <2>1, <2>4, <2>7, <2>8, <2>9 DEF e
<1> QED BY <1>1, <1>11, <1>12

-----------------------------------------------------------------------------
(* The steps: what the stored values may be *)

\* A value that was right stays right when its council is read no further.
LEMMA StaysRight ==
  ASSUME TickInv, TypeOK', CursorInv', NEW c \in Councils, Falls(c),
         Len(log[c]) <= Len(log'[c]), \A i \in 1..Len(log[c]) : log'[c][i] = log[c][i],
         first[c] <= first'[c],
         NEW K, NEW v, Said(log[c], K, first[c], Reach(c), v)
  PROVE  Said(log'[c], K, first'[c], Reach(c)', v)
<1>1. /\ Len(log[c]) \in Nat /\ first[c] \in Nat /\ Reach(c) \in Int /\ Reach(c) <= Len(log[c]) + 1
  BY ReachTyped
<1>2. Len(log'[c]) \in Nat /\ first'[c] \in Nat
  BY LenProperties DEF TypeOK
<1>3. Reach(c)' \in Int
  <2>1. wFrom' \in Nat /\ Len(wPage') \in Nat /\ cursors'[c] \in Nat
    BY LenProperties DEF TypeOK
  <2> QED BY <2>1 DEF Reach, Handled
<1>4. CASE Reach(c)' <= Reach(c)
  <2> DEFINE events == log[c]
             more == log'[c]
             hi == Reach(c)
             hi2 == Reach(c)'
             lo == first[c]
             lo2 == first'[c]
  <2>1. Said(events, K, lo, hi, v) /\ Len(events) <= Len(more) /\ lo <= lo2
        /\ \A i \in 1..Len(events) : more[i] = events[i]
    OBVIOUS
  <2>2. /\ Len(events) \in Nat /\ Len(more) \in Nat /\ lo \in Nat /\ lo2 \in Nat
        /\ hi \in Int /\ hi2 \in Int /\ hi2 <= hi /\ hi2 <= Len(events) + 1
    BY <1>1, <1>2, <1>3, <1>4
  <2> HIDE DEF events, more, hi, hi2, lo, lo2
  <2>3. Said(more, K, lo2, hi2, v)
    BY <2>1, <2>2, SaidKept
  <2> QED BY <2>3 DEF more, lo2, hi2
<1>5. CASE Reach(c)' <= first'[c]
  <2> DEFINE more == log'[c]
             hi2 == Reach(c)'
             lo2 == first'[c]
  <2>1. Len(more) \in Nat /\ lo2 \in Nat /\ hi2 \in Int /\ hi2 <= lo2
    BY <1>2, <1>3, <1>5
  <2> HIDE DEF more, hi2, lo2
  <2>2. Said(more, K, lo2, hi2, v)
    BY <2>1, SaidNone
  <2> QED BY <2>2 DEF more, lo2, hi2
<1> QED BY <1>4, <1>5 DEF Falls

\* Applying an event keeps a value right that is not of its kind.
LEMMA AppliedPast ==
  ASSUME TickInv, ApplyEvent, NEW K, NEW v, NEW c \in Councils,
         c = Head(wQueue), log[c][Handled] \notin K, Said(log[c], K, first[c], Reach(c), v)
  PROVE  Said(log'[c], K, first'[c], Reach(c)', v)
<1>1. /\ TypeOK' /\ Handled \in 1..Len(log[c]) /\ Reach(c) = Handled /\ log' = log /\ first' = first
      /\ Reach(c)' <= Handled + 1 \/ Falls(c)
  BY Applied DEF InTick
<1>2. Len(log[c]) \in Nat /\ first[c] \in Nat
  BY ReachTyped
<1>3. Reach(c)' \in Int
  <2>1. wFrom' \in Nat /\ Len(wPage') \in Nat /\ cursors'[c] \in Nat
    BY <1>1, LenProperties DEF TypeOK
  <2> QED BY <2>1 DEF Reach, Handled
<1> DEFINE events == log[c]
           hi2 == Reach(c)'
           lo == first[c]
           pos == Handled
<1>4. Said(events, K, lo, pos, v) /\ events[pos] \notin K
  BY <1>1
<1>5. Len(events) \in Nat /\ lo \in Nat /\ pos \in 1..Len(events) /\ hi2 \in Int
  BY <1>1, <1>2, <1>3
<1>6. hi2 <= pos + 1 \/ hi2 <= lo
  BY <1>1, <1>3, <1>5 DEF Falls
<1> HIDE DEF events, hi2, lo, pos
<1>7. Said(events, K, lo, pos + 1, v)
  BY <1>4, <1>5, SaidNext
<1>8. Said(events, K, lo, hi2, v)
  <2>1. CASE hi2 <= lo
    BY <1>5, <2>1, SaidNone
  <2>2. CASE hi2 <= pos + 1
    <3> DEFINE up == pos + 1
    <3>1. up \in Int /\ hi2 <= up /\ hi2 <= Len(events) + 1 /\ Said(events, K, lo, up, v)
      BY <1>5, <1>7, <2>2
    <3>2. lo <= lo /\ Len(events) <= Len(events)
      BY <1>5
    <3> HIDE DEF up
    <3> QED BY <1>5, <3>1, <3>2, SaidKept
  <2> QED BY <1>6, <2>1, <2>2
<1> QED BY <1>1, <1>8 DEF events, hi2, lo

\* The event that was applied is what its own value now says.
LEMMA AppliedSays ==
  ASSUME TickInv, ApplyEvent, NEW K, NEW c \in Councils,
         c = Head(wQueue), log[c][Handled] \in K
  PROVE  Reach(c)' <= Handled + 1 => Said(log'[c], K, first'[c], Reach(c)', Verdict(log[c][Handled]))
<1>1. TypeOK' /\ Handled \in 1..Len(log[c]) /\ log' = log /\ first' = first
  BY Applied DEF InTick
<1>2. Len(log[c]) \in Nat /\ first[c] \in Nat
  BY ReachTyped
<1>3. Reach(c)' \in Int
  <2>1. wFrom' \in Nat /\ Len(wPage') \in Nat /\ cursors'[c] \in Nat
    BY <1>1, LenProperties DEF TypeOK
  <2> QED BY <2>1 DEF Reach, Handled
<1> SUFFICES ASSUME Reach(c)' <= Handled + 1
             PROVE  Said(log[c], K, first[c], Reach(c)', Verdict(log[c][Handled]))
  BY <1>1
<1> DEFINE events == log[c]
           hi2 == Reach(c)'
           lo == first[c]
           pos == Handled
<1>4. /\ Len(events) \in Nat /\ lo \in Nat /\ pos \in 1..Len(events) /\ hi2 \in Int
      /\ hi2 <= pos + 1 /\ events[pos] \in K
  BY <1>1, <1>2, <1>3
<1> HIDE DEF events, hi2, lo, pos
<1>5. Said(events, K, lo, hi2, Verdict(events[pos]))
  BY <1>4, SaidAhead
<1> QED BY <1>5 DEF events, hi2, lo, pos

\* Every step but the one that applies an event: logs grow, retention moves on, and no
\* council is read further.
Steady == Tame /\ \A c \in Councils : /\ Len(log[c]) <= Len(log'[c])
                                      /\ \A i \in 1..Len(log[c]) : log'[c][i] = log[c][i]
                                      /\ first[c] <= first'[c]

LEMMA SteadyAlone ==
  ASSUME TickInv, Tame, UNCHANGED <<log, first>>
  PROVE  Steady
BY ReachTyped DEF Steady

LEMMA StutterTame ==
  ASSUME TickInv, UNCHANGED vars
  PROVE  Tame
<1>1. /\ UNCHANGED <<log, first, asked, memberships, channelStates, cursors, crashes>>
      /\ UNCHANGED <<wPc, wQueue, wFrom, wPage, chQueue, chAnswer, mbBusy, mbQueue, mbAnswer, joining>>
  BY DEF vars, chainVars, tableVars, tickVars, chVars, mbVars
<1>2. TypeOK'
  BY <1>1 DEF TickInv, TypeOK
<1>3. ConvergeInv'
  BY <1>1 DEF TickInv, ConvergeInv
<1> QED BY <1>1, <1>2, <1>3, TickAlone DEF Tame

LEMMA SteadyNext ==
  ASSUME TickInv, [Next]_vars, ~ApplyEvent
  PROVE  Steady
<1>1. ASSUME NEW c \in Councils, Decide(c) PROVE Steady
  <2>1. Tame /\ UNCHANGED first
    BY <1>1, DecideTame DEF Decide
  <2>2. \A d \in Councils : /\ Len(log[d]) <= Len(log'[d])
                            /\ \A i \in 1..Len(log[d]) : log'[d][i] = log[d][i]
    BY <1>1, LogGrows DEF TickInv
  <2> QED BY <2>1, <2>2, ReachTyped, SMTT(30) DEF Steady
<1>2. ASSUME NEW c \in Councils, Forget(c) PROVE Steady
  <2>1. Tame /\ UNCHANGED log /\ first' = [first EXCEPT ![c] = first[c] + 1]
    BY <1>2, ForgetTame DEF Forget
  <2>2. first \in [Councils -> Nat]
    BY DEF TickInv, TypeOK
  <2>3. \A d \in Councils : first[d] <= first'[d] /\ Len(log[d]) \in Nat
    BY <2>1, <2>2, ReachTyped
  <2> QED BY <2>1, <2>3 DEF Steady
<1>3. ASSUME NEW c \in Councils, Join(c) PROVE Steady
  BY <1>3, JoinTame, SteadyAlone DEF Join
<1>4. CASE InsertRow
  BY <1>4, InsertRowTame, SteadyAlone DEF InsertRow, chainVars
<1>5. ASSUME NEW p \in Converging, Memberships(p) PROVE Steady
  <2>1. Tame
    BY <1>5, BeginMembershipsTame, AskMembershipTame, StoreMembershipTame, EndMembershipsTame
    DEF Memberships
  <2>2. UNCHANGED chainVars
    BY <1>5 DEF Memberships, BeginMemberships, AskMembership, StoreMembership, EndMemberships
  <2> QED BY <2>1, <2>2, SteadyAlone DEF chainVars
<1>6. CASE BeginChannels \/ AskChannel \/ StoreChannel \/ EndChannels
  <2>1. Tame
    BY <1>6, BeginChannelsTame, AskChannelTame, StoreChannelTame, EndChannelsTame
  <2>2. UNCHANGED chainVars
    BY <1>6 DEF BeginChannels, AskChannel, StoreChannel, EndChannels
  <2> QED BY <2>1, <2>2, SteadyAlone DEF chainVars
<1>7. CASE Tick \/ NextCouncil \/ EndTick \/ Fetch \/ Refetch \/ EndPage
  <2>1. Tame
    BY <1>7, TickTame, NextCouncilTame, EndTickTame, FetchTame, RefetchTame, EndPageTame
  <2>2. UNCHANGED chainVars
    BY <1>7 DEF Tick, NextCouncil, EndTick, Fetch, Refetch, EndPage
  <2> QED BY <2>1, <2>2, SteadyAlone DEF chainVars
<1>8. CASE Crash \/ Start
  <2>1. Tame
    BY <1>8, CrashTame, StartTame
  <2>2. UNCHANGED chainVars
    BY <1>8 DEF Crash, Start
  <2> QED BY <2>1, <2>2, SteadyAlone DEF chainVars
<1>9. CASE UNCHANGED vars
  BY <1>9, StutterTame, SteadyAlone DEF vars, chainVars
<1>10. "boot" \in Converging /\ "operator" \in Converging
  BY DEF Converging
<1> QED BY <1>1, <1>2, <1>3, <1>4, <1>5, <1>6, <1>7, <1>8, <1>9, <1>10 DEF Next, Watch

LEMMA RightNext ==
  ASSUME TickInv, Steady, NEW c \in Councils, NEW K, NEW v, Said(log[c], K, first[c], Reach(c), v)
  PROVE  Said(log'[c], K, first'[c], Reach(c)', v)
BY StaysRight DEF Steady, Tame

\* What a steady step leaves the channel states to be.
LEMMA ChannelsKept ==
  ASSUME TickInv, Steady,
         \A c \in Councils : \/ channelStates'[c] = channelStates[c]
                             \/ chAnswer # NoAnswer /\ c = Head(chQueue) /\ channelStates'[c] = chAnswer,
         \/ chAnswer' = NoAnswer
         \/ UNCHANGED <<chQueue, chAnswer>>
  PROVE  ChannelInv'
<1>1. ASSUME NEW c \in Councils, NEW v, v = channelStates'[c]
      PROVE  Said(log'[c], ChannelEvents, first'[c], Reach(c)', v)
  <2>1. Said(log[c], ChannelEvents, first[c], Reach(c), v)
    BY <1>1 DEF TickInv, ChannelInv, May
  <2> QED BY <2>1, RightNext
<1>2. ASSUME NEW c, NEW v, c = Head(chQueue'), v = chAnswer', v # NoAnswer
      PROVE  Said(log'[c], ChannelEvents, first'[c], Reach(c)', v)
  <2>1. c = Head(chQueue) /\ v = chAnswer
    BY <1>2
  <2>2. c \in Councils
    BY <1>2, <2>1, Shortened DEF TickInv, ConvergeInv, TypeOK
  <2>3. Said(log[c], ChannelEvents, first[c], Reach(c), v)
    BY <1>2, <2>1 DEF TickInv, ChannelInv, May
  <2> QED BY <2>2, <2>3, RightNext
<1> QED BY <1>1, <1>2 DEF ChannelInv, May

LEMMA ChannelAsked ==
  ASSUME TickInv, Steady, AskChannel
  PROVE  ChannelInv'
<1>1. /\ wPc \in Asking /\ chQueue # <<>> /\ chAnswer = NoAnswer
      /\ UNCHANGED <<log, first, channelStates>>
      /\ \/ chAnswer' = ChannelSays(Head(chQueue)) /\ UNCHANGED chQueue
         \/ chAnswer' = NoAnswer
  BY DEF AskChannel, chainVars, tableVars
<1>2. CASE chAnswer' = NoAnswer
  BY <1>1, <1>2, ChannelsKept
<1>3. CASE chAnswer' = ChannelSays(Head(chQueue)) /\ UNCHANGED chQueue
  <2>1. ASSUME NEW c \in Councils, NEW v, v = channelStates'[c]
        PROVE  Said(log'[c], ChannelEvents, first'[c], Reach(c)', v)
    <3>1. Said(log[c], ChannelEvents, first[c], Reach(c), v)
      BY <1>1, <2>1 DEF TickInv, ChannelInv, May
    <3> QED BY <3>1, RightNext
  <2>2. ASSUME NEW c, NEW v, c = Head(chQueue'), v = chAnswer'
        PROVE  Said(log'[c], ChannelEvents, first'[c], Reach(c)', v)
    <3>1. c = Head(chQueue) /\ v = ChannelSays(c)
      BY <1>3, <2>2
    <3>2. c \in Councils
      BY <1>1, <3>1, Shortened DEF TickInv, TypeOK
    <3>3. first[c] \in Nat /\ Reach(c) \in Int
      BY <3>2, ReachTyped
    <3>4. Said(log[c], ChannelEvents, first[c], Reach(c), v)
      BY <3>1, <3>2, <3>3, ChannelAnswer DEF TickInv
    <3> QED BY <3>2, <3>4, RightNext
  <2> QED BY <2>1, <2>2 DEF ChannelInv, May
<1> QED BY <1>1, <1>2, <1>3

LEMMA ChannelApplied ==
  ASSUME TickInv, ApplyEvent
  PROVE  ChannelInv'
<1>1. PICK h : h = Head(wQueue)
  OBVIOUS
<1>2. /\ TypeOK' /\ CursorInv' /\ InTick /\ wPc = "apply"
      /\ h \in Councils /\ Handled \in 1..Len(log[h]) /\ log[h][Handled] \in Events
      /\ \A c \in Councils : c # h => Falls(c)
      /\ \/ /\ WriteEvent(h, Topic(log[h][Handled]))
            /\ Reach(h)' <= Handled + 1
         \/ /\ UNCHANGED <<memberships, channelStates>>
            /\ Falls(h)
  BY <1>1, Applied
<1>3. chAnswer' = NoAnswer
  BY <1>2 DEF TickInv, ConvergeInv, Asking, InTick
<1>4. ASSUME NEW c \in Councils, Falls(c), NEW v, v = channelStates'[c], v = channelStates[c]
      PROVE  Said(log'[c], ChannelEvents, first'[c], Reach(c)', v)
  <2>1. Said(log[c], ChannelEvents, first[c], Reach(c), v)
    BY <1>4 DEF TickInv, ChannelInv, May
  <2>2. /\ Len(log[c]) <= Len(log'[c]) /\ first[c] <= first'[c]
        /\ \A i \in 1..Len(log[c]) : log'[c][i] = log[c][i]
    BY <1>2, ReachTyped DEF InTick
  <2> QED BY <1>2, <1>4, <2>1, <2>2, StaysRight
<1>5. ASSUME NEW c \in Councils, NEW v, v = channelStates'[c]
      PROVE  Said(log'[c], ChannelEvents, first'[c], Reach(c)', v)
  <2>1. CASE UNCHANGED channelStates /\ Falls(c)
    BY <1>4, <1>5, <2>1
  <2>2. CASE c # h /\ WriteEvent(h, Topic(log[h][Handled]))
    <3>1. channelStates'[c] = channelStates[c]
      BY <1>2, <2>2, EventWritten DEF TickInv
    <3> QED BY <1>2, <1>4, <1>5, <2>2, <3>1
  <2>3. CASE c = h /\ WriteEvent(h, Topic(log[h][Handled])) /\ Reach(h)' <= Handled + 1
    <3> DEFINE e == log[h][Handled]
    <3>1. CASE e \in ChannelEvents
      <4>1. v = Verdict(e)
        BY <1>2, <1>5, <2>3, <3>1, EventWritten DEF TickInv
      <4> QED BY <1>1, <1>2, <2>3, <3>1, <4>1, AppliedSays
    <3>2. CASE e \notin ChannelEvents
      <4>1. channelStates' = channelStates
        BY <1>2, <2>3, <3>2, EventWritten DEF TickInv
      <4>2. Said(log[c], ChannelEvents, first[c], Reach(c), v)
        BY <1>5, <4>1 DEF TickInv, ChannelInv, May
      <4> QED BY <1>1, <2>3, <3>2, <4>2, AppliedPast
    <3> QED BY <3>1, <3>2
  <2> QED BY <1>2, <2>1, <2>2, <2>3
<1> QED BY <1>3, <1>5 DEF ChannelInv, May

LEMMA TickInvNext == TickInv /\ [Next]_vars => TickInv'
<1> SUFFICES ASSUME TickInv, [Next]_vars PROVE TickInv'
  OBVIOUS
<1>1. CASE ApplyEvent
  <2>1. PICK h : h = Head(wQueue)
    OBVIOUS
  <2> QED BY <1>1, <2>1, Applied, ChannelApplied DEF TickInv
<1>2. CASE ~ApplyEvent
  <2>1. Steady
    BY <1>2, SteadyNext
  <2>2. ChannelInv'
    <3>1. CASE AskChannel
      BY <2>1, <3>1, ChannelAsked
    <3>2. CASE StoreChannel
      <4>1. chAnswer # NoAnswer
        BY <3>2 DEF StoreChannel
      <4> QED BY <2>1, <3>2, <4>1, StoreChannelTame, ChannelsKept
    <3>3. CASE BeginChannels
      BY <2>1, <3>3, BeginChannelsTame, ChannelsKept DEF BeginChannels, tableVars
    <3>4. CASE Crash
      BY <2>1, <3>4, ChannelsKept DEF Crash, tableVars
    <3>5. CASE UNCHANGED <<channelStates, chQueue, chAnswer>>
      BY <2>1, <3>5, ChannelsKept
    <3>6. CASE \/ \E c \in Councils : Decide(c) \/ Forget(c) \/ Join(c)
               \/ InsertRow
               \/ Memberships("operator") \/ Memberships("boot")
               \/ EndChannels \/ Start \/ UNCHANGED vars
      <4>1. UNCHANGED <<channelStates, chQueue, chAnswer>>
        BY <3>6 DEF Decide, Forget, Join, InsertRow, Memberships, BeginMemberships, AskMembership,
           StoreMembership, EndMemberships, EndChannels, Start, vars, tableVars, chVars
      <4> QED BY <3>5, <4>1
    <3>7. CASE Tick \/ NextCouncil \/ EndTick \/ Fetch \/ Refetch \/ EndPage
      <4>1. UNCHANGED <<channelStates, chQueue, chAnswer>>
        BY <3>7 DEF Tick, NextCouncil, EndTick, Fetch, Refetch, EndPage, tableVars, chVars
      <4> QED BY <3>5, <4>1
    <3> QED BY <1>2, <3>1, <3>2, <3>3, <3>4, <3>6, <3>7 DEF Next, Watch
  <2> QED BY <2>1, <2>2 DEF Steady, Tame, TickInv
<1> QED BY <1>1, <1>2

\* The watcher, the convergence and the operator keep every page on its council's log,
\* every cursor behind it, and every channel state at one the council has said.
THEOREM TickInvariant == Spec => []TickInv
<1>1. Init => TickInv
  BY TickInvInit
<1>2. TickInv /\ [Next]_vars => TickInv'
  BY TickInvNext
<1> QED BY <1>1, <1>2, PTL DEF Spec

\* The variables hold what their declarations say: no event, query or operator writes a
\* status that its column does not have.
THEOREM TypeCorrect == Spec => []TypeOK
<1>1. TickInv => TypeOK
  BY DEF TickInv
<1> QED BY <1>1, TickInvariant, PTL

LEMMA InvariantFollows == TickInv => ChannelFollows
<1> SUFFICES ASSUME TickInv, NEW c \in Councils, HasRead(c, ChannelEvents)
             PROVE  channelStates[c] \in SaidSince(c, ChannelEvents)
  BY DEF ChannelFollows
<1>1. PICK v : v = channelStates[c]
  OBVIOUS
<1> DEFINE events == log[c]
           hi  == Reach(c)
           hi2 == cursors[c]
           lo  == first[c]
<1>2. Said(events, ChannelEvents, lo, hi, v)
  BY <1>1 DEF TickInv, ChannelInv, May
<1>3. /\ Len(events) \in Nat /\ lo \in Nat /\ hi \in Int /\ hi2 \in Int /\ hi2 <= hi
      /\ hi2 <= Len(events) + 1 /\ hi2 <= End(c)
  BY ReachTyped
<1>4. lo <= lo /\ Len(events) <= Len(events)
  BY <1>3
<1> HIDE DEF events, hi, hi2, lo
<1>5. Said(events, ChannelEvents, lo, hi2, v)
  BY <1>2, <1>3, <1>4, SaidKept
<1> QED BY <1>1, <1>3, <1>5, FollowsIsSince DEF events, hi2, lo, TickInv

\* No channel event below the cursor is lost on its way to channel_states, whatever fails,
\* restarts or falls out of retention and however many councils, pages and rows there are.
THEOREM ChannelsFollow == Spec => []ChannelFollows
BY InvariantFollows, TickInvariant, PTL

\* The councils that the tick is to read have rows.
LEMMA QueueRows ==
  ASSUME TickInv, \A k \in 1..Len(wQueue) : HasRow(wQueue[k]),
         \/ wQueue' = wQueue
         \/ wQueue' = <<>>
         \/ wQueue' = Tail(wQueue) /\ wQueue # <<>>
         \/ wQueue' = ListedCouncils
  PROVE  \A k \in 1..Len(wQueue') : HasRow(wQueue'[k])
<1>1. wQueue \in Seq(Councils)
  BY DEF TickInv, TypeOK
<1>2. CASE wQueue' = <<>>
  BY <1>2, NothingIn
<1>3. CASE wQueue' = Tail(wQueue) /\ wQueue # <<>>
  <2> SUFFICES ASSUME NEW k \in 1..Len(Tail(wQueue)) PROVE HasRow(Tail(wQueue)[k])
    BY <1>3
  <2>1. k \in 1..Len(wQueue) - 1 /\ k + 1 \in 1..Len(wQueue) /\ Tail(wQueue)[k] = wQueue[k + 1]
    BY <1>1, <1>3, Shortened
  <2> QED BY <2>1
<1>4. CASE wQueue' = ListedCouncils
  BY <1>4, Listed DEF TickInv
<1> QED BY <1>2, <1>3, <1>4

-----------------------------------------------------------------------------
(* The rows, when nobody but the watcher and its boot writes them *)

RowsMay ==
  \A i \in 1..Len(memberships) :
    May(memberships[i].council, MembershipEvents, memberships[i].status)

\* Cursors, queues and requests know which councils have a row.
RowsKnown ==
  /\ \A c \in Councils : cursors[c] > 0 => HasRow(c)
  /\ \A k \in 1..Len(wQueue) : HasRow(wQueue[k])
  /\ joining # NoCouncil => ~HasRow(joining)
  /\ ~mbBusy["operator"]

OnlyUs == \A c \in Councils : \A i \in 1..Len(log[c]) : log[c][i] \notin OtherEvents

LEMMA MemberParts == MemberInv <=> RowsMay /\ RowsKnown /\ OnlyUs
BY DEF MemberInv, RowsMay, RowsKnown, OnlyUs

LEMMA MemberInvInit == Init => MemberInv
<1> SUFFICES ASSUME Init PROVE MemberInv
  OBVIOUS
<1>1. /\ 1..Len(memberships) = {} /\ 1..Len(wQueue) = {} /\ joining = NoCouncil
      /\ \A c \in Councils : cursors[c] = 0 /\ 1..Len(log[c]) = {}
  <2>1. Len(<<>>) = 0
    BY NothingIn
  <2> QED BY <2>1 DEF Init, NoCursors
<1>2. ~mbBusy["operator"]
  BY DEF Init, Quiet, Converging
<1> QED BY <1>1, <1>2 DEF MemberInv

LEMMA OnlyUsNext ==
  ASSUME OwnRows, TypeOK, OnlyUs, NEW c \in Councils, Decide(c)
  PROVE  OnlyUs'
<1>1. \/ UNCHANGED log
      \/ \E e \in MembershipEvents \cup ChannelEvents : Emit(c, e)
  BY DEF Decide, OwnRows, MembershipEvents, ChannelEvents
<1>2. ASSUME NEW e \in MembershipEvents \cup ChannelEvents, Emit(c, e) PROVE OnlyUs'
  <2> DEFINE more == Append(log[c], e)
  <2>1. log \in [Councils -> Seq(Events)] /\ log[c] \in Seq(Events) /\ e \in Events /\ e \notin OtherEvents
    BY DEF TypeOK, Events, MembershipEvents, ChannelEvents, OtherEvents
  <2>2. /\ Len(log[c]) \in Nat /\ Len(more) = Len(log[c]) + 1 /\ more[Len(log[c]) + 1] = e
        /\ \A i \in 1..Len(log[c]) : more[i] = log[c][i]
    BY <2>1, Lengthened
  <2>3. log' = [log EXCEPT ![c] = more]
    BY <1>2 DEF Emit
  <2> HIDE DEF more
  <2>4. \A i \in 1..Len(more) : more[i] \notin OtherEvents
    <3> SUFFICES ASSUME NEW i \in 1..Len(more) PROVE more[i] \notin OtherEvents
      OBVIOUS
    <3>1. i \in 1..Len(log[c]) \/ i = Len(log[c]) + 1
      BY <2>2
    <3> QED BY <2>1, <2>2, <3>1 DEF OnlyUs
  <2> QED BY <2>1, <2>3, <2>4 DEF OnlyUs
<1> QED BY <1>1, <1>2 DEF OnlyUs

\* A step that leaves the rows alone.
LEMMA RowsAlone ==
  ASSUME TickInv, Steady, RowsMay, UNCHANGED memberships
  PROVE  RowsMay'
<1>1. ASSUME NEW i \in 1..Len(memberships), NEW c, NEW v, c = memberships[i].council, v = memberships[i].status
      PROVE  Said(log'[c], MembershipEvents, first'[c], Reach(c)', v)
  <2>1. c \in Councils
    BY <1>1, RowsTyped DEF TickInv
  <2>2. Said(log[c], MembershipEvents, first[c], Reach(c), v)
    BY <1>1 DEF RowsMay, May
  <2> QED BY <2>1, <2>2, RightNext
<1> QED BY <1>1 DEF RowsMay, May

\* What the queue of the tick may become, and the cursors.
LEMMA KnownKept ==
  ASSUME TickInv, RowsKnown, UNCHANGED memberships,
         \/ wQueue' = wQueue
         \/ wQueue' = <<>>
         \/ wQueue' = Tail(wQueue) /\ wQueue # <<>>
         \/ wQueue' = ListedCouncils,
         \A c \in Councils : cursors'[c] = cursors[c] \/ cursors'[c] = 0 \/ HasRow(c),
         \/ joining' = joining
         \/ joining' = NoCouncil
         \/ ~HasRow(joining'),
         ~mbBusy'["operator"]
  PROVE  RowsKnown'
<1>1. \A k \in 1..Len(wQueue') : HasRow(wQueue'[k])
  BY QueueRows DEF RowsKnown
<1>2. ASSUME NEW c \in Councils, cursors'[c] > 0 PROVE HasRow(c)
  BY <1>2 DEF RowsKnown
<1> QED BY <1>1, <1>2 DEF RowsKnown, HasRow

\* Only the boot converges the memberships.
LEMMA BootConverges ==
  ASSUME TickInv, RowsKnown, NEW p \in Converging, mbBusy[p]
  PROVE  /\ p = "boot"
         /\ \A c \in Councils : Reach(c) = 0
<1>1. p = "boot" /\ wPc = "members"
  BY DEF RowsKnown, Converging, TickInv, ConvergeInv
<1>2. ASSUME NEW c \in Councils PROVE Reach(c) = 0
  BY <1>1 DEF TickInv, ConvergeInv, Reach, Handling
<1> QED BY <1>1, <1>2

LEMMA StoreMembershipKeepsRows ==
  ASSUME TickInv, RowsKnown, NEW p \in Converging, StoreMembership(p)
  PROVE  RowsMay' /\ RowsKnown'
<1>1. /\ Tame /\ mbBusy[p] /\ Len(memberships') = Len(memberships)
      /\ \A i \in 1..Len(memberships) : memberships'[i].council = memberships[i].council
  BY StoreMembershipTame
<1>2. /\ UNCHANGED <<log, first, cursors, wPc, wQueue, wFrom, wPage, mbBusy, joining>>
  BY DEF StoreMembership, chainVars, tickVars
<1>3. \A c \in Councils : Reach(c)' = 0
  BY <1>1, <1>2, BootConverges DEF Reach, Handled
<1>4. ASSUME NEW c \in Councils, NEW v
      PROVE  Said(log'[c], MembershipEvents, first'[c], Reach(c)', v)
  <2> DEFINE events == log'[c]
             lo == first'[c]
             hi == Reach(c)'
  <2>1. Len(events) \in Nat /\ lo \in Nat /\ hi = 0 /\ hi <= lo
    BY <1>2, <1>3, ReachTyped
  <2> HIDE DEF events, lo, hi
  <2>2. Said(events, MembershipEvents, lo, hi, v)
    BY <2>1, SaidNone
  <2> QED BY <2>2 DEF events, lo, hi
<1>5. RowsMay'
  <2>1. ASSUME NEW i \in 1..Len(memberships'), NEW c, NEW v, c = memberships'[i].council, v = memberships'[i].status
        PROVE  Said(log'[c], MembershipEvents, first'[c], Reach(c)', v)
    <3>1. c \in Councils
      BY <1>1, <2>1, RowsTyped DEF TickInv
    <3> QED BY <1>4, <3>1
  <2> QED BY <2>1 DEF RowsMay, May
<1>6. \A c : HasRow(c)' <=> HasRow(c)
  BY <1>1 DEF HasRow
<1> QED BY <1>2, <1>5, <1>6 DEF RowsKnown

LEMMA InsertRowKeepsRows ==
  ASSUME TickInv, RowsMay, RowsKnown, InsertRow
  PROVE  RowsMay' /\ RowsKnown'
<1> DEFINE n == Len(memberships)
<1>1. /\ joining # NoCouncil /\ joining' = NoCouncil /\ Tame
      /\ UNCHANGED <<log, first, cursors, wPc, wQueue, wFrom, wPage, mbBusy>>
  BY InsertRowTame DEF InsertRow, chainVars, tickVars, mbVars
<1>2. CASE UNCHANGED memberships
  <2>1. Steady
    BY <1>1, SteadyAlone
  <2> QED BY <1>1, <1>2, <2>1, RowsAlone, KnownKept DEF RowsKnown
<1>3. CASE /\ Len(memberships') = n + 1
           /\ \A i \in 1..n : memberships'[i] = memberships[i]
           /\ memberships'[n + 1] = [council |-> joining, status |-> "PENDING"]
  <2>1. n \in Nat
    BY RowsTyped DEF TickInv
  <2>2. PICK c : c = joining
    OBVIOUS
  <2>3. c \in Councils /\ ~HasRow(c)
    BY <1>1, <2>2 DEF TickInv, TypeOK, RowsKnown
  <2>4. Reach(c)' = 0
    <3>1. wPc \in Handling => c # Head(wQueue)
      <4> SUFFICES ASSUME wPc \in Handling, c = Head(wQueue) PROVE FALSE
        OBVIOUS
      <4>1. wQueue # <<>> /\ wQueue \in Seq(Councils)
        BY DEF TickInv, PageInv, TypeOK
      <4>2. 1 \in 1..Len(wQueue) /\ Head(wQueue) = wQueue[1]
        BY <4>1, Shortened
      <4> QED BY <2>3, <4>2 DEF RowsKnown
    <3>2. cursors[c] = 0
      BY <2>3 DEF RowsKnown, TickInv, TypeOK
    <3> QED BY <1>1, <3>1, <3>2 DEF Reach
  <2>5. ASSUME NEW v
        PROVE  Said(log'[c], MembershipEvents, first'[c], Reach(c)', v)
    <3> DEFINE events == log'[c]
               lo == first'[c]
               hi == Reach(c)'
    <3>1. Len(events) \in Nat /\ lo \in Nat /\ hi = 0 /\ hi <= lo
      BY <1>1, <2>3, <2>4, ReachTyped
    <3> HIDE DEF events, lo, hi
    <3>2. Said(events, MembershipEvents, lo, hi, v)
      BY <3>1, SaidNone
    <3> QED BY <3>2 DEF events, lo, hi
  <2>6. \A d \in Councils : Reach(d)' = Reach(d)
    BY <1>1 DEF Reach, Handled
  <2>7. RowsMay'
    <3>1. ASSUME NEW i \in 1..Len(memberships'), NEW d, NEW v,
                 d = memberships'[i].council, v = memberships'[i].status
          PROVE  Said(log'[d], MembershipEvents, first'[d], Reach(d)', v)
      <4>1. CASE i \in 1..n
        <5>1. d = memberships[i].council /\ v = memberships[i].status
          BY <1>3, <3>1, <4>1
        <5>2. d \in Councils
          BY <4>1, <5>1, RowsTyped DEF TickInv
        <5>3. Said(log[d], MembershipEvents, first[d], Reach(d), v)
          BY <4>1, <5>1 DEF RowsMay, May
        <5> QED BY <1>1, <2>6, <5>2, <5>3
      <4>2. CASE i = n + 1
        <5>1. d = c
          BY <1>3, <2>2, <3>1, <4>2
        <5> QED BY <2>5, <5>1
      <4> QED BY <1>3, <2>1, <4>1, <4>2
    <3> QED BY <3>1 DEF RowsMay, May
  <2>8. \A d : HasRow(d) => HasRow(d)'
    <3>1. \A i \in 1..n : i \in 1..Len(memberships') /\ memberships'[i] = memberships[i]
      BY <1>3, <2>1
    <3> QED BY <3>1 DEF HasRow
  <2> QED BY <1>1, <2>7, <2>8 DEF RowsKnown
<1> QED BY <1>2, <1>3, InsertRowTame

LEMMA ApplyKeepsRows ==
  ASSUME TickInv, RowsMay, RowsKnown, OnlyUs, ApplyEvent
  PROVE  RowsMay' /\ RowsKnown'
<1>1. PICK h : h = Head(wQueue)
  OBVIOUS
<1> DEFINE e == log[h][Handled]
<1>2. /\ TypeOK' /\ CursorInv' /\ InTick /\ wPc = "apply" /\ UNCHANGED cursors
      /\ h \in Councils /\ Handled \in 1..Len(log[h]) /\ e \in Events
      /\ \A c \in Councils : c # h => Falls(c)
      /\ \/ /\ WriteEvent(h, Topic(e))
            /\ Reach(h)' <= Handled + 1
         \/ /\ UNCHANGED <<memberships, channelStates>>
            /\ Falls(h)
      /\ wQueue' = wQueue \/ wQueue' = <<>>
  BY <1>1, Applied
<1>3. e \in MembershipEvents \/ e \in ChannelEvents
  BY <1>2 DEF OnlyUs, Events
<1>4. /\ Len(memberships') = Len(memberships)
      /\ \A i \in 1..Len(memberships) :
           /\ memberships'[i].council = memberships[i].council
           /\ memberships[i].council # h => memberships'[i].status = memberships[i].status
           /\ memberships[i].council = h => \/ memberships'[i].status = memberships[i].status /\ Falls(h)
                                            \/ /\ memberships'[i].status = memberships[i].status
                                               /\ e \notin MembershipEvents
                                            \/ /\ memberships'[i].status = Verdict(e)
                                               /\ e \in MembershipEvents /\ Reach(h)' <= Handled + 1
  <2>1. CASE UNCHANGED memberships /\ Falls(h)
    BY <2>1
  <2>2. CASE WriteEvent(h, Topic(e)) /\ e \in ChannelEvents
    <3>1. UNCHANGED memberships
      BY <1>2, <2>2, EventWritten DEF TickInv
    <3>2. e \notin MembershipEvents
      BY <2>2 DEF ChannelEvents, MembershipEvents
    <3> QED BY <3>1, <3>2
  <2>3. CASE WriteEvent(h, Topic(e)) /\ Reach(h)' <= Handled + 1 /\ e \in MembershipEvents
    <3>1. SetStatus(h, Verdict(e)) /\ Verdict(e) \in MembershipStatus
      BY <1>2, <2>3, EventWritten DEF TickInv
    <3> HIDE DEF e
    <3> QED BY <1>2, <2>3, <3>1, StatusSet DEF TickInv
  <2> QED BY <1>2, <1>3, <2>1, <2>2, <2>3
<1>5. ASSUME NEW c \in Councils, Falls(c), NEW v, Said(log[c], MembershipEvents, first[c], Reach(c), v)
      PROVE  Said(log'[c], MembershipEvents, first'[c], Reach(c)', v)
  <2>1. /\ Len(log[c]) <= Len(log'[c]) /\ first[c] <= first'[c]
        /\ \A i \in 1..Len(log[c]) : log'[c][i] = log[c][i]
    BY <1>2, ReachTyped DEF InTick
  <2> QED BY <1>2, <1>5, <2>1, StaysRight
<1>6. ASSUME NEW i \in 1..Len(memberships), NEW c, NEW v,
             c = memberships'[i].council, v = memberships'[i].status
      PROVE  Said(log'[c], MembershipEvents, first'[c], Reach(c)', v)
  <2>1. c = memberships[i].council
    BY <1>4, <1>6
  <2>2. c \in Councils
    BY <2>1, RowsTyped DEF TickInv
  <2>3. CASE v = memberships[i].status
    <3>1. Said(log[c], MembershipEvents, first[c], Reach(c), v)
      BY <2>1, <2>3 DEF RowsMay, May
    <3>2. CASE Falls(c)
      BY <1>5, <2>2, <3>1, <3>2
    <3>3. CASE c = h /\ e \notin MembershipEvents
      BY <1>1, <2>2, <3>1, <3>3, AppliedPast
    <3>4. CASE c = h /\ e \in MembershipEvents /\ v = Verdict(e) /\ Reach(h)' <= Handled + 1
      BY <1>1, <2>2, <3>4, AppliedSays
    <3> QED BY <1>2, <1>4, <1>6, <2>1, <2>2, <3>2, <3>3, <3>4
  <2>4. CASE v # memberships[i].status
    <3>1. c = h /\ e \in MembershipEvents /\ v = Verdict(e) /\ Reach(h)' <= Handled + 1
      BY <1>4, <1>6, <2>1, <2>4
    <3> QED BY <1>1, <2>2, <3>1, AppliedSays
  <2> QED BY <2>3, <2>4
<1>7. RowsMay'
  BY <1>4, <1>6 DEF RowsMay, May
<1>8. \A c : HasRow(c)' <=> HasRow(c)
  BY <1>4 DEF HasRow
<1>9. \A k \in 1..Len(wQueue') : HasRow(wQueue'[k])
  BY <1>2, QueueRows DEF RowsKnown
<1> QED BY <1>2, <1>7, <1>8, <1>9 DEF RowsKnown, InTick

LEMMA KnownNext ==
  ASSUME OwnRows, TickInv, RowsKnown, [Next]_vars, ~InsertRow, ~ApplyEvent,
         \A p \in Converging : ~StoreMembership(p)
  PROVE  RowsKnown' /\ UNCHANGED memberships
<1>1. CASE UNCHANGED <<memberships, cursors, wQueue, mbBusy>> /\ UNCHANGED joining
  BY <1>1, KnownKept DEF RowsKnown
<1>2. CASE \/ \E c \in Councils : Decide(c) \/ Forget(c)
           \/ \E p \in Converging : AskMembership(p)
           \/ BeginChannels \/ AskChannel \/ StoreChannel \/ EndChannels
           \/ EndTick \/ Start \/ UNCHANGED vars
  <2>1. UNCHANGED <<memberships, cursors, wQueue, mbBusy>> /\ UNCHANGED joining
    BY <1>2 DEF Decide, Forget, AskMembership, BeginChannels, AskChannel, StoreChannel, EndChannels,
       EndTick, Start, vars, tableVars, tickVars, chVars, mbVars
  <2> QED BY <1>1, <2>1
<1>3. ASSUME NEW c \in Councils, Join(c) PROVE RowsKnown' /\ UNCHANGED memberships
  <2>1. /\ joining' = c /\ ~HasRow(c) /\ UNCHANGED <<memberships, cursors, wQueue, mbBusy>>
    BY <1>3 DEF Join, OwnRows, tableVars, tickVars, mbVars
  <2> QED BY <2>1, KnownKept DEF RowsKnown
<1>4. ASSUME NEW p \in Converging, BeginMemberships(p) \/ EndMemberships(p)
      PROVE  RowsKnown' /\ UNCHANGED memberships
  <2>1. /\ UNCHANGED <<memberships, cursors, wQueue, joining>>
        /\ \/ p = "boot" /\ mbBusy' = [mbBusy EXCEPT ![p] = TRUE]
           \/ mbBusy' = [mbBusy EXCEPT ![p] = FALSE]
    BY <1>4 DEF BeginMemberships, EndMemberships, OwnRows, tableVars, tickVars
  <2>2. ~mbBusy'["operator"]
    BY <2>1 DEF RowsKnown, TickInv, TypeOK, Converging
  <2> QED BY <2>1, <2>2, KnownKept
<1>5. CASE Tick \/ NextCouncil \/ Refetch
  <2>1. UNCHANGED <<memberships, cursors, mbBusy, joining>>
    BY <1>5 DEF Tick, NextCouncil, Refetch, tableVars, mbVars
  <2>2. \/ wQueue' = wQueue
        \/ wQueue' = <<>>
        \/ wQueue' = Tail(wQueue) /\ wQueue # <<>>
        \/ wQueue' = ListedCouncils
    BY <1>5 DEF Tick, NextCouncil, Refetch, ReadPage, SkipCouncil, AbortTick, TickInv, PageInv, Handling
  <2> QED BY <2>1, <2>2, KnownKept DEF RowsKnown
<1>6. CASE Fetch \/ EndPage
  <2>1. PICK h : h = Head(wQueue)
    OBVIOUS
  <2>2. /\ UNCHANGED <<memberships, mbBusy, joining>> /\ wPc \in Handling
        /\ \/ UNCHANGED cursors
           \/ cursors' = [cursors EXCEPT ![h] = 0]
           \/ cursors' = [cursors EXCEPT ![h] = wFrom]
        /\ wQueue' = wQueue \/ wQueue' = Tail(wQueue)
    BY <1>6, <2>1 DEF Fetch, EndPage, ReadPage, SkipCouncil, tableVars, mbVars, Handling
  <2>3. wQueue # <<>> /\ wQueue \in Seq(Councils)
    BY <2>2 DEF TickInv, PageInv, TypeOK
  <2>4. HasRow(h)
    <3>1. 1 \in 1..Len(wQueue) /\ h = wQueue[1]
      BY <2>1, <2>3, Shortened
    <3> QED BY <3>1 DEF RowsKnown
  <2>5. \A c \in Councils : cursors'[c] = cursors[c] \/ cursors'[c] = 0 \/ HasRow(c)
    BY <2>2, <2>4 DEF TickInv, TypeOK
  <2> QED BY <2>2, <2>3, <2>5, KnownKept DEF RowsKnown
<1>7. CASE Crash
  <2>1. /\ UNCHANGED memberships /\ wQueue' = <<>> /\ joining' = NoCouncil
        /\ \A c \in Councils : cursors'[c] = 0
        /\ ~mbBusy'["operator"]
    BY <1>7 DEF Crash, tableVars, NoCursors, Quiet, Converging
  <2> QED BY <2>1, KnownKept
<1>8. ASSUME NEW p \in Converging, Memberships(p) PROVE RowsKnown' /\ UNCHANGED memberships
  BY <1>2, <1>4, <1>8 DEF Memberships
<1>9. Memberships("boot") \/ Memberships("operator") => RowsKnown' /\ UNCHANGED memberships
  BY <1>8 DEF Converging
<1> QED BY <1>2, <1>3, <1>5, <1>6, <1>7, <1>9 DEF Next, Watch

LEMMA MemberInvNext ==
  ASSUME OwnRows PROVE TickInv /\ MemberInv /\ [Next]_vars => MemberInv'
<1> SUFFICES ASSUME TickInv, MemberInv, [Next]_vars PROVE MemberInv'
  OBVIOUS
<1>1. RowsMay /\ RowsKnown /\ OnlyUs
  BY MemberParts
<1>2. OnlyUs'
  <2>1. CASE \E c \in Councils : Decide(c)
    BY <1>1, <2>1, OnlyUsNext DEF TickInv
  <2>2. CASE ~(\E c \in Councils : Decide(c))
    <3>1. UNCHANGED log
      BY <2>2 DEF Next, Watch, Memberships, Forget, Join, InsertRow, BeginMemberships, AskMembership,
         StoreMembership, EndMemberships, BeginChannels, AskChannel, StoreChannel, EndChannels,
         Tick, NextCouncil, EndTick, Fetch, Refetch, ApplyEvent, EndPage, Crash, Start, vars, chainVars
    <3> QED BY <1>1, <3>1 DEF OnlyUs
  <2> QED BY <2>1, <2>2
<1>3. RowsMay' /\ RowsKnown'
  <2>1. CASE ApplyEvent
    BY <1>1, <2>1, ApplyKeepsRows
  <2>2. CASE InsertRow
    BY <1>1, <2>2, InsertRowKeepsRows
  <2>3. ASSUME NEW p \in Converging, StoreMembership(p) PROVE RowsMay' /\ RowsKnown'
    BY <1>1, <2>3, StoreMembershipKeepsRows
  <2>4. CASE ~ApplyEvent /\ ~InsertRow /\ \A p \in Converging : ~StoreMembership(p)
    <3>1. RowsKnown' /\ UNCHANGED memberships
      BY <1>1, <2>4, KnownNext
    <3>2. Steady
      BY <2>4, SteadyNext
    <3> QED BY <1>1, <3>1, <3>2, RowsAlone
  <2> QED BY <2>1, <2>2, <2>3, <2>4
<1>4. RowsMay' /\ RowsKnown' /\ OnlyUs' => MemberInv'
  BY DEF MemberInv, RowsMay, RowsKnown, OnlyUs
<1> QED BY <1>2, <1>3, <1>4

LEMMA InvariantsFollow == TickInv /\ MemberInv => MembershipFollows
<1> SUFFICES ASSUME TickInv, MemberInv, NEW c \in Councils, HasRead(c, MembershipEvents),
                    NEW v \in StatusesOf(c)
             PROVE  v \in SaidSince(c, MembershipEvents)
  BY DEF MembershipFollows
<1>1. PICK i \in 1..Len(memberships) : memberships[i].council = c /\ memberships[i].status = v
  BY DEF StatusesOf
<1> DEFINE events == log[c]
           hi  == Reach(c)
           hi2 == cursors[c]
           lo  == first[c]
<1>2. Said(events, MembershipEvents, lo, hi, v)
  BY <1>1 DEF MemberInv, May
<1>3. /\ Len(events) \in Nat /\ lo \in Nat /\ hi \in Int /\ hi2 \in Int /\ hi2 <= hi
      /\ hi2 <= Len(events) + 1 /\ hi2 <= End(c)
  BY ReachTyped
<1>4. lo <= lo /\ Len(events) <= Len(events)
  BY <1>3
<1> HIDE DEF events, hi, hi2, lo
<1>5. Said(events, MembershipEvents, lo, hi2, v)
  BY <1>2, <1>3, <1>4, SaidKept
<1> QED BY <1>3, <1>5, FollowsIsSince DEF events, hi2, lo, TickInv

-----------------------------------------------------------------------------
(* What is learnt by asking *)

\* What was learnt stays so when the log grows, and up to an earlier ledger.
LEMMA LearntKept ==
  ASSUME NEW events, NEW more, Len(events) \in Nat, Len(more) \in Nat, Len(events) <= Len(more),
         \A i \in 1..Len(events) : more[i] = events[i],
         NEW hi \in Int, NEW hi2 \in Int, hi2 <= hi, hi2 <= Len(events) + 1,
         NEW K, NEW on, NEW v, Learnt(events, K, on, hi, v)
  PROVE  Learnt(more, K, on, hi2, v)
<1>1. \A k \in 1..Len(more) : k < hi2 => k \in 1..Len(events) /\ k < hi /\ more[k] = events[k]
  OBVIOUS
<1>2. CASE v # on /\ \A j \in 1..Len(events) : j < hi => events[j] \notin K
  BY <1>1, <1>2 DEF Learnt
<1>3. ASSUME NEW i \in 1..Len(events),
             events[i] \in K /\ (v = on <=> Verdict(events[i]) = on),
             \A j \in 1..Len(events) : i < j /\ j < hi => events[j] \notin K
      PROVE  Learnt(more, K, on, hi2, v)
  <2>1. i \in 1..Len(more) /\ more[i] = events[i]
    OBVIOUS
  <2>2. \A j \in 1..Len(more) : i < j /\ j < hi2 => more[j] \notin K
    BY <1>1, <1>3
  <2> QED BY <1>3, <2>1, <2>2, Zenon DEF Learnt
<1> QED BY <1>2, <1>3 DEF Learnt

\* An event of another kind teaches nothing.
LEMMA LearntNext ==
  ASSUME NEW events, Len(events) \in Nat, NEW hi \in Nat,
         NEW K, NEW on, NEW v, Learnt(events, K, on, hi, v), events[hi] \notin K
  PROVE  Learnt(events, K, on, hi + 1, v)
<1>1. ASSUME NEW k \in 1..Len(events), k < hi + 1, events[k] \in K PROVE k < hi
  <2>1. k # hi
    BY <1>1
  <2> QED BY <1>1, <2>1
<1>2. CASE v # on /\ \A j \in 1..Len(events) : j < hi => events[j] \notin K
  BY <1>1, <1>2 DEF Learnt
<1>3. CASE \E i \in 1..Len(events) :
             /\ events[i] \in K /\ (v = on <=> Verdict(events[i]) = on)
             /\ \A j \in 1..Len(events) : i < j /\ j < hi => events[j] \notin K
  BY <1>1, <1>3 DEF Learnt
<1> QED BY <1>2, <1>3 DEF Learnt

\* An event that is applied teaches what it says.
LEMMA LearntAhead ==
  ASSUME NEW events, Len(events) \in Nat, NEW i \in 1..Len(events), NEW K, events[i] \in K, NEW on
  PROVE  Learnt(events, K, on, i + 1, Verdict(events[i]))
<1>1. \A k \in 1..Len(events) : ~(k < i + 1 /\ i < k)
  OBVIOUS
<1> QED BY <1>1 DEF Learnt

\* What is not on needs no event that turned it off.
LEMMA LearntNone ==
  ASSUME NEW events, Len(events) \in Nat, NEW K, NEW on, NEW v, v # on
  PROVE  Learnt(events, K, on, 1, v)
BY DEF Learnt

\* What a council answers is learnt, up to any ledger.
LEMMA AnswerLearnt ==
  ASSUME TypeOK, NEW c \in Councils, NEW K, NEW default, NEW on, Verdict(default) # on, NEW hi,
         NEW v, v = on <=> Verdict(Decided(c, K, default)) = on
  PROVE  Learnt(log[c], K, on, hi, v)
BY DecidedByLast DEF Learnt

\* The stored state and the event agree on whether it is on.
Turns(event, on) == Verdict(event) = on
Agrees(v, event, on) == v = on <=> Turns(event, on)

\* What was learnt up to the end is what the council has decided.
LEMMA LearntAll ==
  ASSUME TypeOK, NEW c \in Councils, NEW K, NEW default, NEW on, ~Turns(default, on),
         NEW v, Learnt(log[c], K, on, End(c), v)
  PROVE  Agrees(v, Decided(c, K, default), on)
<1> DEFINE events == log[c]
           last == Decided(c, K, default)
<1>1. Len(events) \in Nat /\ \A j \in 1..Len(events) : j < End(c)
  BY LogTyped DEF TypeOK, Log, End
<1>2. \/ last = default /\ \A j \in 1..Len(events) : events[j] \notin K
      \/ \E i \in 1..Len(events) :
           /\ events[i] \in K /\ last = events[i]
           /\ \A j \in 1..Len(events) : i < j => events[j] \notin K
  BY DecidedByLast
<1>3. \/ v # on /\ \A j \in 1..Len(events) : events[j] \notin K
      \/ \E i \in 1..Len(events) :
           /\ events[i] \in K /\ (v = on <=> Verdict(events[i]) = on)
           /\ \A j \in 1..Len(events) : i < j => events[j] \notin K
  BY <1>1 DEF Learnt
<1> HIDE DEF last, events
<1>4. ASSUME \A j \in 1..Len(events) : events[j] \notin K
      PROVE  v = on <=> Verdict(last) = on
  BY <1>2, <1>3, <1>4 DEF Turns
<1>5. ASSUME NEW i \in 1..Len(events), events[i] \in K, last = events[i],
             \A j \in 1..Len(events) : i < j => events[j] \notin K,
             NEW k \in 1..Len(events), events[k] \in K, v = on <=> Verdict(events[k]) = on,
             \A j \in 1..Len(events) : k < j => events[j] \notin K
      PROVE  v = on <=> Verdict(last) = on
  <2>1. i = k
    BY <1>1, <1>5
  <2> QED BY <1>5, <2>1
<1> QED BY <1>2, <1>3, <1>4, <1>5 DEF last, Agrees, Turns

\* A channel is disabled as long as the last event about it is its disabling.
LEMMA ChannelDecided ==
  ASSUME TypeOK, NEW c \in Councils
  PROVE  /\ ChannelSays(c) = "DISABLED" <=> Verdict(Decided(c, ChannelEvents, "enabled")) = "DISABLED"
         /\ Verdict("enabled") # "DISABLED"
<1>1. Decided(c, ChannelEvents, "enabled") \in ChannelEvents
  BY DecidedByLast DEF ChannelEvents
<1> QED BY <1>1 DEF ChannelSays, ChannelEvents, Verdict

LEMMA ChannelAnswerLearnt ==
  ASSUME TypeOK, NEW c \in Councils, NEW hi
  PROVE  Learnt(log[c], ChannelEvents, "DISABLED", hi, ChannelSays(c))
BY ChannelDecided, AnswerLearnt

\* A row is ACTIVE as long as the last event about the provider is its admission.
LEMMA MemberDecided ==
  ASSUME TypeOK, NEW c \in Councils
  PROVE  /\ Member(c) <=> Verdict(Decided(c, MembershipEvents, "removed")) = "ACTIVE"
         /\ Verdict("removed") # "ACTIVE"
<1>1. Decided(c, MembershipEvents, "removed") \in MembershipEvents
  BY DecidedByLast DEF MembershipEvents
<1> QED BY <1>1 DEF Member, MembershipEvents, Verdict

LEMMA RowAnswerLearnt ==
  ASSUME TypeOK, NEW c \in Councils, NEW hi
  PROVE  Learnt(log[c], MembershipEvents, "ACTIVE", hi, CouncilSays(c))
<1>1. CouncilSays(c) = "ACTIVE" <=> Member(c)
  BY DEF CouncilSays
<1> QED BY <1>1, MemberDecided, AnswerLearnt

-----------------------------------------------------------------------------
(* The steps: how far the watcher has read *)

LEMMA ReadTyped ==
  ASSUME TickInv, NEW c \in Councils
  PROVE  /\ ReadTo(c) \in Nat /\ ReadTo(c) >= 1 /\ ReadTo(c) <= Len(log[c]) + 1
         /\ Len(log[c]) \in Nat /\ End(c) = Len(log[c]) + 1
BY ReachTyped DEF ReadTo

LEMMA ReadTypedNext ==
  ASSUME TickInv', NEW c \in Councils
  PROVE  ReadTo(c)' \in Nat
<1>1. wFrom' \in Nat /\ Len(wPage') \in Nat /\ cursors'[c] \in Nat /\ first'[c] \in Nat
  BY LenProperties DEF TickInv, TypeOK
<1>2. cursors'[c] <= Reach(c)'
  BY DEF TickInv, CursorInv
<1> QED BY <1>1, <1>2 DEF ReadTo, Reach, Handled

\* What was learnt stays so through a step that lets the watcher know no more.
LEMMA LearntStays ==
  ASSUME TickInv, Steady, NEW c \in Councils, NEW hi \in Nat, NEW hi2 \in Nat, hi2 <= hi,
         hi <= Len(log[c]) + 1, NEW K, NEW on, NEW v, Learnt(log[c], K, on, hi, v)
  PROVE  Learnt(log'[c], K, on, hi2, v)
<1> DEFINE events == log[c]
           more == log'[c]
<1>1. /\ Len(events) \in Nat /\ Len(more) \in Nat /\ Len(events) <= Len(more)
      /\ \A i \in 1..Len(events) : more[i] = events[i]
  <2>1. log' \in [Councils -> Seq(Events)]
    BY DEF Steady, Tame, TypeOK
  <2> QED BY <2>1, ReachTyped, LenProperties DEF Steady
<1>2. hi \in Int /\ hi2 \in Int /\ hi2 <= Len(events) + 1 /\ Learnt(events, K, on, hi, v)
  BY <1>1
<1> HIDE DEF events, more
<1>3. Learnt(more, K, on, hi2, v)
  BY <1>1, <1>2, LearntKept
<1> QED BY <1>3 DEF more

\* A step leaves the tick where it is.
Waits == UNCHANGED <<cursors, wPc, wQueue, wFrom, wPage>>

LEMMA ReadWaits ==
  ASSUME NEW c, Waits, first'[c] = first[c]
  PROVE  ReadTo(c)' = ReadTo(c)
BY DEF Waits, ReadTo, Reach, Handled

\* A page that was read is handled from its start.
LEMMA PageStarts ==
  ASSUME TickInv, wPc \in {"fetch", "refetch"}, ReadPage(Head(wQueue))
  PROVE  Handled' = Handled /\ wPc' = "apply" /\ UNCHANGED wQueue
<1> DEFINE h == Head(wQueue)
           n == PageLen(h, wFrom)
<1>1. /\ wPage' = [k \in 1..n |-> log[h][wFrom + k - 1]] /\ wFrom' = wFrom + n
      /\ wPc' = "apply" /\ UNCHANGED wQueue
  BY DEF ReadPage
<1>2. wPage = <<>> /\ wQueue # <<>> /\ wFrom <= End(h)
  BY DEF TickInv, PageInv, Handling
<1>3. wFrom \in Nat /\ End(h) \in Nat
  BY <1>2, QueueTyped, ReachTyped
<1>4. n \in Nat
  BY <1>2, <1>3, WatcherBounds DEF PageLen
<1> HIDE DEF n
<1>5. Len(wPage') = n
  BY <1>1, <1>4
<1> QED BY <1>1, <1>2, <1>3, <1>4, <1>5, NothingIn DEF Handled

\* The steps of a tick that apply no event and drop no cursor read no council further.
LEMMA TickReadsNoFurther ==
  ASSUME TickInv, HistoryInv, NEW c \in Councils,
         Tick \/ NextCouncil \/ EndTick \/ Fetch \/ Refetch \/ EndPage, wPc' # "recover"
  PROVE  ReadTo(c)' <= ReadTo(c)
<1> DEFINE h == Head(wQueue)
<1>1. first' = first /\ log' = log
  BY DEF Tick, NextCouncil, EndTick, Fetch, Refetch, EndPage, chainVars
<1>2. /\ first[c] \in Nat /\ first[c] >= 1 /\ cursors[c] \in Nat /\ Reach(c) \in Int
      /\ cursors[c] <= Reach(c) /\ ReadTo(c) \in Nat /\ wFrom \in Nat
  BY ReachTyped, ReadTyped
<1>3. CASE Tick \/ EndTick \/ (NextCouncil /\ AbortTick)
  <2>1. wPc \notin Handling /\ wPc' \notin Handling /\ cursors' = cursors
    BY <1>3 DEF Tick, EndTick, NextCouncil, AbortTick, Handling
  <2>2. ReadTo(c)' = ReadTo(c)
    BY <1>1, <2>1 DEF ReadTo, Reach
  <2> QED BY <1>2, <2>2
<1>4. CASE NextCouncil /\ ~AbortTick
  <2>1. /\ wPc = "next" /\ wPc' = "fetch" /\ wQueue # <<>>
        /\ wFrom' = IF cursors[h] > 0 THEN cursors[h] ELSE first[h]
        /\ UNCHANGED <<cursors, wQueue, wPage>>
    BY <1>4 DEF NextCouncil
  <2>2. wPage' = <<>> /\ Len(wPage') = 0
    BY <2>1, NothingIn DEF TickInv, PageInv
  <2>3. Reach(c) = cursors[c]
    BY <2>1 DEF Reach, Handling
  <2>4. CASE c = h
    <3>1. wFrom' = IF cursors[c] > 0 THEN cursors[c] ELSE first[c]
      BY <2>1, <2>4
    <3>2. Reach(c)' = wFrom' /\ wFrom' >= 1
      BY <1>2, <2>1, <2>2, <2>4, <3>1 DEF Reach, Handling, Handled
    <3> QED BY <1>1, <1>2, <2>3, <3>1, <3>2 DEF ReadTo
  <2>5. CASE c # h
    <3>1. Reach(c)' = cursors[c]
      BY <2>1, <2>5 DEF Reach
    <3> QED BY <1>1, <1>2, <2>3, <3>1 DEF ReadTo
  <2> QED BY <2>4, <2>5
<1>5. CASE Fetch \/ Refetch \/ EndPage
  <2>1. /\ wPc \in Handling /\ wQueue # <<>> /\ 1 <= Handled /\ h \in Councils
    BY <1>5, QueueTyped DEF Fetch, Refetch, EndPage, Handling, TickInv, PageInv
  <2>2. /\ Handled \in Int /\ cursors[h] \in Nat /\ cursors[h] <= Handled /\ first[h] \in Nat
        /\ Reach(h) = Handled
    BY <2>1, ReachTyped DEF Reach
  <2>3. CASE ReadPage(h) /\ UNCHANGED cursors
    <3>1. Handled' = Handled /\ wPc' = "apply" /\ UNCHANGED wQueue
      BY <1>5, <2>3, PageStarts DEF Fetch, Refetch, EndPage, ReadPage, SkipCouncil
    <3>2. Reach(c)' = Reach(c)
      BY <2>1, <2>3, <3>1 DEF Reach, Handling
    <3> QED BY <1>1, <1>2, <3>2 DEF ReadTo
  <2>4. CASE SkipCouncil /\ UNCHANGED cursors
    <3>1. Reach(c)' = cursors[c]
      BY <2>4 DEF SkipCouncil, Reach, Handling
    <3>2. CASE c = h
      BY <1>1, <1>2, <2>1, <2>2, <3>1, <3>2 DEF ReadTo, HistoryInv
    <3>3. CASE c # h
      BY <1>1, <1>2, <3>1, <3>3 DEF ReadTo, Reach
    <3> QED BY <3>2, <3>3
  <2>5. CASE EndPage
    <3>1. wPage = <<>> /\ Handled = wFrom
      BY <1>2, <2>5, NothingIn DEF EndPage, Handled
    <3>2. cursors' = [cursors EXCEPT ![h] = wFrom] /\ wPc' = "next"
      BY <2>5 DEF EndPage, SkipCouncil
    <3>3. Reach(c)' = Reach(c)
      BY <2>1, <3>1, <3>2 DEF Reach, Handling, TickInv, TypeOK
    <3> QED BY <1>1, <1>2, <3>3 DEF ReadTo
  <2>6. (ReadPage(h) /\ UNCHANGED cursors) \/ (SkipCouncil /\ UNCHANGED cursors) \/ EndPage
    BY <1>5 DEF Fetch, Refetch
  <2> QED BY <2>3, <2>4, <2>5, <2>6
<1> QED BY <1>3, <1>4, <1>5

\* Applying an event reads on by one ledger, in the council it is about.
LEMMA ApplyReadsOn ==
  ASSUME TickInv, ApplyEvent, "db" \notin Faults, NEW h, h = Head(wQueue)
  PROVE  /\ WriteEvent(h, Topic(log[h][Handled])) /\ UNCHANGED <<log, first, wPc, wQueue>>
         /\ wPc = "apply" /\ chAnswer' = NoAnswer
         /\ h \in Councils /\ Handled \in 1..Len(log[h]) /\ log[h][Handled] \in Events
         /\ Handled' = Handled + 1
         /\ ReadTo(h) = Handled /\ ReadTo(h)' = Handled + 1
         /\ \A c \in Councils : c # h => ReadTo(c)' = ReadTo(c)
<1>1. /\ wPc = "apply" /\ wPage # <<>> /\ wPage' = Tail(wPage)
      /\ UNCHANGED <<wPc, wQueue, wFrom, cursors, log, first, chAnswer>>
      /\ WriteEvent(h, Topic(Head(wPage)))
  BY DEF ApplyEvent, chainVars, chVars
<1>2. /\ h \in Councils /\ Handled \in 1..Len(log[h]) /\ log[h][Handled] \in Events
  BY Applied
<1>3. Head(wPage) = log[h][Handled] /\ Handled' = Handled + 1
  <2>1. /\ Len(wPage) \in Nat /\ Len(wPage) >= 1 /\ Len(Tail(wPage)) = Len(wPage) - 1
        /\ Head(wPage) = wPage[1] /\ wFrom \in Nat
    BY <1>1, Shortened DEF TickInv, TypeOK
  <2>2. \A k \in 1..Len(wPage) : wPage[k] = log[h][Handled + k - 1]
    BY <1>1 DEF TickInv, PageInv, Handling
  <2>3. 1 \in 1..Len(wPage) /\ Handled + 1 - 1 = Handled
    BY <1>2, <2>1
  <2>4. Handled' = Handled + 1
    BY <1>1, <2>1 DEF Handled
  <2> QED BY <2>1, <2>2, <2>3, <2>4
<1>4. Reach(h) = Handled /\ Reach(h)' = Handled'
  BY <1>1 DEF Reach, Handling
<1>5. \A c \in Councils : c # h => Reach(c)' = Reach(c)
  BY <1>1 DEF Reach
<1>6. ReadTo(h) = Handled /\ ReadTo(h)' = Handled + 1
  BY <1>2, <1>3, <1>4 DEF ReadTo
<1>7. chAnswer' = NoAnswer
  BY <1>1 DEF TickInv, ConvergeInv, Asking
<1> QED BY <1>1, <1>2, <1>3, <1>5, <1>6, <1>7 DEF ReadTo

-----------------------------------------------------------------------------
(* The steps: what a convergence has learnt of the channels *)

\* What becomes of the rows: they keep their councils, or one is added.
LEMMA RowsNext ==
  ASSUME TickInv, [Next]_vars
  PROVE  \/ /\ Len(memberships') = Len(memberships)
            /\ \A i \in 1..Len(memberships) : memberships'[i].council = memberships[i].council
         \/ /\ InsertRow /\ Len(memberships') = Len(memberships) + 1
            /\ \A i \in 1..Len(memberships) : memberships'[i] = memberships[i]
            /\ memberships'[Len(memberships) + 1] = [council |-> joining, status |-> "PENDING"]
<1> DEFINE Kept == /\ Len(memberships') = Len(memberships)
                   /\ \A i \in 1..Len(memberships) : memberships'[i].council = memberships[i].council
<1>1. UNCHANGED memberships => Kept
  OBVIOUS
<1>2. CASE ApplyEvent
  <2>1. PICK h : h = Head(wQueue)
    OBVIOUS
  <2> DEFINE e == log[h][Handled]
  <2>2. /\ h \in Councils /\ e \in Events
        /\ WriteEvent(h, Topic(e)) \/ UNCHANGED memberships
    BY <1>2, <2>1, Applied
  <2> HIDE DEF e
  <2>3. CASE WriteEvent(h, Topic(e)) /\ e \notin ChannelEvents
    <3>1. Topic(e) \in MembershipEvents /\ Verdict(Topic(e)) \in MembershipStatus
      BY <2>2, <2>3 DEF Events, OtherEvents, MembershipEvents, Topic, Verdict, MembershipStatus
    <3>2. SetStatus(h, Verdict(Topic(e)))
      BY <2>3, <3>1 DEF WriteEvent
    <3> QED BY <2>2, <3>1, <3>2, StatusSet DEF TickInv
  <2>4. CASE WriteEvent(h, Topic(e)) /\ e \in ChannelEvents
    BY <1>1, <2>2, <2>4, EventWritten DEF TickInv
  <2> QED BY <1>1, <2>2, <2>3, <2>4
<1>3. CASE InsertRow
  BY <1>1, <1>3, InsertRowTame
<1>4. ASSUME NEW p \in Converging, Memberships(p) PROVE Kept
  <2>1. CASE StoreMembership(p)
    BY <2>1, StoreMembershipTame
  <2>2. CASE BeginMemberships(p) \/ AskMembership(p) \/ EndMemberships(p)
    BY <1>1, <2>2 DEF BeginMemberships, AskMembership, EndMemberships, tableVars
  <2> QED BY <1>4, <2>1, <2>2 DEF Memberships
<1>5. CASE ~ApplyEvent /\ ~InsertRow /\ \A p \in Converging : ~Memberships(p)
  <2>1. UNCHANGED memberships
    BY <1>5 DEF Next, Watch, Converging, Decide, Forget, Join, BeginChannels, AskChannel, StoreChannel,
       EndChannels, Tick, NextCouncil, EndTick, Fetch, Refetch, EndPage, Crash, Start, vars, tableVars
  <2> QED BY <1>1, <2>1
<1> QED BY <1>2, <1>3, <1>4, <1>5

\* A row stays, whatever its status becomes.
LEMMA RowsStay ==
  ASSUME TickInv, [Next]_vars, NEW c
  PROVE  HasRow(c) => HasRow(c)'
<1>1. Len(memberships) \in Nat
  BY RowsTyped DEF TickInv
<1>2. \A i \in 1..Len(memberships) : i \in 1..Len(memberships')
                                    /\ memberships'[i].council = memberships[i].council
  BY <1>1, RowsNext
<1> QED BY <1>2 DEF HasRow

\* A row is listed.
LEMMA RowListed ==
  ASSUME TickInv, NEW c, HasRow(c)
  PROVE  \E k \in 1..Len(ListedCouncils) : ListedCouncils[k] = c
<1> DEFINE n == Len(memberships)
<1>1. n \in Nat /\ \A i \in 1..n : memberships[i].council \in Councils
  BY RowsTyped DEF TickInv
<1>2. PICK i \in 1..n : memberships[i].council = c
  BY DEF HasRow
<1>3. n + 1 - i \in 1..n /\ n + 1 - (n + 1 - i) = i
  BY <1>1
<1>4. \A k \in 1..n : n + 1 - k \in 1..n
  BY <1>1
<1>5. ListedCouncils \in [1..n -> Councils]
      /\ \A k \in 1..n : ListedCouncils[k] = memberships[n + 1 - k].council
  BY <1>1, <1>4 DEF ListedCouncils, NewestFirst
<1>6. Len(ListedCouncils) = n
  BY <1>1, <1>5, Tabled
<1> QED BY <1>2, <1>3, <1>5, <1>6

\* What becomes of the queue of the tick.
LEMMA QueueNext ==
  ASSUME TickInv, [Next]_vars
  PROVE  \/ wQueue' = wQueue
         \/ wQueue' = <<>>
         \/ wQueue' = Tail(wQueue) /\ wQueue # <<>>
         \/ wQueue' = ListedCouncils
<1>1. CASE Fetch \/ Refetch \/ EndPage
  <2>1. wQueue # <<>>
    BY <1>1 DEF Fetch, Refetch, EndPage, Handling, TickInv, PageInv
  <2> QED BY <1>1, <2>1 DEF Fetch, Refetch, EndPage, ReadPage, SkipCouncil
<1>2. CASE Tick \/ NextCouncil \/ EndTick \/ ApplyEvent \/ Crash
  BY <1>2 DEF Tick, NextCouncil, EndTick, ApplyEvent, Crash, AbortTick
<1>3. CASE \/ \E c \in Councils : Decide(c) \/ Forget(c) \/ Join(c)
           \/ InsertRow \/ Memberships("operator") \/ Memberships("boot")
           \/ BeginChannels \/ AskChannel \/ StoreChannel \/ EndChannels \/ Start \/ UNCHANGED vars
  BY <1>3 DEF Decide, Forget, Join, InsertRow, Memberships, BeginMemberships, AskMembership,
     StoreMembership, EndMemberships, BeginChannels, AskChannel, StoreChannel, EndChannels, Start,
     vars, tickVars
<1> QED BY <1>1, <1>2, <1>3 DEF Next, Watch

\* The tick's council, at its head, has a row.
LEMMA HeadHasRow ==
  ASSUME TickInv, HistoryInv, wQueue # <<>>
  PROVE  HasRow(Head(wQueue))
<1>1. 1 \in 1..Len(wQueue) /\ Head(wQueue) = wQueue[1]
  BY Shortened DEF TickInv, TypeOK
<1> QED BY <1>1 DEF HistoryInv

\* The steps that leave the tick, and the retained history, where they are.
LEMMA Waiting ==
  ASSUME TickInv,
         \/ \E c \in Councils : Decide(c) \/ Join(c)
         \/ InsertRow \/ Memberships("operator")
         \/ \E p \in Converging : BeginMemberships(p) \/ AskMembership(p) \/ StoreMembership(p)
         \/ AskChannel \/ StoreChannel \/ UNCHANGED vars
  PROVE  Waits /\ UNCHANGED first
BY DEF Decide, Join, InsertRow, Memberships, BeginMemberships, AskMembership, StoreMembership,
   EndMemberships, AskChannel, StoreChannel, Waits, vars, chainVars, tickVars

\* Every step waits, is a step of the tick, or is one of those that change the convergences.
LEMMA StepsAre ==
  ASSUME TickInv, [Next]_vars
  PROVE  \/ Waits /\ UNCHANGED first
         \/ \E c \in Councils : Forget(c)
         \/ BeginChannels \/ EndChannels \/ EndMemberships("boot")
         \/ Tick \/ NextCouncil \/ EndTick \/ Fetch \/ Refetch \/ EndPage \/ ApplyEvent
         \/ Crash \/ Start
<1>1. "boot" \in Converging
  BY DEF Converging
<1> QED BY <1>1, Waiting DEF Next, Watch, Memberships

LEMMA HistoryNext ==
  ASSUME Faults \cap {"db", "oldHistory"} = {}, TickInv, HistoryInv, [Next]_vars
  PROVE  HistoryInv'
<1>1. ASSUME NEW k \in 1..Len(wQueue'), NEW c, c = wQueue'[k] PROVE HasRow(c)'
  <2>1. HasRow(c)
    BY <1>1, QueueNext, QueueRows DEF HistoryInv
  <2> QED BY <2>1, RowsStay
<1>2. ASSUME NEW c \in Councils, ~HasRow(c)' PROVE first'[c] = 1
  <2>1. ~HasRow(c) /\ first[c] = 1
    BY <1>2, RowsStay DEF HistoryInv
  <2>2. ASSUME NEW d \in Councils, Forget(d) PROVE first'[c] = first[c]
    <3>1. d # c /\ first' = [first EXCEPT ![d] = first[d] + 1]
      BY <2>1, <2>2 DEF Forget
    <3> QED BY <3>1 DEF TickInv, TypeOK
  <2>3. CASE UNCHANGED first
    BY <2>1, <2>3
  <2>4. CASE \/ BeginChannels \/ EndChannels \/ EndMemberships("boot")
             \/ Tick \/ NextCouncil \/ EndTick \/ Fetch \/ Refetch \/ EndPage \/ ApplyEvent
             \/ Crash \/ Start
    BY <2>3, <2>4 DEF BeginChannels, EndChannels, EndMemberships, Tick, NextCouncil, EndTick, Fetch,
       Refetch, EndPage, ApplyEvent, Crash, Start, chainVars
  <2> QED BY <2>1, <2>2, <2>3, <2>4, StepsAre
<1>3. ASSUME wPc' \in Handling, cursors'[Head(wQueue')] = 0 PROVE first'[Head(wQueue')] <= Handled'
  <2> DEFINE h == Head(wQueue)
  <2>1. CASE /\ wPc \in Handling
             /\ UNCHANGED <<first, cursors, wQueue, wFrom, wPage>>
    BY <1>3, <2>1 DEF HistoryInv, Handled
  <2>2. CASE Waits /\ UNCHANGED first
    BY <1>3, <2>1, <2>2 DEF Waits
  <2>3. CASE \E c \in Councils : Forget(c)
    <3>1. ~HasRow(h) \/ wPc \notin Handling
      BY <2>3 DEF Forget, Handling
    <3>2. wPc \in Handling /\ wQueue # <<>>
      BY <1>3, <2>3 DEF Forget, tickVars, TickInv, PageInv
    <3>3. ASSUME NEW c \in Councils, Forget(c) PROVE FALSE
      BY <3>2, <3>3 DEF Forget, Handling
    <3> QED BY <2>3, <3>3
  <2>4. CASE BeginChannels \/ EndChannels
    <3>1. wPc \in Handling /\ UNCHANGED <<first, cursors, wQueue, wFrom, wPage>>
      BY <1>3, <2>4 DEF BeginChannels, EndChannels, Handling, Asking, chainVars
    <3> QED BY <2>1, <3>1
  <2>5. CASE \/ EndMemberships("boot") \/ Tick \/ EndTick \/ EndPage \/ Crash \/ Start
    BY <1>3, <2>5 DEF EndMemberships, Tick, EndTick, EndPage, SkipCouncil, Crash, Start, Handling
  <2>6. CASE NextCouncil
    <3>1. /\ wFrom' = IF cursors[h] > 0 THEN cursors[h] ELSE first[h]
          /\ wPc = "next" /\ wQueue # <<>> /\ UNCHANGED <<first, cursors, wQueue, wPage>>
      BY <1>3, <2>6 DEF NextCouncil, AbortTick, Handling, chainVars
    <3>2. wPage' = <<>> /\ Len(wPage') = 0
      BY <3>1, NothingIn DEF TickInv, PageInv
    <3>3. first[h] \in Nat
      BY <3>1, QueueTyped, ReachTyped
    <3> QED BY <1>3, <3>1, <3>2, <3>3 DEF Handled
  <2>7. CASE Fetch \/ Refetch
    <3>1. wPc \in {"fetch", "refetch"} /\ UNCHANGED first /\ wQueue # <<>> /\ wPage = <<>>
      BY <2>7 DEF Fetch, Refetch, Handling, TickInv, PageInv, chainVars
    <3>2. CASE ReadPage(h) /\ UNCHANGED cursors
      BY <1>3, <3>1, <3>2, PageStarts DEF HistoryInv, Handling
    <3>3. CASE wFrom' = first[h] /\ UNCHANGED <<wQueue, wPage>>
      <4>1. first[h] \in Nat
        BY <3>1, QueueTyped, ReachTyped
      <4> QED BY <3>1, <3>3, <4>1, NothingIn DEF Handled
    <3>4. ~SkipCouncil
      BY <1>3 DEF SkipCouncil, Handling
    <3> QED BY <2>7, <3>2, <3>3, <3>4 DEF Fetch, Refetch
  <2>8. CASE ApplyEvent
    <3>1. "db" \notin Faults
      OBVIOUS
    <3>2. /\ wPc = "apply" /\ UNCHANGED <<first, cursors, wQueue>> /\ Handled' = Handled + 1
          /\ h \in Councils /\ Handled \in 1..Len(log[h])
      BY <2>8, <3>1, ApplyReadsOn DEF ApplyEvent
    <3>3. first[h] \in Nat /\ Len(log[h]) \in Nat
      BY <3>2, ReachTyped
    <3>4. first[h] <= Handled
      BY <1>3, <3>2 DEF HistoryInv, Handling
    <3> QED BY <3>2, <3>3, <3>4
  <2> QED BY <2>2, <2>3, <2>4, <2>5, <2>6, <2>7, <2>8, StepsAre
<1>4. (\A k \in 1..Len(wQueue) : HasRow(wQueue[k]))'
  BY <1>1 DEF HasRow
<1> QED BY <1>2, <1>3, <1>4 DEF HistoryInv

LEMMA KnownTyped ==
  ASSUME TickInv, NEW c \in Councils
  PROVE  /\ ChannelKnown(c) \in Nat /\ ChannelKnown(c) >= 1 /\ ChannelKnown(c) <= ReadTo(c)
         /\ ReadTo(c) \in Nat /\ ReadTo(c) <= Len(log[c]) + 1 /\ Len(log[c]) \in Nat
BY ReadTyped DEF ChannelKnown

\* Where there is no cursor and no tick, what is still to be read begins with retention.
LEMMA ReadAtBoot ==
  ASSUME TickInv, NEW c \in Councils, wPc \in {"down", "boot", "bootChannels", "members"}
  PROVE  ReadTo(c) = first[c]
BY DEF ReadTo, Reach, Handling, TickInv, ConvergeInv

\* Only an applied event and a stored answer let the watcher know more of a channel.
LEMMA ChannelKnownNext ==
  ASSUME Answering, TickInv, HistoryInv, [Next]_vars, ~ApplyEvent, ~StoreChannel, NEW c \in Councils
  PROVE  ChannelKnown(c)' <= ChannelKnown(c)
<1> DEFINE h == Head(wQueue)
<1>1. /\ ChannelKnown(c) \in Nat /\ ChannelKnown(c) >= 1 /\ ReadTo(c) \in Nat /\ ReadTo(c) >= 1
      /\ ChannelKnown(c) <= ReadTo(c)
  BY KnownTyped, ReadTyped
<1>2. CASE ChannelOwed(c)'
  BY <1>1, <1>2 DEF ChannelKnown
<1>3. CASE ReadTo(c)' <= ReadTo(c) /\ ~ChannelOwed(c)
  <2>1. ChannelKnown(c)' = 1 \/ ChannelKnown(c)' = ReadTo(c)'
    BY DEF ChannelKnown
  <2> QED BY <1>1, <1>3, <2>1 DEF ChannelKnown
<1>4. CASE Waits /\ UNCHANGED <<first, chQueue>>
  <2>1. ReadTo(c)' = ReadTo(c)
    BY <1>4, ReadWaits
  <2>2. ChannelOwed(c)' <=> ChannelOwed(c)
    BY <1>4 DEF Waits, ChannelOwed
  <2> QED BY <1>1, <2>1, <2>2 DEF ChannelKnown
<1>5. ASSUME NEW d \in Councils, Forget(d) PROVE ChannelKnown(c)' <= ChannelKnown(c)
  <2>1. /\ wPc = "down" \/ (wPc = "idle" /\ cursors[d] > 0)
        /\ first' = [first EXCEPT ![d] = first[d] + 1] /\ Waits /\ UNCHANGED chQueue
    BY <1>5 DEF Forget, Answering, Waits, tickVars, chVars
  <2>2. CASE wPc = "down"
    <3>1. ChannelOwed(c)'
      BY <2>1, <2>2 DEF ChannelOwed, Waits
    <3> QED BY <1>2, <3>1
  <2>3. CASE wPc = "idle" /\ cursors[d] > 0
    <3>1. ReadTo(c)' = ReadTo(c)
      <4>1. CASE c = d
        <5>1. Reach(c)' = Reach(c) /\ Reach(c) # 0
          BY <2>1, <2>3, <4>1 DEF Reach, Waits, Handling
        <5> QED BY <5>1 DEF ReadTo
      <4>2. CASE c # d
        <5>1. first'[c] = first[c]
          BY <2>1, <4>2 DEF TickInv, TypeOK
        <5> QED BY <2>1, <5>1, ReadWaits
      <4> QED BY <4>1, <4>2
    <3>2. ~ChannelOwed(c)
      BY <2>3 DEF ChannelOwed
    <3> QED BY <1>1, <1>3, <3>1, <3>2
  <2> QED BY <2>1, <2>2, <2>3
<1>6. CASE EndMemberships("boot")
  <2>1. /\ wPc = "members" /\ wPc' = "idle" /\ UNCHANGED <<first, cursors>>
    <3>1. "boot" \in Converging
      BY DEF Converging
    <3> QED BY <1>6, <3>1 DEF EndMemberships, TickInv, ConvergeInv, chainVars
  <2>2. ReadTo(c)' = ReadTo(c) /\ ~ChannelOwed(c)
    BY <2>1 DEF ReadTo, Reach, Handling, ChannelOwed
  <2> QED BY <1>1, <1>3, <2>2
<1>7. CASE BeginChannels
  <2>1. /\ \/ wPc = "boot" /\ wPc' = "bootChannels"
           \/ wPc = "recover" /\ wPc' = "recoverChannels"
        /\ chQueue' = ListedCouncils /\ UNCHANGED <<first, cursors, wQueue, wFrom, wPage>>
    BY <1>7 DEF BeginChannels, Answering, chainVars
  <2>2. CASE HasRow(c) /\ wPc = "boot"
    <3>1. ChannelOwed(c)'
      BY <2>1, <2>2, RowListed DEF ChannelOwed
    <3> QED BY <1>2, <3>1
  <2>3. CASE ~HasRow(c) /\ wPc = "boot"
    <3>1. ReadTo(c)' = 1
      BY <2>1, <2>3 DEF ReadTo, Reach, Handling, HistoryInv, TickInv, ConvergeInv
    <3>2. ChannelKnown(c)' = 1
      BY <3>1 DEF ChannelKnown
    <3> QED BY <1>1, <3>2
  <2>4. CASE wPc = "recover" /\ c = h
    <3>1. HasRow(c)
      BY <2>4, HeadHasRow DEF TickInv, PageInv, Handling
    <3>2. ChannelOwed(c)'
      BY <2>1, <2>4, <3>1, RowListed DEF ChannelOwed
    <3> QED BY <1>2, <3>2
  <2>5. CASE wPc = "recover" /\ c # h
    <3>1. ReadTo(c)' = ReadTo(c) /\ ~ChannelOwed(c)
      BY <2>1, <2>5 DEF ReadTo, Reach, ChannelOwed
    <3> QED BY <1>1, <1>3, <3>1
  <2> QED BY <2>1, <2>2, <2>3, <2>4, <2>5
<1>8. CASE EndChannels
  <2>1. /\ \/ wPc = "bootChannels" /\ wPc' = "members"
           \/ wPc = "recoverChannels" /\ wPc' = "refetch"
        /\ 1..Len(chQueue) = {} /\ UNCHANGED <<first, cursors, wQueue, wFrom, wPage>>
    <3>1. Len(<<>>) = 0
      BY NothingIn
    <3> QED BY <1>8, <3>1 DEF EndChannels, Asking, chainVars
  <2>2. ReadTo(c)' = ReadTo(c) /\ ~ChannelOwed(c)
    BY <2>1 DEF ReadTo, Reach, Handling, Handled, ChannelOwed
  <2> QED BY <1>1, <1>3, <2>2
<1>9. CASE Start \/ Crash
  <2>1. ChannelOwed(c)'
    BY <1>9 DEF Start, Crash, ChannelOwed
  <2> QED BY <1>2, <2>1
<1>10. CASE Tick \/ NextCouncil \/ EndTick \/ Fetch \/ Refetch \/ EndPage
  <2>1. ~ChannelOwed(c)
    BY <1>10 DEF Tick, NextCouncil, EndTick, Fetch, Refetch, EndPage, ChannelOwed
  <2>2. CASE wPc' # "recover"
    BY <1>1, <1>3, <1>10, <2>1, <2>2, TickReadsNoFurther
  <2>3. CASE wPc' = "recover"
    <3>1. /\ cursors' = [cursors EXCEPT ![h] = 0] /\ wPc = "fetch" /\ UNCHANGED <<first, wQueue>>
      BY <1>10, <2>3 DEF Tick, NextCouncil, EndTick, Fetch, Refetch, EndPage, ReadPage, SkipCouncil,
         AbortTick, chainVars
    <3>2. CASE c = h
      <4>1. ChannelOwed(c)'
        BY <2>3, <3>1, <3>2 DEF ChannelOwed
      <4> QED BY <1>2, <4>1
    <3>3. CASE c # h
      <4>1. ReadTo(c)' = ReadTo(c)
        BY <3>1, <3>3 DEF ReadTo, Reach, TickInv, TypeOK
      <4> QED BY <1>1, <1>3, <2>1, <4>1
    <3> QED BY <3>2, <3>3
  <2> QED BY <2>2, <2>3
<1>11. CASE \/ \E d \in Councils : Decide(d) \/ Join(d)
            \/ InsertRow
            \/ \E p \in Converging : BeginMemberships(p) \/ AskMembership(p) \/ StoreMembership(p)
            \/ Memberships("operator") \/ AskChannel \/ UNCHANGED vars
  <2>1. UNCHANGED chQueue
    BY <1>11 DEF Decide, Join, InsertRow, BeginMemberships, AskMembership, StoreMembership,
       EndMemberships, Memberships, AskChannel, Answering, vars, chVars
  <2> QED BY <1>4, <1>11, <2>1, Waiting
<1>12. "boot" \in Converging
  BY DEF Converging
<1> QED BY <1>5, <1>6, <1>7, <1>8, <1>9, <1>10, <1>11, <1>12 DEF Next, Watch, Memberships

\* An answer is kept until it is stored.
LEMMA AnswerKept ==
  ASSUME Answering, TickInv, [Next]_vars, chAnswer # NoAnswer, chAnswer' # NoAnswer
  PROVE  /\ UNCHANGED <<chQueue, chAnswer, first>> /\ Waits
         /\ ~ApplyEvent
<1>1. /\ wPc \in {"bootChannels", "recoverChannels"} /\ chQueue # <<>> /\ ~mbBusy["boot"] /\ mbQueue["boot"] = <<>>
      /\ "boot" \in Converging
  BY DEF TickInv, ConvergeInv, Asking, Converging
<1>2. /\ ~BeginChannels /\ ~AskChannel /\ ~StoreChannel /\ ~EndChannels
      /\ ~BeginMemberships("boot") /\ ~EndMemberships("boot") /\ ~Crash /\ ~Start
      /\ ~Tick /\ ~NextCouncil /\ ~EndTick /\ ~Fetch /\ ~Refetch /\ ~ApplyEvent /\ ~EndPage
      /\ \A c \in Councils : ~Forget(c)
  BY <1>1 DEF BeginChannels, AskChannel, StoreChannel, EndChannels, BeginMemberships, EndMemberships,
     Crash, Start, Tick, NextCouncil, EndTick, Fetch, Refetch, ApplyEvent, EndPage, Forget, Answering
<1>3. \/ \E c \in Councils : Decide(c) \/ Join(c)
      \/ InsertRow \/ Memberships("operator")
      \/ \E p \in Converging : AskMembership(p) \/ StoreMembership(p)
      \/ UNCHANGED vars
  BY <1>1, <1>2 DEF Next, Watch, Memberships
<1>4. UNCHANGED <<chQueue, chAnswer>>
  BY <1>3 DEF Decide, Join, InsertRow, Memberships, BeginMemberships, AskMembership, StoreMembership,
     EndMemberships, vars, chVars
<1>5. Waits /\ UNCHANGED first
  BY <1>3, Waiting
<1> QED BY <1>2, <1>4, <1>5

\* The channel states, and the answer that waits for its write.
StatesLearnt ==
  \A c \in Councils : Learnt(log[c], ChannelEvents, "DISABLED", ChannelKnown(c), channelStates[c])
AnswerLearntToo ==
  chAnswer # NoAnswer =>
    Learnt(log[Head(chQueue)], ChannelEvents, "DISABLED", ReadTo(Head(chQueue)), chAnswer)

LEMMA ChannelStays ==
  ASSUME Answering, TickInv, HistoryInv, [Next]_vars, ~ApplyEvent, ~StoreChannel,
         NEW c \in Councils, NEW v, Learnt(log[c], ChannelEvents, "DISABLED", ChannelKnown(c), v)
  PROVE  Learnt(log'[c], ChannelEvents, "DISABLED", ChannelKnown(c)', v)
<1>1. Steady
  BY SteadyNext
<1>2. ChannelKnown(c)' <= ChannelKnown(c)
  BY ChannelKnownNext
<1>3. TickInv'
  BY TickInvNext
<1>4. PICK hi : hi = ChannelKnown(c)
  OBVIOUS
<1>5. PICK hi2 : hi2 = ChannelKnown(c)'
  OBVIOUS
<1>6. hi \in Nat /\ hi <= Len(log[c]) + 1
  BY <1>4, KnownTyped
<1>7. hi2 \in Nat
  <2>1. ReadTo(c)' \in Nat
    BY <1>3, ReadTypedNext
  <2> QED BY <1>5, <2>1 DEF ChannelKnown
<1> QED BY <1>1, <1>2, <1>4, <1>5, <1>6, <1>7, LearntStays

LEMMA StatesNext ==
  ASSUME Answering, TickInv, HistoryInv, AnsweredInv, [Next]_vars
  PROVE  StatesLearnt'
<1>1. ASSUME NEW c \in Councils, NEW v, v = channelStates'[c]
      PROVE  Learnt(log'[c], ChannelEvents, "DISABLED", ChannelKnown(c)', v)
  <2>1. CASE ~ApplyEvent /\ ~StoreChannel
    <3>1. UNCHANGED channelStates
      BY <2>1 DEF Next, Watch, Memberships, Decide, Forget, Join, InsertRow, BeginMemberships,
         AskMembership, StoreMembership, EndMemberships, BeginChannels, AskChannel, EndChannels,
         Tick, NextCouncil, EndTick, Fetch, Refetch, EndPage, Crash, Start, vars, tableVars
    <3>2. Learnt(log[c], ChannelEvents, "DISABLED", ChannelKnown(c), v)
      BY <1>1, <3>1 DEF AnsweredInv
    <3> QED BY <2>1, <3>2, ChannelStays
  <2>2. CASE StoreChannel
    <3> DEFINE h == Head(chQueue)
    <3>1. /\ chAnswer # NoAnswer /\ chQueue # <<>> /\ UNCHANGED log
          /\ channelStates' = [channelStates EXCEPT ![h] = chAnswer] /\ chQueue' = Tail(chQueue)
      BY <2>2 DEF StoreChannel, ApplyState, Answering, TickInv, ConvergeInv, chainVars
    <3>2. Waits /\ UNCHANGED first
      BY <2>2, Waiting
    <3>3. ReadTo(c)' = ReadTo(c)
      BY <3>2, ReadWaits
    <3>4. chQueue \in Seq(Councils) /\ Tail(chQueue) \in Seq(Councils) /\ h \in Councils
      BY <3>1, Shortened DEF TickInv, TypeOK
    <3>5. channelStates'[c] = IF c = h THEN chAnswer ELSE channelStates[c]
      BY <3>1 DEF TickInv, TypeOK
    <3>6. ChannelKnown(c) \in Nat /\ ChannelKnown(c) <= ReadTo(c) /\ ReadTo(c) \in Nat
          /\ ChannelKnown(c) >= 1 /\ ReadTo(c) <= Len(log[c]) + 1 /\ Len(log[c]) \in Nat
      BY KnownTyped
    <3>7. ChannelKnown(c)' \in Nat /\ ChannelKnown(c)' <= ReadTo(c)
      BY <3>3, <3>6 DEF ChannelKnown
    <3>8. Steady
      <4>1. ~ApplyEvent
        BY <2>2 DEF StoreChannel, ApplyEvent, TickInv, ConvergeInv, Asking
      <4> QED BY <4>1, SteadyNext
    <3>9. PICK hi : hi = ReadTo(c)
      OBVIOUS
    <3>10. PICK hi2 : hi2 = ChannelKnown(c)'
      OBVIOUS
    <3>11. CASE c = h
      <4>1. Learnt(log[c], ChannelEvents, "DISABLED", hi, v)
        BY <1>1, <3>1, <3>5, <3>9, <3>11 DEF AnsweredInv
      <4> QED BY <3>6, <3>7, <3>8, <3>9, <3>10, <4>1, LearntStays
    <3>12. CASE c # h
      <4>1. ChannelOwed(c) => ChannelOwed(c)'
        <5>1. (\E k \in 1..Len(chQueue) : chQueue[k] = c) => \E k \in 1..Len(Tail(chQueue)) : Tail(chQueue)[k] = c
          <6> SUFFICES ASSUME NEW k \in 1..Len(chQueue), chQueue[k] = c
                       PROVE  \E j \in 1..Len(Tail(chQueue)) : Tail(chQueue)[j] = c
            OBVIOUS
          <6>1. /\ Len(chQueue) \in Nat /\ Len(Tail(chQueue)) = Len(chQueue) - 1 /\ chQueue[1] = h
                /\ \A i \in 1..Len(chQueue) - 1 : Tail(chQueue)[i] = chQueue[i + 1]
            BY <3>1, <3>4, Shortened
          <6>2. k # 1
            BY <3>12, <6>1
          <6>3. k - 1 \in 1..Len(chQueue) - 1 /\ (k - 1) + 1 = k
            BY <6>1, <6>2
          <6> QED BY <6>1, <6>3
        <5> QED BY <3>1, <3>2, <5>1 DEF ChannelOwed, Waits
      <4>2. ChannelKnown(c)' <= ChannelKnown(c)
        BY <3>6, <3>7, <4>1 DEF ChannelKnown
      <4>3. PICK up : up = ChannelKnown(c)
        OBVIOUS
      <4>4. Learnt(log[c], ChannelEvents, "DISABLED", up, v)
        BY <1>1, <3>5, <3>12, <4>3 DEF AnsweredInv
      <4>5. up \in Nat /\ hi2 \in Nat /\ hi2 <= up /\ up <= Len(log[c]) + 1
        BY <3>6, <3>7, <3>10, <4>2, <4>3
      <4> QED BY <3>8, <3>10, <4>4, <4>5, LearntStays
    <3> QED BY <3>11, <3>12
  <2>3. CASE ApplyEvent
    <3>1. PICK h : h = Head(wQueue)
      OBVIOUS
    <3>2. "db" \notin Faults
      BY DEF Answering
    <3> DEFINE e == log[h][Handled]
    <3>3. /\ WriteEvent(h, Topic(e)) /\ UNCHANGED <<log, wPc, wQueue>> /\ wPc = "apply"
          /\ h \in Councils /\ Handled \in 1..Len(log[h]) /\ e \in Events
          /\ ReadTo(h) = Handled /\ ReadTo(h)' = Handled + 1
          /\ \A d \in Councils : d # h => ReadTo(d)' = ReadTo(d)
      BY <2>3, <3>1, <3>2, ApplyReadsOn
    <3>4. ChannelKnown(c) = ReadTo(c) /\ ChannelKnown(c)' = ReadTo(c)'
      BY <3>3 DEF ChannelKnown, ChannelOwed
    <3>5. Learnt(log[c], ChannelEvents, "DISABLED", ReadTo(c), channelStates[c])
      BY <3>4 DEF AnsweredInv
    <3>6. CASE c # h
      <4>1. channelStates'[c] = channelStates[c]
        BY <3>3, <3>6, EventWritten DEF TickInv
      <4> QED BY <1>1, <3>3, <3>4, <3>5, <3>6, <4>1
    <3>7. CASE c = h /\ e \in ChannelEvents
      <4>1. v = Verdict(e) /\ Len(log[h]) \in Nat
        BY <1>1, <3>3, <3>7, EventWritten, ReachTyped DEF TickInv
      <4>2. Learnt(log[h], ChannelEvents, "DISABLED", Handled + 1, Verdict(e))
        BY <3>3, <3>7, <4>1, LearntAhead
      <4> QED BY <3>3, <3>4, <3>7, <4>1, <4>2
    <3>8. CASE c = h /\ e \notin ChannelEvents
      <4>1. v = channelStates[h] /\ Len(log[h]) \in Nat /\ Handled \in Nat
        BY <1>1, <3>3, <3>8, EventWritten, ReachTyped DEF TickInv
      <4>2. Learnt(log[h], ChannelEvents, "DISABLED", Handled, v)
        BY <3>3, <3>5, <3>8, <4>1
      <4>3. Learnt(log[h], ChannelEvents, "DISABLED", Handled + 1, v)
        BY <3>8, <4>1, <4>2, LearntNext
      <4> QED BY <3>3, <3>4, <3>8, <4>3
    <3> QED BY <3>6, <3>7, <3>8
  <2> QED BY <2>1, <2>2, <2>3
<1> QED BY <1>1 DEF StatesLearnt

LEMMA AnswerNext ==
  ASSUME Answering, TickInv, HistoryInv, AnsweredInv, [Next]_vars
  PROVE  AnswerLearntToo'
<1> SUFFICES ASSUME chAnswer' # NoAnswer, NEW c, c = Head(chQueue'), NEW v, v = chAnswer'
             PROVE  Learnt(log'[c], ChannelEvents, "DISABLED", ReadTo(c)', v)
  BY DEF AnswerLearntToo, ReadTo, Reach, Handled
<1>1. TickInv'
  BY TickInvNext
<1>2. c \in Councils
  BY <1>1, Shortened DEF TickInv, ConvergeInv, TypeOK
<1>3. CASE chAnswer # NoAnswer
  <2>1. UNCHANGED <<chQueue, chAnswer, first>> /\ Waits /\ ~ApplyEvent
    BY <1>3, AnswerKept
  <2>2. ReadTo(c)' = ReadTo(c)
    BY <2>1, ReadWaits
  <2>3. PICK hi : hi = ReadTo(c)
    OBVIOUS
  <2>4. Learnt(log[c], ChannelEvents, "DISABLED", hi, v)
    BY <1>3, <2>1, <2>3 DEF AnsweredInv
  <2>5. hi \in Nat /\ hi <= Len(log[c]) + 1 /\ hi <= hi
    BY <1>2, <2>3, ReadTyped
  <2>6. Steady
    BY <2>1, SteadyNext
  <2> QED BY <1>2, <2>2, <2>3, <2>4, <2>5, <2>6, LearntStays
<1>4. CASE chAnswer = NoAnswer
  <2>1. AskChannel
    <3>1. chAnswer' # chAnswer
      BY <1>4
    <3> QED BY <3>1 DEF Next, Watch, Memberships, Decide, Forget, Join, InsertRow, BeginMemberships,
       AskMembership, StoreMembership, EndMemberships, BeginChannels, StoreChannel, EndChannels,
       Tick, NextCouncil, EndTick, Fetch, Refetch, ApplyEvent, EndPage, Crash, Start, vars, chVars
  <2>2. chAnswer' = ChannelSays(Head(chQueue)) /\ UNCHANGED <<chQueue, log>>
    BY <1>4, <2>1 DEF AskChannel, chainVars
  <2> QED BY <1>2, <2>2, ChannelAnswerLearnt DEF TickInv
<1> QED BY <1>3, <1>4

LEMMA AnsweredNext ==
  ASSUME Answering PROVE TickInv /\ HistoryInv /\ AnsweredInv /\ [Next]_vars => AnsweredInv'
BY StatesNext, AnswerNext DEF AnsweredInv, StatesLearnt, AnswerLearntToo

LEMMA AnsweredInit == Init => HistoryInv /\ AnsweredInv
<1> SUFFICES ASSUME Init PROVE HistoryInv /\ AnsweredInv
  OBVIOUS
<1>1. 1..Len(wQueue) = {} /\ \A c \in Councils : 1..Len(log[c]) = {}
  BY NothingIn DEF Init
<1>2. /\ \A c \in Councils : first[c] = 1 /\ channelStates[c] = "UNKNOWN"
      /\ chAnswer = NoAnswer /\ wPc \notin Handling
  BY DEF Init, Handling
<1> QED BY <1>1, <1>2 DEF HistoryInv, AnsweredInv, Learnt

\* A watcher that read everything has learnt it.
LEMMA AnsweredIsCaughtUp == TickInv /\ AnsweredInv => ChannelCaughtUp
<1> SUFFICES ASSUME TickInv, AnsweredInv, NEW c \in Councils, CaughtUp(c)
             PROVE  (channelStates[c] = "DISABLED") = (ChannelSays(c) = "DISABLED")
  BY DEF ChannelCaughtUp
<1>1. ChannelKnown(c) = End(c)
  BY ReachTyped DEF CaughtUp, ChannelKnown, ChannelOwed, ReadTo, Reach, Handling
<1>2. PICK v : v = channelStates[c]
  OBVIOUS
<1>3. Learnt(log[c], ChannelEvents, "DISABLED", End(c), v)
  BY <1>1, <1>2 DEF AnsweredInv
<1>4. /\ ChannelSays(c) = "DISABLED" <=> Verdict(Decided(c, ChannelEvents, "enabled")) = "DISABLED"
      /\ Verdict("enabled") # "DISABLED" /\ TypeOK
  BY ChannelDecided DEF TickInv
<1>5. v = "DISABLED" <=> Verdict(Decided(c, ChannelEvents, "enabled")) = "DISABLED"
  <2>1. ~Turns("enabled", "DISABLED")
    BY <1>4 DEF Turns
  <2>2. Agrees(v, Decided(c, ChannelEvents, "enabled"), "DISABLED")
    BY <1>3, <1>4, <2>1, LearntAll
  <2> QED BY <2>2 DEF Agrees, Turns
<1> QED BY <1>2, <1>4, <1>5

-----------------------------------------------------------------------------
(* The rows, where the boot alone asks and nothing is forgotten but while it is down *)

LEMMA GentleFaults ==
  ASSUME OnlyDowntime
  PROVE  /\ OwnRows /\ Answering
         /\ "sync" \notin Faults /\ "db" \notin Faults /\ "council" \notin Faults
         /\ "outage" \notin Faults /\ "oldHistory" \notin Faults
BY DEF OnlyDowntime, OwnRows, Answering

\* No operator asks for a sync.
LEMMA NoOperator ==
  ASSUME OwnRows, TickInv, MemberInv
  PROVE  ~Memberships("operator")
<1>1. "operator" \in Converging /\ "sync" \notin Faults
  BY DEF Converging, OwnRows
<1>2. ~mbBusy["operator"] /\ mbQueue["operator"] = <<>> /\ mbAnswer["operator"] = NoAnswer
  BY <1>1 DEF MemberInv, TickInv, ConvergeInv
<1> QED BY <1>1, <1>2 DEF Memberships, BeginMemberships, AskMembership, StoreMembership, EndMemberships

\* The tick is at a ledger that is still retained, so that no cursor is ever dropped.
LEMMA HandledRetained ==
  ASSUME TickInv, HistoryInv, AskedInv, wPc \in Handling
  PROVE  first[Head(wQueue)] <= Handled
<1> DEFINE h == Head(wQueue)
<1>1. h \in Councils /\ Reach(h) = Handled
  BY QueueTyped DEF TickInv, PageInv, Reach
<1>2. /\ first[h] \in Nat /\ cursors[h] \in Nat /\ cursors[h] <= Handled /\ Handled \in Int
  BY <1>1, ReachTyped
<1>3. cursors[h] > 0 => first[h] <= cursors[h]
  BY <1>1 DEF AskedInv
<1> QED BY <1>2, <1>3 DEF HistoryInv

LEMMA NoRecovery ==
  ASSUME TickInv, HistoryInv, AskedInv, Tick \/ NextCouncil \/ EndTick \/ Fetch \/ Refetch \/ EndPage
  PROVE  wPc' # "recover"
<1>1. CASE Fetch
  <2>1. wPc \in Handling /\ wPage = <<>> /\ wQueue # <<>>
    BY <1>1 DEF Fetch, TickInv, PageInv, Handling
  <2>2. Handled = wFrom
    BY <2>1, NothingIn DEF Handled, TickInv, TypeOK
  <2>3. first[Head(wQueue)] <= wFrom /\ first[Head(wQueue)] \in Nat /\ wFrom \in Nat
    BY <2>1, <2>2, HandledRetained, QueueTyped, ReachTyped
  <2> QED BY <1>1, <2>3 DEF Fetch, ReadPage, SkipCouncil
<1> QED BY <1>1 DEF Tick, NextCouncil, EndTick, Refetch, EndPage, ReadPage, SkipCouncil, AbortTick

LEMMA CursorsNext ==
  ASSUME OnlyDowntime, TickInv, HistoryInv, AskedInv, [Next]_vars
  PROVE  \A c \in Councils : cursors'[c] > 0 => first'[c] <= cursors'[c]
<1> SUFFICES ASSUME NEW c \in Councils, cursors'[c] > 0 PROVE first'[c] <= cursors'[c]
  OBVIOUS
<1>1. CASE UNCHANGED <<first, cursors>>
  BY <1>1 DEF AskedInv
<1>2. ASSUME NEW d \in Councils, Forget(d) PROVE FALSE
  <2>1. wPc = "down" /\ UNCHANGED cursors
    BY <1>2, GentleFaults DEF Forget
  <2> QED BY <2>1 DEF TickInv, ConvergeInv
<1>3. CASE Fetch
  <2>1. UNCHANGED <<first, cursors>>
    BY <1>3, NoRecovery DEF Fetch, chainVars
  <2> QED BY <1>1, <2>1
<1>4. CASE EndPage
  <2> DEFINE h == Head(wQueue)
  <2>1. /\ cursors' = [cursors EXCEPT ![h] = wFrom] /\ first' = first /\ wPage = <<>>
        /\ wPc \in Handling
    BY <1>4 DEF EndPage, chainVars, Handling
  <2>2. Handled = wFrom /\ first[h] <= Handled
    BY <2>1, NothingIn, HandledRetained DEF Handled, TickInv, TypeOK
  <2>3. CASE c = h
    BY <2>1, <2>2, <2>3 DEF TickInv, TypeOK
  <2>4. CASE c # h
    BY <2>1, <2>4 DEF TickInv, TypeOK, AskedInv
  <2> QED BY <2>3, <2>4
<1>5. CASE Crash
  BY <1>5 DEF Crash, NoCursors
<1>6. CASE \/ BeginChannels \/ EndChannels \/ EndMemberships("boot")
           \/ Tick \/ NextCouncil \/ EndTick \/ Refetch \/ ApplyEvent \/ Start
           \/ (Waits /\ UNCHANGED first)
  BY <1>1, <1>6 DEF BeginChannels, EndChannels, EndMemberships, Tick, NextCouncil, EndTick, Refetch,
     ApplyEvent, Start, Waits, chainVars
<1> QED BY <1>2, <1>3, <1>4, <1>5, <1>6, StepsAre

\* What is behind the head of a queue of rows.
LEMMA RowsBehind ==
  ASSUME NEW rows \in Seq(Rows), rows # <<>>, Distinct(rows)
  PROVE  /\ Distinct(Tail(rows))
         /\ \A k \in 1..Len(Tail(rows)) : /\ Tail(rows)[k].council # Head(rows).council
                                          /\ \E j \in 1..Len(rows) : rows[j] = Tail(rows)[k]
         /\ \A c : (\E k \in 1..Len(rows) : rows[k].council = c) =>
                     c = Head(rows).council \/ \E k \in 1..Len(Tail(rows)) : Tail(rows)[k].council = c
<1>1. /\ Len(rows) \in Nat /\ Len(rows) >= 1 /\ Len(Tail(rows)) = Len(rows) - 1 /\ Head(rows) = rows[1]
      /\ \A i \in 1..Len(rows) - 1 : Tail(rows)[i] = rows[i + 1]
  BY Shortened
<1>2. ASSUME NEW k \in 1..Len(Tail(rows))
      PROVE  /\ k + 1 \in 1..Len(rows) /\ Tail(rows)[k] = rows[k + 1]
             /\ Tail(rows)[k].council # Head(rows).council
  <2>1. k + 1 \in 1..Len(rows) /\ k + 1 # 1 /\ 1 \in 1..Len(rows) /\ Tail(rows)[k] = rows[k + 1]
    BY <1>1
  <2> QED BY <1>1, <2>1 DEF Distinct
<1>3. Distinct(Tail(rows))
  <2> SUFFICES ASSUME NEW i \in 1..Len(Tail(rows)), NEW j \in 1..Len(Tail(rows)),
                      Tail(rows)[i].council = Tail(rows)[j].council
               PROVE  i = j
    BY DEF Distinct
  <2>1. i + 1 = j + 1
    BY <1>2 DEF Distinct
  <2>2. i \in Nat /\ j \in Nat
    OBVIOUS
  <2> QED BY <2>1, <2>2
<1>4. ASSUME NEW c, NEW k \in 1..Len(rows), rows[k].council = c, c # Head(rows).council
      PROVE  \E j \in 1..Len(Tail(rows)) : Tail(rows)[j].council = c
  <2>1. k # 1
    BY <1>1, <1>4
  <2>2. k - 1 \in 1..Len(rows) - 1 /\ (k - 1) + 1 = k
    BY <1>1, <2>1
  <2>3. Tail(rows)[k - 1] = rows[k]
    BY <1>1, <2>2
  <2> QED BY <1>1, <1>4, <2>2, <2>3
<1> QED BY <1>2, <1>3, <1>4

\* The newest first are the rows, each once.
LEMMA RowsListed ==
  ASSUME TickInv
  PROVE  /\ \A k \in 1..Len(NewestFirst) : \E i \in 1..Len(memberships) : memberships[i] = NewestFirst[k]
         /\ \A c : HasRow(c) => \E k \in 1..Len(NewestFirst) : NewestFirst[k].council = c
         /\ Distinct(memberships) => Distinct(NewestFirst)
<1> DEFINE n == Len(memberships)
<1>1. n \in Nat /\ \A i \in 1..n : memberships[i] \in Rows
  BY RowsTyped DEF TickInv
<1>2. \A k \in 1..n : n + 1 - k \in 1..n /\ n + 1 - (n + 1 - k) = k
  BY <1>1
<1>3. NewestFirst \in [1..n -> Rows] /\ \A k \in 1..n : NewestFirst[k] = memberships[n + 1 - k]
  BY <1>1, <1>2 DEF NewestFirst
<1>4. Len(NewestFirst) = n
  BY <1>1, <1>3, Tabled
<1>5. ASSUME NEW c, HasRow(c) PROVE \E k \in 1..n : NewestFirst[k].council = c
  <2>1. PICK i \in 1..n : memberships[i].council = c
    BY <1>5 DEF HasRow
  <2>2. NewestFirst[n + 1 - i] = memberships[i]
    BY <1>2, <1>3
  <2> QED BY <1>2, <2>1, <2>2
<1>6. ASSUME Distinct(memberships), NEW i \in 1..n, NEW j \in 1..n,
             NewestFirst[i].council = NewestFirst[j].council
      PROVE  i = j
  <2>1. PICK a \in 1..n : a = n + 1 - i /\ NewestFirst[i] = memberships[a]
    BY <1>2, <1>3
  <2>2. PICK b \in 1..n : b = n + 1 - j /\ NewestFirst[j] = memberships[b]
    BY <1>2, <1>3
  <2>3. a = b
    BY <1>6, <2>1, <2>2 DEF Distinct
  <2> QED BY <1>1, <2>1, <2>2, <2>3
<1> QED BY <1>2, <1>3, <1>4, <1>5, <1>6 DEF Distinct

\* Only an applied event and an answer of the council let the watcher know more of a row.
LEMMA RowKnownNext ==
  ASSUME OnlyDowntime, TickInv, MemberInv, HistoryInv, AskedInv, [Next]_vars,
         ~ApplyEvent, ~AskMembership("boot"), ~StoreMembership("boot"),
         NEW c \in Councils, HasRow(c)
  PROVE  RowKnown(c)' <= RowKnown(c)
<1>1. /\ RowKnown(c) \in Nat /\ RowKnown(c) >= 1 /\ ReadTo(c) \in Nat
      /\ RowKnown(c) <= ReadTo(c)
  BY ReadTyped DEF RowKnown
<1>2. CASE RowOwed(c)'
  BY <1>1, <1>2 DEF RowKnown
<1>3. CASE ReadTo(c)' <= ReadTo(c) /\ ~RowOwed(c)
  <2>1. RowKnown(c)' = 1 \/ RowKnown(c)' = ReadTo(c)'
    BY DEF RowKnown
  <2> QED BY <1>1, <1>3, <2>1 DEF RowKnown
<1>4. "boot" \in Converging
  BY DEF Converging
<1>5. CASE Waits /\ UNCHANGED <<first, mbBusy, mbQueue>>
  <2>1. ReadTo(c)' = ReadTo(c)
    BY <1>5, ReadWaits
  <2>2. RowOwed(c)' <=> RowOwed(c)
    BY <1>5 DEF Waits, RowOwed
  <2> QED BY <1>1, <2>1, <2>2 DEF RowKnown
<1>6. ASSUME NEW d \in Councils, Forget(d) PROVE RowOwed(c)'
  BY <1>6, GentleFaults DEF Forget, RowOwed, tickVars
<1>7. CASE BeginMemberships("boot")
  <2>1. wPc' = "members" /\ mbQueue' = [mbQueue EXCEPT !["boot"] = NewestFirst]
    BY <1>7, GentleFaults DEF BeginMemberships, tickVars
  <2>2. mbQueue'["boot"] = NewestFirst
    BY <1>4, <2>1 DEF TickInv, TypeOK
  <2>3. RowOwed(c)'
    BY <2>1, <2>2, RowsListed DEF RowOwed
  <2> QED BY <1>2, <2>3
<1>8. CASE EndMemberships("boot")
  <2>1. /\ wPc = "members" /\ wPc' = "idle" /\ UNCHANGED <<first, cursors>>
        /\ mbBusy["boot"] /\ 1..Len(mbQueue["boot"]) = {}
    BY <1>4, <1>8, NothingIn DEF EndMemberships, TickInv, ConvergeInv, chainVars
  <2>2. ReadTo(c)' = ReadTo(c) /\ ~RowOwed(c)
    BY <2>1 DEF ReadTo, Reach, Handling, RowOwed
  <2> QED BY <1>1, <1>3, <2>2
<1>9. CASE BeginChannels \/ EndChannels
  <2>1. /\ \/ wPc = "boot" /\ wPc' = "bootChannels"
           \/ wPc = "bootChannels" /\ wPc' = "members"
           \/ wPc = "recover" /\ wPc' = "recoverChannels"
           \/ wPc = "recoverChannels" /\ wPc' = "refetch"
        /\ UNCHANGED <<first, cursors, wQueue, wFrom, wPage, mbBusy>>
    BY <1>9 DEF BeginChannels, EndChannels, Asking, chainVars, mbVars
  <2>2. CASE wPc \in {"boot", "bootChannels"}
    <3>1. ~mbBusy["boot"]
      BY <2>2 DEF TickInv, ConvergeInv
    <3>2. RowOwed(c)'
      BY <2>1, <2>2, <3>1 DEF RowOwed
    <3> QED BY <1>2, <3>2
  <2>3. CASE wPc \in {"recover", "recoverChannels"}
    <3>1. ReadTo(c)' = ReadTo(c) /\ ~RowOwed(c)
      BY <2>1, <2>3 DEF ReadTo, Reach, Handling, Handled, RowOwed
    <3> QED BY <1>1, <1>3, <3>1
  <2> QED BY <2>1, <2>2, <2>3
<1>10. CASE Start \/ Crash
  <2>1. RowOwed(c)'
    BY <1>10 DEF Start, Crash, RowOwed
  <2> QED BY <1>2, <2>1
<1>11. CASE Tick \/ NextCouncil \/ EndTick \/ Fetch \/ Refetch \/ EndPage
  <2>1. ~RowOwed(c)
    BY <1>11 DEF Tick, NextCouncil, EndTick, Fetch, Refetch, EndPage, RowOwed
  <2> QED BY <1>3, <1>11, <2>1, NoRecovery, TickReadsNoFurther
<1>12. CASE (\E d \in Councils : Decide(d) \/ Join(d)) \/ InsertRow \/ AskChannel \/ StoreChannel \/ UNCHANGED vars
  <2>1. UNCHANGED <<mbBusy, mbQueue>>
    BY <1>12 DEF Decide, Join, InsertRow, AskChannel, StoreChannel, vars, mbVars
  <2> QED BY <1>5, <1>12, <2>1, Waiting
<1>13. ~Memberships("operator")
  BY GentleFaults, NoOperator
<1> QED BY <1>2, <1>6, <1>7, <1>8, <1>9, <1>10, <1>11, <1>12, <1>13 DEF Next, Watch, Memberships

\* What the boot writes when it stores an answer.
LEMMA BootStores ==
  ASSUME OnlyDowntime, TickInv, StoreMembership("boot"), NEW q, q = mbQueue["boot"]
  PROVE  /\ q \in Seq(Rows) /\ q # <<>> /\ Head(q).council \in Councils /\ mbAnswer["boot"] # NoAnswer
         /\ mbQueue'["boot"] = Tail(q) /\ mbAnswer'["boot"] = NoAnswer
         /\ wPc = "members" /\ mbBusy["boot"] /\ UNCHANGED <<log, first, mbBusy>> /\ Waits
         /\ Len(memberships') = Len(memberships)
         /\ \A i \in 1..Len(memberships) :
              /\ memberships'[i].council = memberships[i].council
              /\ memberships[i].council = Head(q).council => memberships'[i].status = mbAnswer["boot"]
              /\ memberships[i].council # Head(q).council => memberships'[i] = memberships[i]
<1>1. "boot" \in Converging /\ "db" \notin Faults
  BY GentleFaults DEF Converging
<1>2. /\ mbAnswer["boot"] # NoAnswer /\ mbAnswer' = [mbAnswer EXCEPT !["boot"] = NoAnswer]
      /\ SetStatus(Head(q).council, mbAnswer["boot"]) /\ mbQueue' = [mbQueue EXCEPT !["boot"] = Tail(q)]
      /\ UNCHANGED <<log, first, mbBusy>>
  BY <1>1 DEF StoreMembership, chainVars
<1>3. q # <<>> /\ mbBusy["boot"] /\ wPc = "members" /\ q \in Seq(Rows)
  BY <1>1, <1>2 DEF TickInv, ConvergeInv, TypeOK
<1>4. Head(q).council \in Councils /\ mbAnswer["boot"] \in MembershipStatus
  <2>1. Head(q) \in Rows
    BY <1>3, Shortened
  <2> QED BY <1>1, <1>2, <2>1 DEF TickInv, TypeOK, Rows
<1>5. mbQueue'["boot"] = Tail(q) /\ mbAnswer'["boot"] = NoAnswer
  BY <1>1, <1>2 DEF TickInv, TypeOK
<1>6. Waits
  BY <1>1, Waiting
<1>7. /\ Len(memberships') = Len(memberships)
      /\ \A i \in 1..Len(memberships) :
           /\ memberships'[i].council = memberships[i].council
           /\ memberships[i].council = Head(q).council => memberships'[i].status = mbAnswer["boot"]
  BY <1>2, <1>4, StatusSet DEF TickInv
<1>8. \A i \in 1..Len(memberships) : memberships[i].council # Head(q).council => memberships'[i] = memberships[i]
  BY <1>2 DEF SetStatus
<1> QED BY <1>2, <1>3, <1>4, <1>5, <1>6, <1>7, <1>8

\* The boot lists each row once, as it still is when its council is asked.
BootQueue ==
  /\ Distinct(memberships) /\ Distinct(mbQueue["boot"])
  /\ \A k \in 1..Len(mbQueue["boot"]) : \E i \in 1..Len(memberships) : memberships[i] = mbQueue["boot"][k]

LEMMA BootQueueNext ==
  ASSUME OnlyDowntime, TickInv, MemberInv, AskedInv, [Next]_vars
  PROVE  BootQueue'
<1> DEFINE n == Len(memberships)
           q == mbQueue["boot"]
<1>1. /\ "boot" \in Converging /\ n \in Nat /\ q \in Seq(Rows) /\ Distinct(q)
      /\ \A k \in 1..Len(q) : \E i \in 1..n : memberships[i] = q[k]
      /\ \A i \in 1..n : memberships[i].council \in Councils
  BY RowsTyped DEF Converging, TickInv, TypeOK, AskedInv
<1>2. Distinct(memberships')
  <2>1. CASE /\ Len(memberships') = n
             /\ \A i \in 1..n : memberships'[i].council = memberships[i].council
    BY <2>1 DEF AskedInv, Distinct
  <2>2. CASE /\ InsertRow /\ Len(memberships') = n + 1
             /\ \A i \in 1..n : memberships'[i] = memberships[i]
             /\ memberships'[n + 1] = [council |-> joining, status |-> "PENDING"]
    <3>1. \A i \in 1..n : memberships'[i].council # joining
      BY <2>2 DEF InsertRow, MemberInv, HasRow
    <3>2. \A i \in 1..Len(memberships') : i \in 1..n \/ (i = n + 1 /\ memberships'[i].council = joining)
      BY <1>1, <2>2
    <3> SUFFICES ASSUME NEW i \in 1..Len(memberships'), NEW j \in 1..Len(memberships'),
                        memberships'[i].council = memberships'[j].council
                 PROVE  i = j
      BY DEF Distinct
    <3>3. CASE i \in 1..n /\ j \in 1..n
      BY <2>2, <3>3 DEF AskedInv, Distinct
    <3> QED BY <3>1, <3>2, <3>3
  <2> QED BY <2>1, <2>2, RowsNext
<1> DEFINE Listing(rows) == /\ Distinct(rows)
                            /\ \A k \in 1..Len(rows) : \E i \in 1..Len(memberships') : memberships'[i] = rows[k]
<1>3. Listing(mbQueue'["boot"])
  <2>1. CASE UNCHANGED memberships /\ mbQueue'["boot"] = q
    BY <1>1, <2>1
  <2>2. CASE mbQueue'["boot"] = <<>>
    <3>1. 1..Len(mbQueue'["boot"]) = {}
      BY <2>2, NothingIn
    <3> QED BY <3>1 DEF Distinct
  <2>3. CASE InsertRow
    <3>1. mbQueue' = mbQueue /\ \A i \in 1..n : i \in 1..Len(memberships') /\ memberships'[i] = memberships[i]
      BY <1>1, <2>3, InsertRowTame DEF InsertRow, mbVars
    <3> QED BY <1>1, <3>1
  <2>4. CASE ApplyEvent
    <3>1. wPc = "apply" /\ mbQueue' = mbQueue
      BY <2>4 DEF ApplyEvent, mbVars
    <3>2. q = <<>>
      BY <1>1, <3>1 DEF TickInv, ConvergeInv
    <3> QED BY <2>2, <3>1, <3>2
  <2>5. CASE BeginMemberships("boot")
    <3>1. mbQueue' = [mbQueue EXCEPT !["boot"] = NewestFirst] /\ UNCHANGED memberships
      BY <2>5, GentleFaults DEF BeginMemberships, tableVars
    <3>2. mbQueue'["boot"] = NewestFirst
      BY <1>1, <3>1 DEF TickInv, TypeOK
    <3> QED BY <3>1, <3>2, RowsListed DEF AskedInv
  <2>6. CASE AskMembership("boot")
    <3>1. q # <<>> /\ UNCHANGED memberships /\ (mbQueue' = mbQueue \/ mbQueue' = [mbQueue EXCEPT !["boot"] = Tail(q)])
      BY <2>6 DEF AskMembership, tableVars
    <3>2. mbQueue'["boot"] = q \/ mbQueue'["boot"] = Tail(q)
      BY <1>1, <3>1 DEF TickInv, TypeOK
    <3>3. CASE mbQueue'["boot"] = Tail(q)
      <4> HIDE DEF q
      <4>1. /\ Distinct(Tail(q))
            /\ \A k \in 1..Len(Tail(q)) : \E j \in 1..Len(q) : q[j] = Tail(q)[k]
        BY <1>1, <3>1, RowsBehind
      <4>2. \A k \in 1..Len(Tail(q)) : \E i \in 1..n : memberships[i] = Tail(q)[k]
        <5> SUFFICES ASSUME NEW k \in 1..Len(Tail(q)) PROVE \E i \in 1..n : memberships[i] = Tail(q)[k]
          OBVIOUS
        <5>1. PICK j \in 1..Len(q) : q[j] = Tail(q)[k]
          BY <4>1
        <5> QED BY <1>1, <5>1
      <4> QED BY <3>1, <3>3, <4>1, <4>2
    <3> QED BY <2>1, <3>1, <3>2, <3>3
  <2>7. CASE StoreMembership("boot")
    <3>1. /\ q # <<>> /\ mbQueue'["boot"] = Tail(q) /\ Len(memberships') = n
          /\ \A i \in 1..n : memberships[i].council # Head(q).council => memberships'[i] = memberships[i]
      BY <2>7, BootStores
    <3> HIDE DEF q
    <3>2. /\ Distinct(Tail(q))
          /\ \A k \in 1..Len(Tail(q)) : /\ Tail(q)[k].council # Head(q).council
                                        /\ \E j \in 1..Len(q) : q[j] = Tail(q)[k]
      BY <1>1, <3>1, RowsBehind
    <3>3. ASSUME NEW k \in 1..Len(Tail(q)) PROVE \E i \in 1..Len(memberships') : memberships'[i] = Tail(q)[k]
      <4>1. PICK j \in 1..Len(q) : q[j] = Tail(q)[k]
        BY <3>2
      <4>2. PICK i \in 1..n : memberships[i] = Tail(q)[k]
        BY <1>1, <4>1
      <4> QED BY <3>1, <3>2, <4>2
    <3> QED BY <3>1, <3>2, <3>3
  <2>8. CASE EndMemberships("boot")
    BY <2>1, <2>8 DEF EndMemberships, tableVars
  <2>9. ~Memberships("operator")
    BY GentleFaults, NoOperator
  <2>10. CASE Crash
    BY <1>1, <2>2, <2>10 DEF Crash, NoRows
  <2>11. CASE ~ApplyEvent /\ ~InsertRow /\ ~Memberships("boot") /\ ~Crash
    <3>1. UNCHANGED <<memberships, mbQueue>>
      BY <2>9, <2>11 DEF Next, Watch, Decide, Forget, Join, BeginChannels, AskChannel, StoreChannel,
         EndChannels, Tick, NextCouncil, EndTick, Fetch, Refetch, EndPage, Start, vars, tableVars, mbVars
    <3> QED BY <2>1, <3>1
  <2> QED BY <2>3, <2>4, <2>5, <2>6, <2>7, <2>8, <2>10, <2>11 DEF Memberships
<1> QED BY <1>2, <1>3 DEF BootQueue, Distinct

\* The rows, and the answer that waits for its write.
RowKnowledge ==
  \A i \in 1..Len(memberships) :
    LET c == memberships[i].council
    IN Learnt(log[c], MembershipEvents, "ACTIVE", RowKnown(c), memberships[i].status)
RowAnswer ==
  mbAnswer["boot"] # NoAnswer =>
    LET c == Head(mbQueue["boot"]).council
    IN Learnt(log[c], MembershipEvents, "ACTIVE", ReadTo(c), mbAnswer["boot"])

LEMMA RowStays ==
  ASSUME TickInv, [Next]_vars, ~ApplyEvent, NEW c \in Councils, NEW v,
         Learnt(log[c], MembershipEvents, "ACTIVE", RowKnown(c), v), RowKnown(c)' <= RowKnown(c)
  PROVE  Learnt(log'[c], MembershipEvents, "ACTIVE", RowKnown(c)', v)
<1>1. Steady
  BY SteadyNext
<1>2. TickInv'
  BY TickInvNext
<1>3. PICK hi : hi = RowKnown(c)
  OBVIOUS
<1>4. PICK hi2 : hi2 = RowKnown(c)'
  OBVIOUS
<1>5. hi \in Nat /\ hi <= Len(log[c]) + 1
  BY <1>3, ReadTyped DEF RowKnown
<1>6. hi2 \in Nat
  <2>1. ReadTo(c)' \in Nat
    BY <1>2, ReadTypedNext
  <2> QED BY <1>4, <2>1 DEF RowKnown
<1> QED BY <1>1, <1>3, <1>4, <1>5, <1>6, LearntStays

\* The row's council answered, and nothing of what it said is to be read again.
LEMMA RowAnswered ==
  ASSUME TickInv, [Next]_vars, ~ApplyEvent, NEW c \in Councils, NEW v, ReadTo(c)' = ReadTo(c),
         Learnt(log[c], MembershipEvents, "ACTIVE", ReadTo(c), v)
  PROVE  Learnt(log'[c], MembershipEvents, "ACTIVE", RowKnown(c)', v)
<1>1. Steady
  BY SteadyNext
<1>2. PICK hi : hi = ReadTo(c)
  OBVIOUS
<1>3. PICK hi2 : hi2 = RowKnown(c)'
  OBVIOUS
<1>4. /\ hi \in Nat /\ hi >= 1 /\ hi <= Len(log[c]) + 1
  BY <1>2, ReadTyped
<1>5. hi2 \in Nat /\ hi2 <= hi
  BY <1>2, <1>3, <1>4 DEF RowKnown
<1> QED BY <1>1, <1>2, <1>3, <1>4, <1>5, LearntStays

LEMMA RowAsked ==
  ASSUME OnlyDowntime, TickInv, AskedInv, [Next]_vars, AskMembership("boot"),
         NEW i \in 1..Len(memberships), NEW c, c = memberships[i].council,
         NEW v, v = memberships[i].status
  PROVE  Learnt(log'[c], MembershipEvents, "ACTIVE", RowKnown(c)', v)
<1> DEFINE q == mbQueue["boot"]
<1>1. /\ "boot" \in Converging /\ q # <<>> /\ q \in Seq(Rows) /\ Distinct(q) /\ c \in Councils
      /\ mbBusy["boot"] /\ wPc = "members" /\ "council" \notin Faults
      /\ UNCHANGED <<log, first, mbBusy>> /\ mbQueue \in [Converging -> Seq(Rows)]
  BY RowsTyped, GentleFaults DEF Converging, AskMembership, TickInv, ConvergeInv, TypeOK, AskedInv, chainVars
<1>2. Waits /\ ReadTo(c)' = ReadTo(c) /\ ~ApplyEvent
  <2>1. Waits
    BY <1>1, Waiting
  <2> QED BY <1>1, <2>1, ReadWaits DEF ApplyEvent
<1>3. Learnt(log[c], MembershipEvents, "ACTIVE", RowKnown(c), v)
  BY DEF AskedInv
<1>4. CASE RowOwed(c) => RowOwed(c)'
  <2>1. ReadTo(c) \in Nat /\ ReadTo(c) >= 1
    BY <1>1, ReadTyped
  <2>2. RowKnown(c)' <= RowKnown(c)
    BY <1>2, <1>4, <2>1 DEF RowKnown
  <2> QED BY <1>1, <1>2, <1>3, <2>2, RowStays
<1>5. CASE RowOwed(c) /\ ~RowOwed(c)'
  <2>1. (\E k \in 1..Len(q) : q[k].council = c) /\ ~(\E k \in 1..Len(mbQueue'["boot"]) : mbQueue'["boot"][k].council = c)
    BY <1>1, <1>2, <1>5 DEF RowOwed, Waits
  <2>2. mbQueue'["boot"] = Tail(q) /\ CouncilSays(Head(q).council) = Head(q).status
    BY <1>1, <2>1 DEF AskMembership
  <2>3. c = Head(q).council
    <3>1. PICK rows : rows = q
      OBVIOUS
    <3>2. rows \in Seq(Rows) /\ rows # <<>> /\ Distinct(rows)
      BY <1>1, <3>1
    <3>3. c = Head(rows).council \/ \E k \in 1..Len(Tail(rows)) : Tail(rows)[k].council = c
      BY <2>1, <3>1, <3>2, RowsBehind
    <3> QED BY <2>1, <2>2, <3>1, <3>3
  <2>4. Head(q) = memberships[i]
    <3>1. 1 \in 1..Len(q) /\ Head(q) = q[1]
      BY <1>1, Shortened
    <3>2. PICK j \in 1..Len(memberships) : memberships[j] = Head(q)
      BY <3>1 DEF AskedInv
    <3>3. j = i
      BY <2>3, <3>2 DEF AskedInv, Distinct
    <3> QED BY <3>2, <3>3
  <2>5. v = CouncilSays(c)
    BY <2>2, <2>3, <2>4
  <2>6. Learnt(log[c], MembershipEvents, "ACTIVE", ReadTo(c), v)
    BY <1>1, <2>5, RowAnswerLearnt DEF TickInv
  <2> QED BY <1>1, <1>2, <2>6, RowAnswered
<1> QED BY <1>4, <1>5

LEMMA RowStored ==
  ASSUME OnlyDowntime, TickInv, AskedInv, [Next]_vars, StoreMembership("boot"),
         NEW i \in 1..Len(memberships), NEW c, c = memberships[i].council,
         NEW v, v = memberships'[i].status
  PROVE  Learnt(log'[c], MembershipEvents, "ACTIVE", RowKnown(c)', v)
<1>1. PICK q : q = mbQueue["boot"]
  OBVIOUS
<1>2. /\ q \in Seq(Rows) /\ q # <<>> /\ Head(q).council \in Councils /\ mbAnswer["boot"] # NoAnswer
      /\ mbQueue'["boot"] = Tail(q)
      /\ wPc = "members" /\ mbBusy["boot"] /\ UNCHANGED <<log, first, mbBusy>> /\ Waits
      /\ memberships[i].council = Head(q).council => memberships'[i].status = mbAnswer["boot"]
      /\ memberships[i].council # Head(q).council => memberships'[i] = memberships[i]
  BY <1>1, BootStores
<1>3. c \in Councils /\ Distinct(q) /\ ~ApplyEvent /\ ReadTo(c)' = ReadTo(c)
  BY <1>1, <1>2, RowsTyped, ReadWaits DEF TickInv, AskedInv, ApplyEvent
<1>4. CASE c = Head(q).council
  <2>1. Learnt(log[c], MembershipEvents, "ACTIVE", ReadTo(c), v)
    BY <1>1, <1>2, <1>4 DEF AskedInv
  <2> QED BY <1>3, <2>1, RowAnswered
<1>5. CASE c # Head(q).council
  <2>1. Learnt(log[c], MembershipEvents, "ACTIVE", RowKnown(c), v)
    BY <1>2, <1>5 DEF AskedInv
  <2>2. RowOwed(c) => RowOwed(c)'
    <3>1. \A d : (\E k \in 1..Len(q) : q[k].council = d) =>
                   d = Head(q).council \/ \E k \in 1..Len(Tail(q)) : Tail(q)[k].council = d
      BY <1>2, <1>3, RowsBehind
    <3>2. (\E k \in 1..Len(q) : q[k].council = c) => \E k \in 1..Len(Tail(q)) : Tail(q)[k].council = c
      BY <1>5, <3>1
    <3> QED BY <1>1, <1>2, <3>2 DEF RowOwed, Waits
  <2>3. RowKnown(c)' <= RowKnown(c)
    BY <1>3, <2>2, ReadTyped DEF RowKnown
  <2> QED BY <1>3, <2>1, <2>3, RowStays
<1> QED BY <1>4, <1>5

LEMMA RowInserted ==
  ASSUME OnlyDowntime, TickInv, MemberInv, HistoryInv, AskedInv, [Next]_vars, InsertRow,
         NEW i \in 1..Len(memberships'), NEW c, c = memberships'[i].council,
         NEW v, v = memberships'[i].status
  PROVE  Learnt(log'[c], MembershipEvents, "ACTIVE", RowKnown(c)', v)
<1> DEFINE n == Len(memberships)
<1>1. /\ UNCHANGED <<log, first, mbBusy, mbQueue>> /\ joining # NoCouncil /\ n \in Nat /\ Waits
  BY RowsTyped, Waiting DEF InsertRow, chainVars, mbVars, TickInv
<1>2. \A d : ReadTo(d)' = ReadTo(d) /\ (RowOwed(d)' <=> RowOwed(d))
  BY <1>1, ReadWaits DEF Waits, RowOwed
<1>3. \A d : RowKnown(d)' = RowKnown(d)
  BY <1>2 DEF RowKnown
<1>4. CASE i \in 1..n /\ memberships'[i] = memberships[i]
  <2>1. Learnt(log[c], MembershipEvents, "ACTIVE", RowKnown(c), v)
    BY <1>4 DEF AskedInv
  <2> QED BY <1>1, <1>3, <2>1
<1>5. CASE memberships'[i] = [council |-> joining, status |-> "PENDING"]
  <2>1. c \in Councils /\ ~HasRow(c) /\ v = "PENDING"
    BY <1>1, <1>5 DEF TickInv, TypeOK, MemberInv
  <2>2. ReadTo(c) = 1
    <3>1. first[c] = 1 /\ cursors[c] = 0
      BY <2>1 DEF HistoryInv, MemberInv, TickInv, TypeOK
    <3>2. ~(wPc \in Handling /\ c = Head(wQueue))
      BY <2>1, HeadHasRow DEF TickInv, PageInv
    <3> QED BY <3>1, <3>2 DEF ReadTo, Reach
  <2>3. RowKnown(c)' = 1 /\ Len(log[c]) \in Nat
    BY <1>2, <2>1, <2>2, ReachTyped DEF RowKnown
  <2> QED BY <1>1, <2>1, <2>3, LearntNone
<1>6. \/ i \in 1..n /\ memberships'[i] = memberships[i]
      \/ memberships'[i] = [council |-> joining, status |-> "PENDING"]
  BY <1>1, InsertRowTame
<1> QED BY <1>4, <1>5, <1>6

LEMMA RowApplied ==
  ASSUME OnlyDowntime, TickInv, MemberInv, AskedInv, ApplyEvent,
         NEW i \in 1..Len(memberships'), NEW c, c = memberships'[i].council,
         NEW v, v = memberships'[i].status
  PROVE  Learnt(log'[c], MembershipEvents, "ACTIVE", RowKnown(c)', v)
<1>1. PICK h : h = Head(wQueue)
  OBVIOUS
<1> DEFINE e == log[h][Handled]
<1>2. /\ WriteEvent(h, Topic(e)) /\ UNCHANGED <<log, wPc, wQueue>> /\ wPc = "apply"
      /\ h \in Councils /\ Handled \in 1..Len(log[h]) /\ e \in Events
      /\ ReadTo(h) = Handled /\ ReadTo(h)' = Handled + 1
      /\ \A d \in Councils : d # h => ReadTo(d)' = ReadTo(d)
  BY <1>1, GentleFaults, ApplyReadsOn
<1>3. e \in MembershipEvents \/ (e \in ChannelEvents /\ e \notin MembershipEvents)
  BY <1>2 DEF MemberInv, Events, ChannelEvents, MembershipEvents
<1> HIDE DEF e
<1>4. /\ i \in 1..Len(memberships) /\ c = memberships[i].council
      /\ memberships[i].council = h /\ e \in MembershipEvents => v = Verdict(e)
      /\ memberships[i].council # h \/ e \notin MembershipEvents => v = memberships[i].status
  <2>1. CASE e \in MembershipEvents
    <3>1. SetStatus(h, Verdict(e)) /\ Verdict(e) \in MembershipStatus
      BY <1>2, <2>1, EventWritten DEF TickInv
    <3> QED BY <1>2, <2>1, <3>1, StatusSet DEF TickInv
  <2>2. CASE e \in ChannelEvents /\ e \notin MembershipEvents
    <3>1. UNCHANGED memberships
      BY <1>2, <2>2, EventWritten DEF TickInv
    <3> QED BY <2>2, <3>1
  <2> QED BY <1>3, <2>1, <2>2
<1>5. c \in Councils /\ RowKnown(c) = ReadTo(c) /\ RowKnown(c)' = ReadTo(c)'
  BY <1>2, <1>4, RowsTyped DEF TickInv, RowKnown, RowOwed
<1>6. Learnt(log[c], MembershipEvents, "ACTIVE", ReadTo(c), memberships[i].status)
  BY <1>4, <1>5 DEF AskedInv
<1>7. CASE c # h
  BY <1>2, <1>4, <1>5, <1>6, <1>7
<1>8. CASE c = h /\ e \in MembershipEvents
  <2>1. v = Verdict(e) /\ Len(log[h]) \in Nat
    BY <1>2, <1>4, <1>8, ReachTyped
  <2>2. Learnt(log[h], MembershipEvents, "ACTIVE", Handled + 1, Verdict(e))
    BY <1>2, <1>8, <2>1, LearntAhead DEF e
  <2> QED BY <1>2, <1>5, <1>8, <2>1, <2>2
<1>9. CASE c = h /\ e \notin MembershipEvents
  <2>1. v = memberships[i].status /\ Len(log[h]) \in Nat /\ Handled \in Nat
    BY <1>2, <1>4, <1>9, ReachTyped
  <2>2. Learnt(log[h], MembershipEvents, "ACTIVE", Handled, v)
    BY <1>2, <1>6, <1>9, <2>1
  <2>3. Learnt(log[h], MembershipEvents, "ACTIVE", Handled + 1, v)
    BY <1>9, <2>1, <2>2, LearntNext DEF e
  <2> QED BY <1>2, <1>5, <1>9, <2>3
<1> QED BY <1>7, <1>8, <1>9

LEMMA RowKnowledgeNext ==
  ASSUME OnlyDowntime, TickInv, MemberInv, HistoryInv, AskedInv, [Next]_vars
  PROVE  RowKnowledge'
<1>1. ASSUME NEW i \in 1..Len(memberships'), NEW c, c = memberships'[i].council,
             NEW v, v = memberships'[i].status
      PROVE  Learnt(log'[c], MembershipEvents, "ACTIVE", RowKnown(c)', v)
  <2>1. CASE ApplyEvent
    BY <1>1, <2>1, RowApplied
  <2>2. CASE InsertRow
    BY <1>1, <2>2, RowInserted
  <2>3. CASE StoreMembership("boot")
    <3>1. i \in 1..Len(memberships) /\ c = memberships[i].council
      <4>1. PICK q : q = mbQueue["boot"]
        OBVIOUS
      <4> QED BY <1>1, <2>3, <4>1, BootStores
    <3> QED BY <1>1, <2>3, <3>1, RowStored
  <2>4. CASE AskMembership("boot")
    <3>1. UNCHANGED memberships
      BY <2>4 DEF AskMembership, tableVars
    <3> QED BY <1>1, <2>4, <3>1, RowAsked
  <2>5. CASE ~ApplyEvent /\ ~InsertRow /\ ~StoreMembership("boot") /\ ~AskMembership("boot")
    <3>1. UNCHANGED memberships
      <4>1. \A p \in Converging : ~StoreMembership(p)
        BY <2>5, GentleFaults, NoOperator DEF Converging, Memberships
      <4> QED BY <2>5, <4>1, GentleFaults, KnownNext, MemberParts
    <3>2. c \in Councils /\ HasRow(c)
      BY <1>1, <3>1, RowsTyped DEF TickInv, HasRow
    <3>3. RowKnown(c)' <= RowKnown(c)
      BY <2>5, <3>2, RowKnownNext
    <3>4. Learnt(log[c], MembershipEvents, "ACTIVE", RowKnown(c), v)
      BY <1>1, <3>1 DEF AskedInv
    <3> QED BY <2>5, <3>2, <3>3, <3>4, RowStays
  <2> QED BY <2>1, <2>2, <2>3, <2>4, <2>5
<1> QED BY <1>1 DEF RowKnowledge

LEMMA RowAnswerNext ==
  ASSUME OnlyDowntime, TickInv, MemberInv, AskedInv, [Next]_vars
  PROVE  RowAnswer'
<1> SUFFICES ASSUME mbAnswer'["boot"] # NoAnswer, NEW c, c = Head(mbQueue'["boot"]).council,
                    NEW v, v = mbAnswer'["boot"]
             PROVE  Learnt(log'[c], MembershipEvents, "ACTIVE", ReadTo(c)', v)
  BY DEF RowAnswer, ReadTo, Reach, Handled
<1> DEFINE q == mbQueue["boot"]
<1>1. "boot" \in Converging /\ ~Memberships("operator") /\ TickInv'
  BY GentleFaults, NoOperator, TickInvNext DEF Converging
<1>2. c \in Councils
  <2>1. mbQueue'["boot"] # <<>> /\ mbQueue'["boot"] \in Seq(Rows)
    BY <1>1 DEF TickInv, ConvergeInv, TypeOK
  <2>2. Head(mbQueue'["boot"]) \in Rows
    BY <2>1, Shortened
  <2> QED BY <2>2 DEF Rows
<1>3. CASE mbAnswer["boot"] # NoAnswer
  <2>1. q # <<>> /\ mbBusy["boot"] /\ wPc = "members"
    BY <1>1, <1>3 DEF TickInv, ConvergeInv
  <2>2. ~StoreMembership("boot") /\ ~Crash
    BY <1>1 DEF StoreMembership, Crash, NoAnswers, TickInv, TypeOK
  <2>3. /\ ~BeginMemberships("boot") /\ ~AskMembership("boot") /\ ~EndMemberships("boot")
        /\ ~BeginChannels /\ ~AskChannel /\ ~StoreChannel /\ ~EndChannels /\ ~Start
        /\ ~Tick /\ ~NextCouncil /\ ~EndTick /\ ~Fetch /\ ~Refetch /\ ~ApplyEvent /\ ~EndPage
        /\ \A d \in Councils : ~Forget(d)
    BY <1>3, <2>1, GentleFaults DEF BeginMemberships, AskMembership, EndMemberships, BeginChannels,
       AskChannel, StoreChannel, EndChannels, Start, Tick, NextCouncil, EndTick, Fetch, Refetch,
       ApplyEvent, EndPage, Forget, Asking, TickInv, ConvergeInv
  <2>4. (\E d \in Councils : Decide(d) \/ Join(d)) \/ InsertRow \/ UNCHANGED vars
    BY <1>1, <2>2, <2>3 DEF Next, Watch, Memberships
  <2>5. UNCHANGED <<mbQueue, mbAnswer>>
    BY <2>4 DEF Decide, Join, InsertRow, vars, mbVars
  <2>6. Waits /\ UNCHANGED first
    BY <2>4, Waiting
  <2>7. ReadTo(c)' = ReadTo(c)
    BY <2>6, ReadWaits
  <2>8. PICK hi : hi = ReadTo(c)
    OBVIOUS
  <2>9. Learnt(log[c], MembershipEvents, "ACTIVE", hi, v)
    BY <1>3, <2>5, <2>8 DEF AskedInv
  <2>10. hi \in Nat /\ hi <= Len(log[c]) + 1 /\ hi <= hi
    BY <1>2, <2>8, ReadTyped
  <2>11. Steady
    BY <2>3, SteadyNext
  <2> QED BY <1>2, <2>7, <2>8, <2>9, <2>10, <2>11, LearntStays
<1>4. CASE mbAnswer["boot"] = NoAnswer
  <2>1. AskMembership("boot")
    <3>1. mbAnswer' # mbAnswer
      BY <1>4
    <3>2. ~StoreMembership("boot")
      BY <1>4 DEF StoreMembership
    <3> QED BY <1>1, <3>1, <3>2 DEF Next, Watch, Memberships, Decide, Forget, Join, InsertRow,
       BeginMemberships, EndMemberships, BeginChannels, AskChannel, StoreChannel, EndChannels, Tick,
       NextCouncil, EndTick, Fetch, Refetch, ApplyEvent, EndPage, Crash, Start, NoAnswers, vars, mbVars
  <2>2. /\ mbAnswer' = [mbAnswer EXCEPT !["boot"] = CouncilSays(Head(q).council)]
        /\ UNCHANGED <<mbQueue, log>>
    BY <1>4, <2>1 DEF AskMembership, chainVars
  <2>3. v = CouncilSays(c)
    BY <1>1, <2>2 DEF TickInv, TypeOK
  <2> QED BY <1>2, <2>2, <2>3, RowAnswerLearnt DEF TickInv
<1> QED BY <1>3, <1>4

LEMMA AskedNext ==
  ASSUME OnlyDowntime
  PROVE  TickInv /\ MemberInv /\ HistoryInv /\ AskedInv /\ [Next]_vars => AskedInv'
<1> SUFFICES ASSUME TickInv, MemberInv, HistoryInv, AskedInv, [Next]_vars PROVE AskedInv'
  OBVIOUS
<1>1. \A c \in Councils : cursors'[c] > 0 => first'[c] <= cursors'[c]
  BY CursorsNext
<1>2. BootQueue' /\ RowKnowledge' /\ RowAnswer'
  BY BootQueueNext, RowKnowledgeNext, RowAnswerNext
<1> QED BY <1>1, <1>2 DEF AskedInv, BootQueue, RowKnowledge, RowAnswer

LEMMA AskedInit == Init => AskedInv
<1> SUFFICES ASSUME Init PROVE AskedInv
  OBVIOUS
<1>1. "boot" \in Converging
  BY DEF Converging
<1>2. 1..Len(memberships) = {} /\ 1..Len(mbQueue["boot"]) = {} /\ mbAnswer["boot"] = NoAnswer
  BY <1>1, NothingIn DEF Init, NoRows, NoAnswers
<1>3. \A c \in Councils : cursors[c] = 0
  BY DEF Init, NoCursors
<1> QED BY <1>2, <1>3 DEF AskedInv, Distinct

LEMMA AskedIsCaughtUp == TickInv /\ AskedInv => MembershipCaughtUp
<1> SUFFICES ASSUME TickInv, AskedInv, NEW c \in Councils, CaughtUp(c), NEW v \in StatusesOf(c)
             PROVE  (v = "ACTIVE") = Member(c)
  BY DEF MembershipCaughtUp
<1>1. RowKnown(c) = End(c)
  BY ReachTyped DEF CaughtUp, RowKnown, RowOwed, ReadTo, Reach, Handling
<1>2. PICK i \in 1..Len(memberships) : memberships[i].council = c /\ memberships[i].status = v
  BY DEF StatusesOf
<1>3. Learnt(log[c], MembershipEvents, "ACTIVE", End(c), v)
  BY <1>1, <1>2 DEF AskedInv
<1>4. /\ Member(c) <=> Verdict(Decided(c, MembershipEvents, "removed")) = "ACTIVE"
      /\ Verdict("removed") # "ACTIVE" /\ TypeOK
  BY MemberDecided DEF TickInv
<1>5. v = "ACTIVE" <=> Verdict(Decided(c, MembershipEvents, "removed")) = "ACTIVE"
  <2>1. ~Turns("removed", "ACTIVE")
    BY <1>4 DEF Turns
  <2>2. Agrees(v, Decided(c, MembershipEvents, "removed"), "ACTIVE")
    BY <1>3, <1>4, <2>1, LearntAll
  <2> QED BY <2>2 DEF Agrees, Turns
<1>6. Member(c) \in BOOLEAN
  BY DEF Member
<1> QED BY <1>4, <1>5, <1>6

\* The inductive invariant of the watcher: that of the tick, that of the rows where nobody
\* but the watcher and its boot writes them, and, where councils answer and queries do not
\* fail, what a convergence has learnt of what was gone before it could be read.
THEOREM WatcherInvariant == Spec => []WatcherInv
<1>1. Init => WatcherInv
  BY TickInvInit, MemberInvInit, AnsweredInit, AskedInit DEF WatcherInv
<1>2. WatcherInv /\ [Next]_vars => WatcherInv'
  <2> SUFFICES ASSUME WatcherInv, [Next]_vars PROVE WatcherInv'
    OBVIOUS
  <2>1. TickInv'
    BY TickInvNext DEF WatcherInv
  <2>2. OwnRows => MemberInv'
    BY MemberInvNext DEF WatcherInv
  <2>3. Answering => HistoryInv' /\ AnsweredInv'
    <3> SUFFICES ASSUME Answering PROVE HistoryInv' /\ AnsweredInv'
      OBVIOUS
    <3>1. Faults \cap {"db", "oldHistory"} = {} /\ TickInv /\ HistoryInv /\ AnsweredInv
      BY DEF Answering, WatcherInv
    <3> QED BY <3>1, HistoryNext, AnsweredNext
  <2>4. OnlyDowntime => AskedInv'
    BY AskedNext, GentleFaults DEF WatcherInv
  <2> QED BY <2>1, <2>2, <2>3, <2>4 DEF WatcherInv, OwnRows, Answering, OnlyDowntime
<1> QED BY <1>1, <1>2, PTL DEF Spec

\* No membership event below the cursor is lost on its way to the row, for every number of
\* councils, events and restarts, where the council's events are about this provider and
\* no operator writes behind the watcher's back.
THEOREM MembershipsFollow ==
  ASSUME Faults \cap {"others", "sync", "rejoin"} = {} PROVE Spec => []MembershipFollows
<1>1. WatcherInv => MembershipFollows
  BY InvariantsFollow DEF WatcherInv, OwnRows
<1> QED BY <1>1, WatcherInvariant, PTL

\* A watcher that read everything knows whether the channel is disabled, also when the
\* event that decided it was gone before it could be read: for every number of councils,
\* events, rows and restarts, where councils answer, queries do not fail and no history is
\* lost before the provider joins.
THEOREM ChannelsCaughtUp ==
  ASSUME Faults \cap {"db", "council", "oldHistory"} = {} PROVE Spec => []ChannelCaughtUp
<1>1. WatcherInv => ChannelCaughtUp
  BY AnsweredIsCaughtUp DEF WatcherInv, Answering
<1> QED BY <1>1, WatcherInvariant, PTL

\* A watcher that read everything knows whether the provider is a member, where events are
\* lost only while the process is down, and the one row of a council is about this provider.
THEOREM MembershipsCaughtUp ==
  ASSUME Faults \subseteq {"rpc", "downtime"} PROVE Spec => []MembershipCaughtUp
<1>1. WatcherInv => MembershipCaughtUp
  BY AskedIsCaughtUp DEF WatcherInv, OnlyDowntime
<1> QED BY <1>1, WatcherInvariant, PTL
===============================================================================
