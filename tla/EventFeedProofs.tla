---------------------------- MODULE EventFeedProofs ----------------------------
(***************************************************************************)
(* Theorems about EventFeed, for every number of subscribers, every size   *)
(* of ring and outbox, and every interval.                                 *)
(***************************************************************************)
EXTENDS EventFeed, SequenceTheorems, TLAPS

-----------------------------------------------------------------------------
(* Streams of frames in which every gap is announced *)

FrameKinds == {"EVENT", "LAGGED", "PING", "PONG", "NOTHING"}
Streams == Seq([kind : FrameKinds, pos : Nat])
Heard   == [last : Nat, noticed : BOOLEAN]

LEMMA Appending ==
  ASSUME NEW S, NEW s \in Seq(S), NEW e \in S
  PROVE  /\ Append(s, e) \in Seq(S) /\ Len(s) \in Nat /\ Len(Append(s, e)) = Len(s) + 1
         /\ \A i \in 1..Len(s) : Append(s, e)[i] = s[i]
         /\ Append(s, e)[Len(s) + 1] = e
BY AppendProperties, LenProperties

LEMMA Reading ==
  ASSUME NEW S, NEW s \in Seq(S), s # <<>>
  PROVE  /\ Tail(s) \in Seq(S) /\ Len(s) \in Nat /\ Len(s) >= 1 /\ Len(Tail(s)) = Len(s) - 1
         /\ Head(s) = s[1] /\ s[1] \in S
         /\ \A i \in 1..Len(s) - 1 : Tail(s)[i] = s[i + 1]
<1>1. Len(s) \in Nat /\ Len(s) # 0
  BY EmptySeq, LenProperties
<1>2. 1 \in 1..Len(s)
  BY <1>1
<1> QED BY <1>1, <1>2, HeadTailProperties, ElementOfSeq

LEMMA FramesTyped ==
  ASSUME NEW q \in Streams
  PROVE  Len(q) \in Nat /\ \A i \in 1..Len(q) : q[i] \in [kind : FrameKinds, pos : Nat] /\ q[i].pos \in Nat
<1>1. ASSUME NEW i \in 1..Len(q) PROVE q[i] \in [kind : FrameKinds, pos : Nat]
  BY ElementOfSeq DEF Streams
<1> QED BY <1>1, LenProperties DEF Streams

\* What the client knows once it has read a frame.
Knows(h, frame) ==
  CASE frame.kind = "EVENT"  -> HeardUpTo(frame.pos)
    [] frame.kind = "LAGGED" -> [h EXCEPT !.noticed = TRUE]
    [] OTHER                 -> h

\* What was announced stays so when the first frame is read.
LEMMA ToldTail ==
  ASSUME NEW q \in Streams, q # <<>>, NEW h \in Heard, Told(q, h)
  PROVE  Told(Tail(q), Knows(h, Head(q)))
<1> DEFINE t == Tail(q)
           g == Knows(h, Head(q))
           first == q[1]
<1>1. /\ t \in Streams /\ Len(q) \in Nat /\ Len(q) >= 1 /\ Len(t) = Len(q) - 1
      /\ Head(q) = first /\ first \in [kind : FrameKinds, pos : Nat]
      /\ \A i \in 1..Len(q) - 1 : t[i] = q[i + 1]
  BY Reading DEF Streams
<1>2. \A i \in 1..Len(q) : q[i].pos \in Nat
  BY FramesTyped
<1>3. /\ IsEvent(first) => g.last = first.pos /\ g.noticed = FALSE
      /\ ~IsEvent(first) => g.last = h.last
      /\ first.kind = "LAGGED" => g.noticed = TRUE
      /\ ~IsEvent(first) /\ h.noticed => g.noticed = TRUE
  BY <1>1 DEF Knows, HeardUpTo, IsEvent, Heard
<1> HIDE DEF t, g, first
<1> SUFFICES ASSUME NEW j \in 1..Len(t), IsEvent(t[j])
             PROVE  /\ t[j].pos > g.last
                    /\ \A i \in 1..j - 1 : IsEvent(t[i]) => t[i].pos < t[j].pos
                    /\ Announced(t, g, j)
  BY DEF Told, t, g
<1>4. j + 1 \in 1..Len(q) /\ t[j] = q[j + 1] /\ j \in Nat /\ j >= 1
  BY <1>1
<1>5. /\ q[j + 1].pos > h.last
      /\ \A i \in 1..j : IsEvent(q[i]) => q[i].pos < q[j + 1].pos
      /\ Announced(q, h, j + 1)
  BY <1>4 DEF Told
<1>6. \A i \in 1..j - 1 : t[i] = q[i + 1] /\ i + 1 \in 1..j
  BY <1>1, <1>4
<1>7. t[j].pos > g.last
  BY <1>1, <1>2, <1>3, <1>4, <1>5 DEF first
<1>8. \A i \in 1..j - 1 : IsEvent(t[i]) => t[i].pos < t[j].pos
  BY <1>4, <1>5, <1>6
<1>9. Announced(t, g, j)
  <2>1. CASE q[j + 1].pos = h.last + 1
    <3>1. CASE IsEvent(first)
      \* The first frame would lie between the two.
      <4>1. first.pos > h.last /\ first.pos < q[j + 1].pos
        BY <3>1, <1>1, <1>4, <1>5 DEF Told, first
      <4>2. first.pos \in Nat /\ h.last \in Nat
        BY <1>1 DEF Heard
      <4> QED BY <2>1, <4>1, <4>2
    <3>2. CASE ~IsEvent(first)
      BY <2>1, <3>2, <1>3, <1>4 DEF Announced
    <3> QED BY <3>1, <3>2
  <2>2. CASE h.noticed /\ NoEventIn(q, 1, j)
    <3>1. ~IsEvent(first)
      BY <2>2, <1>4 DEF NoEventIn, first
    <3>2. NoEventIn(t, 1, j - 1)
      BY <2>2, <1>6 DEF NoEventIn
    <3> QED BY <2>2, <3>1, <3>2, <1>3 DEF Announced
  <2>3. ASSUME NEW i \in 1..j, IsEvent(q[i]), q[j + 1].pos = q[i].pos + 1
        PROVE  Announced(t, g, j)
    <3>1. CASE i = 1
      BY <2>3, <3>1, <1>3, <1>4 DEF Announced, first
    <3>2. CASE i # 1
      <4>1. i - 1 \in 1..j - 1 /\ t[i - 1] = q[i]
        BY <3>2, <1>4, <1>6
      <4> QED BY <2>3, <4>1, <1>4 DEF Announced
    <3> QED BY <3>1, <3>2
  <2>4. ASSUME NEW k \in 1..j, q[k].kind = "LAGGED", NoEventIn(q, k + 1, j)
        PROVE  Announced(t, g, j)
    <3>1. CASE k = 1
      <4>1. NoEventIn(t, 1, j - 1)
        BY <2>4, <3>1, <1>6 DEF NoEventIn
      <4> QED BY <2>4, <3>1, <4>1, <1>3 DEF Announced, first
    <3>2. CASE k # 1
      <4>1. k - 1 \in 1..j - 1 /\ t[k - 1] = q[k] /\ (k - 1) + 1 = k
        BY <3>2, <1>4, <1>6
      <4>2. NoEventIn(t, k, j - 1)
        <5> SUFFICES ASSUME NEW m \in k..j - 1 PROVE ~IsEvent(t[m])
          BY DEF NoEventIn
        <5>1. m \in 1..j - 1 /\ m + 1 \in k + 1..j
          BY <1>4
        <5> QED BY <5>1, <2>4, <1>6 DEF NoEventIn
      <4> QED BY <2>4, <4>1, <4>2 DEF Announced
    <3> QED BY <3>1, <3>2
  <2>5. j + 1 - 1 = j
    BY <1>4
  <2> QED BY <1>5, <2>1, <2>2, <2>3, <2>4, <2>5 DEF Announced
<1> QED BY <1>7, <1>8, <1>9

\* Whether a frame was announced depends on it and on what comes before it.
LEMMA AnnouncedAgree ==
  ASSUME NEW q, NEW r, NEW h, NEW j \in Nat, j >= 1, \A i \in 1..j : q[i] = r[i], Announced(q, h, j)
  PROVE  Announced(r, h, j)
<1>1. j \in 1..j /\ \A i \in 1..j - 1 : i \in 1..j
  OBVIOUS
<1>2. \A k \in 1..j - 1 : \A m \in k + 1..j - 1 : m \in 1..j
  OBVIOUS
<1>3. CASE q[j].pos = h.last + 1
  BY <1>1, <1>3 DEF Announced
<1>4. CASE h.noticed /\ NoEventIn(q, 1, j - 1)
  BY <1>1, <1>4 DEF Announced, NoEventIn
<1>5. ASSUME NEW i \in 1..j - 1, IsEvent(q[i]), q[j].pos = q[i].pos + 1 PROVE Announced(r, h, j)
  BY <1>1, <1>5 DEF Announced
<1>6. ASSUME NEW k \in 1..j - 1, q[k].kind = "LAGGED", NoEventIn(q, k + 1, j - 1)
      PROVE  Announced(r, h, j)
  BY <1>1, <1>2, <1>6 DEF Announced, NoEventIn
<1> QED BY <1>3, <1>4, <1>5, <1>6 DEF Announced

LEMMA AnnouncedCases ==
  ASSUME NEW q, NEW h, NEW n \in Nat
  PROVE  Announced(q, h, n + 1) <=>
           \/ q[n + 1].pos = h.last + 1
           \/ h.noticed /\ NoEventIn(q, 1, n)
           \/ \E i \in 1..n : IsEvent(q[i]) /\ q[n + 1].pos = q[i].pos + 1
           \/ \E k \in 1..n : q[k].kind = "LAGGED" /\ NoEventIn(q, k + 1, n)
<1>1. n + 1 - 1 = n
  OBVIOUS
<1> QED BY <1>1 DEF Announced

LEMMA AnnouncedByEvent ==
  ASSUME NEW q, NEW h, NEW n \in Nat, NEW i \in 1..n, IsEvent(q[i]), q[n + 1].pos = q[i].pos + 1
  PROVE  Announced(q, h, n + 1)
BY AnnouncedCases

LEMMA EventTyped ==
  ASSUME NEW n \in Nat
  PROVE  Event(n) \in [kind : FrameKinds, pos : Nat] /\ IsEvent(Event(n)) /\ Event(n).pos = n
BY DEF Event, IsEvent, FrameKinds

LEMMA NoticeTyped ==
  /\ Frame("LAGGED") \in [kind : FrameKinds, pos : Nat] /\ ~IsEvent(Frame("LAGGED"))
  /\ Frame("LAGGED").kind = "LAGGED"
BY DEF Frame, IsEvent, FrameKinds

LEMMA ToldPrefix ==
  ASSUME NEW s \in Streams, NEW e \in [kind : FrameKinds, pos : Nat], NEW h, Told(Append(s, e), h)
  PROVE  Told(s, h)
<1> DEFINE q == Append(s, e)
<1>1. /\ Len(s) \in Nat /\ Len(q) = Len(s) + 1 /\ \A i \in 1..Len(s) : q[i] = s[i]
  BY Appending DEF Streams
<1> HIDE DEF q
<1> SUFFICES ASSUME NEW j \in 1..Len(s), IsEvent(s[j])
             PROVE  /\ s[j].pos > h.last
                    /\ \A i \in 1..j - 1 : IsEvent(s[i]) => s[i].pos < s[j].pos
                    /\ Announced(s, h, j)
  BY DEF Told
<1>2. j \in 1..Len(q) /\ q[j] = s[j] /\ j \in Nat /\ j >= 1 /\ \A i \in 1..j : q[i] = s[i]
  BY <1>1
<1>3. /\ q[j].pos > h.last
      /\ \A i \in 1..j - 1 : IsEvent(q[i]) => q[i].pos < q[j].pos
      /\ Announced(q, h, j)
  BY <1>2 DEF Told, q
<1>4. Announced(s, h, j)
  BY <1>2, <1>3, AnnouncedAgree
<1> QED BY <1>2, <1>3, <1>4

LEMMA ToldAppend ==
  ASSUME NEW s \in Streams, NEW e \in [kind : FrameKinds, pos : Nat], NEW h, Told(s, h),
         IsEvent(e) =>
           /\ e.pos > h.last
           /\ \A i \in 1..Len(s) : IsEvent(s[i]) => s[i].pos < e.pos
           /\ Announced(Append(s, e), h, Len(s) + 1)
  PROVE  Told(Append(s, e), h)
<1> DEFINE q == Append(s, e)
<1>1. /\ Len(s) \in Nat /\ Len(q) = Len(s) + 1 /\ \A i \in 1..Len(s) : q[i] = s[i]
      /\ q[Len(s) + 1] = e
  BY Appending DEF Streams
<1>2. IsEvent(e) => Announced(q, h, Len(s) + 1)
  OBVIOUS
<1> HIDE DEF q
<1> SUFFICES ASSUME NEW j \in 1..Len(q), IsEvent(q[j])
             PROVE  /\ q[j].pos > h.last
                    /\ \A i \in 1..j - 1 : IsEvent(q[i]) => q[i].pos < q[j].pos
                    /\ Announced(q, h, j)
  BY DEF Told, q
<1>3. CASE j = Len(s) + 1
  <2>1. j - 1 = Len(s) /\ q[j] = e
    BY <1>1, <1>3
  <2> QED BY <2>1, <1>1, <1>2, <1>3
<1>4. CASE j # Len(s) + 1
  <2>1. j \in 1..Len(s) /\ j \in Nat /\ j >= 1 /\ q[j] = s[j] /\ \A i \in 1..j : s[i] = q[i]
    BY <1>1, <1>4
  <2>2. /\ s[j].pos > h.last
        /\ \A i \in 1..j - 1 : IsEvent(s[i]) => s[i].pos < s[j].pos
        /\ Announced(s, h, j)
    BY <2>1 DEF Told
  <2>3. Announced(q, h, j)
    BY <2>1, <2>2, AnnouncedAgree
  <2> QED BY <2>1, <2>2, <2>3
<1> QED BY <1>3, <1>4

\* What the last of a stream that was told comes after.
LEMMA ToldLast ==
  ASSUME NEW s \in Streams, NEW e \in [kind : FrameKinds, pos : Nat], NEW h, IsEvent(e),
         Told(Append(s, e), h)
  PROVE  /\ e.pos > h.last
         /\ \A i \in 1..Len(s) : IsEvent(s[i]) => s[i].pos < e.pos
         /\ Announced(Append(s, e), h, Len(s) + 1)
<1>1. /\ Len(s) \in Nat /\ Len(Append(s, e)) = Len(s) + 1
      /\ \A i \in 1..Len(s) : Append(s, e)[i] = s[i]
      /\ Append(s, e)[Len(s) + 1] = e
  BY Appending DEF Streams
<1>2. Len(s) + 1 \in 1..Len(Append(s, e)) /\ Len(s) + 1 - 1 = Len(s)
  BY <1>1
<1> QED BY <1>1, <1>2 DEF Told

\* A frame that is no event may come between.
LEMMA ToldInsert ==
  ASSUME NEW s \in Streams, NEW e \in [kind : FrameKinds, pos : Nat],
         NEW f \in [kind : FrameKinds, pos : Nat], NEW h, IsEvent(e), ~IsEvent(f),
         Told(Append(s, e), h)
  PROVE  Told(Append(Append(s, f), e), h)
<1> DEFINE p == Append(s, e)
           r == Append(s, f)
           q == Append(r, e)
           n == Len(s)
<1>1. r \in Streams /\ Told(r, h)
  BY ToldPrefix, ToldAppend, Appending DEF Streams
<1>2. /\ n \in Nat /\ Len(r) = n + 1 /\ p[n + 1] = e /\ r[n + 1] = f
      /\ \A i \in 1..n : p[i] = s[i] /\ r[i] = s[i]
  BY Appending DEF Streams
<1>3. q[n + 2] = e /\ \A i \in 1..n + 1 : q[i] = r[i]
  <2>1. Len(r) + 1 = n + 2
    BY <1>2
  <2> QED BY <1>1, <1>2, <2>1, Appending DEF Streams
<1>4. /\ e.pos > h.last
      /\ \A i \in 1..n : IsEvent(s[i]) => s[i].pos < e.pos
      /\ Announced(p, h, n + 1)
  BY ToldLast
<1> HIDE DEF p, r, q, n
<1>5. Announced(q, h, (n + 1) + 1)
  <2>1. /\ n + 1 \in Nat /\ (n + 1) + 1 = n + 2 /\ \A i \in 1..n : i \in 1..n + 1 /\ q[i] = p[i]
        /\ q[n + 1] = f /\ q[(n + 1) + 1] = p[n + 1] /\ n + 1 \in 1..n + 1
    BY <1>2, <1>3
  <2>2. CASE q[(n + 1) + 1].pos = h.last + 1
    BY <2>1, <2>2, AnnouncedCases
  <2>3. CASE h.noticed /\ NoEventIn(p, 1, n)
    <3>1. NoEventIn(q, 1, n + 1)
      BY <2>1, <2>3, <1>2 DEF NoEventIn
    <3> QED BY <2>1, <2>3, <3>1, AnnouncedCases
  <2>4. ASSUME NEW i \in 1..n, IsEvent(p[i]), p[n + 1].pos = p[i].pos + 1
        PROVE  Announced(q, h, (n + 1) + 1)
    <3>1. /\ i \in 1..n + 1 /\ IsEvent(q[i])
          /\ q[(n + 1) + 1].pos = q[i].pos + 1
      BY <2>1, <2>4
    <3> QED BY <2>1, <3>1, AnnouncedByEvent
  <2>5. ASSUME NEW k \in 1..n, p[k].kind = "LAGGED", NoEventIn(p, k + 1, n)
        PROVE  Announced(q, h, (n + 1) + 1)
    <3>1. NoEventIn(q, k + 1, n + 1)
      <4> SUFFICES ASSUME NEW m \in k + 1..n + 1 PROVE ~IsEvent(q[m])
        BY DEF NoEventIn
      <4>1. CASE m = n + 1
        BY <4>1, <2>1
      <4>2. CASE m # n + 1
        <5>1. m \in 1..n /\ m \in k + 1..n
          BY <4>2, <1>2
        <5> QED BY <5>1, <2>1, <2>5 DEF NoEventIn
      <4> QED BY <4>1, <4>2
    <3> QED BY <3>1, <2>1, <2>5, AnnouncedCases
  <2>6. \/ p[n + 1].pos = h.last + 1
        \/ h.noticed /\ NoEventIn(p, 1, n)
        \/ \E i \in 1..n : IsEvent(p[i]) /\ p[n + 1].pos = p[i].pos + 1
        \/ \E k \in 1..n : p[k].kind = "LAGGED" /\ NoEventIn(p, k + 1, n)
    BY <1>2, <1>4, AnnouncedCases
  <2> QED BY <2>1, <2>2, <2>3, <2>4, <2>5, <2>6
<1>6. \A i \in 1..Len(r) : IsEvent(r[i]) => r[i].pos < e.pos
  <2> SUFFICES ASSUME NEW i \in 1..Len(r), IsEvent(r[i]) PROVE r[i].pos < e.pos
    OBVIOUS
  <2>1. i \in 1..n
    BY <1>2
  <2> QED BY <2>1, <1>2, <1>4
<1>7. Announced(Append(r, e), h, Len(r) + 1)
  <2>1. Len(r) + 1 = (n + 1) + 1
    BY <1>2
  <2> QED BY <2>1, <1>5 DEF q
<1>8. Told(Append(r, e), h)
  BY <1>1, <1>4, <1>6, <1>7, ToldAppend
<1> QED BY <1>8 DEF r

\* The next event comes right after the one before it.
LEMMA ToldNext ==
  ASSUME NEW s \in Streams, NEW n \in Nat, NEW h \in Heard, Told(Append(s, Event(n)), h)
  PROVE  Told(Append(Append(s, Event(n)), Event(n + 1)), h)
<1> DEFINE e == Event(n)
           f == Event(n + 1)
           r == Append(s, e)
           q == Append(r, f)
           len == Len(s) + 1
<1>1. /\ e \in [kind : FrameKinds, pos : Nat] /\ IsEvent(e) /\ e.pos = n
      /\ f \in [kind : FrameKinds, pos : Nat] /\ IsEvent(f) /\ f.pos = n + 1
  BY EventTyped
<1> HIDE DEF e, f
<1>2. r \in Streams /\ len \in Nat /\ Len(r) = len /\ r[len] = e /\ \A i \in 1..Len(s) : r[i] = s[i]
  BY <1>1, Appending DEF Streams
<1>3. q[len + 1] = f /\ q[len] = e /\ len \in 1..len
  <2>1. Len(s) \in Nat /\ len \in 1..len
    BY LenProperties DEF Streams
  <2> QED BY <2>1, <1>1, <1>2, Appending DEF Streams
<1>4. n > h.last /\ \A i \in 1..Len(s) : IsEvent(s[i]) => s[i].pos < n
  BY <1>1, ToldLast DEF e
<1>5. h.last \in Nat /\ \A i \in 1..Len(s) : s[i].pos \in Nat
  BY FramesTyped DEF Heard
<1> HIDE DEF r, q
<1>6. Announced(q, h, len + 1)
  <2>1. len \in 1..len /\ IsEvent(q[len]) /\ q[len + 1].pos = q[len].pos + 1
    BY <1>1, <1>3
  <2> QED BY <2>1, <1>2, AnnouncedByEvent
<1>7. \A i \in 1..Len(r) : IsEvent(r[i]) => r[i].pos < f.pos
  <2> SUFFICES ASSUME NEW i \in 1..Len(r), IsEvent(r[i]) PROVE r[i].pos < f.pos
    OBVIOUS
  <2>1. CASE i = len
    BY <2>1, <1>1, <1>2
  <2>2. CASE i # len
    <3>1. i \in 1..Len(s)
      BY <2>2, <1>2, FramesTyped
    <3> QED BY <3>1, <1>1, <1>2, <1>4, <1>5
  <2> QED BY <2>1, <2>2
<1>8. f.pos > h.last
  BY <1>1, <1>4, <1>5
<1>9. Announced(Append(r, f), h, Len(r) + 1)
  BY <1>2, <1>6 DEF q
<1> QED BY <1>1, <1>2, <1>7, <1>8, <1>9, ToldAppend DEF r, e, f

\* After a notice the events may go on anywhere further on.
LEMMA ToldLagged ==
  ASSUME NEW s \in Streams, NEW n \in Nat, NEW m \in Nat, n <= m, NEW h \in Heard,
         Told(Append(s, Event(n)), h)
  PROVE  Told(Append(Append(s, Frame("LAGGED")), Event(m)), h)
<1> DEFINE e == Event(n)
           f == Event(m)
           l == Frame("LAGGED")
           r == Append(s, l)
           q == Append(r, f)
           len == Len(s) + 1
<1>1. /\ e \in [kind : FrameKinds, pos : Nat] /\ IsEvent(e) /\ e.pos = n
      /\ f \in [kind : FrameKinds, pos : Nat] /\ IsEvent(f) /\ f.pos = m
      /\ l \in [kind : FrameKinds, pos : Nat] /\ ~IsEvent(l) /\ l.kind = "LAGGED"
  BY EventTyped, NoticeTyped
<1> HIDE DEF e, f, l
<1>2. r \in Streams /\ len \in Nat /\ Len(r) = len /\ r[len] = l /\ \A i \in 1..Len(s) : r[i] = s[i]
  BY <1>1, Appending DEF Streams
<1>3. q[len] = l /\ len \in 1..len
  <2>1. Len(s) \in Nat /\ len \in 1..len
    BY LenProperties DEF Streams
  <2> QED BY <2>1, <1>1, <1>2, Appending DEF Streams
<1>4. n > h.last /\ \A i \in 1..Len(s) : IsEvent(s[i]) => s[i].pos < n
  BY <1>1, ToldLast DEF e
<1>5. h.last \in Nat /\ \A i \in 1..Len(s) : s[i].pos \in Nat
  BY FramesTyped DEF Heard
<1>6. Told(r, h)
  <2>1. Told(s, h)
    BY <1>1, ToldPrefix DEF e
  <2> QED BY <2>1, <1>1, ToldAppend
<1> HIDE DEF r, q
<1>7. Announced(q, h, len + 1)
  <2>1. NoEventIn(q, len + 1, len)
    BY <1>2 DEF NoEventIn
  <2> QED BY <2>1, <1>1, <1>2, <1>3, AnnouncedCases
<1>8. \A i \in 1..Len(r) : IsEvent(r[i]) => r[i].pos < f.pos
  <2> SUFFICES ASSUME NEW i \in 1..Len(r), IsEvent(r[i]) PROVE r[i].pos < f.pos
    OBVIOUS
  <2>1. i # len
    BY <1>1, <1>2
  <2>2. i \in 1..Len(s)
    BY <2>1, <1>2, FramesTyped
  <2> QED BY <2>2, <1>1, <1>2, <1>4, <1>5
<1>9. f.pos > h.last
  BY <1>1, <1>4, <1>5
<1>10. Announced(Append(r, f), h, Len(r) + 1)
  BY <1>2, <1>7 DEF q
<1> QED BY <1>1, <1>2, <1>6, <1>8, <1>9, <1>10, ToldAppend DEF r, f, l

LEMMA ToldEmpty == ASSUME NEW h PROVE Told(<<>>, h)
BY DEF Told

\* A subscription starts with the next event.
LEMMA ToldStart ==
  ASSUME NEW n \in Nat
  PROVE  Told(Append(<<>>, Event(n + 1)), HeardUpTo(n))
<1> DEFINE e == Event(n + 1)
           h == HeardUpTo(n)
<1>1. e \in [kind : FrameKinds, pos : Nat] /\ e.pos = n + 1 /\ h.last = n /\ IsEvent(e)
  BY EventTyped DEF HeardUpTo
<1>2. <<>> \in Streams /\ Len(<<>>) = 0
  BY DEF Streams
<1>3. Append(<<>>, e)[0 + 1] = e
  BY <1>1, <1>2, Appending DEF Streams
<1> HIDE DEF e, h
<1>4. Announced(Append(<<>>, e), h, 0 + 1)
  BY <1>1, <1>3, AnnouncedCases
<1>5. Told(Append(<<>>, e), h)
  <2>1. Announced(Append(<<>>, e), h, Len(<<>>) + 1) /\ e.pos > h.last
    BY <1>1, <1>2, <1>4
  <2>2. \A i \in 1..Len(<<>>) : IsEvent(<<>>[i]) => <<>>[i].pos < e.pos
    BY <1>2
  <2> QED BY <2>1, <2>2, <1>1, <1>2, ToldEmpty, ToldAppend
<1> QED BY <1>5 DEF e, h

-----------------------------------------------------------------------------
(* Types *)

LEMMA NextBeatBounds ==
  ASSUME NEW beat \in Nat, clock \in Nat, beat <= clock
  PROVE  /\ NextBeat(beat) \in Nat /\ NextBeat(beat) > clock
         /\ NextBeat(beat) <= clock + HeartbeatInterval
         /\ beat = clock => NextBeat(beat) = clock + HeartbeatInterval
<1> DEFINE q == (clock - beat) \div HeartbeatInterval
<1>1. HeartbeatInterval \in Nat \ {0} /\ clock - beat \in Nat
  BY FeedAssumption
<1>2. q \in Nat /\ q * HeartbeatInterval <= clock - beat
      /\ clock - beat < q * HeartbeatInterval + HeartbeatInterval
  BY <1>1
<1>3. (q + 1) * HeartbeatInterval = q * HeartbeatInterval + HeartbeatInterval
  BY <1>1, <1>2
<1>4. q * HeartbeatInterval \in Nat
  BY <1>1, <1>2
<1>5. NextBeat(beat) = beat + (q + 1) * HeartbeatInterval
  BY DEF NextBeat
<1>6. beat = clock => q = 0
  BY <1>1
<1> HIDE DEF q
<1>7. beat = clock => q * HeartbeatInterval = 0
  BY <1>1, <1>6
<1> QED BY <1>1, <1>3, <1>4, <1>5, <1>2, <1>7

AFrame == [kind : FrameKinds, pos : Nat]

LEMMA FramesAre == Frames \subseteq AFrame /\ Nothing \in AFrame
BY FeedAssumption DEF Frames, AFrame, Frame, Event, Nothing, FrameKinds

LEMMA FeedTypes ==
  ASSUME TypeOK, NEW c \in Clients
  PROVE  /\ outbox[c] \in Streams /\ outbox[c] \in Seq(Frames) /\ heard[c] \in Heard
         /\ inbox[c] \in Seq(Spoken)
         /\ session[c].hand \in AFrame /\ session[c].hand \in Frames \cup {Nothing}
         /\ session[c].next \in Nat /\ session[c].next >= 1 /\ session[c].next <= sent + 1
         /\ session[c].beat \in Nat /\ session[c].seen \in 0..clock
         /\ session[c].at \in {"NONE", "SELECT", "SEND", "IDLED", "CLOSED"}
         /\ spoke[c] \in 0..clock /\ clock \in Nat /\ sent \in Nat /\ sent <= MaxEvents
         /\ slack[c] \subseteq {"SILENT", "HELD"}
<1>1. clock \in Nat /\ sent \in Nat /\ sent <= MaxEvents /\ MaxEvents \in Nat /\ HeartbeatInterval \in Nat
  BY FeedAssumption DEF TypeOK
<1>2. outbox[c] \in Seq(Frames) /\ inbox[c] \in Seq(Spoken)
  BY DEF TypeOK
<1>3. outbox[c] \in Streams
  BY <1>2, FramesAre, SeqMonotonic DEF Streams, AFrame
<1>4. session[c] \in [at : {"NONE", "SELECT", "SEND", "IDLED", "CLOSED"},
                      next : 1..(sent + 1), beat : 0..(clock + HeartbeatInterval),
                      seen : 0..clock, hand : Frames \cup {Nothing}]
  BY DEF TypeOK
<1>5. /\ session[c].next \in 1..(sent + 1) /\ session[c].beat \in 0..(clock + HeartbeatInterval)
      /\ session[c].seen \in 0..clock /\ session[c].hand \in Frames \cup {Nothing}
      /\ session[c].at \in {"NONE", "SELECT", "SEND", "IDLED", "CLOSED"}
  BY <1>4
<1>6. session[c].hand \in AFrame
  BY <1>5, FramesAre
<1>7. heard[c] \in Heard /\ spoke[c] \in 0..clock /\ slack[c] \subseteq {"SILENT", "HELD"}
  BY <1>1 DEF TypeOK, Heard
<1> QED BY <1>1, <1>2, <1>3, <1>5, <1>6, <1>7

-----------------------------------------------------------------------------
(* The inductive invariant *)

\* A client that a step leaves alone keeps its part of the invariant.
LEMMA OthersKept ==
  ASSUME TypeOK, NEW d \in Clients, StreamInv(d), TimeInv(d),
         session'[d] = session[d], outbox'[d] = outbox[d], inbox'[d] = inbox[d],
         gone'[d] = gone[d], heard'[d] = heard[d], spoke'[d] = spoke[d], slack'[d] = slack[d],
         clock' = clock, sent' \in Nat, sent <= sent'
  PROVE  StreamInv(d)' /\ TimeInv(d)'
<1>1. StreamInv(d)'
  <2>1. IsOpen(d)' = IsOpen(d) /\ Ahead(d)' = Ahead(d)
    BY DEF IsOpen, Ahead
  <2>2. IsEvent(session[d].hand) => session[d].hand.pos <= sent'
    BY FeedTypes DEF StreamInv, AFrame
  <2>3. \A i \in 1..Len(outbox[d]) : IsEvent(outbox[d][i]) => outbox[d][i].pos <= sent'
    BY FeedTypes, FramesTyped DEF StreamInv
  <2> QED BY <2>1, <2>2, <2>3 DEF StreamInv
<1>2. TimeInv(d)'
  BY DEF TimeInv, IsOpen, SpokenInv, BeatInv, Pinging
<1> QED BY <1>1, <1>2

LEMMA FeedInvInit == Init => FeedInv
<1> SUFFICES ASSUME Init PROVE FeedInv
  OBVIOUS
<1>1. {RingCap, OutboxCap, HeartbeatInterval, IdleTimeout, MaxEvents, MaxClock, MaxConnects} \subseteq Nat
      /\ IdleTimeout # 0
  BY FeedAssumption
<1>2. TypeOK
  BY <1>1 DEF Init, TypeOK, NoSession, HeardUpTo
<1>3. ASSUME NEW c \in Clients PROVE StreamInv(c) /\ TimeInv(c)
  <2>1. /\ session[c] = NoSession /\ outbox[c] = <<>> /\ inbox[c] = <<>> /\ clock = 0 /\ spoke[c] = 0
        /\ slack[c] = {}
    BY <1>3 DEF Init
  <2>2. ~IsOpen(c) /\ ~IsEvent(session[c].hand) /\ session[c].at \notin {"IDLED", "SEND"} /\ Len(<<>>) = 0
    BY <2>1 DEF IsOpen, NoSession, IsEvent, Nothing, Frame
  <2>3. StreamInv(c)
    BY <2>1, <2>2, ToldEmpty DEF StreamInv
  <2>4. TimeInv(c)
    BY <2>1, <2>2, <1>1 DEF TimeInv
  <2> QED BY <2>3, <2>4
<1> QED BY <1>2, <1>3 DEF FeedInv

LEMMA SendKeeps == FeedInv /\ Send => FeedInv'
<1> SUFFICES ASSUME FeedInv, Send PROVE FeedInv'
  OBVIOUS
<1>1. /\ sent < MaxEvents /\ sent' = sent + 1
      /\ UNCHANGED <<clock, session, outbox, inbox, gone, connects, heard, spoke, slack>>
  BY DEF Send, wire, past
<1>2. sent \in 0..MaxEvents /\ MaxEvents \in Nat
  BY FeedAssumption DEF FeedInv, TypeOK
<1>3. TypeOK'
  BY <1>1, <1>2 DEF FeedInv, TypeOK
<1>4. sent' \in Nat /\ sent <= sent'
  BY <1>1, <1>2
<1>5. \A d \in Clients : StreamInv(d)' /\ TimeInv(d)'
  BY <1>1, <1>4, OthersKept DEF FeedInv
<1> QED BY <1>3, <1>5 DEF FeedInv

LEMMA TickKeeps == FeedInv /\ Tick => FeedInv'
<1> SUFFICES ASSUME FeedInv, Tick PROVE FeedInv'
  OBVIOUS
<1>1. /\ clock < MaxClock /\ clock' = clock + 1 /\ \A c \in Clients : IsWaiting(c)
      /\ UNCHANGED <<sent, session, outbox, inbox, gone, connects, heard, spoke>>
  BY DEF Tick, wire
<1>2. ASSUME NEW c \in Clients
      PROVE  /\ slack'[c] \subseteq {"SILENT", "HELD"} /\ slack[c] \subseteq slack'[c]
             /\ session[c].at = "SEND" => "HELD" \in slack'[c]
             /\ clock + 1 - spoke[c] >= IdleTimeout => "SILENT" \in slack'[c]
  BY FeedTypes DEF Tick, FeedInv
<1>3. clock \in Nat /\ MaxClock \in Nat /\ HeartbeatInterval \in Nat
      /\ IdleTimeout \in Nat
  BY FeedAssumption DEF FeedInv, TypeOK
<1>4. TypeOK'
  <2>1. slack' \in [Clients -> SUBSET {"SILENT", "HELD"}]
    BY <1>2 DEF Tick
  <2>2. /\ 0..clock \subseteq 0..clock'
        /\ 0..(clock + HeartbeatInterval) \subseteq 0..(clock' + HeartbeatInterval)
        /\ clock' \in 0..MaxClock
    BY <1>1, <1>3 DEF FeedInv, TypeOK
  <2>3. session' \in [Clients -> [at : {"NONE", "SELECT", "SEND", "IDLED", "CLOSED"},
                              next : 1..(sent + 1), beat : 0..(clock' + HeartbeatInterval),
                              seen : 0..clock', hand : Frames \cup {Nothing}]]
    BY <1>1, <2>2 DEF FeedInv, TypeOK
  <2>4. spoke' \in [Clients -> 0..clock']
    BY <1>1, <2>2 DEF FeedInv, TypeOK
  <2> QED BY <1>1, <2>1, <2>2, <2>3, <2>4 DEF FeedInv, TypeOK
<1>5. ASSUME NEW c \in Clients PROVE StreamInv(c)' /\ TimeInv(c)'
  <2>1. StreamInv(c)'
    BY <1>1 DEF FeedInv, StreamInv, Ahead, IsOpen
  <2>2. /\ session[c].seen \in 0..clock /\ spoke[c] \in 0..clock /\ session[c].beat \in Nat
        /\ session'[c] = session[c] /\ spoke'[c] = spoke[c] /\ inbox'[c] = inbox[c]
    BY <1>1, FeedTypes DEF FeedInv
  <2>6. clock' - spoke'[c] >= IdleTimeout => "SILENT" \in slack'[c]
    <3>1. /\ clock' = clock + 1 /\ spoke'[c] = spoke[c]
          /\ clock + 1 - spoke[c] >= IdleTimeout => "SILENT" \in slack'[c]
      BY <2>2, <1>1, <1>2
    <3> QED BY ONLY <3>1, <2>2, <1>3
  <2>3. CASE session[c].at = "SELECT"
    <3>1. ~(session[c].beat <= clock) /\ inbox[c] = <<>>
      BY <1>1, <2>3 DEF IsWaiting, Selecting, IsDue
    <3>2. "HELD" \notin slack[c] => SpokenInv(c) /\ BeatInv(c)
      BY <2>3 DEF FeedInv, TimeInv, IsOpen
    <3>3. "HELD" \notin slack'[c] => SpokenInv(c)'
      BY <3>1, <3>2, <2>2, <1>1, <1>2 DEF SpokenInv
    <3>4. "HELD" \notin slack'[c] => BeatInv(c)'
      BY <3>1, <3>2, <2>2, <2>3, <1>1, <1>2, <1>3 DEF BeatInv, Pinging
    <3>5. slack'[c] = {} => clock + 1 - session[c].seen < IdleTimeout
      <4> SUFFICES ASSUME slack'[c] = {} PROVE clock + 1 - session[c].seen < IdleTimeout
        OBVIOUS
      <4>1. spoke[c] <= session[c].seen
        BY <3>1, <3>2, <1>2 DEF SpokenInv
      <4>2. ~(clock + 1 - spoke[c] >= IdleTimeout)
        BY <1>2
      <4> QED BY <4>1, <4>2, <2>2, <1>3
    <3>6. IsOpen(c)' /\ slack'[c] = {} => clock' - session'[c].seen < IdleTimeout
      <4>1. clock' = clock + 1 /\ session'[c] = session[c]
        BY <2>2, <1>1
      <4> QED BY ONLY <4>1, <3>5, <2>2, <1>3
    <3>7. session'[c].at # "IDLED"
      BY <2>2, <2>3
    <3>8. TimeInv(c)'
      BY <2>6, <3>3, <3>4, <3>6, <3>7 DEF TimeInv
    <3> QED BY <2>1, <3>8
  <2>4. CASE session[c].at = "SEND"
    <3>1. session'[c].at # "IDLED" /\ "HELD" \in slack'[c]
      BY <2>2, <2>4, <1>2
    <3>2. TimeInv(c)'
      BY <2>6, <3>1 DEF TimeInv
    <3> QED BY <2>1, <3>2
  <2>5. CASE session[c].at \notin {"SELECT", "SEND"}
    <3>1. session[c].at = "IDLED" => slack[c] # {}
      BY DEF FeedInv, TimeInv
    <3>2. ~IsOpen(c)' /\ (session'[c].at = "IDLED" => slack'[c] # {})
      BY <3>1, <2>2, <2>5, <1>2 DEF IsOpen
    <3>3. TimeInv(c)'
      BY <2>6, <3>2 DEF TimeInv
    <3> QED BY <2>1, <3>3
  <2> QED BY <2>3, <2>4, <2>5
<1> QED BY <1>4, <1>5 DEF FeedInv

\* A step of one client or its session keeps the invariant when it keeps that client's part.
LEMMA OneMoves ==
  ASSUME FeedInv, NEW c \in Clients, UNCHANGED <<clock, sent>>, TypeOK', StreamInv(c)', TimeInv(c)',
         \A d \in Clients : d # c =>
           /\ session'[d] = session[d] /\ outbox'[d] = outbox[d] /\ inbox'[d] = inbox[d]
           /\ gone'[d] = gone[d] /\ heard'[d] = heard[d] /\ spoke'[d] = spoke[d]
           /\ slack'[d] = slack[d]
  PROVE  FeedInv'
<1>1. sent' \in Nat /\ sent <= sent' /\ clock' = clock
  BY FeedAssumption DEF FeedInv, TypeOK
<1>2. ASSUME NEW d \in Clients, d # c PROVE StreamInv(d)' /\ TimeInv(d)'
  BY <1>1, <1>2, OthersKept DEF FeedInv
<1> QED BY <1>2 DEF FeedInv

SessionType ==
  [at : {"NONE", "SELECT", "SEND", "IDLED", "CLOSED"}, next : 1..(sent + 1),
   beat : 0..(clock + HeartbeatInterval), seen : 0..clock, hand : Frames \cup {Nothing}]

LEMMA SessionTyped == ASSUME TypeOK, NEW c \in Clients PROVE session[c] \in SessionType
BY DEF TypeOK, SessionType

\* A step that writes the session and nothing else.
LEMMA SessionMoves ==
  ASSUME FeedInv, NEW c \in Clients, NEW s \in SessionType, session' = [session EXCEPT ![c] = s],
         UNCHANGED <<clock, sent, outbox, inbox, gone, connects, heard, spoke, slack>>,
         StreamInv(c)', TimeInv(c)'
  PROVE  FeedInv'
<1>1. TypeOK'
  BY DEF FeedInv, TypeOK, SessionType
<1>2. \A d \in Clients : d # c => session'[d] = session[d]
  BY DEF FeedInv, TypeOK
<1> QED BY <1>1, <1>2, OneMoves

LEMMA ConnectKeeps ==
  ASSUME FeedInv, NEW c \in Clients, Connect(c)
  PROVE  FeedInv'
<1> DEFINE s == [at |-> "SELECT", next |-> sent + 1, beat |-> clock + HeartbeatInterval,
                 seen |-> clock, hand |-> Nothing]
<1>1. /\ connects[c] < MaxConnects /\ connects' = [connects EXCEPT ![c] = @ + 1]
      /\ session' = [session EXCEPT ![c] = s]
      /\ outbox' = [outbox EXCEPT ![c] = <<>>] /\ inbox' = [inbox EXCEPT ![c] = <<>>]
      /\ gone' = [gone EXCEPT ![c] = FALSE]
      /\ heard' = [heard EXCEPT ![c] = HeardUpTo(sent)]
      /\ spoke' = [spoke EXCEPT ![c] = clock] /\ slack' = [slack EXCEPT ![c] = {}]
      /\ UNCHANGED <<clock, sent>>
  BY DEF Connect
<1>2. /\ clock \in Nat /\ sent \in Nat /\ HeartbeatInterval \in Nat /\ MaxConnects \in Nat
      /\ IdleTimeout \in Nat /\ IdleTimeout # 0
  BY FeedAssumption DEF FeedInv, TypeOK
<1>3. s \in SessionType
  BY <1>2 DEF SessionType
<1>4. HeardUpTo(sent) \in [last : 0..sent, noticed : BOOLEAN]
  BY <1>2 DEF HeardUpTo
<1>5. /\ session'[c] = s /\ outbox'[c] = <<>> /\ inbox'[c] = <<>> /\ gone'[c] = FALSE
      /\ heard'[c] = HeardUpTo(sent) /\ spoke'[c] = clock /\ slack'[c] = {}
      /\ \A d \in Clients : d # c =>
           /\ session'[d] = session[d] /\ outbox'[d] = outbox[d] /\ inbox'[d] = inbox[d]
           /\ gone'[d] = gone[d] /\ heard'[d] = heard[d] /\ spoke'[d] = spoke[d]
           /\ slack'[d] = slack[d]
  BY <1>1 DEF FeedInv, TypeOK
<1>6. TypeOK'
  <2>1. session' \in [Clients -> SessionType]
    BY <1>1, <1>3 DEF FeedInv, TypeOK, SessionType
  <2>2. outbox' \in [Clients -> Seq(Frames)] /\ inbox' \in [Clients -> Seq(Spoken)]
    BY <1>1 DEF FeedInv, TypeOK
  <2>3. \A d \in Clients : Len(outbox'[d]) <= OutboxCap
    <3>1. Len(<<>>) = 0 /\ OutboxCap \in Nat
      BY FeedAssumption
    <3>2. \A d \in Clients : Len(outbox[d]) <= OutboxCap
      BY DEF FeedInv, TypeOK
    <3> QED BY <3>1, <3>2, <1>5
  <2>4. connects' \in [Clients -> 0..MaxConnects]
    BY <1>1, <1>2, SMTT(30) DEF FeedInv, TypeOK
  <2>5. /\ gone' \in [Clients -> BOOLEAN] /\ slack' \in [Clients -> SUBSET {"SILENT", "HELD"}]
        /\ spoke' \in [Clients -> 0..clock]
        /\ heard' \in [Clients -> [last : 0..sent, noticed : BOOLEAN]]
    BY <1>1, <1>2, <1>4, SMTT(30) DEF FeedInv, TypeOK
  <2> QED BY <1>1, <2>1, <2>2, <2>3, <2>4, <2>5 DEF FeedInv, TypeOK, SessionType
<1>7. StreamInv(c)'
  <2>1. Ahead(c)' = Append(<<>>, Event(sent + 1))
    BY <1>5 DEF Ahead
  <2>2. Told(<<>>, HeardUpTo(sent)) /\ Told(Append(<<>>, Event(sent + 1)), HeardUpTo(sent))
    BY <1>2, ToldEmpty, ToldStart
  <2>3. Len(<<>>) = 0 /\ ~IsEvent(Nothing)
    BY DEF IsEvent, Nothing, Frame
  <2> QED BY <2>1, <2>2, <2>3, <1>5 DEF StreamInv
<1>8. TimeInv(c)'
  <2>1. /\ session'[c].at = "SELECT" /\ session'[c].beat = clock + HeartbeatInterval
        /\ session'[c].seen = clock
    BY <1>5
  <2>2. SpokenInv(c)'
    <3>1. Len(<<>>) = 0
      OBVIOUS
    <3> QED BY <3>1, <2>1, <1>1, <1>2, <1>5 DEF SpokenInv
  <2>3. BeatInv(c)'
    BY <2>1, <1>1, <1>2 DEF BeatInv, Pinging
  <2>4. ~(clock' - spoke'[c] >= IdleTimeout) /\ clock' - session'[c].seen < IdleTimeout
    BY <2>1, <1>1, <1>2, <1>5
  <2> QED BY <2>1, <2>2, <2>3, <2>4 DEF TimeInv
<1> QED BY <1>1, <1>5, <1>6, <1>7, <1>8, OneMoves

LEMMA WritingTyped ==
  ASSUME NEW s \in SessionType, NEW frame \in Frames
  PROVE  /\ Writing(s, frame) \in SessionType
         /\ Writing(s, frame).at = "SEND" /\ Writing(s, frame).hand = frame
         /\ Writing(s, frame).next = s.next /\ Writing(s, frame).beat = s.beat
         /\ Writing(s, frame).seen = s.seen
BY DEF Writing, SessionType

LEMMA RestingTyped ==
  ASSUME NEW s \in SessionType
  PROVE  /\ Resting(s) \in SessionType
         /\ Resting(s).at = "SELECT" /\ Resting(s).hand = Nothing
         /\ Resting(s).next = s.next /\ Resting(s).beat = s.beat /\ Resting(s).seen = s.seen
BY DEF Resting, SessionType

LEMMA FrameIs ==
  ASSUME NEW k \in {"PING", "PONG", "LAGGED"}
  PROVE  /\ Frame(k) \in Frames /\ Frame(k).kind = k /\ ~IsEvent(Frame(k)) /\ Frame(k) \in AFrame
         /\ Frame(k) # Nothing
BY FramesAre DEF Frames, Frame, IsEvent, Nothing

LEMMA HeartbeatKeeps ==
  ASSUME FeedInv, NEW c \in Clients, Heartbeat(c)
  PROVE  FeedInv'
<1> DEFINE s == Writing([session[c] EXCEPT !.beat = NextBeat(session[c].beat)], Frame("PING"))
<1>1. /\ session[c].at = "SELECT" /\ session[c].beat <= clock
      /\ session' = [session EXCEPT ![c] = s]
      /\ UNCHANGED <<clock, sent, outbox, inbox, gone, connects, heard, spoke, slack>>
  <2>1. session' = [session EXCEPT ![c] = s]
    BY Zenon DEF Heartbeat
  <2>2. /\ session[c].at = "SELECT" /\ session[c].beat <= clock
        /\ UNCHANGED <<clock, sent, outbox, inbox, gone, connects, heard, spoke, slack>>
    BY DEF Heartbeat, Selecting, IsDue, wire, past
  <2> QED BY <2>1, <2>2
<1>2. TypeOK /\ StreamInv(c) /\ TimeInv(c)
  BY DEF FeedInv
<1>3. clock \in Nat /\ session[c].beat \in Nat /\ session[c].seen \in 0..clock
  BY <1>2, FeedTypes
<1>4. /\ NextBeat(session[c].beat) \in Nat /\ NextBeat(session[c].beat) > clock
      /\ NextBeat(session[c].beat) <= clock + HeartbeatInterval
      /\ session[c].beat = clock => NextBeat(session[c].beat) = clock + HeartbeatInterval
  BY <1>1, <1>3, NextBeatBounds
<1>5. [session[c] EXCEPT !.beat = NextBeat(session[c].beat)] \in SessionType
  <2>1. HeartbeatInterval \in Nat
    BY FeedAssumption
  <2> QED BY <2>1, <1>2, <1>3, <1>4, SessionTyped DEF SessionType
<1>6. /\ s \in SessionType /\ s.at = "SEND" /\ s.hand = Frame("PING") /\ s.next = session[c].next
      /\ s.beat = NextBeat(session[c].beat) /\ s.seen = session[c].seen
  <2>1. session[c] \in SessionType
    BY <1>2, SessionTyped
  <2> QED BY <2>1, <1>5, WritingTyped, FrameIs DEF SessionType
<1> HIDE DEF s
<1>7. session'[c] = s
  BY <1>1, <1>2 DEF TypeOK
<1>8. StreamInv(c)'
  <2>1. gone[c] \/ Told(Append(outbox[c], Event(session[c].next)), heard[c])
    BY <1>1, <1>2 DEF StreamInv, IsOpen, Ahead
  <2>2. gone[c] \/ Told(Append(Append(outbox[c], Frame("PING")), Event(session[c].next)), heard[c])
    <3>1. outbox[c] \in Streams /\ session[c].next \in Nat
      BY <1>2, FeedTypes
    <3>2. Event(session[c].next) \in AFrame /\ IsEvent(Event(session[c].next))
      BY <3>1, EventTyped DEF AFrame
    <3> QED BY <2>1, <3>1, <3>2, FrameIs, ToldInsert DEF AFrame
  <2>3. Ahead(c)' = Append(Append(outbox[c], Frame("PING")), Event(session[c].next))
    BY <1>1, <1>6, <1>7 DEF Ahead
  <2>4. ~IsEvent(Frame("PING")) /\ Frame("PING") # Nothing
    BY FrameIs
  <2> QED BY <2>2, <2>3, <2>4, <1>1, <1>2, <1>6, <1>7 DEF StreamInv
<1>9. TimeInv(c)'
  <2>1. IsOpen(c) /\ ~Pinging(c)
    BY <1>1 DEF IsOpen, Pinging
  <2>2. "HELD" \notin slack[c] => SpokenInv(c)' /\ BeatInv(c)'
    <3> SUFFICES ASSUME "HELD" \notin slack[c] PROVE SpokenInv(c)' /\ BeatInv(c)'
      OBVIOUS
    <3>1. SpokenInv(c) /\ clock <= session[c].beat
      BY <2>1, <1>2 DEF TimeInv, BeatInv
    <3>2. session[c].beat = clock
      BY <3>1, <1>1, <1>3
    <3>3. SpokenInv(c)'
      BY <3>1, <1>1, <1>6, <1>7 DEF SpokenInv
    <3>4. BeatInv(c)'
      <4>1. s.beat = clock + HeartbeatInterval /\ clock <= s.beat
        BY <3>2, <1>3, <1>4, <1>6
      <4>2. Frame("PING").kind = "PING"
        BY FrameIs
      <4> QED BY <4>1, <4>2, <1>1, <1>6, <1>7 DEF BeatInv, Pinging
    <3> QED BY <3>3, <3>4
  <2> QED BY <2>1, <2>2, <1>1, <1>2, <1>6, <1>7 DEF TimeInv
<1> QED BY <1>1, <1>6, <1>8, <1>9, SessionMoves

LEMMA EventIs ==
  ASSUME NEW p \in 1..MaxEvents
  PROVE  /\ Event(p) \in Frames /\ Event(p) \in AFrame /\ IsEvent(Event(p)) /\ Event(p).pos = p
         /\ Event(p).kind # "PING" /\ Event(p) # Nothing
<1>1. MaxEvents \in Nat /\ p \in Nat
  BY FeedAssumption
<1> QED BY <1>1, EventTyped DEF Frames, Event, AFrame, Nothing, Frame

LEMMA OldestIs ==
  ASSUME sent \in Nat
  PROVE  /\ Oldest \in Nat /\ Oldest >= 1 /\ Oldest <= sent + 1
BY FeedAssumption DEF Oldest

LEMMA ReceiveKeeps ==
  ASSUME FeedInv, NEW c \in Clients, Receive(c)
  PROVE  FeedInv'
<1> DEFINE s == Take(session[c])
<1>1. /\ session[c].at = "SELECT" /\ ~(session[c].beat <= clock) /\ session[c].next <= sent
      /\ session' = [session EXCEPT ![c] = s]
      /\ UNCHANGED <<clock, sent, outbox, inbox, gone, connects, heard, spoke, slack>>
  BY DEF Receive, Selecting, IsDue, wire, past
<1>2. TypeOK /\ StreamInv(c) /\ TimeInv(c) /\ session[c] \in SessionType
  BY SessionTyped DEF FeedInv
<1>3. /\ sent \in Nat /\ sent <= MaxEvents /\ session[c].next \in 1..sent
      /\ outbox[c] \in Streams /\ heard[c] \in Heard
  BY <1>1, <1>2, FeedTypes
<1>4. gone[c] \/ Told(Append(outbox[c], Event(session[c].next)), heard[c])
  BY <1>1, <1>2 DEF StreamInv, IsOpen, Ahead
<1>5. /\ s \in SessionType /\ s.at = "SEND" /\ s.beat = session[c].beat /\ s.seen = session[c].seen
      /\ s.hand.kind # "PING" /\ s.hand # Nothing
      /\ IsEvent(s.hand) => s.hand.pos <= sent
      /\ gone[c] \/ Told(Append(Append(outbox[c], s.hand), Event(s.next)), heard[c])
  <2>1. CASE session[c].next < Oldest
    <3> DEFINE t == [session[c] EXCEPT !.next = Oldest]
    <3>1. t \in SessionType /\ t.next = Oldest /\ t.beat = session[c].beat /\ t.seen = session[c].seen
      BY <1>2, <1>3, OldestIs DEF SessionType
    <3>2. s = Writing(t, Frame("LAGGED"))
      BY <2>1 DEF Take
    <3> HIDE DEF t, s
    <3>3. /\ s \in SessionType /\ s.at = "SEND" /\ s.hand = Frame("LAGGED") /\ s.next = Oldest
          /\ s.beat = session[c].beat /\ s.seen = session[c].seen
      BY <3>1, <3>2, WritingTyped, FrameIs
    <3>4. Frame("LAGGED").kind = "LAGGED" /\ ~IsEvent(Frame("LAGGED")) /\ Frame("LAGGED") # Nothing
      BY FrameIs
    <3>5. gone[c] \/ Told(Append(Append(outbox[c], Frame("LAGGED")), Event(Oldest)), heard[c])
      <4>1. Oldest \in Nat /\ session[c].next \in Nat /\ session[c].next <= Oldest
        BY <2>1, <1>3, OldestIs
      <4> QED BY <4>1, <1>3, <1>4, ToldLagged
    <3> QED BY <3>3, <3>4, <3>5
  <2>2. CASE ~(session[c].next < Oldest)
    <3> DEFINE t == [session[c] EXCEPT !.next = session[c].next + 1]
               e == Event(session[c].next)
    <3>1. /\ t \in SessionType /\ t.next = session[c].next + 1 /\ t.beat = session[c].beat
          /\ t.seen = session[c].seen
      BY <1>2, <1>3 DEF SessionType
    <3>2. s = Writing(t, e)
      BY <2>2 DEF Take
    <3>3. e \in Frames /\ e.pos = session[c].next /\ e.kind # "PING" /\ e # Nothing
      <4>1. session[c].next \in 1..MaxEvents
        BY <1>3, FeedAssumption
      <4> QED BY <4>1, EventIs
    <3>4. gone[c] \/ Told(Append(Append(outbox[c], e), Event(session[c].next + 1)), heard[c])
      <4>1. session[c].next \in Nat
        BY <1>3
      <4> QED BY <4>1, <1>3, <1>4, ToldNext
    <3> HIDE DEF t, s, e
    <3>5. /\ s \in SessionType /\ s.at = "SEND" /\ s.hand = e /\ s.next = session[c].next + 1
          /\ s.beat = session[c].beat /\ s.seen = session[c].seen
      BY <3>1, <3>2, <3>3, WritingTyped
    <3>6. e.pos <= sent
      BY <3>3, <1>3
    <3> QED BY <3>3, <3>4, <3>5, <3>6
  <2> QED BY <2>1, <2>2
<1> HIDE DEF s
<1>6. session'[c] = s
  BY <1>1, <1>2 DEF TypeOK
<1>7. StreamInv(c)'
  <2>1. Ahead(c)' = Append(Append(outbox[c], s.hand), Event(s.next))
    BY <1>1, <1>5, <1>6 DEF Ahead
  <2> QED BY <2>1, <1>1, <1>2, <1>5, <1>6 DEF StreamInv
<1>8. TimeInv(c)'
  <2>1. IsOpen(c) /\ ~Pinging(c) /\ ~Pinging(c)'
    BY <1>1, <1>5, <1>6 DEF IsOpen, Pinging
  <2>2. SpokenInv(c) => SpokenInv(c)'
    BY <1>1, <1>5, <1>6 DEF SpokenInv
  <2>3. BeatInv(c) => BeatInv(c)'
    BY <2>1, <1>1, <1>5, <1>6 DEF BeatInv
  <2> QED BY <2>1, <2>2, <2>3, <1>1, <1>2, <1>5, <1>6 DEF TimeInv
<1> QED BY <1>1, <1>5, <1>7, <1>8, SessionMoves


LEMMA InboundKeeps ==
  ASSUME FeedInv, NEW c \in Clients, Inbound(c)
  PROVE  FeedInv'
<1> DEFINE frame == Head(inbox[c])
           old == session[c]
           s == Answer(old, frame)
<1>1. /\ old.at = "SELECT" /\ inbox[c] # <<>>
      /\ session' = [session EXCEPT ![c] = s] /\ inbox' = [inbox EXCEPT ![c] = Tail(inbox[c])]
      /\ UNCHANGED <<clock, sent, outbox, gone, connects, heard, spoke, slack>>
  BY DEF Inbound, Selecting, past
<1>2. TypeOK /\ StreamInv(c) /\ TimeInv(c) /\ old \in SessionType
  BY SessionTyped DEF FeedInv
<1>3. /\ clock \in Nat /\ old.seen \in 0..clock /\ old.next \in Nat /\ old.beat \in Nat
      /\ outbox[c] \in Streams /\ inbox[c] \in Seq(Spoken) /\ spoke[c] \in 0..clock
  BY <1>2, FeedTypes
<1>4. /\ Tail(inbox[c]) \in Seq(Spoken) /\ Len(inbox[c]) \in Nat /\ Len(inbox[c]) >= 1
      /\ Len(Tail(inbox[c])) = Len(inbox[c]) - 1 /\ frame = inbox[c][1]
      /\ \A i \in 1..Len(inbox[c]) - 1 : Tail(inbox[c])[i] = inbox[c][i + 1]
  BY <1>1, <1>3, Reading
<1>5. gone[c] \/ Told(Append(outbox[c], Event(old.next)), heard[c])
  BY <1>1, <1>2 DEF StreamInv, IsOpen, Ahead
<1> DEFINE t == [old EXCEPT !.seen = clock]
<1>6. t \in SessionType /\ t.at = "SELECT" /\ t.next = old.next /\ t.beat = old.beat /\ t.seen = clock
      /\ t.hand = old.hand
  BY <1>1, <1>2, <1>3, SMTT(30) DEF SessionType
<1>7. /\ s \in SessionType
      /\ \/ /\ frame = "CLOSE" /\ s.at = "CLOSED" /\ s.hand = old.hand
         \/ /\ frame # "CLOSE" /\ s.at = "SEND" /\ s.hand = Frame("PONG") /\ s.next = old.next
            /\ s.beat = old.beat /\ s.seen = clock
         \/ frame # "CLOSE" /\ s = t
  <2>1. CASE frame = "CLOSE"
    <3>1. s = [old EXCEPT !.at = "CLOSED"]
      BY <2>1 DEF Answer
    <3>2. s \in SessionType /\ s.at = "CLOSED" /\ s.hand = old.hand
      BY <3>1, <1>2 DEF SessionType
    <3> QED BY <2>1, <3>2
  <2>2. CASE frame = "PING"
    <3>1. s = Writing(t, Frame("PONG"))
      BY <2>2 DEF Answer
    <3>2. frame # "CLOSE" /\ Frame("PONG") \in Frames
      BY <2>2, FrameIs
    <3> HIDE DEF s, t, frame
    <3>3. /\ s \in SessionType /\ s.at = "SEND" /\ s.hand = Frame("PONG") /\ s.next = t.next
          /\ s.beat = t.beat /\ s.seen = t.seen
      BY <3>1, <3>2, <1>6, WritingTyped
    <3> QED BY <3>2, <3>3, <1>6
  <2>3. CASE frame \notin {"CLOSE", "PING"}
    <3>1. s = t
      BY <2>3 DEF Answer
    <3> HIDE DEF s, t
    <3> QED BY <2>3, <3>1, <1>6
  <2> QED BY <2>1, <2>2, <2>3
<1> HIDE DEF s, t, frame
<1>8. session'[c] = s /\ inbox'[c] = Tail(inbox[c])
  BY <1>1, <1>2 DEF TypeOK
<1>9. TypeOK'
  <2>1. session' \in [Clients -> SessionType]
    BY <1>1, <1>2, <1>7 DEF TypeOK, SessionType
  <2>2. inbox' \in [Clients -> Seq(Spoken)]
    BY <1>1, <1>2, <1>4 DEF TypeOK
  <2> QED BY <2>1, <2>2, <1>1, <1>2 DEF TypeOK, SessionType
<1>10. StreamInv(c)'
  <2>1. CASE s.at = "CLOSED" /\ s.hand = old.hand
    BY <2>1, <1>1, <1>2, <1>8 DEF StreamInv, IsOpen
  <2>2. CASE s.at = "SEND" /\ s.hand = Frame("PONG") /\ s.next = old.next
    <3>1. Ahead(c)' = Append(Append(outbox[c], Frame("PONG")), Event(old.next))
      BY <2>2, <1>1, <1>8 DEF Ahead
    <3>2. gone[c] \/ Told(Append(Append(outbox[c], Frame("PONG")), Event(old.next)), heard[c])
      <4>1. Event(old.next) \in AFrame /\ IsEvent(Event(old.next))
        BY <1>3, EventTyped DEF AFrame
      <4> QED BY <4>1, <1>3, <1>5, FrameIs, ToldInsert DEF AFrame
    <3>3. ~IsEvent(Frame("PONG")) /\ Frame("PONG") # Nothing
      BY FrameIs
    <3> QED BY <2>2, <3>1, <3>2, <3>3, <1>1, <1>2, <1>8 DEF StreamInv
  <2>3. CASE s = t
    <3>1. Ahead(c)' = Append(outbox[c], Event(old.next))
      BY <2>3, <1>1, <1>6, <1>8 DEF Ahead
    <3> QED BY <2>3, <3>1, <1>1, <1>2, <1>5, <1>6, <1>8 DEF StreamInv
  <2> QED BY <2>1, <2>2, <2>3, <1>7
<1>11. TimeInv(c)'
  <2>1. CASE s.at = "CLOSED"
    BY <2>1, <1>1, <1>2, <1>8 DEF TimeInv, IsOpen
  <2>2. CASE /\ frame # "CLOSE" /\ s.at \in {"SELECT", "SEND"} /\ s.seen = clock
             /\ s.beat = old.beat /\ (s.hand.kind # "PING" \/ s.at = "SELECT")
    <3>1. "HELD" \notin slack[c] => SpokenInv(c)' /\ BeatInv(c)'
      <4> SUFFICES ASSUME "HELD" \notin slack[c] PROVE SpokenInv(c)' /\ BeatInv(c)'
        OBVIOUS
      <4>1. SpokenInv(c) /\ BeatInv(c) /\ ~Pinging(c)
        BY <1>1, <1>2 DEF TimeInv, IsOpen, Pinging
      <4>2. spoke[c] = clock
        <5>1. 1 \in 1..Len(inbox[c])
          BY <1>4
        <5> QED BY <5>1, <4>1, <2>2, <1>4 DEF SpokenInv
      <4>3. SpokenInv(c)'
        BY <4>2, <2>2, <1>1, <1>3, <1>8 DEF SpokenInv
      <4>4. ~Pinging(c)'
        BY <2>2, <1>8 DEF Pinging
      <4>5. clock <= old.beat /\ old.beat - HeartbeatInterval - old.seen <= IdleTimeout
        BY <4>1 DEF BeatInv
      <4>6. old.beat - HeartbeatInterval - clock <= IdleTimeout
        <5>1. HeartbeatInterval \in Nat /\ IdleTimeout \in Nat
          BY FeedAssumption
        <5> QED BY ONLY <5>1, <4>5, <1>3, SMTT(30)
      <4>7. clock' = clock /\ session'[c].beat = old.beat /\ session'[c].seen = clock
        BY <2>2, <1>1, <1>8
      <4> QED BY <4>3, <4>4, <4>5, <4>6, <4>7 DEF BeatInv
    <3>2. clock - clock < IdleTimeout
      BY <1>3, FeedAssumption
    <3>3. clock' = clock /\ session'[c].seen = clock /\ session'[c].at # "IDLED"
      BY <2>2, <1>1, <1>8
    <3> QED BY <3>1, <3>2, <3>3, <1>1, <1>2 DEF TimeInv
  <2>3. Frame("PONG").kind # "PING"
    BY FrameIs
  <2> QED BY <2>1, <2>2, <2>3, <1>6, <1>7
<1>12. \A d \in Clients : d # c => session'[d] = session[d] /\ inbox'[d] = inbox[d]
  BY <1>1, <1>2 DEF TypeOK
<1> QED BY <1>1, <1>9, <1>10, <1>11, <1>12, OneMoves

LEMMA WriteKeeps ==
  ASSUME FeedInv, NEW c \in Clients, Write(c)
  PROVE  FeedInv'
<1> DEFINE old == session[c]
           s == session'[c]
           o == Append(outbox[c], old.hand)
<1>1. /\ old.at = "SEND" /\ ~gone[c] /\ Len(outbox[c]) < OutboxCap
      /\ outbox' = [outbox EXCEPT ![c] = o]
      /\ UNCHANGED <<clock, sent, inbox, gone, connects, heard, spoke, slack>>
  BY DEF Write, HasRoom, past
<1>2. TypeOK /\ StreamInv(c) /\ TimeInv(c) /\ old \in SessionType
  BY SessionTyped DEF FeedInv
<1>3. /\ clock \in Nat /\ sent \in Nat /\ old.seen \in 0..clock /\ old.next \in Nat /\ old.beat \in Nat
      /\ outbox[c] \in Streams /\ outbox[c] \in Seq(Frames)
      /\ old.hand \in AFrame /\ old.hand \in Frames \cup {Nothing}
  BY <1>2, FeedTypes
<1>4. old.hand \in Frames
  BY <1>1, <1>2, <1>3 DEF StreamInv
<1>5. /\ o \in Seq(Frames) /\ o \in Streams /\ Len(outbox[c]) \in Nat /\ Len(o) = Len(outbox[c]) + 1
      /\ \A i \in 1..Len(outbox[c]) : o[i] = outbox[c][i]
      /\ o[Len(outbox[c]) + 1] = old.hand
  BY <1>3, <1>4, Appending DEF Streams, AFrame
<1>6. Told(Append(o, Event(old.next)), heard[c])
  BY <1>1, <1>2 DEF StreamInv, IsOpen, Ahead
<1>7. Told(o, heard[c])
  <2>1. Event(old.next) \in AFrame
    BY <1>3, EventTyped DEF AFrame
  <2> HIDE DEF o
  <2> QED BY <2>1, <1>5, <1>6, ToldPrefix DEF AFrame
<1>8. \A i \in 1..Len(o) : IsEvent(o[i]) => o[i].pos <= sent
  <2> SUFFICES ASSUME NEW i \in 1..Len(o), IsEvent(o[i]) PROVE o[i].pos <= sent
    OBVIOUS
  <2>1. CASE i = Len(outbox[c]) + 1
    BY <2>1, <1>2, <1>5 DEF StreamInv
  <2>2. CASE i # Len(outbox[c]) + 1
    <3>1. i \in 1..Len(outbox[c])
      BY <2>2, <1>5
    <3> QED BY <3>1, <1>2, <1>5 DEF StreamInv
  <2> QED BY <2>1, <2>2
<1>9. \/ /\ old.hand.kind = "PING" /\ MayIdle(old)
         /\ session' = [session EXCEPT ![c] = [old EXCEPT !.at = "IDLED"]]
      \/ /\ old.hand.kind = "PING" => MayStay(old)
         /\ session' = [session EXCEPT ![c] = Resting(old)]
  BY DEF Write
<1>10. /\ session' = [session EXCEPT ![c] = s] /\ s \in SessionType
       /\ \/ old.hand.kind = "PING" /\ MayIdle(old) /\ s = [old EXCEPT !.at = "IDLED"]
          \/ (old.hand.kind = "PING" => MayStay(old)) /\ s = Resting(old)
  <2>1. CASE session' = [session EXCEPT ![c] = [old EXCEPT !.at = "IDLED"]]
             /\ old.hand.kind = "PING" /\ MayIdle(old)
    <3>1. s = [old EXCEPT !.at = "IDLED"]
      BY <2>1, <1>2 DEF TypeOK
    <3>2. [old EXCEPT !.at = "IDLED"] \in SessionType
      BY <1>2 DEF SessionType
    <3> QED BY <2>1, <3>1, <3>2
  <2>2. CASE session' = [session EXCEPT ![c] = Resting(old)]
             /\ (old.hand.kind = "PING" => MayStay(old))
    <3>1. s = Resting(old)
      BY <2>2, <1>2 DEF TypeOK
    <3> QED BY <2>2, <3>1, <1>2, RestingTyped
  <2> QED BY <1>9, <2>1, <2>2
<1> HIDE DEF o
<1>11. /\ outbox'[c] = o
       /\ \A d \in Clients : d # c => session'[d] = session[d] /\ outbox'[d] = outbox[d]
  BY <1>1, <1>2, <1>10 DEF TypeOK
<1>12. TypeOK'
  <2>1. session' \in [Clients -> SessionType]
    BY <1>2, <1>10 DEF TypeOK, SessionType
  <2>2. outbox' \in [Clients -> Seq(Frames)]
    BY <1>1, <1>2, <1>5 DEF TypeOK
  <2>3. \A d \in Clients : Len(outbox'[d]) <= OutboxCap
    <3>1. Len(o) <= OutboxCap
      BY <1>1, <1>5, FeedAssumption
    <3>2. \A d \in Clients : Len(outbox[d]) <= OutboxCap
      BY <1>2 DEF TypeOK
    <3> QED BY <3>1, <3>2, <1>11
  <2> QED BY <2>1, <2>2, <2>3, <1>1, <1>2 DEF TypeOK, SessionType
<1>13. CASE old.hand.kind = "PING" /\ MayIdle(old) /\ s = [old EXCEPT !.at = "IDLED"]
  <2>1. s.at = "IDLED" /\ s.hand = old.hand
    BY <1>2, <1>13 DEF SessionType
  <2>2. StreamInv(c)'
    BY <2>1, <1>1, <1>2, <1>7, <1>8, <1>11 DEF StreamInv, IsOpen
  <2>3. slack[c] # {}
    <3>1. slack[c] = {} => clock - old.seen < IdleTimeout
      BY <1>1, <1>2 DEF TimeInv, IsOpen
    <3>2. clock - old.seen >= IdleTimeout
      BY <1>13 DEF MayIdle
    <3>3. IdleTimeout \in Nat
      BY FeedAssumption
    <3> QED BY <3>1, <3>2, <3>3, <1>3
  <2>4. TimeInv(c)'
    BY <2>1, <2>3, <1>1, <1>2 DEF TimeInv, IsOpen
  <2> QED BY <2>2, <2>4, <1>1, <1>11, <1>12, OneMoves
<1>14. CASE (old.hand.kind = "PING" => MayStay(old)) /\ s = Resting(old)
  <2>1. /\ s.at = "SELECT" /\ s.hand = Nothing /\ s.next = old.next /\ s.beat = old.beat
        /\ s.seen = old.seen
    BY <1>2, <1>14, RestingTyped
  <2>2. StreamInv(c)'
    <3>1. Ahead(c)' = Append(o, Event(old.next))
      BY <2>1, <1>11 DEF Ahead
    <3>2. ~IsEvent(Nothing)
      BY DEF IsEvent, Nothing, Frame
    <3> QED BY <2>1, <3>1, <3>2, <1>1, <1>6, <1>7, <1>8, <1>11 DEF StreamInv
  <2>3. "HELD" \notin slack[c] => SpokenInv(c)' /\ BeatInv(c)'
    <3> SUFFICES ASSUME "HELD" \notin slack[c] PROVE SpokenInv(c)' /\ BeatInv(c)'
      OBVIOUS
    <3>1. SpokenInv(c) /\ BeatInv(c)
      BY <1>1, <1>2 DEF TimeInv, IsOpen
    <3>2. SpokenInv(c)'
      BY <2>1, <3>1, <1>1 DEF SpokenInv
    <3>3. ~Pinging(c)'
      BY <2>1 DEF Pinging
    <3>4. HeartbeatInterval \in Nat /\ IdleTimeout \in Nat
      BY FeedAssumption
    <3>5. clock <= old.beat /\ old.beat - HeartbeatInterval - old.seen <= IdleTimeout
      <4>1. CASE Pinging(c)
        <5>1. old.beat = clock + HeartbeatInterval /\ clock <= old.beat
          BY <4>1, <3>1 DEF BeatInv
        <5>2. clock - old.seen <= IdleTimeout
          BY <4>1, <1>14 DEF Pinging, MayStay
        <5> QED BY ONLY <5>1, <5>2, <3>4, <1>3
      <4>2. CASE ~Pinging(c)
        BY <4>2, <3>1 DEF BeatInv
      <4> QED BY <4>1, <4>2
    <3>6. clock' = clock /\ session'[c].beat = old.beat /\ session'[c].seen = old.seen
      BY <2>1, <1>1
    <3>7. BeatInv(c)'
      BY <3>3, <3>5, <3>6 DEF BeatInv
    <3> QED BY <3>2, <3>7
  <2>4. /\ slack[c] = {} => clock - old.seen < IdleTimeout
        /\ clock - spoke[c] >= IdleTimeout => "SILENT" \in slack[c]
    BY <1>1, <1>2 DEF TimeInv, IsOpen
  <2>5. TimeInv(c)'
    BY <2>1, <2>3, <2>4, <1>1 DEF TimeInv
  <2> QED BY <2>2, <2>5, <1>1, <1>11, <1>12, OneMoves
<1> QED BY <1>10, <1>13, <1>14

LEMMA WriteFailsKeeps ==
  ASSUME FeedInv, NEW c \in Clients, WriteFails(c)
  PROVE  FeedInv'
<1> DEFINE old == session[c]
           s == IF old.hand.kind = "LAGGED" THEN Resting(old) ELSE [old EXCEPT !.at = "CLOSED"]
<1>1. /\ old.at = "SEND" /\ gone[c] /\ session' = [session EXCEPT ![c] = s]
      /\ UNCHANGED <<clock, sent, outbox, inbox, gone, connects, heard, spoke, slack>>
  BY DEF WriteFails, wire, past
<1>2. TypeOK /\ StreamInv(c) /\ TimeInv(c) /\ old \in SessionType
  BY SessionTyped DEF FeedInv
<1>3. /\ s \in SessionType /\ s.at # "SEND" /\ s.at # "IDLED" /\ (s.hand = old.hand \/ s.hand = Nothing)
      /\ s.at = "SELECT" => s.beat = old.beat /\ s.seen = old.seen /\ old.hand.kind # "PING"
  <2>1. CASE old.hand.kind = "LAGGED"
    BY <2>1, <1>2, RestingTyped
  <2>2. CASE old.hand.kind # "LAGGED"
    BY <2>2, <1>2 DEF SessionType
  <2> QED BY <2>1, <2>2
<1> HIDE DEF s
<1>4. session'[c] = s
  BY <1>1, <1>2 DEF TypeOK
<1>5. StreamInv(c)'
  <2>1. ~IsEvent(Nothing)
    BY DEF IsEvent, Nothing, Frame
  <2> QED BY <2>1, <1>1, <1>2, <1>3, <1>4 DEF StreamInv
<1>6. TimeInv(c)'
  <2>1. IsOpen(c)' => s.at = "SELECT" /\ ~Pinging(c)
    BY <1>1, <1>3, <1>4 DEF IsOpen, Pinging
  <2>2. IsOpen(c) /\ ~Pinging(c)'
    BY <1>1, <1>3, <1>4 DEF IsOpen, Pinging
  <2>3. s.at = "SELECT" /\ SpokenInv(c) => SpokenInv(c)'
    BY <1>1, <1>3, <1>4 DEF SpokenInv
  <2>4. s.at = "SELECT" /\ ~Pinging(c) /\ BeatInv(c) => BeatInv(c)'
    BY <2>2, <1>1, <1>3, <1>4 DEF BeatInv
  <2> QED BY <2>1, <2>2, <2>3, <2>4, <1>1, <1>2, <1>3, <1>4 DEF TimeInv
<1> QED BY <1>1, <1>3, <1>5, <1>6, SessionMoves

\* A client that sends a frame gives its session time.
LEMMA SpokenNow ==
  ASSUME TypeOK, NEW c \in Clients, TimeInv(c), UNCHANGED <<clock, session, slack>>,
         spoke'[c] = clock, inbox'[c] # <<>>
  PROVE  TimeInv(c)'
<1>1. /\ clock \in Nat /\ IdleTimeout \in Nat /\ IdleTimeout # 0 /\ session[c].seen \in 0..clock
  BY FeedTypes, FeedAssumption
<1>2. ~(clock' - spoke'[c] >= IdleTimeout)
  <2>1. clock' = clock
    OBVIOUS
  <2> QED BY ONLY <2>1, <1>1, spoke'[c] = clock
<1>3. SpokenInv(c)'
  BY <1>1 DEF SpokenInv
<1>4. BeatInv(c) => BeatInv(c)'
  BY DEF BeatInv, Pinging
<1> QED BY <1>2, <1>3, <1>4 DEF TimeInv, IsOpen

LEMMA TailAppend ==
  ASSUME NEW S, NEW q \in Seq(S), q # <<>>, NEW e \in S
  PROVE  /\ Append(q, e) # <<>> /\ Head(Append(q, e)) = Head(q)
         /\ Tail(Append(q, e)) = Append(Tail(q), e)
<1> DEFINE r == Append(q, e)
<1>1. Len(q) \in Nat /\ Len(q) >= 1 /\ Head(q) = q[1] /\ Tail(q) \in Seq(S)
      /\ Len(Tail(q)) = Len(q) - 1 /\ \A i \in 1..Len(q) - 1 : Tail(q)[i] = q[i + 1]
  BY Reading
<1>2. r \in Seq(S) /\ Len(r) = Len(q) + 1 /\ r[Len(q) + 1] = e /\ \A i \in 1..Len(q) : r[i] = q[i]
  BY Appending
<1>3. r # <<>>
  <2>1. Len(r) # 0 /\ Len(<<>>) = 0
    BY <1>1, <1>2
  <2> QED BY <2>1
<1> HIDE DEF r
<1>4. Head(r) = r[1] /\ Tail(r) \in Seq(S) /\ Len(Tail(r)) = Len(r) - 1
      /\ \A i \in 1..Len(r) - 1 : Tail(r)[i] = r[i + 1]
  BY <1>2, <1>3, Reading
<1>5. Head(r) = Head(q)
  BY <1>1, <1>2, <1>4
<1>6. Tail(r) = Append(Tail(q), e)
  <2> DEFINE t == Append(Tail(q), e)
  <2>1. /\ t \in Seq(S) /\ Len(t) = Len(q) /\ t[Len(q)] = e
        /\ \A i \in 1..Len(q) - 1 : t[i] = q[i + 1]
    <3>1. /\ t \in Seq(S) /\ Len(t) = Len(Tail(q)) + 1 /\ t[Len(Tail(q)) + 1] = e
          /\ \A i \in 1..Len(Tail(q)) : t[i] = Tail(q)[i]
      BY <1>1, Appending
    <3> HIDE DEF t
    <3> QED BY <3>1, <1>1
  <2>2. Len(Tail(r)) = Len(q) /\ \A i \in 1..Len(q) : Tail(r)[i] = r[i + 1]
    BY <1>1, <1>2, <1>4
  <2> HIDE DEF t
  <2>3. ASSUME NEW i \in 1..Len(q) PROVE Tail(r)[i] = t[i]
    <3>1. CASE i = Len(q)
      BY <3>1, <2>1, <2>2, <1>1, <1>2
    <3>2. CASE i # Len(q)
      <4>1. i \in 1..Len(q) - 1 /\ i + 1 \in 1..Len(q)
        <5>1. Len(q) \in Nat
          BY <1>1
        <5> QED BY ONLY <5>1, <3>2, i \in 1..Len(q)
      <4> QED BY <4>1, <2>1, <2>2, <1>2
    <3> QED BY <3>1, <3>2
  <2>4. Tail(r) = t
    BY <1>4, <2>1, <2>2, <2>3, SeqEqual
  <2> QED BY <2>4 DEF t
<1> QED BY <1>3, <1>5, <1>6 DEF r

LEMMA StreamTail ==
  ASSUME NEW q \in Streams, q # <<>>, NEW e \in AFrame
  PROVE  /\ Append(q, e) # <<>> /\ Head(Append(q, e)) = Head(q)
         /\ Tail(Append(q, e)) = Append(Tail(q), e)
         /\ Append(q, e) \in Streams
<1>1. q \in Seq(AFrame)
  BY DEF Streams, AFrame
<1>2. Append(q, e) \in Seq(AFrame)
  BY <1>1, AppendProperties
<1>3. /\ Append(q, e) # <<>> /\ Head(Append(q, e)) = Head(q)
      /\ Tail(Append(q, e)) = Append(Tail(q), e)
  BY <1>1, TailAppend
<1> QED BY <1>2, <1>3 DEF Streams, AFrame

LEMMA ReadKeeps ==
  ASSUME FeedInv, NEW c \in Clients, Read(c)
  PROVE  FeedInv'
<1> DEFINE q == outbox[c]
           frame == Head(q)
           h == heard[c]
           g == Knows(h, frame)
<1>1. /\ q # <<>> /\ ~gone[c] /\ outbox' = [outbox EXCEPT ![c] = Tail(q)]
      /\ UNCHANGED <<clock, sent, session, gone, connects, slack>>
      /\ \/ /\ inbox' = [inbox EXCEPT ![c] = Append(inbox[c], "PONG")]
            /\ spoke' = [spoke EXCEPT ![c] = clock]
         \/ UNCHANGED <<inbox, spoke>>
  BY DEF Read
<1>2. TypeOK /\ StreamInv(c) /\ TimeInv(c)
  BY DEF FeedInv
<1>3. /\ clock \in Nat /\ sent \in Nat /\ session[c].next \in Nat /\ h \in Heard
      /\ q \in Streams /\ q \in Seq(Frames) /\ inbox[c] \in Seq(Spoken) /\ session[c].hand \in AFrame
  BY <1>2, FeedTypes
<1>4. heard \in [Clients -> [last : 0..sent, noticed : BOOLEAN]]
  BY <1>2 DEF TypeOK
<1>5. heard' = [heard EXCEPT ![c] = g]
  <2>1. heard' = CASE frame.kind = "EVENT"  -> [heard EXCEPT ![c] = HeardUpTo(frame.pos)]
                   [] frame.kind = "LAGGED" -> [heard EXCEPT ![c].noticed = TRUE]
                   [] OTHER                 -> heard
    BY DEF Read
  <2> HIDE DEF frame
  <2>2. CASE frame.kind = "EVENT"
    BY <2>1, <2>2 DEF Knows
  <2>3. CASE frame.kind = "LAGGED"
    BY <2>1, <2>3 DEF Knows
  <2>4. CASE frame.kind \notin {"EVENT", "LAGGED"}
    BY <2>1, <2>4, <1>4 DEF Knows
  <2> QED BY <2>2, <2>3, <2>4
<1>6. /\ Tail(q) \in Seq(Frames) /\ Len(q) \in Nat /\ Len(q) >= 1 /\ Len(Tail(q)) = Len(q) - 1
      /\ frame = q[1] /\ frame \in AFrame
      /\ \A i \in 1..Len(q) - 1 : Tail(q)[i] = q[i + 1]
  BY <1>1, <1>3, Reading DEF Streams, AFrame
<1>7. g \in [last : 0..sent, noticed : BOOLEAN]
  <2>1. IsEvent(frame) => frame.pos \in 0..sent
    <3>1. 1 \in 1..Len(q) /\ frame.pos \in Nat
      BY <1>6 DEF AFrame
    <3> QED BY <3>1, <1>2, <1>3, <1>6 DEF StreamInv
  <2>2. h \in [last : 0..sent, noticed : BOOLEAN]
    BY <1>4
  <2> QED BY <2>1, <2>2 DEF Knows, HeardUpTo, IsEvent
<1>8. Told(Tail(q), g)
  BY <1>1, <1>2, <1>3, ToldTail DEF StreamInv
<1>9. ASSUME NEW e \in AFrame PROVE /\ Append(q, e) # <<>> /\ Head(Append(q, e)) = frame
                                   /\ Tail(Append(q, e)) = Append(Tail(q), e)
                                   /\ Append(q, e) \in Streams
  BY <1>1, <1>3, <1>9, StreamTail
<1> DEFINE e == Event(session[c].next)
           x == session[c].hand
<1>10. e \in AFrame /\ x \in AFrame
  BY <1>3, EventTyped DEF AFrame
<1>11. Told(Append(q, e), h) => Told(Append(Tail(q), e), g)
  <2>1. /\ Append(q, e) # <<>> /\ Head(Append(q, e)) = frame
        /\ Tail(Append(q, e)) = Append(Tail(q), e) /\ Append(q, e) \in Streams
    BY <1>9, <1>10
  <2> HIDE DEF q, e, frame, h
  <2> QED BY <2>1, <1>3, ToldTail DEF g
<1>12. Told(Append(Append(q, x), e), h) => Told(Append(Append(Tail(q), x), e), g)
  <2>1. /\ Append(q, x) # <<>> /\ Head(Append(q, x)) = frame
        /\ Tail(Append(q, x)) = Append(Tail(q), x) /\ Append(q, x) \in Streams
    BY <1>9, <1>10
  <2> HIDE DEF q, e, x, frame, h
  <2>2. /\ Append(Append(q, x), e) # <<>> /\ Head(Append(Append(q, x), e)) = frame
        /\ Tail(Append(Append(q, x), e)) = Append(Append(Tail(q), x), e)
        /\ Append(Append(q, x), e) \in Streams
    <3> DEFINE r == Append(q, x)
    <3>1. r \in Streams /\ r # <<>> /\ e \in AFrame
      BY <2>1, <1>10
    <3> HIDE DEF r
    <3>2. /\ Append(r, e) # <<>> /\ Head(Append(r, e)) = Head(r)
          /\ Tail(Append(r, e)) = Append(Tail(r), e) /\ Append(r, e) \in Streams
      BY <3>1, StreamTail
    <3> QED BY <2>1, <3>2 DEF r
  <2> QED BY <2>2, <1>3, ToldTail DEF g
<1> HIDE DEF g, frame, e, x
<1>13. outbox'[c] = Tail(q) /\ heard'[c] = g /\ session'[c] = session[c]
  BY <1>1, <1>2, <1>5 DEF TypeOK
<1>14. StreamInv(c)'
  <2>1. IsOpen(c) => Told(Ahead(c), h)
    BY <1>1, <1>2 DEF StreamInv
  <2>2. IsOpen(c) => Told(Ahead(c)', g)
    <3>1. CASE session[c].at = "SEND"
      BY <3>1, <2>1, <1>12, <1>13 DEF Ahead, e, x
    <3>2. CASE session[c].at # "SEND"
      BY <3>2, <2>1, <1>11, <1>13 DEF Ahead, e
    <3> QED BY <3>1, <3>2
  <2>3. ASSUME NEW i \in 1..Len(Tail(q)), IsEvent(Tail(q)[i]) PROVE Tail(q)[i].pos <= sent
    <3>1. i + 1 \in 1..Len(q) /\ Tail(q)[i] = q[i + 1]
      BY <1>6
    <3> QED BY <2>3, <3>1, <1>2 DEF StreamInv
  <2>4. sent' = sent /\ IsOpen(c)' = IsOpen(c)
    BY <1>1 DEF IsOpen
  <2> HIDE DEF q
  <2> QED BY <2>2, <2>3, <2>4, <1>2, <1>8, <1>13 DEF StreamInv
<1>15. TimeInv(c)'
  <2>1. CASE UNCHANGED <<inbox, spoke>>
    BY <2>1, <1>1, <1>2 DEF TimeInv, IsOpen, SpokenInv, BeatInv, Pinging
  <2>2. CASE /\ inbox' = [inbox EXCEPT ![c] = Append(inbox[c], "PONG")]
             /\ spoke' = [spoke EXCEPT ![c] = clock]
    <3>1. Append(inbox[c], "PONG") # <<>>
      <4>1. Len(Append(inbox[c], "PONG")) = Len(inbox[c]) + 1 /\ Len(inbox[c]) \in Nat /\ Len(<<>>) = 0
        BY <1>3, Appending DEF Spoken
      <4>2. Len(inbox[c]) + 1 # 0
        BY <4>1
      <4> QED BY <4>1, <4>2
    <3>2. spoke'[c] = clock /\ inbox'[c] # <<>>
      BY <2>2, <3>1, <1>2 DEF TypeOK
    <3> QED BY <3>2, <1>1, <1>2, SpokenNow
  <2> QED BY <1>1, <2>1, <2>2
<1>16. TypeOK'
  <2>1. outbox' \in [Clients -> Seq(Frames)]
    BY <1>1, <1>2, <1>6 DEF TypeOK
  <2>2. \A d \in Clients : Len(outbox'[d]) <= OutboxCap
    <3>1. \A d \in Clients : Len(outbox[d]) <= OutboxCap
      BY <1>2 DEF TypeOK
    <3>2. Len(q) - 1 <= OutboxCap
      BY <3>1, <1>6, FeedAssumption
    <3>3. \A d \in Clients : d # c => outbox'[d] = outbox[d]
      BY <1>1, <1>2 DEF TypeOK
    <3> QED BY <3>1, <3>2, <3>3, <1>6, <1>13
  <2>3. heard' \in [Clients -> [last : 0..sent, noticed : BOOLEAN]]
    BY <1>4, <1>5, <1>7
  <2>4. Append(inbox[c], "PONG") \in Seq(Spoken)
    BY <1>3, Appending DEF Spoken
  <2>5. inbox' \in [Clients -> Seq(Spoken)] /\ spoke' \in [Clients -> 0..clock]
    <3>1. CASE UNCHANGED <<inbox, spoke>>
      BY <3>1, <1>2 DEF TypeOK
    <3>2. CASE /\ inbox' = [inbox EXCEPT ![c] = Append(inbox[c], "PONG")]
               /\ spoke' = [spoke EXCEPT ![c] = clock]
      <4>1. inbox' \in [Clients -> Seq(Spoken)]
        BY <3>2, <2>4, <1>2 DEF TypeOK
      <4>2. spoke' \in [Clients -> 0..clock]
        BY <3>2, <1>2, <1>3 DEF TypeOK
      <4> QED BY <4>1, <4>2
    <3> QED BY <1>1, <3>1, <3>2
  <2> QED BY <2>1, <2>2, <2>3, <2>5, <1>1, <1>2 DEF TypeOK
<1>17. \A d \in Clients : d # c =>
         /\ session'[d] = session[d] /\ outbox'[d] = outbox[d] /\ inbox'[d] = inbox[d]
         /\ gone'[d] = gone[d] /\ heard'[d] = heard[d] /\ spoke'[d] = spoke[d]
         /\ slack'[d] = slack[d]
  BY <1>1, <1>2, <1>5 DEF TypeOK
<1> QED BY <1>1, <1>14, <1>15, <1>16, <1>17, OneMoves

LEMMA SpeakKeeps ==
  ASSUME FeedInv, NEW c \in Clients, Speak(c)
  PROVE  FeedInv'
<1>1. PICK frame \in {"PING", "TEXT"} : inbox' = [inbox EXCEPT ![c] = <<frame>>]
  BY DEF Speak
<1>2. /\ spoke' = [spoke EXCEPT ![c] = clock]
      /\ UNCHANGED <<clock, sent, session, outbox, gone, connects, heard, slack>>
  BY DEF Speak
<1>3. TypeOK /\ StreamInv(c) /\ TimeInv(c) /\ clock \in Nat
  BY FeedTypes DEF FeedInv
<1>4. <<frame>> \in Seq(Spoken) /\ <<frame>> # <<>>
  BY <1>1 DEF Spoken
<1>5. /\ inbox'[c] = <<frame>> /\ spoke'[c] = clock
      /\ \A d \in Clients : d # c => inbox'[d] = inbox[d] /\ spoke'[d] = spoke[d]
  BY <1>1, <1>2, <1>3 DEF TypeOK
<1>6. TypeOK'
  <2>1. inbox' \in [Clients -> Seq(Spoken)]
    BY <1>1, <1>3, <1>4 DEF TypeOK
  <2>2. spoke' \in [Clients -> 0..clock]
    BY <1>2, <1>3 DEF TypeOK
  <2> QED BY <2>1, <2>2, <1>2, <1>3 DEF TypeOK
<1>7. StreamInv(c)'
  BY <1>2, <1>3 DEF StreamInv, IsOpen, Ahead
<1>8. TimeInv(c)'
  BY <1>2, <1>3, <1>4, <1>5, SpokenNow
<1> QED BY <1>2, <1>5, <1>6, <1>7, <1>8, OneMoves

LEMMA LeaveKeeps ==
  ASSUME FeedInv, NEW c \in Clients, Leave(c)
  PROVE  FeedInv'
<1> DEFINE i0 == inbox[c]
           i1 == Append(inbox[c], "CLOSE")
<1>1. /\ gone' = [gone EXCEPT ![c] = TRUE] /\ inbox' = [inbox EXCEPT ![c] = i1]
      /\ UNCHANGED <<clock, sent, session, outbox, connects, heard, spoke, slack>>
  BY DEF Leave, past
<1>2. TypeOK /\ StreamInv(c) /\ TimeInv(c) /\ i0 \in Seq(Spoken)
  BY FeedTypes DEF FeedInv
<1>3. /\ i1 \in Seq(Spoken) /\ Len(i0) \in Nat /\ Len(i1) = Len(i0) + 1
      /\ i1[Len(i0) + 1] = "CLOSE" /\ \A i \in 1..Len(i0) : i1[i] = i0[i]
  BY <1>2, Appending DEF Spoken
<1>4. i1 # <<>>
  <2>1. Len(i1) # 0 /\ Len(<<>>) = 0
    BY <1>3
  <2> QED BY <2>1
<1> HIDE DEF i1
<1>5. /\ inbox'[c] = i1 /\ gone'[c] = TRUE
      /\ \A d \in Clients : d # c => inbox'[d] = inbox[d] /\ gone'[d] = gone[d]
  BY <1>1, <1>2 DEF TypeOK
<1>6. TypeOK'
  <2>1. inbox' \in [Clients -> Seq(Spoken)] /\ gone' \in [Clients -> BOOLEAN]
    BY <1>1, <1>2, <1>3 DEF TypeOK
  <2> QED BY <2>1, <1>1, <1>2 DEF TypeOK
<1>7. StreamInv(c)'
  BY <1>1, <1>2, <1>5 DEF StreamInv
<1>8. TimeInv(c)'
  <2>1. SpokenInv(c) => SpokenInv(c)'
    <3> SUFFICES ASSUME SpokenInv(c) PROVE SpokenInv(c)'
      OBVIOUS
    <3>1. ASSUME NEW i \in 1..Len(i1), i1[i] # "CLOSE" PROVE spoke[c] = clock
      <4>1. i \in 1..Len(i0)
        BY <3>1, <1>3
      <4> QED BY <4>1, <3>1, <1>3 DEF SpokenInv
    <3> QED BY <3>1, <1>1, <1>4, <1>5 DEF SpokenInv
  <2>2. BeatInv(c) => BeatInv(c)'
    BY <1>1 DEF BeatInv, Pinging
  <2> QED BY <2>1, <2>2, <1>1, <1>2 DEF TimeInv, IsOpen
<1> QED BY <1>1, <1>5, <1>6, <1>7, <1>8, OneMoves

\* Nothing the broadcaster, a session, a client or the clock does breaks the invariant.
LEMMA FeedInvNext == FeedInv /\ [Next]_vars => FeedInv'
<1> SUFFICES ASSUME FeedInv, [Next]_vars PROVE FeedInv'
  OBVIOUS
<1>1. CASE Send
  BY <1>1, SendKeeps
<1>2. CASE Tick
  BY <1>2, TickKeeps
<1>3. ASSUME NEW c \in Clients, Connect(c) \/ Run(c) \/ Read(c) \/ Speak(c) \/ Leave(c)
      PROVE  FeedInv'
  BY <1>3, ConnectKeeps, HeartbeatKeeps, ReceiveKeeps, InboundKeeps, WriteKeeps, WriteFailsKeeps,
     ReadKeeps, SpeakKeeps, LeaveKeeps DEF Run
<1>4. CASE UNCHANGED vars
  <2>1. UNCHANGED <<clock, sent, session, outbox, inbox, gone, connects, heard, spoke, slack>>
    BY <1>4 DEF vars
  <2>2. TypeOK'
    BY <2>1 DEF FeedInv, TypeOK
  <2>3. sent' \in Nat /\ sent <= sent'
    BY <2>1 DEF FeedInv, TypeOK
  <2>4. \A d \in Clients : StreamInv(d)' /\ TimeInv(d)'
    BY <2>1, <2>3, OthersKept DEF FeedInv
  <2> QED BY <2>2, <2>4 DEF FeedInv
<1> QED BY <1>1, <1>2, <1>3, <1>4 DEF Next

\* What every session of the program keeps to: the stream of frames on its way is
\* one a client may read, and the clocks of session and client agree.
THEOREM FeedInvariant == Spec => []FeedInv
<1>1. Init => FeedInv
  BY FeedInvInit
<1>2. FeedInv /\ [Next]_vars => FeedInv'
  BY FeedInvNext
<1> QED BY <1>1, <1>2, PTL DEF Spec

\* The variables hold what their declarations say, whatever the broadcaster, the
\* sessions and the clients do.
THEOREM TypeCorrect == Spec => []TypeOK
<1>1. FeedInv => TypeOK
  BY DEF FeedInv
<1> QED BY <1>1, FeedInvariant, PTL

LEMMA InvariantAnnounces == FeedInv => GapsAnnounced
<1> SUFFICES ASSUME FeedInv, NEW c \in Clients, outbox[c] # <<>>, Head(outbox[c]).kind = "EVENT"
             PROVE  LET p == Head(outbox[c]).pos IN
                    \/ p = heard[c].last + 1
                    \/ p > heard[c].last /\ heard[c].noticed
  BY DEF GapsAnnounced
<1>1. /\ outbox[c] \in Seq(Frames) /\ Told(outbox[c], heard[c])
  BY FeedTypes DEF FeedInv, StreamInv
<1>2. Len(outbox[c]) \in Nat /\ Len(outbox[c]) >= 1 /\ Head(outbox[c]) = outbox[c][1]
  BY <1>1, Reading
<1>3. /\ outbox[c][1].pos > heard[c].last /\ Announced(outbox[c], heard[c], 1)
  BY <1>1, <1>2 DEF Told, IsEvent
<1>4. outbox[c][1].pos = heard[c].last + 1 \/ heard[c].noticed
  <2>1. 1..1 - 1 = {}
    OBVIOUS
  <2> QED BY <1>3, <2>1 DEF Announced
<1> QED BY <1>2, <1>3, <1>4

\* Every subscriber of run_session gets the events in order, and a gap is announced
\* before the event after it, for every size of the ring and the outbox.
THEOREM GapsAreAnnounced == Spec => []GapsAnnounced
BY InvariantAnnounces, FeedInvariant, PTL

\* The idle check of run_session ends no session whose client is there and reads.
THEOREM OnlySlackIsIdled == Spec => []IdledWasSlack
<1>1. FeedInv => IdledWasSlack
  BY DEF FeedInv, TimeInv, IdledWasSlack
<1> QED BY <1>1, FeedInvariant, PTL

LEMMA InvariantCloses == FeedInv => SilentIsClosed
<1> SUFFICES ASSUME FeedInv, NEW c \in Clients, Selecting(c), IsWaiting(c), "HELD" \notin slack[c]
             PROVE  clock - spoke[c] <= IdleTimeout + HeartbeatInterval
  BY DEF SilentIsClosed
<1>1. IsOpen(c) /\ ~Pinging(c) /\ ~(session[c].beat <= clock)
  BY DEF Selecting, IsOpen, Pinging, IsWaiting, IsDue
<1>2. SpokenInv(c) /\ BeatInv(c)
  BY <1>1 DEF FeedInv, TimeInv
<1>3. session[c].beat - HeartbeatInterval - session[c].seen <= IdleTimeout
      /\ session[c].seen <= spoke[c]
  BY <1>1, <1>2 DEF BeatInv, SpokenInv
<1>4. /\ clock \in Nat /\ session[c].beat \in Nat /\ session[c].seen \in 0..clock /\ spoke[c] \in 0..clock
      /\ HeartbeatInterval \in Nat /\ IdleTimeout \in Nat
  BY FeedTypes, FeedAssumption DEF FeedInv
<1> QED BY ONLY <1>1, <1>3, <1>4

\* The idle check of run_session ends every silent session within a heartbeat of
\* IDLE_TIMEOUT, for every pair of intervals.
THEOREM SilentAreClosed == Spec => []SilentIsClosed
BY InvariantCloses, FeedInvariant, PTL
================================================================================
