----------------------------- MODULE LiveProofs -----------------------------
(* What GateBox shows while it happens, proved for every size of the parts:
   the ring of samples is a window of the last samples; a page that stays sees
   all that the daemon wrote; a full bar means that every layer is there; the
   collector of the samples has at most one stream open per container and
   implements collection on demand.  That the collector's streams follow in the
   end (StreamsFollow) is left to TLC. *)
EXTENDS MCLive, StatsCollector, TLAPS, FiniteSetTheorems, WellFoundedInduction,
        NaturalsInduction

-----------------------------------------------------------------------------
(* The ring of samples implements the window of the last Size samples, for
   every size and whatever the samples say. *)

(* One place on, and around: all that the remainder does in push. *)
LEMMA Turn ==
    ASSUME NEW n \in Nat, n < Size
    PROVE  (n + 1) % Size = IF n + 1 = Size THEN 0 ELSE n + 1
BY SizeAssumption

(* The three cases of push: growing, filled by this sample, turning. *)
LEMMA Grows ==
    ASSUME RingOK, NEW s \in Samples, push(s), Len(samples) + 1 < Size
    PROVE  /\ samples' = Append(samples, s) /\ next' = Len(samples) + 1 /\ ~filled /\ ~filled'
BY Turn, SizeAssumption DEF RingOK, push

(* The sample that fills the ring: the next place is the first again. *)
LEMMA Fills ==
    ASSUME RingOK, NEW s \in Samples, push(s), Len(samples) + 1 = Size
    PROVE  /\ samples' = Append(samples, s) /\ next' = 0 /\ ~filled /\ filled'
<1>1. Len(samples) \in Nat /\ Len(samples) < Size /\ Len(samples) /= Size
  BY SizeAssumption DEF RingOK
<1>2. (Len(samples) + 1) % Size = 0
  BY <1>1, Turn
<1>3. filled' = (filled \/ Len(samples) + 1 = Size)
  BY <1>1 DEF push
<1>4. ~filled
  BY <1>1 DEF RingOK
<1> QED
  BY <1>1, <1>2, <1>3, <1>4 DEF push

(* A full ring: the oldest sample gives its place to the newest. *)
LEMMA Turns ==
    ASSUME RingOK, NEW s \in Samples, push(s), Len(samples) = Size
    PROVE  /\ samples' = [samples EXCEPT ![next + 1] = s]
           /\ next' = IF next + 1 = Size THEN 0 ELSE next + 1
           /\ filled /\ filled' /\ next \in 0 .. Size - 1
<1>1. filled /\ next \in 0 .. Size - 1
  BY DEF RingOK
<1>2. next \in Nat /\ next < Size
  BY <1>1, SizeAssumption
<1>3. (next + 1) % Size = IF next + 1 = Size THEN 0 ELSE next + 1
  BY <1>2, Turn
<1>4. ~(Len(samples) < Size)
  BY SizeAssumption
<1> QED
  BY <1>1, <1>3, <1>4 DEF push

(* There is no fourth case. *)
LEMMA Cases ==
    ASSUME RingOK
    PROVE  \/ Len(samples) + 1 < Size
           \/ Len(samples) + 1 = Size
           \/ Len(samples) = Size
<1>1. Len(samples) \in Nat /\ Len(samples) <= Size
  BY DEF RingOK
<1> QED
  BY <1>1, SizeAssumption

(* A push keeps the shape of the ring. *)
LEMMA PushKeepsShape ==
    ASSUME RingOK, NEW s \in Samples, push(s)
    PROVE  RingOK'
<1>1. CASE Len(samples) + 1 < Size
  <2>1. samples' = Append(samples, s) /\ next' = Len(samples) + 1 /\ ~filled'
    BY <1>1, Grows
  <2>2. samples' \in Seq(Samples) /\ Len(samples') = Len(samples) + 1
    BY <2>1 DEF RingOK
  <2>3. filled' = FALSE /\ Len(samples') /= Size /\ Len(samples') <= Size /\ next' = Len(samples')
    <3>1. filled' \in BOOLEAN
      BY <1>1, SizeAssumption DEF push, RingOK
    <3> QED
      BY <1>1, <2>1, <2>2, <3>1, SizeAssumption DEF RingOK
  <2> QED
    BY <2>2, <2>3 DEF RingOK
<1>2. CASE Len(samples) + 1 = Size
  <2>1. samples' = Append(samples, s) /\ next' = 0 /\ filled'
    BY <1>2, Fills
  <2>2. samples' \in Seq(Samples) /\ Len(samples') = Size
    BY <1>2, <2>1 DEF RingOK
  <2>a. Len(samples) < Size
    BY <1>2, SizeAssumption DEF RingOK
  <2>3. filled' \in BOOLEAN
    BY <2>a DEF push
  <2> QED
    BY <2>1, <2>2, <2>3, SizeAssumption DEF RingOK
<1>3. CASE Len(samples) = Size
  <2>1. /\ samples' = [samples EXCEPT ![next + 1] = s]
        /\ next' = IF next + 1 = Size THEN 0 ELSE next + 1
        /\ filled' /\ next \in 0 .. Size - 1
    BY <1>3, Turns
  <2>2. samples' \in Seq(Samples) /\ Len(samples') = Size
    BY <1>3, <2>1, SizeAssumption DEF RingOK
  <2>0. ~(Len(samples) < Size)
    BY <1>3, SizeAssumption
  <2>3. filled' \in BOOLEAN
    BY <2>0 DEF push
  <2> QED
    BY <2>1, <2>2, <2>3, SizeAssumption DEF RingOK
<1> QED
  BY <1>1, <1>2, <1>3, Cases

(* The ring keeps its shape: what is read from it is always well defined. *)
THEOREM RingStaysOK == RingSpec => []RingOK
<1>1. RingInit => RingOK
  <2> SUFFICES ASSUME RingInit PROVE RingOK
    OBVIOUS
  <2>1. samples = <<>> /\ next = 0 /\ filled = FALSE
    BY DEF RingInit
  <2>2. samples \in Seq(Samples) /\ Len(samples) = 0
    BY <2>1
  <2>3. Size \in Nat /\ Size /= 0 /\ 0 <= Size
    BY SizeAssumption
  <2> QED
    BY <2>1, <2>2, <2>3 DEF RingOK
<1>2. RingOK /\ [RingNext]_ringVars => RingOK'
  <2> SUFFICES ASSUME RingOK, [RingNext]_ringVars PROVE RingOK'
    OBVIOUS
  <2>1. CASE RingNext
    BY <2>1, PushKeepsShape DEF RingNext
  <2>2. CASE UNCHANGED ringVars
    BY <2>2 DEF ringVars, RingOK
  <2> QED
    BY <2>1, <2>2
<1> QED
  BY <1>1, <1>2, PTL DEF RingSpec

(* What is read from a full ring, place by place. *)
ReadFrom(r, n) == SubSeq(r, n + 1, Size) \o SubSeq(r, 1, n)

LEMMA ReadAround ==
    ASSUME NEW r \in Seq(Samples), NEW n \in 0 .. Size - 1, Len(r) = Size
    PROVE  /\ ReadFrom(r, n) \in Seq(Samples) /\ Len(ReadFrom(r, n)) = Size
           /\ \A i \in 1 .. Size :
                ReadFrom(r, n)[i] = r[IF n + i <= Size THEN n + i ELSE n + i - Size]
<1>1. /\ SubSeq(r, n + 1, Size) \in Seq(Samples)
      /\ Len(SubSeq(r, n + 1, Size)) = Size - n
      /\ \A i \in 1 .. Size - n : SubSeq(r, n + 1, Size)[i] = r[n + i]
  BY SizeAssumption
<1>2. /\ SubSeq(r, 1, n) \in Seq(Samples)
      /\ Len(SubSeq(r, 1, n)) = n
      /\ \A i \in 1 .. n : SubSeq(r, 1, n)[i] = r[i]
  BY SizeAssumption
<1> QED
  BY <1>1, <1>2, SizeAssumption DEF ReadFrom

(* The history of a full ring, place by place. *)
LEMMA HistoryOfFull ==
    ASSUME RingOK, filled
    PROVE  /\ history \in Seq(Samples) /\ Len(history) = Size
           /\ \A i \in 1 .. Size : history[i] = samples[IF next + i <= Size THEN next + i
                                                        ELSE next + i - Size]
<1>1. /\ samples \in Seq(Samples) /\ Len(samples) = Size /\ next \in 0 .. Size - 1
      /\ history = ReadFrom(samples, next)
  BY DEF RingOK, history, ReadFrom
<1> QED
  BY <1>1, ReadAround

(* The same, after a push. *)
LEMMA HistoryOfFullNext ==
    ASSUME RingOK', filled'
    PROVE  /\ history' \in Seq(Samples) /\ Len(history') = Size
           /\ \A i \in 1 .. Size : history'[i] = samples'[IF next' + i <= Size THEN next' + i
                                                          ELSE next' + i - Size]
<1>1. /\ samples' \in Seq(Samples) /\ Len(samples') = Size /\ next' \in 0 .. Size - 1
      /\ history' = ReadFrom(samples', next')
  BY DEF RingOK, history, ReadFrom
<1> QED
  BY <1>1, ReadAround

(* What the shape says of the sequence itself. *)
LEMMA ShapeFacts ==
    ASSUME RingOK
    PROVE  /\ samples \in Seq(Samples) /\ Len(samples) \in Nat /\ Len(samples) <= Size
           /\ filled => Len(samples) = Size /\ next \in 0 .. Size - 1
           /\ ~filled => Len(samples) < Size
BY SizeAssumption DEF RingOK

(* A sample taken is a step of the window. *)
LEMMA HistorySlides ==
    ASSUME RingOK, RingOK', NEW s \in Samples, push(s)
    PROVE  history' = Window!Slide(history, s)
<1>1. CASE Len(samples) + 1 < Size
  <2>1. samples' = Append(samples, s) /\ ~filled /\ ~filled'
    BY <1>1, Grows
  <2>2. history = samples /\ history' = samples'
    BY <2>1 DEF history
  <2>3. Len(samples) < Size
    BY <1>1, ShapeFacts, SizeAssumption
  <2> QED
    BY <2>1, <2>2, <2>3 DEF Window!Slide
<1>2. CASE Len(samples) + 1 = Size
  <2>1. samples' = Append(samples, s) /\ next' = 0 /\ ~filled /\ filled'
    BY <1>2, Fills
  <2>2. history = samples
    BY <2>1 DEF history
  <2>3. /\ Len(samples') = Size /\ samples' \in Seq(Samples)
        /\ history' = SubSeq(samples', 0 + 1, Size) \o SubSeq(samples', 1, 0)
    BY <2>1, <1>2, ShapeFacts, SizeAssumption DEF history
  <2>4. SubSeq(samples', 1, Size) = samples'
    BY <2>3
  <2>5. SubSeq(samples', 1, 0) = <<>>
    BY <2>3
  <2>6. history' = samples'
    BY <2>3, <2>4, <2>5
  <2>7. Len(samples) < Size
    BY <1>2, ShapeFacts, SizeAssumption
  <2> QED
    BY <2>1, <2>2, <2>6, <2>7 DEF Window!Slide
<1>3. CASE Len(samples) = Size
  <2>1. /\ samples' = [samples EXCEPT ![next + 1] = s]
        /\ next' = IF next + 1 = Size THEN 0 ELSE next + 1
        /\ filled /\ filled' /\ next \in 0 .. Size - 1
    BY <1>3, Turns
  <2>2. /\ history \in Seq(Samples) /\ Len(history) = Size
        /\ \A i \in 1 .. Size : history[i] = samples[IF next + i <= Size THEN next + i
                                                     ELSE next + i - Size]
    BY <2>1, HistoryOfFull
  <2>3. /\ history' \in Seq(Samples) /\ Len(history') = Size
        /\ \A i \in 1 .. Size : history'[i] = samples'[IF next' + i <= Size THEN next' + i
                                                       ELSE next' + i - Size]
    BY <2>1, HistoryOfFullNext
  <2>4. Window!Slide(history, s) = Append(Tail(history), s)
    BY <2>2, SizeAssumption DEF Window!Slide
  <2>5. /\ Append(Tail(history), s) \in Seq(Samples)
        /\ Len(Append(Tail(history), s)) = Size
        /\ \A i \in 1 .. Size - 1 : Append(Tail(history), s)[i] = history[i + 1]
        /\ Append(Tail(history), s)[Size] = s
    BY <2>2, SizeAssumption
  <2>6. ASSUME NEW i \in 1 .. Size - 1
        PROVE  history'[i] = history[i + 1]
    <3>1. i + 1 \in 1 .. Size /\ i \in 1 .. Size /\ next \in Nat /\ i \in Nat
      BY <2>1, SizeAssumption
    <3> DEFINE place == IF next + (i + 1) <= Size THEN next + (i + 1) ELSE next + (i + 1) - Size
    <3>2. history[i + 1] = samples[place]
      BY <2>2, <3>1
    <3>3. history'[i] = samples'[place]
      BY <2>1, <2>3, <3>1, SizeAssumption
    <3>4. place /= next + 1 /\ place \in 1 .. Size
      BY <2>1, <3>1, SizeAssumption
    <3>5. samples'[place] = samples[place]
      BY <1>3, <2>1, <3>4, ShapeFacts
    <3> QED
      BY <3>2, <3>3, <3>5
  <2>7. history'[Size] = s
    <3>1. history'[Size] = samples'[next + 1]
      BY <2>1, <2>3, SizeAssumption
    <3>2. next + 1 \in 1 .. Len(samples)
      BY <1>3, <2>1, SizeAssumption
    <3> QED
      BY <2>1, <3>1, <3>2, ShapeFacts
  <2>8. \A i \in 1 .. Size : history'[i] = Append(Tail(history), s)[i]
    BY <2>5, <2>6, <2>7, SizeAssumption
  <2>9. history' = Append(Tail(history), s)
    BY <2>3, <2>5, <2>8, SizeAssumption
  <2> QED
    BY <2>4, <2>9
<1> QED
  BY <1>1, <1>2, <1>3, Cases

(* The history of the ring is the window of the last Size samples. *)
THEOREM RingImplementsWindow == RingSpec => HistoryIsWindow
<1>1. RingInit => Window!Init
  BY DEF RingInit, history, Window!Init
<1>2. RingOK /\ RingOK' /\ [RingNext]_ringVars => [Window!Take]_(Window!vars)
  <2> SUFFICES ASSUME RingOK, RingOK', [RingNext]_ringVars PROVE [Window!Take]_(Window!vars)
    OBVIOUS
  <2>1. CASE RingNext
    <3>1. PICK s \in Samples : push(s)
      BY <2>1 DEF RingNext
    <3> QED
      BY <3>1, HistorySlides DEF Window!Take
  <2>2. CASE UNCHANGED ringVars
    BY <2>2 DEF ringVars, history, Window!vars
  <2> QED
    BY <2>1, <2>2
<1> QED
  BY <1>1, <1>2, RingStaysOK, PTL DEF RingSpec, HistoryIsWindow, Window!Spec

(* The ring is a part of what the pages are shown: its window is one there, too. *)
THEOREM RingServesPages == MCSpec => HistoryIsWindow
<1>1. MCInit => RingInit
  BY DEF MCInit
<1>2. [MCNext]_<<part, ringVars, socket, progress, polling>> => [RingNext]_ringVars
  BY DEF MCNext
<1> QED
  BY <1>1, <1>2, RingImplementsWindow, PTL DEF MCSpec, RingSpec

(* What is shown as the latest is the end of the history. *)
THEOREM RingLatestIsLast == RingSpec => []LatestEndsHistory
<1>1. RingOK => LatestEndsHistory
  <2> SUFFICES ASSUME RingOK, samples /= <<>> PROVE latest = history[Len(history)]
    BY DEF LatestEndsHistory
  <2>1. CASE ~filled
    <3>1. history = samples /\ next = Len(samples) /\ next /= 0
      BY <2>1, ShapeFacts DEF RingOK, history
    <3> QED
      BY <3>1 DEF latest
  <2>2. CASE filled
    <3>1. /\ Len(history) = Size /\ next \in 0 .. Size - 1 /\ Len(samples) = Size
          /\ history[Size] = samples[IF next + Size <= Size THEN next + Size ELSE next + Size - Size
               ]
      BY <2>2, HistoryOfFull, ShapeFacts, SizeAssumption
    <3>2. CASE next = 0
      BY <3>1, <3>2, SizeAssumption DEF latest
    <3>3. CASE next /= 0
      BY <3>1, <3>3, SizeAssumption DEF latest
    <3> QED
      BY <3>2, <3>3
  <2> QED
    BY <2>1, <2>2 DEF RingOK
<1> QED
  BY <1>1, RingStaysOK, PTL

-----------------------------------------------------------------------------
(* The websockets of a console, a log and a pull: what the page got, what our
   side carries and what is still to be read are, one after the other, what
   the daemon wrote. *)

(* Two sequences with the same members in the same places are the same. *)
LEMMA Same ==
  ASSUME NEW W, NEW s \in Seq(W), NEW t \in Seq(W), Len(s) = Len(t),
         \A i \in 1..Len(s) : s[i] = t[i]
  PROVE  s = t
OBVIOUS

(* Two sequences one after the other. *)
LEMMA Joined ==
  ASSUME NEW W, NEW s \in Seq(W), NEW t \in Seq(W)
  PROVE  /\ s \o t \in Seq(W) /\ Len(s \o t) = Len(s) + Len(t)
         /\ \A i \in 1..Len(s \o t) : (s \o t)[i] = IF i <= Len(s) THEN s[i] ELSE t[i - Len(s)]
         /\ s \o <<>> = s /\ <<>> \o s = s
OBVIOUS

(* Which two of three are joined first does not matter. *)
LEMMA Around ==
  ASSUME NEW W, NEW s \in Seq(W), NEW t \in Seq(W), NEW u \in Seq(W)
  PROVE  (s \o t) \o u = s \o (t \o u)
<1>1. /\ Len(s) \in Nat /\ Len(t) \in Nat /\ Len(u) \in Nat
      /\ s \o t \in Seq(W) /\ t \o u \in Seq(W)
      /\ Len(s \o t) = Len(s) + Len(t) /\ Len(t \o u) = Len(t) + Len(u)
  BY Joined
<1>2. /\ (s \o t) \o u \in Seq(W) /\ s \o (t \o u) \in Seq(W)
      /\ Len((s \o t) \o u) = Len(s) + Len(t) + Len(u)
      /\ Len(s \o (t \o u)) = Len(s) + Len(t) + Len(u)
  <2>1. /\ (s \o t) \o u \in Seq(W) /\ Len((s \o t) \o u) = Len(s \o t) + Len(u)
    BY <1>1, Joined
  <2>2. /\ s \o (t \o u) \in Seq(W) /\ Len(s \o (t \o u)) = Len(s) + Len(t \o u)
    BY <1>1, Joined
  <2> QED
    BY <1>1, <2>1, <2>2
<1>3. \A i \in 1..Len((s \o t) \o u) : ((s \o t) \o u)[i] = (s \o (t \o u))[i]
  OBVIOUS
<1> QED
  BY <1>2, <1>3, Same

(* A piece of a stream and what is left of it. *)
LEMMA Takes ==
  ASSUME NEW W, NEW s \in Seq(W), NEW n \in 1..Len(s)
  PROVE  /\ SubSeq(s, 1, n) \in Seq(W) /\ SubSeq(s, n + 1, Len(s)) \in Seq(W)
         /\ SubSeq(s, 1, n) \o SubSeq(s, n + 1, Len(s)) = s
OBVIOUS

-----------------------------------------------------------------------------
Words == {"out", "err", "layer", "done", "error", "refused"}

(* The same, for what is said on a stream. *)
LEMMA AroundWords ==
  \A s, t, u \in Seq(Words) : (s \o t) \o u = s \o (t \o u)
BY Around

Shown(w) == IF w = "error" THEN "layer" ELSE w

(* A message has a word for each word of the stream, an error as progress. *)
LEMMA MessageOf ==
  ASSUME NEW u \in Seq(Words)
  PROVE  /\ Socket!Message(u) \in Seq(Words) /\ Len(Socket!Message(u)) = Len(u)
         /\ \A i \in 1..Len(u) : Socket!Message(u)[i] = Shown(u[i])
<1> DEFINE m == [i \in 1..Len(u) |-> Shown(u[i])]
<1>1. Len(u) \in Nat /\ DOMAIN u = 1..Len(u) /\ \A i \in 1..Len(u) : u[i] \in Words
  OBVIOUS
<1>2. Socket!Message(u) = m
  BY <1>1 DEF Socket!Message, Shown
<1>3. m \in [1..Len(u) -> Words]
  BY <1>1 DEF Words, Shown
<1>4. m \in Seq(Words)
  BY <1>1, <1>3
<1>5. Len(m) = Len(u)
  BY <1>1, <1>4
<1> QED
  BY <1>1, <1>2, <1>4, <1>5

(* What is shown of two pieces is what is shown of the one and the other. *)
LEMMA MessageJoins ==
  ASSUME NEW s \in Seq(Words), NEW t \in Seq(Words)
  PROVE  Socket!Message(s \o t) = Socket!Message(s) \o Socket!Message(t)
<1> DEFINE l == Socket!Message(s \o t)  a == Socket!Message(s)  b == Socket!Message(t)
<1>0. /\ s \o t \in Seq(Words) /\ Len(s \o t) = Len(s) + Len(t) /\ Len(s) \in Nat /\ Len(t) \in Nat
  BY Joined
<1>1. /\ l \in Seq(Words) /\ Len(l) = Len(s) + Len(t)
      /\ \A i \in 1..Len(l) : l[i] = Shown((s \o t)[i])
  BY <1>0, MessageOf
<1>2. a \in Seq(Words) /\ Len(a) = Len(s) /\ \A i \in 1..Len(s) : a[i] = Shown(s[i])
  BY MessageOf
<1>3. b \in Seq(Words) /\ Len(b) = Len(t) /\ \A i \in 1..Len(t) : b[i] = Shown(t[i])
  BY MessageOf
<1> HIDE DEF l, a, b
<1>4. /\ a \o b \in Seq(Words) /\ Len(a \o b) = Len(l)
      /\ \A i \in 1..Len(l) : (a \o b)[i] = IF i <= Len(s) THEN a[i] ELSE b[i - Len(s)]
  <2>0. a \in Seq(Words) /\ b \in Seq(Words)
    BY <1>2, <1>3
  <2>1. /\ a \o b \in Seq(Words) /\ Len(a \o b) = Len(a) + Len(b)
        /\ \A i \in 1..Len(a \o b) : (a \o b)[i] = IF i <= Len(a) THEN a[i] ELSE b[i - Len(a)]
    BY <2>0, Joined
  <2> QED
    BY <1>1, <1>2, <1>3, <2>1
<1>5. \A i \in 1..Len(l) : (s \o t)[i] = IF i <= Len(s) THEN s[i] ELSE t[i - Len(s)]
  BY <1>0, <1>1, Joined
<1>6. ASSUME NEW i \in 1..Len(l) PROVE l[i] = (a \o b)[i]
  <2>1. CASE i <= Len(s)
    <3>1. i \in 1..Len(s)
      BY <2>1, <1>0, <1>1
    <3> QED
      BY <2>1, <3>1, <1>1, <1>2, <1>4, <1>5
  <2>2. CASE ~(i <= Len(s))
    <3>1. i - Len(s) \in 1..Len(t)
      BY <2>2, <1>0, <1>1
    <3> QED
      BY <2>2, <3>1, <1>1, <1>3, <1>4, <1>5
  <2> QED
    BY <2>1, <2>2
<1>7. l = a \o b
  BY <1>1, <1>4, <1>6, Same
<1> QED
  BY <1>7 DEF l, a, b

(* Without an error the message is what was said. *)
LEMMA MessagePlain ==
  ASSUME NEW s \in Seq(Words), ~Socket!Says("error", s)
  PROVE  Socket!Message(s) = s
<1>1. \A i \in 1..Len(s) : s[i] # "error"
  BY DEF Socket!Says
<1>2. \A i \in 1..Len(s) : Socket!Message(s)[i] = s[i]
  BY <1>1, MessageOf DEF Shown
<1> QED
  BY <1>2, MessageOf, Same

(* Nothing said is nothing sent. *)
LEMMA MessageNone ==
  Socket!Message(<<>>) = <<>> /\ \A w : ~Socket!Says(w, <<>>) /\ <<>> \in Seq(Words)
<1>1. <<>> \in Seq(Words) /\ Len(<<>>) = 0
  OBVIOUS
<1>2. \A w : ~Socket!Says(w, <<>>)
  <2>1. DOMAIN <<>> = {}
    OBVIOUS
  <2> QED
    BY <2>1, Zenon DEF Socket!Says
<1> QED
  BY <1>1, <1>2, MessagePlain

(* What is said in two pieces is said in the one or in the other. *)
LEMMA SaysJoins ==
  ASSUME NEW s \in Seq(Words), NEW t \in Seq(Words), NEW w
  PROVE  Socket!Says(w, s \o t) <=> Socket!Says(w, s) \/ Socket!Says(w, t)
<1>1. /\ s \o t \in Seq(Words) /\ Len(s \o t) = Len(s) + Len(t) /\ Len(s) \in Nat /\ Len(t) \in Nat
      /\ DOMAIN s = 1..Len(s) /\ DOMAIN t = 1..Len(t) /\ DOMAIN (s \o t) = 1..(Len(s) + Len(t))
      /\ \A i \in 1..Len(s) : (s \o t)[i] = s[i]
      /\ \A i \in 1..Len(t) : (s \o t)[Len(s) + i] = t[i]
  OBVIOUS
<1>2. ASSUME Socket!Says(w, s) PROVE Socket!Says(w, s \o t)
  <2>1. PICK i \in 1..Len(s) : s[i] = w
    BY <1>1, <1>2 DEF Socket!Says
  <2>2. i \in DOMAIN (s \o t) /\ (s \o t)[i] = w
    BY <2>1, <1>1
  <2> QED
    BY <2>2 DEF Socket!Says
<1>3. ASSUME Socket!Says(w, t) PROVE Socket!Says(w, s \o t)
  <2>1. PICK i \in 1..Len(t) : t[i] = w
    BY <1>1, <1>3 DEF Socket!Says
  <2>2. Len(s) + i \in DOMAIN (s \o t) /\ (s \o t)[Len(s) + i] = w
    BY <2>1, <1>1
  <2> QED
    BY <2>2 DEF Socket!Says
<1>4. ASSUME Socket!Says(w, s \o t) PROVE Socket!Says(w, s) \/ Socket!Says(w, t)
  <2>1. PICK i \in 1..(Len(s) + Len(t)) : (s \o t)[i] = w
    BY <1>1, <1>4 DEF Socket!Says
  <2>2. CASE i <= Len(s)
    <3>1. i \in DOMAIN s /\ s[i] = w
      BY <2>1, <2>2, <1>1
    <3> QED
      BY <3>1 DEF Socket!Says
  <2>3. CASE ~(i <= Len(s))
    <3>1. i - Len(s) \in 1..Len(t) /\ Len(s) + (i - Len(s)) = i
      BY <2>1, <2>3, <1>1
    <3>2. i - Len(s) \in DOMAIN t /\ t[i - Len(s)] = w
      BY <2>1, <3>1, <1>1
    <3> QED
      BY <3>2 DEF Socket!Says
  <2> QED
    BY <2>2, <2>3
<1> QED
  BY <1>2, <1>3, <1>4

-----------------------------------------------------------------------------
(* Where the handler may be before the stream is there, while it is, and after. *)
Before == {"open", "detect", "create", "attach", "inspect", "request"}
Serving == {"top", "read", "write", "send", "tell"}
Finished == {"return", "end"}

Pages == [link : {"open", "closed", "silent"}, keys : Seq({"key"}), sent : Nat, got : Seq(Words)]
Sessions == [at : {"idle", "running", "ended", "broken"}, out : Seq(Words), wrote : Seq(Words),
             keys : Nat]
Handlers == [at : Before \cup Serving \cup Finished, tried : Nat, have : Seq(Words),
             end : {"", "write", "error"}]
Others == [at : {"none", "read", "write", "cancel", "end"}, have : Seq(Words), late : BOOLEAN]

SocketTyped ==
  /\ kind \in {"exec", "logs", "pull"} /\ tty \in BOOLEAN
  /\ page \in Pages /\ session \in Sessions /\ handler \in Handlers /\ other \in Others
  /\ ctx \in {"live", "cancelled"} /\ conn \in {"open", "closed"}
  /\ pipe \in {"none", "open", "closed"} /\ deadline \in {"none", "set", "passed"}

(* Which goroutine is where, and what is closed then. *)
Places ==
  /\ handler.at \in Before => pipe = "none" /\ page.got = <<>> /\ handler.end = ""
  /\ handler.at \in Serving => pipe = "open"
  /\ pipe = "none" => other.at = "none" /\ session.at = "idle"
  /\ pipe # "none" => other.at # "none" /\ session.at # "idle"
  /\ other.at # "write" => other.have = <<>>
  /\ other.at \notin {"cancel", "end"} => ~other.late
  /\ handler.at # "send" => handler.have = <<>>
  /\ handler.at # "end" => conn = "open" /\ pipe # "closed"
  /\ ctx = "cancelled" => handler.at = "end" \/ other.at = "end"
  /\ IF kind = "exec"
     THEN handler.at \notin {"send", "tell"} /\ handler.end # "error"
     ELSE /\ handler.at \notin {"read", "write"} /\ handler.end # "write"
          /\ other.at \in {"none", "read", "end"} /\ deadline = "none"

(* What the daemon says: before there is a stream nothing, an error only of a pull. *)
Spoken ==
  /\ session.at = "idle" => session.out = <<>> /\ session.wrote = <<>>
  /\ kind # "pull" => ~Socket!Says("error", session.wrote)

(* What a page that stays was shown, and what is still on its way to it. *)
Console ==
  kind = "exec" /\ page.link = "open" /\ pipe # "none" /\ handler.end # "write" =>
    /\ handler.at \in Finished => other.at = "end"
    /\ ~other.late =>
         /\ (page.got \o other.have) \o session.out = session.wrote
         /\ other.at \in {"cancel", "end"} => session.out = <<>> /\ session.at \in Socket!Ended

Wrong == session.at = "broken" \/ Socket!Says("error", session.wrote)
Carried ==
  kind # "exec" /\ page.link = "open" /\ pipe # "none" =>
    /\ other.at = "end" => handler.at = "end"
    /\ handler.at \in {"top", "send"} =>
         /\ (page.got \o Socket!Message(handler.have)) \o Socket!Message(session.out)
              = Socket!Message(session.wrote)
         /\ Socket!Says("error", session.wrote)
              <=> handler.end = "error" \/ Socket!Says("error", session.out)
    /\ handler.at \in {"tell"} \cup Finished => session.at \in Socket!Ended
    /\ handler.at = "tell" => page.got = Socket!Message(session.wrote) /\ Wrong
    /\ handler.at \in Finished =>
         page.got = Socket!Message(session.wrote) \o IF Wrong THEN <<"error">> ELSE <<>>

SocketInv == SocketTyped /\ Places /\ Spoken /\ Console /\ Carried

(* At the start nothing is said and nothing is carried. *)
LEMMA SocketInit == Socket!Init => SocketInv
<1> SUFFICES ASSUME Socket!Init PROVE SocketInv
  OBVIOUS
<1>1. SocketTyped
  <2>1. <<>> \in Seq(Words) /\ <<>> \in Seq({"key"}) /\ 0 \in Nat
    OBVIOUS
  <2>2. kind \in {"exec", "logs", "pull"} /\ tty \in BOOLEAN
    BY DEF Socket!Init, Socket!Kinds
  <2> QED
    BY <2>1, <2>2 DEF Socket!Init, SocketTyped, Before, Pages, Sessions, Handlers, Others
<1>2. Places
  BY DEF Socket!Init, Places, Before, Serving
<1>3. Spoken
  BY MessageNone DEF Socket!Init, Spoken
<1>4. Console /\ Carried
  BY DEF Socket!Init, Console, Carried
<1> QED
  BY <1>1, <1>2, <1>3, <1>4 DEF SocketInv

(* The invariant is what the page has to be shown. *)
LEMMA SocketSays == SocketInv => Socket!StayersSeeAll
<1> SUFFICES ASSUME SocketInv, Socket!Over, pipe = "closed", page.link = "open", ~other.late,
             handler.end # "write"
    PROVE page.got = Socket!Due
  BY DEF Socket!StayersSeeAll
<1>1. handler.at = "end" /\ other.at = "end"
  BY DEF Socket!Over, SocketInv, Places
<1>2. CASE kind = "exec"
  <2>1. /\ page.got \o other.have \o session.out = session.wrote
        /\ other.have = <<>> /\ session.out = <<>>
    BY <1>1, <1>2 DEF SocketInv, Places, Console
  <2>2. page.got \in Seq(Words) /\ session.wrote \in Seq(Words)
    BY DEF SocketInv, SocketTyped, Pages, Sessions
  <2>3. page.got = session.wrote
    BY <2>1, <2>2, Joined
  <2>4. Socket!Message(session.wrote) = session.wrote
    BY <1>2, <2>2, MessagePlain DEF SocketInv, Spoken
  <2>5. Socket!Due = Socket!Message(session.wrote) \o <<>>
    BY <1>2 DEF Socket!Due
  <2> QED
    BY <2>2, <2>3, <2>4, <2>5, Joined
<1>3. CASE kind # "exec"
  BY <1>1, <1>3 DEF SocketInv, Carried, Finished, Socket!Due, Wrong
<1> QED
  BY <1>2, <1>3

(* The types of the fields the steps change. *)
LEMMA Fields ==
  ASSUME SocketInv
  PROVE  /\ kind \in {"exec", "logs", "pull"}
         /\ page \in Pages /\ session \in Sessions /\ handler \in Handlers /\ other \in Others
         /\ page.got \in Seq(Words) /\ page.keys \in Seq({"key"}) /\ page.sent \in Nat
         /\ session.out \in Seq(Words) /\ session.wrote \in Seq(Words)
         /\ handler.have \in Seq(Words) /\ handler.tried \in Nat /\ other.have \in Seq(Words)
BY DEF SocketInv, SocketTyped, Pages, Sessions, Handlers, Others

(* Steps that only move the handler, the other goroutine, or the page. *)
LEMMA HandlerGoes ==
  ASSUME SocketInv, NEW a \in Before \cup Serving \cup Finished, handler' = [handler EXCEPT !.at = a]
  PROVE  handler' \in Handlers /\ handler'.at = a /\ handler'.have = handler.have
         /\ handler'.end = handler.end
BY Fields DEF Handlers

(* The page types a key. *)
LEMMA StepPageTypes == SocketInv /\ Socket!PageTypes => SocketInv'
<1> SUFFICES ASSUME SocketInv, Socket!PageTypes PROVE SocketInv'
  OBVIOUS
<1>1. page' \in Pages /\ page'.link = page.link /\ page'.got = page.got
  <2>1. Append(page.keys, "key") \in Seq({"key"}) /\ page.sent + 1 \in Nat
    BY Fields
  <2>2. page' = [page EXCEPT !.keys = Append(page.keys, "key"), !.sent = page.sent + 1]
    BY DEF Socket!PageTypes
  <2> QED
    BY <2>1, <2>2, Fields DEF Pages
<1>2. UNCHANGED <<kind, tty, session, handler, other, ctx, conn, pipe, deadline>>
  BY DEF Socket!PageTypes
<1> QED
  <2>1. SocketTyped' /\ Places'
    BY <1>1, <1>2 DEF SocketInv, SocketTyped, Places
  <2>2. Spoken' /\ Console'
    BY <1>1, <1>2 DEF SocketInv, Spoken, Console
  <2>3. Carried'
    BY <1>1, <1>2 DEF SocketInv, Carried, Wrong
  <2> QED
    BY <2>1, <2>2, <2>3 DEF SocketInv

(* The page closes or falls silent: nothing is owed to it from then on. *)
LEMMA StepPageLeaves ==
  ASSUME SocketInv, NEW how \in {"closed", "silent"}, Socket!PageLeaves(how)
  PROVE  SocketInv'
<1>1. page' \in Pages /\ page'.link # "open" /\ page'.got = page.got
  BY Fields DEF Pages, Socket!PageLeaves
<1>2. UNCHANGED <<kind, tty, session, handler, other, ctx, conn, pipe, deadline>>
  BY DEF Socket!PageLeaves
<1> QED
  <2>1. SocketTyped'
    BY <1>1, <1>2 DEF SocketInv, SocketTyped
  <2>2. Places'
    BY <1>1, <1>2 DEF SocketInv, Places
  <2>3. Spoken' /\ Console'
    BY <1>1, <1>2 DEF SocketInv, Spoken, Console
  <2>4. Carried'
    BY <1>1, <1>2 DEF SocketInv, Carried, Wrong
  <2> QED
    BY <2>1, <2>2, <2>3, <2>4 DEF SocketInv

(* The daemon says more: it lies at the end of what it wrote and of what is still
   to be read. *)
LEMMA Speaks ==
  ASSUME SocketInv, session.at = "running", NEW w \in Seq(Words),
         NEW at \in {"running", "ended", "broken"},
         session' = [session EXCEPT !.at = at, !.out = session.out \o w,
                      !.wrote = session.wrote \o w],
         Socket!Says("error", w) => kind = "pull",
         UNCHANGED <<kind, tty, page, handler, other, ctx, conn, pipe, deadline>>
  PROVE  SocketInv'
<1>1. session \in Sessions /\ page \in Pages /\ handler \in Handlers /\ other \in Others
  BY DEF SocketInv, SocketTyped
<1>2. /\ session.out \in Seq(Words) /\ session.wrote \in Seq(Words) /\ page.got \in Seq(Words)
      /\ handler.have \in Seq(Words) /\ other.have \in Seq(Words)
  BY Fields
<1>3. /\ session' \in Sessions /\ session'.at = at
      /\ session'.out = session.out \o w /\ session'.wrote = session.wrote \o w
  <2>1. session.out \o w \in Seq(Words) /\ session.wrote \o w \in Seq(Words)
    BY <1>2, Joined
  <2> QED
    BY <1>1, <2>1 DEF Sessions
<1>4. SocketTyped' /\ Places'
  <2>1. SocketTyped'
    BY <1>3 DEF SocketInv, SocketTyped
  <2>2. Places'
    BY <1>3 DEF SocketInv, Places
  <2> QED
    BY <2>1, <2>2
<1>5. Spoken'
  BY <1>2, <1>3, SaysJoins DEF SocketInv, Spoken
<1>6. Console'
  <2>1. ASSUME kind = "exec", page.link = "open", pipe # "none", handler.end # "write", ~other.late
        PROVE  /\ (page.got \o other.have) \o session'.out = session'.wrote
               /\ other.at \notin {"cancel", "end"}
    <3>1. /\ (page.got \o other.have) \o session.out = session.wrote
          /\ other.at \notin {"cancel", "end"}
      BY <2>1 DEF SocketInv, Console, Socket!Ended
    <3>2. page.got \o other.have \in Seq(Words)
      BY <1>2, Joined
    <3>3. \A f \in Seq(Words) : (f \o session.out) \o w = f \o (session.out \o w)
      <4>1. session.out \in Seq(Words)
        BY <1>2
      <4>2. ASSUME NEW f \in Seq(Words) PROVE (f \o session.out) \o w = f \o (session.out \o w)
        BY <4>1, AroundWords, Zenon
      <4> QED
        BY <4>2
    <3> QED
      BY <1>3, <3>1, <3>2, <3>3
  <2> QED
    BY <2>1 DEF SocketInv, Console
<1>7. Carried'
  <2>1. ASSUME kind # "exec", page.link = "open", pipe # "none"
        PROVE  /\ other.at = "end" => handler.at = "end"
               /\ handler.at \notin {"tell"} \cup Finished
    BY <2>1 DEF SocketInv, Carried, Socket!Ended
  <2>2. ASSUME kind # "exec", page.link = "open", pipe # "none", handler.at \in {"top", "send"}
        PROVE  /\ (page.got \o Socket!Message(handler.have)) \o Socket!Message(session'.out)
                    = Socket!Message(session'.wrote)
               /\ Socket!Says("error", session'.wrote)
                    <=> handler.end = "error" \/ Socket!Says("error", session'.out)
    <3> DEFINE front == page.got \o Socket!Message(handler.have)
    <3>1. /\ front \o Socket!Message(session.out) = Socket!Message(session.wrote)
          /\ Socket!Says("error", session.wrote)
               <=> handler.end = "error" \/ Socket!Says("error", session.out)
      BY <2>2 DEF SocketInv, Carried
    <3>2. /\ front \in Seq(Words) /\ Socket!Message(session.out) \in Seq(Words)
          /\ Socket!Message(w) \in Seq(Words)
      BY <1>2, Joined, MessageOf
    <3>3. /\ Socket!Message(session.out \o w) = Socket!Message(session.out) \o Socket!Message(w)
          /\ Socket!Message(session.wrote \o w) = Socket!Message(session.wrote) \o Socket!Message(w)
      BY <1>2, MessageJoins
    <3> HIDE DEF front
    <3>4. (front \o Socket!Message(session.out)) \o Socket!Message(w)
            = front \o (Socket!Message(session.out) \o Socket!Message(w))
      BY <3>2, Around
    <3>5. front \o Socket!Message(session'.out) = Socket!Message(session'.wrote)
      BY <1>3, <3>1, <3>3, <3>4
    <3>6. /\ Socket!Says("error", session.wrote \o w)
               <=> Socket!Says("error", session.wrote) \/ Socket!Says("error", w)
          /\ Socket!Says("error", session.out \o w)
               <=> Socket!Says("error", session.out) \/ Socket!Says("error", w)
      BY <1>2, SaysJoins
    <3> QED
      BY <1>3, <3>1, <3>5, <3>6 DEF front
  <2> QED
    BY <2>1, <2>2 DEF Carried
<1> QED
  BY <1>4, <1>5, <1>6, <1>7 DEF SocketInv

(* The daemon writes, or ends with its last word. *)
LEMMA StepDaemon ==
  ASSUME SocketInv,
         \/ \E w \in Socket!Writes : Socket!DaemonWrites(w)
         \/ \E how \in {"ended", "failed", "broken"} : Socket!DaemonEnds(how)
  PROVE  SocketInv'
<1>0. /\ session \in Sessions /\ session.out \in Seq(Words) /\ session.wrote \in Seq(Words)
      /\ kind \in {"exec", "logs", "pull"}
  BY Fields
<1>1. ASSUME NEW w \in Socket!Writes, Socket!DaemonWrites(w) PROVE SocketInv'
  <2>1. w \in Words /\ w # "error"
    BY DEF Socket!Writes, Words
  <2>2. <<w>> \in Seq(Words) /\ ~Socket!Says("error", <<w>>)
    BY <2>1 DEF Socket!Says
  <2>3. /\ Append(session.out, w) = session.out \o <<w>>
        /\ Append(session.wrote, w) = session.wrote \o <<w>>
    BY <1>0, <2>1
  <2>4. session' = [session EXCEPT !.at = "running", !.out = session.out \o <<w>>,
                                   !.wrote = session.wrote \o <<w>>]
    BY <1>0, <1>1, <2>3 DEF Socket!DaemonWrites, Sessions
  <2> QED
    BY <1>1, <2>2, <2>4, Speaks DEF Socket!DaemonWrites
<1>2. ASSUME NEW how \in {"ended", "failed", "broken"}, Socket!DaemonEnds(how) PROVE SocketInv'
  <2> DEFINE final == IF kind = "pull" /\ how = "ended" THEN <<"done">>
                     ELSE IF kind = "pull" /\ how = "failed" THEN <<"error">> ELSE <<>>
             at == IF how = "failed" THEN "ended" ELSE how
  <2>1. final \in Seq(Words)
    <3>1. <<"done">> \in Seq(Words) /\ <<"error">> \in Seq(Words) /\ <<>> \in Seq(Words)
      BY DEF Words
    <3> QED
      BY <3>1
  <2>2. Socket!Says("error", final) => kind = "pull"
    BY MessageNone
  <2>3. session' = [session EXCEPT !.at = at, !.out = session.out \o final,
                     !.wrote = session.wrote \o final]
    BY <1>2 DEF Socket!DaemonEnds
  <2>4. at \in {"running", "ended", "broken"}
    OBVIOUS
  <2>5. /\ session.at = "running"
        /\ UNCHANGED <<kind, tty, page, handler, other, ctx, conn, pipe, deadline>>
    BY <1>2 DEF Socket!DaemonEnds
  <2> HIDE DEF final, at
  <2> QED
    BY <2>1, <2>2, <2>3, <2>4, <2>5, Speaks
<1> QED
  BY <1>1, <1>2

(* The steps of the handler while there is no stream. *)
LEMMA StepAsks ==
  ASSUME SocketInv, \/ \E i \in 1..Len(Socket!Asked) : Socket!Ask(i)
                    \/ Socket!NextShell
                    \/ \E ok \in BOOLEAN : Socket!Refused(ok)
                    \/ Socket!Attach
  PROVE  SocketInv'
<1> USE DEF Before, Serving, Finished
<1>1. ASSUME NEW i \in 1..Len(Socket!Asked), Socket!Ask(i) PROVE SocketInv'
  <2>1. handler.at \in Before /\ \E to \in Before : handler' = [handler EXCEPT !.at = to]
    BY <1>1 DEF Socket!Ask, Socket!Asked, Socket!Goto
  <2>2. PICK to \in Before : handler' = [handler EXCEPT !.at = to]
    BY <2>1
  <2>3. UNCHANGED <<kind, tty, page, session, other, ctx, conn, pipe, deadline>>
    BY <1>1 DEF Socket!Ask
  <2>4. /\ handler' \in Handlers /\ handler'.at \in Before /\ handler'.have = handler.have
        /\ handler'.end = handler.end
    BY <2>2, HandlerGoes
  <2> QED
    <3>1. SocketTyped'
      BY <2>1, <2>3, <2>4 DEF SocketInv, SocketTyped
    <3>2. Places'
      BY <2>1, <2>3, <2>4 DEF SocketInv, Places
    <3>3. Spoken' /\ Console'
      BY <2>1, <2>3, <2>4 DEF SocketInv, Spoken, Console
    <3>4. Carried'
      BY <2>1, <2>3, <2>4 DEF SocketInv, Carried
    <3> QED
      BY <3>1, <3>2, <3>3, <3>4 DEF SocketInv
<1>2. CASE Socket!NextShell
  <2>1. /\ handler' \in Handlers /\ handler'.at = handler.at /\ handler'.have = handler.have
        /\ handler'.end = handler.end /\ handler.at \in Before
    <3>1. handler' = [handler EXCEPT !.tried = handler.tried + 1] /\ handler.tried + 1 \in Nat
      BY <1>2, Fields DEF Socket!NextShell
    <3>2. handler.at \in Before
      BY <1>2 DEF Socket!NextShell
    <3> QED
      BY <3>1, <3>2, Fields DEF Handlers
  <2>2. UNCHANGED <<kind, tty, page, session, other, ctx, conn, pipe, deadline>>
    BY <1>2 DEF Socket!NextShell
  <2> QED
    <3>1. SocketTyped'
      BY <2>1, <2>2 DEF SocketInv, SocketTyped
    <3>2. Places'
      BY <2>1, <2>2 DEF SocketInv, Places
    <3>3. Spoken' /\ Console'
      BY <2>1, <2>2 DEF SocketInv, Spoken, Console
    <3>4. Carried'
      BY <2>1, <2>2 DEF SocketInv, Carried
    <3> QED
      BY <3>1, <3>2, <3>3, <3>4 DEF SocketInv
<1>3. ASSUME NEW ok \in BOOLEAN, Socket!Refused(ok) PROVE SocketInv'
  <2>1. handler.at \in Before /\ handler' = [handler EXCEPT !.at = "return"]
    BY <1>3 DEF Socket!Refused, Socket!Asked, Socket!Goto
  <2>2. /\ handler' \in Handlers /\ handler'.at = "return" /\ handler'.have = handler.have
        /\ handler'.end = handler.end
    BY <2>1, HandlerGoes
  <2>3. page' \in Pages
    <3>1. <<"refused">> \in Seq(Words)
      BY DEF Words
    <3>2. page.got \o <<"refused">> \in Seq(Words)
      BY <3>1, Fields, Joined
    <3>3. page' = page \/ page' = [page EXCEPT !.got = page.got \o <<"refused">>]
      BY <1>3 DEF Socket!Refused, Socket!writeText
    <3> QED
      BY <3>2, <3>3, Fields DEF Pages
  <2>4. UNCHANGED <<kind, tty, session, other, ctx, conn, pipe, deadline>>
    BY <1>3 DEF Socket!Refused
  <2>5. pipe = "none"
    BY <2>1 DEF SocketInv, Places
  <2> QED
    <3>1. SocketTyped'
      BY <2>1, <2>2, <2>3, <2>4, <2>5 DEF SocketInv, SocketTyped
    <3>2. Places'
      BY <2>1, <2>2, <2>3, <2>4, <2>5 DEF SocketInv, Places
    <3>3. Spoken' /\ Console'
      BY <2>1, <2>2, <2>3, <2>4, <2>5 DEF SocketInv, Spoken, Console
    <3>4. Carried'
      BY <2>1, <2>2, <2>3, <2>4, <2>5 DEF SocketInv, Carried
    <3> QED
      BY <3>1, <3>2, <3>3, <3>4 DEF SocketInv
<1>4. CASE Socket!Attach
  <2>1. handler.at \in Before /\ handler' = [handler EXCEPT !.at = "top"]
    BY <1>4 DEF Socket!Attach, Socket!Asked, Socket!Goto
  <2>2. /\ handler' \in Handlers /\ handler'.at = "top" /\ handler'.have = handler.have
        /\ handler'.end = handler.end
    BY <2>1, HandlerGoes
  <2>3. /\ session' \in Sessions /\ session'.at = "running" /\ session'.out = session.out
        /\ session'.wrote = session.wrote
    BY <1>4, Fields DEF Socket!Attach, Sessions
  <2>4. other' \in Others /\ other'.at = "read" /\ other'.have = other.have
    BY <1>4, Fields DEF Socket!Attach, Others
  <2>5. pipe' = "open" /\ UNCHANGED <<kind, tty, page, ctx, conn, deadline>>
    BY <1>4 DEF Socket!Attach
  <2>6. /\ page.got = <<>> /\ session.out = <<>> /\ session.wrote = <<>> /\ handler.have = <<>>
        /\ other.have = <<>> /\ pipe = "none" /\ other.at = "none" /\ session.at = "idle"
    BY <2>1 DEF SocketInv, Places, Spoken
  <2>7. <<>> \o <<>> = <<>> /\ Socket!Message(<<>>) = <<>> /\ \A w : ~Socket!Says(w, <<>>)
    BY MessageNone
  <2>8. SocketTyped'
    BY <2>2, <2>3, <2>4, <2>5 DEF SocketInv, SocketTyped
  <2>9. Places'
    <3>1. conn = "open" /\ ctx = "live" /\ deadline \in {"none", "set", "passed"}
      BY <2>1, <2>6 DEF SocketInv, SocketTyped, Places
    <3>2. handler.end = "" /\ ~other.late /\ (kind # "exec" => deadline = "none")
      BY <2>1, <2>6 DEF SocketInv, Places
    <3>3. ~other'.late
      BY <1>4, <3>2, Fields DEF Socket!Attach, Others
    <3> QED
      BY <2>2, <2>3, <2>4, <2>5, <2>6, <3>1, <3>2, <3>3 DEF Places
  <2>10. Spoken'
    BY <2>3, <2>5, <2>6, <2>7 DEF Spoken
  <2>11. Console'
    BY <2>2, <2>3, <2>4, <2>5, <2>6, <2>7 DEF Console
  <2>12. handler.end = ""
    BY <2>1 DEF SocketInv, Places
  <2>13. Carried'
    BY <2>2, <2>3, <2>4, <2>5, <2>6, <2>7, <2>12 DEF Carried
  <2> QED
    BY <2>8, <2>9, <2>10, <2>11, <2>13 DEF SocketInv
<1> QED
  BY <1>1, <1>2, <1>3, <1>4

-----------------------------------------------------------------------------
(* The console's steps. *)
LEMMA StepKeys ==
  ASSUME SocketInv, \/ Socket!SetDeadline \/ Socket!ReadKey \/ Socket!WriteKey \/ Socket!ReadEnds
  PROVE  SocketInv'
<1> USE DEF Before, Serving, Finished
<1>1. CASE Socket!SetDeadline
  <2>1. kind = "exec" /\ handler.at = "top" /\ pipe = "open"
    BY <1>1 DEF Socket!SetDeadline, SocketInv, Places
  <2>2. deadline' = "set" /\ handler' = [handler EXCEPT !.at = "read"]
    BY <1>1, <2>1 DEF Socket!SetDeadline, Socket!Goto
  <2>3. /\ handler' \in Handlers /\ handler'.at = "read" /\ handler'.have = handler.have
        /\ handler'.end = handler.end
    BY <2>2, HandlerGoes
  <2>4. UNCHANGED <<kind, tty, page, session, other, ctx, conn, pipe>>
    BY <1>1 DEF Socket!SetDeadline
  <2> QED
    <3>1. SocketTyped'
      BY <2>1, <2>2, <2>3, <2>4 DEF SocketInv, SocketTyped
    <3>2. Places'
      BY <2>1, <2>2, <2>3, <2>4 DEF SocketInv, Places
    <3>3. Spoken' /\ Console'
      BY <2>1, <2>2, <2>3, <2>4 DEF SocketInv, Spoken, Console
    <3>4. Carried'
      BY <2>1, <2>2, <2>3, <2>4 DEF SocketInv, Carried
    <3> QED
      BY <3>1, <3>2, <3>3, <3>4 DEF SocketInv
<1>2. CASE Socket!ReadKey
  <2>1. PICK to \in {"write", "top"} : handler' = [handler EXCEPT !.at = to]
    BY <1>2 DEF Socket!ReadKey, Socket!Goto
  <2>2. /\ handler' \in Handlers /\ handler'.at = to /\ handler'.have = handler.have
        /\ handler'.end = handler.end
    BY <2>1, HandlerGoes
  <2>3. kind = "exec" /\ handler.at = "read" /\ pipe = "open"
    BY <1>2 DEF Socket!ReadKey, SocketInv, Places
  <2>4. page' \in Pages /\ page'.link = page.link /\ page'.got = page.got
    <3>1. Tail(page.keys) \in Seq({"key"})
      BY <1>2, Fields DEF Socket!ReadKey
    <3>2. page' = [page EXCEPT !.keys = Tail(page.keys)]
      BY <1>2 DEF Socket!ReadKey
    <3> QED
      BY <3>1, <3>2, Fields DEF Pages
  <2>5. UNCHANGED <<kind, tty, session, other, ctx, conn, pipe, deadline>>
    BY <1>2 DEF Socket!ReadKey
  <2> QED
    <3>1. SocketTyped'
      BY <2>2, <2>3, <2>4, <2>5 DEF SocketInv, SocketTyped
    <3>2. Places'
      BY <2>2, <2>3, <2>4, <2>5 DEF SocketInv, Places
    <3>3. Spoken' /\ Console'
      BY <2>2, <2>3, <2>4, <2>5 DEF SocketInv, Spoken, Console
    <3>4. Carried'
      BY <2>2, <2>3, <2>4, <2>5 DEF SocketInv, Carried
    <3> QED
      BY <3>1, <3>2, <3>3, <3>4 DEF SocketInv
<1>3. CASE Socket!WriteKey
  <2>1. kind = "exec" /\ handler.at = "write" /\ pipe = "open"
    BY <1>3 DEF Socket!WriteKey, SocketInv, Places
  <2>2. UNCHANGED <<kind, tty, page, other, ctx, conn, pipe, deadline>>
    BY <1>3 DEF Socket!WriteKey
  <2>3. CASE /\ session' = [session EXCEPT !.keys = session.keys + 1]
             /\ handler' = [handler EXCEPT !.at = "top"]
    <3>1. /\ handler' \in Handlers /\ handler'.at = "top" /\ handler'.have = handler.have
          /\ handler'.end = handler.end
      BY <2>3, HandlerGoes
    <3>2. /\ session' \in Sessions /\ session'.at = session.at /\ session'.out = session.out
          /\ session'.wrote = session.wrote
      <4>1. session.keys + 1 \in Nat
        BY Fields DEF Sessions
      <4> QED
        BY <2>3, <4>1, Fields DEF Sessions
    <3> QED
      <4>1. SocketTyped'
        BY <2>1, <2>2, <3>1, <3>2 DEF SocketInv, SocketTyped
      <4>2. Places'
        BY <2>1, <2>2, <3>1, <3>2 DEF SocketInv, Places
      <4>3. Spoken' /\ Console'
        BY <2>1, <2>2, <3>1, <3>2 DEF SocketInv, Spoken, Console
      <4>4. Carried'
        BY <2>1, <2>2, <3>1, <3>2 DEF SocketInv, Carried
      <4> QED
        BY <4>1, <4>2, <4>3, <4>4 DEF SocketInv
  <2>4. CASE session' = session /\ handler' = [handler EXCEPT !.at = "return", !.end = "write"]
    <3>1. /\ handler' \in Handlers /\ handler'.at = "return" /\ handler'.have = handler.have
          /\ handler'.end = "write"
      BY <2>4, Fields DEF Handlers
    <3> QED
      <4>1. SocketTyped'
        BY <2>1, <2>2, <2>4, <3>1 DEF SocketInv, SocketTyped
      <4>2. Places'
        BY <2>1, <2>2, <2>4, <3>1 DEF SocketInv, Places
      <4>3. Spoken' /\ Console'
        BY <2>1, <2>2, <2>4, <3>1 DEF SocketInv, Spoken, Console
      <4>4. Carried'
        BY <2>1, <2>2, <2>4, <3>1 DEF SocketInv, Carried
      <4> QED
        BY <4>1, <4>2, <4>3, <4>4 DEF SocketInv
  <2> QED
    BY <1>3, <2>3, <2>4 DEF Socket!WriteKey, Socket!Goto
<1>4. CASE Socket!ReadEnds
  <2>1. kind = "exec" /\ handler.at = "read" /\ pipe = "open"
    BY <1>4 DEF Socket!ReadEnds, SocketInv, Places
  <2>2. handler' = [handler EXCEPT !.at = "return"]
    BY <1>4 DEF Socket!ReadEnds, Socket!Goto
  <2>3. /\ handler' \in Handlers /\ handler'.at = "return" /\ handler'.have = handler.have
        /\ handler'.end = handler.end
    BY <2>2, HandlerGoes
  <2>4. UNCHANGED <<kind, tty, page, session, other, ctx, conn, pipe, deadline>>
    BY <1>4 DEF Socket!ReadEnds
  <2>5. page.link = "open" => other.at = "end"
    BY <1>4, <2>1, Fields DEF Socket!ReadEnds, Socket!PageGone, SocketInv, Places
  <2> QED
    <3>1. SocketTyped'
      BY <2>1, <2>3, <2>4, <2>5 DEF SocketInv, SocketTyped
    <3>2. Places'
      BY <2>1, <2>3, <2>4, <2>5 DEF SocketInv, Places
    <3>3. Spoken' /\ Console'
      BY <2>1, <2>3, <2>4, <2>5 DEF SocketInv, Spoken, Console
    <3>4. Carried'
      BY <2>1, <2>3, <2>4, <2>5 DEF SocketInv, Carried
    <3> QED
      BY <3>1, <3>2, <3>3, <3>4 DEF SocketInv
<1> QED
  BY <1>1, <1>2, <1>3, <1>4

(* The output of a console on its way to the page. *)
LEMMA StepOutput ==
  ASSUME SocketInv, \/ Socket!OutputRead \/ Socket!OutputEnds \/ Socket!OutputCancel
                    \/ \E ok \in BOOLEAN : Socket!OutputWrite(ok)
  PROVE  SocketInv'
<1> USE DEF Before, Serving, Finished
<1>1. CASE Socket!OutputRead
  <2>1. PICK n \in 1..Len(session.out) :
          /\ session' = [session EXCEPT !.out = SubSeq(session.out, n + 1, Len(session.out))]
          /\ other' = [other EXCEPT !.at = "write", !.have = SubSeq(session.out, 1, n)]
    BY <1>1 DEF Socket!OutputRead, Socket!TakePiece, Socket!Fits, Socket!Piece
  <2> DEFINE piece == SubSeq(session.out, 1, n)
             rest == SubSeq(session.out, n + 1, Len(session.out))
  <2>2. piece \in Seq(Words) /\ rest \in Seq(Words) /\ piece \o rest = session.out
    BY Takes, Fields
  <2>3. /\ session' = [session EXCEPT !.out = rest]
        /\ other' = [other EXCEPT !.at = "write", !.have = piece]
    BY <2>1
  <2> HIDE DEF piece, rest
  <2>4. /\ session' \in Sessions /\ session'.at = session.at /\ session'.out = rest
        /\ session'.wrote = session.wrote
    BY <2>2, <2>3, Fields DEF Sessions
  <2>5. other' \in Others /\ other'.at = "write" /\ other'.have = piece /\ other'.late = other.late
    BY <2>2, <2>3, Fields DEF Others
  <2>6. /\ kind = "exec" /\ other.at = "read" /\ pipe = "open" /\ other.have = <<>>
        /\ session.at # "idle"
        /\ UNCHANGED <<kind, tty, page, handler, ctx, conn, pipe, deadline>>
    BY <1>1 DEF Socket!OutputRead, Socket!TakePiece, SocketInv, Places
  <2>7. (page.got \o <<>>) \o session.out = (page.got \o piece) \o rest
    <3>1. page.got \o <<>> = page.got
      BY Fields, Joined
    <3>2. (page.got \o piece) \o rest = page.got \o (piece \o rest)
      <4>1. page.got \in Seq(Words)
        BY Fields
      <4> QED
        BY <2>2, <4>1, AroundWords, Zenon
    <3> QED
      BY <2>2, <3>1, <3>2
  <2> QED
    <3>1. SocketTyped'
      BY <2>4, <2>5, <2>6, <2>7 DEF SocketInv, SocketTyped
    <3>2. Places'
      BY <2>4, <2>5, <2>6, <2>7 DEF SocketInv, Places
    <3>3. Spoken' /\ Console'
      BY <2>4, <2>5, <2>6, <2>7 DEF SocketInv, Spoken, Console
    <3>4. Carried'
      BY <2>4, <2>5, <2>6, <2>7 DEF SocketInv, Carried
    <3> QED
      BY <3>1, <3>2, <3>3, <3>4 DEF SocketInv
<1>2. CASE Socket!OutputEnds
  <2>1. /\ kind = "exec" /\ other.at = "read" /\ pipe # "none" /\ other.have = <<>>
        /\ UNCHANGED <<kind, tty, page, session, handler, ctx, conn, pipe, deadline>>
    BY <1>2 DEF Socket!OutputEnds, SocketInv, Places
  <2>2. /\ other' \in Others /\ other'.at = "cancel" /\ other'.have = other.have
        /\ other'.late = (deadline = "passed")
    BY <1>2, Fields DEF Socket!OutputEnds, Others
  <2>3. ASSUME page.link = "open", handler.end # "write", deadline # "passed"
        PROVE  session.out = <<>> /\ session.at \in Socket!Ended
    <3>1. handler.at \notin Finished
      BY <2>1, <2>3 DEF SocketInv, Console
    <3>2. pipe # "closed"
      BY <3>1 DEF SocketInv, Places
    <3>3. ~Socket!Lost
      BY <2>1, <2>3, <3>2 DEF Socket!Lost
    <3> QED
      BY <1>2, <3>3 DEF Socket!OutputEnds, Socket!StreamEnd, Socket!Ended
  <2>4. ASSUME page.link = "open", handler.end # "write", deadline # "passed"
        PROVE  /\ ~other.late
               /\ (page.got \o other.have) \o session.out = session.wrote
    BY <2>1, <2>4 DEF SocketInv, Console, Places
  <2> QED
    <3>1. SocketTyped'
      BY <2>1, <2>2, <2>3, <2>4 DEF SocketInv, SocketTyped
    <3>2. Places'
      BY <2>1, <2>2, <2>3, <2>4 DEF SocketInv, Places
    <3>3. Spoken' /\ Console'
      BY <2>1, <2>2, <2>3, <2>4 DEF SocketInv, Spoken, Console
    <3>4. Carried'
      BY <2>1, <2>2, <2>3, <2>4 DEF SocketInv, Carried
    <3> QED
      BY <3>1, <3>2, <3>3, <3>4 DEF SocketInv
<1>3. CASE Socket!OutputCancel
  <2>1. /\ kind = "exec" /\ other.at = "cancel" /\ pipe # "none" /\ ctx' = "cancelled"
        /\ UNCHANGED <<kind, tty, page, session, handler, conn, pipe, deadline>>
    BY <1>3 DEF Socket!OutputCancel, SocketInv, Places
  <2>2. /\ other' \in Others /\ other'.at = "end" /\ other'.have = other.have
        /\ other'.late = other.late
    BY <1>3, Fields DEF Socket!OutputCancel, Others
  <2> QED
    <3>1. SocketTyped'
      BY <2>1, <2>2 DEF SocketInv, SocketTyped
    <3>2. Places'
      BY <2>1, <2>2 DEF SocketInv, Places
    <3>3. Spoken' /\ Console'
      BY <2>1, <2>2 DEF SocketInv, Spoken, Console
    <3>4. Carried'
      BY <2>1, <2>2 DEF SocketInv, Carried
    <3> QED
      BY <3>1, <3>2, <3>3, <3>4 DEF SocketInv
<1>4. ASSUME NEW ok \in BOOLEAN, Socket!OutputWrite(ok) PROVE SocketInv'
  <2>1. /\ kind = "exec" /\ other.at = "write" /\ pipe # "none" /\ session.at # "idle"
        /\ UNCHANGED <<kind, tty, session, handler, ctx, conn, pipe, deadline>>
    BY <1>4 DEF Socket!OutputWrite, SocketInv, Places
  <2>2. /\ other' \in Others /\ other'.at = (IF ok THEN "read" ELSE "cancel")
        /\ other'.have = <<>> /\ other'.late = other.late
    BY <1>4, Fields, MessageNone DEF Socket!OutputWrite, Others
  <2>3. CASE ok
    <3>1. /\ page' \in Pages /\ page'.link = page.link
          /\ page.link = "open" => page'.got = page.got \o other.have
          /\ (handler.at \in Before => page'.got = page.got)
      <4>1. page.got \o other.have \in Seq(Words)
        BY Fields, Joined
      <4>2. page' = IF page.link = "open" THEN [page EXCEPT !.got =
              page.got \o other.have] ELSE page
        BY <1>4, <2>3 DEF Socket!OutputWrite, Socket!writeText
      <4>3. handler.at \notin Before
        BY <2>1 DEF SocketInv, Places
      <4> QED
        BY <4>1, <4>2, <4>3, Fields DEF Pages
    <3>2. page.link = "open" => page'.got \o <<>> = page.got \o other.have
      <4>1. page'.got \in Seq(Words)
        BY <3>1 DEF Pages
      <4> QED
        BY <3>1, <4>1, Joined
    <3> QED
      <4>1. SocketTyped'
        BY <2>1, <2>2, <2>3, <3>1, <3>2 DEF SocketInv, SocketTyped
      <4>2. Places'
        BY <2>1, <2>2, <2>3, <3>1, <3>2 DEF SocketInv, Places
      <4>3. Spoken' /\ Console'
        BY <2>1, <2>2, <2>3, <3>1, <3>2 DEF SocketInv, Spoken, Console
      <4>4. Carried'
        BY <2>1, <2>2, <2>3, <3>1, <3>2 DEF SocketInv, Carried
      <4> QED
        BY <4>1, <4>2, <4>3, <4>4 DEF SocketInv
  <2>4. CASE ~ok
    <3>1. page' = page /\ (page.link # "open" \/ conn = "closed" \/ ctx = "cancelled")
      BY <1>4, <2>4 DEF Socket!OutputWrite, Socket!writeText
    <3>2. page.link = "open" => handler.end = "write"
      BY <2>1, <3>1 DEF SocketInv, Places, Console
    <3> QED
      <4>1. SocketTyped'
        BY <2>1, <2>2, <2>4, <3>1, <3>2 DEF SocketInv, SocketTyped
      <4>2. Places'
        BY <2>1, <2>2, <2>4, <3>1, <3>2 DEF SocketInv, Places
      <4>3. Spoken' /\ Console'
        BY <2>1, <2>2, <2>4, <3>1, <3>2 DEF SocketInv, Spoken, Console
      <4>4. Carried'
        BY <2>1, <2>2, <2>4, <3>1, <3>2 DEF SocketInv, Carried
      <4> QED
        BY <4>1, <4>2, <4>3, <4>4 DEF SocketInv
  <2> QED
    BY <2>3, <2>4
<1> QED
  BY <1>1, <1>2, <1>3, <1>4

-----------------------------------------------------------------------------
(* The steps of a log and of a pull. *)
LEMMA StepWatch ==
  ASSUME SocketInv, Socket!Watch \/ Socket!Cancelled
  PROVE  SocketInv'
<1> USE DEF Before, Serving, Finished
<1>1. CASE Socket!Watch
  <2>1. /\ kind # "exec" /\ other.at = "read" /\ pipe # "none" /\ ctx' = "cancelled"
        /\ UNCHANGED <<kind, tty, page, session, handler, conn, pipe, deadline>>
    BY <1>1 DEF Socket!Watch, SocketInv, Places
  <2>2. other' \in Others /\ other'.at = "end" /\ other'.have = other.have
    BY <1>1, Fields DEF Socket!Watch, Others
  <2>3. page.link = "open" => handler.at = "end"
    BY <1>1, <2>1, Fields DEF Socket!Watch, Socket!PageGone, SocketInv, Places
  <2> QED
    <3>1. SocketTyped'
      BY <2>1, <2>2, <2>3 DEF SocketInv, SocketTyped
    <3>2. Places'
      BY <2>1, <2>2, <2>3 DEF SocketInv, Places
    <3>3. Spoken' /\ Console'
      BY <2>1, <2>2, <2>3 DEF SocketInv, Spoken, Console
    <3>4. Carried'
      BY <2>1, <2>2, <2>3 DEF SocketInv, Carried, Wrong
    <3> QED
      BY <3>1, <3>2, <3>3, <3>4 DEF SocketInv
<1>2. CASE Socket!Cancelled
  <2>1. /\ kind # "exec" /\ handler.at = "top" /\ ctx = "cancelled" /\ pipe = "open"
        /\ UNCHANGED <<kind, tty, page, session, other, ctx, conn, pipe, deadline>>
    BY <1>2 DEF Socket!Cancelled, SocketInv, Places
  <2>2. /\ handler' \in Handlers /\ handler'.at = "return" /\ handler'.have = handler.have
        /\ handler'.end = handler.end
    BY <1>2, HandlerGoes DEF Socket!Cancelled, Socket!Goto
  <2>3. page.link # "open"
    BY <2>1 DEF SocketInv, Places, Carried
  <2> QED
    <3>1. SocketTyped'
      BY <2>1, <2>2, <2>3 DEF SocketInv, SocketTyped
    <3>2. Places'
      BY <2>1, <2>2, <2>3 DEF SocketInv, Places
    <3>3. Spoken' /\ Console'
      BY <2>1, <2>2, <2>3 DEF SocketInv, Spoken, Console
    <3>4. Carried'
      BY <2>1, <2>2, <2>3 DEF SocketInv, Carried
    <3> QED
      BY <3>1, <3>2, <3>3, <3>4 DEF SocketInv
<1> QED
  BY <1>1, <1>2

(* The handler of a log or a pull takes the next piece of the stream. *)
LEMMA StepNextPiece == SocketInv /\ Socket!NextPiece => SocketInv'
<1> SUFFICES ASSUME SocketInv, Socket!NextPiece PROVE SocketInv'
  OBVIOUS
<1> USE DEF Before, Serving, Finished
<1>1. PICK n \in 1..Len(session.out) :
        /\ session' = [session EXCEPT !.out = SubSeq(session.out, n + 1, Len(session.out))]
        /\ handler' = [handler EXCEPT !.at = "send", !.have = SubSeq(session.out, 1, n),
             !.end = IF Socket!Says("error", SubSeq(session.out, 1, n)) THEN "error" ELSE @]
  BY DEF Socket!NextPiece, Socket!TakePiece, Socket!Fits, Socket!Piece
<1> DEFINE piece == SubSeq(session.out, 1, n)
           rest == SubSeq(session.out, n + 1, Len(session.out))
           end == IF Socket!Says("error", piece) THEN "error" ELSE handler.end
<1>2. piece \in Seq(Words) /\ rest \in Seq(Words) /\ piece \o rest = session.out
  BY Takes, Fields
<1>3. /\ session' = [session EXCEPT !.out = rest]
      /\ handler' = [handler EXCEPT !.at = "send", !.have = piece, !.end = end]
  BY <1>1
<1>4. /\ end \in {"", "write", "error"}
      /\ end = "error" <=> handler.end = "error" \/ Socket!Says("error", piece)
      /\ (handler.end # "write" => end # "write")
  BY Fields DEF Handlers
<1> HIDE DEF piece, rest, end
<1>5. /\ session' \in Sessions /\ session'.at = session.at /\ session'.out = rest
      /\ session'.wrote = session.wrote
  BY <1>2, <1>3, Fields DEF Sessions
<1>6. handler' \in Handlers /\ handler'.at = "send" /\ handler'.have = piece /\ handler'.end = end
  BY <1>2, <1>3, <1>4, Fields DEF Handlers
<1>7. /\ kind # "exec" /\ handler.at = "top" /\ pipe = "open" /\ handler.have = <<>>
      /\ session.at # "idle"
      /\ UNCHANGED <<kind, tty, page, other, ctx, conn, pipe, deadline>>
  BY DEF Socket!NextPiece, Socket!TakePiece, SocketInv, Places
<1>8. /\ (page.got \o Socket!Message(<<>>)) \o Socket!Message(session.out)
           = (page.got \o Socket!Message(piece)) \o Socket!Message(rest)
      /\ Socket!Says("error", session.out) <=> Socket!Says("error",
                                                            piece) \/ Socket!Says("error", rest)
  <2>1. page.got \o Socket!Message(<<>>) = page.got
    BY Fields, Joined, MessageNone
  <2>2. Socket!Message(session.out) = Socket!Message(piece) \o Socket!Message(rest)
    BY <1>2, MessageJoins
  <2>3. Socket!Message(piece) \in Seq(Words) /\ Socket!Message(rest) \in Seq(Words)
    BY <1>2, MessageOf
  <2>4. (page.got \o Socket!Message(piece)) \o Socket!Message(rest)
          = page.got \o (Socket!Message(piece) \o Socket!Message(rest))
    <3>1. page.got \in Seq(Words)
      BY Fields
    <3> QED
      BY <2>3, <3>1, AroundWords, Zenon
  <2>5. Socket!Says("error", piece \o rest) <=> Socket!Says("error",
                                                            piece) \/ Socket!Says("error", rest)
    BY <1>2, SaysJoins, Zenon
  <2> QED
    BY <1>2, <2>1, <2>2, <2>4, <2>5
<1>9. SocketTyped' /\ Places'
  BY <1>4, <1>5, <1>6, <1>7 DEF SocketInv, SocketTyped, Places
<1>10. Spoken' /\ Console'
  BY <1>5, <1>7 DEF SocketInv, Spoken, Console
<1>11. Carried'
  BY <1>4, <1>5, <1>6, <1>7, <1>8 DEF SocketInv, Carried
<1> QED
  BY <1>9, <1>10, <1>11 DEF SocketInv

(* What was written to a page that is there has come to it; to one that is there and
   to a handler that is not at its end a write does not fail. *)
LEMMA Written ==
  ASSUME SocketInv, NEW w \in Seq(Words), NEW ok \in BOOLEAN, Socket!writeText(w, ok),
         handler.at \notin Before, handler.at # "end", kind # "exec", pipe = "open"
  PROVE  /\ page' \in Pages /\ page'.link = page.link
         /\ page.link = "open" => ok /\ page'.got = page.got \o w
<1>1. page.got \o w \in Seq(Words)
  BY Fields, Joined
<1>2. CASE ok
  <2>1. page' = IF page.link = "open" THEN [page EXCEPT !.got = page.got \o w] ELSE page
    BY <1>2 DEF Socket!writeText
  <2> QED
    BY <1>1, <1>2, <2>1, Fields DEF Pages
<1>3. CASE ~ok
  <2>1. page' = page /\ (page.link # "open" \/ conn = "closed" \/ ctx = "cancelled")
    BY <1>3 DEF Socket!writeText
  <2>2. page.link # "open"
    BY <2>1 DEF SocketInv, Places, Carried
  <2> QED
    BY <2>1, <2>2, Fields
<1> QED
  BY <1>2, <1>3

(* It sends the piece; when that fails the page is not one that stays. *)
LEMMA StepSend ==
  ASSUME SocketInv, NEW ok \in BOOLEAN, Socket!Send(ok)
  PROVE  SocketInv'
<1> USE DEF Before, Serving, Finished
<1>1. /\ kind # "exec" /\ handler.at = "send" /\ pipe = "open" /\ session.at # "idle"
      /\ UNCHANGED <<kind, tty, session, other, ctx, conn, pipe, deadline>>
  BY DEF Socket!Send, SocketInv, Places
<1>2. Socket!Message(handler.have) \in Seq(Words)
  BY Fields, MessageOf
<1>3. /\ page' \in Pages /\ page'.link = page.link
      /\ page.link = "open" => ok /\ page'.got = page.got \o Socket!Message(handler.have)
  BY <1>1, <1>2, Written DEF Socket!Send
<1>4. /\ handler' \in Handlers /\ handler'.have = <<>> /\ handler'.end = handler.end
      /\ handler'.at \in {"top", "tell", "return"} /\ (ok => handler'.at = "top")
  BY Fields, MessageNone DEF Socket!Send, Handlers
<1>5. page.link = "open" => page'.got \o Socket!Message(<<>>) =
        page.got \o Socket!Message(handler.have)
  <2>1. page'.got \in Seq(Words)
    BY <1>3 DEF Pages
  <2> QED
    BY <1>3, <2>1, Joined, MessageNone
<1>6. SocketTyped' /\ Places'
  BY <1>1, <1>3, <1>4 DEF SocketInv, SocketTyped, Places
<1>7. Spoken' /\ Console'
  BY <1>1 DEF SocketInv, Spoken, Console
<1>8. Carried'
  BY <1>1, <1>3, <1>4, <1>5 DEF SocketInv, Carried
<1> QED
  BY <1>6, <1>7, <1>8 DEF SocketInv

(* The stream is over when nothing of it is left to be read. *)
LEMMA StepStreamEnds == SocketInv /\ Socket!StreamEnds => SocketInv'
<1> SUFFICES ASSUME SocketInv, Socket!StreamEnds PROVE SocketInv'
  OBVIOUS
<1> USE DEF Before, Serving, Finished
<1>1. /\ kind # "exec" /\ handler.at = "top" /\ pipe = "open" /\ handler.have = <<>>
      /\ deadline = "none" /\ session.at # "idle"
      /\ UNCHANGED <<kind, tty, page, session, other, ctx, conn, pipe, deadline>>
  BY DEF Socket!StreamEnds, SocketInv, Places
<1>2. PICK to \in {"tell", "return"} :
        /\ handler' = [handler EXCEPT !.at = to]
        /\ to = "tell" <=> Socket!StreamEnd = "cut" \/ (Socket!StreamEnd = "eof" /\ handler.end =
             "error")
  <2> DEFINE cut == Socket!StreamEnd = "cut" \/ (Socket!StreamEnd = "eof" /\ handler.end = "error")
  <2>1. handler' = [handler EXCEPT !.at = IF cut THEN "tell" ELSE "return"]
    BY DEF Socket!StreamEnds, Socket!Goto
  <2> HIDE DEF cut
  <2>2. \E to \in {"tell", "return"} :
          handler' = [handler EXCEPT !.at = to] /\ (to = "tell" <=> cut)
    BY <2>1
  <2> QED
    BY <2>2 DEF cut
<1>3. /\ handler' \in Handlers /\ handler'.at = to /\ handler'.have = handler.have
      /\ handler'.end = handler.end
  BY <1>2, HandlerGoes
<1>4. ASSUME page.link = "open"
      PROVE  /\ session.at \in Socket!Ended
             /\ page.got = Socket!Message(session.wrote)
             /\ to = "tell" <=> Wrong
  <2>1. ctx # "cancelled"
    BY <1>1, <1>4 DEF SocketInv, Places, Carried
  <2>2. ~Socket!Lost
    BY <1>1, <2>1 DEF Socket!Lost
  <2>3. /\ session.out = <<>> /\ session.at \in Socket!Ended
        /\ Socket!StreamEnd = (IF session.at = "ended" THEN "eof" ELSE "cut")
    BY <2>2 DEF Socket!StreamEnds, Socket!StreamEnd, Socket!Ended
  <2>4. /\ (page.got \o Socket!Message(<<>>)) \o Socket!Message(<<>>) =
             Socket!Message(session.wrote)
        /\ Socket!Says("error", session.wrote) <=> handler.end = "error"
    BY <1>1, <1>4, <2>3, MessageNone DEF SocketInv, Carried
  <2>5. page.got \o Socket!Message(<<>>) = page.got
    BY Fields, Joined, MessageNone
  <2>6. to = "tell" <=> Wrong
    BY <1>2, <2>3, <2>4 DEF Wrong, Socket!Ended
  <2> QED
    BY <2>3, <2>4, <2>5, <2>6
<1>5. page.link = "open" /\ ~Wrong => page.got = Socket!Message(session.wrote) \o <<>>
  BY <1>4, Fields, Joined
<1>6. SocketTyped' /\ Places'
  BY <1>1, <1>3 DEF SocketInv, SocketTyped, Places
<1>7. Spoken' /\ Console'
  BY <1>1 DEF SocketInv, Spoken, Console
<1>8. Wrong' = Wrong
  BY <1>1 DEF Wrong
<1>9. Carried'
  BY <1>1, <1>3, <1>4, <1>5, <1>8 DEF SocketInv, Carried
<1> QED
  BY <1>6, <1>7, <1>9 DEF SocketInv

(* What went wrong is told as the last word. *)
LEMMA StepTell ==
  ASSUME SocketInv, NEW ok \in BOOLEAN, Socket!Tell(ok)
  PROVE  SocketInv'
<1> USE DEF Before, Serving, Finished
<1>1. /\ kind # "exec" /\ handler.at = "tell" /\ pipe = "open" /\ handler.have = <<>>
      /\ session.at # "idle"
      /\ UNCHANGED <<kind, tty, session, other, ctx, conn, pipe, deadline>>
  BY DEF Socket!Tell, SocketInv, Places
<1>2. <<"error">> \in Seq(Words)
  BY DEF Words
<1>3. /\ page' \in Pages /\ page'.link = page.link
      /\ page.link = "open" => page'.got = page.got \o <<"error">>
  BY <1>1, <1>2, Written DEF Socket!Tell
<1>4. /\ handler' \in Handlers /\ handler'.at = "return" /\ handler'.have = handler.have
      /\ handler'.end = handler.end
  BY HandlerGoes DEF Socket!Tell, Socket!Goto
<1>5. SocketTyped' /\ Places'
  BY <1>1, <1>3, <1>4 DEF SocketInv, SocketTyped, Places
<1>6. Spoken' /\ Console'
  BY <1>1 DEF SocketInv, Spoken, Console
<1>7. Wrong' = Wrong
  BY <1>1 DEF Wrong
<1>8. Carried'
  BY <1>1, <1>3, <1>4, <1>7 DEF SocketInv, Carried
<1> QED
  BY <1>5, <1>6, <1>8 DEF SocketInv

(* The handler's defers, and the thirty minutes. *)
LEMMA StepReturn ==
  ASSUME SocketInv, Socket!Return \/ Socket!DeadlinePasses
  PROVE  SocketInv'
<1> USE DEF Before, Serving, Finished
<1>1. CASE Socket!Return
  <2>1. /\ handler.at = "return" /\ ctx' = "cancelled" /\ conn' = "closed"
        /\ pipe' = (IF pipe = "open" THEN "closed" ELSE pipe)
        /\ UNCHANGED <<kind, tty, page, session, other, deadline>>
    BY <1>1 DEF Socket!Return
  <2>2. /\ handler' \in Handlers /\ handler'.at = "end" /\ handler'.have = handler.have
        /\ handler'.end = handler.end
    BY <1>1, HandlerGoes DEF Socket!Return, Socket!Goto
  <2>3. pipe' \in {"none", "closed"} /\ (pipe' = "none" <=> pipe = "none")
    BY <2>1 DEF SocketInv, SocketTyped
  <2>4. SocketTyped' /\ Places'
    BY <2>1, <2>2, <2>3 DEF SocketInv, SocketTyped, Places
  <2>5. Spoken' /\ Console'
    BY <2>1, <2>2, <2>3 DEF SocketInv, Spoken, Console
  <2>6. Wrong' = Wrong
    BY <2>1 DEF Wrong
  <2>7. Carried'
    BY <2>1, <2>2, <2>3, <2>6 DEF SocketInv, Carried
  <2> QED
    BY <2>4, <2>5, <2>7 DEF SocketInv
<1>2. CASE Socket!DeadlinePasses
  <2>1. /\ deadline = "set" /\ deadline' = "passed"
        /\ UNCHANGED <<kind, tty, page, session, handler, other, ctx, conn, pipe>>
    BY <1>2 DEF Socket!DeadlinePasses
  <2> QED
    <3>1. SocketTyped'
      BY <2>1 DEF SocketInv, SocketTyped
    <3>2. Places'
      BY <2>1 DEF SocketInv, Places
    <3>3. Spoken' /\ Console'
      BY <2>1 DEF SocketInv, Spoken, Console
    <3>4. Carried'
      BY <2>1 DEF SocketInv, Carried, Wrong
    <3> QED
      BY <3>1, <3>2, <3>3, <3>4 DEF SocketInv
<1> QED
  BY <1>1, <1>2

(* Every step of the two goroutines and of their world keeps the invariant. *)
LEMMA SocketStep == SocketInv /\ [Socket!Next]_socket => SocketInv'
<1> SUFFICES ASSUME SocketInv, [Socket!Next]_socket PROVE SocketInv'
  OBVIOUS
<1>1. CASE UNCHANGED socket
  <2>1. UNCHANGED <<kind, tty, page, session, handler, other, ctx, conn, pipe, deadline>>
    BY <1>1 DEF socket
  <2>2. SocketTyped' /\ Places'
    BY <2>1 DEF SocketInv, SocketTyped, Places
  <2>3. Spoken' /\ Console'
    BY <2>1 DEF SocketInv, Spoken, Console
  <2>4. Carried'
    BY <2>1 DEF SocketInv, Carried, Wrong
  <2> QED
    BY <2>2, <2>3, <2>4 DEF SocketInv
<1>2. CASE Socket!World
  BY <1>2, StepPageTypes, StepPageLeaves, StepDaemon DEF Socket!World
<1>3. CASE Socket!Handler
  BY <1>3, StepAsks, StepKeys, StepWatch, StepNextPiece, StepSend, StepStreamEnds, StepTell,
     StepReturn
  DEF Socket!Handler
<1>4. CASE Socket!Other
  BY <1>4, StepOutput, StepWatch DEF Socket!Other
<1>5. CASE Socket!DeadlinePasses
  BY <1>5, StepReturn
<1> QED
  BY <1>1, <1>2, <1>3, <1>4, <1>5 DEF Socket!Next

(* A page that stays sees all of it, in order, and the end. *)
THEOREM StayersServed == MCSpec => []StayersSeeAll
<1>1. MCInit => SocketInv
  BY SocketInit DEF MCInit
<1>2. [MCNext]_<<part, ringVars, socket, progress, polling>> => [Socket!Next]_socket
  BY DEF MCNext
<1>3. SocketInv => StayersSeeAll
  BY SocketSays DEF StayersSeeAll
<1> QED
  BY <1>1, <1>2, <1>3, SocketStep, PTL DEF MCSpec

-----------------------------------------------------------------------------
(* The progress of a pull: the sums of the layers' bytes, and what it means
   that the one is as large as the other. *)

(* The layers are counted as everywhere. *)
LEMMA LayersCount == \A T : Progress!Cardinality(T) = Cardinality(T)
BY Zenon DEF Progress!Cardinality, Cardinality

(* A set of numbers has a least one. *)
LEMMA Least == \A T \in SUBSET Nat : T # {} => \E m \in T : \A n \in T : m <= n
<1> SUFFICES ASSUME NEW T \in SUBSET Nat, T # {}
             PROVE  \E m \in T : \A n \in T : m <= n
  OBVIOUS
<1> DEFINE R == {ss \in Nat \X Nat : ss[1] < ss[2]}
<1>1. IsWellFoundedOn(R, Nat)
  BY NatLessThanWellFounded DEF OpToRel
<1> HIDE DEF R
<1>2. PICK m \in T : \A n \in T : ~(<<n, m>> \in R)
  BY <1>1, WFMin
<1>3. \A n \in T : ~(n < m)
  BY <1>2 DEF R
<1> QED
  BY <1>3

(* Induction up to a bound. *)
LEMMA UpTo ==
  ASSUME NEW N \in Nat, NEW T, 0 \in T, \A n \in 1 .. N : n - 1 \in T => n \in T
  PROVE  \A n \in 0 .. N : n \in T
<1> DEFINE U == {n \in 0 .. N : n \notin T}
<1> SUFFICES ASSUME U # {} PROVE FALSE
  OBVIOUS
<1>1. PICK m \in U : \A n \in U : m <= n
  <2>1. U \in SUBSET Nat
    OBVIOUS
  <2> QED
    BY <2>1, Least
<1>2. m \in 1 .. N
  OBVIOUS
<1>3. m - 1 \in U
  BY <1>2
<1> QED
  BY <1>1, <1>2, <1>3

(* What a recursive function over the subsets of a finite set U computes that
   takes pick[W] out of W, one element after the other, until W is in D. *)
LEMMA Taken ==
  ASSUME NEW U, IsFiniteSet(U), NEW W \in SUBSET U, NEW c \in W
  PROVE  /\ Cardinality(W) \in Nat /\ W \ {c} \in SUBSET U
         /\ Cardinality(W \ {c}) = Cardinality(W) - 1
         /\ Cardinality(W) <= Cardinality(U)
         /\ Cardinality(W) >= 1
<1>1. IsFiniteSet(W) /\ Cardinality(W) <= Cardinality(U)
  BY FS_Subset
<1>2. Cardinality(W) \in Nat /\ IsFiniteSet(W \ {c}) /\ Cardinality(W \ {c}) \in Nat
  BY <1>1, FS_CardinalityType, FS_RemoveElement
<1>3. Cardinality(W \ {c}) = Cardinality(W) - 1
  BY <1>1, FS_RemoveElement
<1> QED
  BY <1>1, <1>2, <1>3

(* Induction over the subsets: T has a set when it has what is left of it. *)
LEMMA Subsets ==
  ASSUME NEW U, IsFiniteSet(U), NEW T,
         \A W \in SUBSET U : (\A c \in W : W \ {c} \in T) => W \in T
  PROVE  \A W \in SUBSET U : W \in T
<1> DEFINE P == {n \in Nat : \A W \in SUBSET U : Cardinality(W) <= n => W \in T}
           N == Cardinality(U)
<1>1. N \in Nat
  BY FS_CardinalityType
<1>2. ASSUME NEW n \in Nat,
             \A W \in SUBSET U : Cardinality(W) < n => W \in T
      PROVE  n \in P
  <2> SUFFICES ASSUME NEW W \in SUBSET U, Cardinality(W) <= n PROVE W \in T
    OBVIOUS
  <2>1. ASSUME NEW c \in W PROVE W \ {c} \in T
    <3>1. /\ Cardinality(W) \in Nat /\ W \ {c} \in SUBSET U
          /\ Cardinality(W \ {c}) = Cardinality(W) - 1
      BY Taken
    <3> QED
      BY <1>2, <3>1
  <2> QED
    BY <2>1
<1>3. \A W \in SUBSET U : Cardinality(W) \in Nat /\ Cardinality(W) <= N
  BY FS_Subset, FS_CardinalityType
<1>4. 0 \in P
  <2>1. \A W \in SUBSET U : ~(Cardinality(W) < 0)
    BY <1>3
  <2> QED
    BY <1>2, <2>1
<1>5. ASSUME NEW n \in 1 .. N, n - 1 \in P PROVE n \in P
  <2>1. \A W \in SUBSET U : Cardinality(W) < n => Cardinality(W) <= n - 1
    BY <1>3
  <2>2. \A W \in SUBSET U : Cardinality(W) < n => W \in T
    BY <1>5, <2>1
  <2> QED
    BY <1>2, <2>2
<1> HIDE DEF P
<1>6. \A n \in 0 .. N : n \in P
  BY <1>1, <1>4, <1>5, UpTo
<1>7. N \in P
  BY <1>1, <1>6
<1> QED
  BY <1>3, <1>7 DEF P

-----------------------------------------------------------------------------
(* The sum of f over a finite set, as the fold computes it. *)
Some(W) == CHOOSE x \in W : TRUE
Adds(f, U, g) == g = [W \in SUBSET U |-> IF W = {} THEN 0 ELSE f[Some(W)] + g[W \ {Some(W)}]]
Sum(f, U) == (CHOOSE g : Adds(f, U, g))[U]

(* There is a function that adds up every subset of a finite set. *)
LEMMA Adding ==
  ASSUME NEW U, IsFiniteSet(U), NEW f
  PROVE  \E g : Adds(f, U, g)
<1> DEFINE N == Cardinality(U)
           Good(g, n) == \A W \in SUBSET U : Cardinality(W) <= n =>
             g[W] = IF W = {} THEN 0 ELSE f[Some(W)] + g[W \ {Some(W)}]
           P == {n \in Nat : \E g : Good(g, n)}
<1>1. N \in Nat
  BY FS_CardinalityType
<1>2. \A W \in SUBSET U : Cardinality(W) \in Nat /\ Cardinality(W) <= N
  BY FS_Subset, FS_CardinalityType
<1>3. \A W \in SUBSET U : W # {} =>
        W \ {Some(W)} \in SUBSET U /\ Cardinality(W \ {Some(W)}) = Cardinality(W) - 1
  <2> SUFFICES ASSUME NEW W \in SUBSET U, W # {}
               PROVE  W \ {Some(W)} \in SUBSET U /\ Cardinality(W \ {Some(W)}) = Cardinality(W) - 1
    OBVIOUS
  <2>1. Some(W) \in W
    BY DEF Some
  <2> QED
    BY <2>1, Taken
<1>4. ASSUME NEW n \in Nat, NEW g, n # 0 => Good(g, n - 1)
      PROVE  n \in P
  <2> DEFINE h == [W \in SUBSET U |->
                     IF Cardinality(W) < n THEN g[W]
                     ELSE IF W = {} THEN 0 ELSE f[Some(W)] + g[W \ {Some(W)}]]
  <2>1. ASSUME NEW W \in SUBSET U, Cardinality(W) <= n
        PROVE  h[W] = IF W = {} THEN 0 ELSE f[Some(W)] + g[W \ {Some(W)}]
    <3>1. CASE Cardinality(W) < n
      <4>1. n # 0 /\ Cardinality(W) <= n - 1
        BY <1>2, <3>1
      <4> QED
        BY <1>4, <3>1, <4>1
    <3>2. CASE ~(Cardinality(W) < n)
      BY <3>2
    <3> QED
      BY <3>1, <3>2
  <2>2. ASSUME NEW W \in SUBSET U, Cardinality(W) <= n, W # {}
        PROVE  h[W \ {Some(W)}] = g[W \ {Some(W)}]
    <3>1. W \ {Some(W)} \in SUBSET U /\ Cardinality(W \ {Some(W)}) < n
      BY <1>2, <1>3, <2>2
    <3> QED
      BY <3>1
  <2> HIDE DEF h
  <2>3. Good(h, n)
    BY <2>1, <2>2
  <2> QED
    BY <2>3
<1> HIDE DEF Good
<1>5. 0 \in P
  BY <1>4
<1>6. \A n \in 1 .. N : n - 1 \in P => n \in P
  <2> SUFFICES ASSUME NEW n \in 1 .. N, n - 1 \in P PROVE n \in P
    OBVIOUS
  <2>1. PICK g : Good(g, n - 1)
    OBVIOUS
  <2> QED
    BY <1>4, <2>1
<1> HIDE DEF P
<1>7. N \in P
  <2>1. \A n \in 0 .. N : n \in P
    BY <1>1, <1>5, <1>6, UpTo
  <2> QED
    BY <1>1, <2>1
<1>8. PICK g : Good(g, N)
  BY <1>7 DEF P
<1> DEFINE h == [W \in SUBSET U |-> g[W]]
<1>9. \A W \in SUBSET U : h[W] = IF W = {} THEN 0 ELSE f[Some(W)] + h[W \ {Some(W)}]
  BY <1>2, <1>3, <1>8 DEF Good
<1>10. h = [W \in SUBSET U |-> h[W]]
  OBVIOUS
<1> HIDE DEF h
<1>11. h = [W \in SUBSET U |-> IF W = {} THEN 0 ELSE f[Some(W)] + h[W \ {Some(W)}]]
  BY <1>9, <1>10, Zenon
<1> QED
  BY <1>11, Zenon DEF Adds

(* A sum of natural numbers is one. *)
LEMMA SumIsNat ==
  ASSUME NEW U, IsFiniteSet(U), NEW f, \A l \in U : f[l] \in Nat
  PROVE  Sum(f, U) \in Nat
<1>1. PICK g : g = (CHOOSE h : Adds(f, U, h)) /\ Adds(f, U, g)
  BY Adding
<1> DEFINE T == {W \in SUBSET U : g[W] \in Nat}
<1>2. ASSUME NEW W \in SUBSET U, \A c \in W : W \ {c} \in T PROVE W \in T
  <2>1. CASE W = {}
    <3>1. g[W] = 0
      BY <1>1, <2>1 DEF Adds
    <3> QED
      BY <3>1
  <2>2. CASE W # {}
    <3>1. PICK c \in W : c = Some(W)
      BY <2>2 DEF Some
    <3>2. PICK R \in SUBSET U : R = W \ {c}
      OBVIOUS
    <3>3. g[W] = f[c] + g[R]
      BY <1>1, <2>2, <3>1, <3>2 DEF Adds
    <3>4. g[R] \in Nat /\ f[c] \in Nat
      BY <1>2, <3>2
    <3> QED
      BY <3>3, <3>4
  <2> QED
    BY <2>1, <2>2
<1> HIDE DEF T
<1>3. \A W \in SUBSET U : W \in T
  BY <1>2, Subsets
<1> QED
  BY <1>1, <1>3 DEF T, Sum

(* If no value of f is above K times that of w, neither is the sum, and it is only as
   high when every value is. *)
LEMMA SumsCompare ==
  ASSUME NEW U, IsFiniteSet(U), NEW f, NEW w, NEW K \in Nat,
         \A l \in U : f[l] \in Nat /\ w[l] \in Nat /\ f[l] <= w[l] * K,
         Sum(f, U) = Sum(w, U) * K
  PROVE  \A l \in U : f[l] = w[l] * K
<1>1. PICK g : g = (CHOOSE h : Adds(f, U, h)) /\ Adds(f, U, g)
  BY Adding
<1>2. PICK v : v = (CHOOSE h : Adds(w, U, h)) /\ Adds(w, U, v)
  BY Adding
<1> DEFINE T == {W \in SUBSET U : /\ g[W] \in Nat /\ v[W] \in Nat /\ g[W] <= v[W] * K
                                  /\ g[W] = v[W] * K => \A l \in W : f[l] = w[l] * K}
<1>3. ASSUME NEW W \in SUBSET U, \A c \in W : W \ {c} \in T PROVE W \in T
  <2>1. CASE W = {}
    <3>1. g[W] = 0 /\ v[W] = 0
      BY <1>1, <1>2, <2>1 DEF Adds
    <3> QED
      BY <2>1, <3>1
  <2>2. CASE W # {}
    <3>1. PICK c \in W : c = Some(W)
      BY <2>2 DEF Some
    <3>2. PICK R \in SUBSET U : R = W \ {c}
      OBVIOUS
    <3>3. g[W] = f[c] + g[R]
      BY <1>1, <2>2, <3>1, <3>2 DEF Adds
    <3>4. v[W] = w[c] + v[R]
      BY <1>2, <2>2, <3>1, <3>2 DEF Adds
    <3>5. /\ g[R] \in Nat /\ v[R] \in Nat /\ g[R] <= v[R] * K
          /\ g[R] = v[R] * K => \A l \in R : f[l] = w[l] * K
      BY <1>3, <3>2
    <3>6. f[c] \in Nat /\ w[c] \in Nat /\ f[c] <= w[c] * K
      OBVIOUS
    <3>7. PICK a \in Nat, b \in Nat : a = w[c] * K /\ b = v[R] * K
      BY <3>5, <3>6
    <3>8. v[W] * K = a + b
      BY <3>4, <3>5, <3>6, <3>7
    <3>9. g[W] = v[W] * K => f[c] = a /\ g[R] = b
      <4>1. PICK x \in Nat, y \in Nat : x = f[c] /\ y = g[R]
        BY <3>5, <3>6
      <4>2. x <= a /\ y <= b
        BY <3>5, <3>6, <3>7, <4>1
      <4>3. g[W] = x + y
        BY <3>3, <4>1
      <4> QED
        BY <3>8, <4>1, <4>2, <4>3
    <3>10. g[W] \in Nat /\ v[W] \in Nat /\ g[W] <= v[W] * K
      BY <3>3, <3>4, <3>5, <3>6, <3>7, <3>8
    <3>11. ASSUME g[W] = v[W] * K, NEW l \in W PROVE f[l] = w[l] * K
      BY <3>2, <3>5, <3>7, <3>9, <3>11
    <3> QED
      BY <3>10, <3>11
  <2> QED
    BY <2>1, <2>2
<1> HIDE DEF T
<1>4. \A W \in SUBSET U : W \in T
  BY <1>3, Subsets
<1> QED
  BY <1>1, <1>2, <1>4 DEF T, Sum

(* A factor that is not zero may be left out on both sides. *)
LEMMA Cancels ==
  ASSUME NEW x \in Nat, NEW k \in Nat, NEW y \in Nat, y > 0, y * x = y * k
  PROVE  x = k
<1>1. ASSUME NEW a \in Nat, NEW b \in Nat, a < b PROVE y * a < y * b
  <2>1. PICK c \in Nat : b = a + c + 1
    <3>1. b - a - 1 \in Nat /\ b = a + (b - a - 1) + 1
      BY <1>1
    <3> QED
      BY <3>1
  <2>2. y * b = y * a + y * c + y
    BY <2>1
  <2>3. y * a \in Nat /\ y * c \in Nat
    OBVIOUS
  <2> QED
    BY <2>2, <2>3
<1> QED
  BY <1>1

(* The share of a layer's bytes, as a part of Scale. *)
LEMMA Shares ==
  ASSUME NEW c \in Nat, NEW t \in Nat
  PROVE  /\ Progress!Part(c, t) \in 0 .. Scale
         /\ Progress!Part(c, t) = Scale => t > 0 /\ c >= t
<1>0. Scale \in Nat \ {0}
  BY LayersAssumption
<1>1. CASE t = 0
  BY <1>0, <1>1 DEF Progress!Part
<1>2. CASE t > 0
  <2>1. PICK m \in Nat : m = Progress!Least(c, t) /\ m <= t /\ m <= c
    BY DEF Progress!Least
  <2>2. PICK s \in Nat : s = m * Scale
    BY <1>0, <2>1
  <2>3. PICK q \in Int : q = s \div t
    BY <1>2, <2>2
  <2>4. q * t <= s /\ s < q * t + t
    BY <1>2, <2>2, <2>3
  <2>5. s <= t * Scale
    BY <1>0, <1>2, <2>1, <2>2
  <2>6. 0 <= q
    BY <1>2, <2>2, <2>4
  <2>7. q <= Scale
    <3>1. q * t <= Scale * t
      BY <1>0, <2>4, <2>5
    <3> QED
      BY <1>0, <1>2, <3>1
  <2>8. q = Scale => m = t
    <3>1. ASSUME q = Scale PROVE t * Scale <= m * Scale
      BY <1>0, <2>2, <2>4, <3>1
    <3>2. ASSUME t * Scale <= m * Scale PROVE t <= m
      BY <1>0, <3>2
    <3> QED
      BY <2>1, <3>1, <3>2
  <2>9. Progress!Part(c, t) = q
    BY <1>2, <2>1, <2>2, <2>3 DEF Progress!Part
  <2> QED
    BY <1>2, <2>1, <2>6, <2>7, <2>8, <2>9, <1>0
<1> QED
  BY <1>1, <1>2

-----------------------------------------------------------------------------
(* A layer as the bar sees it, and where the daemon is with it. *)
LayerPhases == {"pending", "downloading", "downloaded", "extracting", "complete"}
LayerStates == [phase : LayerPhases, dlCurrent : Nat, dlTotal : Nat, exCurrent : Nat,
                exTotal : Nat, alreadyExists : BOOLEAN]
DaemonStates == [at : {"none", "waiting", "downloading", "downloaded", "extracting", "complete"},
                 current : Nat]
LayerKnown(l, y, d) ==
  /\ y \in LayerStates /\ d \in DaemonStates
  /\ y.phase = "complete" <=> d.at = "complete"
  /\ y.alreadyExists => y.phase = "complete"
  /\ y.exTotal \in {0, SizeOf[l]}
  /\ y.exTotal > 0 => d.at \in {"extracting", "complete"}
  /\ d.at = "extracting" => y.exCurrent = d.current /\ d.current <= SizeOf[l]

ProgressInv ==
  /\ layers \in [Layers -> LayerStates] /\ pulling \in [Layers -> DaemonStates]
  /\ \A l \in Layers : LayerKnown(l, layers[l], pulling[l])
  /\ order \in Seq(Layers) /\ Len(order) = Cardinality(Progress!Listed)
  /\ Progress!Listed \subseteq Layers

(* A pull begins with layers nobody has heard of. *)
LEMMA ProgressInit == Progress!Init => ProgressInv
<1> SUFFICES ASSUME Progress!Init PROVE ProgressInv
  OBVIOUS
<1>1. /\ Progress!NewLayer \in LayerStates /\ Progress!NewLayer.phase = "pending"
      /\ ~Progress!NewLayer.alreadyExists /\ Progress!NewLayer.exTotal = 0
  BY DEF Progress!NewLayer, LayerStates, LayerPhases
<1>2. [at |-> "none", current |-> 0] \in DaemonStates
  BY DEF DaemonStates
<1>3. order \in Seq(Layers) /\ Len(order) = 0 /\ Progress!Listed = {}
  <2>0. order = <<>>
    BY DEF Progress!Init
  <2>1. order = <<>> /\ DOMAIN <<>> = {}
    BY <2>0
  <2>2. Progress!Listed = {}
    BY <2>1 DEF Progress!Listed, Progress!ToSet
  <2> QED
    BY <2>1, <2>2
<1>4. Cardinality({}) = 0
  BY FS_EmptySet
<1>5. /\ layers = [l \in Layers |-> Progress!NewLayer]
      /\ pulling = [l \in Layers |-> [at |-> "none", current |-> 0]]
  BY DEF Progress!Init
<1>6. PICK y \in LayerStates : /\ y = Progress!NewLayer /\ y.phase = "pending"
                              /\ ~y.alreadyExists /\ y.exTotal = 0
  BY <1>1
<1>7. PICK d \in DaemonStates : d = [at |-> "none", current |-> 0] /\ d.at = "none"
  BY <1>2
<1>8. \A l \in Layers : layers[l] = y /\ pulling[l] = d
  BY <1>5, <1>6, <1>7
<1>9. \A l \in Layers : LayerKnown(l, y, d)
  BY <1>6, <1>7 DEF LayerKnown
<1> QED
  BY <1>3, <1>4, <1>5, <1>6, <1>7, <1>8, <1>9 DEF ProgressInv

(* What one message makes of one layer. *)
WordsAt(at) ==
  CASE at = "none"        -> {"Pulling fs layer", "Already exists"}
    [] at = "waiting"     -> {"Waiting", "Downloading"}
    [] at = "downloading" -> {"Downloading", "Verifying Checksum", "Download complete"}
    [] at = "downloaded"  -> {"Extracting"}
    [] at = "extracting"  -> {"Extracting", "Pull complete"}
    [] OTHER              -> {}

(* A message keeps the layer the bar sees and the layer of the daemon together. *)
LEMMA LayerHears ==
  ASSUME NEW l \in Layers, NEW y, NEW d, LayerKnown(l, y, d), NEW word \in Progress!LayerWords,
         word \in WordsAt(d.at),
         NEW got \in Nat, got <= SizeOf[l],
         NEW m, m = Progress!PullMessage(l, word, got, SizeOf[l]),
         NEW e, e = [at |-> Progress!Place(word), current |-> got]
  PROVE  LayerKnown(l, Progress!Told(y, m), e)
<1>0. SizeOf[l] \in Nat
  BY LayersAssumption
<1>1. y \in LayerStates /\ d \in DaemonStates
  BY DEF LayerKnown
<1>2. m.status = word /\ m.current = got /\ m.total = SizeOf[l]
  BY DEF Progress!PullMessage
<1>3. e \in DaemonStates /\ e.at = Progress!Place(word) /\ e.current = got
  BY DEF DaemonStates, Progress!Place
<1>4. CASE word \in {"Pulling fs layer", "Waiting"}
  <2>1. PICK z \in {y, [y EXCEPT !.phase = "pending"]} : z = Progress!Told(y, m)
    BY <1>2, <1>4 DEF Progress!Told
  <2>2. /\ z \in LayerStates /\ z.phase # "complete" /\ z.alreadyExists = y.alreadyExists
        /\ z.exTotal = y.exTotal
    <3>1. y.phase # "complete"
      BY <1>4 DEF LayerKnown, WordsAt
    <3>2. CASE z = [y EXCEPT !.phase = "pending"]
      BY <1>1, <3>2 DEF LayerStates, LayerPhases
    <3> QED
      BY <1>1, <2>1, <3>1, <3>2
  <2> QED
    BY <1>1, <1>3, <1>4, <2>1, <2>2 DEF LayerKnown, Progress!Place, WordsAt
<1>5. CASE word = "Downloading"
  <2>1. PICK z : z = Progress!Told(y, m)
    OBVIOUS
  <2>2. z = [y EXCEPT !.phase = "downloading", !.dlCurrent = got,
              !.dlTotal = Progress!Known(y.dlTotal, SizeOf[l])]
    BY <1>2, <1>5, <2>1 DEF Progress!Told
  <2>3. Progress!Known(y.dlTotal, SizeOf[l]) \in Nat
    BY <1>0, <1>1 DEF Progress!Known, LayerStates
  <2>4. /\ z \in LayerStates /\ z.phase = "downloading" /\ z.alreadyExists = y.alreadyExists
        /\ z.exTotal = y.exTotal
    BY <1>1, <2>2, <2>3 DEF LayerStates, LayerPhases
  <2> QED
    BY <1>1, <1>3, <1>5, <2>1, <2>4 DEF LayerKnown, Progress!Place, WordsAt
<1>6. CASE word \in {"Verifying Checksum", "Download complete"}
  <2>1. PICK z : z = Progress!Told(y, m)
    OBVIOUS
  <2>2. z = [y EXCEPT !.phase = "downloaded", !.dlCurrent = Progress!Filled(y.dlCurrent, y.dlTotal)]
    BY <1>2, <1>6, <2>1 DEF Progress!Told
  <2>3. Progress!Filled(y.dlCurrent, y.dlTotal) \in Nat
    BY <1>1 DEF Progress!Filled, LayerStates
  <2>4. /\ z \in LayerStates /\ z.phase = "downloaded" /\ z.alreadyExists = y.alreadyExists
        /\ z.exTotal = y.exTotal
    BY <1>1, <2>2, <2>3 DEF LayerStates, LayerPhases
  <2> QED
    BY <1>1, <1>3, <1>6, <2>1, <2>4 DEF LayerKnown, Progress!Place, WordsAt
<1>7. CASE word = "Extracting"
  <2>1. PICK z : z = Progress!Told(y, m)
    OBVIOUS
  <2>2. z = [y EXCEPT !.phase = "extracting", !.exCurrent = got,
              !.exTotal = Progress!Known(y.exTotal, SizeOf[l])]
    BY <1>2, <1>7, <2>1 DEF Progress!Told
  <2>3. Progress!Known(y.exTotal, SizeOf[l]) \in {0, SizeOf[l]}
    BY <1>0, <1>1 DEF Progress!Known, LayerKnown
  <2>4. /\ z \in LayerStates /\ z.phase = "extracting" /\ z.alreadyExists = y.alreadyExists
        /\ z.exTotal \in {0, SizeOf[l]} /\ z.exCurrent = got
    <3>1. PICK t \in Nat : t = Progress!Known(y.exTotal, SizeOf[l]) /\ t \in {0, SizeOf[l]}
      BY <1>0, <2>3
    <3>2. z = [y EXCEPT !.phase = "extracting", !.exCurrent = got, !.exTotal = t]
      BY <2>2, <3>1
    <3> QED
      BY <1>1, <3>1, <3>2 DEF LayerStates, LayerPhases
  <2> QED
    BY <1>1, <1>3, <1>7, <2>1, <2>4 DEF LayerKnown, Progress!Place, WordsAt
<1>8. CASE word = "Pull complete"
  <2>1. PICK z : z = Progress!Told(y, m)
    OBVIOUS
  <2>2. z = [y EXCEPT !.phase = "complete", !.dlCurrent = Progress!Filled(y.dlCurrent, y.dlTotal),
                      !.exCurrent = Progress!Filled(y.exCurrent, y.exTotal)]
    BY <1>2, <1>8, <2>1 DEF Progress!Told
  <2>3. /\ Progress!Filled(y.dlCurrent, y.dlTotal) \in Nat
        /\ Progress!Filled(y.exCurrent, y.exTotal) \in Nat
    BY <1>1 DEF Progress!Filled, LayerStates
  <2>4. z \in LayerStates /\ z.phase = "complete" /\ z.exTotal = y.exTotal
    BY <1>1, <2>2, <2>3 DEF LayerStates, LayerPhases
  <2> QED
    BY <1>1, <1>3, <1>8, <2>1, <2>4 DEF LayerKnown, Progress!Place, WordsAt
<1>9. CASE word = "Already exists"
  <2>1. PICK z : z = Progress!Told(y, m)
    OBVIOUS
  <2>2. z = [y EXCEPT !.phase = "complete", !.alreadyExists = TRUE]
    BY <1>2, <1>9, <2>1 DEF Progress!Told
  <2>4. z \in LayerStates /\ z.phase = "complete" /\ z.exTotal = y.exTotal
    BY <1>1, <2>2 DEF LayerStates, LayerPhases
  <2> QED
    BY <1>1, <1>3, <1>9, <2>1, <2>4 DEF LayerKnown, Progress!Place, WordsAt
<1> QED
  BY <1>4, <1>5, <1>6, <1>7, <1>8, <1>9 DEF Progress!LayerWords

(* A layer is listed once. *)
LEMMA OrderGrows ==
  ASSUME order \in Seq(Layers), Len(order) = Cardinality(Progress!Listed),
         Progress!Listed \subseteq Layers,
         NEW l \in Layers,
         order' = IF l \in Progress!Listed THEN order ELSE Append(order, l)
  PROVE  /\ order' \in Seq(Layers) /\ Len(order') = Cardinality(Progress!Listed')
         /\ Progress!Listed' = Progress!Listed \cup {l}
<1>1. IsFiniteSet(Progress!Listed)
  BY LayersAssumption, FS_Subset
<1>2. CASE l \in Progress!Listed
  <2>1. Progress!Listed' = Progress!Listed
    BY <1>2 DEF Progress!Listed
  <2> QED
    BY <1>2, <2>1
<1>3. CASE l \notin Progress!Listed
  <2>1. order' = Append(order, l)
    BY <1>3
  <2>2. Progress!Listed' = Progress!Listed \cup {l}
    <3>1. /\ Len(order) \in Nat /\ DOMAIN order = 1 .. Len(order) /\ order' \in Seq(Layers)
          /\ DOMAIN order' = 1 .. Len(order) + 1
          /\ order'[Len(order) + 1] = l /\ \A i \in 1 .. Len(order) : order'[i] = order[i]
      BY <2>1
    <3>2. Progress!Listed = {order[i] : i \in DOMAIN order}
      BY DEF Progress!Listed, Progress!ToSet
    <3>3. Progress!Listed' = {order'[i] : i \in DOMAIN order'}
      BY DEF Progress!Listed, Progress!ToSet
    <3>4. ASSUME NEW k \in Progress!Listed' PROVE k \in Progress!Listed \cup {l}
      <4>1. PICK i \in 1 .. Len(order) + 1 : k = order'[i]
        BY <3>1, <3>3
      <4>2. i = Len(order) + 1 \/ i \in 1 .. Len(order)
        BY <3>1
      <4> QED
        BY <3>1, <3>2, <4>1, <4>2
    <3>5. ASSUME NEW k \in Progress!Listed PROVE k \in Progress!Listed'
      <4>1. PICK i \in 1 .. Len(order) : k = order[i]
        BY <3>1, <3>2
      <4>2. i \in DOMAIN order' /\ k = order'[i]
        BY <3>1, <4>1
      <4> QED
        BY <3>3, <4>2
    <3>6. l \in Progress!Listed'
      <4>1. Len(order) + 1 \in DOMAIN order'
        BY <3>1
      <4> QED
        BY <3>1, <3>3, <4>1
    <3> QED
      BY <3>4, <3>5, <3>6
  <2>3. Cardinality(Progress!Listed') = Cardinality(Progress!Listed) + 1
    BY <1>1, <1>3, <2>2, FS_AddElement
  <2> QED
    BY <2>1, <2>2, <2>3
<1> QED
  BY <1>2, <1>3

(* Every message of the daemon, a retry and the end keep the invariant. *)
LEMMA ProgressStep == ProgressInv /\ [Progress!Next]_progress => ProgressInv'
<1> SUFFICES ASSUME ProgressInv, [Progress!Next]_progress PROVE ProgressInv'
  OBVIOUS
<1>1. ASSUME NEW l \in Layers, NEW word \in Progress!LayerWords, Progress!LayerMessage(l, word)
      PROVE  ProgressInv'
  <2>1. PICK c \in Nat : c = Progress!Least(IF Progress!Place(word) = pulling[l].at
                                             THEN pulling[l].current + 1 ELSE 0,
                                             SizeOf[l]) /\ c <= SizeOf[l]
    <3>1. SizeOf[l] \in Nat /\ pulling[l].current \in Nat
      BY LayersAssumption DEF ProgressInv, DaemonStates
    <3> QED
      BY <3>1 DEF Progress!Least
  <2>2. PICK m : m = Progress!PullMessage(l, word, c, SizeOf[l])
    OBVIOUS
  <2>3. PICK e : e = [at |-> Progress!Place(word), current |-> c]
    OBVIOUS
  <2>4. /\ pulling' = [pulling EXCEPT ![l] = e]
        /\ layers' = [layers EXCEPT ![l] = Progress!Told(layers[l], m)]
        /\ order' = IF l \in Progress!Listed THEN order ELSE Append(order, l)
    BY <1>1, <2>1, <2>2, <2>3 DEF Progress!LayerMessage, Progress!ApplyLayer, Progress!PullMessage
  <2>5. LayerKnown(l, Progress!Told(layers[l], m), e)
    <3>1. word \in Progress!Words(l)
      BY <1>1 DEF Progress!LayerMessage
    <3>2. PICK y : y = layers[l]
      OBVIOUS
    <3>3. PICK d : d = pulling[l]
      OBVIOUS
    <3>4. word \in WordsAt(d.at)
      BY <3>1, <3>3 DEF Progress!Words, WordsAt
    <3>5. LayerKnown(l, y, d)
      BY <3>2, <3>3 DEF ProgressInv
    <3> QED
      BY <2>1, <2>2, <2>3, <3>2, <3>4, <3>5, LayerHears
  <2>6. /\ order' \in Seq(Layers) /\ Len(order') = Cardinality(Progress!Listed')
        /\ Progress!Listed' = Progress!Listed \cup {l}
    BY <2>4, OrderGrows DEF ProgressInv
  <2> QED
    BY <2>4, <2>5, <2>6 DEF ProgressInv, LayerKnown
<1>2. ASSUME NEW l \in Layers, Progress!Retry(l) PROVE ProgressInv'
  <2>1. /\ pulling[l].at = "downloading" /\ pulling' = [pulling EXCEPT ![l].at = "waiting"]
        /\ UNCHANGED <<layers, order>>
    BY <1>2 DEF Progress!Retry, Progress!ApplyWhole
  <2>2. PICK e : e = [pulling[l] EXCEPT !.at = "waiting"]
    OBVIOUS
  <2>3. e \in DaemonStates /\ e.at = "waiting" /\ pulling' = [pulling EXCEPT ![l] = e]
    BY <2>1, <2>2 DEF ProgressInv, DaemonStates
  <2>4. LayerKnown(l, layers[l], e)
    BY <2>1, <2>3 DEF ProgressInv, LayerKnown
  <2>5. Progress!Listed' = Progress!Listed
    BY <2>1 DEF Progress!Listed
  <2> QED
    BY <2>1, <2>3, <2>4, <2>5 DEF ProgressInv
<1>3. ASSUME UNCHANGED <<pulling, layers, order>> PROVE ProgressInv'
  <2>1. Progress!Listed' = Progress!Listed
    BY <1>3 DEF Progress!Listed
  <2> QED
    BY <1>3, <2>1 DEF ProgressInv
<1>4. CASE Progress!Finish
  BY <1>3, <1>4 DEF Progress!Finish, Progress!ApplyWhole
<1>5. CASE Progress!Fail
  BY <1>3, <1>5 DEF Progress!Fail
<1>6. CASE UNCHANGED progress
  BY <1>3, <1>6 DEF progress
<1> QED
  BY <1>1, <1>2, <1>4, <1>5, <1>6 DEF Progress!Next

-----------------------------------------------------------------------------
(* What a full bar says. *)
LEMMA FullLayer ==
  ASSUME NEW l \in Layers, NEW y, NEW d, LayerKnown(l, y, d)
  PROVE  /\ Progress!layerFraction(y) \in 0 .. 5 * Scale
         /\ Progress!layerFraction(y) = 5 * Scale =>
              \/ d.at = "complete"
              \/ d.at = "extracting" /\ d.current = SizeOf[l]
<1>0. Scale \in Nat \ {0} /\ SizeOf[l] \in Nat /\ d.current \in Nat
  BY LayersAssumption DEF LayerKnown, DaemonStates
<1>1. CASE y.phase = "complete"
  BY <1>0, <1>1 DEF Progress!layerFraction, LayerKnown
<1>2. CASE y.phase # "complete"
  <2>1. y.dlCurrent \in Nat /\ y.dlTotal \in Nat /\ y.exCurrent \in Nat /\ y.exTotal \in Nat
    BY DEF LayerKnown, LayerStates
  <2>2. PICK a \in 0 .. Scale : a = Progress!Part(y.dlCurrent, y.dlTotal)
    BY <2>1, Shares
  <2>3. PICK b \in 0 .. Scale : /\ b = Progress!Part(y.exCurrent, y.exTotal)
                                /\ b = Scale => y.exTotal > 0 /\ y.exCurrent >= y.exTotal
    BY <2>1, Shares
  <2>4. Progress!layerFraction(y) = 4 * a + b
    BY <1>2, <2>2, <2>3 DEF Progress!layerFraction
  <2>5. 4 * a + b = 5 * Scale => b = Scale
    BY <1>0, <2>2, <2>3
  <2>6. y.exTotal > 0 /\ y.exCurrent >= y.exTotal => d.at = "extracting" /\ d.current = SizeOf[l]
    BY <1>0, <1>2, <2>1 DEF LayerKnown
  <2> QED
    BY <1>0, <2>2, <2>3, <2>4, <2>5, <2>6
<1> QED
  BY <1>1, <1>2

(* What a full bar says follows: in bytes every weighted layer is full, and
   no other is still to come; in layers every one is complete. *)
LEMMA ProgressSays == ProgressInv => Progress!FullMeansFetched
<1> SUFFICES ASSUME ProgressInv, ~done, Progress!Percent[1] = Progress!Percent[2],
                    NEW l \in Progress!Listed
             PROVE  \/ pulling[l].at = "complete"
                    \/ pulling[l].at = "extracting" /\ pulling[l].current = SizeOf[l]
  BY DEF Progress!FullMeansFetched
<1>0. /\ \A k \in Layers : LayerKnown(k, layers[k], pulling[k]) /\ layers[k] \in LayerStates
      /\ Progress!Listed \subseteq Layers /\ IsFiniteSet(Progress!Listed) /\ Scale \in Nat \ {0}
  BY LayersAssumption, FS_Subset DEF ProgressInv, LayerKnown
<1>1. order # <<>>
  <2> SUFFICES ASSUME order = <<>> PROVE FALSE
    OBVIOUS
  <2>1. Progress!Percent = <<0, 1>>
    BY Zenon DEF Progress!Percent
  <2> QED
    BY <2>1
<1>2. CASE ~Progress!ByteWeighted
  <2> DEFINE C == {k \in Progress!Listed : layers[k].phase = "complete"}
  <2>1. Progress!completed = Cardinality(C)
    BY LayersCount DEF Progress!completed
  <2>2. Progress!completed = Len(order)
    BY <1>1, <1>2 DEF Progress!Percent
  <2>3. Cardinality(C) = Cardinality(Progress!Listed)
    BY <2>1, <2>2 DEF ProgressInv
  <2>4. C = Progress!Listed
    BY <1>0, <2>3, FS_Subset
  <2> QED
    BY <1>0, <2>4 DEF LayerKnown
<1>3. CASE Progress!ByteWeighted
  <2> DEFINE W == Progress!Weighted
             w == [k \in Progress!Listed |-> layers[k].dlTotal]
             f == [k \in Progress!Listed |-> layers[k].dlTotal * Progress!layerFraction(layers[k])]
             K == 5 * Scale
  <2>1. Progress!WeightSum = Sum(w, W) /\ Progress!WeightedVal = Sum(f, W)
    BY Zenon DEF Progress!WeightSum, Progress!WeightedVal, Progress!FoldFunctionOnSet,
                 Progress!MapThenFoldSet, Sum, Adds, Some
  <2>2. Progress!WeightedVal = Progress!WeightSum * 5 * Scale
    BY <1>1, <1>3 DEF Progress!Percent
  <2>3. /\ W \subseteq Progress!Listed /\ IsFiniteSet(W)
        /\ \A k \in W : w[k] = layers[k].dlTotal /\ w[k] > 0
    BY <1>0, FS_Subset DEF Progress!Weighted
  <2>4. ASSUME NEW k \in W PROVE f[k] \in Nat /\ w[k] \in Nat /\ f[k] <= w[k] * K /\ K \in Nat
    <3>1. PICK x \in 0 .. K : x = Progress!layerFraction(layers[k])
      BY <1>0, <2>3, FullLayer
    <3>2. PICK y \in Nat : y = w[k]
      BY <1>0, <2>3 DEF LayerStates
    <3>3. f[k] = y * x
      BY <2>3, <3>1, <3>2
    <3>4. y * x <= y * K /\ y * x \in Nat /\ K \in Nat
      BY <1>0, <3>1, <3>2
    <3> QED
      BY <3>2, <3>3, <3>4
  <2>5. K \in Nat /\ Sum(f, W) = Sum(w, W) * K
    <3>1. Sum(w, W) \in Nat
      BY <2>3, <2>4, SumIsNat
    <3>2. PICK x \in Nat : x = Sum(w, W)
      BY <3>1
    <3>3. x * 5 * Scale = x * (5 * Scale) /\ 5 * Scale \in Nat
      BY <1>0
    <3>4. Sum(f, W) = x * 5 * Scale
      BY <2>1, <2>2, <3>2
    <3> QED
      BY <3>2, <3>3, <3>4
  <2>6. ASSUME NEW k \in W PROVE Progress!layerFraction(layers[k]) = K
    <3>0. \A j \in W : f[j] = w[j] * K
      <4>1. \A j \in W : f[j] \in Nat /\ w[j] \in Nat /\ f[j] <= w[j] * K
        BY <2>4
      <4> HIDE DEF f, w, W, K
      <4> QED
        BY <2>3, <2>5, <4>1, SumsCompare
    <3>1. PICK x \in 0 .. K : x = Progress!layerFraction(layers[k])
      BY <1>0, <2>3, FullLayer
    <3>2. PICK y \in Nat : y = layers[k].dlTotal /\ y > 0
      BY <1>0, <2>3 DEF LayerStates
    <3>3. f[k] = y * x /\ w[k] = y
      BY <2>3, <3>1, <3>2
    <3>4. y * x = y * K
      BY <3>0, <3>3
    <3> HIDE DEF K
    <3>5. x = K
      BY <2>5, <3>1, <3>2, <3>4, Cancels
    <3> QED
      BY <3>1, <3>5
  <2>7. CASE l \in W
    BY <1>0, <2>6, <2>7, FullLayer
  <2>8. CASE l \notin W
    <3>1. layers[l].dlTotal = 0 /\ ~Progress!unknownSize
      BY <1>0, <1>3, <2>8 DEF Progress!Weighted, Progress!ByteWeighted, LayerStates
    <3>2. layers[l].alreadyExists \/ layers[l].phase = "complete"
      BY <3>1 DEF Progress!unknownSize
    <3> QED
      BY <1>0, <3>2 DEF LayerKnown
  <2> QED
    BY <2>7, <2>8
<1> QED
  BY <1>2, <1>3

(* A full bar before the end is no promise, it is the truth: for every set of
   layers and every size (Progress, image.go:414-495). *)
THEOREM FullFetched == MCSpec => []FullMeansFetched
<1>1. MCInit => ProgressInv
  BY ProgressInit DEF MCInit
<1>2. [MCNext]_<<part, ringVars, socket, progress, polling>> => [Progress!Next]_progress
  BY DEF MCNext
<1>3. ProgressInv => FullMeansFetched
  BY ProgressSays DEF FullMeansFetched
<1> QED
  BY <1>1, <1>2, <1>3, ProgressStep, PTL DEF MCSpec

-----------------------------------------------------------------------------
(* The collector of the samples: types, at most one open stream per container,
   a timer for every unwatched collection, and OnDemand implemented. *)

(* A viewer who comes makes the set of those inside larger by one, one who *)
(* leaves makes it smaller by one.                                         *)
LEMMA InsideCounts ==
  ASSUME inside \subseteq Viewers, NEW v \in Viewers
  PROVE  /\ Cardinality(inside) \in Nat
         /\ v \notin inside => Cardinality(inside \cup {v}) = Cardinality(inside) + 1
         /\ v \in inside => Cardinality(inside \ {v}) = Cardinality(inside) - 1
<1>1. IsFiniteSet(inside)
  BY FS_Subset, ViewersAssumption
<1> QED
  BY <1>1, FS_CardinalityType, FS_AddElement, FS_RemoveElement

LEMMA StartTypes ==
  ASSUME LoopsOK, NEW l \in Loops, Start(l)
  PROVE  LoopsOK'
BY DEF LoopsOK, Start, LoopState

LEMMA SubscribeTypes ==
  ASSUME TypeOK, NEW v \in Viewers, Subscribe(v)
  PROVE  TypeOK'
<1>1. ViewersOK'
  <2>1. v \notin inside /\ inside' = inside \cup {v} /\ subs' = subs + 1 /\ closed' = closed
    BY DEF Subscribe
  <2> QED BY <2>1, InsideCounts DEF TypeOK, ViewersOK
<1>2. LoopsOK'
  <2>1. CASE current' = current /\ loop' = loop
    BY <2>1 DEF TypeOK, LoopsOK
  <2>2. CASE \E l \in Loops : Start(l)
    BY <2>2, StartTypes DEF TypeOK
  <2> QED BY <2>1, <2>2 DEF Subscribe
<1>3. up' \subseteq Containers /\ StreamsOK'
  BY DEF TypeOK, Subscribe, StreamsOK, streams
<1>4. TimerOK'
  BY DEF TypeOK, Subscribe, TimerOK
<1> QED
  BY <1>1, <1>2, <1>3, <1>4 DEF TypeOK

LEMMA UnsubscribeTypes ==
  ASSUME TypeOK, NEW v \in Viewers, Unsubscribe(v)
  PROVE  TypeOK'
<1>1. ViewersOK'
  <2>1. /\ v \in inside /\ inside' = inside \ {v} /\ closed' = closed
        /\ subs' = IF subs > 1 THEN subs - 1 ELSE 0
    BY DEF Unsubscribe, Leaves
  <2>2. Cardinality(inside) \in Nat /\ Cardinality(inside') = Cardinality(inside) - 1
    BY <2>1, InsideCounts DEF TypeOK, ViewersOK
  <2>3. subs \in Nat /\ subs <= Cardinality(inside)
    BY DEF TypeOK, ViewersOK
  <2>4. Cardinality(inside') \in Nat
    BY <2>1, FS_Subset, FS_CardinalityType, ViewersAssumption DEF TypeOK, ViewersOK
  <2>5. subs' \in Nat /\ subs' <= Cardinality(inside')
    BY <2>1, <2>2, <2>3, <2>4
  <2> QED BY <2>1, <2>5 DEF TypeOK, ViewersOK
<1>2. LoopsOK'
  BY DEF TypeOK, Unsubscribe, LoopsOK
<1>3. up' \subseteq Containers /\ StreamsOK'
  BY DEF TypeOK, Unsubscribe, StreamsOK, streams
<1>4. TimerOK'
  <2>1. late' \in 0..MaxLate
    BY LateAssumption DEF TypeOK, TimerOK, Unsubscribe, timer
  <2>2. armed' \in BOOLEAN
    BY DEF TypeOK, TimerOK, Unsubscribe, timer
  <2> QED BY <2>1, <2>2 DEF TimerOK
<1> QED
  BY <1>1, <1>2, <1>3, <1>4 DEF TypeOK

(* A stream whose context is cancelled, one that begins and none. *)
LEMMA StreamStates ==
  /\ \A s \in StreamState : [s EXCEPT !.live = FALSE] \in StreamState
  /\ \A b \in BOOLEAN : [at |-> "reading", live |-> b] \in StreamState
  /\ \A s \in StreamState, a \in {"reading", "sampled"} : [s EXCEPT !.at = a] \in StreamState
  /\ Free \in StreamState
BY DEF StreamState, Free

LEMMA StopTypes ==
  ASSUME StreamsOK, LoopsOK, StopLocked, loop' = loop
  PROVE  StreamsOK' /\ LoopsOK'
<1>1. LoopsOK'
  BY DEF LoopsOK, StopLocked
<1>2. stream' \in [Containers -> [Copies -> StreamState]]
  BY StreamStates DEF StreamsOK, StopLocked
<1>3. reg' \in [Containers -> Copies \cup {None}] /\ shown' \subseteq Containers
  BY DEF StopLocked
<1> QED BY <1>1, <1>2, <1>3 DEF StreamsOK

LEMMA TimerTypes ==
  ASSUME TypeOK, Expire \/ CooldownOver \/ Close
  PROVE  TypeOK'
<1>1. up' \subseteq Containers
  BY DEF TypeOK, Expire, CooldownOver, Close
<1>2. TimerOK'
  <2>1. late' \in 0..MaxLate
    BY LateAssumption DEF TypeOK, TimerOK, Expire, CooldownOver, Close
  <2>2. armed' \in BOOLEAN
    BY DEF TypeOK, TimerOK, Expire, CooldownOver, Close
  <2> QED BY <2>1, <2>2 DEF TimerOK
<1>3. ViewersOK'
  <2>1. CASE inside' = inside /\ subs' = subs /\ closed' = closed
    BY <2>1 DEF TypeOK, ViewersOK
  <2>2. CASE inside' = inside /\ subs' = 0 /\ closed' = TRUE
    <3>1. Cardinality(inside) \in Nat
      BY FS_Subset, FS_CardinalityType, ViewersAssumption DEF TypeOK, ViewersOK
    <3> QED BY <2>2, <3>1 DEF TypeOK, ViewersOK
  <2> QED BY <2>1, <2>2 DEF Expire, CooldownOver, Close, viewers
<1>4. LoopsOK' /\ StreamsOK'
  <2>1. CASE StopLocked /\ loop' = loop
    BY <2>1, StopTypes DEF TypeOK
  <2>2. CASE UNCHANGED <<current, loop, streams>>
    BY <2>2 DEF TypeOK, LoopsOK, StreamsOK, streams
  <2> QED BY <2>1, <2>2 DEF Expire, CooldownOver, Close, streams
<1> QED
  BY <1>1, <1>2, <1>3, <1>4 DEF TypeOK

(* The steps of loops and streams leave viewers and timers alone. *)
LEMMA LoopTypes ==
  ASSUME TypeOK, NEW l \in Loops, List(l) \/ Sync(l) \/ LoopEnds(l)
  PROVE  TypeOK'
<1>1. up' \subseteq Containers /\ ViewersOK' /\ TimerOK'
  BY DEF TypeOK, ViewersOK, TimerOK, List, Sync, LoopEnds, viewers, timer
<1>2. LoopsOK'
  <2>1. current' = current
    BY DEF List, Sync, LoopEnds
  <2>2. Idle \in LoopState /\ [at |-> "sync", seen |-> up] \in LoopState
        /\ [at |-> "wait", seen |-> {}] \in LoopState
    BY DEF TypeOK, Idle, LoopState
  <2>3. \E s \in LoopState : loop' = [loop EXCEPT ![l] = s]
    BY <2>2 DEF List, Sync, LoopEnds, LoopAt
  <2> QED BY <2>1, <2>3 DEF TypeOK, LoopsOK
<1>3. StreamsOK'
  <2>1. CASE Sync(l)
    <3>1. PICK slot \in [Containers -> Copies] :
            /\ stream' = [c \in Containers |-> [k \in Copies |->
                 IF c \in Gone(l) /\ reg[c] = k THEN [stream[c][k] EXCEPT !.live = FALSE]
                 ELSE IF c \in New(l) /\ slot[c] = k
                      THEN [at |-> "reading", live |-> current = l]
                 ELSE stream[c][k]]]
            /\ reg' = [c \in Containers |-> IF c \in Gone(l) THEN None
                                            ELSE IF c \in New(l) THEN slot[c] ELSE reg[c]]
      BY <2>1 DEF Sync
    <3>2. ASSUME NEW c \in Containers, NEW k \in Copies
          PROVE  stream'[c][k] \in StreamState
      <4>1. stream[c][k] \in StreamState
        BY DEF TypeOK, StreamsOK
      <4>2. \/ stream'[c][k] = [stream[c][k] EXCEPT !.live = FALSE]
            \/ \E b \in BOOLEAN : stream'[c][k] = [at |-> "reading", live |-> b]
            \/ stream'[c][k] = stream[c][k]
        BY <3>1
      <4> QED BY <4>1, <4>2, StreamStates
    <3>3. stream' \in [Containers -> [Copies -> StreamState]]
      BY <3>1, <3>2
    <3>4. reg' \in [Containers -> Copies \cup {None}]
      BY <3>1 DEF TypeOK, StreamsOK
    <3>5. shown' \subseteq Containers
      BY <2>1 DEF Sync, TypeOK, StreamsOK
    <3> QED BY <3>3, <3>4, <3>5 DEF StreamsOK
  <2>2. CASE UNCHANGED streams
    BY <2>2 DEF TypeOK, StreamsOK, streams
  <2> QED BY <2>1, <2>2 DEF List, LoopEnds
<1> QED
  BY <1>1, <1>2, <1>3 DEF TypeOK

LEMMA StreamTypes ==
  ASSUME TypeOK, NEW c \in Containers, NEW k \in Copies,
         Decode(c, k) \/ Record(c, k) \/ StreamEnds(c, k)
  PROVE  TypeOK'
<1>1. up' \subseteq Containers /\ ViewersOK' /\ TimerOK' /\ LoopsOK'
  BY DEF TypeOK, ViewersOK, TimerOK, LoopsOK, Decode, Record, StreamEnds, viewers, timer
<1>2. stream' \in [Containers -> [Copies -> StreamState]]
  <2>1. CASE \E at \in {"reading", "sampled"} : StreamAt(c, k, at)
    <3>1. PICK at \in {"reading", "sampled"} : StreamAt(c, k, at)
      BY <2>1
    <3>2. stream[c][k] \in StreamState /\ stream[c] \in [Copies -> StreamState]
      BY DEF TypeOK, StreamsOK
    <3>3. stream' = [stream EXCEPT ![c] = [stream[c] EXCEPT ![k] = [stream[c][k] EXCEPT !.at = at]]]
      BY <3>1 DEF StreamAt, TypeOK, StreamsOK
    <3>4. [stream[c] EXCEPT ![k] = [stream[c][k] EXCEPT !.at = at]] \in [Copies -> StreamState]
      BY <3>2, StreamStates
    <3> QED BY <3>3, <3>4 DEF TypeOK, StreamsOK
  <2>2. CASE Drop(c, k)
    <3>1. \A j \in Copies : stream[c][j] \in StreamState
      BY DEF TypeOK, StreamsOK
    <3>2. [j \in Copies |-> IF j = k THEN Free
             ELSE IF j = reg[c] THEN [stream[c][j] EXCEPT !.live = FALSE]
             ELSE stream[c][j]] \in [Copies -> StreamState]
      BY <3>1, StreamStates
    <3> QED BY <2>2, <3>2 DEF Drop, TypeOK, StreamsOK
  <2> QED BY <2>1, <2>2 DEF Decode, Record, StreamEnds
<1>3. reg' \in [Containers -> Copies \cup {None}] /\ shown' \subseteq Containers
  BY DEF TypeOK, StreamsOK, Decode, Record, StreamEnds, Drop
<1> QED
  BY <1>1, <1>2, <1>3 DEF TypeOK, StreamsOK

LEMMA TypesInit == Init => TypeOK
<1> SUFFICES ASSUME Init PROVE TypeOK
  OBVIOUS
<1>1. ViewersOK
  <2>1. inside = {} /\ subs = 0 /\ closed = FALSE
    BY DEF Init
  <2>2. Cardinality(inside) = 0
    BY <2>1, FS_EmptySet
  <2>3. subs \in Nat /\ subs <= Cardinality(inside)
    BY <2>1, <2>2
  <2>4. inside \subseteq Viewers /\ closed \in BOOLEAN
    BY <2>1
  <2> QED BY <2>3, <2>4 DEF ViewersOK
<1>2. TimerOK /\ LoopsOK
  <2>1. Idle \in LoopState
    BY DEF LoopState, Idle
  <2>2. late \in 0..MaxLate
    BY LateAssumption DEF Init
  <2>3. armed \in BOOLEAN /\ LoopsOK
    BY <2>1 DEF Init, LoopsOK
  <2> QED BY <2>2, <2>3 DEF TimerOK
<1>3. StreamsOK
  BY DEF Init, StreamsOK, StreamState, Free
<1> QED
  BY <1>1, <1>2, <1>3 DEF Init, TypeOK

LEMMA TypesStep == TypeOK /\ [Next]_vars => TypeOK'
<1> SUFFICES ASSUME TypeOK, [Next]_vars PROVE TypeOK'
  OBVIOUS
<1>1. CASE \E v \in Viewers : Subscribe(v) \/ Unsubscribe(v)
  BY <1>1, SubscribeTypes, UnsubscribeTypes
<1>2. CASE Expire \/ CooldownOver \/ Close
  BY <1>2, TimerTypes
<1>3. CASE \E l \in Loops : List(l) \/ Sync(l) \/ LoopEnds(l)
  BY <1>3, LoopTypes
<1>4. CASE \E c \in Containers, k \in Copies :
             Decode(c, k) \/ Record(c, k) \/ StreamEnds(c, k)
  BY <1>4, StreamTypes
<1>5. CASE Daemon
  BY <1>5 DEF Daemon, TypeOK, ViewersOK, TimerOK, LoopsOK, StreamsOK, viewers, timer, streams
<1>6. CASE UNCHANGED vars
  BY <1>6 DEF vars, TypeOK, ViewersOK, TimerOK, LoopsOK, StreamsOK
<1> QED
  BY <1>1, <1>2, <1>3, <1>4, <1>5, <1>6 DEF Next

(* Types: the number of subscribers in particular is never larger than the *)
(* number of viewers between Subscribe and the function it returned.       *)
THEOREM TypeCorrect == Spec => []TypeOK
BY TypesInit, TypesStep, PTL DEF Spec

-----------------------------------------------------------------------------
(* At most one open stream per container.                                  *)

(* A collection that starts finds no open stream. *)
LEMMA KeptStreams ==
  ASSUME OneStream, stream' = stream, reg' = reg, current' = current \/ ~Running
  PROVE  OneStream'
BY DEF OneStream, Running

LEMMA StoppedStreams ==
  ASSUME TypeOK, StopLocked
  PROVE  OneStream' /\ \A c \in Containers, k \in Copies : ~stream'[c][k].live
<1>1. ASSUME NEW c \in Containers, NEW k \in Copies PROVE ~stream'[c][k].live
  <2>1. stream[c][k] \in StreamState
    BY DEF TypeOK, StreamsOK
  <2>2. stream'[c][k] = [stream[c][k] EXCEPT !.live = FALSE]
    BY DEF StopLocked
  <2> QED BY <2>1, <2>2 DEF StreamState
<1> QED BY <1>1 DEF OneStream

(* What a loop registers is live only if it is the current one's, and it   *)
(* registers a stream only where none was, so that none was open.          *)
LEMMA SyncedStreams ==
  ASSUME TypeOK, OneStream, NEW l \in Loops, Sync(l)
  PROVE  OneStream'
<1>1. PICK slot \in [Containers -> Copies] :
        /\ stream' = [c \in Containers |-> [k \in Copies |->
             IF c \in Gone(l) /\ reg[c] = k THEN [stream[c][k] EXCEPT !.live = FALSE]
             ELSE IF c \in New(l) /\ slot[c] = k THEN [at |-> "reading", live |-> current = l]
             ELSE stream[c][k]]]
        /\ reg' = [c \in Containers |-> IF c \in Gone(l) THEN None
                                        ELSE IF c \in New(l) THEN slot[c] ELSE reg[c]]
  BY DEF Sync
<1> SUFFICES ASSUME NEW c \in Containers, NEW k \in Copies, stream'[c][k].live
             PROVE  Running' /\ reg'[c] = k /\ stream'[c][k].at # "free"
  BY DEF OneStream
<1>2. current' = current /\ l # None
  BY NoneAssumption DEF Sync
<1>3. stream[c][k] \in StreamState
  BY DEF TypeOK, StreamsOK
<1>4. CASE c \in Gone(l) /\ reg[c] = k
  <2>1. stream'[c][k] = [stream[c][k] EXCEPT !.live = FALSE]
    BY <1>1, <1>4
  <2> QED BY <2>1, <1>3 DEF StreamState
<1>5. CASE ~(c \in Gone(l) /\ reg[c] = k) /\ c \in New(l) /\ slot[c] = k
  <2>1. stream'[c][k] = [at |-> "reading", live |-> current = l]
    BY <1>1, <1>5
  <2>2. c \notin Gone(l)
    BY <1>5 DEF Gone, New
  <2> QED BY <2>1, <2>2, <1>1, <1>2, <1>5 DEF Running
<1>6. CASE ~(c \in Gone(l) /\ reg[c] = k) /\ ~(c \in New(l) /\ slot[c] = k)
  <2>1. stream'[c][k] = stream[c][k]
    BY <1>1, <1>6
  <2>2. Running /\ reg[c] = k /\ stream[c][k].at # "free"
    BY <2>1 DEF OneStream
  <2>3. c \notin Gone(l) /\ c \notin New(l)
    BY <2>2, <1>6, NoneAssumption DEF New
  <2> QED BY <2>1, <2>2, <2>3, <1>1, <1>2 DEF Running
<1> QED BY <1>4, <1>5, <1>6

(* dropStream leaves no stream of the container open. *)
LEMMA DroppedStreams ==
  ASSUME TypeOK, OneStream, NEW c \in Containers, NEW k \in Copies, Drop(c, k),
         current' = current
  PROVE  OneStream'
<1> SUFFICES ASSUME NEW d \in Containers, NEW j \in Copies, stream'[d][j].live
             PROVE  Running' /\ reg'[d] = j /\ stream'[d][j].at # "free"
  BY DEF OneStream
<1>1. CASE d = c
  <2>1. stream'[c][j] = IF j = k THEN Free
          ELSE IF j = reg[c] THEN [stream[c][j] EXCEPT !.live = FALSE] ELSE stream[c][j]
    BY DEF Drop, TypeOK, StreamsOK
  <2>2. stream[c][j] \in StreamState
    BY DEF TypeOK, StreamsOK
  <2>3. j # k /\ j # reg[c]
    BY <1>1, <2>1, <2>2 DEF Free, StreamState
  <2> QED BY <1>1, <2>1, <2>3 DEF OneStream
<1>2. CASE d # c
  <2>1. stream'[d] = stream[d] /\ reg'[d] = reg[d]
    BY <1>2 DEF Drop, TypeOK, StreamsOK
  <2> QED BY <2>1 DEF OneStream, Running
<1> QED BY <1>1, <1>2

LEMMA MovedStreams ==
  ASSUME TypeOK, OneStream, NEW c \in Containers, NEW k \in Copies,
         NEW at \in {"reading", "sampled"}, StreamAt(c, k, at),
         stream[c][k].at # "free", current' = current, reg' = reg
  PROVE  /\ OneStream'
         /\ \A d \in Containers, j \in Copies : stream'[d][j].live = stream[d][j].live
<1>1. ASSUME NEW d \in Containers, NEW j \in Copies
      PROVE  /\ stream'[d][j].live = stream[d][j].live
             /\ stream[d][j].at # "free" => stream'[d][j].at # "free"
  <2>1. stream[d][j] \in StreamState /\ stream[d] \in [Copies -> StreamState]
    BY DEF TypeOK, StreamsOK
  <2>2. stream'[d][j] = stream[d][j] \/ stream'[d][j] = [stream[d][j] EXCEPT !.at = at]
    BY DEF StreamAt, TypeOK, StreamsOK
  <2> QED BY <2>1, <2>2 DEF StreamState
<1> QED BY <1>1 DEF OneStream, Running

LEMMA OneStreamInit == Init => OneStream
BY DEF Init, OneStream, Free

LEMMA OneStreamStep == TypeOK /\ OneStream /\ [Next]_vars => OneStream'
<1> SUFFICES ASSUME TypeOK, OneStream, [Next]_vars PROVE OneStream'
  OBVIOUS
<1>1. ASSUME NEW v \in Viewers, Subscribe(v) \/ Unsubscribe(v) PROVE OneStream'
  BY <1>1, KeptStreams DEF Subscribe, Unsubscribe, streams
<1>2. CASE Expire
  BY <1>2, KeptStreams DEF Expire, streams
<1>3. CASE CooldownOver \/ Close
  BY <1>3, KeptStreams, StoppedStreams DEF CooldownOver, Close, streams
<1>4. ASSUME NEW l \in Loops, List(l) \/ Sync(l) \/ LoopEnds(l) PROVE OneStream'
  BY <1>4, KeptStreams, SyncedStreams DEF List, LoopEnds, streams
<1>5. ASSUME NEW c \in Containers, NEW k \in Copies, Decode(c, k) \/ Record(c, k) PROVE OneStream'
  BY <1>5, MovedStreams DEF Decode, Record
<1>6. ASSUME NEW c \in Containers, NEW k \in Copies, StreamEnds(c, k) PROVE OneStream'
  BY <1>6, DroppedStreams DEF StreamEnds
<1>7. CASE Daemon \/ UNCHANGED vars
  BY <1>7, KeptStreams DEF Daemon, vars, streams
<1> QED
  BY <1>1, <1>2, <1>3, <1>4, <1>5, <1>6, <1>7 DEF Next

(* However many collections, loops and streams there have been, at most    *)
(* one stream per container is open, and it is the registered one.         *)
THEOREM StreamsAreShared == Spec => []OneStream
BY TypesInit, TypesStep, OneStreamInit, OneStreamStep, PTL DEF Spec

-----------------------------------------------------------------------------
(* A collection nobody watches has a timer.                                *)

LEMMA TimedStep == TypeOK /\ UnwatchedIsTimed /\ [Next]_vars => UnwatchedIsTimed'
<1> SUFFICES ASSUME TypeOK, UnwatchedIsTimed, [Next]_vars PROVE UnwatchedIsTimed'
  OBVIOUS
<1>1. subs \in Nat /\ late \in Nat
  BY LateAssumption DEF TypeOK, ViewersOK, TimerOK
<1>2. ASSUME NEW v \in Viewers, Subscribe(v) PROVE UnwatchedIsTimed'
  <2>1. subs' = subs + 1
    BY <1>2 DEF Subscribe
  <2>2. subs' # 0
    BY <1>1, <2>1
  <2> QED BY <2>2 DEF UnwatchedIsTimed
<1>3. ASSUME NEW v \in Viewers, Unsubscribe(v) PROVE UnwatchedIsTimed'
  <2>1. CASE subs > 1 /\ subs' = subs - 1
    <3>1. subs' # 0
      BY <1>1, <2>1
    <3> QED BY <3>1 DEF UnwatchedIsTimed
  <2>2. CASE armed' = TRUE
    BY <2>2 DEF UnwatchedIsTimed
  <2> QED BY <1>1, <1>3, <2>1, <2>2 DEF Unsubscribe, Leaves
<1>4. CASE Expire
  <2>1. late' = late + 1
    BY <1>4 DEF Expire
  <2>2. late' > 0
    BY <1>1, <2>1
  <2> QED BY <2>2 DEF UnwatchedIsTimed
<1>5. CASE CooldownOver \/ Close
  <2>1. CASE current' = None
    BY <2>1 DEF UnwatchedIsTimed, Running
  <2>2. CASE ~StopIfUnwatched /\ subs' = subs /\ current' = current
    BY <2>2 DEF UnwatchedIsTimed, StopIfUnwatched, Running
  <2>3. CASE ~Running /\ current' = current
    BY <2>3 DEF UnwatchedIsTimed, Running
  <2> QED BY <1>5, <2>1, <2>2, <2>3 DEF CooldownOver, Close, StopLocked, viewers
<1>6. CASE UNCHANGED <<subs, current, armed, late>>
  BY <1>6 DEF UnwatchedIsTimed, Running
<1>7. ASSUME NEW l \in Loops, List(l) \/ Sync(l) \/ LoopEnds(l) PROVE UnwatchedIsTimed'
  BY <1>6, <1>7 DEF List, Sync, LoopEnds, viewers, timer
<1>8. ASSUME NEW c \in Containers, NEW k \in Copies,
             Decode(c, k) \/ Record(c, k) \/ StreamEnds(c, k)
      PROVE  UnwatchedIsTimed'
  BY <1>6, <1>8 DEF Decode, Record, StreamEnds, viewers, timer
<1>9. CASE Daemon \/ UNCHANGED vars
  BY <1>6, <1>9 DEF Daemon, vars, viewers, timer
<1> QED
  BY <1>2, <1>3, <1>4, <1>5, <1>7, <1>8, <1>9 DEF Next

(* A collection that nobody watches has a timer, armed or about to act:    *)
(* with the fairness of timers, it does not go on for ever.                *)
THEOREM UnwatchedStops == Spec => []UnwatchedIsTimed
<1>1. Init => UnwatchedIsTimed
  BY DEF Init, UnwatchedIsTimed, Running
<1> QED
  BY <1>1, TypesInit, TypesStep, TimedStep, PTL DEF Spec

-----------------------------------------------------------------------------
(* The collector implements OnDemand.                                      *)

Read == {c \in Containers : Reads(c)}

LEMMA SameRead ==
  ASSUME \A c \in Containers, k \in Copies : stream'[c][k].live = stream[c][k].live
  PROVE  Read' = Read
BY DEF Read, Reads

LEMMA NoRead ==
  ASSUME OneStream, ~Running
  PROVE  Read = {}
BY DEF Read, Reads, OneStream

(* What the streams do while a collection goes on is a step Adapt, and     *)
(* what is left of them afterwards does nothing the daemon would notice.   *)
LEMMA StreamsAdapt ==
  ASSUME OneStream, OneStream', current' = current, subs' = subs
  PROVE  Promise!Adapt \/ UNCHANGED <<subs, Running, Read>>
<1>1. CASE Running
  BY <1>1 DEF Promise!Adapt, Running, Read
<1>2. CASE ~Running
  <2>1. ~Running' /\ Running' = Running
    BY <1>2 DEF Running
  <2>2. Read = {} /\ Read' = {}
    BY <1>2, <2>1 DEF Read, Reads, OneStream
  <2> QED BY <2>1, <2>2
<1> QED BY <1>1, <1>2

LEMMA StopImplements ==
  ASSUME TypeOK, StopLocked
  PROVE  ~Running' /\ Read' = {}
<1>1. \A c \in Containers, k \in Copies : ~stream'[c][k].live
  BY StoppedStreams
<1> QED BY <1>1 DEF StopLocked, Running, Read, Reads

LEMMA SubscribeJoins ==
  ASSUME TypeOK, NEW v \in Viewers, Subscribe(v)
  PROVE  Promise!Join
<1>1. subs' = subs + 1 /\ stream' = stream
  BY DEF Subscribe, streams
<1>2. Running'
  BY NoneAssumption DEF Subscribe, Running, Start
<1>3. Read' = Read
  BY <1>1, SameRead
<1> QED
  BY <1>1, <1>2, <1>3 DEF Promise!Join, Read

LEMMA UnsubscribeLeaves ==
  ASSUME TypeOK, NEW v \in Viewers, Unsubscribe(v)
  PROVE  Promise!Leave
<1>1. subs \in Nat
  BY DEF TypeOK, ViewersOK
<1>2. subs' = IF subs > 0 THEN subs - 1 ELSE 0
  BY <1>1 DEF Unsubscribe, Leaves
<1>3. current' = current /\ stream' = stream
  BY DEF Unsubscribe, streams
<1>4. Read' = Read
  BY <1>3, SameRead
<1>5. Running' = Running
  BY <1>3 DEF Running
<1> QED
  BY <1>2, <1>4, <1>5 DEF Promise!Leave, Read

LEMMA CooldownStops ==
  ASSUME TypeOK, CooldownOver
  PROVE  Promise!Stop \/ UNCHANGED <<subs, Running, Read>>
<1>1. subs' = subs
  BY DEF CooldownOver, viewers
<1>2. CASE StopIfUnwatched
  <2>1. ~Running' /\ Read' = {}
    BY <1>2, StopImplements DEF CooldownOver
  <2>2. subs = 0 /\ Running
    BY <1>2 DEF StopIfUnwatched
  <2>3. Running' = FALSE
    BY <2>1 DEF Running
  <2>4. Promise!Stop
    BY <1>1, <2>1, <2>2, <2>3 DEF Promise!Stop, Read
  <2> QED BY <2>4
<1>3. CASE ~StopIfUnwatched
  <2>1. current' = current /\ stream' = stream
    BY <1>3 DEF CooldownOver, streams
  <2>2. Read' = Read
    BY <2>1, SameRead
  <2>3. Running' = Running
    BY <2>1 DEF Running
  <2> QED BY <1>1, <2>2, <2>3
<1> QED BY <1>2, <1>3

LEMMA CloseCloses ==
  ASSUME TypeOK, OneStream, OneStream', Close
  PROVE  Promise!Close
<1>1. subs' = 0
  BY DEF Close
<1>2. ~Running' /\ Read' = {}
  <2>1. CASE Running
    BY <2>1, StopImplements DEF Close
  <2>2. CASE ~Running
    <3>1. current' = current /\ stream' = stream
      BY <2>2 DEF Close, streams
    <3>2. Read' = Read
      BY <3>1, SameRead
    <3>3. ~Running'
      BY <2>2, <3>1 DEF Running
    <3> QED BY <2>2, <3>2, <3>3, NoRead
  <2> QED BY <2>1, <2>2
<1> QED
  BY <1>1, <1>2 DEF Promise!Close, Read

LEMMA InitImplements == Init => Promise!Init
<1> SUFFICES ASSUME Init PROVE Promise!Init
  OBVIOUS
<1>1. ~Running /\ Read = {}
  BY DEF Init, Running, Read, Reads, Free
<1> QED
  BY <1>1 DEF Init, Promise!Init, Read

LEMMA StepImplements ==
  TypeOK /\ OneStream /\ OneStream' /\ [Next]_vars => [Promise!Next]_(Promise!vars)
<1> SUFFICES ASSUME TypeOK, OneStream, OneStream', [Next]_vars
             PROVE  Promise!Next \/ UNCHANGED <<subs, Running, Read>>
  BY DEF Promise!vars, Read
<1>1. ASSUME NEW v \in Viewers, Subscribe(v) \/ Unsubscribe(v) PROVE Promise!Next
  BY <1>1, SubscribeJoins, UnsubscribeLeaves DEF Promise!Next
<1>2. CASE CooldownOver
  BY <1>2, CooldownStops DEF Promise!Next
<1>3. CASE Close
  BY <1>3, CloseCloses DEF Promise!Next
<1>4. CASE current' = current /\ subs' = subs
  BY <1>4, StreamsAdapt DEF Promise!Next
<1>5. CASE Expire \/ Daemon \/ UNCHANGED vars
  BY <1>4, <1>5 DEF Expire, Daemon, vars, viewers
<1>6. ASSUME NEW l \in Loops, List(l) \/ Sync(l) \/ LoopEnds(l)
      PROVE  Promise!Next \/ UNCHANGED <<subs, Running, Read>>
  BY <1>4, <1>6 DEF List, Sync, LoopEnds, viewers
<1>7. ASSUME NEW c \in Containers, NEW k \in Copies,
             Decode(c, k) \/ Record(c, k) \/ StreamEnds(c, k)
      PROVE  Promise!Next \/ UNCHANGED <<subs, Running, Read>>
  BY <1>4, <1>7 DEF Decode, Record, StreamEnds, viewers
<1> QED
  BY <1>1, <1>2, <1>3, <1>5, <1>6, <1>7 DEF Next

(* Every behaviour of the collector is one OnDemand allows: there is       *)
(* collection while somebody watches, it is stopped under nobody, and      *)
(* nothing is read from the daemon while there is none.                    *)
THEOREM Implements == Spec => Promise!Spec
<1>1. Spec => [](TypeOK /\ OneStream)
  BY TypesInit, TypesStep, OneStreamInit, OneStreamStep, PTL DEF Spec
<1> QED
  BY <1>1, InitImplements, StepImplements, PTL DEF Spec, Promise!Spec
=============================================================================
