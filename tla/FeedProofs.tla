----------------------------- MODULE FeedProofs -----------------------------
(***************************************************************************)
(* Theorems about EventFeed, for any bounds.                               *)
(***************************************************************************)
EXTENDS EventFeed, FiniteSetTheorems, SequenceTheorems, TLAPS

-----------------------------------------------------------------------------
\* The inductive invariant.

EventRecord == [cursor : Nat, generation : Nat, unix : Nat]

FeedTypes ==
  /\ generation \in Nat \ {0}
  /\ now \in Nat
  /\ epoch \in Nat
  /\ nextEvent \in Nat \ {0}
  /\ events \in Seq(EventRecord)
  /\ past \in Seq(EventRecord)
  /\ reader \in [at : {"idle", "polling", "answering"}, after : Nat, news : BOOLEAN,
                 known : Nat, got : Seq(EventRecord)]

\* Every event ever logged has its number as its cursor, and neither time nor
\* generation goes back from one to the next, nor beyond the present.
PastInOrder ==
  /\ Len(past) = nextEvent - 1
  /\ \A i \in 1 .. Len(past) : /\ past[i].cursor = i
                               /\ past[i].generation <= generation
                               /\ past[i].unix <= epoch + now
  /\ \A i, j \in 1 .. Len(past) : i <= j => /\ past[i].generation <= past[j].generation
                                           /\ past[i].unix <= past[j].unix

\* How many events resets have discarded.
Gone == Len(past) - Len(events)

\* The list is the rest of them, and those discarded are of older generations.
ListIsTail ==
  /\ Len(events) <= Len(past)
  /\ \A i \in 1 .. Len(events) : events[i] = past[Gone + i]
  /\ \A i \in 1 .. Len(past) : i <= Gone => past[i].generation < generation

\* The runner has received events that were logged, up to its cursor and in
\* order; those up to there that it has not are of generations it knows ended.
\* And if it was woken, there is an event beyond its cursor still in the list.
ReaderInStep ==
  /\ reader.after <= Len(past)
  /\ reader.known <= generation
  /\ \A k \in 1 .. Len(reader.got) :
       /\ reader.got[k].cursor \in 1 .. reader.after
       /\ reader.got[k] = past[reader.got[k].cursor]
  /\ \A i, j \in 1 .. Len(reader.got) : i < j => reader.got[i].cursor < reader.got[j].cursor
  /\ \A i \in 1 .. reader.after :
       \/ \E k \in 1 .. Len(reader.got) : reader.got[k] = past[i]
       \/ past[i].generation < reader.known
  /\ reader.at = "answering" /\ reader.news => Len(events) > 0 /\ reader.after < Len(past)

FeedInv ==
  /\ FeedTypes
  /\ PastInOrder
  /\ ListIsTail
  /\ ReaderInStep

LEMMA FeedInvInit == FeedInit => FeedInv
<1> SUFFICES ASSUME FeedInit PROVE FeedInv
  OBVIOUS
<1>1. /\ generation = 1 /\ now = 0 /\ epoch = 0 /\ nextEvent = 1
      /\ events = << >> /\ past = << >> /\ Len(events) = 0 /\ Len(past) = 0
  BY DEF FeedInit
<1>2. reader = [at |-> "idle", after |-> 0, news |-> FALSE, known |-> 1, got |-> << >>]
  BY DEF FeedInit
<1>3. /\ reader.at = "idle" /\ reader.after = 0 /\ reader.known = 1
      /\ reader.got = << >> /\ Len(reader.got) = 0
  BY <1>2
<1>4. reader \in [at : {"idle", "polling", "answering"}, after : Nat, news : BOOLEAN,
                  known : Nat, got : Seq(EventRecord)]
  BY <1>2
<1>5. FeedTypes
  BY <1>1, <1>4 DEF FeedTypes
<1> QED
  BY <1>1, <1>3, <1>5 DEF FeedInv, PastInOrder, ListIsTail, ReaderInStep

-----------------------------------------------------------------------------
\* What is newer than a cursor.

\* The entries from one index on.
LEMMA ThoseAbove ==
  ASSUME NEW s, NEW m \in Nat, NEW n \in Nat
  PROVE  Those(s, m + 1 .. m + n) = [k \in 1 .. n |-> s[m + k]]
<1> DEFINE I == m + 1 .. m + n
<1>1. Cardinality(I) = n
  BY FS_Interval
<1>2. ASSUME NEW i \in I
      PROVE  Cardinality({j \in I : j <= i}) = i - m
  <2>1. {j \in I : j <= i} = m + 1 .. i
    OBVIOUS
  <2>2. Cardinality(m + 1 .. i) = i - m
    BY FS_Interval
  <2> QED
    BY <2>1, <2>2, Zenon
<1>3. ASSUME NEW k \in 1 .. n
      PROVE  (CHOOSE i \in I : Cardinality({j \in I : j <= i}) = k) = m + k
  <2>1. m + k \in I
    OBVIOUS
  <2>2. \A i \in I : i - m = k <=> i = m + k
    OBVIOUS
  <2> HIDE DEF I
  <2>3. \A i \in I : Cardinality({j \in I : j <= i}) = k <=> i = m + k
    BY <1>2, <2>2
  <2> QED
    BY <2>1, <2>3
<1> HIDE DEF I
<1>4. /\ Those(s, I) = [k \in 1 .. n |-> Those(s, I)[k]]
      /\ \A k \in 1 .. n : Those(s, I)[k] = s[CHOOSE i \in I : Cardinality({j \in I : j <= i}) = k]
  BY <1>1 DEF Those
<1>5. \A k \in 1 .. n : Those(s, I)[k] = s[m + k]
  BY <1>3, <1>4
<1>6. Those(s, I) = [k \in 1 .. n |-> s[m + k]]
  BY <1>4, <1>5
<1> QED
  BY <1>6 DEF I

\* How many of the list are newer.
Fresh(after) == IF after < Gone THEN Len(events) ELSE Len(past) - after

\* They are the last ones ever logged.
LEMMA NewerIs ==
  ASSUME FeedInv, NEW after \in Nat, after <= Len(past)
  PROVE  /\ Fresh(after) \in Nat /\ Fresh(after) <= Len(past) - after
         /\ Newer(after) \in Seq(EventRecord)
         /\ Len(Newer(after)) = Fresh(after)
         /\ \A k \in 1 .. Fresh(after) : Newer(after)[k] = past[(Len(past) - Fresh(after)) + k]
<1> DEFINE n == Fresh(after)
           m == Len(events) - n
<1>1. /\ events \in Seq(EventRecord) /\ past \in Seq(EventRecord)
      /\ Len(events) \in Nat /\ Len(past) \in Nat /\ Len(events) <= Len(past)
      /\ \A i \in 1 .. Len(events) : events[i] = past[Gone + i]
      /\ \A i \in 1 .. Len(past) : past[i].cursor = i
  BY DEF FeedInv, FeedTypes, PastInOrder, ListIsTail
<1>2. n \in Nat /\ m \in Nat /\ m + n = Len(events) /\ n <= Len(past) - after
      /\ Gone + m = Len(past) - n
  BY <1>1 DEF Gone, Fresh
<1>3. \A i \in 1 .. Len(events) : Gone + i > after <=> i \in m + 1 .. m + n
  BY <1>1 DEF Gone, Fresh
<1> HIDE DEF n, m
<1>4. \A i \in 1 .. Len(events) : events[i].cursor = Gone + i
  <2> SUFFICES ASSUME NEW i \in 1 .. Len(events) PROVE events[i].cursor = Gone + i
    OBVIOUS
  <2>1. Gone + i \in 1 .. Len(past)
    BY <1>1 DEF Gone
  <2> QED
    BY <1>1, <2>1
<1>5. DOMAIN events = 1 .. Len(events)
  BY <1>1
<1>6. m + 1 .. m + n \subseteq 1 .. Len(events)
  BY <1>2
<1>7. {i \in DOMAIN events : events[i].cursor > after} = m + 1 .. m + n
  BY <1>3, <1>4, <1>5, <1>6
<1>8. Newer(after) = [k \in 1 .. n |-> events[m + k]]
  <2>1. Those(events, m + 1 .. m + n) = [k \in 1 .. n |-> events[m + k]]
    BY <1>2, ThoseAbove, SMTT(30)
  <2> QED
    BY <1>7, <2>1 DEF Newer
<1>9. \A k \in 1 .. n : m + k \in 1 .. Len(events) /\ Gone + (m + k) = (Len(past) - n) + k
  <2> SUFFICES ASSUME NEW k \in 1 .. n
               PROVE  m + k \in 1 .. Len(events) /\ Gone + (m + k) = (Len(past) - n) + k
    OBVIOUS
  <2>1. ASSUME NEW g \in Nat, NEW l \in Nat, NEW p \in Nat, m + n = l, g + m = p - n
        PROVE  m + k \in 1 .. l /\ g + (m + k) = (p - n) + k
    BY <1>2, <2>1
  <2>2. Gone \in Nat
    BY <1>1 DEF Gone
  <2> QED
    BY <1>1, <1>2, <2>1, <2>2
<1>10. \A k \in 1 .. n : events[m + k] \in EventRecord /\ events[m + k] = past[(Len(past) - n) + k]
  BY <1>1, <1>9
<1>11. Newer(after) \in Seq(EventRecord) /\ Len(Newer(after)) = n
  <2>1. ASSUME NEW l \in Nat, NEW s, s = [k \in 1 .. l |-> s[k]], \A k \in 1 .. l : s[k] \in EventRecord
        PROVE  s \in Seq(EventRecord) /\ Len(s) = l
    BY <2>1
  <2>2. Newer(after) = [k \in 1 .. n |-> Newer(after)[k]]
    BY <1>8
  <2>3. \A k \in 1 .. n : Newer(after)[k] \in EventRecord
    BY <1>8, <1>10
  <2> QED
    BY <1>2, <2>1, <2>2, <2>3
<1>12. \A k \in 1 .. n : Newer(after)[k] = past[(Len(past) - n) + k]
  BY <1>8, <1>10
<1> QED
  BY <1>2, <1>11, <1>12 DEF n

-----------------------------------------------------------------------------
\* The engine's steps.

\* An event that is logged, whatever becomes of the list.
LEMMA LoggedStep ==
  ASSUME FeedInv, NEW u \in Nat, NEW g \in Nat \ {0},
         NEW event, event = Event(nextEvent, g, u),
         past' = Append(past, event), nextEvent' = nextEvent + 1,
         generation' = g, now' \in Nat, epoch' \in Nat, epoch' + now' = u,
         generation <= g, epoch + now <= u,
         \/ (events' = Append(events, event) /\ g = generation)
         \/ (events' = <<event>> /\ generation < g),
         reader' = reader
  PROVE  FeedInv'
<1>1. /\ past \in Seq(EventRecord) /\ events \in Seq(EventRecord) /\ nextEvent \in Nat \ {0}
      /\ generation \in Nat /\ epoch + now \in Nat
      /\ Len(past) = nextEvent - 1 /\ Len(past) \in Nat /\ Len(events) \in Nat
      /\ reader.after \in Nat /\ reader.known \in Nat /\ reader.got \in Seq(EventRecord)
      /\ Len(reader.got) \in Nat
  BY DEF FeedInv, FeedTypes, PastInOrder
<1>2. /\ event \in EventRecord /\ event.cursor = nextEvent
      /\ event.generation = g /\ event.unix = u
      /\ g \in Nat /\ u \in Nat
  <2>1. nextEvent \in Nat
    BY <1>1
  <2>2. event = [cursor |-> nextEvent, generation |-> g, unix |-> u]
    BY DEF Event
  <2> QED
    BY <2>1, <2>2 DEF EventRecord
<1>3. /\ past' \in Seq(EventRecord) /\ Len(past') = nextEvent /\ Len(past') = Len(past) + 1
      /\ past'[nextEvent] = event
      /\ \A i \in 1 .. Len(past) : past'[i] = past[i]
  <2>1. /\ past' \in Seq(EventRecord) /\ Len(past') = Len(past) + 1
        /\ past'[Len(past) + 1] = event
        /\ \A i \in 1 .. Len(past) : past'[i] = past[i]
    BY <1>1, <1>2, AppendProperties
  <2>2. Len(past) + 1 = nextEvent
    BY <1>1
  <2> QED
    BY <2>1, <2>2
<1>4. \A i \in 1 .. Len(past') : i \in 1 .. Len(past) \/ i = nextEvent
  BY <1>1, <1>3
<1>5. \A i \in 1 .. Len(past) :
        /\ past[i] \in EventRecord /\ past[i].cursor = i /\ i \in Nat
        /\ past[i].generation \in Nat /\ past[i].unix \in Nat
        /\ past[i].generation <= generation /\ past[i].unix <= epoch + now
        /\ past[i].generation <= g /\ past[i].unix <= u
  <2> SUFFICES ASSUME NEW i \in 1 .. Len(past)
               PROVE  /\ past[i] \in EventRecord /\ past[i].cursor = i /\ i \in Nat
                      /\ past[i].generation \in Nat /\ past[i].unix \in Nat
                      /\ past[i].generation <= generation /\ past[i].unix <= epoch + now
                      /\ past[i].generation <= g /\ past[i].unix <= u
    OBVIOUS
  <2>1. past[i] \in EventRecord
    BY <1>1
  <2>2. past[i].generation \in Nat /\ past[i].unix \in Nat
    BY <2>1 DEF EventRecord
  <2>3. past[i].cursor = i /\ past[i].generation <= generation /\ past[i].unix <= epoch + now
    BY DEF FeedInv, PastInOrder
  <2>4. past[i].generation <= g /\ past[i].unix <= u
    <3>1. ASSUME NEW a \in Nat, NEW b \in Nat, NEW c \in Nat, a <= b, b <= c PROVE a <= c
      BY <3>1
    <3> QED
      BY <1>1, <1>2, <2>2, <2>3, <3>1, ZenonT(30)
  <2> QED
    BY <1>1, <2>1, <2>2, <2>3, <2>4
<1>6. FeedTypes'
  <2>1. events' \in Seq(EventRecord)
    <3>1. Append(events, event) \in Seq(EventRecord) /\ <<event>> \in Seq(EventRecord)
      BY <1>1, <1>2, AppendProperties
    <3> QED
      BY <3>1
  <2>2. nextEvent' \in Nat \ {0}
    BY <1>1
  <2> QED
    BY <1>3, <2>1, <2>2 DEF FeedInv, FeedTypes
<1>7. PastInOrder'
  <2>1. Len(past') = nextEvent' - 1
    BY <1>1, <1>3
  <2>2. \A i \in 1 .. Len(past') : /\ past'[i].cursor = i
                                   /\ past'[i].generation <= g
                                   /\ past'[i].unix <= u
    BY <1>1, <1>2, <1>3, <1>4, <1>5
  <2>3. ASSUME NEW i \in 1 .. Len(past'), NEW j \in 1 .. Len(past'), i <= j
        PROVE  past'[i].generation <= past'[j].generation /\ past'[i].unix <= past'[j].unix
    <3>1. CASE j = nextEvent
      <4>1. past'[j].generation = g /\ past'[j].unix = u
        BY <1>2, <1>3, <3>1
      <4>2. past'[i].generation <= g /\ past'[i].unix <= u
        BY <2>2
      <4> QED
        BY <4>1, <4>2
    <3>2. CASE j \in 1 .. Len(past)
      <4>1. i \in 1 .. Len(past)
        BY <1>1, <2>3, <3>2
      <4> QED
        BY <1>3, <2>3, <3>2, <4>1 DEF FeedInv, PastInOrder
    <3> QED
      BY <1>4, <3>1, <3>2
  <2> QED
    BY <2>1, <2>2, <2>3 DEF PastInOrder
<1>8. ListIsTail'
  <2>0. /\ Len(events) <= Len(past) /\ Gone = Len(past) - Len(events)
        /\ \A i \in 1 .. Len(events) : events[i] = past[Gone + i]
        /\ \A i \in 1 .. Len(past) : i <= Gone => past[i].generation < generation
    BY DEF FeedInv, ListIsTail, Gone
  <2>1. CASE events' = Append(events, event) /\ g = generation
    <3>1. /\ Len(events') = Len(events) + 1 /\ events'[Len(events) + 1] = event
          /\ \A i \in 1 .. Len(events) : events'[i] = events[i]
      BY <1>1, <1>2, <2>1, AppendProperties
    <3>2. Gone' = Gone /\ Gone \in Nat
      BY <1>1, <1>3, <2>0, <3>1 DEF Gone
    <3>3. ASSUME NEW i \in 1 .. Len(events') PROVE events'[i] = past'[Gone + i]
      <4>1. CASE i = Len(events) + 1
        <5>1. Gone + i = nextEvent
          BY <1>1, <2>0, <4>1
        <5> QED
          BY <1>3, <3>1, <4>1, <5>1
      <4>2. CASE i \in 1 .. Len(events)
        <5>1. Gone + i \in 1 .. Len(past)
          <6>1. ASSUME NEW l \in Nat, NEW q \in Nat, l <= q, i \in 1 .. l
                PROVE  (q - l) + i \in 1 .. q
            BY <6>1
          <6> QED
            BY <1>1, <2>0, <4>2, <6>1
        <5> QED
          BY <1>3, <2>0, <3>1, <4>2, <5>1
      <4>3. i = Len(events) + 1 \/ i \in 1 .. Len(events)
        <5>1. ASSUME NEW l \in Nat, i \in 1 .. l + 1 PROVE i = l + 1 \/ i \in 1 .. l
          BY <5>1
        <5>2. i \in 1 .. Len(events) + 1
          BY <3>1
        <5> QED
          BY <1>1, <5>1, <5>2
      <4> QED
        BY <4>1, <4>2, <4>3
    <3>4. \A i \in 1 .. Len(past') : i <= Gone => i \in 1 .. Len(past)
      BY <1>1, <1>3, <2>0, <3>2
    <3>5. Len(events') <= Len(past')
      BY <1>1, <1>3, <2>0, <3>1
    <3>6. \A i \in 1 .. Len(past') : i <= Gone => past'[i].generation < g
      BY <1>3, <2>0, <2>1, <3>4
    <3> QED
      BY <2>1, <3>2, <3>3, <3>5, <3>6 DEF ListIsTail
  <2>2. CASE events' = <<event>> /\ generation < g
    <3>1. Len(events') = 1 /\ events'[1] = event
      BY <2>2
    <3>2. Gone' = Len(past) /\ Gone' + 1 = nextEvent
      BY <1>1, <1>3, <3>1 DEF Gone
    <3>3. \A i \in 1 .. Len(past) : past'[i].generation < g
      <4>1. ASSUME NEW a \in Nat, NEW b \in Nat, a <= b, b < g PROVE a < g
        BY <4>1
      <4> QED
        BY <1>1, <1>3, <1>5, <2>2, <4>1
    <3>4. \A i \in 1 .. Len(past') : i <= Gone' => i \in 1 .. Len(past)
      BY <1>1, <1>3, <3>2
    <3>5. Len(events') <= Len(past')
      BY <1>1, <1>3, <3>1
    <3>6. \A i \in 1 .. Len(events') : events'[i] = past'[Gone' + i]
      BY <1>3, <3>1, <3>2
    <3> QED
      BY <3>3, <3>4, <3>5, <3>6 DEF ListIsTail
  <2> QED
    BY <2>1, <2>2
<1>9. ReaderInStep'
  <2>0. ReaderInStep
    BY DEF FeedInv
  <2>1. /\ reader.after <= Len(past') /\ reader.known <= g
        /\ \A i \in 1 .. reader.after : i \in 1 .. Len(past)
    BY <1>1, <1>3, <2>0, SMTT(30) DEF ReaderInStep
  <2>2. \A k \in 1 .. Len(reader.got) : reader.got[k].cursor \in 1 .. reader.after
                                       /\ reader.got[k] = past'[reader.got[k].cursor]
    <3>1. \A k \in 1 .. Len(reader.got) : reader.got[k].cursor \in 1 .. reader.after
                                         /\ reader.got[k] = past[reader.got[k].cursor]
      BY <2>0 DEF ReaderInStep
    <3> QED
      BY <1>3, <2>1, <3>1
  <2>3. \A i \in 1 .. reader.after : past'[i] = past[i]
    BY <1>3, <2>1
  <2>4. Len(events') > 0 /\ reader.after < Len(past')
    <3>1. Len(Append(events, event)) = Len(events) + 1 /\ Len(<<event>>) = 1
      BY <1>1, <1>2, AppendProperties
    <3>2. Len(events') > 0
      <4>1. Len(events') = Len(events) + 1 \/ Len(events') = 1
        BY <3>1
      <4>2. ASSUME NEW l \in Nat, NEW l1, l1 = l + 1 \/ l1 = 1 PROVE l1 > 0
        BY <4>2
      <4> QED
        BY <1>1, <4>1, <4>2
    <3>3. reader.after <= Len(past)
      BY <2>0 DEF ReaderInStep
    <3> QED
      BY <1>1, <1>3, <3>2, <3>3
  <2>5. /\ \A i, j \in 1 .. Len(reader.got) : i < j => reader.got[i].cursor < reader.got[j].cursor
        /\ \A i \in 1 .. reader.after :
             \/ \E k \in 1 .. Len(reader.got) : reader.got[k] = past'[i]
             \/ past'[i].generation < reader.known
    BY <2>0, <2>3, ZenonT(30) DEF ReaderInStep
  <2> QED
    BY <2>1, <2>2, <2>4, <2>5 DEF ReaderInStep
<1> QED
  BY <1>6, <1>7, <1>8, <1>9 DEF FeedInv

-----------------------------------------------------------------------------
\* The runner's answer: the rest of the log.

LEMMA ReceiveStep ==
  ASSUME FeedInv, Receive
  PROVE  FeedInv'
<1> DEFINE fresh == Newer(reader.after)
           n     == Fresh(reader.after)
           size  == Len(past)
           last  == IF events = << >> THEN reader.after ELSE Last(events).cursor
           had   == Len(reader.got)
           new   == reader.got \o fresh
<1>1. /\ past \in Seq(EventRecord) /\ events \in Seq(EventRecord)
      /\ reader.got \in Seq(EventRecord) /\ reader.after \in Nat /\ reader.known \in Nat
      /\ reader.news \in BOOLEAN
      /\ size \in Nat /\ Len(events) \in Nat /\ had \in Nat /\ Len(events) <= size
      /\ generation \in Nat /\ reader.after <= size /\ reader.known <= generation
      /\ \A i \in 1 .. size : past[i].cursor = i
      /\ \A i \in 1 .. Len(events) : events[i] = past[Gone + i]
  BY DEF FeedInv, FeedTypes, PastInOrder, ListIsTail, ReaderInStep
<1>2. /\ n \in Nat /\ n <= size - reader.after
      /\ fresh \in Seq(EventRecord) /\ Len(fresh) = n
      /\ \A k \in 1 .. n : fresh[k] = past[(size - n) + k]
  BY <1>1, NewerIs
<1>3. /\ reader'.at = "idle" /\ reader'.after = last /\ reader'.known = generation
      /\ reader'.got = new /\ reader'.news = reader.news
      /\ reader' = [at |-> "idle", after |-> last, news |-> reader.news, known |-> generation,
                    got |-> new]
  BY DEF Receive, FeedInv, FeedTypes
<1>4. UNCHANGED <<generation, now, epoch, nextEvent, events, past>>
  BY DEF Receive, engineVars
<1>5. last = IF Len(events) = 0 THEN reader.after ELSE size
  <2>1. CASE Len(events) = 0
    <3>1. events = << >>
      BY <1>1, <2>1, EmptySeq
    <3> QED
      BY <2>1, <3>1
  <2>2. CASE Len(events) # 0
    <3>1. events # << >> /\ Last(events) = events[Len(events)]
      BY <2>2 DEF Last
    <3>2. Len(events) \in 1 .. Len(events) /\ Gone + Len(events) = size /\ size \in 1 .. size
      BY <1>1, <2>2 DEF Gone
    <3> QED
      BY <1>1, <2>2, <3>1, <3>2
  <2> QED
    BY <2>1, <2>2
<1>0. /\ n = (IF reader.after < Gone THEN Len(events) ELSE size - reader.after)
      /\ Gone = size - Len(events)
  BY DEF Fresh, Gone
<1> HIDE DEF fresh, n, size, last, had, new
<1>6. last \in Nat /\ reader.after <= last /\ last <= size
  BY <1>1, <1>5
<1>7. /\ new \in Seq(EventRecord) /\ Len(new) = had + n
      /\ \A k \in 1 .. had : new[k] = reader.got[k]
      /\ \A k \in 1 .. n : new[had + k] = past[(size - n) + k]
  <2>1. /\ new \in Seq(EventRecord) /\ Len(new) = had + n
        /\ \A k \in 1 .. had + n : new[k] = IF k <= had THEN reader.got[k] ELSE fresh[k - had]
    <3>1. ASSUME NEW s \in Seq(EventRecord), NEW t \in Seq(EventRecord)
          PROVE  /\ s \o t \in Seq(EventRecord) /\ Len(s \o t) = Len(s) + Len(t)
                 /\ \A k \in 1 .. Len(s) + Len(t) :
                      (s \o t)[k] = IF k <= Len(s) THEN s[k] ELSE t[k - Len(s)]
      BY ConcatProperties, Zenon
    <3>2. reader.got \in Seq(EventRecord) /\ fresh \in Seq(EventRecord) /\ Len(fresh) = n
      BY <1>1, <1>2
    <3>3. /\ reader.got \o fresh \in Seq(EventRecord)
          /\ Len(reader.got \o fresh) = Len(reader.got) + Len(fresh)
          /\ \A k \in 1 .. Len(reader.got) + Len(fresh) :
               (reader.got \o fresh)[k] = IF k <= Len(reader.got) THEN reader.got[k]
                                                     ELSE fresh[k - Len(reader.got)]
      BY <3>1, <3>2, Zenon
    <3> QED
      BY <3>2, <3>3, Zenon DEF new, had
  <2>2. ASSUME NEW k \in 1 .. had PROVE k \in 1 .. had + n /\ k <= had
    BY <1>1, <1>2
  <2>3. ASSUME NEW k \in 1 .. n
        PROVE  had + k \in 1 .. had + n /\ ~(had + k <= had) /\ (had + k) - had = k
    BY <1>1, <1>2
  <2> QED
    BY <1>2, <2>1, <2>2, <2>3, SMTT(30)

<1>8. FeedTypes'
  <2>1. reader' \in [at : {"idle", "polling", "answering"}, after : Nat, news : BOOLEAN,
                     known : Nat, got : Seq(EventRecord)]
    BY <1>1, <1>3, <1>6, <1>7
  <2> QED
    BY <1>4, <2>1 DEF FeedInv, FeedTypes
<1>9. PastInOrder' /\ ListIsTail'
  BY <1>4 DEF FeedInv, PastInOrder, ListIsTail, Gone
<1>10. /\ \A k \in 1 .. had : /\ new[k].cursor \in 1 .. reader.after
                             /\ new[k] = past[new[k].cursor]
       /\ \A i, j \in 1 .. had : i < j => new[i].cursor < new[j].cursor
       /\ \A i \in 1 .. reader.after :
            \/ \E k \in 1 .. had : new[k] = past[i]
            \/ past[i].generation < reader.known
  BY <1>7 DEF FeedInv, ReaderInStep, had
<1>11. \A k \in 1 .. n : /\ (size - n) + k \in 1 .. size
                         /\ new[had + k].cursor = (size - n) + k
                         /\ new[had + k] = past[(size - n) + k]
  <2>1. \A k \in 1 .. n : (size - n) + k \in 1 .. size
    <3>1. n <= size
      BY <1>1, <1>2
    <3> QED
      BY <1>1, <1>2, <3>1
  <2> QED
    BY <1>1, <1>7, <2>1
<1>12. n > 0 => last = size
  BY <1>0, <1>1, <1>2, <1>5 DEF Gone
<1>13. \A k \in 1 .. had + n : k \in 1 .. had \/ (k - had \in 1 .. n /\ k = had + (k - had))
  BY <1>1, <1>2
<1>14. ASSUME NEW k \in 1 .. had + n
       PROVE  new[k].cursor \in 1 .. last /\ new[k] = past[new[k].cursor]
  <2>1. CASE k \in 1 .. had
    <3>1. 1 .. reader.after \subseteq 1 .. last
      BY <1>1, <1>6
    <3> QED
      BY <1>10, <2>1, <3>1
  <2>2. CASE k - had \in 1 .. n /\ k = had + (k - had)
    <3>1. n > 0
      BY <1>2, <2>2
    <3>2. new[k].cursor \in 1 .. size /\ new[k] = past[new[k].cursor]
      BY <1>11, <2>2
    <3> QED
      BY <1>12, <3>1, <3>2
  <2> QED
    BY <1>13, <2>1, <2>2
<1>15. ASSUME NEW i \in 1 .. had + n, NEW j \in 1 .. had + n, i < j
       PROVE  new[i].cursor < new[j].cursor
  <2>1. CASE j \in 1 .. had
    <3>1. i \in 1 .. had
      BY <1>1, <1>15, <2>1
    <3> QED
      BY <1>10, <1>15, <2>1, <3>1
  <2>2. CASE j - had \in 1 .. n /\ j = had + (j - had)
    <3>1. new[j].cursor = (size - n) + (j - had)
      BY <1>11, <2>2
    <3>2. CASE i \in 1 .. had
      <4>1. new[i].cursor \in 1 .. reader.after
        BY <1>10, <3>2
      <4>2. ASSUME NEW a \in Nat, NEW c \in 1 .. a, NEW k \in 1 .. n, n <= size - a
            PROVE  c < (size - n) + k
        BY <1>1, <1>2, <4>2
      <4> QED
        BY <1>1, <1>2, <2>2, <3>1, <4>1, <4>2
    <3>3. CASE i - had \in 1 .. n /\ i = had + (i - had)
      <4>1. new[i].cursor = (size - n) + (i - had)
        BY <1>11, <3>3
      <4>2. ASSUME NEW m \in Int PROVE m + (i - had) < m + (j - had)
        BY <1>1, <1>2, <1>15
      <4>3. size - n \in Int
        BY <1>1, <1>2
      <4> QED
        BY <3>1, <4>1, <4>2, <4>3
    <3> QED
      BY <1>13, <3>2, <3>3
  <2> QED
    BY <1>13, <2>1, <2>2
<1>16. ASSUME NEW i \in 1 .. last
       PROVE  \/ \E k \in 1 .. had + n : new[k] = past[i]
              \/ past[i].generation < generation
  <2>1. CASE i \in 1 .. reader.after
    <3>1. CASE \E k \in 1 .. had : new[k] = past[i]
      <4>1. 1 .. had \subseteq 1 .. had + n
        BY <1>1, <1>2
      <4> QED
        BY <3>1, <4>1
    <3>2. CASE past[i].generation < reader.known
      <4>1. i \in 1 .. size
        BY <1>1, <2>1
      <4>2. past[i].generation \in Nat
        <5>1. past[i] \in EventRecord
          BY <1>1, <4>1, ElementOfSeq DEF size
        <5> QED
          BY <5>1 DEF EventRecord
      <4>3. ASSUME NEW a \in Nat, NEW b \in Nat, NEW c \in Nat, a < b, b <= c PROVE a < c
        BY <4>3
      <4> QED
        BY <1>1, <3>2, <4>2, <4>3
    <3> QED
      BY <1>10, <2>1, <3>1, <3>2
  <2>2. CASE i \notin 1 .. reader.after
    <3>1. i \in 1 .. size /\ i > reader.after /\ last = size /\ Len(events) # 0
      BY <1>1, <1>5, <1>6, <2>2
    <3>2. CASE i > size - n
      <4>1. i - (size - n) \in 1 .. n /\ (size - n) + (i - (size - n)) = i
        <5>1. ASSUME NEW t \in Nat, NEW m \in Nat, m <= t, NEW k \in 1 .. t, k > t - m
              PROVE  k - (t - m) \in 1 .. m /\ (t - m) + (k - (t - m)) = k
          BY <5>1
        <5>2. n <= size
          BY <1>1, <1>2
        <5> QED
          BY <1>1, <1>2, <3>1, <3>2, <5>1, <5>2
      <4>2. had + (i - (size - n)) \in 1 .. had + n
        BY <1>1, <1>2, <4>1
      <4>3. new[had + (i - (size - n))] = past[i]
        BY <1>11, <4>1
      <4> QED
        BY <4>2, <4>3
    <3>3. CASE ~(i > size - n)
      <4>1. i <= Gone
        BY <1>0, <1>1, <1>2, <3>1, <3>3
      <4> QED
        BY <3>1, <4>1 DEF FeedInv, ListIsTail, size
    <3> QED
      BY <3>2, <3>3
  <2> QED
    BY <2>1, <2>2
<1>17. ReaderInStep'
  <2>1. /\ reader'.after = last /\ reader'.known = generation /\ reader'.got = new
        /\ reader'.at = "idle" /\ Len(new) = had + n
        /\ past' = past /\ events' = events /\ generation' = generation /\ Len(past) = size
    BY <1>3, <1>4, <1>7 DEF size
  <2>2. last <= size /\ generation <= generation
    BY <1>1, <1>6
  <2> QED
    BY <1>14, <1>15, <1>16, <2>1, <2>2 DEF ReaderInStep
<1> QED
  BY <1>8, <1>9, <1>17 DEF FeedInv

-----------------------------------------------------------------------------
\* The runner's other steps.

LEMMA AskStep ==
  ASSUME FeedInv, Ask \/ Miss
  PROVE  FeedInv'
<1>1. UNCHANGED <<generation, now, epoch, nextEvent, events, past>>
  BY DEF Ask, Miss, engineVars
<1>2. reader \in [at : {"idle", "polling", "answering"}, after : Nat, news : BOOLEAN,
                  known : Nat, got : Seq(EventRecord)]
  BY DEF FeedInv, FeedTypes
<1>3. /\ reader'.after = reader.after /\ reader'.known = reader.known
      /\ reader'.got = reader.got
      /\ ~(reader'.at = "answering" /\ reader'.news)
      /\ reader' \in [at : {"idle", "polling", "answering"}, after : Nat, news : BOOLEAN,
                      known : Nat, got : Seq(EventRecord)]
  <2>1. CASE Ask
    <3>1. PICK at \in {"polling", "answering"} :
            reader' = [reader EXCEPT !.at = at, !.news = FALSE]
      BY <2>1 DEF Ask
    <3> QED
      BY <1>2, <3>1
  <2>2. CASE Miss
    BY <1>2, <2>2 DEF Miss
  <2> QED
    BY <2>1, <2>2
<1>4. FeedTypes'
  BY <1>1, <1>3 DEF FeedInv, FeedTypes
<1>5. PastInOrder' /\ ListIsTail'
  BY <1>1 DEF FeedInv, PastInOrder, ListIsTail, Gone
<1>6. ReaderInStep'
  BY <1>1, <1>3 DEF FeedInv, ReaderInStep
<1> QED
  BY <1>4, <1>5, <1>6 DEF FeedInv

LEMMA WakeStep ==
  ASSUME FeedInv, Wake
  PROVE  FeedInv'
<1>1. UNCHANGED <<generation, now, epoch, nextEvent, events, past>>
  BY DEF Wake, engineVars
<1>2. reader \in [at : {"idle", "polling", "answering"}, after : Nat, news : BOOLEAN,
                  known : Nat, got : Seq(EventRecord)]
  BY DEF FeedInv, FeedTypes
<1>3. News \in BOOLEAN
  BY DEF News
<1>4. /\ reader'.after = reader.after /\ reader'.known = reader.known
      /\ reader'.got = reader.got /\ reader'.news = News
      /\ reader' \in [at : {"idle", "polling", "answering"}, after : Nat, news : BOOLEAN,
                      known : Nat, got : Seq(EventRecord)]
  <2>1. ASSUME NEW b \in BOOLEAN, reader' = [reader EXCEPT !.at = "answering", !.news = b]
        PROVE  /\ reader'.after = reader.after /\ reader'.known = reader.known
               /\ reader'.got = reader.got /\ reader'.news = b
               /\ reader' \in [at : {"idle", "polling", "answering"}, after : Nat,
                               news : BOOLEAN, known : Nat, got : Seq(EventRecord)]
    BY <1>2, <2>1
  <2>2. reader' = [reader EXCEPT !.at = "answering", !.news = News]
    BY DEF Wake
  <2> QED
    BY <1>3, <2>1, <2>2, Zenon
<1>5. News => Len(events) > 0 /\ reader.after < Len(past)
  <2>1. /\ past \in Seq(EventRecord) /\ events \in Seq(EventRecord)
        /\ reader.after \in Nat /\ Len(past) \in Nat /\ Len(events) \in Nat
        /\ Len(events) <= Len(past)
        /\ \A i \in 1 .. Len(past) : past[i].cursor = i
        /\ \A i \in 1 .. Len(events) : events[i] = past[Gone + i]
    BY DEF FeedInv, FeedTypes, PastInOrder, ListIsTail
  <2>2. ASSUME News PROVE Len(events) > 0 /\ reader.after < Len(past)
    <3>1. events # << >> /\ events[Len(events)].cursor > reader.after
      BY <2>2 DEF News, Last
    <3>2. Len(events) > 0
      <4>1. Len(events) # 0
        BY <2>1, <3>1, EmptySeq
      <4> QED
        BY <2>1, <4>1
    <3>3. /\ Len(events) \in 1 .. Len(events) /\ Gone + Len(events) = Len(past)
          /\ Len(past) \in 1 .. Len(past)
      BY <2>1, <3>2 DEF Gone
    <3>4. events[Len(events)].cursor = Len(past)
      BY <2>1, <3>3
    <3> QED
      BY <2>1, <3>1, <3>2, <3>4
  <2> QED
    BY <2>2
<1>6. FeedTypes'
  BY <1>1, <1>4 DEF FeedInv, FeedTypes
<1>7. PastInOrder' /\ ListIsTail'
  BY <1>1 DEF FeedInv, PastInOrder, ListIsTail, Gone
<1>8. ReaderInStep'
  BY <1>1, <1>4, <1>5 DEF FeedInv, ReaderInStep
<1> QED
  BY <1>6, <1>7, <1>8 DEF FeedInv

LEMMA TickStep ==
  ASSUME FeedInv, Tick
  PROVE  FeedInv'
<1>1. UNCHANGED <<generation, epoch, nextEvent, events, past, reader>> /\ now' = now + 1
  BY DEF Tick
<1>2. /\ now \in Nat /\ epoch \in Nat /\ past \in Seq(EventRecord)
  BY DEF FeedInv, FeedTypes
<1>3. FeedTypes'
  BY <1>1, <1>2 DEF FeedInv, FeedTypes
<1>4. \A i \in 1 .. Len(past) : past[i].unix <= epoch + now'
  <2> SUFFICES ASSUME NEW i \in 1 .. Len(past) PROVE past[i].unix <= epoch + now'
    OBVIOUS
  <2>1. past[i] \in EventRecord
    BY <1>2, ElementOfSeq
  <2>2. past[i].unix \in Nat /\ past[i].unix <= epoch + now
    BY <2>1 DEF EventRecord, FeedInv, PastInOrder
  <2> QED
    BY <1>1, <1>2, <2>2
<1>5. PastInOrder'
  BY <1>1, <1>4 DEF FeedInv, PastInOrder
<1>6. ListIsTail' /\ ReaderInStep'
  BY <1>1 DEF FeedInv, ListIsTail, Gone, ReaderInStep
<1> QED
  BY <1>3, <1>5, <1>6 DEF FeedInv

LEMMA FeedInvNext == FeedInv /\ [FeedNext]_feedVars => FeedInv'
<1> SUFFICES ASSUME FeedInv, [FeedNext]_feedVars
             PROVE  FeedInv'
  OBVIOUS
<1>1. /\ generation \in Nat \ {0} /\ now \in Nat /\ epoch \in Nat
      /\ epoch + now \in Nat /\ epoch + now <= epoch + now
      /\ generation + 1 \in Nat \ {0} /\ generation < generation + 1
      /\ generation <= generation + 1 /\ generation <= generation
  BY DEF FeedInv, FeedTypes
<1>2. CASE Log
  <2>1. /\ past' = Append(past, Event(nextEvent, generation, epoch + now))
        /\ events' = Append(events, Event(nextEvent, generation, epoch + now))
        /\ nextEvent' = nextEvent + 1 /\ generation' = generation
        /\ now' = now /\ epoch' = epoch /\ reader' = reader
    BY <1>2 DEF Log
  <2>2. epoch' + now' = epoch + now /\ now' \in Nat /\ epoch' \in Nat
    BY <1>1, <2>1
  <2> QED
    BY <1>1, <2>1, <2>2, LoggedStep
<1>3. CASE FeedReset
  <2>1. /\ past' = Append(past, Event(nextEvent, generation + 1, epoch + now))
        /\ events' = <<Event(nextEvent, generation + 1, epoch + now)>>
        /\ nextEvent' = nextEvent + 1 /\ generation' = generation + 1
        /\ now' = 0 /\ epoch' = epoch + now /\ reader' = reader
    BY <1>3 DEF FeedReset
  <2>2. epoch' + now' = epoch + now /\ now' \in Nat /\ epoch' \in Nat
    BY <1>1, <2>1
  <2> QED
    BY <1>1, <2>1, <2>2, LoggedStep
<1>4. CASE UNCHANGED feedVars
  BY <1>4 DEF feedVars, engineVars, FeedInv, FeedTypes, PastInOrder, ListIsTail, Gone, ReaderInStep
<1> QED
  BY <1>2, <1>3, <1>4, AskStep, WakeStep, TickStep, ReceiveStep DEF FeedNext

\* In every state of the feed, for any bounds: the log counts every event once
\* over all resets, in step with time and generation; the list is its newest
\* part; and the runner holds a part of it, in order, up to its cursor, with
\* holes only in generations that it knows to be over.
THEOREM FeedInvariance == FeedSpec => []FeedInv
<1> QED
  BY FeedInvInit, FeedInvNext, PTL DEF FeedSpec

-----------------------------------------------------------------------------
\* The properties.

\* The runner's cursor never passes an event that it has not received, unless a
\* reset discarded it and the runner was told the generation after; and it
\* receives none twice and none out of order.
THEOREM FeedIsWhole == FeedSpec => []FeedWhole
<1>1. FeedInv => FeedWhole
  <2> SUFFICES ASSUME FeedInv PROVE FeedWhole
    OBVIOUS
  <2>1. /\ past \in Seq(EventRecord) /\ reader.got \in Seq(EventRecord) /\ reader.after \in Nat
        /\ DOMAIN past = 1 .. Len(past) /\ DOMAIN reader.got = 1 .. Len(reader.got)
    BY DEF FeedInv, FeedTypes
  <2>2. ASSUME NEW i \in DOMAIN past, past[i].cursor <= reader.after
        PROVE  Contains(reader.got, past[i]) \/ past[i].generation < reader.known
    <3>1. i \in 1 .. reader.after
      BY <2>1, <2>2 DEF FeedInv, PastInOrder
    <3>2. \/ \E k \in 1 .. Len(reader.got) : reader.got[k] = past[i]
          \/ past[i].generation < reader.known
      BY <3>1 DEF FeedInv, ReaderInStep
    <3> QED
      BY <2>1, <3>2 DEF Contains
  <2> QED
    BY <2>1, <2>2 DEF FeedWhole, FeedInv, ReaderInStep
<1> QED
  BY <1>1, FeedInvariance, PTL

\* Neither the time since the run's epoch nor the generation goes back between
\* two events that the runner receives, whatever resets came between them.
THEOREM FeedGoesForward == FeedSpec => []FeedChronological
<1>1. FeedInv => FeedChronological
  <2> SUFFICES ASSUME FeedInv, NEW i \in DOMAIN reader.got, NEW j \in DOMAIN reader.got, i < j
               PROVE  /\ reader.got[i].unix <= reader.got[j].unix
                      /\ reader.got[i].generation <= reader.got[j].generation
    BY DEF FeedChronological
  <2>1. /\ i \in 1 .. Len(reader.got) /\ j \in 1 .. Len(reader.got)
        /\ reader.after \in Nat /\ Len(past) \in Nat /\ reader.after <= Len(past)
    BY DEF FeedInv, FeedTypes, ReaderInStep
  <2>2. /\ reader.got[i].cursor \in 1 .. reader.after /\ reader.got[i] = past[reader.got[i].cursor]
        /\ reader.got[j].cursor \in 1 .. reader.after /\ reader.got[j] = past[reader.got[j].cursor]
        /\ reader.got[i].cursor < reader.got[j].cursor
    BY <2>1 DEF FeedInv, ReaderInStep
  <2>3. /\ reader.got[i].cursor \in 1 .. Len(past) /\ reader.got[j].cursor \in 1 .. Len(past)
        /\ reader.got[i].cursor <= reader.got[j].cursor
    BY <2>1, <2>2
  <2> QED
    BY <2>2, <2>3 DEF FeedInv, PastInOrder
<1> QED
  BY <1>1, FeedInvariance, PTL

\* A poll that news has woken never answers with nothing: a reset between the
\* look that woke it and the answer logs itself, beyond any cursor.
THEOREM NewsIsAnswered == FeedSpec => []NewsIsThere
<1>1. FeedInv => NewsIsThere
  <2> SUFFICES ASSUME FeedInv, reader.at = "answering", reader.news
               PROVE  Newer(reader.after) # << >>
    BY DEF NewsIsThere
  <2>1. /\ reader.after \in Nat /\ reader.after < Len(past) /\ Len(events) > 0
        /\ Len(past) \in Nat /\ Len(events) \in Nat /\ reader.after <= Len(past)
    BY DEF FeedInv, FeedTypes, ReaderInStep
  <2>2. Len(Newer(reader.after)) = Fresh(reader.after)
    BY <2>1, NewerIs
  <2>3. Fresh(reader.after) > 0
    BY <2>1 DEF Fresh, Gone
  <2>4. Len(<< >>) = 0
    OBVIOUS
  <2> QED
    BY <2>2, <2>3, <2>4
<1> QED
  BY <1>1, FeedInvariance, PTL
=============================================================================
