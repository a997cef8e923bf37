---------------------------- MODULE Casts_proofs ----------------------------
(* Proofs about Casts: with the worker running, the sessions hear the hub's *)
(* log as CastFeed promises in each life of the world, for any queue sizes  *)
(* and any number of casts.                                                *)
EXTENDS Casts, SequenceTheorems, TLAPS

\* Every variable keeps its type.
LEMMA TypeStep == TypeOK /\ [Next]_vars => TypeOK'
  <1> SUFFICES ASSUME TypeOK, [Next]_vars
               PROVE  TypeOK'
    OBVIOUS
  <1> USE DEF TypeOK, life, queues
  <1>1. \A n \in Nat : Here(n) \in Message
    BY DEF Here, Message
  <1>2. ASSUME NEW S, NEW q \in Seq(S), NEW cap \in Nat \ {0}
        PROVE  /\ MakeRoom(q, cap) \in Seq(S)
               /\ Len(q) <= cap => Len(MakeRoom(q, cap)) < cap
    BY <1>2 DEF MakeRoom
  <1>3. ASSUME NEW q \in Seq(Nat), NEW x \in Nat
        PROVE  LastOr(q, x) \in Nat
    BY <1>3 DEF LastOr
  <1>4. CASE CastQueued
    <2>1. said' \in Nat /\ Here(said') \in Message
      BY <1>1, <1>4 DEF CastQueued
    <2>2. out' \in Seq(Message) /\ Len(out') <= OutCap
      <3>1. /\ out' = Append(MakeRoom(out, OutCap), Here(said'))
            /\ MakeRoom(out, OutCap) \in Seq(Message) /\ Len(MakeRoom(out, OutCap)) < OutCap
        BY <1>2, <1>4, CapAssumption DEF CastQueued
      <3> QED BY <2>1, <3>1, CapAssumption, AppendProperties
    <2> QED BY <1>4, <2>1, <2>2 DEF CastQueued
  <1>5. CASE CastDirect
    <2>1. said' \in Nat /\ Here(said') \in Message
      BY <1>1, <1>5 DEF CastDirect
    <2>2. log' \in Seq(Message)
      <3>1. log' = Append(log, Here(said')) \/ log' = log
        BY <1>5 DEF CastDirect
      <3>2. Append(log, Here(said')) \in Seq(Message)
        BY <2>1, AppendProperties
      <3>3. CASE log' = log
        BY <3>3
      <3>4. CASE log' = Append(log, Here(said'))
        BY <3>2, <3>4, Zenon
      <3> QED BY <3>1, <3>3, <3>4
    <2> QED BY <1>5, <2>1, <2>2 DEF CastDirect
  <1>6. CASE CastLocal
    <2>1. said' \in Nat /\ Here(said') \in Message
      BY <1>1, <1>6 DEF CastLocal
    <2>2. casts' \in Seq(Nat) /\ Len(casts') <= BufferCap
      <3>1. /\ casts' = Append(MakeRoom(casts, BufferCap), said')
            /\ MakeRoom(casts, BufferCap) \in Seq(Nat) /\ Len(MakeRoom(casts, BufferCap)) < BufferCap
        BY <1>2, <1>6, CapAssumption DEF CastLocal
      <3> QED BY <2>1, <3>1, CapAssumption, AppendProperties
    <2>3. log' \in Seq(Message)
      BY <1>6, <2>1, AppendProperties DEF CastLocal
    <2> QED BY <1>6, <2>1, <2>2, <2>3 DEF CastLocal
  <1>7. CASE PollBuffer
    BY <1>3, <1>7, CapAssumption DEF PollBuffer
  <1>8. CASE PollRing
    <2>1. PICK k \in 0..(Len(casts) - 1) :
                 delivered' = delivered \o SubSeq(casts, k + 1, Len(casts))
      BY <1>8 DEF PollRing
    <2>2. SubSeq(casts, k + 1, Len(casts)) \in Seq(Nat)
      <3>1. \A i \in (k + 1)..Len(casts) : casts[i] \in Nat
        OBVIOUS
      <3> QED BY <3>1, SubSeqProperties
    <2>3. delivered' \in Seq(Nat) /\ lastId' \in Nat
      <3>1. delivered' \in Seq(Nat)
        BY <2>1, <2>2, ConcatProperties
      <3>2. lastId' \in Nat
        BY <1>3, <1>8 DEF PollRing
      <3> QED BY <3>1, <3>2
    <2> QED BY <1>8, <2>3 DEF PollRing
  <1>9. CASE TakeOut
    BY <1>9, CapAssumption DEF TakeOut
  <1>10. CASE SendOne
    <2>1. /\ Head(sending) \in Message /\ Tail(sending) \in Seq(Message)
          /\ Len(Tail(sending)) <= Len(sending)
      BY <1>10 DEF SendOne
    <2>2. log' \in Seq(Message) /\ sending' \in Seq(Message)
      <3>1. sending' \in Seq(Message)
        BY <1>10, <2>1 DEF SendOne
      <3>2. log' = Append(log, Head(sending)) \/ log' = log
        BY <1>10 DEF SendOne
      <3>3. Append(log, Head(sending)) \in Seq(Message)
        BY <2>1, AppendProperties
      <3>4. log' \in Seq(Message)
        BY <3>2, <3>3
      <3> QED BY <3>1, <3>4
    <2>3. Len(sending') <= OutCap
      BY <1>10, <2>1, CapAssumption DEF SendOne
    <2> QED BY <1>10, <2>2, <2>3 DEF SendOne
  <1>11. CASE Ping \/ FetchFailed \/ Rest
    BY <1>11 DEF Ping, FetchFailed, Rest
  <1>12. CASE FetchAnswered
    <2>1. RowsSince(cursor) \in Seq(Nat) /\ Len(RowsSince(cursor)) <= FetchLimit
      <3> DEFINE k == Least(FetchLimit, Len(log) - cursor)
      <3>1. k \in Int /\ k <= FetchLimit /\ RowsSince(cursor) = [i \in 1..k |-> cursor + i]
        BY CapAssumption DEF RowsSince, Least
      <3> HIDE DEF k
      <3>2. CASE k >= 0
        BY <3>1, <3>2
      <3>3. CASE k < 0
        <4>1. 1..k = 1..0
          BY <3>1, <3>3
        <4>2. RowsSince(cursor) = [i \in 1..0 |-> cursor + i]
          BY <3>1, <4>1
        <4>3. [i \in 1..0 |-> cursor + i] = <<>>
          OBVIOUS
        <4>4. RowsSince(cursor) = <<>>
          BY <4>2, <4>3, Zenon
        <4>5. <<>> \in Seq(Nat) /\ Len(<<>>) <= FetchLimit
          BY CapAssumption
        <4> QED BY <4>4, <4>5, Zenon
      <3>4. k >= 0 \/ k < 0
        BY <3>1
      <3> QED BY <3>2, <3>3, <3>4, Zenon
    <2> QED BY <1>12, <2>1 DEF FetchAnswered
  <1>13. CASE StoreRows
    <2> DEFINE n == Least(Len(fetched), BufferCap - Len(casts))
               kept == SubSeq(fetched, 1, n)
    <2>1. n \in Nat /\ n <= Len(fetched) /\ n <= BufferCap - Len(casts)
      BY CapAssumption DEF Least
    <2> HIDE DEF n
    <2>2. kept \in Seq(Nat) /\ Len(kept) = n
      <3>1. \A i \in 1..n : fetched[i] \in Nat
        BY <2>1
      <3> QED BY <2>1, <3>1, SubSeqProperties
    <2> HIDE DEF kept
    <2>3. casts' = casts \o kept /\ cursor' = LastOr(kept, cursor)
      BY <1>13 DEF StoreRows, kept, n
    <2>4. casts' \in Seq(Nat) /\ Len(casts') <= BufferCap /\ cursor' \in Nat
      <3>1. casts' \in Seq(Nat) /\ Len(casts') = Len(casts) + n
        BY <2>2, <2>3, ConcatProperties
      <3>2. cursor' \in Nat
        BY <1>3, <2>2, <2>3
      <3> QED BY <2>1, <3>1, <3>2, CapAssumption
    <2> QED BY <1>13, <2>4, CapAssumption DEF StoreRows
  <1>14. CASE CastElsewhere
    BY <1>14 DEF CastElsewhere, Message
  <1>15. CASE Restart
    BY <1>15, ModeAssumption, CapAssumption DEF Restart
  <1>16. CASE UNCHANGED vars
    BY <1>16 DEF vars
  <1> QED BY <1>4, <1>5, <1>6, <1>7, <1>8, <1>9, <1>10, <1>11, <1>12, <1>13, <1>14, <1>15, <1>16
          DEF Next, EventLoop, Worker

-----------------------------------------------------------------------------
(* The feed. *)

\* Where every row of the log is: delivered, then buffered, then fetched, each
\* at its place, and the cursor exactly between the buffered and the fetched.
FeedInv ==
    /\ TypeOK
    /\ \A i \in DOMAIN delivered : delivered[i] = i
    /\ \A i \in DOMAIN casts : casts[i] = Len(delivered) + i
    /\ cursor = Len(delivered) + Len(casts)
    /\ \A i \in DOMAIN fetched : fetched[i] = cursor + i
    /\ cursor + Len(fetched) <= Len(log)

\* The last of a run of ids that follow a cursor is the cursor moved on by
\* their number.
LEMMA LastOfRun ==
    ASSUME NEW q \in Seq(Nat), NEW c \in Nat, \A i \in DOMAIN q : q[i] = c + i
    PROVE  LastOr(q, c) = c + Len(q)
  <1>1. CASE q = <<>>
    BY <1>1 DEF LastOr
  <1>2. CASE q # <<>>
    <2>1. Len(q) \in DOMAIN q /\ Len(q) > 0
      BY <1>2
    <2>2. q[Len(q)] = c + Len(q)
      BY <2>1
    <2> QED BY <2>1, <2>2 DEF LastOr
  <1> QED BY <1>1, <1>2

\* A new process has delivered, buffered and fetched nothing.
LEMMA RestartFeeds ==
    ASSUME TypeOK, Restart
    PROVE  FeedInv'
  <1>1. TypeOK'
    BY TypeStep DEF Next
  <1>2. /\ delivered' = <<>> /\ casts' = <<>> /\ fetched' = <<>> /\ cursor' = 0
        /\ log' \in Seq(Message)
    BY <1>1 DEF Restart, TypeOK
  <1> QED BY <1>1, <1>2 DEF FeedInv

\* With the worker, every step keeps the rows in their places.
LEMMA FeedStep ==
    ASSUME mode = "worker", FeedInv, [Next]_vars
    PROVE  FeedInv'
  <1>1. TypeOK /\ TypeOK'
    BY TypeStep DEF FeedInv
  <1> USE DEF FeedInv, life, queues
  <1>2. CASE CastQueued \/ TakeOut \/ Ping \/ FetchFailed \/ Rest
    BY <1>1, <1>2 DEF CastQueued, TakeOut, Ping, FetchFailed, Rest
  <1>3. CASE PollBuffer
    <2>1. /\ delivered' = delivered \o casts /\ casts' = <<>>
          /\ UNCHANGED <<cursor, fetched, log>>
      BY <1>3 DEF PollBuffer
    <2>2. delivered \in Seq(Nat) /\ casts \in Seq(Nat)
      BY DEF TypeOK
    <2>3. \A i \in DOMAIN delivered' : delivered'[i] = i
      BY <2>1, <2>2
    <2>4. Len(delivered') = Len(delivered) + Len(casts)
      BY <2>1, <2>2
    <2> QED BY <1>1, <2>1, <2>3, <2>4 DEF TypeOK
  <1>4. CASE SendOne \/ CastElsewhere
    <2>1. /\ UNCHANGED <<delivered, casts, cursor, fetched>>
          /\ Len(log') >= Len(log)
      BY <1>1, <1>4 DEF SendOne, CastElsewhere, TypeOK
    <2> QED BY <1>1, <2>1 DEF TypeOK
  <1>5. CASE FetchAnswered
    <2>1. UNCHANGED <<delivered, casts, cursor, log>> /\ fetched' = RowsSince(cursor)
      BY <1>5 DEF FetchAnswered
    <2>2. /\ \A i \in DOMAIN RowsSince(cursor) : RowsSince(cursor)[i] = cursor + i
          /\ cursor + Len(RowsSince(cursor)) <= Len(log)
      BY CapAssumption DEF RowsSince, Least, TypeOK
    <2> QED BY <1>1, <2>1, <2>2
  <1>6. CASE StoreRows
    <2> DEFINE n == Least(Len(fetched), BufferCap - Len(casts))
               kept == SubSeq(fetched, 1, n)
    <2>1. n \in Int /\ n <= Len(fetched)
      BY CapAssumption DEF Least, TypeOK
    <2> HIDE DEF n
    <2>2. \A i \in 1..n : fetched[i] \in Nat
      <3>1. fetched \in Seq(Nat)
        BY DEF TypeOK
      <3>2. \A i \in 1..n : i \in 1..Len(fetched)
        BY <2>1, <3>1
      <3> QED BY <3>1, <3>2
    <2>3. /\ kept \in Seq(Nat) /\ Len(kept) <= Len(fetched)
          /\ \A i \in DOMAIN kept : kept[i] = cursor + i
      <3>1. /\ kept \in Seq(Nat) /\ Len(kept) = (IF 1 <= n THEN n - 1 + 1 ELSE 0)
            /\ \A i \in 1..(n - 1 + 1) : kept[i] = fetched[1 + i - 1]
        BY <2>1, <2>2, SubSeqProperties
      <3> HIDE DEF kept
      <3>3. Len(fetched) \in Nat /\ DOMAIN fetched = 1..Len(fetched) /\ DOMAIN kept = 1..Len(kept)
        BY <3>1 DEF TypeOK
      <3>4. Len(kept) = IF 1 <= n THEN n ELSE 0
        BY <2>1, <3>1
      <3>2. Len(kept) <= Len(fetched) /\ \A i \in DOMAIN kept : i \in DOMAIN fetched /\ kept[i] = fetched[i]
        BY <2>1, <3>1, <3>3, <3>4
      <3> QED BY <3>1, <3>2
    <2> HIDE DEF kept
    <2>4. /\ casts' = casts \o kept /\ cursor' = LastOr(kept, cursor)
          /\ fetched' = <<>> /\ UNCHANGED <<delivered, log>>
      BY <1>6 DEF StoreRows, kept, n
    <2>5. cursor' = cursor + Len(kept)
      BY <2>3, <2>4, LastOfRun DEF TypeOK
    <2>6. Len(casts') = Len(casts) + Len(kept)
      BY <2>3, <2>4 DEF TypeOK
    <2>7. \A i \in DOMAIN casts' : casts'[i] = Len(delivered) + i
      <3>1. casts \in Seq(Nat) /\ Len(delivered) \in Nat /\ cursor = Len(delivered) + Len(casts)
        BY DEF TypeOK
      <3>2. ASSUME NEW i \in DOMAIN casts'
            PROVE  casts'[i] = Len(delivered) + i
        <4>1. CASE i \in 1..Len(casts)
          <5>1. casts'[i] = casts[i]
            BY <2>3, <2>4, <3>1, <4>1
          <5> QED BY <3>1, <4>1, <5>1
        <4>2. CASE i \in (Len(casts) + 1)..Len(casts')
          <5>1. i - Len(casts) \in DOMAIN kept /\ casts'[i] = kept[i - Len(casts)]
            BY <2>3, <2>4, <2>6, <3>1, <4>2, ConcatProperties
          <5>2. kept[i - Len(casts)] = cursor + (i - Len(casts))
            BY <2>3, <5>1
          <5> QED BY <3>1, <4>2, <5>1, <5>2
        <4>3. i \in 1..Len(casts')
          BY <2>3, <2>4, <3>1
        <4> QED BY <3>1, <4>1, <4>2, <4>3
      <3> QED BY <3>2
    <2>8. cursor' + Len(fetched') <= Len(log')
      <3>1. Len(kept) \in Nat /\ Len(fetched) \in Nat /\ Len(log) \in Nat /\ cursor \in Nat
        BY <2>3 DEF TypeOK
      <3> QED BY <2>3, <2>4, <2>5, <3>1
    <2>9. cursor' = Len(delivered') + Len(casts')
      BY <2>3, <2>4, <2>5, <2>6 DEF TypeOK
    <2> QED BY <1>1, <2>4, <2>7, <2>8, <2>9
  <1>7. CASE UNCHANGED vars
    BY <1>1, <1>7 DEF vars
  <1>9. CASE Restart
    BY <1>9, RestartFeeds
  <1>8. ~CastDirect /\ ~CastLocal /\ ~PollRing
    BY DEF CastDirect, CastLocal, PollRing
  <1> QED BY <1>2, <1>3, <1>4, <1>5, <1>6, <1>7, <1>8, <1>9 DEF Next, EventLoop, Worker

\* What has been heard is the log's beginning, as long as what was delivered.
LEMMA HeardIs ==
    ASSUME NEW l \in Seq(Message), NEW d \in Seq(Nat), Len(d) <= Len(l),
           \A i \in DOMAIN d : d[i] = i
    PROVE  [i \in DOMAIN d |-> l[d[i]]] = SubSeq(l, 1, Len(d))
  <1> DEFINE h == [i \in DOMAIN d |-> l[d[i]]]
             n == Len(d)
  <1>1. n \in Nat /\ n <= Len(l) /\ DOMAIN d = 1..n
    OBVIOUS
  <1>2. \A i \in 1..n : h[i] = l[i] /\ l[i] \in Message
    BY <1>1
  <1>3. SubSeq(l, 1, n) \in Seq(Message) /\ Len(SubSeq(l, 1, n)) = n
        /\ \A i \in 1..n : SubSeq(l, 1, n)[i] = l[i]
    <2>1. /\ SubSeq(l, 1, n) \in Seq(Message)
          /\ Len(SubSeq(l, 1, n)) = (IF 1 <= n THEN n - 1 + 1 ELSE 0)
          /\ \A i \in 1..(n - 1 + 1) : SubSeq(l, 1, n)[i] = l[1 + i - 1]
      BY <1>1, <1>2, SubSeqProperties
    <2> QED BY <1>1, <2>1
  <1>4. h \in Seq(Message) /\ Len(h) = n
    <2>1. h \in [1..n -> Message]
      BY <1>1, <1>2
    <2> HIDE DEF h
    <2> QED BY <1>1, <2>1
  <1>5. h = SubSeq(l, 1, n)
    <2> HIDE DEF h, n
    <2> QED BY <1>1, <1>2, <1>3, <1>4, SeqEqual
  <1> QED BY <1>5

WorkerFeedInv == TypeOK /\ (mode = "worker" => FeedInv)

\* A step that appends a row to the log, or leaves it, is a post of the feed or
\* none, as long as nothing more is heard.
LEMMA PostStep ==
    ASSUME log \in Seq(Message), NEW hd, NEW hd2, hd2 = hd,
           \/ log' = log
           \/ \E m \in Message : log' = Append(log, m)
    PROVE  \/ log' = log /\ hd2 = hd
           \/ /\ log' \in Seq(Message) /\ Len(log') = Len(log) + 1
              /\ SubSeq(log', 1, Len(log)) = log /\ hd2 = hd
  <1>1. ASSUME NEW m \in Message, log' = Append(log, m)
        PROVE  /\ log' \in Seq(Message) /\ Len(log') = Len(log) + 1
               /\ SubSeq(log', 1, Len(log)) = log
    BY <1>1
  <1> QED BY <1>1

\* What is delivered in a world whose worker runs is the hub's log from its
\* beginning, in its order, each cast once, and again from its beginning after a
\* restart: Casts implements CastFeed.
THEOREM WorkerFeeds == Spec => FeedSafety
  <1> DEFINE heard == IF mode = "worker" THEN [i \in DOMAIN delivered |-> log[delivered[i]]]
                                         ELSE <<>>
  <1>1. Init => WorkerFeedInv /\ Feed!Init
    <2> SUFFICES ASSUME Init PROVE WorkerFeedInv /\ Feed!Init
      OBVIOUS
    <2>1. TypeOK
      BY ModeAssumption, CapAssumption DEF Init, TypeOK
    <2>2. FeedInv
      BY <2>1 DEF Init, FeedInv
    <2>3. Feed!Init
      BY DEF Init, Feed!Init
    <2> QED BY <2>1, <2>2, <2>3 DEF WorkerFeedInv
  <1>2. WorkerFeedInv /\ [Next]_vars => WorkerFeedInv'
    <2> SUFFICES ASSUME WorkerFeedInv, [Next]_vars PROVE WorkerFeedInv'
      OBVIOUS
    <2>1. TypeOK'
      BY TypeStep DEF WorkerFeedInv
    <2>2. CASE Restart
      BY <2>1, <2>2, RestartFeeds DEF WorkerFeedInv
    <2>3. CASE ~Restart
      <3>1. mode' = mode
        BY <2>3 DEF Next, EventLoop, Worker, vars, life, CastQueued, CastDirect, CastLocal,
               PollBuffer, PollRing, TakeOut, SendOne, Ping, FetchAnswered, FetchFailed,
               StoreRows, Rest, CastElsewhere
      <3>2. mode = "worker" => FeedInv'
        BY FeedStep DEF WorkerFeedInv
      <3> QED BY <2>1, <3>1, <3>2 DEF WorkerFeedInv
    <2> QED BY <2>2, <2>3
  <1>3. WorkerFeedInv /\ WorkerFeedInv' /\ [Next]_vars
        => [Feed!Next]_<<log, heard, restarts>>
    <2> SUFFICES ASSUME WorkerFeedInv, WorkerFeedInv', [Next]_vars
                 PROVE  Feed!Next \/ UNCHANGED <<log, heard, restarts>>
      OBVIOUS
    <2>1. log \in Seq(Message) /\ log' \in Seq(Message)
      BY DEF WorkerFeedInv, TypeOK
    <2>2. ASSUME UNCHANGED life, UNCHANGED delivered \/ mode # "worker",
                 \/ log' = log
                 \/ \E m \in Message : log' = Append(log, m)
          PROVE  Feed!Next \/ UNCHANGED <<log, heard, restarts>>
      <3>1. heard' = heard
        <4>1. CASE mode # "worker"
          BY <2>2, <4>1 DEF life
        <4>2. CASE mode = "worker"
          <5>1. FeedInv /\ FeedInv' /\ mode' = "worker" /\ delivered' = delivered
            BY <2>2, <4>2 DEF WorkerFeedInv, life
          <5>2. /\ Len(delivered) <= Len(log) /\ delivered \in Seq(Nat)
                /\ \A i \in DOMAIN delivered : delivered[i] = i
            BY <5>1, <2>1 DEF FeedInv, TypeOK
          <5>3. \A i \in DOMAIN delivered : log'[delivered[i]] = log[delivered[i]]
            <6>1. \A i \in DOMAIN delivered : delivered[i] \in 1..Len(log)
              BY <2>1, <5>2
            <6>2. ASSUME NEW i \in 1..Len(log)
                  PROVE  log'[i] = log[i]
              <7>1. CASE log' = log
                BY <7>1
              <7>2. ASSUME NEW m \in Message, log' = Append(log, m)
                    PROVE  log'[i] = log[i]
                BY <2>1, <6>2, <7>2
              <7> QED BY <2>2, <7>1, <7>2
            <6> QED BY <6>1, <6>2
          <5> QED BY <4>2, <5>1, <5>3
        <4> QED BY <4>1, <4>2
      <3> HIDE DEF heard
      <3>2. \/ log' = log /\ heard' = heard
            \/ /\ log' \in Seq(Message) /\ Len(log') = Len(log) + 1
               /\ SubSeq(log', 1, Len(log)) = log /\ heard' = heard
        BY <2>1, <2>2, <3>1, PostStep
      <3>3. restarts' = restarts
        BY <2>2 DEF life
      <3> QED BY <3>2, <3>3 DEF Feed!Next, Feed!Post, heard
    <2>3. CASE PollBuffer
      <3> DEFINE n == Len(delivered)
      <3>1. mode = "worker" /\ mode' = "worker" /\ FeedInv /\ FeedInv'
        BY <2>3 DEF PollBuffer, WorkerFeedInv, life
      <3>2. /\ delivered \in Seq(Nat) /\ n <= Len(log)
            /\ \A i \in DOMAIN delivered : delivered[i] = i
        BY <2>1, <3>1 DEF FeedInv, TypeOK
      <3>3. /\ delivered' \in Seq(Nat) /\ n' <= Len(log')
            /\ \A i \in DOMAIN delivered' : delivered'[i] = i
        BY <2>1, <3>1 DEF FeedInv, TypeOK
      <3>4. heard = SubSeq(log, 1, n) /\ heard' = SubSeq(log', 1, n')
        BY <2>1, <3>1, <3>2, <3>3, HeardIs
      <3> HIDE DEF heard
      <3>5. UNCHANGED <<log, restarts>> /\ delivered' = delivered \o casts /\ casts # <<>>
            /\ casts \in Seq(Nat)
        BY <2>3 DEF PollBuffer, WorkerFeedInv, TypeOK, life
      <3>6. n' \in (n + 1)..Len(log) /\ n = Len(heard)
        BY <2>1, <3>2, <3>3, <3>4, <3>5
      <3> QED BY <3>4, <3>5, <3>6 DEF Feed!Next, Feed!Hear, heard
    <2>4. CASE SendOne
      <3>1. /\ log' = Append(log, Head(sending)) \/ log' = log
            /\ Head(sending) \in Message /\ UNCHANGED <<life, delivered>>
        BY <2>4 DEF SendOne, WorkerFeedInv, TypeOK
      <3> QED BY <2>2, <3>1
    <2>5. CASE CastElsewhere
      BY <2>2, <2>5 DEF CastElsewhere, Message
    <2>6. CASE CastDirect \/ CastLocal
      <3>1. Here(said') \in Message
        BY <2>6 DEF CastDirect, CastLocal, Here, Message, WorkerFeedInv, TypeOK
      <3> QED BY <2>2, <2>6, <3>1 DEF CastDirect, CastLocal, queues
    <2>7. CASE PollRing
      BY <2>2, <2>7 DEF PollRing
    <2>8. CASE CastQueued \/ TakeOut \/ Ping \/ FetchAnswered \/ FetchFailed \/ StoreRows \/ Rest
               \/ UNCHANGED vars
      BY <2>2, <2>8 DEF CastQueued, TakeOut, Ping, FetchAnswered, FetchFailed, StoreRows, Rest, vars
    <2>9. CASE Restart
      <3>1. delivered' = <<>> /\ restarts' = restarts + 1 /\ log' = log
        BY <2>9 DEF Restart
      <3>2. heard' = <<>>
        BY <3>1
      <3> HIDE DEF heard
      <3> QED BY <3>1, <3>2 DEF Feed!Next, Feed!Revive, heard
    <2> QED BY <2>3, <2>4, <2>5, <2>6, <2>7, <2>8, <2>9 DEF Next, EventLoop, Worker
  <1> QED BY <1>1, <1>2, <1>3, PTL DEF Spec, FeedSafety, Feed!Spec

\* Every variable keeps its type; in particular no queue outgrows its array.
THEOREM CastTypes == Spec => []TypeOK
  <1>1. Init => TypeOK
    BY ModeAssumption, CapAssumption DEF Init, TypeOK
  <1> QED BY <1>1, TypeStep, PTL DEF Spec

-----------------------------------------------------------------------------
(* What is delivered is delivered in order. *)

Rising(q) == \A i, j \in DOMAIN q : i < j => q[i] < q[j]
Under(q, x) == \A i \in DOMAIN q : q[i] <= x

\* The ring of a world without a worker holds ids in rising order, nothing was
\* delivered after last_cast_id, and no worker moves.
RingInv ==
    /\ Rising(casts) /\ Under(casts, said)
    /\ Rising(delivered) /\ Under(delivered, lastId)
    /\ at = "top"

HeardInv ==
    /\ TypeOK
    /\ mode = "worker" => FeedInv
    /\ mode # "worker" => RingInv

\* A greater id is appended to rising ones, the oldest of which may have been dropped.
LEMMA RingAppend ==
    ASSUME NEW q \in Seq(Nat), NEW cap \in Nat \ {0}, NEW n \in Nat,
           Rising(q), Under(q, n)
    PROVE  /\ Rising(Append(MakeRoom(q, cap), n + 1))
           /\ Under(Append(MakeRoom(q, cap), n + 1), n + 1)
  <1> DEFINE t == MakeRoom(q, cap)
  <1>1. t \in Seq(Nat) /\ Rising(t) /\ Under(t, n)
    <2>1. CASE Len(q) >= cap
      <3>1. t = Tail(q) /\ Len(q) > 0
        BY <2>1 DEF MakeRoom
      <3>2. t \in Seq(Nat) /\ \A i \in DOMAIN t : i + 1 \in DOMAIN q /\ t[i] = q[i + 1]
        BY <3>1
      <3> HIDE DEF t
      <3> QED BY <3>2 DEF Rising, Under
    <2>2. CASE ~(Len(q) >= cap)
      BY <2>2 DEF MakeRoom
    <2> QED BY <2>1, <2>2
  <1> HIDE DEF t
  <1> DEFINE a == Append(t, n + 1)
  <1>2. /\ DOMAIN a = 1 .. Len(t) + 1 /\ a[Len(t) + 1] = n + 1
        /\ \A i \in 1 .. Len(t) : i \in DOMAIN t /\ a[i] = t[i] /\ t[i] \in Nat /\ t[i] <= n
    BY <1>1 DEF Under
  <1>3. Len(t) \in Nat
    BY <1>1
  <1> HIDE DEF a
  <1>4. Under(a, n + 1)
    BY <1>2, <1>3 DEF Under
  <1>5. Rising(a)
    <2>1. ASSUME NEW i \in DOMAIN a, NEW j \in DOMAIN a, i < j
          PROVE  a[i] < a[j]
      <3>1. i \in 1 .. Len(t)
        BY <1>2, <1>3, <2>1
      <3>2. CASE j \in 1 .. Len(t)
        BY <1>1, <1>2, <2>1, <3>1, <3>2 DEF Rising
      <3>3. CASE j = Len(t) + 1
        BY <1>2, <3>1, <3>3
      <3> QED BY <1>2, <1>3, <3>2, <3>3
    <2> QED BY <2>1 DEF Rising
  <1> QED BY <1>4, <1>5 DEF a, t

\* The end of the ring after last_cast_id is delivered after what was delivered.
LEMMA PollKeeps ==
    ASSUME HeardInv, PollRing
    PROVE  RingInv'
  <1>1. /\ mode # "worker" /\ RingInv /\ UNCHANGED <<said, casts>>
        /\ casts \in Seq(Nat) /\ delivered \in Seq(Nat) /\ lastId \in Nat
    BY DEF HeardInv, TypeOK, PollRing, queues
  <1>2. PICK k \in 0 .. (Len(casts) - 1) :
               /\ \A i \in DOMAIN casts : casts[i] > lastId <=> i > k
               /\ delivered' = delivered \o SubSeq(casts, k + 1, Len(casts))
    BY DEF PollRing
  <1> DEFINE s == SubSeq(casts, k + 1, Len(casts))
             z == casts[Len(casts)]
  <1>3. /\ s \in Seq(Nat) /\ Len(s) = Len(casts) - k
        /\ \A i \in 1 .. Len(casts) - k : s[i] = casts[k + i]
    <2>1. \A i \in k + 1 .. Len(casts) : casts[i] \in Nat
      BY <1>1
    <2>2. /\ s \in Seq(Nat) /\ Len(s) = Len(casts) - (k + 1) + 1
          /\ \A i \in 1 .. (Len(casts) - (k + 1) + 1) : s[i] = casts[(k + 1) + i - 1]
      BY <1>1, <2>1, SubSeqProperties
    <2> HIDE DEF s
    <2>3. Len(casts) \in Nat /\ k \in Nat
      BY <1>1
    <2> QED BY <2>2, <2>3
  <1>4. /\ z \in Nat /\ z > lastId /\ lastId' = z
        /\ \A i \in DOMAIN casts : casts[i] <= z
    <2>1. Len(casts) \in DOMAIN casts /\ Len(casts) > k /\ casts # <<>>
      BY <1>1, <1>2
    <2>2. z \in Nat /\ z > lastId
      BY <1>1, <1>2, <2>1
    <2>3. lastId' = z
      BY <1>1, <2>1, <2>2 DEF PollRing, LastOr
    <2>4. ASSUME NEW i \in DOMAIN casts
          PROVE  casts[i] <= z
      <3>1. casts[i] \in Nat /\ (i < Len(casts) \/ i = Len(casts))
        BY <1>1
      <3>2. i < Len(casts) => casts[i] < z
        BY <1>1, <2>1 DEF RingInv, Rising
      <3> QED BY <2>2, <3>1, <3>2
    <2> QED BY <2>2, <2>3, <2>4
  <1> HIDE DEF s, z
  <1>5. \A i \in DOMAIN s : s[i] \in Nat /\ s[i] > lastId /\ s[i] <= z
    <2>1. ASSUME NEW i \in DOMAIN s
          PROVE  s[i] \in Nat /\ s[i] > lastId /\ s[i] <= z
      <3>1. k + i \in DOMAIN casts /\ k + i > k /\ s[i] = casts[k + i]
        BY <1>1, <1>3
      <3> QED BY <1>1, <1>2, <1>4, <3>1
    <2> QED BY <2>1
  <1>6. Rising(s)
    <2>1. ASSUME NEW i \in DOMAIN s, NEW j \in DOMAIN s, i < j
          PROVE  s[i] < s[j]
      <3>1. k \in Nat /\ Len(casts) \in Nat /\ DOMAIN casts = 1 .. Len(casts)
            /\ DOMAIN s = 1 .. Len(casts) - k
        BY <1>1, <1>3
      <3>2. /\ k + i \in DOMAIN casts /\ k + j \in DOMAIN casts /\ k + i < k + j
        BY <2>1, <3>1
      <3>3. s[i] = casts[k + i] /\ s[j] = casts[k + j]
        BY <1>3, <3>1
      <3> QED BY <1>1, <3>2, <3>3 DEF RingInv, Rising
    <2> QED BY <2>1 DEF Rising
  <1> DEFINE d == delivered \o s
  <1>7. /\ DOMAIN d = 1 .. Len(delivered) + Len(s)
        /\ \A i \in 1 .. Len(delivered) : i \in DOMAIN delivered /\ d[i] = delivered[i]
        /\ \A i \in Len(delivered) + 1 .. Len(delivered) + Len(s) :
               i - Len(delivered) \in DOMAIN s /\ d[i] = s[i - Len(delivered)]
    <2>1. delivered \in Seq(Nat) /\ s \in Seq(Nat)
      BY <1>1, <1>3
    <2>2. /\ d \in Seq(Nat) /\ Len(d) = Len(delivered) + Len(s)
          /\ \A i \in 1 .. Len(delivered) + Len(s) :
                 d[i] = IF i <= Len(delivered) THEN delivered[i] ELSE s[i - Len(delivered)]
      BY <2>1, ConcatProperties
    <2> HIDE DEF d
    <2>3. Len(delivered) \in Nat /\ Len(s) \in Nat
          /\ DOMAIN delivered = 1 .. Len(delivered) /\ DOMAIN s = 1 .. Len(s)
      BY <2>1
    <2>4. DOMAIN d = 1 .. Len(delivered) + Len(s)
      BY <2>2
    <2>5. ASSUME NEW i \in 1 .. Len(delivered)
          PROVE  i \in DOMAIN delivered /\ d[i] = delivered[i]
      BY <2>2, <2>3
    <2>6. ASSUME NEW i \in Len(delivered) + 1 .. Len(delivered) + Len(s)
          PROVE  i - Len(delivered) \in DOMAIN s /\ d[i] = s[i - Len(delivered)]
      BY <2>2, <2>3
    <2> QED BY <2>4, <2>5, <2>6
  <1>8. Len(delivered) \in Nat /\ Len(s) \in Nat
        /\ \A i \in DOMAIN delivered : delivered[i] \in Nat /\ delivered[i] <= lastId
    BY <1>1, <1>3 DEF RingInv, Under
  <1> HIDE DEF d
  <1>9. Under(d, z)
    <2>1. ASSUME NEW i \in DOMAIN d PROVE d[i] <= z
      <3>1. CASE i \in 1 .. Len(delivered)
        BY <1>1, <1>4, <1>7, <1>8, <3>1
      <3>2. CASE i \in Len(delivered) + 1 .. Len(delivered) + Len(s)
        BY <1>5, <1>7, <3>2
      <3> QED BY <1>7, <1>8, <3>1, <3>2
    <2> QED BY <2>1 DEF Under
  <1>10. Rising(d)
    <2>1. ASSUME NEW i \in DOMAIN d, NEW j \in DOMAIN d, i < j
          PROVE  d[i] < d[j]
      <3>1. CASE j \in 1 .. Len(delivered)
        <4>3. i \in 1 .. Len(delivered)
          BY <1>7, <1>8, <2>1, <3>1
        <4>1. i \in DOMAIN delivered /\ j \in DOMAIN delivered
          BY <1>7, <3>1, <4>3
        <4>2. d[i] = delivered[i] /\ d[j] = delivered[j]
          BY <1>7, <3>1, <4>3
        <4> QED BY <1>1, <2>1, <4>1, <4>2 DEF RingInv, Rising
      <3>2. CASE i \in 1 .. Len(delivered) /\ j \in Len(delivered) + 1 .. Len(delivered) + Len(s)
        BY <1>1, <1>5, <1>7, <1>8, <3>2
      <3>3. CASE i \in Len(delivered) + 1 .. Len(delivered) + Len(s)
                 /\ j \in Len(delivered) + 1 .. Len(delivered) + Len(s)
        <4>1. i - Len(delivered) < j - Len(delivered)
          BY <1>8, <2>1, <3>3
        <4> QED BY <1>6, <1>7, <3>3, <4>1 DEF Rising
      <3> QED BY <1>7, <1>8, <2>1, <3>1, <3>2, <3>3
    <2> QED BY <2>1 DEF Rising
  <1> QED BY <1>1, <1>2, <1>4, <1>9, <1>10 DEF RingInv, PollRing, d, s

LEMMA HeardStep == HeardInv /\ [Next]_vars => HeardInv'
  <1> SUFFICES ASSUME HeardInv, [Next]_vars PROVE HeardInv'
    OBVIOUS
  <1>1. TypeOK'
    BY TypeStep DEF HeardInv
  <1>2. CASE Restart
    <2>1. FeedInv'
      BY <1>2, RestartFeeds DEF HeardInv
    <2>2. delivered' = <<>> /\ casts' = <<>> /\ at' = "top"
      BY <1>2 DEF Restart
    <2>3. RingInv'
      BY <2>2 DEF RingInv, Rising, Under
    <2> QED BY <1>1, <2>1, <2>3 DEF HeardInv
  <1>3. CASE mode = "worker" /\ ~Restart
    <2>1. mode' = "worker"
      BY <1>3 DEF Next, EventLoop, Worker, vars, life, CastQueued, CastDirect, CastLocal,
             PollBuffer, PollRing, TakeOut, SendOne, Ping, FetchAnswered, FetchFailed,
             StoreRows, Rest, CastElsewhere
    <2> QED BY <1>1, <1>3, <2>1, FeedStep DEF HeardInv
  <1>4. CASE mode # "worker" /\ ~Restart
    <2>1. RingInv
      BY <1>4 DEF HeardInv
    <2>2. CASE CastLocal
      <3>1. /\ casts' = Append(MakeRoom(casts, BufferCap), said + 1) /\ said' = said + 1
            /\ UNCHANGED <<mode, delivered, lastId, at>>
        BY <2>2 DEF CastLocal, life
      <3>2. casts \in Seq(Nat) /\ said \in Nat
        BY DEF HeardInv, TypeOK
      <3>3. Rising(casts') /\ Under(casts', said')
        BY <2>1, <3>1, <3>2, RingAppend, CapAssumption DEF RingInv
      <3>4. RingInv'
        BY <2>1, <3>1, <3>3 DEF RingInv
      <3> QED BY <1>1, <1>4, <3>1, <3>4 DEF HeardInv
    <2>3. CASE PollRing
      <3>1. mode' = mode
        BY <2>3 DEF PollRing, life
      <3> QED BY <1>1, <1>4, <2>3, <3>1, PollKeeps DEF HeardInv
    <2>4. CASE CastDirect \/ CastElsewhere \/ UNCHANGED vars
      <3>1. UNCHANGED <<mode, casts, delivered, lastId, at>> /\ (said' = said \/ said' = said + 1)
        BY <2>4 DEF CastDirect, CastElsewhere, vars, life, queues
      <3>2. Under(casts, said')
        <4>1. casts \in Seq(Nat) /\ said \in Nat
          BY DEF HeardInv, TypeOK
        <4> QED BY <2>1, <3>1, <4>1 DEF RingInv, Under
      <3> QED BY <1>1, <1>4, <2>1, <3>1, <3>2 DEF HeardInv, RingInv
    <2>5. ~CastQueued /\ ~PollBuffer /\ ~Worker
      BY <1>4, <2>1 DEF RingInv, CastQueued, PollBuffer, Worker, TakeOut, SendOne, Ping,
             FetchAnswered, FetchFailed, StoreRows, Rest
    <2> QED BY <1>4, <2>2, <2>3, <2>4, <2>5 DEF Next, EventLoop
  <1> QED BY <1>2, <1>3, <1>4

\* No cast is delivered twice or after a later one, whatever the ring dropped.
\* (poll_gridcasts: id <= last_cast_id.)
THEOREM CastsHeardInOrder == Spec => []HeardInOrder
  <1>1. Init => HeardInv
    <2> SUFFICES ASSUME Init PROVE HeardInv
      OBVIOUS
    <2>1. TypeOK
      BY ModeAssumption, CapAssumption DEF Init, TypeOK
    <2> QED BY <2>1 DEF Init, HeardInv, FeedInv, RingInv, Rising, Under
  <1>2. HeardInv => HeardInOrder
    <2> SUFFICES ASSUME HeardInv PROVE HeardInOrder
      OBVIOUS
    <2>1. CASE mode = "worker"
      <3>1. \A i \in DOMAIN delivered : delivered[i] = i
        BY <2>1 DEF HeardInv, FeedInv
      <3> QED BY <3>1 DEF HeardInOrder
    <2>2. CASE mode # "worker"
      BY <2>2 DEF HeardInv, RingInv, Rising, HeardInOrder
    <2> QED BY <2>1, <2>2
  <1> QED BY <1>1, <1>2, HeardStep, PTL DEF Spec

-----------------------------------------------------------------------------
(* What is spoken arrives in order. *)

\* The numbers of this world's casts in a queue of messages rise, and go no further
\* than x.
OwnRising(q) ==
    \A i, j \in DOMAIN q :
        i < j /\ q[i].from = "here" /\ q[j].from = "here" => q[i].n < q[j].n
OwnUnder(q, x) == \A i \in DOMAIN q : q[i].from = "here" => q[i].n <= x

\* Every cast of this world in a was spoken before every one in b.
OwnBefore(a, b) ==
    \A i \in DOMAIN a, j \in DOMAIN b :
        a[i].from = "here" /\ b[j].from = "here" => a[i].n < b[j].n

\* What is at the hub was spoken before what is being sent, and that before what
\* waits; a world without a worker has nothing on its way.
SpokenInv ==
    /\ TypeOK
    /\ OwnRising(log) /\ OwnUnder(log, said)
    /\ OwnRising(sending) /\ OwnUnder(sending, said) /\ OwnBefore(log, sending)
    /\ OwnRising(out) /\ OwnUnder(out, said) /\ OwnBefore(log, out) /\ OwnBefore(sending, out)
    /\ mode # "worker" => sending = <<>> /\ out = <<>>

\* What holds of a queue holds of it without its oldest entry.
LEMMA OwnTail ==
    ASSUME NEW q \in Seq(Message), q # <<>>, NEW x \in Nat, OwnRising(q), OwnUnder(q, x)
    PROVE  /\ Tail(q) \in Seq(Message) /\ OwnRising(Tail(q)) /\ OwnUnder(Tail(q), x)
           /\ \A a \in Seq(Message) :
                  /\ OwnBefore(a, q) => OwnBefore(a, Tail(q))
                  /\ OwnBefore(q, a) => OwnBefore(Tail(q), a)
  <1> DEFINE t == Tail(q)
  <1>1. t \in Seq(Message) /\ \A i \in DOMAIN t : i \in Nat /\ i + 1 \in DOMAIN q /\ t[i] = q[i + 1]
    OBVIOUS
  <1> HIDE DEF t
  <1>2. OwnRising(t)
    <2>1. ASSUME NEW i \in DOMAIN t, NEW j \in DOMAIN t, i < j,
                 t[i].from = "here", t[j].from = "here"
          PROVE  t[i].n < t[j].n
      <3>1. i + 1 < j + 1
        BY <1>1, <2>1
      <3> QED BY <1>1, <2>1, <3>1 DEF OwnRising
    <2> QED BY <2>1 DEF OwnRising
  <1>3. OwnUnder(t, x)
    BY <1>1 DEF OwnUnder
  <1>4. ASSUME NEW a \in Seq(Message)
        PROVE  /\ OwnBefore(a, q) => OwnBefore(a, t)
               /\ OwnBefore(q, a) => OwnBefore(t, a)
    BY <1>1 DEF OwnBefore
  <1> QED BY <1>1, <1>2, <1>3, <1>4 DEF t

\* A message that comes after the queue's own ones, or is another world's, joins it.
LEMMA OwnAppend ==
    ASSUME NEW q \in Seq(Message), NEW m \in Message, NEW x \in Nat, OwnRising(q),
           OwnUnder(q, x), m.from = "here" => m.n <= x,
           m.from = "here" => \A i \in DOMAIN q : q[i].from = "here" => q[i].n < m.n
    PROVE  /\ Append(q, m) \in Seq(Message) /\ OwnRising(Append(q, m)) /\ OwnUnder(Append(q, m), x)
           /\ \A b \in Seq(Message) :
                  /\ OwnBefore(q, b) /\ (m.from = "here" =>
                         \A j \in DOMAIN b : b[j].from = "here" => m.n < b[j].n)
                     => OwnBefore(Append(q, m), b)
                  /\ OwnBefore(b, q) /\ (m.from = "here" =>
                         \A j \in DOMAIN b : b[j].from = "here" => b[j].n < m.n)
                     => OwnBefore(b, Append(q, m))
  <1> DEFINE a == Append(q, m)
  <1>1. /\ a \in Seq(Message) /\ DOMAIN a = 1 .. Len(q) + 1 /\ Len(q) \in Nat /\ a[Len(q) + 1] = m
        /\ \A i \in 1 .. Len(q) : i \in DOMAIN q /\ a[i] = q[i]
    OBVIOUS
  <1> HIDE DEF a
  <1>2. OwnRising(a)
    <2>1. ASSUME NEW i \in DOMAIN a, NEW j \in DOMAIN a, i < j,
                 a[i].from = "here", a[j].from = "here"
          PROVE  a[i].n < a[j].n
      <3>1. i \in 1 .. Len(q)
        BY <1>1, <2>1
      <3>2. CASE j \in 1 .. Len(q)
        BY <1>1, <2>1, <3>1, <3>2 DEF OwnRising
      <3>3. CASE j = Len(q) + 1
        BY <1>1, <2>1, <3>1, <3>3
      <3> QED BY <1>1, <3>2, <3>3
    <2> QED BY <2>1 DEF OwnRising
  <1>3. OwnUnder(a, x)
    <2>1. ASSUME NEW i \in DOMAIN a, a[i].from = "here" PROVE a[i].n <= x
      <3>1. CASE i \in 1 .. Len(q)
        BY <1>1, <2>1, <3>1 DEF OwnUnder
      <3>2. CASE i = Len(q) + 1
        BY <1>1, <2>1, <3>2
      <3> QED BY <1>1, <3>1, <3>2
    <2> QED BY <2>1 DEF OwnUnder
  <1>4. ASSUME NEW b \in Seq(Message), OwnBefore(q, b),
               m.from = "here" => \A j \in DOMAIN b : b[j].from = "here" => m.n < b[j].n
        PROVE  OwnBefore(a, b)
    <2>1. ASSUME NEW i \in DOMAIN a, NEW j \in DOMAIN b, a[i].from = "here", b[j].from = "here"
          PROVE  a[i].n < b[j].n
      <3>1. CASE i \in 1 .. Len(q)
        BY <1>1, <1>4, <2>1, <3>1 DEF OwnBefore
      <3>2. CASE i = Len(q) + 1
        BY <1>1, <1>4, <2>1, <3>2
      <3> QED BY <1>1, <3>1, <3>2
    <2> QED BY <2>1 DEF OwnBefore
  <1>5. ASSUME NEW b \in Seq(Message), OwnBefore(b, q),
               m.from = "here" => \A j \in DOMAIN b : b[j].from = "here" => b[j].n < m.n
        PROVE  OwnBefore(b, a)
    <2>1. ASSUME NEW i \in DOMAIN b, NEW j \in DOMAIN a, b[i].from = "here", a[j].from = "here"
          PROVE  b[i].n < a[j].n
      <3>1. CASE j \in 1 .. Len(q)
        BY <1>1, <1>5, <2>1, <3>1 DEF OwnBefore
      <3>2. CASE j = Len(q) + 1
        BY <1>1, <1>5, <2>1, <3>2
      <3> QED BY <1>1, <3>1, <3>2
    <2> QED BY <2>1 DEF OwnBefore
  <1> QED BY <1>1, <1>2, <1>3, <1>4, <1>5 DEF a

LEMMA OwnEmpty ==
    /\ OwnRising(<<>>) /\ \A x \in Nat : OwnUnder(<<>>, x)
    /\ \A q \in Seq(Message) : OwnBefore(q, <<>>) /\ OwnBefore(<<>>, q)
  BY DEF OwnRising, OwnUnder, OwnBefore

LEMMA OwnNumbers == \A q \in Seq(Message) : \A i \in DOMAIN q : q[i].n \in Nat
  <1>1. ASSUME NEW q \in Seq(Message), NEW i \in DOMAIN q
        PROVE  q[i].n \in Nat
    <2>1. q[i] \in Message
      OBVIOUS
    <2> QED BY <2>1 DEF Message
  <1> QED BY <1>1

LEMMA SpokenStep == SpokenInv /\ [Next]_vars => SpokenInv'
  <1> SUFFICES ASSUME SpokenInv, [Next]_vars PROVE SpokenInv'
    OBVIOUS
  <1>1. TypeOK'
    BY TypeStep DEF SpokenInv
  <1>2. /\ log \in Seq(Message) /\ sending \in Seq(Message) /\ out \in Seq(Message) /\ said \in Nat
    BY DEF SpokenInv, TypeOK
  <1>3. \A q \in Seq(Message) : OwnUnder(q, said) => OwnUnder(q, said + 1)
    <2>1. \A q \in Seq(Message) : \A i \in DOMAIN q : q[i].n \in Nat
      BY OwnNumbers
    <2> QED BY <1>2, <2>1 DEF OwnUnder
  <1>4. /\ Here(said + 1) \in Message /\ Here(said + 1).from = "here" /\ Here(said + 1).n = said + 1
        /\ \A q \in Seq(Message) : OwnUnder(q, said) =>
               \A i \in DOMAIN q : q[i].from = "here" => q[i].n < said + 1
    <2>1. \A q \in Seq(Message) : \A i \in DOMAIN q : q[i].n \in Nat
      BY OwnNumbers
    <2> QED BY <1>2, <2>1 DEF OwnUnder, Here, Message
  <1>5. CASE CastQueued
    <2> DEFINE t == MakeRoom(out, OutCap)
    <2>1. /\ t \in Seq(Message) /\ OwnRising(t) /\ OwnUnder(t, said)
          /\ OwnBefore(log, t) /\ OwnBefore(sending, t)
      <3>1. CASE Len(out) >= OutCap
        <4>1. out # <<>> /\ t = Tail(out)
          BY <1>2, <3>1, CapAssumption DEF MakeRoom
        <4> HIDE DEF t
        <4> QED BY <1>2, <4>1, OwnTail DEF SpokenInv
      <3>2. CASE ~(Len(out) >= OutCap)
        BY <1>2, <3>2 DEF MakeRoom, SpokenInv
      <3> QED BY <3>1, <3>2
    <2>2. out' = Append(t, Here(said + 1)) /\ said' = said + 1 /\ UNCHANGED <<mode, log, sending>>
          /\ mode = "worker"
      BY <1>5 DEF CastQueued, life
    <2> HIDE DEF t
    <2>3. /\ OwnRising(out') /\ OwnUnder(out', said + 1)
          /\ OwnBefore(log, out') /\ OwnBefore(sending, out')
      <3>1. OwnUnder(t, said + 1) /\ said + 1 \in Nat
        BY <1>2, <1>3, <2>1
      <3> QED BY <1>2, <1>4, <2>1, <2>2, <3>1, OwnAppend DEF SpokenInv
    <2> QED BY <1>1, <1>2, <1>3, <2>2, <2>3 DEF SpokenInv
  <1>6. CASE CastDirect \/ CastLocal
    <2>1. /\ log' = Append(log, Here(said + 1)) \/ log' = log
          /\ said' = said + 1 /\ UNCHANGED <<mode, sending, out>> /\ mode # "worker"
      BY <1>6 DEF CastDirect, CastLocal, life, queues
    <2>2. OwnRising(log') /\ OwnUnder(log', said + 1)
      <3>1. OwnUnder(log, said + 1) /\ OwnRising(log) /\ said + 1 \in Nat
        BY <1>2, <1>3 DEF SpokenInv
      <3>2. /\ OwnRising(Append(log, Here(said + 1)))
            /\ OwnUnder(Append(log, Here(said + 1)), said + 1)
        BY <1>2, <1>4, <3>1, OwnAppend DEF SpokenInv
      <3> QED BY <2>1, <3>1, <3>2
    <2>3. sending' = <<>> /\ out' = <<>> /\ log' \in Seq(Message) /\ said' \in Nat
      BY <1>1, <2>1 DEF SpokenInv, TypeOK
    <2> QED BY <1>1, <2>1, <2>2, <2>3, OwnEmpty DEF SpokenInv
  <1>7. CASE TakeOut
    <2>1. sending' = out /\ out' = <<>> /\ UNCHANGED <<mode, log, said>> /\ mode = "worker"
      BY <1>7 DEF TakeOut, life
    <2> QED BY <1>1, <1>2, <2>1, OwnEmpty DEF SpokenInv
  <1>8. CASE SendOne
    <2> DEFINE h == Head(sending)
               t == Tail(sending)
    <2>1. /\ log' = Append(log, h) \/ log' = log
          /\ sending' = t /\ sending # <<>> /\ UNCHANGED <<mode, said, out>>
      BY <1>8 DEF SendOne, life
    <2>2. /\ t \in Seq(Message) /\ OwnRising(t) /\ OwnUnder(t, said)
          /\ OwnBefore(log, t) /\ OwnBefore(t, out)
      BY <1>2, <2>1, OwnTail DEF SpokenInv
    <2>3. /\ h \in Message /\ h = sending[1] /\ 1 \in DOMAIN sending
          /\ \A i \in DOMAIN t : i + 1 \in DOMAIN sending /\ 1 < i + 1 /\ t[i] = sending[i + 1]
      BY <1>2, <2>1
    <2> HIDE DEF h, t
    <2>4. h.from = "here" =>
              /\ h.n <= said
              /\ \A i \in DOMAIN log : log[i].from = "here" => log[i].n < h.n
              /\ \A i \in DOMAIN out : out[i].from = "here" => h.n < out[i].n
              /\ \A i \in DOMAIN t : t[i].from = "here" => h.n < t[i].n
      BY <2>3 DEF SpokenInv, OwnUnder, OwnBefore, OwnRising
    <2>5. /\ OwnRising(Append(log, h)) /\ OwnUnder(Append(log, h), said)
          /\ OwnBefore(Append(log, h), t) /\ OwnBefore(Append(log, h), out)
      BY <1>2, <2>2, <2>3, <2>4, OwnAppend DEF SpokenInv
    <2>6. mode # "worker" => sending' = <<>> /\ out' = <<>>
      BY <2>1 DEF SpokenInv
    <2>7. CASE log' = log
      BY <1>1, <2>1, <2>2, <2>6, <2>7 DEF SpokenInv
    <2>8. CASE log' = Append(log, h)
      BY <1>1, <2>1, <2>2, <2>5, <2>6, <2>8 DEF SpokenInv
    <2> QED BY <2>1, <2>7, <2>8
  <1>9. CASE CastElsewhere
    <2> DEFINE m == [from |-> "there", n |-> 0]
    <2>1. log' = Append(log, m) /\ UNCHANGED <<mode, said, sending, out>>
      BY <1>9 DEF CastElsewhere, life, queues
    <2>2. m \in Message /\ m.from # "here"
      BY DEF Message
    <2> HIDE DEF m
    <2>3. /\ OwnRising(log') /\ OwnUnder(log', said)
          /\ OwnBefore(log', sending) /\ OwnBefore(log', out)
      BY <1>2, <2>1, <2>2, OwnAppend DEF SpokenInv
    <2> QED BY <1>1, <2>1, <2>3 DEF SpokenInv
  <1>10. CASE Restart
    <2>1. sending' = <<>> /\ out' = <<>> /\ UNCHANGED <<log, said>>
      BY <1>10 DEF Restart
    <2>2. /\ OwnRising(sending') /\ OwnUnder(sending', said') /\ OwnBefore(log', sending')
          /\ OwnRising(out') /\ OwnUnder(out', said') /\ OwnBefore(log', out')
          /\ OwnBefore(sending', out')
      <3>1. <<>> \in Seq(Message)
        OBVIOUS
      <3> QED BY <1>2, <2>1, <3>1, OwnEmpty
    <2>3. OwnRising(log') /\ OwnUnder(log', said')
      BY <2>1 DEF SpokenInv
    <2> QED BY <1>1, <2>1, <2>2, <2>3 DEF SpokenInv
  <1>11. CASE \/ PollBuffer \/ PollRing \/ Ping \/ FetchAnswered \/ FetchFailed \/ StoreRows
              \/ Rest \/ UNCHANGED vars
    <2>1. UNCHANGED <<mode, log, said, sending, out>>
      BY <1>11 DEF PollBuffer, PollRing, Ping, FetchAnswered, FetchFailed, StoreRows, Rest,
             vars, life, queues
    <2> QED BY <1>1, <2>1 DEF SpokenInv
  <1> QED BY <1>5, <1>6, <1>7, <1>8, <1>9, <1>10, <1>11 DEF Next, EventLoop, Worker

\* A world's own casts are at the hub in the order they were spoken, each at most
\* once, whatever was dropped, failed or lost with the process on the way.
\* (cmd_gridcast, flush_pending_writes.)
THEOREM CastsSpokenInOrder == Spec => []SpokenInOrder
  <1>1. Init => SpokenInv
    <2> SUFFICES ASSUME Init PROVE SpokenInv
      OBVIOUS
    <2>1. TypeOK
      BY ModeAssumption, CapAssumption DEF Init, TypeOK
    <2>2. log = <<>> /\ out = <<>> /\ sending = <<>> /\ said \in Nat /\ <<>> \in Seq(Message)
      BY DEF Init
    <2> QED BY <2>1, <2>2, OwnEmpty DEF SpokenInv
  <1>2. SpokenInv => SpokenInOrder
    BY DEF SpokenInv, OwnRising, SpokenInOrder
  <1> QED BY <1>1, <1>2, SpokenStep, PTL DEF Spec

=============================================================================
