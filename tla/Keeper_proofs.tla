---------------------------- MODULE Keeper_proofs ----------------------------
(***************************************************************************)
(* Commands out of fragments, deaths into the hub's roll and answers to    *)
(* keepers, for any sessions, lengths, caps and bounds.                    *)
(***************************************************************************)
EXTENDS Keeper, SequenceTheorems, TLAPS

-----------------------------------------------------------------------------
(* The sessions. *)

IOInv == IOTypeOK /\ OneMessage /\ NothingStuck

LEMMA QueueSound ==
    ASSUME IOInv, NEW w \in Wanderers, NEW lines \in Seq(Nat), Queue(w, lines)
    PROVE  /\ out' \in [Wanderers -> Seq(Nat)] /\ wants' \in [Wanderers -> BOOLEAN]
           /\ NothingStuck'
<1>1. out[w] \o lines \in Seq(Nat) /\ (lines = <<>> => out[w] \o lines = out[w])
    BY DEF IOInv, IOTypeOK
<1>2. out' = [out EXCEPT ![w] = out[w] \o lines]
      /\ wants' = [wants EXCEPT ![w] = wants[w] \/ lines # <<>>]
    BY DEF Queue
<1>3. out' \in [Wanderers -> Seq(Nat)] /\ wants' \in [Wanderers -> BOOLEAN]
    BY <1>1, <1>2 DEF IOInv, IOTypeOK
<1>4. ASSUME NEW v \in Wanderers, out'[v] # <<>> PROVE wants'[v]
    <2>1. CASE v # w
        BY <1>2, <1>4, <2>1 DEF IOInv, IOTypeOK, NothingStuck
    <2>2. CASE v = w /\ lines = <<>>
        BY <1>1, <1>2, <1>4, <2>2 DEF IOInv, IOTypeOK, NothingStuck
    <2>3. CASE v = w /\ lines # <<>>
        BY <1>2, <2>3 DEF IOInv, IOTypeOK
    <2> QED
        BY <2>1, <2>2, <2>3
<1> QED
    BY <1>3, <1>4 DEF NothingStuck

LEMMA EmptySound == <<>> \in Seq(Nat) /\ Len(<<>>) = 0 /\ 0 \in 0 .. MaxInput - 1
    BY InputAssumption

\* What leaves the buffers alone.
LEMMA LinesKeep ==
    ASSUME IOInv, UNCHANGED <<input, inputLength, sent, spilt>>,
           state' \in [Wanderers -> {"closed", "waiting", "playing"}], heard' \in Nat,
           out' \in [Wanderers -> Seq(Nat)], wants' \in [Wanderers -> BOOLEAN], NothingStuck'
    PROVE  IOInv'
    BY DEF IOInv, IOTypeOK, OneMessage

LEMMA WriteKeeps == ASSUME IOInv, NEW w \in Wanderers, Writeable(w) PROVE IOInv'
<1>1. CASE out[w] = <<>>
    BY <1>1 DEF IOInv, IOTypeOK, OneMessage, NothingStuck, Writeable
<1>2. CASE out[w] # <<>>
    <2>1. /\ out[w] \in Seq(Nat) /\ Head(out[w]) \in Nat /\ Tail(out[w]) \in Seq(Nat)
          /\ Tail(out[w]) # <<>> => Len(out[w]) > 1
        BY <1>2 DEF IOInv, IOTypeOK
    <2>2. /\ out' = [out EXCEPT ![w] = Tail(@)] /\ heard' \in Nat
          /\ wants' = [wants EXCEPT ![w] = Len(out[w]) > 1]
          /\ UNCHANGED <<state, input, inputLength, sent, spilt>>
        BY <1>2, <2>1 DEF IOInv, IOTypeOK, Writeable
    <2>3. NothingStuck'
        BY <2>1, <2>2 DEF IOInv, IOTypeOK, NothingStuck
    <2> QED
        BY <2>1, <2>2, <2>3, LinesKeep DEF IOInv, IOTypeOK
<1> QED
    BY <1>1, <1>2

LEMMA TooLongKeepsOrder ==
    ASSUME IOInv, NEW w \in Wanderers, NEW len \in Lens, NEW final \in BOOLEAN,
           TooLong(w, len, final)
    PROVE  IOInv'
<1>1. Queue(w, <<0>>) /\ <<0>> \in Seq(Nat)
    BY DEF TooLong
<1>2. /\ input' = [input EXCEPT ![w] = <<>>] /\ inputLength' = [inputLength EXCEPT ![w] = 0]
      /\ sent' = [sent EXCEPT ![w] = IF final THEN 0 ELSE @ + 1]
      /\ spilt' = [spilt EXCEPT ![w] = ~final]
      /\ UNCHANGED <<state, heard>>
    BY DEF TooLong, Count
<1>3. IOTypeOK'
    <2>1. /\ input' \in [Wanderers -> Seq(Nat)]
          /\ inputLength' \in [Wanderers -> 0 .. MaxInput - 1]
        BY <1>2, EmptySound DEF IOInv, IOTypeOK
    <2>2. /\ sent' \in [Wanderers -> Nat] /\ spilt' \in [Wanderers -> BOOLEAN]
          /\ state' = state /\ heard' = heard
        BY <1>2 DEF IOInv, IOTypeOK
    <2> QED
        BY <1>1, <2>1, <2>2, QueueSound DEF IOInv, IOTypeOK
<1>4. OneMessage'
    <2> SUFFICES ASSUME NEW v \in Wanderers
                 PROVE  LET n == Len(input'[v]) IN
                        /\ \A i \in 1 .. n : input'[v][i] = sent'[v] - n + i
                        /\ ~spilt'[v] => n = sent'[v]
        BY DEF OneMessage
    <2>1. CASE v # w
        BY <1>2, <2>1 DEF IOInv, IOTypeOK, OneMessage
    <2>2. CASE v = w
        <3>1. input'[w] = <<>> /\ (~spilt'[w] => sent'[w] = 0)
            BY <1>2 DEF IOInv, IOTypeOK
        <3> QED
            BY <2>2, <3>1, EmptySound
    <2> QED
        BY <2>1, <2>2
<1> QED
    BY <1>1, <1>3, <1>4, QueueSound DEF IOInv

LEMMA GatherKeeps ==
    ASSUME IOInv, NEW w \in Wanderers, NEW len \in Lens, Gather(w, len)
    PROVE  IOInv'
<1>1. /\ input' = [input EXCEPT ![w] = Append(@, sent[w] + 1)]
      /\ inputLength' = [inputLength EXCEPT ![w] = @ + len]
      /\ sent' = [sent EXCEPT ![w] = @ + 1] /\ inputLength[w] + len < MaxInput
      /\ UNCHANGED <<state, spilt, out, wants, heard>>
    BY DEF Gather, Count
<1>2. IOTypeOK' /\ NothingStuck'
    BY <1>1, InputAssumption DEF IOInv, IOTypeOK, NothingStuck
<1>3. OneMessage'
    <2> SUFFICES ASSUME NEW v \in Wanderers
                 PROVE  LET n == Len(input'[v]) IN
                        /\ \A i \in 1 .. n : input'[v][i] = sent'[v] - n + i
                        /\ ~spilt'[v] => n = sent'[v]
        BY DEF OneMessage
    <2>1. CASE v # w
        BY <1>1, <2>1 DEF IOInv, IOTypeOK, OneMessage
    <2>2. CASE v = w
        <3> DEFINE s == input[w]
        <3>1. s \in Seq(Nat) /\ sent[w] \in Nat /\ Len(s) \in Nat
              /\ (\A i \in 1 .. Len(s) : s[i] = sent[w] - Len(s) + i)
              /\ (~spilt[w] => Len(s) = sent[w])
            BY DEF IOInv, IOTypeOK, OneMessage
        <3>2. input'[w] = Append(s, sent[w] + 1) /\ sent'[w] = sent[w] + 1
              /\ spilt'[w] = spilt[w]
            BY <1>1 DEF IOInv, IOTypeOK
        <3> HIDE DEF s
        <3>3. /\ Len(input'[w]) = Len(s) + 1
              /\ \A i \in 1 .. Len(s) : input'[w][i] = s[i]
              /\ input'[w][Len(s) + 1] = sent[w] + 1
            BY <3>1, <3>2
        <3> DEFINE n == Len(s)
        <3>4. n \in Nat /\ Len(input'[w]) = n + 1
            BY <3>1, <3>3
        <3>5. ASSUME NEW i \in 1 .. n + 1 PROVE input'[w][i] = sent'[w] - (n + 1) + i
            <4>1. CASE i \in 1 .. n
                BY <3>1, <3>2, <3>3, <4>1
            <4>2. CASE i = n + 1
                BY <3>1, <3>2, <3>3, <3>4, <4>2
            <4> QED
                BY <3>4, <4>1, <4>2
        <3>6. ~spilt'[w] => n + 1 = sent'[w]
            BY <3>1, <3>2
        <3> HIDE DEF n
        <3> QED
            BY <2>2, <3>4, <3>5, <3>6
    <2> QED
        BY <2>1, <2>2
<1> QED
    BY <1>2, <1>3 DEF IOInv

LEMMA CompleteKeeps ==
    ASSUME IOInv, NEW w \in Wanderers, NEW len \in Lens, Complete(w, len),
           state' \in [Wanderers -> {"closed", "waiting", "playing"}],
           \/ UNCHANGED <<out, wants>>
           \/ \E lines \in Seq(Nat) : Queue(w, lines)
    PROVE  IOInv'
<1>1. /\ input' = [input EXCEPT ![w] = <<>>] /\ inputLength' = [inputLength EXCEPT ![w] = 0]
      /\ sent' = [sent EXCEPT ![w] = 0]
      /\ spilt' = [spilt EXCEPT ![w] = FALSE] /\ heard' = heard
    BY DEF Complete, Count
<1>2. out' \in [Wanderers -> Seq(Nat)] /\ wants' \in [Wanderers -> BOOLEAN] /\ NothingStuck'
    <2>1. CASE UNCHANGED <<out, wants>>
        BY <2>1 DEF IOInv, IOTypeOK, NothingStuck
    <2>2. CASE \E lines \in Seq(Nat) : Queue(w, lines)
        BY <2>2, QueueSound
    <2> QED
        BY <2>1, <2>2
<1>3. IOTypeOK'
    <2>1. /\ input' \in [Wanderers -> Seq(Nat)]
          /\ inputLength' \in [Wanderers -> 0 .. MaxInput - 1]
        BY <1>1, EmptySound DEF IOInv, IOTypeOK
    <2> QED
        BY <1>1, <1>2, <2>1 DEF IOInv, IOTypeOK
<1>4. OneMessage'
    BY <1>1 DEF IOInv, IOTypeOK, OneMessage
<1> QED
    BY <1>2, <1>3, <1>4 DEF IOInv

LEMMA ClosedKeeps == ASSUME IOInv, NEW ws \in SUBSET Wanderers, Closed(ws) PROVE IOInv'
<1>1. IOTypeOK'
    <2>1. /\ input' \in [Wanderers -> Seq(Nat)] /\ out' \in [Wanderers -> Seq(Nat)]
          /\ inputLength' \in [Wanderers -> 0 .. MaxInput - 1]
        BY EmptySound DEF IOInv, IOTypeOK, Closed
    <2> QED
        BY <2>1 DEF IOInv, IOTypeOK, Closed
<1>2. OneMessage' /\ NothingStuck'
    BY DEF IOInv, IOTypeOK, OneMessage, NothingStuck, Closed
<1> QED
    BY <1>1, <1>2 DEF IOInv

-----------------------------------------------------------------------------
(* Deaths. *)

\* The queue holds the newest, without a gap; the rest went before, in order.
DeathsInOrder ==
    /\ \A i \in 1 .. Len(pending) : pending[i] = deaths - Len(pending) + i
    /\ \A i \in 1 .. Len(flying) : flying[i] <= deaths - Len(pending)
    /\ \A i, j \in 1 .. Len(flying) : i < j => flying[i] < flying[j]
    /\ \A i \in 1 .. Len(hubFallen) : hubFallen[i] <= deaths - Len(pending)
    /\ \A i, j \in 1 .. Len(hubFallen) : i < j => hubFallen[i] < hubFallen[j]
    /\ \A i \in 1 .. Len(hubFallen), j \in 1 .. Len(flying) : hubFallen[i] < flying[j]

Accounted ==
    mode # "local" =>
        \A d \in 1 .. deaths : d > deaths - MaxPendingFallen =>
            d \in InSeq(hubFallen) \cup InSeq(flying) \cup InSeq(pending) \cup unsent

NewestFallen == \A i \in 1 .. Len(fallen) : fallen[i] = deaths + 1 - i

Deaths ==
    /\ deaths \in Nat
    /\ fallen \in Seq(1 .. deaths) /\ Len(fallen) <= MaxFallen
    /\ pending \in Seq(1 .. deaths) /\ Len(pending) <= MaxPendingFallen
    /\ flying \in Seq(1 .. deaths) /\ Len(flying) <= MaxPendingFallen
    /\ hubFallen \in Seq(1 .. deaths)
    /\ unsent \subseteq 1 .. deaths

Queues == mode # "worker" => pending = <<>> /\ flying = <<>>

FallenInv == Deaths /\ DeathsInOrder /\ Accounted /\ NewestFallen /\ Queues

LEMMA InSeqAppend ==
    ASSUME NEW s \in Seq(Nat), NEW e \in Nat
    PROVE  InSeq(Append(s, e)) = InSeq(s) \cup {e}
<1> DEFINE t == Append(s, e)
<1>1. /\ DOMAIN t = 1 .. Len(s) + 1 /\ DOMAIN s = 1 .. Len(s) /\ Len(s) \in Nat
      /\ t[Len(s) + 1] = e /\ \A i \in 1 .. Len(s) : t[i] = s[i]
    OBVIOUS
<1> HIDE DEF t
<1>2. InSeq(t) \subseteq InSeq(s) \cup {e}
    BY <1>1 DEF InSeq
<1>3. InSeq(s) \subseteq InSeq(t) /\ e \in InSeq(t)
    BY <1>1 DEF InSeq
<1> QED
    BY <1>2, <1>3 DEF t

LEMMA InSeqTail ==
    ASSUME NEW s \in Seq(Nat), s # <<>>
    PROVE  InSeq(s) = {Head(s)} \cup InSeq(Tail(s))
<1> DEFINE t == Tail(s)
<1>1. /\ DOMAIN t = 1 .. Len(s) - 1 /\ DOMAIN s = 1 .. Len(s) /\ Len(s) \in Nat \ {0}
      /\ Head(s) = s[1] /\ \A i \in 1 .. Len(s) - 1 : t[i] = s[i + 1]
    OBVIOUS
<1> HIDE DEF t
<1>2. ASSUME NEW x \in InSeq(s) PROVE x = Head(s) \/ x \in InSeq(t)
    <2>1. PICK i \in 1 .. Len(s) : x = s[i]
        BY <1>1, <1>2 DEF InSeq
    <2>2. i # 1 => i - 1 \in 1 .. Len(s) - 1 /\ t[i - 1] = s[i]
        BY <1>1
    <2> QED
        BY <1>1, <2>1, <2>2 DEF InSeq
<1>3. ASSUME NEW x \in InSeq(t) PROVE x \in InSeq(s)
    <2>1. PICK i \in 1 .. Len(s) - 1 : x = t[i]
        BY <1>1, <1>3 DEF InSeq
    <2>2. i + 1 \in 1 .. Len(s) /\ x = s[i + 1]
        BY <1>1, <2>1
    <2> QED
        BY <1>1, <2>2 DEF InSeq
<1>4. Head(s) \in InSeq(s)
    BY <1>1 DEF InSeq
<1> QED
    BY <1>2, <1>3, <1>4 DEF t

LEMMA SeqGrows ==
    ASSUME NEW n \in Nat, NEW s \in Seq(1 .. n)
    PROVE  s \in Seq(1 .. n + 1) /\ s \in Seq(Nat)
    OBVIOUS

LEMMA SeqUpTo ==
    ASSUME NEW s \in Seq(Nat), NEW n \in Nat, \A i \in 1 .. Len(s) : s[i] \in 1 .. n
    PROVE  s \in Seq(1 .. n)
    OBVIOUS

LEMMA NewestSound ==
    ASSUME FallenInv
    PROVE  /\ pending \in Seq(Nat) /\ deaths \in Nat
           /\ Len(pending) \in Nat /\ Len(pending) <= deaths
           /\ MaxPendingFallen \in Nat \ {0} /\ Len(pending) <= MaxPendingFallen
           /\ \A i \in 1 .. Len(pending) : pending[i] = deaths - Len(pending) + i
<1>1. /\ pending \in Seq(1 .. deaths) /\ deaths \in Nat /\ Len(pending) <= MaxPendingFallen
      /\ \A i \in 1 .. Len(pending) : pending[i] = deaths - Len(pending) + i
    BY DEF FallenInv, Deaths, DeathsInOrder
<1>2. CASE pending = <<>>
    BY <1>1, <1>2, CapAssumption
<1>3. CASE pending # <<>>
    <2>1. pending[1] = deaths - Len(pending) + 1 /\ pending[1] \in 1 .. deaths
          /\ Len(pending) \in Nat
        BY <1>1, <1>3
    <2>2. pending \in Seq(Nat)
        BY <1>1, SeqGrows
    <2> QED
        BY <1>1, <2>1, <2>2, CapAssumption
<1> QED
    BY <1>2, <1>3

\* One more behind a row of the newest.
LEMMA PushNewest ==
    ASSUME NEW p \in Seq(Nat), NEW d \in Nat, Len(p) <= d,
           \A i \in 1 .. Len(p) : p[i] = d - Len(p) + i
    PROVE  /\ Append(p, d + 1) \in Seq(1 .. d + 1) /\ Len(Append(p, d + 1)) = Len(p) + 1
           /\ \A i \in 1 .. Len(p) + 1 : Append(p, d + 1)[i] = d - Len(p) + i
<1> DEFINE q == Append(p, d + 1)
<1>1. d + 1 \in Nat /\ Len(p) \in Nat
    OBVIOUS
<1>2. /\ q \in Seq(Nat) /\ Len(q) = Len(p) + 1 /\ q[Len(p) + 1] = d + 1
      /\ \A i \in 1 .. Len(p) : q[i] = p[i]
    BY <1>1, AppendProperties
<1> HIDE DEF q
<1>3. ASSUME NEW i \in 1 .. Len(p) + 1 PROVE q[i] = d - Len(p) + i
    <2>1. CASE i = Len(p) + 1
        <3>1. d - Len(p) + i = d + 1
            BY <1>1, <2>1
        <3> QED
            BY <1>2, <2>1, <3>1
    <2>2. CASE i # Len(p) + 1
        <3>1. i \in 1 .. Len(p)
            BY <1>1, <2>2
        <3> QED
            BY <1>2, <3>1
    <2> QED
        BY <2>1, <2>2
<1>4. q \in Seq(1 .. d + 1)
    <2>1. \A i \in 1 .. Len(q) : q[i] \in 1 .. d + 1
        BY <1>1, <1>2, <1>3
    <2> QED
        BY <1>1, <1>2, <2>1, SeqUpTo
<1> QED
    BY <1>2, <1>3, <1>4 DEF q

LEMMA TailNewest ==
    ASSUME NEW p \in Seq(Nat), p # <<>>, NEW d \in Nat, Len(p) <= d,
           \A i \in 1 .. Len(p) : p[i] = d - Len(p) + i
    PROVE  /\ Tail(p) \in Seq(Nat) /\ Len(Tail(p)) = Len(p) - 1
           /\ \A i \in 1 .. Len(p) - 1 : Tail(p)[i] = d - Len(p) + i + 1
           /\ Head(p) = d - Len(p) + 1
<1>1. /\ Tail(p) \in Seq(Nat) /\ Len(Tail(p)) = Len(p) - 1 /\ Len(p) \in Nat \ {0}
      /\ \A i \in 1 .. Len(p) - 1 : Tail(p)[i] = p[i + 1] /\ i + 1 \in 1 .. Len(p)
      /\ Head(p) = p[1]
    OBVIOUS
<1> QED
    BY <1>1

\* What can be said of a queue q after one more death.
HoldsNewest(q) ==
    /\ q \in Seq(1 .. deaths + 1) /\ Len(q) <= MaxPendingFallen
    /\ Len(pending) <= Len(q) /\ Len(q) <= Len(pending) + 1
    /\ \A i \in 1 .. Len(q) : q[i] = deaths + 1 - Len(q) + i
    /\ \A e \in InSeq(pending) : e \in InSeq(q) \/ e <= deaths + 1 - MaxPendingFallen
    /\ deaths + 1 \in InSeq(q)

LEMMA LaterSound == ASSUME FallenInv PROVE HoldsNewest(Later(pending, deaths + 1))
<1> DEFINE q == Later(pending, deaths + 1)
<1>1. /\ pending \in Seq(Nat) /\ deaths \in Nat /\ Len(pending) \in Nat /\ Len(pending) <= deaths
      /\ MaxPendingFallen \in Nat \ {0} /\ Len(pending) <= MaxPendingFallen
      /\ \A i \in 1 .. Len(pending) : pending[i] = deaths - Len(pending) + i
    BY NewestSound
<1>2. CASE Len(pending) < MaxPendingFallen
    <2>1. q = Append(pending, deaths + 1)
        BY <1>1, <1>2 DEF Later
    <2> HIDE DEF q
    <2>2. InSeq(q) = InSeq(pending) \cup {deaths + 1}
        <3>1. deaths + 1 \in Nat
            BY <1>1
        <3> QED
            BY <1>1, <2>1, <3>1, InSeqAppend
    <2>3. /\ q \in Seq(1 .. deaths + 1) /\ Len(q) = Len(pending) + 1
          /\ \A i \in 1 .. Len(pending) + 1 : q[i] = deaths - Len(pending) + i
        BY <1>1, <2>1, PushNewest
    <2>4. \A i \in 1 .. Len(q) : q[i] = deaths + 1 - Len(q) + i
        BY <1>1, <2>3
    <2> QED
        BY <1>1, <1>2, <2>2, <2>3, <2>4 DEF q, HoldsNewest
<1>3. CASE Len(pending) = MaxPendingFallen
    <2> DEFINE t == Tail(pending)
    <2>1. q = Append(t, deaths + 1) /\ pending # <<>>
        BY <1>1, <1>3 DEF Later
    <2>2. /\ t \in Seq(Nat) /\ Len(t) = Len(pending) - 1
          /\ \A i \in 1 .. Len(t) : t[i] = deaths - Len(t) + i
          /\ Head(pending) = deaths - Len(pending) + 1
          /\ InSeq(pending) = {Head(pending)} \cup InSeq(t)
        <3>1. InSeq(pending) = {Head(pending)} \cup InSeq(t)
            BY <1>1, <2>1, InSeqTail
        <3>2. /\ t \in Seq(Nat) /\ Len(t) = Len(pending) - 1
              /\ \A i \in 1 .. Len(pending) - 1 : t[i] = deaths - Len(pending) + i + 1
              /\ Head(pending) = deaths - Len(pending) + 1
            BY <1>1, <2>1, TailNewest
        <3> HIDE DEF t
        <3>3. \A i \in 1 .. Len(t) : t[i] = deaths - Len(t) + i
            BY <1>1, <3>2
        <3> QED
            BY <3>1, <3>2, <3>3
    <2> HIDE DEF q, t
    <2>3. InSeq(q) = InSeq(t) \cup {deaths + 1}
        <3>1. deaths + 1 \in Nat
            BY <1>1
        <3> QED
            BY <2>1, <2>2, <3>1, InSeqAppend
    <2>4. /\ q \in Seq(1 .. deaths + 1) /\ Len(q) = Len(pending)
          /\ \A i \in 1 .. Len(pending) : q[i] = deaths + 1 - Len(pending) + i
        <3>1. Len(t) <= deaths /\ Len(t) + 1 = Len(pending)
            BY <1>1, <2>2
        <3>2. /\ q \in Seq(1 .. deaths + 1) /\ Len(q) = Len(t) + 1
              /\ \A i \in 1 .. Len(t) + 1 : q[i] = deaths - Len(t) + i
            BY <1>1, <2>1, <2>2, <3>1, PushNewest
        <3>3. Len(t) \in Nat /\ Len(pending) \in Nat /\ deaths \in Nat
            BY <1>1, <2>2
        <3>4. ASSUME NEW i \in 1 .. Len(pending)
              PROVE  q[i] = deaths + 1 - Len(pending) + i
            <4>1. i \in 1 .. Len(t) + 1
                BY <3>1
            <4>2. q[i] = deaths - Len(t) + i
                BY <3>2, <4>1
            <4>3. deaths - Len(t) = deaths + 1 - Len(pending)
                BY <3>1, <3>3
            <4> QED
                BY <4>2, <4>3
        <3>5. Len(q) = Len(pending)
            BY <3>1, <3>2
        <3> QED
            BY <3>2, <3>4, <3>5
    <2>5. Head(pending) = deaths + 1 - MaxPendingFallen
          /\ Len(q) = Len(pending) /\ deaths + 1 \in InSeq(q)
        BY <1>1, <1>3, <2>2, <2>3, <2>4
    <2>6. \A d \in InSeq(pending) : d \in InSeq(q) \/ d <= deaths + 1 - MaxPendingFallen
        <3>1. TAKE d \in InSeq(pending)
        <3>2. d = Head(pending) \/ d \in InSeq(t)
            BY <2>2
        <3>3. deaths + 1 - MaxPendingFallen <= deaths + 1 - MaxPendingFallen
            BY <1>1
        <3> QED
            BY <2>3, <2>5, <3>2, <3>3
    <2>7. \A i \in 1 .. Len(q) : q[i] = deaths + 1 - Len(q) + i
        BY <2>4, <2>5
    <2>8. Len(pending) <= Len(q) /\ Len(q) <= Len(pending) + 1 /\ Len(q) <= MaxPendingFallen
        BY <1>1, <2>5
    <2> QED
        BY <2>4, <2>5, <2>6, <2>7, <2>8 DEF q, HoldsNewest
<1>4. Len(pending) < MaxPendingFallen \/ Len(pending) = MaxPendingFallen
    BY <1>1
<1> QED
    BY <1>2, <1>3, <1>4

LEMMA OrderedAppend ==
    ASSUME NEW s \in Seq(Nat), NEW e \in Nat,
           \A i, j \in 1 .. Len(s) : i < j => s[i] < s[j],
           \A i \in 1 .. Len(s) : s[i] < e
    PROVE  /\ Append(s, e) \in Seq(Nat) /\ Len(Append(s, e)) = Len(s) + 1
           /\ \A i, j \in 1 .. Len(s) + 1 : i < j => Append(s, e)[i] < Append(s, e)[j]
           /\ \A i \in 1 .. Len(s) + 1 :
                  Append(s, e)[i] = e \/ \E k \in 1 .. Len(s) : Append(s, e)[i] = s[k]
<1> DEFINE q == Append(s, e)
<1>1. /\ q \in Seq(Nat) /\ Len(q) = Len(s) + 1 /\ q[Len(s) + 1] = e
      /\ Len(s) \in Nat
      /\ \A i \in 1 .. Len(s) : q[i] = s[i]
    BY AppendProperties
<1> HIDE DEF q
<1>2. \A i \in 1 .. Len(s) + 1 : i = Len(s) + 1 \/ i \in 1 .. Len(s)
    BY <1>1
<1>3. ASSUME NEW i \in 1 .. Len(s) + 1, NEW j \in 1 .. Len(s) + 1, i < j
      PROVE  q[i] < q[j]
    <2>1. i \in 1 .. Len(s) /\ q[i] = s[i]
        BY <1>1, <1>3
    <2>2. CASE j = Len(s) + 1
        BY <1>1, <2>1, <2>2
    <2>3. CASE j \in 1 .. Len(s)
        BY <1>1, <1>3, <2>1, <2>3
    <2> QED
        BY <1>2, <2>2, <2>3
<1>4. \A i \in 1 .. Len(s) + 1 : q[i] = e \/ \E k \in 1 .. Len(s) : q[i] = s[k]
    BY <1>1, <1>2
<1> QED
    BY <1>1, <1>3, <1>4 DEF q

\* The roll here: the new death first, the oldest off the end.
LEMMA RollSound ==
    ASSUME FallenInv, Fall
    PROVE  /\ fallen' \in Seq(1 .. deaths') /\ Len(fallen') <= MaxFallen
           /\ NewestFallen'
<1> DEFINE n == IF Len(fallen) < MaxFallen THEN Len(fallen) + 1 ELSE MaxFallen
           all == <<deaths + 1>> \o fallen
<1>1. /\ fallen \in Seq(1 .. deaths) /\ Len(fallen) <= MaxFallen /\ deaths \in Nat
      /\ \A i \in 1 .. Len(fallen) : fallen[i] = deaths + 1 - i
      /\ MaxFallen \in Nat \ {0}
    BY CapAssumption DEF FallenInv, Deaths, NewestFallen
<1>2. fallen' = SubSeq(all, 1, n) /\ deaths' = deaths + 1
    BY DEF Fall
<1>3. /\ all \in Seq(1 .. deaths + 1) /\ Len(all) = Len(fallen) + 1
      /\ all[1] = deaths + 1
      /\ \A i \in 2 .. Len(fallen) + 1 : all[i] = fallen[i - 1]
    <2>1. fallen \in Seq(1 .. deaths + 1) /\ <<deaths + 1>> \in Seq(1 .. deaths + 1)
        BY <1>1, SeqGrows
    <2> QED
        BY <1>1, <2>1
<1>4. n \in Nat /\ n <= Len(fallen) + 1 /\ n <= MaxFallen /\ Len(fallen) \in Nat
    BY <1>1
<1> HIDE DEF all, n
<1>5. \A i \in 1 .. Len(all) : all[i] = deaths + 2 - i
    <2>1. TAKE i \in 1 .. Len(all)
    <2>2. CASE i = 1
        BY <1>1, <1>3, <2>2
    <2>3. CASE i # 1
        <3>1. i \in 2 .. Len(fallen) + 1 /\ i - 1 \in 1 .. Len(fallen)
            BY <1>3, <1>4, <2>3
        <3>2. all[i] = deaths + 1 - (i - 1)
            BY <1>1, <1>3, <3>1
        <3> QED
            BY <1>1, <3>1, <3>2
    <2> QED
        BY <2>2, <2>3
<1>6. /\ fallen' \in Seq(1 .. deaths + 1) /\ Len(fallen') = n
      /\ \A i \in 1 .. n : fallen'[i] = all[i] /\ i \in 1 .. Len(all)
    BY <1>2, <1>3, <1>4
<1>7. NewestFallen'
    BY <1>1, <1>2, <1>4, <1>5, <1>6 DEF NewestFallen
<1> QED
    BY <1>2, <1>4, <1>6, <1>7

\* A death without a hub, sent at once, or queued.
LEMMA FallKeeps == ASSUME FallenInv, Fall PROVE FallenInv'
<1> DEFINE d == deaths + 1
<1>1. /\ deaths \in Nat /\ deaths' = d /\ d \in Nat /\ d > deaths
      /\ UNCHANGED <<mode, flying>>
      /\ pending \in Seq(Nat) /\ Len(pending) \in Nat /\ Len(pending) <= deaths
      /\ flying \in Seq(1 .. d) /\ hubFallen \in Seq(1 .. d) /\ pending \in Seq(1 .. d)
      /\ flying \in Seq(Nat) /\ hubFallen \in Seq(Nat)
      /\ Len(flying) <= MaxPendingFallen /\ unsent \subseteq 1 .. d
      /\ Len(pending) <= MaxPendingFallen
      /\ MaxPendingFallen \in Nat \ {0}
    BY NewestSound, SeqGrows, CapAssumption DEF FallenInv, Deaths, Fall
<1>2. /\ fallen' \in Seq(1 .. deaths') /\ Len(fallen') <= MaxFallen /\ NewestFallen'
    BY RollSound
<1> HIDE DEF d
<1>3. CASE mode = "local" /\ UNCHANGED <<pending, hubFallen, unsent>>
    <2>1. Deaths'
        BY <1>1, <1>2, <1>3 DEF Deaths
    <2>2. DeathsInOrder' /\ Queues' /\ Accounted'
        BY <1>1, <1>3 DEF FallenInv, DeathsInOrder, Queues, Accounted, d
    <2> QED
        BY <1>2, <2>1, <2>2 DEF FallenInv
<1>4. CASE mode = "direct" /\ Record(d) /\ UNCHANGED pending
    <2>0. pending = <<>> /\ flying = <<>> /\ Len(pending) = 0 /\ Len(flying) = 0
        BY <1>4 DEF FallenInv, Queues
    <2>1. CASE hubFallen' = Append(hubFallen, d) /\ UNCHANGED unsent
        <3>1. \A i \in 1 .. Len(hubFallen) : hubFallen[i] < d /\ hubFallen[i] <= deaths
            BY <1>1, <2>0 DEF FallenInv, DeathsInOrder, Deaths
        <3>2. \A i, j \in 1 .. Len(hubFallen) : i < j => hubFallen[i] < hubFallen[j]
            BY DEF FallenInv, DeathsInOrder
        <3>3. /\ hubFallen' \in Seq(Nat) /\ Len(hubFallen') = Len(hubFallen) + 1
              /\ \A i, j \in 1 .. Len(hubFallen') : i < j => hubFallen'[i] < hubFallen'[j]
              /\ \A i \in 1 .. Len(hubFallen') :
                    hubFallen'[i] = d \/ \E k \in 1 .. Len(hubFallen) : hubFallen'[i] = hubFallen[k]
            BY <1>1, <2>1, <3>1, <3>2, OrderedAppend
        <3>4. \A i \in 1 .. Len(hubFallen') : hubFallen'[i] <= d
            <4>1. (\A k \in 1 .. Len(hubFallen) : hubFallen[k] <= d) /\ d <= d
                <5>1. \A k \in 1 .. Len(hubFallen) : hubFallen[k] \in 1 .. d
                    BY <1>1
                <5> QED
                    BY <1>1, <5>1
            <4> QED
                BY <3>3, <4>1
        <3>5. hubFallen' \in Seq(1 .. d)
            <4>1. d \in 1 .. d
                BY <1>1
            <4> QED
                BY <1>1, <2>1, <4>1
        <3>6. InSeq(hubFallen') = InSeq(hubFallen) \cup {d}
            BY <1>1, <2>1, InSeqAppend
        <3>7. Deaths'
            BY <1>1, <1>2, <1>4, <2>1, <3>5 DEF Deaths
        <3>8. DeathsInOrder'
            BY <1>1, <1>4, <2>0, <3>3, <3>4 DEF DeathsInOrder
        <3>9. Accounted'
            <4>1. ASSUME NEW e \in 1 .. d, e > d - MaxPendingFallen
                  PROVE  e = d \/ (e \in 1 .. deaths /\ e > deaths - MaxPendingFallen)
                BY <1>1, <4>1 DEF d
            <4> QED
                BY <1>1, <1>4, <2>1, <3>6, <4>1 DEF FallenInv, Accounted
        <3> QED
            BY <1>1, <1>2, <1>4, <2>0, <3>7, <3>8, <3>9 DEF FallenInv, Queues
    <2>2. CASE unsent' = unsent \cup {d} /\ UNCHANGED hubFallen
        <3>1. Deaths'
            BY <1>1, <1>2, <1>4, <2>2 DEF Deaths
        <3>2. DeathsInOrder'
            BY <1>1, <1>4, <2>0, <2>2 DEF FallenInv, DeathsInOrder, d
        <3>3. Accounted'
            <4>1. ASSUME NEW e \in 1 .. d, e > d - MaxPendingFallen
                  PROVE  e = d \/ (e \in 1 .. deaths /\ e > deaths - MaxPendingFallen)
                BY <1>1, <4>1 DEF d
            <4> QED
                BY <1>1, <1>4, <2>2, <4>1 DEF FallenInv, Accounted
        <3> QED
            BY <1>1, <1>2, <1>4, <2>0, <3>1, <3>2, <3>3 DEF FallenInv, Queues
    <2> QED
        BY <1>4, <2>1, <2>2 DEF Record
<1>5. CASE mode = "worker" /\ pending' = Later(pending, d) /\ UNCHANGED <<hubFallen, unsent>>
    <2>1. /\ pending' \in Seq(1 .. d) /\ Len(pending') <= MaxPendingFallen
          /\ Len(pending) <= Len(pending') /\ Len(pending') <= Len(pending) + 1
          /\ \A i \in 1 .. Len(pending') : pending'[i] = d - Len(pending') + i
          /\ \A e \in InSeq(pending) : e \in InSeq(pending') \/ e <= d - MaxPendingFallen
          /\ d \in InSeq(pending')
        <3>1. HoldsNewest(pending')
            BY <1>5, LaterSound DEF d
        <3>2. d = deaths + 1
            BY DEF d
        <3>3. /\ pending' \in Seq(1 .. d) /\ Len(pending') <= MaxPendingFallen
              /\ Len(pending) <= Len(pending') /\ Len(pending') <= Len(pending) + 1
              /\ d \in InSeq(pending')
            BY <3>1, <3>2 DEF HoldsNewest
        <3>4. \A i \in 1 .. Len(pending') : pending'[i] = deaths + 1 - Len(pending') + i
            BY <3>1 DEF HoldsNewest
        <3>5. \A e \in InSeq(pending) : e \in InSeq(pending') \/ e <= deaths + 1 - MaxPendingFallen
            BY <3>1 DEF HoldsNewest
        <3>6. deaths + 1 - MaxPendingFallen = d - MaxPendingFallen
            BY <1>1, <3>2
        <3>7. \A i \in 1 .. Len(pending') : deaths + 1 - Len(pending') + i = d - Len(pending') + i
            BY <1>1, <3>2, <3>3
        <3>8. \A i \in 1 .. Len(pending') : pending'[i] = d - Len(pending') + i
            BY <3>4, <3>7
        <3>9. \A e \in InSeq(pending) : e \in InSeq(pending') \/ e <= d - MaxPendingFallen
            BY <3>5, <3>6
        <3> QED
            BY <3>3, <3>8, <3>9
    <2>2. Len(pending') \in Nat /\ deaths - Len(pending) <= d - Len(pending')
        BY <1>1, <2>1 DEF d
    <2>3. Deaths'
        BY <1>1, <1>2, <1>5, <2>1 DEF Deaths
    <2>4. DeathsInOrder'
        <3>1. /\ \A i \in 1 .. Len(flying) : flying[i] <= deaths - Len(pending) /\ flying[i] \in Nat
              /\ \A i \in 1 .. Len(hubFallen) :
                    hubFallen[i] <= deaths - Len(pending) /\ hubFallen[i] \in Nat
            <4>1. flying \in Seq(Nat) /\ hubFallen \in Seq(Nat)
                BY <1>1
            <4>2. /\ \A i \in 1 .. Len(flying) : flying[i] \in Nat
                  /\ \A i \in 1 .. Len(hubFallen) : hubFallen[i] \in Nat
                BY <4>1
            <4> QED
                BY <4>2 DEF FallenInv, DeathsInOrder
        <3>2. /\ \A i \in 1 .. Len(flying) : flying[i] <= d - Len(pending')
              /\ \A i \in 1 .. Len(hubFallen) : hubFallen[i] <= d - Len(pending')
            <4> DEFINE low == deaths - Len(pending)
                       high == d - Len(pending')
            <4>1. low \in Int /\ high \in Int /\ low <= high
                BY <1>1, <2>2
            <4> HIDE DEF low, high
            <4>2. \A e \in Nat : e <= low => e <= high
                BY <4>1
            <4> QED
                BY <3>1, <4>2 DEF low, high
        <3> QED
            BY <1>1, <1>5, <2>1, <3>2 DEF FallenInv, DeathsInOrder
    <2>5. Accounted'
        <3>1. ASSUME NEW e \in 1 .. d, e > d - MaxPendingFallen
              PROVE  e = d \/ (e \in 1 .. deaths /\ e > deaths - MaxPendingFallen)
            BY <1>1, <3>1 DEF d
        <3>2. ASSUME NEW e \in 1 .. d, e > d - MaxPendingFallen
              PROVE  ~(e <= d - MaxPendingFallen)
            BY <1>1, <3>2
        <3> QED
            BY <1>1, <1>5, <2>1, <3>1, <3>2 DEF FallenInv, Accounted
    <2> QED
        BY <1>1, <1>2, <1>5, <2>3, <2>4, <2>5 DEF FallenInv, Queues
<1> QED
    BY <1>3, <1>4, <1>5 DEF Fall, d

LEMMA TakeWritesKeeps == ASSUME FallenInv, TakeWrites PROVE FallenInv'
<1>1. /\ deaths \in Nat /\ flying = <<>> /\ mode = "worker"
      /\ flying' = pending /\ pending' = <<>> /\ Len(pending') = 0
      /\ UNCHANGED <<mode, deaths, fallen, hubFallen, unsent>>
      /\ Len(pending) \in Nat /\ Len(pending) <= deaths /\ pending \in Seq(Nat)
    BY NewestSound DEF FallenInv, Deaths, TakeWrites, AtRest
<1>2. Deaths' /\ NewestFallen' /\ Queues'
    <2>1. MaxPendingFallen \in Nat /\ Len(pending') <= MaxPendingFallen
        BY <1>1, CapAssumption
    <2>2. pending' \in Seq(1 .. deaths') /\ flying' \in Seq(1 .. deaths')
        BY <1>1 DEF FallenInv, Deaths
    <2>3. Deaths'
        BY <1>1, <2>1, <2>2 DEF FallenInv, Deaths
    <2>4. NewestFallen' /\ Queues'
        BY <1>1 DEF FallenInv, NewestFallen, Queues
    <2> QED
        BY <2>3, <2>4
<1>0. \A i \in 1 .. Len(hubFallen) : hubFallen[i] \in Nat
    <2>1. deaths \in Nat /\ hubFallen \in Seq(1 .. deaths)
        BY DEF FallenInv, Deaths
    <2> QED
        BY <2>1
<1>3. DeathsInOrder'
    <2>1. /\ \A i \in 1 .. Len(pending) : pending[i] = deaths - Len(pending) + i
          /\ \A i \in 1 .. Len(hubFallen) :
                hubFallen[i] <= deaths - Len(pending) /\ hubFallen[i] \in Nat
          /\ \A i, j \in 1 .. Len(hubFallen) : i < j => hubFallen[i] < hubFallen[j]
        BY <1>0 DEF FallenInv, DeathsInOrder
    <2>2. /\ \A i \in 1 .. Len(pending) : pending[i] <= deaths
          /\ \A i, j \in 1 .. Len(pending) : i < j => pending[i] < pending[j]
          /\ \A i \in 1 .. Len(hubFallen) : hubFallen[i] <= deaths
          /\ \A i \in 1 .. Len(hubFallen), j \in 1 .. Len(pending) : hubFallen[i] < pending[j]
        BY <1>1, <2>1
    <2> QED
        BY <1>1, <2>1, <2>2 DEF DeathsInOrder
<1>4. Accounted'
    BY <1>1 DEF FallenInv, Accounted, InSeq
<1> QED
    BY <1>2, <1>3, <1>4 DEF FallenInv

LEMMA SendFallenKeeps == ASSUME FallenInv, SendFallen PROVE FallenInv'
<1> DEFINE d == Head(flying)
<1>1. /\ deaths \in Nat /\ flying \in Seq(1 .. deaths) /\ flying # <<>>
      /\ flying \in Seq(Nat) /\ hubFallen \in Seq(Nat) /\ hubFallen \in Seq(1 .. deaths)
      /\ flying' = Tail(flying) /\ UNCHANGED <<mode, deaths, fallen, pending>>
      /\ Len(flying) <= MaxPendingFallen /\ Len(pending) \in Nat
    BY SeqGrows DEF FallenInv, Deaths, SendFallen
<1>2. /\ d = flying[1] /\ 1 \in 1 .. Len(flying) /\ d \in 1 .. deaths /\ d \in Nat
      /\ flying' \in Seq(1 .. deaths) /\ Len(flying') = Len(flying) - 1 /\ Len(flying) \in Nat
      /\ \A i \in 1 .. Len(flying') : flying'[i] = flying[i + 1] /\ i + 1 \in 1 .. Len(flying)
    BY <1>1
<1>3. InSeq(flying) = {d} \cup InSeq(flying')
    BY <1>1, InSeqTail
<1>4. /\ \A i \in 1 .. Len(flying) : flying[i] <= deaths - Len(pending) /\ flying[i] \in Nat
      /\ \A i, j \in 1 .. Len(flying) : i < j => flying[i] < flying[j]
      /\ \A i \in 1 .. Len(hubFallen) :
            hubFallen[i] <= deaths - Len(pending) /\ hubFallen[i] \in Nat
      /\ \A i, j \in 1 .. Len(hubFallen) : i < j => hubFallen[i] < hubFallen[j]
      /\ \A i \in 1 .. Len(hubFallen), j \in 1 .. Len(flying) : hubFallen[i] < flying[j]
      /\ \A i \in 1 .. Len(pending) : pending[i] = deaths - Len(pending) + i
    <2>1. /\ \A i \in 1 .. Len(flying) : flying[i] \in Nat
          /\ \A i \in 1 .. Len(hubFallen) : hubFallen[i] \in Nat
        BY <1>1
    <2> QED
        BY <2>1 DEF FallenInv, DeathsInOrder
<1> HIDE DEF d
<1>5. /\ \A i \in 1 .. Len(flying') : flying'[i] <= deaths - Len(pending)
      /\ \A i, j \in 1 .. Len(flying') : i < j => flying'[i] < flying'[j]
      /\ \A j \in 1 .. Len(flying') : d < flying'[j]
      /\ \A i \in 1 .. Len(hubFallen), j \in 1 .. Len(flying') : hubFallen[i] < flying'[j]
    <2>1. \A i, j \in 1 .. Len(flying') : i < j => flying'[i] < flying'[j]
        <3>1. TAKE i, j \in 1 .. Len(flying')
        <3>2. HAVE i < j
        <3>3. i + 1 \in 1 .. Len(flying) /\ j + 1 \in 1 .. Len(flying) /\ i + 1 < j + 1
            BY <1>2, <3>2
        <3> QED
            BY <1>2, <1>4, <3>3
    <2>2. \A j \in 1 .. Len(flying') : d < flying'[j]
        <3>1. TAKE j \in 1 .. Len(flying')
        <3>2. j + 1 \in 1 .. Len(flying) /\ 1 < j + 1
            BY <1>2
        <3> QED
            BY <1>2, <1>4, <3>2
    <2> QED
        BY <1>2, <1>4, <2>1, <2>2
<1>6. CASE hubFallen' = Append(hubFallen, d) /\ UNCHANGED unsent
    <2>1. \A i \in 1 .. Len(hubFallen) : hubFallen[i] < d
        BY <1>2, <1>4
    <2>2. /\ hubFallen' \in Seq(Nat) /\ Len(hubFallen') = Len(hubFallen) + 1
          /\ \A i, j \in 1 .. Len(hubFallen') : i < j => hubFallen'[i] < hubFallen'[j]
          /\ \A i \in 1 .. Len(hubFallen') :
                hubFallen'[i] = d \/ \E k \in 1 .. Len(hubFallen) : hubFallen'[i] = hubFallen[k]
        <3>1. hubFallen \in Seq(Nat) /\ d \in Nat
            BY <1>1, <1>2
        <3>2. \A i, j \in 1 .. Len(hubFallen) : i < j => hubFallen[i] < hubFallen[j]
            BY <1>4
        <3> QED
            BY <1>6, <2>1, <3>1, <3>2, OrderedAppend
    <2>3. InSeq(hubFallen') = InSeq(hubFallen) \cup {d}
        BY <1>1, <1>2, <1>6, InSeqAppend
    <2>4. d <= deaths - Len(pending)
        BY <1>2, <1>4
    <2>5. /\ \A i \in 1 .. Len(hubFallen') : hubFallen'[i] <= deaths - Len(pending)
          /\ \A i \in 1 .. Len(hubFallen'), j \in 1 .. Len(flying') : hubFallen'[i] < flying'[j]
        BY <1>4, <1>5, <2>2, <2>4
    <2>6. DeathsInOrder'
        BY <1>1, <1>4, <1>5, <2>2, <2>5 DEF DeathsInOrder
    <2>7. hubFallen' \in Seq(1 .. deaths)
        BY <1>1, <1>2, <1>6
    <2>8. Deaths'
        BY <1>1, <1>2, <1>6, <2>7, CapAssumption DEF FallenInv, Deaths
    <2>9. Accounted'
        BY <1>1, <1>3, <1>6, <2>3 DEF FallenInv, Accounted
    <2> QED
        BY <1>1, <2>6, <2>8, <2>9 DEF FallenInv, Queues, NewestFallen
<1>7. CASE unsent' = unsent \cup {d} /\ UNCHANGED hubFallen
    <2>1. DeathsInOrder'
        BY <1>1, <1>4, <1>5, <1>7 DEF DeathsInOrder
    <2>2. Deaths'
        <3>1. unsent' \subseteq 1 .. deaths /\ hubFallen' \in Seq(1 .. deaths)
            BY <1>1, <1>2, <1>7 DEF FallenInv, Deaths
        <3>2. Len(flying') <= MaxPendingFallen
            BY <1>1, <1>2, CapAssumption
        <3>3. /\ fallen' \in Seq(1 .. deaths) /\ Len(fallen') <= MaxFallen
              /\ pending' \in Seq(1 .. deaths) /\ Len(pending') <= MaxPendingFallen
            BY <1>1 DEF FallenInv, Deaths
        <3> QED
            BY <1>1, <1>2, <3>1, <3>2, <3>3 DEF Deaths
    <2>3. Accounted'
        BY <1>1, <1>3, <1>7 DEF FallenInv, Accounted
    <2> QED
        BY <1>1, <2>1, <2>2, <2>3 DEF FallenInv, Queues, NewestFallen
<1> QED
    BY <1>6, <1>7 DEF SendFallen, Record, d

-----------------------------------------------------------------------------
(* Prunes. *)

Told == [no : Nat, to : Keepers]

Prunes ==
    /\ asks \in Seq(Keepers)
    /\ {request, pruning, result} \subseteq 0 .. Len(asks)
    /\ told \in Seq(Told) /\ \A i \in 1 .. Len(told) : told[i].no \in 1 .. Len(asks)

\* Answers, the slot, the worker's copy and the request are in order of asking.
OneBehindAnother ==
    /\ \A i \in 1 .. Len(told), n \in {request, pruning, result} : n # 0 => told[i].no < n
    /\ result # 0 /\ pruning # 0 => result < pruning
    /\ result # 0 /\ request # 0 => result < request
    /\ pruning # 0 /\ request # 0 => pruning < request

OnlyWorker == mode # "worker" => request = 0 /\ pruning = 0 /\ result = 0

PruneInv == Prunes /\ AnswersEarned /\ OneBehindAnother /\ OnlyWorker

\* One more answer, to the ask a, later than all answered before.
LEMMA AnswerSound ==
    ASSUME PruneInv, asks' \in Seq(Keepers), Len(asks) <= Len(asks'),
           \A k \in 1 .. Len(asks) : asks'[k] = asks[k],
           NEW a \in 1 .. Len(asks'), \A i \in 1 .. Len(told) : told[i].no < a,
           told' = Append(told, [no |-> a, to |-> asks'[a]])
    PROVE  /\ told' \in Seq(Told) /\ AnswersEarned'
           /\ \A i \in 1 .. Len(told') : told'[i].no \in 1 .. Len(asks')
           /\ Len(told') = Len(told) + 1 /\ told'[Len(told) + 1].no = a
           /\ \A i \in 1 .. Len(told) : told'[i] = told[i]
<1> DEFINE e == [no |-> a, to |-> asks'[a]]
<1>1. /\ Len(asks) \in Nat /\ Len(asks') \in Nat /\ told \in Seq(Told) /\ Len(told) \in Nat
      /\ \A i \in 1 .. Len(told) : told[i].no \in 1 .. Len(asks)
    BY DEF PruneInv, Prunes
<1>2. asks'[a] \in Keepers
    OBVIOUS
<1>3. e \in Told /\ e.no = a /\ e.to = asks'[a]
    BY <1>1, <1>2 DEF Told
<1> HIDE DEF e
<1>5. /\ told' \in Seq(Told) /\ Len(told') = Len(told) + 1
      /\ told'[Len(told) + 1] = e
      /\ \A i \in 1 .. Len(told) : told'[i] = told[i]
    <2>1. told' = Append(told, e)
        BY DEF e
    <2> QED
        BY <1>1, <1>3, <2>1, AppendProperties
<1>6. \A i \in 1 .. Len(told) : told[i].no \in 1 .. Len(asks) /\ told[i].to = asks[told[i].no]
    BY <1>1 DEF PruneInv, AnswersEarned
<1>7. \A i \in 1 .. Len(told') : i = Len(told) + 1 \/ i \in 1 .. Len(told)
    BY <1>1, <1>5
<1>8. \A i \in 1 .. Len(told') : told'[i].to = asks'[told'[i].no]
    BY <1>3, <1>5, <1>6, <1>7
<1>9. ASSUME NEW i \in 1 .. Len(told'), NEW j \in 1 .. Len(told'), i < j
      PROVE  told'[i].no < told'[j].no
    <2>1. i \in 1 .. Len(told)
        BY <1>1, <1>5, <1>9
    <2>2. CASE j = Len(told) + 1
        BY <1>3, <1>5, <2>1, <2>2
    <2>3. CASE j \in 1 .. Len(told)
        BY <1>1, <1>5, <1>9, <2>1, <2>3 DEF PruneInv, AnswersEarned
    <2> QED
        BY <1>7, <2>2, <2>3
<1>10. AnswersEarned'
    BY <1>1, <1>5, <1>8, <1>9 DEF AnswersEarned
<1>11. \A i \in 1 .. Len(told') : told'[i].no \in 1 .. Len(asks')
    BY <1>1, <1>3, <1>5, <1>6, <1>7
<1> QED
    BY <1>3, <1>5, <1>10, <1>11

LEMMA AskKeeps ==
    ASSUME PruneInv, mode \in Modes, NEW w \in Keepers, Ask(w)
    PROVE  PruneInv'
<1> DEFINE n == Len(asks) + 1
<1>1. /\ asks \in Seq(Keepers) /\ asks' = Append(asks, w) /\ UNCHANGED <<mode, pruning, result>>
      /\ request' = IF mode = "worker" THEN n ELSE request
      /\ told' = IF mode = "local" THEN Append(told, [no |-> n, to |-> w]) ELSE told
    BY DEF PruneInv, Prunes, Ask
<1>2. /\ asks' \in Seq(Keepers) /\ Len(asks') = n /\ Len(asks) \in Nat /\ asks'[n] = w
      /\ n \in 1 .. Len(asks') /\ n # 0
      /\ \A k \in 1 .. Len(asks) : asks'[k] = asks[k]
    BY <1>1, AppendProperties
<1>3. /\ told \in Seq(Told)
      /\ {request, pruning, result} \subseteq 0 .. Len(asks)
    BY DEF PruneInv, Prunes
<1>4. /\ \A i \in 1 .. Len(told) : told[i].no \in 1 .. Len(asks)
      /\ Len(told) \in Nat
    BY <1>3 DEF PruneInv, Prunes
<1>5. /\ \A i \in 1 .. Len(told) : told[i].no < n /\ told[i].no \in 1 .. Len(asks)
      /\ \A m \in {request, pruning, result} : m < n
    BY <1>2, <1>3, <1>4
<1>6. {request', pruning', result'} \subseteq 0 .. Len(asks')
    BY <1>1, <1>2, <1>3
<1> HIDE DEF n
<1>7. CASE mode = "local"
    <2>1. told' = Append(told, [no |-> n, to |-> asks'[n]])
        BY <1>1, <1>2, <1>7
    <2>2. /\ told' \in Seq(Told) /\ AnswersEarned'
          /\ \A i \in 1 .. Len(told') : told'[i].no \in 1 .. Len(asks')
        <3>1. Len(asks) <= Len(asks')
            BY <1>2 DEF n
        <3> QED
            BY <1>2, <1>5, <2>1, <3>1, AnswerSound
    <2>3. request' = 0 /\ pruning' = 0 /\ result' = 0
        BY <1>1, <1>7 DEF PruneInv, OnlyWorker
    <2> QED
        BY <1>2, <1>6, <2>2, <2>3 DEF PruneInv, Prunes, OneBehindAnother, OnlyWorker
<1>8. CASE mode # "local"
    <2>1. told' = told
        BY <1>1, <1>8
    <2>2. told' \in Seq(Told) /\ \A i \in 1 .. Len(told') : told'[i].no \in 1 .. Len(asks')
        BY <1>2, <1>3, <1>4, <2>1 DEF n
    <2>3. AnswersEarned'
        BY <1>2, <1>4, <1>5, <2>1 DEF PruneInv, AnswersEarned
    <2>4. OneBehindAnother' /\ OnlyWorker'
        <3>1. CASE mode = "worker"
            <4>1. request' = n
                BY <1>1, <3>1
            <4>2. /\ \A i \in 1 .. Len(told) : told'[i].no < n
                  /\ pruning < n /\ result < n
                BY <1>5, <2>1
            <4> QED
                BY <1>1, <2>1, <3>1, <4>1, <4>2 DEF PruneInv, OneBehindAnother, OnlyWorker
        <3>2. CASE mode # "worker"
            BY <1>1, <2>1, <3>2 DEF PruneInv, OneBehindAnother, OnlyWorker
        <3> QED
            BY <3>1, <3>2
    <2> QED
        BY <1>2, <1>6, <2>2, <2>3, <2>4 DEF PruneInv, Prunes
<1> QED
    BY <1>7, <1>8

LEMMA DrainKeeps == ASSUME PruneInv, NEW ws, Drain(ws) PROVE PruneInv'
<1>1. /\ result # 0 /\ result' = 0 /\ UNCHANGED <<mode, asks, request, pruning>>
      /\ told' = IF asks[result] \in ws
                 THEN Append(told, [no |-> result, to |-> asks[result]]) ELSE told
    BY DEF Drain
<1>2. /\ asks \in Seq(Keepers) /\ Len(asks) \in Nat
      /\ {request, pruning, result} \subseteq 0 .. Len(asks)
      /\ told \in Seq(Told)
    BY DEF PruneInv, Prunes
<1>3. CASE told' = told
    <2>1. Prunes' /\ AnswersEarned'
        BY <1>1, <1>2, <1>3 DEF PruneInv, Prunes, AnswersEarned
    <2>2. OneBehindAnother' /\ OnlyWorker'
        BY <1>1, <1>3 DEF PruneInv, OneBehindAnother, OnlyWorker
    <2> QED
        BY <2>1, <2>2 DEF PruneInv
<1>4. CASE told' = Append(told, [no |-> result, to |-> asks[result]])
    <2>1. /\ result \in 1 .. Len(asks') /\ asks' \in Seq(Keepers) /\ Len(asks) <= Len(asks')
          /\ \A k \in 1 .. Len(asks) : asks'[k] = asks[k]
          /\ told' = Append(told, [no |-> result, to |-> asks'[result]])
        BY <1>1, <1>2, <1>4
    <2>2. \A i \in 1 .. Len(told) : told[i].no < result
        BY <1>1 DEF PruneInv, OneBehindAnother
    <2>3. /\ told' \in Seq(Told) /\ AnswersEarned'
          /\ \A i \in 1 .. Len(told') : told'[i].no \in 1 .. Len(asks')
          /\ Len(told') = Len(told) + 1 /\ told'[Len(told) + 1].no = result
          /\ \A i \in 1 .. Len(told) : told'[i] = told[i]
        BY <2>1, <2>2, AnswerSound
    <2>4. \A i \in 1 .. Len(told') : i = Len(told) + 1 \/ i \in 1 .. Len(told)
        <3>1. Len(told) \in Nat
            BY <1>2
        <3> QED
            BY <2>3, <3>1
    <2>5. OneBehindAnother'
        BY <1>1, <2>3, <2>4 DEF PruneInv, OneBehindAnother
    <2> QED
        BY <1>1, <1>2, <2>3, <2>5 DEF PruneInv, Prunes, OnlyWorker
<1> QED
    BY <1>1, <1>3, <1>4

LEMMA TakePrune == ASSUME PruneInv, TakeWrites PROVE PruneInv'
BY DEF PruneInv, Prunes, AnswersEarned, OneBehindAnother, OnlyWorker, TakeWrites, AtRest

LEMMA SendPrune == ASSUME PruneInv, SendFallen PROVE PruneInv'
BY DEF PruneInv, Prunes, AnswersEarned, OneBehindAnother, OnlyWorker, SendFallen, pruneVars

\* The slot may hold an older result: whatever it was, the new one is later.
LEMMA PruneKeeps == ASSUME PruneInv, PruneLedger PROVE PruneInv'
<1>1. /\ pruning # 0 /\ result' = pruning /\ pruning' = 0
      /\ UNCHANGED <<mode, asks, request, told>>
    BY DEF PruneLedger
<1>2. Prunes' /\ AnswersEarned'
    BY <1>1 DEF PruneInv, Prunes, AnswersEarned
<1>3. OneBehindAnother' /\ OnlyWorker'
    BY <1>1 DEF PruneInv, OneBehindAnother, OnlyWorker
<1> QED
    BY <1>2, <1>3 DEF PruneInv

-----------------------------------------------------------------------------
(* Together. *)

LedgerInv == FallenInv /\ PruneInv /\ mode \in Modes

KeeperInv == IOInv /\ LedgerInv /\ running \in BOOLEAN /\ gone \in BOOLEAN

LEMMA LedgerStill == ASSUME LedgerInv, UNCHANGED ledgerVars PROVE LedgerInv'
<1>1. FallenInv'
    BY DEF LedgerInv, FallenInv, Deaths, DeathsInOrder, Accounted, NewestFallen, Queues,
           ledgerVars
<1>2. PruneInv' /\ mode' \in Modes
    BY DEF LedgerInv, PruneInv, Prunes, AnswersEarned, OneBehindAnother, OnlyWorker, ledgerVars
<1> QED
    BY <1>1, <1>2 DEF LedgerInv

\* A step that moves deaths leaves prunes alone, and the other way around.
LEMMA FallenStill ==
    ASSUME FallenInv, UNCHANGED <<mode, flying>>, UNCHANGED fallenVars, UNCHANGED fallen
    PROVE  FallenInv'
BY DEF FallenInv, Deaths, DeathsInOrder, Accounted, NewestFallen, Queues, fallenVars

LEMMA PruneStill ==
    ASSUME PruneInv, UNCHANGED <<mode, pruning>>, UNCHANGED pruneVars
    PROVE  PruneInv'
BY DEF PruneInv, Prunes, AnswersEarned, OneBehindAnother, OnlyWorker, pruneVars

LEMMA WorkerKeeps == ASSUME LedgerInv, Worker PROVE LedgerInv'
<1>1. CASE TakeWrites
    <2>1. mode' = mode
        BY <1>1 DEF TakeWrites
    <2> QED
        BY <1>1, <2>1, TakeWritesKeeps, TakePrune DEF LedgerInv
<1>2. CASE SendFallen
    <2>1. mode' = mode
        BY <1>2 DEF SendFallen
    <2> QED
        BY <1>2, <2>1, SendFallenKeeps, SendPrune DEF LedgerInv
<1>3. CASE PruneLedger
    <2>1. UNCHANGED <<mode, flying>> /\ UNCHANGED fallenVars
        BY <1>3 DEF PruneLedger
    <2>2. UNCHANGED fallen
        BY <2>1 DEF fallenVars
    <2> QED
        BY <1>3, <2>1, <2>2, FallenStill, PruneKeeps DEF LedgerInv
<1> QED
    BY <1>1, <1>2, <1>3 DEF Worker

LEMMA AskStep == ASSUME LedgerInv, NEW w \in Keepers, Ask(w) PROVE LedgerInv'
<1>1. UNCHANGED <<mode, flying>> /\ UNCHANGED fallenVars
    BY DEF Ask
<1>2. UNCHANGED fallen
    BY <1>1 DEF fallenVars
<1> QED
    BY <1>1, <1>2, FallenStill, AskKeeps DEF LedgerInv

LEMMA FallStep == ASSUME LedgerInv, Fall PROVE LedgerInv'
<1>1. UNCHANGED <<mode, pruning>> /\ UNCHANGED pruneVars
    BY DEF Fall
<1> QED
    BY <1>1, FallKeeps, PruneStill DEF LedgerInv

LEMMA DrainStep == ASSUME LedgerInv, NEW ws, Drain(ws) PROVE LedgerInv'
<1>1. UNCHANGED <<mode, flying>> /\ UNCHANGED fallenVars
    BY DEF Drain
<1>2. UNCHANGED fallen
    BY <1>1 DEF fallenVars
<1> QED
    BY <1>1, <1>2, FallenStill, DrainKeeps DEF LedgerInv

LEMMA KeeperInit == Init => KeeperInv
<1> SUFFICES ASSUME Init PROVE KeeperInv
    OBVIOUS
<1>1. IOInv
    BY EmptySound DEF Init, IOInit, IOInv, IOTypeOK, OneMessage, NothingStuck
<1>2. FallenInv
    BY CapAssumption DEF Init, LedgerInit, FallenInv, Deaths, DeathsInOrder, Accounted,
                         NewestFallen, Queues
<1>3. PruneInv
    BY DEF Init, LedgerInit, PruneInv, Prunes, AnswersEarned, OneBehindAnother, OnlyWorker
<1> QED
    BY <1>1, <1>2, <1>3 DEF Init, LedgerInit, KeeperInv, LedgerInv

LEMMA ReceiveKeeps == ASSUME KeeperInv, NEW w \in Wanderers, Receive(w) PROVE KeeperInv'
<1>1. PICK len \in Lens :
          \/ /\ \E final \in BOOLEAN : TooLong(w, len, final)
             /\ UNCHANGED ledgerVars /\ UNCHANGED gone
          \/ Gather(w, len) /\ UNCHANGED ledgerVars /\ UNCHANGED gone
          \/ Complete(w, len) /\ (HandleLogin(w) \/ HandleOther(w) \/ HandlePrune(w))
    BY DEF Receive
<1>2. running' \in BOOLEAN /\ IOInv /\ LedgerInv
    BY DEF Receive, KeeperInv
<1>3. CASE (\E final \in BOOLEAN : TooLong(w, len, final))
           /\ UNCHANGED ledgerVars /\ UNCHANGED gone
    BY <1>2, <1>3, TooLongKeepsOrder, LedgerStill DEF KeeperInv
<1>4. CASE Gather(w, len) /\ UNCHANGED ledgerVars /\ UNCHANGED gone
    BY <1>2, <1>4, GatherKeeps, LedgerStill DEF KeeperInv
<1>5. <<0>> \in Seq(Nat) /\ <<>> \in Seq(Nat)
    OBVIOUS
<1>6. CASE Complete(w, len) /\ HandleLogin(w)
    <2>1. state' \in [Wanderers -> {"closed", "waiting", "playing"}]
        BY <1>2, <1>6 DEF HandleLogin, IOInv, IOTypeOK
    <2>2. UNCHANGED <<out, wants>> \/ \E lines \in Seq(Nat) : Queue(w, lines)
        BY <1>5, <1>6 DEF HandleLogin
    <2>3. IOInv'
        BY <1>2, <1>6, <2>1, <2>2, CompleteKeeps
    <2> QED
        BY <1>2, <1>6, <2>3, LedgerStill DEF KeeperInv, HandleLogin
<1>7. CASE Complete(w, len) /\ HandleOther(w)
    <2>1. state' \in [Wanderers -> {"closed", "waiting", "playing"}]
        BY <1>2, <1>7 DEF HandleOther, IOInv, IOTypeOK
    <2>2. \E lines \in Seq(Nat) : Queue(w, lines)
        BY <1>5, <1>7 DEF HandleOther
    <2>3. IOInv'
        BY <1>2, <1>7, <2>1, <2>2, CompleteKeeps
    <2> QED
        BY <1>2, <1>7, <2>3, LedgerStill DEF KeeperInv, HandleOther
<1>8. CASE Complete(w, len) /\ HandlePrune(w)
    <2>1. state' \in [Wanderers -> {"closed", "waiting", "playing"}]
        BY <1>2, <1>8 DEF HandlePrune, IOInv, IOTypeOK
    <2>2. <<Answer>> \in Seq(Nat)
        <3>1. Len(asks) \in Nat
            BY <1>2 DEF LedgerInv, PruneInv, Prunes
        <3> QED
            BY <3>1 DEF Answer
    <2>3. \E lines \in Seq(Nat) : Queue(w, lines)
        BY <1>8, <2>2 DEF HandlePrune
    <2>4. IOInv'
        BY <1>2, <1>8, <2>1, <2>3, CompleteKeeps
    <2>5. LedgerInv'
        BY <1>2, <1>8, AskStep DEF HandlePrune
    <2> QED
        BY <1>2, <1>8, <2>4, <2>5 DEF KeeperInv, HandlePrune
<1> QED
    BY <1>1, <1>3, <1>4, <1>6, <1>7, <1>8

\* Every step, action by action.
LEMMA KeeperStep == KeeperInv /\ [Next]_vars => KeeperInv'
<1> SUFFICES ASSUME KeeperInv, [Next]_vars PROVE KeeperInv'
    OBVIOUS
<1>1. IOInv /\ LedgerInv /\ running \in BOOLEAN /\ gone \in BOOLEAN
    BY DEF KeeperInv
<1>2. <<0>> \in Seq(Nat)
    OBVIOUS
<1>3. ASSUME NEW w \in Wanderers, Open(w) PROVE KeeperInv'
    <2>1. Queue(w, <<0>>) /\ UNCHANGED <<input, inputLength, sent, spilt, heard>>
          /\ state' \in [Wanderers -> {"closed", "waiting", "playing"}]
        BY <1>1, <1>3 DEF Open, Established, IOInv, IOTypeOK
    <2>2. IOInv'
        BY <1>1, <1>2, <2>1, QueueSound, LinesKeep DEF IOInv, IOTypeOK
    <2> QED
        BY <1>1, <1>3, <2>2, LedgerStill DEF Open, KeeperInv
<1>4. ASSUME NEW w \in Wanderers, Admit(w) PROVE KeeperInv'
    <2>1. Queue(w, <<0>>) /\ UNCHANGED <<input, inputLength, sent, spilt, heard>>
          /\ state' \in [Wanderers -> {"closed", "waiting", "playing"}]
        BY <1>1, <1>4 DEF Admit, IOInv, IOTypeOK
    <2>2. IOInv'
        BY <1>1, <1>2, <2>1, QueueSound, LinesKeep DEF IOInv, IOTypeOK
    <2> QED
        BY <1>1, <1>4, <2>2, LedgerStill DEF Admit, KeeperInv
<1>5. ASSUME NEW w \in Wanderers, Dies(w) PROVE KeeperInv'
    <2>1. Queue(w, <<0>>) /\ UNCHANGED <<state, input, inputLength, sent, spilt, heard>>
        BY <1>5 DEF Dies
    <2>2. IOInv'
        BY <1>1, <1>2, <2>1, QueueSound, LinesKeep DEF IOInv, IOTypeOK
    <2> QED
        BY <1>1, <1>5, <2>2, FallStep DEF Dies, KeeperInv
<1>6. ASSUME NEW w \in Wanderers, Write(w) PROVE KeeperInv'
    BY <1>1, <1>6, WriteKeeps, LedgerStill DEF Write, KeeperInv
<1>7. ASSUME NEW w \in Wanderers, Close(w) PROVE KeeperInv'
    <2>1. {w} \in SUBSET Wanderers /\ Closed({w})
        BY <1>7 DEF Close
    <2>2. IOInv'
        BY <1>1, <2>1, ClosedKeeps
    <2>3. gone' \in BOOLEAN
        BY <1>1, <1>7 DEF Close, AskerIn
    <2> QED
        BY <1>1, <1>7, <2>2, <2>3, LedgerStill DEF Close, KeeperInv
<1>8. CASE PollPrunes
    <2> DEFINE to == asks[result]
    <2>1. UNCHANGED <<state, input, inputLength, sent, spilt, heard>> /\ result # 0
          /\ IF to \in Playing THEN Queue(to, <<result>>) ELSE UNCHANGED <<out, wants>>
        BY <1>8 DEF PollPrunes, Drain
    <2>2. ASSUME to \in Playing PROVE IOInv'
        <3>1. to \in Wanderers /\ Queue(to, <<result>>)
            BY <2>1, <2>2 DEF Playing
        <3>2. <<result>> \in Seq(Nat)
            <4>1. result \in Nat
                BY <1>1 DEF LedgerInv, PruneInv, Prunes
            <4> QED
                BY <4>1
        <3> HIDE DEF to
        <3> QED
            BY <1>1, <2>1, <3>1, <3>2, QueueSound, LinesKeep DEF IOInv, IOTypeOK
    <2>3. ASSUME to \notin Playing PROVE IOInv'
        BY <1>1, <2>1, <2>3 DEF IOInv, IOTypeOK, OneMessage, NothingStuck
    <2>4. IOInv'
        BY <2>2, <2>3
    <2>5. LedgerInv'
        BY <1>1, <1>8, DrainStep DEF PollPrunes
    <2> QED
        BY <1>1, <1>8, <2>4, <2>5 DEF PollPrunes, KeeperInv
<1>9. CASE Stop
    <2>1. IOInv'
        BY <1>1, <1>9, ClosedKeeps DEF Stop
    <2> QED
        BY <1>1, <1>9, <2>1, LedgerStill DEF Stop, KeeperInv
<1>10. CASE Work
    <2>1. IOInv'
        BY <1>1, <1>10 DEF Work, ioVars, IOInv, IOTypeOK, OneMessage, NothingStuck
    <2> QED
        BY <1>1, <1>10, <2>1, WorkerKeeps DEF Work, KeeperInv
<1>11. CASE UNCHANGED vars
    <2>1. IOInv'
        BY <1>1, <1>11 DEF vars, IOInv, IOTypeOK, OneMessage, NothingStuck
    <2>2. UNCHANGED ledgerVars
        BY <1>11 DEF vars, ledgerVars
    <2> QED
        BY <1>1, <1>11, <2>1, <2>2, LedgerStill DEF vars, KeeperInv
<1> QED
    BY <1>3, <1>4, <1>5, <1>6, <1>7, <1>8, <1>9, <1>10, <1>11, ReceiveKeeps DEF Next

LEMMA SeqOf ==
    ASSUME NEW S, NEW T, NEW s \in Seq(T), \A i \in 1 .. Len(s) : s[i] \in S
    PROVE  s \in Seq(S)
    OBVIOUS

LEMMA KeeperInvType == KeeperInv => TypeOK
<1> SUFFICES ASSUME KeeperInv PROVE TypeOK
    OBVIOUS
<1>1. told \in Seq([no : 1 .. Len(asks), to : Keepers])
    <2>1. told \in Seq(Told) /\ \A i \in 1 .. Len(told) : told[i].no \in 1 .. Len(asks)
        BY DEF KeeperInv, LedgerInv, PruneInv, Prunes
    <2>2. \A i \in 1 .. Len(told) : told[i] \in Told
        BY <2>1
    <2>3. \A i \in 1 .. Len(told) : told[i] \in [no : 1 .. Len(asks), to : Keepers]
        BY <2>1, <2>2 DEF Told
    <2> QED
        BY <2>1, <2>3, SeqOf
<1>2. LedgerTypeOK
    BY <1>1 DEF KeeperInv, LedgerInv, FallenInv, Deaths, PruneInv, Prunes, LedgerTypeOK
<1> QED
    BY <1>2 DEF KeeperInv, IOInv, TypeOK

\* What DeathsInOrder says of each of the three holds of the three in a row.
LEMMA KeeperInvFallen == KeeperInv => FallenInOrder
<1> SUFFICES ASSUME KeeperInv PROVE FallenInOrder
    OBVIOUS
<1> DEFINE h == hubFallen
           f == flying
           p == pending
           all == h \o f \o p
<1>1. /\ h \in Seq(Nat) /\ f \in Seq(Nat) /\ p \in Seq(Nat) /\ deaths \in Nat
      /\ fallen \in Seq(Nat)
    BY SeqGrows DEF KeeperInv, LedgerInv, FallenInv, Deaths
<1>2. /\ \A i \in 1 .. Len(p) : p[i] = deaths - Len(p) + i
      /\ \A i \in 1 .. Len(f) : f[i] <= deaths - Len(p)
      /\ \A i, j \in 1 .. Len(f) : i < j => f[i] < f[j]
      /\ \A i \in 1 .. Len(h) : h[i] <= deaths - Len(p)
      /\ \A i, j \in 1 .. Len(h) : i < j => h[i] < h[j]
      /\ \A i \in 1 .. Len(h), j \in 1 .. Len(f) : h[i] < f[j]
    BY DEF KeeperInv, LedgerInv, FallenInv, DeathsInOrder
<1> HIDE DEF h, f, p
<1>3. /\ DOMAIN all = 1 .. Len(h) + Len(f) + Len(p)
      /\ Len(h) \in Nat /\ Len(f) \in Nat /\ Len(p) \in Nat
      /\ \A i \in 1 .. Len(h) : all[i] = h[i]
      /\ \A i \in Len(h) + 1 .. Len(h) + Len(f) : all[i] = f[i - Len(h)]
      /\ \A i \in Len(h) + Len(f) + 1 .. Len(h) + Len(f) + Len(p) :
             all[i] = p[i - Len(h) - Len(f)]
    BY <1>1
<1> HIDE DEF all
<1>4. /\ \A i \in 1 .. Len(h) : h[i] \in Nat
      /\ \A i \in 1 .. Len(f) : f[i] \in Nat
      /\ \A i \in 1 .. Len(p) : p[i] \in Nat
    BY <1>1
<1>5. ASSUME NEW i \in DOMAIN all, NEW j \in DOMAIN all, i < j PROVE all[i] < all[j]
    <2> DEFINE m == Len(h)
               n == Len(h) + Len(f)
    <2>1. /\ m \in Nat /\ n \in Nat /\ i \in Nat /\ j \in Nat /\ i >= 1
          /\ j <= n + Len(p) /\ i <= n + Len(p)
        BY <1>3
    <2>2. CASE j <= m
        <3>1. i \in 1 .. Len(h) /\ j \in 1 .. Len(h)
            BY <1>3, <1>5, <2>1, <2>2
        <3> QED
            BY <1>2, <1>3, <1>5, <3>1
    <2>3. CASE i <= m /\ m < j /\ j <= n
        <3>1. i \in 1 .. Len(h) /\ j - m \in 1 .. Len(f) /\ j \in m + 1 .. n
            BY <1>3, <2>1, <2>3
        <3> QED
            BY <1>2, <1>3, <3>1
    <2>4. CASE i <= m /\ n < j
        <3>1. i \in 1 .. Len(h) /\ j - m - Len(f) \in 1 .. Len(p) /\ j \in n + 1 .. n + Len(p)
            BY <1>3, <2>1, <2>4
        <3>2. all[i] <= deaths - Len(p) /\ all[i] \in Nat
            BY <1>2, <1>3, <1>4, <3>1
        <3>3. all[j] = deaths - Len(p) + (j - m - Len(f))
            BY <1>2, <1>3, <3>1
        <3> QED
            BY <1>1, <1>3, <3>1, <3>2, <3>3
    <2>5. CASE m < i /\ j <= n
        <3>1. /\ i - m \in 1 .. Len(f) /\ j - m \in 1 .. Len(f) /\ i - m < j - m
              /\ i \in m + 1 .. n /\ j \in m + 1 .. n
            BY <1>3, <1>5, <2>1, <2>5
        <3> QED
            BY <1>2, <1>3, <3>1
    <2>6. CASE m < i /\ i <= n /\ n < j
        <3>1. /\ i - m \in 1 .. Len(f) /\ i \in m + 1 .. n
              /\ j - m - Len(f) \in 1 .. Len(p) /\ j \in n + 1 .. n + Len(p)
            BY <1>3, <2>1, <2>6
        <3>2. all[i] <= deaths - Len(p) /\ all[i] \in Nat
            BY <1>2, <1>3, <1>4, <3>1
        <3>3. all[j] = deaths - Len(p) + (j - m - Len(f))
            BY <1>2, <1>3, <3>1
        <3> QED
            BY <1>1, <1>3, <3>1, <3>2, <3>3
    <2>7. CASE n < i
        <3>1. /\ i - m - Len(f) \in 1 .. Len(p) /\ i \in n + 1 .. n + Len(p)
              /\ j - m - Len(f) \in 1 .. Len(p) /\ j \in n + 1 .. n + Len(p)
            BY <1>3, <1>5, <2>1, <2>7
        <3>2. /\ all[i] = deaths - Len(p) + (i - m - Len(f))
              /\ all[j] = deaths - Len(p) + (j - m - Len(f))
            BY <1>2, <1>3, <3>1
        <3> QED
            BY <1>1, <1>3, <1>5, <2>1, <3>2
    <2> QED
        BY <1>5, <2>1, <2>2, <2>3, <2>4, <2>5, <2>6, <2>7
<1>6. mode # "local" =>
          \A d \in 1 .. deaths : d > deaths - MaxPendingFallen =>
              d \in InSeq(hubFallen) \cup InSeq(flying) \cup InSeq(pending) \cup unsent
    BY DEF KeeperInv, LedgerInv, FallenInv, Accounted
<1>7. \A i \in DOMAIN fallen : fallen[i] = deaths + 1 - i
    <2>1. DOMAIN fallen = 1 .. Len(fallen)
        BY <1>1
    <2> QED
        BY <2>1 DEF KeeperInv, LedgerInv, FallenInv, NewestFallen
<1> QED
    BY <1>5, <1>6, <1>7 DEF FallenInOrder, all, h, f, p

-----------------------------------------------------------------------------
(* Theorems. *)

LEMMA KeeperAlways == Spec => []KeeperInv
<1>1. Init => KeeperInv
    BY KeeperInit
<1>2. KeeperInv /\ [Next]_vars => KeeperInv'
    BY KeeperStep
<1> QED
    BY <1>1, <1>2, PTL DEF Spec

\* All variables stay in their types: the buffer within its size, the queues within
\* their caps.
THEOREM KeeperTypes == Spec => []TypeOK
    BY KeeperAlways, KeeperInvType, PTL

\* A command is made of fragments of one message, its last ones, and of all of them
\* unless one did not fit.  (LWS_CALLBACK_RECEIVE.)
THEOREM CommandOfOneMessage == Spec => []OneMessage
<1>1. KeeperInv => OneMessage
    BY DEF KeeperInv, IOInv
<1> QED
    BY <1>1, KeeperAlways, PTL

\* A line never waits for a call that nobody asked for.  (queue_owned, WRITEABLE.)
THEOREM LinesAskToBeSent == Spec => []NothingStuck
<1>1. KeeperInv => NothingStuck
    BY DEF KeeperInv, IOInv
<1> QED
    BY <1>1, KeeperAlways, PTL

\* The hub's roll is in order and without doubles, and of the newest deaths none
\* is forgotten unsent.  (combat_round, queue_fallen_remote, flush_pending_writes.)
THEOREM DeathsReachTheRoll == Spec => []FallenInOrder
    BY KeeperAlways, KeeperInvFallen, PTL

\* A keeper is answered for what that keeper asked, once.  (queue_ledger_prune,
\* flush_pending_writes, drain_prune_results.)
THEOREM PrunesAnsweredOnce == Spec => []AnswersEarned
<1>1. KeeperInv => AnswersEarned
    BY DEF KeeperInv, LedgerInv, PruneInv
<1> QED
    BY <1>1, KeeperAlways, PTL

=============================================================================
