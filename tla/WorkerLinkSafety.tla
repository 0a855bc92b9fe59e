-------------------------- MODULE WorkerLinkSafety --------------------------
(***************************************************************************)
(* Slots are neither freed early nor lost, and no lease is forgotten, for  *)
(* any number of leases, connections and permits.                          *)
(***************************************************************************)
EXTENDS WorkerLink, FiniteSetTheorems, SequenceTheorems, TLAPS

\* Generations whose second push this connection is done with: each may have
\* taken a slot that nobody gives back.
Repeated(c) == {l \in Lease : pushes[l] = 2 /\ Msg("job", l) \notin bus[c]}

\* The count of one connection.  A generation that is active and waits in the
\* mailbox as well is on its second push; that bounds the drift.
Slots(c) ==
  /\ chan[c] # "open" => active[c] = {} /\ inflight[c] = 0 /\ bus[c] = {}
  /\ \A l \in Lease : l \in active[c] \/ Msg("job", l) \in bus[c] => pushes[l] # 0
  /\ \A l \in Lease : l \in active[c] /\ Msg("job", l) \in bus[c] => pushes[l] = 2
  /\ inflight[c] >= Cardinality(active[c])
  /\ inflight[c] <= Cardinality(active[c]) + Cardinality(Repeated(c))

ToRead(c, l)   == \E i \in DOMAIN down[c] : down[c][i] = Msg("job", l)
Reported(c, l) == \E i \in DOMAIN up[c] : up[c][i].lease = l

Accounted(c, l) ==
  chan[c] = "open" /\ link = c /\ l \in active[c] \ Undecodable =>
    task[l] # "none" \/ ToRead(c, l) \/ Reported(c, l)

\* A build that does not acknowledge: its slot was freed when the cancel was
\* pushed, so an active generation was pushed again after the cancel.
PushedAgain(c, l) ==
  link = c /\ l \in active[c] /\ c \notin Acks =>
    \A i \in DOMAIN down[c] : down[c][i] = Msg("cancel", l) =>
      \E j \in DOMAIN down[c] : j > i /\ down[c][j] = Msg("job", l)

IInv ==
  /\ TypeOK
  /\ \A c \in Conn : Slots(c)
  /\ \A c \in Conn, l \in Lease : Accounted(c, l) /\ PushedAgain(c, l)

----------------------------------------------------------------------------
(* Types *)

LEMMA MsgTypes ==
  /\ \A l \in Lease : Msg("job", l) \in Broadcast /\ Msg("cancel", l) \in Broadcast
  /\ \A l \in Lease : Msg("answer", l) \in Report /\ Msg("cancelled", l) \in Report
  /\ \A m \in Broadcast \cup Report : m.lease \in Lease
  BY DEF Msg, Broadcast, Report

LEMMA Prefix ==
  ASSUME NEW S, NEW s \in Seq(S), NEW n \in 0..Len(s)
  PROVE  SubSeq(s, 1, n) \in Seq(S)
  BY SubSeqProperties

LEMMA Rest ==
  ASSUME NEW S, NEW s \in Seq(S), s # <<>>
  PROVE  Head(s) \in S /\ Tail(s) \in Seq(S)
  BY HeadTailProperties

LEMMA DeliverType ==
  ASSUME TypeOK, NEW m \in Broadcast, Deliver(m)
  PROVE  bus' \in [Conn -> SUBSET Broadcast]
  BY DEF TypeOK, Deliver

LEMMA PushType ==
  ASSUME TypeOK, NEW c \in Conn, NEW m \in Broadcast, Push(c, m)
  PROVE  down' \in [Conn -> Seq(Broadcast)]
  BY AppendProperties DEF TypeOK, Push

LEMMA SendType ==
  ASSUME TypeOK, NEW c \in Conn, NEW m \in Report, Send(c, m)
  PROVE  up' \in [Conn -> Seq(Report)]
  BY AppendProperties DEF TypeOK, Send

LEMMA FinishType ==
  ASSUME TypeOK, NEW c \in Conn, NEW l \in Lease, FinishLease(c, l)
  PROVE  /\ active' \in [Conn -> SUBSET Lease]
         /\ inflight' \in [Conn -> Nat]
  <1>1. CASE l \in active[c]
    <2>1. active[c] \ {l} \in SUBSET Lease
      BY DEF TypeOK
    <2>2. (IF inflight[c] > 0 THEN inflight[c] - 1 ELSE 0) \in Nat
      BY DEF TypeOK
    <2>3. QED
      BY <1>1, <2>1, <2>2 DEF TypeOK, FinishLease
  <1>2. CASE l \notin active[c]
    BY <1>2 DEF TypeOK, FinishLease
  <1>3. QED
    BY <1>1, <1>2

LEMMA AbortType ==
  ASSUME TypeOK, NEW l \in Lease, Abort(l)
  PROVE  doomed' \subseteq Lease
  BY DEF TypeOK, Abort

LEMMA TypeStep ==
  ASSUME TypeOK, [Next]_vars
  PROVE  TypeOK'
  <1> USE DEF vars, coordinator, channel, client
  <1>1. CASE UNCHANGED vars
    BY <1>1 DEF TypeOK
  <1>2. ASSUME NEW l \in Lease, BroadcastJob(l) PROVE TypeOK'
    <2>1. bus' \in [Conn -> SUBSET Broadcast]
      BY <1>2, DeliverType, MsgTypes DEF BroadcastJob
    <2>2. pushes[l] \in 0..2 /\ pushes[l] < 2
      BY <1>2 DEF BroadcastJob, TypeOK
    <2>3. pushes' \in [Lease -> 0..2]
      BY <1>2, <2>2 DEF BroadcastJob, TypeOK
    <2>4. QED
      BY <1>2, <2>1, <2>3 DEF BroadcastJob, TypeOK
  <1>3. ASSUME NEW l \in Lease, Revoke(l) PROVE TypeOK'
    BY <1>3 DEF Revoke, TypeOK
  <1>4. ASSUME NEW l \in Lease, BroadcastCancel(l) PROVE TypeOK'
    <2>1. bus' \in [Conn -> SUBSET Broadcast]
      BY <1>4, DeliverType, MsgTypes DEF BroadcastCancel
    <2>2. QED
      BY <1>4, <2>1 DEF BroadcastCancel, TypeOK
  <1>5. ASSUME NEW l \in Lease, Acquire(l) PROVE TypeOK'
    BY <1>5 DEF Acquire, TypeOK
  <1>6. ASSUME NEW l \in Lease, Answer(l) PROVE TypeOK'
    <2>1. link \in Conn /\ up' \in [Conn -> Seq(Report)]
      BY <1>6, SendType, MsgTypes DEF Answer, TypeOK
    <2>2. QED
      BY <1>6, <2>1 DEF Answer, TypeOK
  <1>7. ASSUME NEW l \in Lease, Drop(l) PROVE TypeOK'
    <2>1. link \in Conn /\ up' \in [Conn -> Seq(Report)]
      BY <1>7, SendType, MsgTypes DEF Drop, TypeOK
    <2>2. QED
      BY <1>7, <2>1 DEF Drop, TypeOK
  <1>8. ASSUME NEW c \in Conn, NEW l \in Lease, PushJob(c, l) PROVE TypeOK'
    <2>1. down' \in [Conn -> Seq(Broadcast)]
      BY <1>8, PushType, MsgTypes DEF PushJob
    <2>2. bus' \in [Conn -> SUBSET Broadcast]
      BY <1>8 DEF PushJob, TypeOK
    <2>3. active' \in [Conn -> SUBSET Lease] /\ inflight' \in [Conn -> Nat]
      BY <1>8 DEF PushJob, TypeOK
    <2>4. QED
      BY <1>8, <2>1, <2>2, <2>3 DEF PushJob, TypeOK
  <1>9. ASSUME NEW c \in Conn, NEW l \in Lease, PushCancel(c, l) PROVE TypeOK'
    <2>1. down' \in [Conn -> Seq(Broadcast)]
      BY <1>9, PushType, MsgTypes DEF PushCancel
    <2>2. active' \in [Conn -> SUBSET Lease] /\ inflight' \in [Conn -> Nat]
      BY <1>9, FinishType DEF PushCancel, TypeOK
    <2>3. QED
      BY <1>9, <2>1, <2>2 DEF PushCancel, TypeOK
  <1>10. ASSUME NEW c \in Conn, TakeReport(c) PROVE TypeOK'
    <2>1. Head(up[c]) \in Report /\ Tail(up[c]) \in Seq(Report)
      BY <1>10, Rest DEF TakeReport, TypeOK
    <2>2. Head(up[c]).lease \in Lease
      BY <2>1, MsgTypes
    <2>3. active' \in [Conn -> SUBSET Lease] /\ inflight' \in [Conn -> Nat]
      BY <1>10, <2>2, FinishType DEF TakeReport
    <2>4. row' \in [Lease -> {"live", "answered", "revoked"}]
      BY <1>10, <2>2 DEF TakeReport, TypeOK
    <2>5. QED
      BY <1>10, <2>1, <2>3, <2>4 DEF TakeReport, TypeOK
  <1>11. ASSUME NEW c \in Conn, Close(c) PROVE TypeOK'
    <2>1. down' \in [Conn -> Seq(Broadcast)]
      BY <1>11, Prefix DEF Close, TypeOK
    <2>2. <<>> \in Seq(Report)
      OBVIOUS
    <2>3. QED
      BY <1>11, <2>1, <2>2 DEF Close, TypeOK
  <1>12. ASSUME NEW c \in Conn, Connect(c) PROVE TypeOK'
    BY <1>12 DEF Connect, TypeOK
  <1>13. ASSUME NEW c \in Conn, ReceiveJob(c) PROVE TypeOK'
    <2>1. Head(down[c]) \in Broadcast /\ Tail(down[c]) \in Seq(Broadcast)
      BY <1>13, Rest DEF ReceiveJob, TypeOK
    <2>2. Head(down[c]).lease \in Lease
      BY <2>1, MsgTypes
    <2>3. doomed' \subseteq Lease
      BY <1>13, <2>2, AbortType DEF ReceiveJob
    <2>4. QED
      BY <1>13, <2>1, <2>2, <2>3 DEF ReceiveJob, TypeOK
  <1>17. ASSUME NEW c \in Conn, SkipJob(c) PROVE TypeOK'
    BY <1>17, Rest DEF SkipJob, TypeOK
  <1>14. ASSUME NEW c \in Conn, ReceiveCancel(c) PROVE TypeOK'
    <2>1. Head(down[c]) \in Broadcast /\ Tail(down[c]) \in Seq(Broadcast)
      BY <1>14, Rest DEF ReceiveCancel, TypeOK
    <2>2. Head(down[c]).lease \in Lease
      BY <2>1, MsgTypes
    <2>3. doomed' \subseteq Lease
      BY <1>14, <2>2, AbortType DEF ReceiveCancel
    <2>4. up' \in [Conn -> Seq(Report)]
      BY <1>14, <2>2, SendType, MsgTypes DEF ReceiveCancel, TypeOK
    <2>5. QED
      BY <1>14, <2>1, <2>2, <2>3, <2>4 DEF ReceiveCancel, TypeOK
  <1>15. CASE Disconnect
    <2>1. link \in Conn
      BY <1>15 DEF Disconnect, TypeOK
    <2>2. up' \in [Conn -> Seq(Report)]
      BY <1>15, <2>1, Prefix DEF Disconnect, TypeOK
    <2>3. <<>> \in Seq(Broadcast)
      OBVIOUS
    <2>4. QED
      BY <1>15, <2>2, <2>3 DEF Disconnect, TypeOK
  <1>16. QED
    BY <1>1, <1>2, <1>3, <1>4, <1>5, <1>6, <1>7, <1>8, <1>9, <1>10, <1>11,
       <1>12, <1>13, <1>14, <1>15, <1>17 DEF Next, ChannelStep, ReaderStep

----------------------------------------------------------------------------
(* The count of one connection *)

LEMMA MsgDiffer ==
  \A k, l \in Lease : /\ Msg("job", k) # Msg("cancel", l)
                      /\ Msg("job", k) = Msg("job", l) => k = l
                      /\ Msg("cancel", k) = Msg("cancel", l) => k = l
  BY DEF Msg

LEMMA Counts ==
  ASSUME TypeOK, NEW c \in Conn
  PROVE  /\ inflight[c] \in Nat
         /\ Cardinality(active[c]) \in Nat
         /\ IsFiniteSet(Repeated(c)) /\ Cardinality(Repeated(c)) \in Nat
         /\ \A l \in Lease :
              /\ Cardinality(active[c] \cup {l}) =
                   IF l \in active[c] THEN Cardinality(active[c])
                                     ELSE Cardinality(active[c]) + 1
              /\ Cardinality(active[c] \ {l}) =
                   IF l \in active[c] THEN Cardinality(active[c]) - 1
                                     ELSE Cardinality(active[c])
  <1>1. active[c] \in SUBSET Lease /\ Repeated(c) \in SUBSET Lease /\ inflight[c] \in Nat
    BY DEF TypeOK, Repeated
  <1>2. IsFiniteSet(active[c]) /\ IsFiniteSet(Repeated(c))
    BY <1>1, FS_Subset, WorkerLinkAssumption
  <1>3. QED
    BY <1>1, <1>2, FS_CardinalityType, FS_AddElement, FS_RemoveElement

\* An empty connection.
LEMMA SlotsEmpty ==
  ASSUME TypeOK, NEW c \in Conn, active[c] = {}, inflight[c] = 0, bus[c] = {}
  PROVE  Slots(c)
  BY Counts, FS_EmptySet DEF Slots

\* Nothing that is counted changes.
LEMMA SlotsKept ==
  ASSUME TypeOK, NEW c \in Conn, Slots(c), pushes' = pushes,
         active'[c] = active[c], inflight'[c] = inflight[c],
         \A l \in Lease : Msg("job", l) \in bus'[c] <=> Msg("job", l) \in bus[c],
         \/ chan'[c] = "open"
         \/ chan'[c] = chan[c] /\ bus'[c] = bus[c]
  PROVE  Slots(c)'
  <1>1. Repeated(c)' = Repeated(c)
    BY DEF Repeated
  <1>2. QED
    BY <1>1 DEF Slots

\* finish_lease/4 frees the slot it takes out of active, and no other.
LEMMA SlotsFreed ==
  ASSUME TypeOK, NEW c \in Conn, Slots(c), NEW d \in Conn, NEW k \in Lease,
         FinishLease(d, k), pushes' = pushes, chan' = chan, chan[d] = "open",
         \A l \in Lease : Msg("job", l) \in bus'[c] <=> Msg("job", l) \in bus[c],
         c # d => bus'[c] = bus[c]
  PROVE  Slots(c)'
  <1>1. CASE c = d /\ k \in active[c]
    <2>1. active'[c] = active[c] \ {k} /\ Cardinality(active'[c]) = Cardinality(active[c]) - 1
      BY <1>1, Counts DEF FinishLease, TypeOK
    <2>2. inflight[c] > 0
      <3>1. Cardinality(active[c] \ {k}) \in Nat
        <4>1. active[c] \ {k} \in SUBSET Lease
          BY DEF TypeOK
        <4>2. QED
          BY <4>1, FS_Subset, FS_CardinalityType, WorkerLinkAssumption
      <3>2. QED
        BY <1>1, <2>1, <3>1, Counts DEF Slots
    <2>3. inflight'[c] = inflight[c] - 1
      BY <1>1, <2>2 DEF FinishLease, TypeOK
    <2>4. Repeated(c)' = Repeated(c)
      BY DEF Repeated
    <2>5. QED
      BY <1>1, <2>1, <2>3, <2>4, Counts DEF Slots
  <1>2. CASE ~(c = d /\ k \in active[c])
    <2>1. active'[c] = active[c] /\ inflight'[c] = inflight[c]
      BY <1>2 DEF FinishLease, TypeOK
    <2>2. QED
      BY <2>1, SlotsKept
  <1>3. QED
    BY <1>1, <1>2

LEMMA SlotsBroadcast ==
  ASSUME TypeOK, TypeOK', NEW c \in Conn, Slots(c), NEW k \in Lease, BroadcastJob(k)
  PROVE  Slots(c)'
  <1>1. /\ chan' = chan /\ active' = active /\ inflight' = inflight
        /\ pushes'[k] = pushes[k] + 1
        /\ \A l \in Lease \ {k} : pushes'[l] = pushes[l]
        /\ bus'[c] = IF chan[c] = "open" THEN bus[c] \cup {Msg("job", k)} ELSE bus[c]
    BY DEF BroadcastJob, Deliver, TypeOK
  <1>2. pushes[k] \in 0..2 /\ pushes'[k] \in 0..2
    BY DEF TypeOK
  <1>3. CASE chan[c] = "open"
    <2>1. ASSUME NEW l \in Lease, l # k
          PROVE  /\ pushes'[l] = pushes[l]
                 /\ Msg("job", l) \in bus'[c] <=> Msg("job", l) \in bus[c]
      BY <1>1, <1>3, <2>1, MsgDiffer
    <2>2. Msg("job", k) \in bus'[c] /\ pushes[k] # 2 /\ pushes'[k] # 0
      BY <1>1, <1>2, <1>3
    <2>3. k \in active[c] => pushes'[k] = 2
      BY <1>1, <1>2 DEF Slots
    <2>4. Repeated(c)' = Repeated(c)
      BY <2>1, <2>2 DEF Repeated
    <2>5. QED
      BY <1>1, <1>3, <2>1, <2>2, <2>3, <2>4 DEF Slots
  <1>4. CASE chan[c] # "open"
    <2>1. active'[c] = {} /\ inflight'[c] = 0 /\ bus'[c] = {}
      BY <1>1, <1>4 DEF Slots
    <2>2. (TypeOK /\ active[c] = {} /\ inflight[c] = 0 /\ bus[c] = {} => Slots(c))'
      BY SlotsEmpty, PTL
    <2>3. QED
      BY <2>1, <2>2
  <1>5. QED
    BY <1>3, <1>4

\* A push takes one slot; a second push of an active generation takes another,
\* which is what Repeated allows for.
LEMMA SlotsPush ==
  ASSUME TypeOK, NEW c \in Conn, Slots(c), NEW d \in Conn, NEW k \in Lease, PushJob(d, k)
  PROVE  Slots(c)'
  <1>1. CASE c # d
    <2>1. /\ pushes' = pushes /\ chan' = chan
          /\ active'[c] = active[c] /\ inflight'[c] = inflight[c] /\ bus'[c] = bus[c]
      BY <1>1 DEF PushJob, TypeOK, coordinator
    <2>2. QED
      BY <2>1, SlotsKept
  <1>2. CASE c = d
    <2>1. /\ pushes' = pushes /\ chan'[c] = "open"
          /\ active'[c] = active[c] \cup {k}
          /\ inflight'[c] = inflight[c] + 1
          /\ bus'[c] = bus[c] \ {Msg("job", k)}
          /\ Msg("job", k) \in bus[c]
      BY <1>2 DEF PushJob, TypeOK, coordinator
    <2>2. \A l \in Lease : /\ l # k => (Msg("job", l) \in bus'[c] <=> Msg("job", l) \in bus[c])
                           /\ Msg("job", k) \notin bus'[c]
      BY <2>1, MsgDiffer
    <2>3. Repeated(c)' = IF pushes[k] = 2 THEN Repeated(c) \cup {k} ELSE Repeated(c)
      BY <2>1, <2>2 DEF Repeated
    <2>4. k \notin Repeated(c)
      BY <2>1 DEF Repeated
    <2>5. Cardinality(Repeated(c)') =
            IF pushes[k] = 2 THEN Cardinality(Repeated(c)) + 1 ELSE Cardinality(Repeated(c))
      <3>1. IsFiniteSet(Repeated(c))
        BY Counts
      <3>2. CASE pushes[k] = 2
        <4>1. Cardinality(Repeated(c) \cup {k}) = Cardinality(Repeated(c)) + 1
          BY <2>4, <3>1, FS_AddElement
        <4>2. QED
          BY <2>3, <3>2, <4>1
      <3>3. CASE pushes[k] # 2
        BY <2>3, <3>3
      <3>4. QED
        BY <3>2, <3>3
    <2>6. /\ pushes[k] # 0
          /\ k \in active[c] => pushes[k] = 2
      BY <2>1 DEF Slots
    <2>7. Cardinality(active'[c]) =
            IF k \in active[c] THEN Cardinality(active[c]) ELSE Cardinality(active[c]) + 1
      BY <2>1, Counts
    <2>8. /\ inflight[c] \in Nat /\ Cardinality(active[c]) \in Nat
          /\ Cardinality(Repeated(c)) \in Nat
          /\ inflight[c] >= Cardinality(active[c])
          /\ inflight[c] <= Cardinality(active[c]) + Cardinality(Repeated(c))
      BY Counts DEF Slots
    <2>9. /\ inflight'[c] >= Cardinality(active'[c])
          /\ inflight'[c] <= Cardinality(active'[c]) + Cardinality(Repeated(c)')
      BY <2>1, <2>5, <2>6, <2>7, <2>8
    <2>10. QED
      BY <2>1, <2>2, <2>6, <2>9 DEF Slots
  <1>3. QED
    BY <1>1, <1>2

LEMMA SlotsStep ==
  ASSUME TypeOK, TypeOK', [Next]_vars, NEW c \in Conn, Slots(c)
  PROVE  Slots(c)'
  <1> USE DEF vars, coordinator, channel, client
  <1>1. CASE UNCHANGED <<pushes, channel>>
    BY <1>1, SlotsKept
  <1>2. ASSUME NEW l \in Lease, BroadcastJob(l) PROVE Slots(c)'
    BY <1>2, SlotsBroadcast
  <1>3. ASSUME NEW l \in Lease, BroadcastCancel(l) PROVE Slots(c)'
    <2>1. bus'[c] = IF chan[c] = "open" THEN bus[c] \cup {Msg("cancel", l)} ELSE bus[c]
      BY <1>3 DEF BroadcastCancel, Deliver
    <2>2. \A k \in Lease : Msg("job", k) \in bus'[c] <=> Msg("job", k) \in bus[c]
      BY <2>1, MsgDiffer
    <2>3. QED
      BY <1>3, <2>1, <2>2, SlotsKept DEF BroadcastCancel
  <1>4. ASSUME NEW d \in Conn, NEW l \in Lease, PushJob(d, l) PROVE Slots(c)'
    BY <1>4, SlotsPush
  <1>5. ASSUME NEW d \in Conn, NEW l \in Lease, PushCancel(d, l) PROVE Slots(c)'
    <2>1. /\ pushes' = pushes /\ chan' = chan /\ chan[d] = "open"
          /\ bus'[c] = IF c = d THEN bus[c] \ {Msg("cancel", l)} ELSE bus[c]
      BY <1>5 DEF PushCancel, TypeOK
    <2>2. \A k \in Lease : Msg("job", k) \in bus'[c] <=> Msg("job", k) \in bus[c]
      BY <2>1, MsgDiffer
    <2>3. UNCHANGED <<active, inflight>> \/ FinishLease(d, l)
      BY <1>5 DEF PushCancel
    <2>4. CASE UNCHANGED <<active, inflight>>
      <3>1. c = d => chan'[c] = "open"
        BY <2>1
      <3>2. QED
        BY <2>1, <2>2, <2>4, <3>1, SlotsKept
    <2>5. CASE FinishLease(d, l)
      BY <2>1, <2>2, <2>5, SlotsFreed
    <2>6. QED
      BY <2>3, <2>4, <2>5
  <1>6. ASSUME NEW d \in Conn, TakeReport(d) PROVE Slots(c)'
    <2>1. Head(up[d]).lease \in Lease
      BY <1>6, Rest, MsgTypes DEF TakeReport, TypeOK
    <2>2. FinishLease(d, Head(up[d]).lease)
      BY <1>6 DEF TakeReport
    <2>3. pushes' = pushes /\ chan' = chan /\ chan[d] = "open" /\ bus' = bus
      BY <1>6 DEF TakeReport
    <2>4. QED
      BY <2>1, <2>2, <2>3, SlotsFreed
  <1>7. ASSUME NEW d \in Conn, Close(d) PROVE Slots(c)'
    <2>1. CASE c = d
      <3>1. active'[c] = {} /\ inflight'[c] = 0 /\ bus'[c] = {}
        BY <1>7, <2>1 DEF Close, TypeOK
      <3>2. (TypeOK /\ active[c] = {} /\ inflight[c] = 0 /\ bus[c] = {} => Slots(c))'
        BY SlotsEmpty, PTL
      <3>3. QED
        BY <3>1, <3>2
    <2>2. CASE c # d
      <3>1. /\ pushes' = pushes /\ chan'[c] = chan[c] /\ bus'[c] = bus[c]
            /\ active'[c] = active[c] /\ inflight'[c] = inflight[c]
        BY <1>7, <2>2 DEF Close, TypeOK
      <3>2. QED
        BY <3>1, SlotsKept
    <2>3. QED
      BY <2>1, <2>2
  <1>8. ASSUME NEW d \in Conn, Connect(d) PROVE Slots(c)'
    <2>1. /\ pushes' = pushes /\ bus' = bus /\ active' = active /\ inflight' = inflight
          /\ chan'[c] = "open" \/ chan'[c] = chan[c]
      BY <1>8 DEF Connect, TypeOK
    <2>2. QED
      BY <2>1, SlotsKept
  <1>9. QED
    BY <1>1, <1>2, <1>3, <1>4, <1>5, <1>6, <1>7, <1>8
    DEF Next, ChannelStep, ReaderStep, Revoke, Acquire, Answer, Drop,
        ReceiveJob, SkipJob, ReceiveCancel, Disconnect

----------------------------------------------------------------------------
(* No lease is forgotten *)

LEMMA AppendKeeps ==
  ASSUME NEW S, NEW s \in Seq(S), NEW m \in S
  PROVE  /\ Len(s) + 1 \in DOMAIN Append(s, m) /\ Append(s, m)[Len(s) + 1] = m
         /\ \A i \in DOMAIN s : /\ i \in DOMAIN Append(s, m) /\ i < Len(s) + 1
                              /\ Append(s, m)[i] = s[i]
         /\ \A i \in DOMAIN Append(s, m) : i = Len(s) + 1 \/ i \in DOMAIN s
  BY AppendProperties

LEMMA TailKeeps ==
  ASSUME NEW S, NEW s \in Seq(S), s # <<>>
  PROVE  /\ 1 \in DOMAIN s /\ s[1] = Head(s)
         /\ \A i \in DOMAIN s : i \in Nat /\ (i = 1 \/ (/\ i - 1 \in DOMAIN Tail(s)
                                                   /\ Tail(s)[i - 1] = s[i]))
         /\ \A i \in DOMAIN Tail(s) : i \in Nat /\ i + 1 \in DOMAIN s /\ Tail(s)[i] = s[i + 1]
  BY HeadTailProperties

\* What the lease's witnesses need of a step that leaves its task alone.
LEMMA StaysAccounted ==
  ASSUME NEW c \in Conn, NEW l \in Lease, Accounted(c, l),
         chan'[c] = chan[c] \/ chan'[c] # "open", link' = link \/ link' # c,
         l \in active'[c] => l \in active[c],
         task[l] # "none" => task'[l] # "none",
         ToRead(c, l) => ToRead(c, l)', Reported(c, l) => Reported(c, l)'
  PROVE  Accounted(c, l)'
  BY DEF Accounted

LEMMA StaysPushed ==
  ASSUME NEW c \in Conn, NEW l \in Lease, PushedAgain(c, l),
         link' = link \/ link' # c, l \in active'[c] => l \in active[c],
         down'[c] = down[c]
  PROVE  PushedAgain(c, l)'
  BY DEF PushedAgain

LEMMA SendKeeps ==
  ASSUME TypeOK, NEW c \in Conn, NEW d \in Conn, NEW m \in Report, Send(d, m), NEW l \in Lease
  PROVE  /\ Reported(c, l) => Reported(c, l)'
         /\ c = d /\ chan[c] = "open" /\ m.lease = l => Reported(c, l)'
  <1>1. CASE c = d /\ chan[c] = "open"
    <2>1. up'[c] = Append(up[c], m) /\ up[c] \in Seq(Report)
      BY <1>1 DEF Send, TypeOK
    <2>2. QED
      BY <1>1, <2>1, AppendKeeps DEF Reported
  <1>2. CASE ~(c = d /\ chan[c] = "open")
    <2>1. up'[c] = up[c]
      BY <1>2 DEF Send, TypeOK
    <2>2. QED
      BY <1>2, <2>1 DEF Reported
  <1>3. QED
    BY <1>1, <1>2

LEMMA PushKeeps ==
  ASSUME TypeOK, NEW c \in Conn, NEW d \in Conn, NEW m \in Broadcast, Push(d, m), NEW l \in Lease
  PROVE  /\ ToRead(c, l) => ToRead(c, l)'
         /\ c = d /\ link = c /\ m = Msg("job", l) => ToRead(c, l)'
         /\ c # d \/ link # c => down'[c] = down[c]
  <1>1. CASE c = d /\ link = c
    <2>1. down'[c] = Append(down[c], m) /\ down[c] \in Seq(Broadcast)
      BY <1>1 DEF Push, TypeOK
    <2>2. QED
      BY <1>1, <2>1, AppendKeeps DEF ToRead
  <1>2. CASE ~(c = d /\ link = c)
    <2>1. down'[c] = down[c]
      BY <1>2 DEF Push, TypeOK
    <2>2. QED
      BY <1>2, <2>1 DEF ToRead
  <1>3. QED
    BY <1>1, <1>2

\* The order of a cancel and the next push survives what is appended and read.
LEMMA PushOrder ==
  ASSUME TypeOK, NEW c \in Conn, NEW d \in Conn, NEW k \in Lease, NEW l \in Lease,
         PushedAgain(c, l), link' = link,
         \/ Push(d, Msg("job", k)) /\ (l \in active'[c] => l \in active[c] \/ (c = d /\ l = k))
         \/ /\ Push(d, Msg("cancel", k)) /\ (l \in active'[c] => l \in active[c])
            /\ c = d /\ c \notin Acks => k \notin active'[c]
  PROVE  PushedAgain(c, l)'
  <1> DEFINE n == Len(down[c]) + 1
  <1>1. CASE link = c /\ c = d /\ Push(d, Msg("job", k))
             /\ (l \in active'[c] => l \in active[c] \/ l = k)
    <2>1. down'[c] = Append(down[c], Msg("job", k)) /\ down[c] \in Seq(Broadcast)
      BY <1>1 DEF Push, TypeOK
    <2>2. /\ n \in DOMAIN down'[c] /\ down'[c][n] = Msg("job", k)
          /\ \A i \in DOMAIN down[c] : i \in DOMAIN down'[c] /\ i < n /\ down'[c][i] = down[c][i]
          /\ \A i \in DOMAIN down'[c] : i = n \/ i \in DOMAIN down[c]
      BY <2>1, MsgTypes, AppendKeeps
    <2>3. SUFFICES ASSUME l \in active'[c], c \notin Acks, NEW i \in DOMAIN down'[c],
                          down'[c][i] = Msg("cancel", l)
                   PROVE  \E j \in DOMAIN down'[c] : j > i /\ down'[c][j] = Msg("job", l)
      BY DEF PushedAgain
    <2>4. i \in DOMAIN down[c] /\ down[c][i] = Msg("cancel", l) /\ i < n
      BY <2>2, <2>3, MsgDiffer
    <2>5. CASE l = k
      BY <2>2, <2>4, <2>5
    <2>6. CASE l \in active[c]
      <3>1. PICK j \in DOMAIN down[c] : j > i /\ down[c][j] = Msg("job", l)
        BY <1>1, <2>3, <2>4, <2>6 DEF PushedAgain
      <3>2. QED
        BY <2>2, <3>1
    <2>7. QED
      BY <1>1, <2>3, <2>5, <2>6
  <1>2. CASE link = c /\ c = d /\ Push(d, Msg("cancel", k))
             /\ (l \in active'[c] => l \in active[c]) /\ (c \notin Acks => k \notin active'[c])
    <2>1. down'[c] = Append(down[c], Msg("cancel", k)) /\ down[c] \in Seq(Broadcast)
      BY <1>2 DEF Push, TypeOK
    <2>2. /\ n \in DOMAIN down'[c] /\ down'[c][n] = Msg("cancel", k)
          /\ \A i \in DOMAIN down[c] : i \in DOMAIN down'[c] /\ i < n /\ down'[c][i] = down[c][i]
          /\ \A i \in DOMAIN down'[c] : i = n \/ i \in DOMAIN down[c]
      BY <2>1, MsgTypes, AppendKeeps
    <2>3. SUFFICES ASSUME l \in active'[c], c \notin Acks, NEW i \in DOMAIN down'[c],
                          down'[c][i] = Msg("cancel", l)
                   PROVE  \E j \in DOMAIN down'[c] : j > i /\ down'[c][j] = Msg("job", l)
      BY DEF PushedAgain
    <2>4. l # k
      BY <1>2, <2>3
    <2>5. i \in DOMAIN down[c] /\ down[c][i] = Msg("cancel", l)
      BY <2>2, <2>3, <2>4, MsgDiffer
    <2>6. PICK j \in DOMAIN down[c] : j > i /\ down[c][j] = Msg("job", l)
      BY <1>2, <2>3, <2>5 DEF PushedAgain
    <2>7. QED
      BY <2>2, <2>6
  <1>3. CASE ~(link = c /\ c = d)
    <2>1. PICK m \in Broadcast : Push(d, m)
      BY MsgTypes
    <2>2. link # c \/ down'[c] = down[c]
      BY <1>3, <2>1, PushKeeps
    <2>3. link = c => (l \in active'[c] => l \in active[c])
      BY <1>3
    <2>4. QED
      BY <2>2, <2>3 DEF PushedAgain
  <1>4. QED
    BY <1>1, <1>2, <1>3

LEMMA ReadOrder ==
  ASSUME TypeOK, NEW c \in Conn, NEW l \in Lease, PushedAgain(c, l), down[c] # <<>>,
         link' = link, active' = active, down'[c] = Tail(down[c])
  PROVE  PushedAgain(c, l)'
  <1>1. down[c] \in Seq(Broadcast)
    BY DEF TypeOK
  <1>2. SUFFICES ASSUME link = c, l \in active[c], c \notin Acks,
                        NEW i \in DOMAIN Tail(down[c]), Tail(down[c])[i] = Msg("cancel", l)
                 PROVE  \E j \in DOMAIN Tail(down[c]) : j > i /\ Tail(down[c])[j] = Msg("job", l)
    BY DEF PushedAgain
  <1>3. i \in Nat /\ i + 1 \in DOMAIN down[c] /\ down[c][i + 1] = Msg("cancel", l)
    BY <1>1, <1>2, TailKeeps
  <1>4. PICK j \in DOMAIN down[c] : j > i + 1 /\ down[c][j] = Msg("job", l)
    BY <1>2, <1>3 DEF PushedAgain
  <1>5. j \in Nat /\ j - 1 \in DOMAIN Tail(down[c]) /\ Tail(down[c])[j - 1] = down[c][j]
    BY <1>1, <1>3, <1>4, TailKeeps
  <1>6. QED
    BY <1>3, <1>4, <1>5

\* Reading a frame loses no witness but the frame itself.
LEMMA ReadKeeps ==
  ASSUME TypeOK, NEW c \in Conn, NEW l \in Lease, down[c] # <<>>,
         down'[c] = Tail(down[c]), Head(down[c]) # Msg("job", l)
  PROVE  ToRead(c, l) => ToRead(c, l)'
  <1>1. down[c] \in Seq(Broadcast)
    BY DEF TypeOK
  <1>2. SUFFICES ASSUME NEW i \in DOMAIN down[c], down[c][i] = Msg("job", l)
                 PROVE  \E j \in DOMAIN Tail(down[c]) : Tail(down[c])[j] = Msg("job", l)
    BY DEF ToRead
  <1>3. i # 1
    BY <1>1, <1>2, TailKeeps
  <1>4. i - 1 \in DOMAIN Tail(down[c]) /\ Tail(down[c])[i - 1] = Msg("job", l)
    BY <1>1, <1>2, <1>3, TailKeeps
  <1>5. QED
    BY <1>4

LEMMA FinishShrinks ==
  ASSUME TypeOK, NEW c \in Conn, NEW d \in Conn, NEW k \in Lease, FinishLease(d, k)
  PROVE  /\ active'[c] \subseteq active[c]
         /\ c = d => k \notin active'[c]
  BY DEF FinishLease, TypeOK

LEMMA AccountedStep ==
  ASSUME TypeOK, [Next]_vars, NEW c \in Conn, NEW l \in Lease,
         Slots(c), Accounted(c, l), PushedAgain(c, l)
  PROVE  Accounted(c, l)' /\ PushedAgain(c, l)'
  <1> USE DEF vars, coordinator, channel, client
  <1>1. CASE UNCHANGED <<chan, active, link, task, down, up>>
    BY <1>1 DEF Accounted, PushedAgain, ToRead, Reported
  <1>2. ASSUME NEW k \in Lease, Acquire(k) PROVE Accounted(c, l)' /\ PushedAgain(c, l)'
    <2>1. /\ UNCHANGED <<chan, active, link, down, up>>
          /\ task[l] # "none" => task'[l] # "none"
      BY <1>2 DEF Acquire, TypeOK
    <2>2. QED
      BY <2>1 DEF Accounted, PushedAgain, ToRead, Reported
  <1>3. ASSUME NEW k \in Lease, Answer(k) PROVE Accounted(c, l)' /\ PushedAgain(c, l)'
    <2>1. /\ UNCHANGED <<chan, active, link, down>> /\ link \in Conn
          /\ k # l => task'[l] = task[l]
          /\ Send(link, Msg("answer", k)) /\ Msg("answer", k) \in Report
          /\ Msg("answer", k).lease = k
      BY <1>3, MsgTypes DEF Answer, TypeOK, Msg
    <2>2. /\ Reported(c, l) => Reported(c, l)'
          /\ c = link /\ chan[c] = "open" /\ k = l => Reported(c, l)'
      BY <2>1, SendKeeps
    <2>3. QED
      BY <2>1, <2>2 DEF Accounted, PushedAgain, ToRead
  <1>4. ASSUME NEW k \in Lease, Drop(k) PROVE Accounted(c, l)' /\ PushedAgain(c, l)'
    <2>1. /\ UNCHANGED <<chan, active, link, task, down>> /\ link \in Conn
          /\ Send(link, Msg("answer", k)) \/ UNCHANGED up
          /\ Msg("answer", k) \in Report
      BY <1>4, MsgTypes DEF Drop, TypeOK
    <2>2. Reported(c, l) => Reported(c, l)'
      <3>1. CASE Send(link, Msg("answer", k))
        BY <2>1, <3>1, SendKeeps
      <3>2. CASE UNCHANGED up
        BY <3>2 DEF Reported
      <3>3. QED
        BY <2>1, <3>1, <3>2
    <2>3. QED
      BY <2>1, <2>2 DEF Accounted, PushedAgain, ToRead
  <1>5. ASSUME NEW d \in Conn, NEW k \in Lease, PushJob(d, k)
        PROVE  Accounted(c, l)' /\ PushedAgain(c, l)'
    <2>1. /\ UNCHANGED <<chan, link, task, up>>
          /\ Push(d, Msg("job", k)) /\ Msg("job", k) \in Broadcast
          /\ l \in active'[c] => l \in active[c] \/ (c = d /\ l = k)
      BY <1>5, MsgTypes DEF PushJob, TypeOK
    <2>2. PushedAgain(c, l)'
      BY <2>1, PushOrder
    <2>3. /\ ToRead(c, l) => ToRead(c, l)'
          /\ c = d /\ link = c /\ k = l => ToRead(c, l)'
      BY <2>1, PushKeeps
    <2>4. QED
      BY <2>1, <2>2, <2>3 DEF Accounted, Reported
  <1>6. ASSUME NEW d \in Conn, NEW k \in Lease, PushCancel(d, k)
        PROVE  Accounted(c, l)' /\ PushedAgain(c, l)'
    <2>1. /\ UNCHANGED <<chan, link, task, up>>
          /\ Push(d, Msg("cancel", k)) /\ Msg("cancel", k) \in Broadcast
      BY <1>6, MsgTypes DEF PushCancel
    <2>2. /\ l \in active'[c] => l \in active[c]
          /\ c = d /\ c \notin Acks => k \notin active'[c]
      BY <1>6, FinishShrinks DEF PushCancel
    <2>3. PushedAgain(c, l)'
      BY <2>1, <2>2, PushOrder
    <2>4. ToRead(c, l) => ToRead(c, l)'
      BY <2>1, PushKeeps
    <2>5. QED
      BY <2>1, <2>2, <2>3, <2>4 DEF Accounted, Reported
  <1>7. ASSUME NEW d \in Conn, TakeReport(d) PROVE Accounted(c, l)' /\ PushedAgain(c, l)'
    <2>1. /\ UNCHANGED <<chan, link, task, down>> /\ up[d] # <<>>
          /\ up'[c] = IF c = d THEN Tail(up[c]) ELSE up[c]
          /\ up[c] \in Seq(Report) /\ Head(up[d]).lease \in Lease
      BY <1>7, Rest, MsgTypes DEF TakeReport, TypeOK
    <2>2. /\ l \in active'[c] => l \in active[c]
          /\ l \in active'[c] /\ c = d => Head(up[c]).lease # l
      BY <1>7, <2>1, FinishShrinks DEF TakeReport
    <2>3. l \in active'[c] /\ Reported(c, l) => Reported(c, l)'
      <3>1. CASE c = d
        <4>1. SUFFICES ASSUME l \in active'[c], NEW i \in DOMAIN up[c], up[c][i].lease = l
                       PROVE  \E j \in DOMAIN Tail(up[c]) : Tail(up[c])[j].lease = l
          BY <2>1, <3>1 DEF Reported
        <4>2. i # 1
          BY <2>1, <2>2, <3>1, <4>1, TailKeeps
        <4>3. i - 1 \in DOMAIN Tail(up[c]) /\ Tail(up[c])[i - 1].lease = l
          BY <2>1, <3>1, <4>1, <4>2, TailKeeps
        <4>4. QED
          BY <4>3
      <3>2. CASE c # d
        BY <2>1, <3>2 DEF Reported
      <3>3. QED
        BY <3>1, <3>2
    <2>4. QED
      BY <2>1, <2>2, <2>3 DEF Accounted, PushedAgain, ToRead
  <1>8. ASSUME NEW d \in Conn, Close(d) PROVE Accounted(c, l)' /\ PushedAgain(c, l)'
    <2>1. CASE c = d
      <3>1. active'[c] = {}
        BY <1>8, <2>1 DEF Close, TypeOK
      <3>2. QED
        BY <3>1 DEF Accounted, PushedAgain
    <2>2. CASE c # d
      <3>1. /\ chan'[c] = chan[c] /\ active'[c] = active[c] /\ down'[c] = down[c]
            /\ up'[c] = up[c] /\ link' = link /\ task' = task
        BY <1>8, <2>2 DEF Close, TypeOK
      <3>2. QED
        BY <3>1 DEF Accounted, PushedAgain, ToRead, Reported
    <2>3. QED
      BY <2>1, <2>2
  <1>9. ASSUME NEW d \in Conn, Connect(d) PROVE Accounted(c, l)' /\ PushedAgain(c, l)'
    <2>1. /\ active' = active /\ link' = d
          /\ c = d => active[c] = {}
      BY <1>9 DEF Connect, Slots
    <2>2. QED
      BY <2>1 DEF Accounted, PushedAgain
  <1>10. ASSUME NEW d \in Conn, ReceiveJob(d) PROVE Accounted(c, l)' /\ PushedAgain(c, l)'
    <2> DEFINE k == Head(down[d]).lease
    <2>1. /\ UNCHANGED <<chan, active, link, up>> /\ link = d /\ down[d] # <<>>
          /\ down'[c] = IF c = d THEN Tail(down[c]) ELSE down[c]
          /\ k \in Lease /\ task' = [task EXCEPT ![k] = "waiting"]
      BY <1>10, Rest, MsgTypes DEF ReceiveJob, TypeOK
    <2>2. PushedAgain(c, l)'
      <3>1. CASE c = d
        BY <2>1, <3>1, ReadOrder
      <3>2. CASE c # d
        BY <2>1, <3>2 DEF PushedAgain
      <3>3. QED
        BY <3>1, <3>2
    <2>3. Accounted(c, l)'
      <3>1. CASE c # d
        BY <2>1, <3>1 DEF Accounted
      <3>2. CASE c = d /\ l = k
        BY <2>1, <3>2 DEF Accounted, TypeOK
      <3>3. CASE c = d /\ l # k
        <4>1. Head(down[c]) # Msg("job", l)
          BY <3>3 DEF Msg
        <4>2. task'[l] = task[l]
          BY <2>1, <3>3 DEF TypeOK
        <4>3. ToRead(c, l) => ToRead(c, l)'
          BY <2>1, <3>3, <4>1, ReadKeeps
        <4>4. QED
          BY <2>1, <4>2, <4>3 DEF Accounted, Reported
      <3>4. QED
        BY <3>1, <3>2, <3>3
    <2>4. QED
      BY <2>2, <2>3
  <1>11. ASSUME NEW d \in Conn, ReceiveCancel(d) PROVE Accounted(c, l)' /\ PushedAgain(c, l)'
    <2> DEFINE k == Head(down[d]).lease
    <2>1. /\ UNCHANGED <<chan, active, link>> /\ link = d /\ down[d] # <<>>
          /\ down'[c] = IF c = d THEN Tail(down[c]) ELSE down[c]
          /\ k \in Lease /\ task' = [task EXCEPT ![k] = "none"]
          /\ IF d \in Acks THEN Send(d, Msg("cancelled", k)) ELSE UNCHANGED up
          /\ Head(down[d]).kind = "cancel" /\ Head(down[d]) \in Broadcast
          /\ down[c] \in Seq(Broadcast)
      BY <1>11, Rest, MsgTypes DEF ReceiveCancel, TypeOK
    <2>2. PushedAgain(c, l)'
      <3>1. CASE c = d
        BY <2>1, <3>1, ReadOrder
      <3>2. CASE c # d
        BY <2>1, <3>2 DEF PushedAgain
      <3>3. QED
        BY <3>1, <3>2
    <2>3. Msg("cancelled", k) \in Report /\ Msg("cancelled", k).lease = k
      BY <2>1, MsgTypes DEF Msg
    <2>4. /\ Reported(c, l) => Reported(c, l)'
          /\ c = d /\ d \in Acks /\ chan[c] = "open" /\ k = l => Reported(c, l)'
      <3>1. CASE d \in Acks
        BY <2>1, <2>3, <3>1, SendKeeps
      <3>2. CASE d \notin Acks
        BY <2>1, <3>2 DEF Reported
      <3>3. QED
        BY <3>1, <3>2
    <2>5. Head(down[d]) = Msg("cancel", k)
      BY <2>1 DEF Broadcast, Msg
    <2>6. ToRead(c, l) => ToRead(c, l)'
      <3>1. CASE c = d
        BY <2>1, <2>5, <3>1, MsgDiffer, ReadKeeps
      <3>2. CASE c # d
        BY <2>1, <3>2 DEF ToRead
      <3>3. QED
        BY <3>1, <3>2
    <2>7. c = d /\ d \notin Acks /\ k = l /\ l \in active[c] => ToRead(c, l)
      <3>1. SUFFICES ASSUME c = d, d \notin Acks, k = l, l \in active[c]
                     PROVE  ToRead(c, l)
        OBVIOUS
      <3>2. 1 \in DOMAIN down[c] /\ down[c][1] = Msg("cancel", l)
        BY <2>1, <2>5, <3>1, TailKeeps
      <3>3. QED
        BY <2>1, <3>1, <3>2 DEF PushedAgain, ToRead
    <2>8. l # k => task'[l] = task[l]
      BY <2>1 DEF TypeOK
    <2>9. Accounted(c, l)'
      BY <2>1, <2>4, <2>6, <2>7, <2>8 DEF Accounted
    <2>10. QED
      BY <2>2, <2>9
  <1>14. ASSUME NEW d \in Conn, SkipJob(d) PROVE Accounted(c, l)' /\ PushedAgain(c, l)'
    <2> DEFINE k == Head(down[d]).lease
    <2>1. /\ UNCHANGED <<chan, active, link, task, up>> /\ link = d /\ down[d] # <<>>
          /\ down'[c] = IF c = d THEN Tail(down[c]) ELSE down[c]
          /\ k \in Undecodable
      BY <1>14 DEF SkipJob, TypeOK
    <2>2. CASE c # d
      BY <2>1, <2>2 DEF Accounted, PushedAgain
    <2>3. CASE c = d
      <3>1. PushedAgain(c, l)'
        BY <2>1, <2>3, ReadOrder
      <3>2. l \notin Undecodable /\ ToRead(c, l) => ToRead(c, l)'
        <4>1. l \notin Undecodable => Head(down[c]) # Msg("job", l)
          BY <2>1, <2>3 DEF Msg
        <4>2. QED
          BY <2>1, <2>3, <4>1, ReadKeeps
      <3>3. Accounted(c, l)'
        BY <2>1, <3>2 DEF Accounted, Reported
      <3>4. QED
        BY <3>1, <3>3
    <2>4. QED
      BY <2>2, <2>3
  <1>12. CASE Disconnect
    <2>1. link' = NoConn /\ NoConn # c
      BY <1>12, WorkerLinkAssumption DEF Disconnect
    <2>2. QED
      BY <2>1 DEF Accounted, PushedAgain
  <1>13. QED
    BY <1>1, <1>2, <1>3, <1>4, <1>5, <1>6, <1>7, <1>8, <1>9, <1>10, <1>11, <1>12,
       <1>14
    DEF Next, ChannelStep, ReaderStep, BroadcastJob, Revoke, BroadcastCancel

----------------------------------------------------------------------------
(* The theorems *)

LEMMA InitIInv == Init => IInv
  <1> SUFFICES ASSUME Init PROVE IInv
    OBVIOUS
  <1>1. TypeOK
    <2>1. <<>> \in Seq(Broadcast) /\ <<>> \in Seq(Report)
      OBVIOUS
    <2>2. QED
      BY <2>1 DEF Init, TypeOK
  <1>2. \A c \in Conn : active[c] = {} /\ inflight[c] = 0 /\ bus[c] = {} /\ chan[c] = "off"
    BY DEF Init
  <1>3. \A c \in Conn : Slots(c)
    BY <1>1, <1>2, SlotsEmpty
  <1>4. \A c \in Conn, l \in Lease : Accounted(c, l) /\ PushedAgain(c, l)
    BY <1>2 DEF Accounted, PushedAgain
  <1>5. QED
    BY <1>1, <1>3, <1>4 DEF IInv

LEMMA NextIInv == IInv /\ [Next]_vars => IInv'
  <1> SUFFICES ASSUME IInv, [Next]_vars PROVE IInv'
    OBVIOUS
  <1>1. TypeOK'
    BY TypeStep DEF IInv
  <1>2. \A c \in Conn : Slots(c)'
    BY <1>1, SlotsStep DEF IInv
  <1>3. \A c \in Conn, l \in Lease : Accounted(c, l)' /\ PushedAgain(c, l)'
    BY AccountedStep DEF IInv
  <1>4. QED
    BY <1>1, <1>2, <1>3 DEF IInv

THEOREM Invariance == Spec => []IInv
  BY InitIInv, NextIInv, PTL DEF Spec

\* A worker's slot count covers its active leases whatever is duplicated, late
\* or unknown (handle_out("job"), finish_lease/4).
THEOREM SlotsCoverLeases == Spec => []InflightCovers
  <1>1. IInv => InflightCovers
    BY DEF IInv, Slots, InflightCovers
  <1>2. QED
    BY <1>1, Invariance, PTL

\* A slot is lost only to a generation that was pushed twice, and then one.
THEOREM SlotsDriftByRepeats == Spec => []InflightDrift
  <1>1. ASSUME IInv, NEW c \in Conn
        PROVE  inflight[c] <= Cardinality(active[c]) + Cardinality({l \in Lease : pushes[l] = 2})
    <2> DEFINE Twos == {l \in Lease : pushes[l] = 2}
    <2>1. IsFiniteSet(Twos) /\ Cardinality(Twos) \in Nat
      BY FS_Subset, FS_CardinalityType, WorkerLinkAssumption
    <2>2. Repeated(c) \in SUBSET Twos
      BY DEF Repeated
    <2>3. Cardinality(Repeated(c)) <= Cardinality(Twos)
      BY <2>1, <2>2, FS_Subset
    <2>4. inflight[c] <= Cardinality(active[c]) + Cardinality(Repeated(c))
      BY <1>1 DEF IInv, Slots
    <2>5. TypeOK
      BY <1>1 DEF IInv
    <2>6. QED
      BY <2>1, <2>3, <2>4, <2>5, Counts
  <1>2. IInv => InflightDrift
    BY <1>1 DEF InflightDrift
  <1>3. QED
    BY <1>2, Invariance, PTL

\* No lease of a job the worker can decode is forgotten on a live connection,
\* with builds that acknowledge cancels and with builds that do not.
THEOREM LeasesAccountedFor == Spec => []LeaseAccountedFor
  <1>1. ASSUME IInv, NEW c \in Conn, chan[c] = "open", link = c,
               NEW l \in active[c] \ Undecodable
        PROVE  task[l] # "none" \/ ToRead(c, l) \/ Reported(c, l)
    <2>1. l \in Lease
      BY <1>1 DEF IInv, TypeOK
    <2>2. QED
      BY <1>1, <2>1 DEF IInv, Accounted
  <1>2. IInv => LeaseAccountedFor
    BY <1>1 DEF LeaseAccountedFor, InHand, ToRead, Reported
  <1>3. QED
    BY <1>2, Invariance, PTL

\* Every variable of the link keeps its type; inflight, in particular, never
\* goes negative.
THEOREM LinkTypeCorrect == Spec => []TypeOK
  <1>1. IInv => TypeOK
    BY DEF IInv
  <1>2. QED
    BY <1>1, Invariance, PTL
=============================================================================
