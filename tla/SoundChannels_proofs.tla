------------------------ MODULE SoundChannels_proofs ------------------------
(***************************************************************************)
(* For every number of samples and of playbacks below GenerationMod: what   *)
(* the runs of SoundChannels check of the pool, and that it implements      *)
(* ChannelSpec.                                                             *)
(***************************************************************************)
EXTENDS SoundChannels, SequenceTheorems, TLAPS

\* A handle's slot exists and has not gone back to an earlier generation; the
\* handle that has the slot's generation is the one of the voice in it.
HandlesIssued ==
    \A p \in 1..plays :
        /\ issued[p].index \in Index
        /\ issued[p].generation <= pool[issued[p].index].generation
        /\ issued[p].generation = pool[issued[p].index].generation
             => pool[issued[p].index].occupied /\ pool[issued[p].index].voice = p

SlotsHold ==
    \A i \in Index : pool[i].occupied =>
        /\ pool[i].voice \in live
        /\ issued[pool[i].voice] = [index |-> i, generation |-> pool[i].generation]

VoicesFound == \A v \in live : Found(issued[v])

FreeListExact ==
    /\ \A k \in 1..Len(free_list) :
          free_list[k] \in Index /\ ~pool[free_list[k]].occupied
    /\ \A j, k \in 1..Len(free_list) : free_list[j] = free_list[k] => j = k

\* No slot has been through more generations than there were playbacks.
GenerationsBounded ==
    \A i \in Index :
        /\ pool[i].generation <= plays
        /\ pool[i].occupied => pool[i].generation < plays

PoolInv == HandlesIssued /\ SlotsHold /\ VoicesFound /\ FreeListExact /\ GenerationsBounded

\* flush_all has emptied the slots behind it.
FlushInv ==
    /\ pc = "flush" => (teardown /\ \A i \in Index : i < cursor => ~pool[i].occupied)
    /\ NothingLeftAtExit

IInv == TypeOK /\ PoolInv /\ FlushInv

PoolTypes ==
    /\ pool \in Seq(Slot) /\ free_list \in Seq(Nat) /\ issued \in Seq(Handle)
    /\ plays \in 0..MaxPlays /\ live \subseteq 1..plays
-----------------------------------------------------------------------------
LEMMA PoolUnchanged == ASSUME PoolTypes, PoolInv, UNCHANGED slots PROVE PoolTypes' /\ PoolInv'
BY DEF PoolTypes, PoolInv, slots, HandlesIssued, SlotsHold, VoicesFound, FreeListExact,
       GenerationsBounded, plays, Index, Found

\* What PlaySound adds to the handles.
LEMMA IssuedGrows ==
    ASSUME PoolTypes, NEW h \in Handle, issued' = Append(issued, h)
    PROVE  /\ issued' \in Seq(Handle) /\ plays' = plays + 1
           /\ plays \in Nat /\ issued'[plays + 1] = h
           /\ \A p \in 1..plays : issued'[p] = issued[p]
<1>1. issued \in Seq(Handle) /\ plays \in Nat
  BY PlaysAssumption DEF PoolTypes
<1>2. issued' \in Seq(Handle) /\ Len(issued') = Len(issued) + 1
  BY <1>1
<1> QED
  BY <1>1, <1>2 DEF plays

\* What changes when the slot i gets the content s.
LEMMA SlotReplaced ==
    ASSUME PoolTypes, NEW i \in Index, NEW s \in Slot, pool' = [pool EXCEPT ![i] = s]
    PROVE  /\ pool' \in Seq(Slot) /\ Len(pool') = Len(pool) /\ pool'[i] = s
           /\ \A j \in Index : j # i => pool'[j] = pool[j]
BY DEF PoolTypes, Index

LEMMA SlotTypes ==
    ASSUME PoolTypes
    PROVE  /\ Len(pool) \in Nat
           /\ \A i \in Index : i \in Nat /\ pool[i] \in Slot /\ pool[i].generation \in Nat
                               /\ pool[i].occupied \in BOOLEAN
<1>1. pool \in Seq(Slot) /\ Len(pool) \in Nat
  BY DEF PoolTypes
<1>2. \A i \in Index : pool[i] \in Slot /\ i \in Nat
  BY <1>1 DEF Index
<1> QED
  BY <1>1, <1>2 DEF Slot

LEMMA IssuedTypes ==
    ASSUME PoolTypes
    PROVE  plays \in Nat /\ \A p \in 1..plays : issued[p] \in Handle /\ issued[p].index \in Nat
                                               /\ issued[p].generation \in Nat
<1>1. issued \in Seq(Handle) /\ plays \in Nat
  BY PlaysAssumption DEF PoolTypes
<1>2. \A p \in 1..plays : issued[p] \in Handle
  BY <1>1 DEF plays
<1> QED
  BY <1>1, <1>2 DEF Handle

\* The slot i, a free one or a new one, becomes that of playback plays + 1.
LEMMA SlotFilled ==
    ASSUME PoolTypes, PoolInv, NEW i, NEW g \in 0..plays,
           i \in Index => ~pool[i].occupied /\ g = pool[i].generation,
           Index' = Index \cup {i},
           pool'[i].voice = plays + 1, pool'[i].occupied, pool'[i].generation = g,
           \A j \in Index : j # i => pool'[j] = pool[j],
           plays' = plays + 1,
           issued'[plays + 1].index = i, issued'[plays + 1].generation = g,
           issued'[plays + 1] = [index |-> i, generation |-> g],
           \A p \in 1..plays : issued'[p] = issued[p],
           live' = live \cup {plays + 1}
    PROVE  HandlesIssued' /\ SlotsHold' /\ VoicesFound' /\ GenerationsBounded'
<1>1. /\ plays \in Nat /\ live \subseteq 1..plays /\ plays + 1 \notin live
      /\ \A j \in Index : pool[j].generation \in Nat
      /\ \A p \in 1..plays : issued[p].generation \in Nat
      /\ 1..plays' = (1..plays) \cup {plays + 1}
  BY SlotTypes, IssuedTypes DEF PoolTypes
<1>2. HandlesIssued'
  <2> SUFFICES ASSUME NEW p \in 1..plays'
               PROVE  /\ issued'[p].index \in Index'
                      /\ issued'[p].generation <= pool'[issued'[p].index].generation
                      /\ issued'[p].generation = pool'[issued'[p].index].generation
                           => /\ pool'[issued'[p].index].occupied
                              /\ pool'[issued'[p].index].voice = p
    BY DEF HandlesIssued
  <2>1. CASE p = plays + 1
    BY <2>1
  <2>2. CASE p \in 1..plays
    <3>1. /\ issued'[p] = issued[p] /\ issued[p].index \in Index
          /\ issued[p].generation <= pool[issued[p].index].generation
          /\ issued[p].generation = pool[issued[p].index].generation
               => pool[issued[p].index].occupied /\ pool[issued[p].index].voice = p
      BY <2>2 DEF PoolInv, HandlesIssued
    <3>2. CASE issued[p].index = i
      BY <2>2, <3>1, <3>2, <1>1
    <3>3. CASE issued[p].index # i
      BY <3>1, <3>3
    <3> QED BY <3>2, <3>3
  <2> QED BY <1>1, <2>1, <2>2
<1>3. SlotsHold'
  <2> SUFFICES ASSUME NEW j \in Index', pool'[j].occupied
               PROVE  /\ pool'[j].voice \in live'
                      /\ issued'[pool'[j].voice] = [index |-> j, generation |-> pool'[j].generation]
    BY DEF SlotsHold
  <2>1. CASE j = i
    BY <2>1
  <2>2. CASE j # i
    <3>1. j \in Index /\ pool'[j] = pool[j]
      BY <2>2
    <3>2. /\ pool[j].voice \in live
          /\ issued[pool[j].voice] = [index |-> j, generation |-> pool[j].generation]
      BY <3>1 DEF PoolInv, SlotsHold
    <3>3. pool[j].voice \in live' /\ issued'[pool[j].voice] = issued[pool[j].voice]
      BY <3>2, <1>1
    <3> QED BY <3>1, <3>2, <3>3
  <2> QED BY <2>1, <2>2
<1>4. VoicesFound'
  <2> SUFFICES ASSUME NEW u \in live'
               PROVE  /\ issued'[u].index \in Index'
                      /\ pool'[issued'[u].index].occupied
                      /\ pool'[issued'[u].index].generation = issued'[u].generation
    BY DEF VoicesFound, Found
  <2>1. CASE u = plays + 1
    BY <2>1
  <2>2. CASE u \in live
    <3>1. /\ issued'[u] = issued[u] /\ issued[u].index \in Index
          /\ pool[issued[u].index].occupied
          /\ pool[issued[u].index].generation = issued[u].generation
      BY <2>2, <1>1 DEF PoolInv, VoicesFound, Found
    <3> QED BY <3>1
  <2> QED BY <2>1, <2>2
<1>5. GenerationsBounded'
  <2> SUFFICES ASSUME NEW j \in Index'
               PROVE  /\ pool'[j].generation <= plays + 1
                      /\ pool'[j].occupied => pool'[j].generation < plays + 1
    BY DEF GenerationsBounded
  <2>1. CASE j = i
    BY <2>1, <1>1
  <2>2. CASE j # i
    <3>1. pool'[j] = pool[j] /\ pool[j].generation <= plays /\ pool[j].generation \in Nat
      BY <2>2, <1>1 DEF PoolInv, GenerationsBounded
    <3> QED BY <3>1, <1>1
  <2> QED BY <2>1, <2>2
<1> QED
  BY <1>2, <1>3, <1>4, <1>5

\* A slot is replaced by one that is free and one generation on.
LEMMA SlotEmptied ==
    ASSUME PoolTypes, PoolInv, NEW i \in Index, pool[i].occupied,
           Index' = Index,
           ~pool'[i].occupied, pool'[i].generation = pool[i].generation + 1,
           \A j \in Index : j # i => pool'[j] = pool[j],
           issued' = issued, live' = live \ {pool[i].voice}
    PROVE  HandlesIssued' /\ SlotsHold' /\ VoicesFound' /\ GenerationsBounded'
<1>1. /\ plays \in Nat /\ live \subseteq 1..plays /\ plays' = plays
      /\ \A j \in Index : pool[j].generation \in Nat
      /\ \A p \in 1..plays : issued[p].generation \in Nat
  BY SlotTypes, IssuedTypes DEF PoolTypes, plays
<1>2. HandlesIssued'
  <2> SUFFICES ASSUME NEW p \in 1..plays
               PROVE  /\ issued[p].index \in Index
                      /\ issued[p].generation <= pool'[issued[p].index].generation
                      /\ issued[p].generation = pool'[issued[p].index].generation
                           => /\ pool'[issued[p].index].occupied
                              /\ pool'[issued[p].index].voice = p
    BY <1>1 DEF HandlesIssued
  <2>1. /\ issued[p].index \in Index
        /\ issued[p].generation <= pool[issued[p].index].generation
        /\ issued[p].generation = pool[issued[p].index].generation
             => pool[issued[p].index].occupied /\ pool[issued[p].index].voice = p
    BY DEF PoolInv, HandlesIssued
  <2>2. CASE issued[p].index = i
    BY <2>1, <2>2, <1>1
  <2>3. CASE issued[p].index # i
    BY <2>1, <2>3
  <2> QED BY <2>2, <2>3
<1>3. /\ issued[pool[i].voice] = [index |-> i, generation |-> pool[i].generation]
      /\ issued[pool[i].voice].index = i
  BY DEF PoolInv, SlotsHold
<1>4. SlotsHold'
  <2> SUFFICES ASSUME NEW j \in Index, pool'[j].occupied
               PROVE  /\ pool'[j].voice \in live \ {pool[i].voice}
                      /\ issued[pool'[j].voice] = [index |-> j, generation |-> pool'[j].generation]
    BY DEF SlotsHold
  <2>1. j # i /\ pool'[j] = pool[j]
    OBVIOUS
  <2>2. /\ pool[j].voice \in live
        /\ issued[pool[j].voice] = [index |-> j, generation |-> pool[j].generation]
        /\ issued[pool[j].voice].index = j
    BY <2>1 DEF PoolInv, SlotsHold
  <2> QED BY <1>3, <2>1, <2>2
<1>5. VoicesFound'
  <2> SUFFICES ASSUME NEW u \in live, u # pool[i].voice
               PROVE  /\ issued[u].index \in Index
                      /\ pool'[issued[u].index].occupied
                      /\ pool'[issued[u].index].generation = issued[u].generation
    BY DEF VoicesFound, Found
  <2>1. /\ issued[u].index \in Index
        /\ pool[issued[u].index].occupied
        /\ pool[issued[u].index].generation = issued[u].generation
    BY DEF PoolInv, VoicesFound, Found
  <2>2. pool[issued[u].index].voice = u
    BY <1>1, <2>1 DEF PoolInv, HandlesIssued
  <2> QED BY <2>1, <2>2
<1>6. GenerationsBounded'
  <2> SUFFICES ASSUME NEW j \in Index
               PROVE  /\ pool'[j].generation <= plays
                      /\ pool'[j].occupied => pool'[j].generation < plays
    BY <1>1 DEF GenerationsBounded
  <2>1. CASE j = i
    BY <2>1, <1>1 DEF PoolInv, GenerationsBounded
  <2>2. CASE j # i
    BY <2>2 DEF PoolInv, GenerationsBounded
  <2> QED BY <2>1, <2>2
<1> QED
  BY <1>2, <1>4, <1>5, <1>6
\* alloc reuses the slot that was freed last.
LEMMA ReuseKeeps ==
    ASSUME PoolTypes, PoolInv, plays < MaxPlays, free_list # <<>>,
           Alloc(plays + 1), live' = live \cup {plays + 1}
    PROVE  PoolTypes' /\ PoolInv' /\ plays' = plays + 1 /\ Len(pool') >= Len(pool)
<1> DEFINE n == Len(free_list)
           i == free_list[n]
           g == pool[i].generation
           s == [voice |-> plays + 1, occupied |-> TRUE, generation |-> g]
           h == [index |-> i, generation |-> g]
<1>1. free_list \in Seq(Nat) /\ n \in Nat /\ n # 0
  BY DEF PoolTypes
<1>2. i \in Index /\ ~pool[i].occupied
  BY <1>1 DEF PoolInv, FreeListExact
<1>3. pool' = [pool EXCEPT ![i] = s] /\ issued' = Append(issued, h)
  BY DEF Alloc
<1>4. free_list' = SubSeq(free_list, 1, n - 1)
  BY DEF Alloc
<1>5. plays \in Nat /\ i \in Nat /\ g \in 0..plays
  BY <1>2, SlotTypes, IssuedTypes DEF PoolInv, GenerationsBounded
<1>6. s \in Slot /\ h \in Handle
  BY <1>5 DEF Slot, Handle
<1>7. /\ s.voice = plays + 1 /\ s.occupied /\ s.generation = g
      /\ h.index = i /\ h.generation = g /\ h = [index |-> i, generation |-> g]
  OBVIOUS
<1> HIDE DEF n, i, g, s, h
<1>8. /\ pool' \in Seq(Slot) /\ Len(pool') = Len(pool) /\ pool'[i] = s
      /\ \A j \in Index : j # i => pool'[j] = pool[j]
  BY <1>2, <1>3, <1>6, SlotReplaced
<1>9. /\ issued' \in Seq(Handle) /\ plays' = plays + 1 /\ issued'[plays + 1] = h
      /\ \A p \in 1..plays : issued'[p] = issued[p]
  BY <1>3, <1>6, IssuedGrows
<1>10. Index' = Index /\ Index' = Index \cup {i}
  BY <1>2, <1>8 DEF Index
<1>11. g = pool[i].generation
  BY DEF g
<1>12. HandlesIssued' /\ SlotsHold' /\ VoicesFound' /\ GenerationsBounded'
  BY <1>2, <1>5, <1>7, <1>8, <1>9, <1>10, <1>11, SlotFilled, SMTT(30)
<1>13. /\ free_list' \in Seq(Nat) /\ Len(free_list') = n - 1
       /\ \A k \in 1..(n - 1) : free_list'[k] = free_list[k]
  <2>1. 1 \in 1..(n + 1) /\ n - 1 \in 0..n
    BY <1>1
  <2>2. /\ SubSeq(free_list, 1, n - 1) \in Seq(Nat)
        /\ Len(SubSeq(free_list, 1, n - 1)) = IF 1 <= n - 1 THEN (n - 1) - 1 + 1 ELSE 0
        /\ \A k \in 1..((n - 1) - 1 + 1) : SubSeq(free_list, 1, n - 1)[k] = free_list[1 + k - 1]
    BY <1>1, <2>1, SubSeqProperties, SMTT(30) DEF n
  <2> QED BY <1>1, <1>4, <2>2
<1>14. FreeListExact'
  <2>1. \A k \in 1..(n - 1) : free_list[k] # i
    BY <1>1 DEF PoolInv, FreeListExact, n, i
  <2>2. \A k \in 1..(n - 1) : free_list[k] \in Index /\ ~pool[free_list[k]].occupied
    BY <1>1 DEF PoolInv, FreeListExact, n
  <2>3. \A j, k \in 1..(n - 1) : free_list[j] = free_list[k] => j = k
    BY <1>1 DEF PoolInv, FreeListExact, n
  <2> QED BY <1>8, <1>10, <1>13, <2>1, <2>2, <2>3 DEF FreeListExact
<1>15. PoolTypes'
  BY <1>5, <1>8, <1>9, <1>13, PlaysAssumption DEF PoolTypes
<1> QED
  BY <1>8, <1>9, <1>12, <1>14, <1>15, SlotTypes DEF PoolInv

\* alloc makes the pool grow.
LEMMA GrowKeeps ==
    ASSUME PoolTypes, PoolInv, plays < MaxPlays, free_list = <<>>,
           Alloc(plays + 1), live' = live \cup {plays + 1}
    PROVE  PoolTypes' /\ PoolInv' /\ plays' = plays + 1 /\ Len(pool') >= Len(pool)
<1> DEFINE i == Len(pool) + 1
           s == [voice |-> plays + 1, occupied |-> TRUE, generation |-> 0]
           h == [index |-> i, generation |-> 0]
<1>1. plays \in Nat /\ pool \in Seq(Slot) /\ Len(pool) \in Nat /\ i \in Nat
  BY SlotTypes, IssuedTypes DEF PoolTypes
<1>2. pool' = Append(pool, s) /\ issued' = Append(issued, h) /\ free_list' = free_list
  BY DEF Alloc
<1>3. s \in Slot /\ h \in Handle
  BY <1>1 DEF Slot, Handle
<1>4. /\ s.voice = plays + 1 /\ s.occupied /\ s.generation = 0
      /\ h.index = i /\ h.generation = 0 /\ h = [index |-> i, generation |-> 0]
  OBVIOUS
<1> HIDE DEF s, h
<1>5. /\ pool' \in Seq(Slot) /\ Len(pool') = i /\ pool'[i] = s
      /\ \A j \in Index : j # i => pool'[j] = pool[j]
  BY <1>1, <1>2, <1>3 DEF Index
<1>6. /\ issued' \in Seq(Handle) /\ plays' = plays + 1 /\ issued'[plays + 1] = h
      /\ \A p \in 1..plays : issued'[p] = issued[p]
  BY <1>2, <1>3, IssuedGrows
<1>7. Index' = Index \cup {i} /\ i \notin Index
  BY <1>1, <1>5 DEF Index
<1> HIDE DEF i
<1>8. HandlesIssued' /\ SlotsHold' /\ VoicesFound' /\ GenerationsBounded'
  <2>1. 0 \in 0..plays
    BY <1>1
  <2> QED
    BY <2>1, <1>4, <1>5, <1>6, <1>7, SlotFilled
<1>9. FreeListExact'
  <2>1. \A k \in 1..Len(free_list') : FALSE
    BY <1>2
  <2> QED BY <2>1 DEF FreeListExact
<1>10. PoolTypes'
  <2>1. free_list' \in Seq(Nat)
    BY <1>2 DEF PoolTypes
  <2>2. plays' \in 0..MaxPlays /\ live' \subseteq 1..plays'
    BY <1>1, <1>6, PlaysAssumption DEF PoolTypes
  <2> QED BY <2>1, <2>2, <1>5, <1>6 DEF PoolTypes
<1> QED
  BY <1>1, <1>5, <1>6, <1>8, <1>9, <1>10 DEF PoolInv, i

\* destroy_channel and free: no generation wraps around.
LEMMA DestroyedKeeps ==
    ASSUME PoolTypes, PoolInv, NEW i \in Index, pool[i].occupied, Destroyed(i)
    PROVE  /\ PoolTypes' /\ PoolInv'
           /\ Index' = Index /\ ~pool'[i].occupied
           /\ \A j \in Index : j # i => pool'[j] = pool[j]
<1> DEFINE g == pool[i].generation + 1
           s == [voice |-> NoVoice, occupied |-> FALSE, generation |-> g]
<1>1. /\ i \in Nat /\ pool[i].generation \in Nat
      /\ pool[i].generation < plays /\ plays \in Nat /\ plays <= MaxPlays
  BY SlotTypes, IssuedTypes, PlaysAssumption DEF PoolInv, GenerationsBounded, PoolTypes
<1>2. g \in Nat /\ g % GenerationMod = g
  BY <1>1, PlaysAssumption
<1>3. /\ pool' = [pool EXCEPT ![i] = s]
      /\ free_list' = Append(free_list, i)
      /\ issued' = issued /\ live' = live \ {pool[i].voice}
  BY <1>2 DEF Destroyed, Freed
<1>4. s \in Slot /\ ~s.occupied /\ s.generation = g
  BY <1>2 DEF Slot
<1> HIDE DEF g, s
<1>5. /\ pool' \in Seq(Slot) /\ Len(pool') = Len(pool) /\ pool'[i] = s
      /\ \A j \in Index : j # i => pool'[j] = pool[j]
  BY <1>3, <1>4, SlotReplaced
<1>6. Index' = Index
  BY <1>5 DEF Index
<1>7. ~pool'[i].occupied /\ pool'[i].generation = pool[i].generation + 1
  BY <1>4, <1>5 DEF g
<1>8. HandlesIssued' /\ SlotsHold' /\ VoicesFound' /\ GenerationsBounded'
  BY <1>3, <1>5, <1>6, <1>7, SlotEmptied
<1> DEFINE n == Len(free_list)
<1>9. free_list \in Seq(Nat) /\ n \in Nat
  BY DEF PoolTypes
<1>10. /\ free_list' \in Seq(Nat) /\ Len(free_list') = n + 1 /\ free_list'[n + 1] = i
       /\ \A k \in 1..n : free_list'[k] = free_list[k]
  BY <1>1, <1>3, <1>9
<1>11. \A k \in 1..n : free_list[k] \in Index /\ ~pool[free_list[k]].occupied /\ free_list[k] # i
  BY DEF PoolInv, FreeListExact
<1>12. \A j, k \in 1..n : free_list[j] = free_list[k] => j = k
  BY DEF PoolInv, FreeListExact
<1> HIDE DEF n
<1>13. FreeListExact'
  <2>1. 1..(n + 1) = (1..n) \cup {n + 1} /\ n + 1 \notin 1..n
    BY <1>9
  <2>2. \A k \in 1..(n + 1) : free_list'[k] \in Index /\ ~pool'[free_list'[k]].occupied
    BY <2>1, <1>5, <1>7, <1>10, <1>11
  <2>3. \A j, k \in 1..(n + 1) : free_list'[j] = free_list'[k] => j = k
    BY <2>1, <1>10, <1>11, <1>12
  <2> QED BY <2>2, <2>3, <1>6, <1>10 DEF FreeListExact
<1>14. PoolTypes'
  BY <1>3, <1>5, <1>10 DEF PoolTypes, plays
<1> QED
  BY <1>5, <1>6, <1>7, <1>8, <1>13, <1>14 DEF PoolInv
-----------------------------------------------------------------------------
\* What TypeOK says beside PoolTypes.
OtherTypes ==
    /\ source \in Seq(Sounds \cup {File}) /\ Len(source) = plays
    /\ playing \subseteq live /\ looping \subseteq 1..plays
    /\ loaded \subseteq Sounds /\ asked \in 0..plays
    /\ audio \in {"untried", "ok", "failed"}
    /\ display \in BOOLEAN /\ teardown \in BOOLEAN /\ (display => teardown)
    /\ pc \in {"program", "reap", "flush", "exited"} /\ cursor \in 1..(Len(pool) + 1)

LEMMA TypesSplit == TypeOK <=> PoolTypes /\ OtherTypes
BY DEF TypeOK, PoolTypes, OtherTypes

LEMMA TypesNext == ASSUME PoolTypes', OtherTypes' PROVE TypeOK'
BY DEF TypeOK, PoolTypes, OtherTypes

LEMMA InitIInv == Init => IInv
<1> SUFFICES ASSUME Init PROVE IInv
  OBVIOUS
<1>1. /\ Len(pool) = 0 /\ Len(free_list) = 0 /\ plays = 0 /\ Len(source) = 0
      /\ pool \in Seq(Slot) /\ free_list \in Seq(Nat) /\ issued \in Seq(Handle)
      /\ source \in Seq(Sounds \cup {File})
  BY DEF Init, plays
<1>2. Index = {} /\ 1..plays = {} /\ 1..Len(free_list) = {}
  BY <1>1 DEF Index
<1>3. PoolTypes
  BY <1>1, PlaysAssumption DEF Init, PoolTypes
<1>a. OtherTypes
  <2>1. cursor \in 1..(Len(pool) + 1) /\ asked \in 0..plays
    BY <1>1 DEF Init
  <2> QED BY <2>1, <1>1 DEF Init, OtherTypes
<1>4. PoolInv /\ FlushInv
  BY <1>2 DEF Init, PoolInv, HandlesIssued, SlotsHold, VoicesFound, FreeListExact,
              GenerationsBounded, FlushInv, NothingLeftAtExit
<1> QED
  BY <1>3, <1>a, <1>4, TypesSplit DEF IInv

\* The steps that leave the pool alone, the end of the program among them.
LEMMA OutsideThePool ==
    ASSUME IInv, UNCHANGED slots, OtherTypes',
           pc' = "flush" => (teardown' /\ (cursor' = 1 \/ (pc = "flush" /\ UNCHANGED cursor))),
           (pc' = "exited" /\ teardown') =>
             ((pc = "exited" /\ teardown) \/ (pc = "flush" /\ cursor \notin Index))
    PROVE  IInv'
<1>1. PoolTypes /\ PoolInv /\ FlushInv /\ OtherTypes
  BY TypesSplit DEF IInv
<1>2. PoolTypes' /\ PoolInv'
  BY <1>1, PoolUnchanged
<1>3. Index' = Index /\ pool' = pool /\ live' = live /\ Len(pool) \in Nat
  BY <1>1, SlotTypes DEF slots, Index
<1>4. pc' = "flush" => (teardown' /\ \A i \in Index' : i < cursor' => ~pool'[i].occupied)
  BY <1>1, <1>3 DEF FlushInv, Index
<1>5. NothingLeftAtExit'
  <2>1. CASE pc = "exited" /\ teardown
    BY <2>1, <1>1, <1>3 DEF FlushInv, NothingLeftAtExit
  <2>2. CASE pc = "flush" /\ cursor \notin Index
    <3>1. \A i \in Index : i < cursor
      BY <2>2, <1>1, <1>3 DEF Index, OtherTypes
    <3>2. \A i \in Index : ~pool[i].occupied
      BY <2>2, <3>1, <1>1 DEF FlushInv
    <3>3. live = {}
      BY <3>2, <1>1 DEF PoolInv, VoicesFound, Found
    <3> QED BY <3>3, <1>3 DEF NothingLeftAtExit
  <2> QED BY <2>1, <2>2 DEF NothingLeftAtExit
<1>6. TypeOK'
  BY <1>2, TypesNext
<1> QED
  BY <1>2, <1>4, <1>5, <1>6 DEF IInv, FlushInv
\* Commands of the program that leave the pool and the end of the run alone.
LEMMA CommandIInv ==
    ASSUME IInv, UNCHANGED slots, OtherTypes', UNCHANGED <<pc, cursor, teardown>>
    PROVE  IInv'
<1>1. FlushInv /\ PoolTypes /\ OtherTypes
  BY TypesSplit DEF IInv
<1>2. Index' = Index
  BY DEF slots, Index
<1>3. PoolTypes' /\ PoolInv'
  BY <1>1, PoolUnchanged DEF IInv
<1>4. FlushInv'
  BY <1>1, <1>2 DEF FlushInv, NothingLeftAtExit, slots
<1> QED
  BY <1>3, <1>4, TypesNext DEF IInv

LEMMA TypesOf ==
    ASSUME IInv
    PROVE  PoolTypes /\ PoolInv /\ FlushInv /\ OtherTypes
BY TypesSplit DEF IInv

\* The voice a handle reaches is the handle's own.
LEMMA OwnVoice ==
    ASSUME IInv, NEW p \in 1..plays, Found(issued[p])
    PROVE  pool[issued[p].index].voice = p /\ p \in live
<1>1. PoolInv
  BY TypesOf
<1>2. pool[issued[p].index].voice = p /\ pool[issued[p].index].occupied
  BY <1>1 DEF PoolInv, HandlesIssued, Found
<1> QED
  BY <1>1, <1>2 DEF PoolInv, SlotsHold, Found

\* A handle that reaches nothing is that of a voice that was destroyed.
LEMMA StaleHandle ==
    ASSUME IInv, NEW p \in 1..plays, ~Found(issued[p])
    PROVE  p \notin live
BY TypesOf DEF PoolInv, VoicesFound

LEMMA SlotsSame == ASSUME UNCHANGED slots PROVE plays' = plays /\ Len(pool') = Len(pool) /\ live' = live
BY DEF slots, plays

LEMMA LoadSoundIInv == ASSUME IInv, NEW s \in Sounds, LoadSound(s) PROVE IInv'
<1>1. OtherTypes /\ UNCHANGED slots
  BY TypesOf DEF LoadSound
<1>2. OtherTypes'
  BY <1>1, SlotsSame DEF LoadSound, EnsureAudio, OtherTypes, channels, Stay
<1> QED
  BY <1>1, <1>2, CommandIInv DEF LoadSound, Stay

LEMMA DeleteSoundIInv == ASSUME IInv, NEW s \in Sounds, DeleteSound(s) PROVE IInv'
<1>1. OtherTypes /\ UNCHANGED slots
  BY TypesOf DEF DeleteSound
<1>2. OtherTypes'
  BY <1>1, SlotsSame DEF DeleteSound, OtherTypes, devices, Stay
<1> QED
  BY <1>1, <1>2, CommandIInv DEF DeleteSound, devices, Stay

LEMMA SetSoundIInv == ASSUME IInv, NEW p, NEW loop \in BOOLEAN, SetSound(p, loop) PROVE IInv'
<1>1. OtherTypes /\ PoolTypes /\ UNCHANGED slots /\ p \in 1..plays
  BY TypesOf DEF SetSound
<1>2. plays \in Nat /\ p \in 0..plays
  BY <1>1, IssuedTypes
<1>3. looping' \subseteq 1..plays
  BY <1>1, OwnVoice DEF SetSound, OtherTypes
<1>4. OtherTypes'
  BY <1>1, <1>2, <1>3, SlotsSame DEF SetSound, OtherTypes, devices, Stay
<1> QED
  BY <1>1, <1>4, CommandIInv DEF SetSound, devices, Stay

LEMMA StopSoundIInv == ASSUME IInv, NEW p, StopSound(p) PROVE IInv'
<1>1. OtherTypes /\ PoolTypes /\ UNCHANGED slots /\ p \in 1..plays
  BY TypesOf DEF StopSound
<1>2. plays \in Nat /\ p \in 0..plays
  BY <1>1, IssuedTypes
<1>3. playing' \subseteq live
  BY <1>1 DEF StopSound, OtherTypes
<1>4. OtherTypes'
  BY <1>1, <1>2, <1>3, SlotsSame DEF StopSound, OtherTypes, devices, Stay
<1> QED
  BY <1>1, <1>4, CommandIInv DEF StopSound, devices, Stay

LEMMA FinishIInv == ASSUME IInv, NEW v, Finish(v) PROVE IInv'
<1>1. OtherTypes /\ UNCHANGED slots
  BY TypesOf DEF Finish
<1>2. OtherTypes'
  BY <1>1, SlotsSame DEF Finish, OtherTypes, devices, Stay
<1> QED
  BY <1>1, <1>2, CommandIInv DEF Finish, devices, Stay

LEMMA PlaySoundIInv == ASSUME IInv, NEW s, PlaySound(s) PROVE IInv'
<1>1. OtherTypes /\ PoolTypes /\ PoolInv /\ FlushInv
  BY TypesOf
<1>2. s \in Sounds \cup {File} /\ plays < MaxPlays /\ pc = "program"
  BY <1>1 DEF PlaySound, OtherTypes, Running
<1>3. audio' \in {"untried", "ok", "failed"}
  BY <1>1 DEF PlaySound, EnsureAudio, OtherTypes
<1>4. CASE UNCHANGED <<slots, playing, source>>
  <2>1. OtherTypes'
    BY <1>1, <1>3, <1>4, SlotsSame DEF PlaySound, OtherTypes, Stay
  <2> QED
    BY <1>4, <2>1, CommandIInv DEF PlaySound, Stay
<1>5. CASE /\ Alloc(plays + 1) /\ live' = live \cup {plays + 1}
           /\ playing' = playing \cup {plays + 1} /\ source' = Append(source, s)
  <2>1. PoolTypes' /\ PoolInv' /\ plays' = plays + 1 /\ Len(pool') >= Len(pool)
    <3>1. CASE free_list = <<>>
      BY <3>1, <1>1, <1>2, <1>5, GrowKeeps
    <3>2. CASE free_list # <<>>
      BY <3>2, <1>1, <1>2, <1>5, ReuseKeeps
    <3> QED BY <3>1, <3>2
  <2>2. plays \in Nat /\ Len(pool) \in Nat /\ Len(pool') \in Nat
    <3>1. pool' \in Seq(Slot)
      BY <2>1 DEF PoolTypes
    <3> QED BY <3>1, <1>1, IssuedTypes, SlotTypes
  <2>3. source' \in Seq(Sounds \cup {File}) /\ Len(source') = plays'
    BY <1>1, <1>2, <1>5, <2>1, <2>2 DEF OtherTypes
  <2>4. /\ playing' \subseteq live' /\ looping' \subseteq 1..plays' /\ asked' \in 0..plays'
        /\ cursor' \in 1..(Len(pool') + 1)
    BY <1>1, <1>5, <2>1, <2>2 DEF PlaySound, OtherTypes, Stay
  <2>5. OtherTypes'
    BY <1>1, <1>3, <2>3, <2>4 DEF PlaySound, OtherTypes, Stay
  <2>6. FlushInv'
    BY <1>2 DEF PlaySound, FlushInv, NothingLeftAtExit, Stay
  <2> QED
    BY <2>1, <2>5, <2>6, TypesNext DEF IInv
<1> QED
  BY <1>4, <1>5 DEF PlaySound

LEMMA AboutToExitTypes ==
    ASSUME OtherTypes, PoolTypes, UNCHANGED slots, AboutToExit
    PROVE  pc' \in {"flush", "exited"} /\ cursor' \in 1..(Len(pool') + 1)
BY SlotTypes DEF AboutToExit, slots

LEMMA NullSoundIInv == ASSUME IInv, NullSound PROVE IInv'
<1>1. OtherTypes /\ PoolTypes /\ UNCHANGED slots /\ pc = "program"
  BY TypesOf DEF NullSound, Running
<1>2. audio' \in {"untried", "ok", "failed"}
  BY <1>1 DEF NullSound, EnsureAudio, OtherTypes
<1>3. CASE AboutToExit
  <2>1. OtherTypes'
    BY <1>1, <1>2, <1>3, SlotsSame, AboutToExitTypes DEF NullSound, OtherTypes, channels
  <2> QED
    BY <1>1, <1>3, <2>1, OutsideThePool DEF NullSound, AboutToExit
<1>4. CASE Stay
  <2>1. OtherTypes'
    BY <1>1, <1>2, <1>4, SlotsSame DEF NullSound, OtherTypes, channels, Stay
  <2> QED
    BY <1>1, <1>4, <2>1, CommandIInv DEF NullSound, Stay
<1> QED
  BY <1>3, <1>4 DEF NullSound

LEMMA ScreenIInv == ASSUME IInv, Screen PROVE IInv'
<1>1. OtherTypes /\ UNCHANGED slots /\ pc = "program"
  BY TypesOf DEF Screen, Running
<1>2. OtherTypes'
  BY <1>1, SlotsSame DEF Screen, OtherTypes, channels, Stay
<1> QED
  BY <1>1, <1>2, OutsideThePool DEF Screen, Stay

LEMMA DrawScreenIInv == ASSUME IInv, DrawScreen PROVE IInv'
<1>1. OtherTypes /\ PoolTypes /\ UNCHANGED slots
  BY TypesOf DEF DrawScreen
<1>2. OtherTypes'
  <2>1. cursor' \in 1..(Len(pool') + 1)
    BY <1>1, SlotTypes, SlotsSame DEF DrawScreen
  <2> QED BY <2>1, <1>1, SlotsSame DEF DrawScreen, OtherTypes, channels, devices
<1> QED
  BY <1>1, <1>2, OutsideThePool DEF DrawScreen

LEMMA EndFrameIInv == ASSUME IInv, EndFrame PROVE IInv'
<1>1. OtherTypes /\ PoolTypes /\ UNCHANGED slots /\ pc = "reap"
  BY TypesOf DEF EndFrame
<1>2. CASE pc' = "program" /\ UNCHANGED <<cursor, display>>
  <2>1. OtherTypes'
    BY <1>1, <1>2, SlotsSame DEF EndFrame, OtherTypes, channels
  <2> QED BY <1>1, <1>2, <2>1, OutsideThePool
<1>3. CASE AboutToExit /\ display' = FALSE
  <2>1. OtherTypes'
    BY <1>1, <1>3, SlotsSame, AboutToExitTypes DEF EndFrame, OtherTypes, channels
  <2> QED BY <1>1, <1>3, <2>1, OutsideThePool DEF EndFrame, AboutToExit
<1> QED
  BY <1>2, <1>3 DEF EndFrame

LEMMA EndIInv == ASSUME IInv, End PROVE IInv'
<1>1. OtherTypes /\ PoolTypes /\ UNCHANGED slots /\ pc = "program"
  BY TypesOf DEF End, Running
<1>2. OtherTypes'
  BY <1>1, SlotsSame, AboutToExitTypes DEF End, OtherTypes, channels, devices
<1> QED
  BY <1>1, <1>2, OutsideThePool DEF End, AboutToExit, devices

LEMMA ExitIInv == ASSUME IInv, Exit PROVE IInv'
<1>1. OtherTypes /\ PoolTypes /\ UNCHANGED slots
  BY TypesOf DEF Exit
<1>2. OtherTypes'
  BY <1>1, SlotsSame DEF Exit, OtherTypes, channels, devices
<1> QED
  BY <1>1, <1>2, OutsideThePool DEF Exit

\* One slot of the reaper or of the flush, destroyed or passed over.
LEMMA SlotScanned ==
    ASSUME IInv, cursor \in Index, cursor' = cursor + 1, UNCHANGED <<loaded, devices, pc>>,
           pc \in {"reap", "flush"},
           \/ pool[cursor].occupied /\ Destroyed(cursor)
           \/ UNCHANGED <<slots, channels>> /\ (pc = "flush" => ~pool[cursor].occupied)
    PROVE  IInv'
<1>1. OtherTypes /\ PoolTypes /\ PoolInv /\ FlushInv
  BY TypesOf
<1>2. Len(pool) \in Nat /\ cursor \in Nat
  BY <1>1, SlotTypes
<1>3. /\ PoolTypes' /\ PoolInv' /\ Index' = Index
      /\ pc = "flush" => ~pool'[cursor].occupied
      /\ \A i \in Index : i # cursor => pool'[i] = pool[i]
  <2>1. CASE pool[cursor].occupied /\ Destroyed(cursor)
    BY <1>1, <2>1, DestroyedKeeps
  <2>2. CASE UNCHANGED <<slots, channels>> /\ (pc = "flush" => ~pool[cursor].occupied)
    BY <1>1, <2>2, PoolUnchanged DEF slots, Index
  <2> QED BY <2>1, <2>2
<1>4. Len(pool') = Len(pool)
  <2>1. Len(pool') \in Nat
    BY <1>3 DEF PoolTypes
  <2> QED BY <2>1, <1>2, <1>3 DEF Index
<1>5. playing' \subseteq live' /\ UNCHANGED <<issued, looping, source, asked>>
  BY <1>1 DEF Destroyed, OtherTypes, slots, channels
<1>6. plays' = plays
  BY <1>5 DEF plays
<1>7. cursor' \in 1..(Len(pool') + 1)
  BY <1>2, <1>4 DEF Index
<1>8. OtherTypes'
  BY <1>1, <1>5, <1>6, <1>7 DEF OtherTypes, devices
<1>9. pc' = "flush" => (teardown' /\ \A i \in Index' : i < cursor' => ~pool'[i].occupied)
  <2>1. \A i \in Index : i < cursor + 1 <=> i < cursor \/ i = cursor
    BY <1>2 DEF Index
  <2> QED
    BY <2>1, <1>1, <1>3 DEF FlushInv, devices
<1>10. NothingLeftAtExit'
  BY DEF NothingLeftAtExit
<1> QED
  BY <1>3, <1>8, <1>9, <1>10, TypesNext DEF IInv, FlushInv

LEMMA ScanIInv == ASSUME IInv, Reap \/ Flush PROVE IInv'
BY SlotScanned DEF Reap, Flush

LEMMA StepIInv == ASSUME IInv, [Next]_vars PROVE IInv'
<1>1. CASE \E s \in Sounds : LoadSound(s) \/ DeleteSound(s)
  BY <1>1, LoadSoundIInv, DeleteSoundIInv
<1>2. CASE \E s \in Sounds \cup {File} : PlaySound(s)
  BY <1>2, PlaySoundIInv
<1>3. CASE NullSound
  BY <1>3, NullSoundIInv
<1>4. CASE \E p \in 1..plays : StopSound(p) \/ Finish(p)
  BY <1>4, StopSoundIInv, FinishIInv
<1>5. CASE \E p \in 1..plays, loop \in BOOLEAN : SetSound(p, loop)
  BY <1>5, SetSoundIInv
<1>6. CASE Screen \/ DrawScreen \/ End
  BY <1>6, ScreenIInv, DrawScreenIInv, EndIInv
<1>7. CASE Hook
  BY <1>7, ScanIInv, EndFrameIInv, ExitIInv DEF Hook
<1>8. CASE UNCHANGED vars
  <2>1. UNCHANGED slots /\ UNCHANGED <<pc, cursor, teardown>> /\ OtherTypes
    BY <1>8, TypesOf DEF vars, slots
  <2>2. OtherTypes'
    BY <1>8, <2>1, SlotsSame DEF OtherTypes, vars
  <2> QED BY <2>1, <2>2, CommandIInv
<1> QED
  BY <1>1, <1>2, <1>3, <1>4, <1>5, <1>6, <1>7, <1>8 DEF Next

(* IInv holds in every reachable state.                                     *)
THEOREM Invariant == Spec => []IInv
<1>1. Init => IInv
  BY InitIInv
<1>2. IInv /\ [Next]_vars => IInv'
  BY StepIInv
<1> QED
  BY <1>1, <1>2, PTL DEF Spec
(* No reuse of a slot lets an old SoundChannel reach another playback's
   voice (cb_sound.cpp:23), whatever number of playbacks below the range of
   a generation.                                                            *)
THEOREM ChannelReachesOwn == Spec => []HandleReachesOwn
<1>1. IInv => HandleReachesOwn
  BY OwnVoice DEF HandleReachesOwn
<1> QED
  BY <1>1, Invariant, PTL

(* The voices Allegro has allocated are those in the occupied slots, one in
   each: nothing is leaked, nothing destroyed twice.                        *)
THEOREM VoicesAreHeld == Spec => []VoicesHeld
<1>1. IInv => VoicesHeld
  <2> SUFFICES ASSUME IInv PROVE VoicesHeld
    OBVIOUS
  <2>1. PoolInv /\ PoolTypes
    BY TypesOf
  <2>2. \A v \in live : \E i \in Index : pool[i].occupied /\ pool[i].voice = v
    <3> TAKE v \in live
    <3>1. Found(issued[v]) /\ v \in 1..plays
      BY <2>1 DEF PoolInv, PoolTypes, VoicesFound
    <3>2. pool[issued[v].index].voice = v
      BY <3>1, OwnVoice
    <3> QED BY <3>1, <3>2 DEF Found
  <2>3. \A i \in Index : pool[i].occupied => pool[i].voice \in live
    BY <2>1 DEF PoolInv, SlotsHold
  <2>4. \A i, j \in Index : pool[i].occupied /\ pool[j].occupied
                              /\ pool[i].voice = pool[j].voice => i = j
    <3> TAKE i, j \in Index
    <3> HAVE pool[i].occupied /\ pool[j].occupied /\ pool[i].voice = pool[j].voice
    <3>1. /\ issued[pool[i].voice] = [index |-> i, generation |-> pool[i].generation]
          /\ issued[pool[j].voice] = [index |-> j, generation |-> pool[j].generation]
      BY <2>1 DEF PoolInv, SlotsHold
    <3>2. issued[pool[i].voice].index = i /\ issued[pool[j].voice].index = j
      BY <3>1
    <3> QED BY <3>2
  <2> QED BY <2>2, <2>3, <2>4 DEF VoicesHeld
<1> QED
  BY <1>1, Invariant, PTL

(* The teardown leaves no voice for al_uninstall_system.                    *)
THEOREM TeardownLeavesNothing == Spec => []NothingLeftAtExit
<1>1. IInv => NothingLeftAtExit
  BY DEF IInv, FlushInv
<1> QED
  BY <1>1, Invariant, PTL

(* The state is of its type in every reachable state.                       *)
THEOREM TypeCorrect == Spec => []TypeOK
<1>1. IInv => TypeOK
  BY DEF IInv
<1> QED
  BY <1>1, Invariant, PTL
-----------------------------------------------------------------------------
\* Steps of the pool that the abstract playbacks cannot see.
LEMMA Unseen ==
    ASSUME UNCHANGED channels, (pc' \in {"flush", "exited"}) = (pc \in {"flush", "exited"})
    PROVE  UNCHANGED Channels!channels
BY DEF channels, Channels!channels

\* A voice ends: what is left to loop is what loops and still plays.
LEMMA OverStep ==
    ASSUME NEW P, playing' = playing \ P, UNCHANGED <<source, looping, pc>>
    PROVE  Channels!Over(P)
BY DEF Channels!Over

LEMMA PlayStep == ASSUME IInv, NEW s \in Sounds \cup {File}, PlaySound(s)
                  PROVE  [Channels!Next]_Channels!channels
<1>1. OtherTypes /\ PoolTypes
  BY TypesOf
<1>2. CASE UNCHANGED <<slots, playing, source>>
  BY <1>2, Unseen DEF PlaySound, channels, Stay
<1>3. CASE playing' = playing \cup {plays + 1} /\ source' = Append(source, s)
  <2>1. plays + 1 = Len(source) + 1 /\ plays < MaxPlays /\ plays + 1 \notin looping
    BY <1>1, IssuedTypes DEF OtherTypes, PlaySound
  <2>2. looping' = looping /\ pc' = pc /\ pc = "program" /\ asked' = asked
    BY DEF PlaySound, Stay, Running
  <2>3. Channels!Play(s)
    BY <1>1, <1>3, <2>1, <2>2 DEF Channels!Play, OtherTypes
  <2> QED BY <2>3 DEF Channels!Next
<1> QED
  BY <1>2, <1>3 DEF PlaySound

LEMMA SetStep == ASSUME IInv, NEW p \in 1..plays, NEW loop \in BOOLEAN, SetSound(p, loop)
                 PROVE  Channels!SetSound(p, loop)
<1>1. OtherTypes
  BY TypesOf
<1>2. /\ playing' = playing /\ source' = source /\ pc' = pc /\ pc = "program" /\ asked' = p
  BY DEF SetSound, Running, Stay
<1>3. CASE Found(issued[p])
  BY <1>2, <1>3, OwnVoice DEF SetSound, Channels!SetSound
<1>4. CASE ~Found(issued[p])
  <2>1. p \notin playing
    BY <1>1, <1>4, StaleHandle DEF OtherTypes
  <2> QED
    BY <1>2, <1>4, <2>1 DEF SetSound, Channels!SetSound
<1> QED
  BY <1>3, <1>4

LEMMA StopStep == ASSUME IInv, NEW p \in 1..plays, StopSound(p) PROVE Channels!StopSound(p)
<1>1. OtherTypes
  BY TypesOf
<1>2. playing' = playing \ {p}
  <2>1. CASE Found(issued[p])
    BY <2>1, OwnVoice DEF StopSound
  <2>2. CASE ~Found(issued[p])
    BY <1>1, <2>2, StaleHandle DEF OtherTypes, StopSound
  <2> QED BY <2>1, <2>2
<1>3. /\ UNCHANGED <<source, looping, pc>> /\ pc = "program" /\ asked' = p
  BY DEF StopSound, Running, Stay
<1> QED
  BY <1>2, <1>3, OverStep DEF Channels!StopSound

LEMMA FinishStep == ASSUME IInv, NEW p \in 1..plays, Finish(p) PROVE Channels!Finish(p)
<1>1. /\ UNCHANGED <<source, looping, pc, asked>> /\ p \in playing \ looping
      /\ playing' = playing \ {p}
  BY DEF Finish, Stay
<1> QED
  BY <1>1, OverStep DEF Channels!Finish

LEMMA DeleteStep == ASSUME IInv, NEW s \in Sounds, DeleteSound(s) PROVE Channels!DeleteSound(s)
<1>1. OtherTypes /\ PoolTypes
  BY TypesOf
<1>2. /\ UNCHANGED <<source, looping, pc, asked>> /\ pc = "program"
      /\ playing' = playing \ {v \in live : source[v] = s}
  BY DEF DeleteSound, Running, Stay
<1>3. playing' = playing \ {p \in 1..Len(source) : source[p] = s}
  BY <1>1, <1>2 DEF OtherTypes, PoolTypes
<1> QED
  BY <1>2, <1>3, OverStep DEF Channels!DeleteSound, Channels!Playback

\* The reaper destroys what has stopped, the flush cuts off what has not.
LEMMA ScanStep == ASSUME IInv, Reap \/ Flush PROVE [Channels!Next]_Channels!channels
<1>1. OtherTypes /\ PoolTypes /\ PoolInv
  BY TypesOf
<1>2. CASE UNCHANGED channels /\ pc' = pc
  BY <1>2, Unseen
<1>3. CASE Destroyed(cursor) /\ pool[cursor].occupied /\ cursor \in Index /\ pc' = pc
           /\ (pc = "flush" \/ pool[cursor].voice \notin playing)
  <2> DEFINE v == pool[cursor].voice
  <2>1. v \in 1..plays /\ UNCHANGED <<source, looping, pc, asked>> /\ playing' = playing \ {v}
    BY <1>1, <1>3 DEF PoolInv, SlotsHold, PoolTypes, Destroyed
  <2> HIDE DEF v
  <2>2. CASE pc = "flush"
    <3>1. Channels!Cut(v) /\ v \in 1..Len(source)
      BY <1>1, <2>1, <2>2, OverStep DEF Channels!Cut, OtherTypes
    <3> QED BY <3>1 DEF Channels!Next, Channels!Playback
  <2>3. CASE v \notin playing
    BY <2>1, <2>3, Unseen DEF channels
  <2> QED BY <1>3, <2>2, <2>3 DEF v
<1> QED
  BY <1>2, <1>3 DEF Reap, Flush

LEMMA ExitStep == ASSUME UNCHANGED channels, AboutToExit PROVE Channels!Exit
BY DEF channels, AboutToExit, Channels!Exit

LEMMA StepRefines == ASSUME IInv, [Next]_vars PROVE [Channels!Next]_Channels!channels
<1>1. OtherTypes /\ Len(source) = plays
  BY TypesOf DEF OtherTypes
<1>2. CASE \E s \in Sounds : LoadSound(s)
  BY <1>2, Unseen DEF LoadSound, Stay
<1>3. CASE \E s \in Sounds : DeleteSound(s)
  BY <1>3, DeleteStep DEF Channels!Next
<1>4. CASE \E s \in Sounds \cup {File} : PlaySound(s)
  BY <1>4, PlayStep
<1>5. CASE NullSound
  <2>1. CASE AboutToExit
    BY <1>5, <2>1, ExitStep DEF NullSound, Channels!Next
  <2>2. CASE Stay
    BY <1>5, <2>2, Unseen DEF NullSound, Stay
  <2> QED BY <1>5, <2>1, <2>2 DEF NullSound
<1>6. CASE \E p \in 1..plays : StopSound(p) \/ Finish(p)
  BY <1>1, <1>6, StopStep, FinishStep DEF Channels!Next, Channels!Playback
<1>7. CASE \E p \in 1..plays, loop \in BOOLEAN : SetSound(p, loop)
  BY <1>1, <1>7, SetStep DEF Channels!Next, Channels!Playback
<1>8. CASE Screen
  BY <1>8, Unseen DEF Screen, Stay
<1>9. CASE DrawScreen
  BY <1>9, Unseen DEF DrawScreen, Running
<1>10. CASE End
  BY <1>10, ExitStep DEF End, Channels!Next
<1>11. CASE Reap \/ Flush
  BY <1>11, ScanStep
<1>12. CASE EndFrame
  <2>1. CASE pc' = "program"
    BY <1>12, <2>1, Unseen DEF EndFrame
  <2>2. CASE AboutToExit
    BY <1>12, <2>2, ExitStep DEF EndFrame, Channels!Next
  <2> QED BY <1>12, <2>1, <2>2 DEF EndFrame
<1>13. CASE Exit
  BY <1>13, Unseen DEF Exit
<1>14. CASE UNCHANGED vars
  BY <1>14, Unseen DEF vars, channels
<1> QED
  BY <1>2, <1>3, <1>4, <1>5, <1>6, <1>7, <1>8, <1>9, <1>10, <1>11, <1>12, <1>13, <1>14
     DEF Next, Hook

(* The sound runtime implements ChannelSpec: each SoundChannel addresses one
   playback for ever, and only StopSound, DeleteSound, the end of what is
   played and the end of the program silence it.                            *)
THEOREM Refinement == Spec => Refines
<1>1. Init => Channels!Init
  BY DEF Init, Channels!Init
<1>2. IInv /\ [Next]_vars => [Channels!Next]_Channels!channels
  BY StepRefines
<1> QED
  BY <1>1, <1>2, Invariant, PTL DEF Spec, Refines, Channels!Spec
=============================================================================
