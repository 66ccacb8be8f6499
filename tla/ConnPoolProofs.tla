--------------------------- MODULE ConnPoolProofs ---------------------------
(***************************************************************************)
(* For any number of callers, any pool size and any number of sockets: the   *)
(* slot accounting of getConn and releaseConn is exact, connections are      *)
(* never shared, and no call reads the response to another call's request.   *)
(***************************************************************************)
EXTENDS ConnPool, FiniteSetTheorems, TLAPS

(* A call has a connection exactly between checkout and release.             *)
ConnWhenHeld == \A c \in Clients : conn[c] # NoConn <=> pc[c] \in ConnPCs

(* The only outstanding responses are those of the calls that wait for them, *)
(* each on its own connection.                                               *)
WireMatchesReaders ==
  \A k \in Conns, c \in Clients : c \in wire[k] <=> pc[c] = "read" /\ conn[c] = k

Inv ==
  /\ TypeOK
  /\ IsFiniteSet(idle)
  /\ SlotsAccounted
  /\ ConnWhenHeld
  /\ ConnsExclusive
  /\ WireMatchesReaders

(* The client of a step enters or leaves the set of slot holders with its    *)
(* program counter; nobody else does.                                        *)
LEMMA HoldersStep ==
  ASSUME TypeOK, NEW c \in Clients, NEW l \in PCs, Goto(c, l)
  PROVE  Holders' = IF l \in SlotPCs THEN Holders \cup {c} ELSE Holders \ {c}
  BY DEF TypeOK, Goto, Holders

LEMMA HoldersFinite == IsFiniteSet(Holders)
  <1>1. Holders \in SUBSET Clients BY DEF Holders
  <1> QED BY <1>1, FS_Subset, ClientsAssumption

(* A step that leaves idle alone and moves one client between places that    *)
(* both own, or both do not own, a slot keeps the accounting.                *)
LEMMA SameSlots ==
  ASSUME TypeOK, SlotsAccounted, NEW c \in Clients, NEW l \in PCs, Goto(c, l),
         pc[c] \in SlotPCs <=> l \in SlotPCs,
         UNCHANGED <<idle, numConns, drained>>
  PROVE  SlotsAccounted'
  <1>1. Holders' = Holders
    BY HoldersStep DEF Holders
  <1> QED BY <1>1 DEF SlotsAccounted

(* getConn's critical section and the two places that give a slot back.      *)
LEMMA SlotTaken ==
  ASSUME TypeOK, SlotsAccounted, NEW c \in Clients, NEW l \in PCs, Goto(c, l),
         pc[c] \notin SlotPCs, l \in SlotPCs, numConns < PoolSize,
         numConns' = numConns + 1, UNCHANGED <<idle, drained>>, IsFiniteSet(idle)
  PROVE  SlotsAccounted'
  <1>1. Holders' = Holders \cup {c} BY HoldersStep
  <1>2. c \notin Holders BY DEF Holders
  <1>3. Cardinality(Holders') = Cardinality(Holders) + 1
    BY <1>1, <1>2, HoldersFinite, FS_AddElement
  <1>4. Cardinality(Holders) \in Nat /\ Cardinality(idle) \in Nat
    BY HoldersFinite, FS_CardinalityType
  <1> QED BY <1>3, <1>4, PoolSizeAssumption DEF SlotsAccounted, TypeOK

LEMMA SlotFreed ==
  ASSUME TypeOK, SlotsAccounted, NEW c \in Clients, NEW l \in PCs, Goto(c, l),
         pc[c] \in SlotPCs, l \notin SlotPCs,
         numConns' = numConns - 1, UNCHANGED <<idle, drained>>, IsFiniteSet(idle)
  PROVE  SlotsAccounted' /\ numConns' \in Nat
  <1>1. Holders' = Holders \ {c} BY HoldersStep
  <1>2. c \in Holders BY DEF Holders
  <1>3. Cardinality(Holders) # 0 BY <1>2, HoldersFinite, FS_EmptySet
  <1>4. Cardinality(Holders') = Cardinality(Holders) - 1
    BY <1>1, <1>2, HoldersFinite, FS_RemoveElement
  <1>5. Cardinality(Holders) \in Nat /\ Cardinality(idle) \in Nat
    BY HoldersFinite, FS_CardinalityType
  <1> QED BY <1>4, <1>5, <1>3, PoolSizeAssumption DEF SlotsAccounted, TypeOK

(* A receive moves one connection from the channel to the caller.            *)
LEMMA CheckoutSlots ==
  ASSUME Inv, NEW c \in Clients, pc[c] \in {"get", "select"}, Checkout(c),
         UNCHANGED <<numConns, drained>>
  PROVE  SlotsAccounted' /\ IsFiniteSet(idle')
  <1> USE DEF Inv
  <1>1. PICK k \in idle : idle' = idle \ {k} /\ Goto(c, "write")
    BY DEF Checkout
  <1>2. IsFiniteSet(idle') /\ Cardinality(idle') = Cardinality(idle) - 1
    BY <1>1, FS_RemoveElement
  <1>3. Holders' = Holders \cup {c} /\ c \notin Holders
    BY <1>1, HoldersStep DEF PCs, SlotPCs, Holders
  <1>4. Cardinality(Holders') = Cardinality(Holders) + 1
    BY <1>3, HoldersFinite, FS_AddElement
  <1>5. Cardinality(Holders) \in Nat /\ Cardinality(idle) \in Nat
    BY HoldersFinite, FS_CardinalityType
  <1> QED BY <1>2, <1>4, <1>5, PoolSizeAssumption DEF SlotsAccounted, TypeOK

(* Some caller owns a slot, so the buffer has a free place.                  *)
LEMMA RoomForHolder ==
  ASSUME TypeOK, IsFiniteSet(idle), SlotsAccounted,
         NEW c \in Clients, pc[c] \in SlotPCs
  PROVE  Cardinality(idle) < PoolSize
  <1>1. c \in Holders BY DEF Holders
  <1>2. Cardinality(Holders) # 0
    BY <1>1, HoldersFinite, FS_EmptySet
  <1>3. Cardinality(Holders) \in Nat /\ Cardinality(idle) \in Nat
    BY HoldersFinite, FS_CardinalityType
  <1> QED BY <1>2, <1>3, PoolSizeAssumption DEF SlotsAccounted, TypeOK

LEMMA InitInv == Init => Inv
  <1> SUFFICES ASSUME Init PROVE Inv OBVIOUS
  <1>1. TypeOK BY DEF Init, TypeOK, PCs
  <1>2. Holders = {} BY DEF Init, Holders, SlotPCs
  <1>3. IsFiniteSet(idle) /\ SlotsAccounted
    BY <1>2, FS_EmptySet, PoolSizeAssumption DEF Init, SlotsAccounted
  <1>4. ConnWhenHeld /\ ConnsExclusive /\ WireMatchesReaders
    BY DEF Init, ConnWhenHeld, ConnsExclusive, WireMatchesReaders, ConnPCs
  <1> QED BY <1>1, <1>3, <1>4 DEF Inv

(* The conjuncts of Inv other than the accounting.                           *)
Rest == TypeOK /\ ConnWhenHeld /\ ConnsExclusive /\ WireMatchesReaders

(* Actions that move one client and change neither its connection, nor what  *)
(* is outstanding, nor the channel.                                          *)
LEMMA RestLocal ==
  ASSUME Rest, NEW c \in Clients, NEW l \in PCs, Goto(c, l),
         pc[c] \notin ConnPCs, l \notin ConnPCs,
         numConns' \in Nat, attempt' \in [Clients -> {1, 2}],
         UNCHANGED <<idle, stopping, alive, drained, conn, wire>>
  PROVE  Rest'
  <1> USE DEF Rest
  <1>1. TypeOK' BY DEF TypeOK, Goto
  <1>2. ConnWhenHeld' BY DEF TypeOK, Goto, ConnWhenHeld
  <1>3. ConnsExclusive' BY DEF ConnsExclusive
  <1>4. WireMatchesReaders'
    BY DEF TypeOK, Goto, WireMatchesReaders, ConnPCs
  <1> QED BY <1>1, <1>2, <1>3, <1>4

LEMMA NextInv == Inv /\ [Next]_vars => Inv'
  <1> SUFFICES ASSUME Inv, [Next]_vars PROVE Inv'
    OBVIOUS
  <1> USE DEF Inv
  <1>0. Rest BY DEF Rest
  <1>a. SUFFICES Rest' /\ IsFiniteSet(idle') /\ SlotsAccounted'
    BY DEF Rest
  <1> DEFINE Goal == Rest' /\ IsFiniteSet(idle') /\ SlotsAccounted'
  <1>1. ASSUME NEW c \in Clients, Dispatch(c) PROVE Goal
    <2>1. Rest'
      BY <1>0, <1>1, RestLocal DEF Dispatch, PCs, ConnPCs, TypeOK
    <2>2. SlotsAccounted'
      BY <1>1, SameSlots DEF Dispatch, PCs, SlotPCs
    <2> QED BY <1>1, <2>1, <2>2 DEF Dispatch
  <1>2. ASSUME NEW c \in Clients, GetIdle(c) \/ SelectIdle(c) PROVE Goal
    <2> USE <1>2 DEF GetIdle, SelectIdle
    <2>1. pc[c] \in {"get", "select"} /\ Checkout(c) OBVIOUS
    <2>2. SlotsAccounted' /\ IsFiniteSet(idle')
      BY <2>1, CheckoutSlots
    <2>3. PICK k \in idle :
            /\ idle' = idle \ {k}
            /\ conn' = [conn EXCEPT ![c] = k]
            /\ pc' = [pc EXCEPT ![c] = "write"]
      BY DEF Checkout, Goto
    <2>4. UNCHANGED <<numConns, stopping, alive, drained, attempt, wire>>
      OBVIOUS
    <2> HIDE <1>2 DEF GetIdle, SelectIdle
    <2>5. TypeOK' BY <2>3, <2>4 DEF TypeOK, PCs
    <2>6. ConnWhenHeld'
      BY <2>3, NoConnAssumption DEF ConnWhenHeld, ConnPCs, TypeOK
    <2>7. ConnsExclusive'
      BY <2>1, <2>3, NoConnAssumption DEF ConnsExclusive, TypeOK
    <2>8. WireMatchesReaders'
      BY <2>1, <2>3, <2>4, NoConnAssumption
      DEF WireMatchesReaders, TypeOK, ConnWhenHeld, ConnPCs
    <2> QED BY <2>2, <2>5, <2>6, <2>7, <2>8 DEF Rest
  <1>3. ASSUME NEW c \in Clients, GetNone(c) \/ SelectBlocks(c) PROVE Goal
    <2>1. Rest'
      BY <1>0, <1>3, RestLocal DEF GetNone, SelectBlocks, PCs, ConnPCs, TypeOK
    <2>2. SlotsAccounted'
      BY <1>3, SameSlots DEF GetNone, SelectBlocks, PCs, SlotPCs
    <2> QED BY <1>3, <2>1, <2>2 DEF GetNone, SelectBlocks
  <1>4. ASSUME NEW c \in Clients, Reserve(c) PROVE Goal
    <2>1. Rest'
      BY <1>0, <1>4, RestLocal DEF Reserve, PCs, ConnPCs, TypeOK
    <2>2. CASE numConns < PoolSize
      BY <1>4, <2>1, <2>2, SlotTaken DEF Reserve, BelowSize, PCs, SlotPCs
    <2>3. CASE ~(numConns < PoolSize)
      BY <1>4, <2>1, <2>3, SameSlots DEF Reserve, BelowSize, PCs, SlotPCs
    <2> QED BY <2>2, <2>3
  <1>5. ASSUME NEW c \in Clients, DialOK(c) PROVE Goal
    <2>1. SlotsAccounted'
      BY <1>5, SameSlots DEF DialOK, PCs, SlotPCs
    <2>2. PICK k \in Conns \ Open : conn' = [conn EXCEPT ![c] = k]
      BY <1>5 DEF DialOK
    <2>3. /\ pc[c] = "dial" /\ pc' = [pc EXCEPT ![c] = "write"]
          /\ UNCHANGED <<idle, numConns, stopping, alive, drained, attempt, wire>>
      BY <1>5 DEF DialOK, Goto
    <2>4. TypeOK' BY <2>2, <2>3 DEF TypeOK, PCs
    <2>5. ConnWhenHeld'
      BY <2>2, <2>3, NoConnAssumption DEF ConnWhenHeld, ConnPCs, TypeOK
    <2>6. ConnsExclusive'
      BY <2>2, <2>3, NoConnAssumption DEF ConnsExclusive, TypeOK, Open
    <2>7. WireMatchesReaders'
      BY <2>2, <2>3 DEF WireMatchesReaders, TypeOK
    <2> QED BY <2>1, <2>3, <2>4, <2>5, <2>6, <2>7 DEF Rest
  <1>6. ASSUME NEW c \in Clients, DialError(c) PROVE Goal
    <2>1. Rest'
      BY <1>0, <1>6, RestLocal DEF DialError, PCs, ConnPCs, TypeOK
    <2>2. SlotsAccounted'
      BY <1>6, SameSlots DEF DialError, PCs, SlotPCs
    <2> QED BY <1>6, <2>1, <2>2 DEF DialError
  <1>7. ASSUME NEW c \in Clients, Undial(c) PROVE Goal
    <2>1. SlotsAccounted' /\ numConns' \in Nat
      BY <1>7, SlotFreed DEF Undial, PCs, SlotPCs
    <2>2. Rest'
      BY <1>0, <1>7, <2>1, RestLocal DEF Undial, PCs, ConnPCs, TypeOK
    <2> QED BY <1>7, <2>1, <2>2 DEF Undial
  <1>8. ASSUME NEW c \in Clients, CtxDone(c) PROVE Goal
    <2>1. Rest'
      BY <1>0, <1>8, RestLocal DEF CtxDone, PCs, ConnPCs, TypeOK
    <2>2. SlotsAccounted'
      BY <1>8, SameSlots DEF CtxDone, PCs, SlotPCs
    <2> QED BY <1>8, <2>1, <2>2 DEF CtxDone
  <1>9. ASSUME NEW c \in Clients, RoundTripWrite(c) PROVE Goal
    <2>1. SlotsAccounted'
      BY <1>9, SameSlots DEF RoundTripWrite, PCs, SlotPCs
    <2>2. conn[c] \in Conns
      BY <1>9 DEF RoundTripWrite, ConnWhenHeld, ConnPCs, TypeOK
    <2> USE <1>9, <2>2 DEF RoundTripWrite, Goto
    <2>3. TypeOK' BY DEF TypeOK, PCs
    <2>4. ConnWhenHeld' BY DEF ConnWhenHeld, ConnPCs, TypeOK
    <2>5. ConnsExclusive' BY DEF ConnsExclusive
    <2>6. WireMatchesReaders' BY DEF WireMatchesReaders, TypeOK
    <2> QED BY <2>1, <2>3, <2>4, <2>5, <2>6 DEF Rest
  <1>10. ASSUME NEW c \in Clients, RoundTripRead(c) PROVE Goal
    <2>1. SlotsAccounted'
      BY <1>10, SameSlots DEF RoundTripRead, PCs, SlotPCs
    <2>2. conn[c] \in Conns
      BY <1>10 DEF RoundTripRead, ConnWhenHeld, ConnPCs, TypeOK
    <2>3. PICK d \in wire[conn[c]] : wire' = [wire EXCEPT ![conn[c]] = @ \ {d}]
      BY <1>10 DEF RoundTripRead
    <2>4. d = c
      BY <2>2, <2>3, NoConnAssumption DEF WireMatchesReaders, ConnsExclusive, TypeOK
    <2>5. pc[c] = "read" /\ pc' = [pc EXCEPT ![c] = "put"] /\
          UNCHANGED <<idle, numConns, stopping, alive, drained, attempt, conn>>
      BY <1>10 DEF RoundTripRead, Goto
    <2>6. TypeOK' BY <2>2, <2>3, <2>5 DEF TypeOK, PCs
    <2>7. ConnWhenHeld' BY <2>5 DEF ConnWhenHeld, ConnPCs, TypeOK
    <2>8. ConnsExclusive' BY <2>5 DEF ConnsExclusive
    <2>9. WireMatchesReaders'
      BY <2>2, <2>3, <2>4, <2>5 DEF WireMatchesReaders, TypeOK
    <2> QED BY <2>1, <2>5, <2>6, <2>7, <2>8, <2>9 DEF Rest
  <1>11. ASSUME NEW c \in Clients, RoundTripError(c) PROVE Goal
    <2>1. SlotsAccounted'
      BY <1>11, SameSlots DEF RoundTripError, PCs, SlotPCs
    <2>2. conn[c] \in Conns
      BY <1>11 DEF RoundTripError, ConnWhenHeld, ConnPCs, TypeOK
    <2> USE <1>11, <2>2 DEF RoundTripError, Goto
    <2>3. TypeOK' BY DEF TypeOK, PCs
    <2>4. ConnWhenHeld' BY DEF ConnWhenHeld, ConnPCs, TypeOK
    <2>5. ConnsExclusive' BY DEF ConnsExclusive, TypeOK
    <2>6. WireMatchesReaders'
      BY NoConnAssumption DEF WireMatchesReaders, ConnsExclusive, TypeOK
    <2> QED BY <2>1, <2>3, <2>4, <2>5, <2>6 DEF Rest
  <1>12. ASSUME NEW c \in Clients, FreeSlot(c) PROVE Goal
    <2>1. SlotsAccounted' /\ numConns' \in Nat
      BY <1>12, SlotFreed DEF FreeSlot, PCs, SlotPCs
    <2>2. Rest'
      BY <1>0, <1>12, <2>1, RestLocal DEF FreeSlot, PCs, ConnPCs, TypeOK
    <2> QED BY <1>12, <2>1, <2>2 DEF FreeSlot
  <1>13. ASSUME NEW c \in Clients, PutHandoff(c) PROVE Goal
    <2>1. PICK d \in Waiting :
            /\ conn' = [conn EXCEPT ![d] = conn[c], ![c] = NoConn]
            /\ pc' = [pc EXCEPT ![d] = "write", ![c] = "ready"]
      BY <1>13 DEF PutHandoff
    <2>2. /\ pc[c] = "put" /\ pc[d] = "wait" /\ d \in Clients /\ c # d
          /\ UNCHANGED <<idle, numConns, stopping, alive, drained, attempt, wire>>
      BY <1>13 DEF PutHandoff, Waiting
    <2>3. conn[c] \in Conns /\ conn[d] = NoConn
      BY <2>2 DEF ConnWhenHeld, ConnPCs, TypeOK
    <2>4. TypeOK' BY <2>1, <2>2, <2>3 DEF TypeOK, PCs
    <2>5. ConnWhenHeld'
      BY <2>1, <2>2, <2>3, NoConnAssumption DEF ConnWhenHeld, ConnPCs, TypeOK
    <2>6. ConnsExclusive'
      BY <2>1, <2>2, <2>3, NoConnAssumption DEF ConnsExclusive, TypeOK
    <2>7. WireMatchesReaders'
      BY <2>1, <2>2, <2>3 DEF WireMatchesReaders, TypeOK
    <2>8. SlotsAccounted'
      <3>1. Holders' = (Holders \cup {d}) \ {c} /\ c \in Holders /\ d \notin Holders
        BY <2>1, <2>2 DEF Holders, SlotPCs, TypeOK
      <3>2. IsFiniteSet(Holders \cup {d})
            /\ Cardinality(Holders \cup {d}) = Cardinality(Holders) + 1
        BY <3>1, HoldersFinite, FS_AddElement
      <3>3. Cardinality((Holders \cup {d}) \ {c}) = Cardinality(Holders \cup {d}) - 1
        BY <3>1, <3>2, FS_RemoveElement
      <3>4. Cardinality(Holders) \in Nat
        BY HoldersFinite, FS_CardinalityType
      <3>5. Cardinality(Holders') = Cardinality(Holders)
        BY <3>1, <3>2, <3>3, <3>4
      <3> QED BY <2>2, <3>5 DEF SlotsAccounted
    <2> QED BY <2>2, <2>4, <2>5, <2>6, <2>7, <2>8 DEF Rest
  <1>14. ASSUME NEW c \in Clients, Put(c) PROVE Goal
    <2>1. pc[c] = "put" BY <1>14 DEF Put
    <2>2. Cardinality(idle) < PoolSize
      BY <2>1, RoomForHolder DEF SlotPCs
    <2>3. conn[c] \in Conns /\ conn[c] \notin idle
      BY <2>1, NoConnAssumption DEF ConnWhenHeld, ConnPCs, TypeOK, ConnsExclusive
    <2>4. /\ idle' = idle \cup {conn[c]}
          /\ conn' = [conn EXCEPT ![c] = NoConn]
          /\ pc' = [pc EXCEPT ![c] = "ready"]
          /\ UNCHANGED <<numConns, stopping, alive, drained, attempt, wire>>
      BY <1>14, <2>2 DEF Put, Goto
    <2>5. TypeOK' BY <2>3, <2>4 DEF TypeOK, PCs
    <2>6. ConnWhenHeld' BY <2>4 DEF ConnWhenHeld, ConnPCs, TypeOK
    <2>7. ConnsExclusive'
      BY <2>3, <2>4, NoConnAssumption DEF ConnsExclusive, TypeOK
    <2>8. WireMatchesReaders'
      BY <2>1, <2>4 DEF WireMatchesReaders, TypeOK
    <2>9. IsFiniteSet(idle') /\ Cardinality(idle') = Cardinality(idle) + 1
      BY <2>3, <2>4, FS_AddElement
    <2>10. SlotsAccounted'
      <3>1. Holders' = Holders \ {c} /\ c \in Holders
        BY <2>1, <2>4, HoldersStep DEF Goto, PCs, SlotPCs, Holders
      <3>2. Cardinality(Holders') = Cardinality(Holders) - 1
        BY <3>1, HoldersFinite, FS_RemoveElement
      <3>3. Cardinality(Holders) \in Nat /\ Cardinality(idle) \in Nat
        BY HoldersFinite, FS_CardinalityType
      <3> QED BY <2>4, <2>9, <3>2, <3>3 DEF SlotsAccounted, TypeOK
    <2> QED BY <2>5, <2>6, <2>7, <2>8, <2>9, <2>10 DEF Rest
  <1>15. ASSUME StopBegin \/ StopKill \/ ProcessExit PROVE Goal
    <2>1. UNCHANGED <<idle, numConns, drained, pc, attempt, conn, wire>>
          /\ stopping' \in {"no", "draining", "done"} /\ alive' \in BOOLEAN
      BY <1>15 DEF StopBegin, StopKill, ProcessExit, TypeOK
    <2>2. SlotsAccounted' BY <2>1 DEF SlotsAccounted, Holders
    <2>3. Rest'
      BY <2>1 DEF Rest, TypeOK, ConnWhenHeld, ConnsExclusive, WireMatchesReaders
    <2> QED BY <2>1, <2>2, <2>3
  <1>16. ASSUME StopDrain PROVE Goal
    <2>1. PICK k \in idle : idle' = idle \ {k}
      BY <1>16 DEF StopDrain
    <2>2. drained' = drained + 1 /\
          UNCHANGED <<numConns, stopping, alive, pc, attempt, conn, wire>>
      BY <1>16 DEF StopDrain
    <2>3. IsFiniteSet(idle') /\ Cardinality(idle') = Cardinality(idle) - 1
      BY <2>1, FS_RemoveElement
    <2>4. Holders' = Holders BY <2>2 DEF Holders
    <2>5. Cardinality(Holders) \in Nat /\ Cardinality(idle) \in Nat
      BY HoldersFinite, FS_CardinalityType
    <2>6. SlotsAccounted'
      BY <2>2, <2>3, <2>4, <2>5 DEF SlotsAccounted, TypeOK
    <2>7. Rest'
      BY <2>1, <2>2 DEF Rest, TypeOK, ConnWhenHeld, ConnsExclusive, WireMatchesReaders
    <2> QED BY <2>3, <2>6, <2>7
  <1>17. ASSUME UNCHANGED vars PROVE Goal
    <2>1. SlotsAccounted' BY <1>17 DEF vars, SlotsAccounted, Holders
    <2>2. Rest'
      BY <1>17 DEF vars, Rest, TypeOK, ConnWhenHeld, ConnsExclusive, WireMatchesReaders
    <2> QED BY <1>17, <2>1, <2>2 DEF vars
  <1> QED
    BY <1>1, <1>2, <1>3, <1>4, <1>5, <1>6, <1>7, <1>8, <1>9, <1>10, <1>11, <1>12,
       <1>13, <1>14, <1>15, <1>16, <1>17
    DEF Next, GetConn, RoundTrip, ReleaseConn, Stop

(* The inductive invariant holds throughout.                                 *)
THEOREM Invariance == Spec => []Inv
  BY InitInv, NextInv, PTL DEF Spec

(* Every variable keeps its type; in particular numConns never goes below 0. *)
THEOREM TypeCorrect == Spec => []TypeOK
  <1>1. Inv => TypeOK BY DEF Inv
  <1> QED BY <1>1, Invariance, PTL

(* numConns is exact and bounded by poolSize in every reachable state.       *)
THEOREM SlotsAlwaysAccounted == Spec => []SlotsAccounted
  <1>1. Inv => SlotsAccounted BY DEF Inv
  <1> QED BY <1>1, Invariance, PTL

(* releaseConn never finds the channel full.                                 *)
THEOREM AlwaysRoomToRelease == Spec => []RoomToRelease
  <1>1. Inv => RoomToRelease
    BY RoomForHolder DEF Inv, RoomToRelease, SlotPCs
  <1> QED BY <1>1, Invariance, PTL

(* A connection never serves two calls at once.                              *)
THEOREM ConnsAlwaysExclusive == Spec => []ConnsExclusive
  <1>1. Inv => ConnsExclusive BY DEF Inv
  <1> QED BY <1>1, Invariance, PTL

(* A call only ever reads the response to its own request.                   *)
THEOREM AlwaysOwnResponse == Spec => []OwnResponse
  <1>1. Inv => OwnResponse
    <2> SUFFICES ASSUME Inv, NEW c \in Clients
                 PROVE  /\ pc[c] = "write" => wire[conn[c]] = {}
                        /\ pc[c] = "read" => wire[conn[c]] = {c}
      BY DEF OwnResponse
    <2>1. ASSUME pc[c] \in {"write", "read"} PROVE conn[c] \in Conns
      BY <2>1 DEF Inv, TypeOK, ConnWhenHeld, ConnPCs
    <2>2. ASSUME pc[c] \in {"write", "read"}, NEW d \in wire[conn[c]] PROVE d = c
      BY <2>1, <2>2, NoConnAssumption
      DEF Inv, TypeOK, WireMatchesReaders, ConnsExclusive
    <2>3. pc[c] = "write" => c \notin wire[conn[c]]
      BY <2>1 DEF Inv, WireMatchesReaders
    <2>4. pc[c] = "read" => c \in wire[conn[c]]
      BY <2>1 DEF Inv, WireMatchesReaders
    <2> QED BY <2>2, <2>3, <2>4
  <1> QED BY <1>1, Invariance, PTL

=============================================================================
