--------------------------- MODULE I2cBus_proofs ---------------------------
(***************************************************************************)
(* Proofs about the shared I2C bus, for any number of handles, any lengths *)
(* and any timeout: transfers never mix, the lock never leaks, buffers are *)
(* parsed whole, and no transfer outlasts MaxHold.                         *)
(*                                                                         *)
(* The last part is about the driver on its controller, for any number of  *)
(* slaves cut off in mid-byte: every step is a step of the bus, so that    *)
(* all of the above holds there too, and every byte is stored in its place.*)
(***************************************************************************)
EXTENDS I2cController, TLAPS

M == I2C_TIMEOUT_MAX

\* How far a read of k bytes has got, in ticks of the slowest transfer.
Bytes(k) == k * (M + 2)

\* What each state of a handle says of its counters.  A handle that waits
\* starts with a cleared timeout; one in a transfer has used the bus for no
\* longer than its state, its index and its timeout account for.
Progress(i) ==
  /\ state[i] = "STARTING" => timeout[i] = 0
  /\ state[i] = "SELECT_MODE" => timeout[i] = 0 /\ held <= 1
  /\ state[i] = "RESTART" => held <= 2 + timeout[i]
  /\ state[i] = "WAIT_RESTART" => timeout[i] = 0 /\ held <= 3 + M
  /\ state[i] = "READ" =>
       /\ timeout[i] = 0 /\ index[i] < Len[i]
       /\ held <= 4 + M + Bytes(index[i])
  /\ state[i] = "WAIT_RX" =>
       /\ index[i] < Len[i]
       /\ held <= 5 + M + Bytes(index[i]) + timeout[i]
  /\ state[i] = "STOP" =>
       /\ index[i] = Len[i]
       /\ held <= 4 + M + Bytes(Len[i])

IInv ==
  /\ TypeOK
  /\ NoCrossTalk
  /\ LockHasOwner
  /\ \A i \in Handle : Progress(i)

----------------------------------------------------------------------------
LEMMA Numbers ==
  /\ N \in Nat \ {0} /\ M \in Nat /\ Len \in [Handle -> Nat \ {0}]
  /\ 1 \in Handle
  /\ 0 \notin Handle
  /\ \A i \in Handle : i \in Nat /\ After(i) \in Handle
BY BusAssumption DEF M, Handle, After

LEMMA BytesGrow ==
  /\ Bytes(0) = 0
  /\ \A k \in Nat : Bytes(k) \in Nat
  /\ \A k \in Nat : Bytes(k + 1) = Bytes(k) + M + 2
  /\ \A k, n \in Nat : k <= n => Bytes(k) <= Bytes(n)
<1>1. M \in Nat
  BY Numbers
<1>2. Bytes(0) = 0
  BY <1>1 DEF Bytes
<1>3. ASSUME NEW k \in Nat
      PROVE  Bytes(k) \in Nat /\ Bytes(k + 1) = Bytes(k) + M + 2
  BY <1>1 DEF Bytes
<1>4. ASSUME NEW k \in Nat, NEW n \in Nat, k <= n
      PROVE  Bytes(k) <= Bytes(n)
  BY <1>1, <1>4 DEF Bytes
<1> QED
  BY <1>2, <1>3, <1>4

\* The first state.
LEMMA InitIInv == Init => IInv
<1> SUFFICES ASSUME Init PROVE IInv
  OBVIOUS
<1>1. \A i \in Handle : state[i] = "IDLE"
  BY DEF Init
<1>2. TypeOK
  <2>1. /\ turn \in Handle /\ active_addr \in Handle \cup {0} /\ held \in Nat
        /\ bus_locked \in BOOLEAN /\ bus_free \in BOOLEAN
    BY Numbers DEF Init
  <2>2. /\ state \in [Handle -> InTransfer \cup {"IDLE", "STARTING"}]
        /\ passed \in [Handle -> SUBSET Handle]
    BY DEF Init
  <2>3. /\ index \in [Handle -> Nat]
        /\ \A i \in Handle : index[i] <= Len[i]
        /\ timeout \in [Handle -> 0..I2C_TIMEOUT_MAX]
        /\ error_count \in [Handle -> 0..2]
    BY Numbers DEF Init, M
  <2> QED
    BY <2>1, <2>2, <2>3 DEF TypeOK
<1>3. NoCrossTalk /\ LockHasOwner
  BY <1>1 DEF Init, NoCrossTalk, LockHasOwner, InTransfer
<1>4. \A i \in Handle : Progress(i)
  BY <1>1 DEF Progress
<1> QED
  BY <1>2, <1>3, <1>4 DEF IInv

\* Reads are asked for: handles outside a transfer stay outside.
LEMMA ReadAllIInv == IInv /\ ReadAll => IInv'
<1> SUFFICES ASSUME IInv, ReadAll PROVE IInv'
  OBVIOUS
<1>1. TypeOK'
  BY Numbers DEF IInv, ReadAll, TypeOK, bus, InTransfer, M
<1>2. \A i \in Handle : /\ state'[i] \in InTransfer <=> state[i] \in InTransfer
                        /\ state[i] \in InTransfer => state'[i] = state[i]
  BY DEF IInv, ReadAll, TypeOK, InTransfer
<1>3. NoCrossTalk' /\ LockHasOwner'
  BY <1>2 DEF IInv, ReadAll, NoCrossTalk, LockHasOwner, bus
<1>4. \A i \in Handle : Progress(i)'
  <2> SUFFICES ASSUME NEW i \in Handle PROVE Progress(i)'
    OBVIOUS
  <2>1. Progress(i)
    BY DEF IInv
  <2>2. CASE state[i] = "IDLE"
    <3>1. state'[i] = "STARTING" /\ timeout'[i] = 0
      BY <2>2 DEF IInv, ReadAll, TypeOK
    <3> QED
      BY <3>1 DEF Progress
  <2>3. CASE state[i] # "IDLE"
    <3>1. /\ state'[i] = state[i] /\ index'[i] = index[i]
          /\ timeout'[i] = timeout[i] /\ held' = held
      BY <2>3 DEF IInv, ReadAll, TypeOK, bus
    <3> QED
      BY <2>1, <3>1 DEF Progress, Bytes, M
  <2> QED
    BY <2>2, <2>3
<1> QED
  BY <1>1, <1>3, <1>4 DEF IInv

----------------------------------------------------------------------------
(* What one handle's tick leaves alone, and the two ways in which the      *)
(* owner of the bus can move: it keeps the bus, or it gives it back.       *)

Others(i) ==
  \A j \in Handle \ {i} :
    state'[j] = state[j] /\ index'[j] = index[j] /\ timeout'[j] = timeout[j]

\* While a handle is in a transfer, no other is.
LEMMA OneOwner ==
  ASSUME IInv, NEW i \in Handle, state[i] \in InTransfer,
         NEW j \in Handle, j # i
  PROVE  state[j] \notin InTransfer
BY DEF IInv, NoCrossTalk

LEMMA KeepsBus ==
  ASSUME IInv, TypeOK', NEW i \in Handle, Others(i),
         state[i] \in InTransfer, state'[i] \in InTransfer,
         bus_locked' = bus_locked, bus_free' = bus_free, active_addr' = i,
         Progress(i)'
  PROVE  IInv'
<1>1. \A j \in Handle \ {i} : state'[j] \notin InTransfer
  BY OneOwner DEF Others
<1>2. NoCrossTalk'
  BY <1>1 DEF NoCrossTalk
<1>3. LockHasOwner'
  BY DEF IInv, LockHasOwner
<1>4. \A j \in Handle : Progress(j)'
  <2> SUFFICES ASSUME NEW j \in Handle, j # i PROVE Progress(j)'
    OBVIOUS
  <2>1. state'[j] \notin InTransfer
    BY <1>1
  <2>2. state'[j] = "STARTING" => timeout'[j] = 0
    BY DEF IInv, Progress, Others
  <2> QED
    BY <2>1, <2>2 DEF Progress, InTransfer
<1> QED
  BY <1>2, <1>3, <1>4 DEF IInv

LEMMA GivesBack ==
  ASSUME IInv, TypeOK', NEW i \in Handle, Others(i),
         state[i] \in InTransfer, state'[i] = "IDLE", ReleaseBus
  PROVE  IInv'
<1>1. \A j \in Handle : state'[j] \notin InTransfer
  BY OneOwner DEF Others, InTransfer
<1>2. NoCrossTalk' /\ LockHasOwner'
  BY <1>1 DEF NoCrossTalk, LockHasOwner, ReleaseBus
<1>3. \A j \in Handle : Progress(j)'
  <2> SUFFICES ASSUME NEW j \in Handle PROVE Progress(j)'
    OBVIOUS
  <2>1. state'[j] = "STARTING" => timeout'[j] = 0
    BY DEF IInv, Progress, Others
  <2> QED
    BY <1>1, <2>1 DEF Progress, InTransfer
<1> QED
  BY <1>2, <1>3 DEF IInv

\* A failure gives the bus back, wherever it happens.
LEMMA FailIInv ==
  ASSUME IInv, NEW i \in Handle, state[i] \in InTransfer,
         turn' = After(i), Fail(i)
  PROVE  IInv'
<1>1. TypeOK'
  <2>1. turn' \in Handle
    BY Numbers
  <2>2. /\ state' \in [Handle -> InTransfer \cup {"IDLE", "STARTING"}]
        /\ index' \in [Handle -> Nat]
        /\ \A j \in Handle : index'[j] <= Len[j]
        /\ timeout' \in [Handle -> 0..I2C_TIMEOUT_MAX]
    BY Numbers DEF IInv, TypeOK, Fail, Goto, M
  <2>3. (error_count[i] + 1) % 3 \in 0..2
    BY DEF IInv, TypeOK
  <2>4. error_count' \in [Handle -> 0..2]
    BY <2>3 DEF IInv, TypeOK, Fail
  <2>5. /\ bus_locked' \in BOOLEAN /\ bus_free' \in BOOLEAN
        /\ active_addr' \in Handle \cup {0} /\ held' \in Nat
        /\ passed' \in [Handle -> SUBSET Handle]
    BY DEF IInv, TypeOK, Fail, ReleaseBus
  <2> QED
    BY <2>1, <2>2, <2>4, <2>5 DEF TypeOK
<1>2. state'[i] = "IDLE" /\ Others(i)
  BY DEF IInv, TypeOK, Fail, Goto, Others
<1> QED
  BY <1>1, <1>2, GivesBack DEF Fail

LEMMA NotReadyIInv ==
  ASSUME IInv, NEW i \in Handle, state[i] \in {"RESTART", "WAIT_RX"},
         turn' = After(i), NotReady(i)
  PROVE  IInv'
<1>0. state[i] \in InTransfer
  BY DEF InTransfer
<1>1. CASE timeout[i] + 1 > I2C_TIMEOUT_MAX
  BY <1>0, <1>1, FailIInv DEF NotReady
<1>2. CASE ~(timeout[i] + 1 > I2C_TIMEOUT_MAX)
  <2>0. /\ timeout' = [timeout EXCEPT ![i] = @ + 1]
        /\ UNCHANGED <<state, index, error_count>>
        /\ KeepBus
    BY <1>2 DEF NotReady
  <2>1. TypeOK'
    BY <1>2, <2>0, Numbers DEF IInv, TypeOK, KeepBus, M
  <2>2. timeout'[i] = timeout[i] + 1 /\ timeout[i] \in Nat /\ held \in Nat
    BY <2>0 DEF IInv, TypeOK, M
  <2>3. Others(i)
    BY <2>0 DEF IInv, TypeOK, Others
  <2>4. Progress(i)'
    BY <2>0, <2>2, Numbers, BytesGrow
    DEF IInv, TypeOK, Progress, KeepBus, Bytes
  <2>5. active_addr' = i
    BY <1>0, <2>0 DEF IInv, NoCrossTalk, KeepBus
  <2> QED
    BY <1>0, <2>0, <2>1, <2>3, <2>4, <2>5, KeepsBus DEF KeepBus
<1> QED
  BY <1>1, <1>2

----------------------------------------------------------------------------
(* Every tick keeps the invariant: one step per state of the handle.       *)

LEMMA TickIInv == ASSUME IInv, NEW i \in Handle, Tick(i) PROVE IInv'
<1>0. TypeOK /\ Progress(i) /\ turn' = After(i) /\ turn' \in Handle
  BY Numbers
  DEF IInv, Tick, Idle, Blocked, Acquire, SelectMode, Restart, WaitRestart,
      Read, WaitRx, Stop, Ticked
<1>1. CASE Idle(i) \/ Blocked(i)
  <2>1. UNCHANGED <<hvars, bus>>
    BY <1>1 DEF Idle, Blocked
  <2>2. TypeOK'
    BY <1>0, <2>1 DEF TypeOK, hvars, bus
  <2>3. NoCrossTalk' /\ LockHasOwner'
    BY <2>1 DEF IInv, NoCrossTalk, LockHasOwner, hvars, bus
  <2>4. \A j \in Handle : Progress(j)'
    BY <2>1 DEF IInv, Progress, Bytes, hvars, bus
  <2> QED
    BY <2>2, <2>3, <2>4 DEF IInv
<1>2. CASE Acquire(i)
  <2>1. /\ state[i] = "STARTING" /\ state' = [state EXCEPT ![i] = "SELECT_MODE"]
        /\ UNCHANGED <<index, timeout, error_count>>
        /\ bus_locked' = TRUE /\ bus_free' = FALSE
        /\ active_addr' = i /\ held' = 1
    BY <1>2 DEF Acquire, Ticked, Goto
  <2>2. passed' \in [Handle -> SUBSET Handle]
    BY <1>0, <1>2 DEF Acquire, TypeOK
  <2>3. TypeOK'
    BY <1>0, <2>1, <2>2 DEF TypeOK, InTransfer
  <2>4. \A j \in Handle : state[j] \notin InTransfer
    BY <1>2 DEF IInv, LockHasOwner, Acquire
  <2>5. /\ state'[i] = "SELECT_MODE"
        /\ \A j \in Handle \ {i} : state'[j] = state[j]
    BY <1>0, <2>1 DEF TypeOK
  <2>6. NoCrossTalk' /\ LockHasOwner'
    BY <2>1, <2>4, <2>5 DEF NoCrossTalk, LockHasOwner, InTransfer
  <2>7. \A j \in Handle : Progress(j)'
    <3> SUFFICES ASSUME NEW j \in Handle PROVE Progress(j)'
      OBVIOUS
    <3>1. CASE j = i
      BY <1>0, <2>1, <2>5, <3>1 DEF Progress
    <3>2. CASE j # i
      <4>1. state'[j] = state[j] /\ timeout'[j] = timeout[j] /\ Progress(j)
        BY <2>1, <2>5, <3>2 DEF IInv
      <4> QED
        BY <2>4, <4>1 DEF Progress, InTransfer
    <3> QED
      BY <3>1, <3>2
  <2> QED
    BY <2>3, <2>6, <2>7 DEF IInv
<1>3. CASE SelectMode(i)
  <2>0. state[i] = "SELECT_MODE" /\ state[i] \in InTransfer
    BY <1>3 DEF SelectMode, Ticked, InTransfer
  <2>1. CASE Fail(i)
    BY <1>0, <2>0, <2>1, FailIInv
  <2>2. CASE /\ index' = [index EXCEPT ![i] = 0] /\ Goto(i, "RESTART")
             /\ UNCHANGED <<timeout, error_count>> /\ KeepBus
    <3>1. state'[i] = "RESTART" /\ Others(i) /\ state'[i] \in InTransfer
      BY <1>0, <2>2 DEF TypeOK, Goto, Others, InTransfer
    <3>2. TypeOK'
      <4>1. state' \in [Handle -> InTransfer \cup {"IDLE", "STARTING"}]
        BY <1>0, <2>2 DEF TypeOK, Goto, InTransfer
      <4>2. index' \in [Handle -> Nat]
        BY <1>0, <2>2 DEF TypeOK
      <4>3. \A j \in Handle : index'[j] = IF j = i THEN 0 ELSE index[j]
        BY <1>0, <2>2 DEF TypeOK
      <4>4. \A j \in Handle : Len[j] \in Nat
        BY Numbers
      <4>5. \A j \in Handle : index'[j] <= Len[j]
        BY <1>0, <4>3, <4>4 DEF TypeOK
      <4> QED
        BY <1>0, <2>2, <4>1, <4>2, <4>5 DEF TypeOK, KeepBus
    <3>3. Progress(i)'
      BY <1>0, <2>0, <2>2, <3>1 DEF TypeOK, Progress, KeepBus
    <3>4. active_addr' = i
      BY <2>0, <2>2 DEF IInv, NoCrossTalk, KeepBus
    <3> QED
      BY <2>0, <2>2, <3>1, <3>2, <3>3, <3>4, KeepsBus DEF KeepBus
  <2> QED
    BY <1>3, <2>1, <2>2 DEF SelectMode
<1>4. CASE Restart(i)
  <2>0. state[i] = "RESTART" /\ state[i] \in InTransfer
    BY <1>4 DEF Restart, Ticked, InTransfer
  <2>1. CASE NotReady(i)
    BY <1>0, <2>0, <2>1, NotReadyIInv
  <2>2. CASE Fail(i)
    BY <1>0, <2>0, <2>2, FailIInv
  <2>3. CASE /\ timeout' = [timeout EXCEPT ![i] = 0] /\ Goto(i, "WAIT_RESTART")
             /\ active_addr' = i /\ held' = held + 1
             /\ UNCHANGED <<index, error_count, bus_locked, bus_free, passed>>
    <3>1. state'[i] = "WAIT_RESTART" /\ Others(i) /\ state'[i] \in InTransfer
      BY <1>0, <2>3 DEF TypeOK, Goto, Others, InTransfer
    <3>2. TypeOK'
      BY <1>0, <2>3, Numbers DEF TypeOK, Goto, InTransfer, M
    <3>3. Progress(i)'
      BY <1>0, <2>0, <2>3, <3>1, Numbers DEF TypeOK, Progress, M
    <3> QED
      BY <2>0, <2>3, <3>1, <3>2, <3>3, KeepsBus
  <2> QED
    BY <1>4, <2>1, <2>2, <2>3 DEF Restart
<1>5. CASE WaitRestart(i)
  <2>0. state[i] = "WAIT_RESTART" /\ state[i] \in InTransfer
    BY <1>5 DEF WaitRestart, Ticked, InTransfer
  <2>1. CASE Fail(i)
    BY <1>0, <2>0, <2>1, FailIInv
  <2>2. CASE /\ index' = [index EXCEPT ![i] = 0] /\ Goto(i, "READ")
             /\ UNCHANGED <<timeout, error_count>> /\ KeepBus
    <3>1. /\ state'[i] = "READ" /\ Others(i) /\ state'[i] \in InTransfer
          /\ index'[i] = 0
      BY <1>0, <2>2 DEF TypeOK, Goto, Others, InTransfer
    <3>2. TypeOK'
      <4>1. state' \in [Handle -> InTransfer \cup {"IDLE", "STARTING"}]
        BY <1>0, <2>2 DEF TypeOK, Goto, InTransfer
      <4>2. index' \in [Handle -> Nat]
        BY <1>0, <2>2 DEF TypeOK
      <4>3. \A j \in Handle : index'[j] = IF j = i THEN 0 ELSE index[j]
        BY <1>0, <2>2 DEF TypeOK
      <4>4. \A j \in Handle : Len[j] \in Nat
        BY Numbers
      <4>5. \A j \in Handle : index'[j] <= Len[j]
        BY <1>0, <4>3, <4>4 DEF TypeOK
      <4> QED
        BY <1>0, <2>2, <4>1, <4>2, <4>5 DEF TypeOK, KeepBus
    <3>3. Progress(i)'
      <4>1. timeout'[i] = 0 /\ 0 < Len[i]
        BY <1>0, <2>0, <2>2, Numbers DEF Progress
      <4>2. held' <= 4 + M + Bytes(index'[i])
        BY <1>0, <2>0, <2>2, <3>1, Numbers, BytesGrow
        DEF TypeOK, Progress, KeepBus
      <4> QED
        BY <3>1, <4>1, <4>2 DEF Progress, Bytes, M
    <3>4. active_addr' = i
      BY <2>0, <2>2 DEF IInv, NoCrossTalk, KeepBus
    <3> QED
      BY <2>0, <2>2, <3>1, <3>2, <3>3, <3>4, KeepsBus DEF KeepBus
  <2> QED
    BY <1>5, <2>1, <2>2 DEF WaitRestart
<1>6. CASE Read(i)
  <2>0. /\ state[i] = "READ" /\ state[i] \in InTransfer /\ Goto(i, "WAIT_RX")
        /\ UNCHANGED <<index, timeout, error_count>> /\ KeepBus
    BY <1>6 DEF Read, Ticked, InTransfer
  <2>1. state'[i] = "WAIT_RX" /\ Others(i) /\ state'[i] \in InTransfer
    BY <1>0, <2>0 DEF TypeOK, Goto, Others, InTransfer
  <2>2. TypeOK'
    BY <1>0, <2>0 DEF TypeOK, Goto, KeepBus, InTransfer
  <2>3. Progress(i)'
    BY <1>0, <2>0, <2>1, Numbers, BytesGrow
    DEF TypeOK, Progress, KeepBus, Bytes
  <2>4. active_addr' = i
    BY <2>0 DEF IInv, NoCrossTalk, KeepBus
  <2> QED
    BY <2>0, <2>1, <2>2, <2>3, <2>4, KeepsBus DEF KeepBus
<1>7. CASE WaitRx(i)
  <2>0. state[i] = "WAIT_RX" /\ state[i] \in InTransfer
    BY <1>7 DEF WaitRx, Ticked, InTransfer
  <2>1. CASE NotReady(i)
    BY <1>0, <2>0, <2>1, NotReadyIInv
  <2>2. CASE /\ timeout' = [timeout EXCEPT ![i] = 0]
             /\ index' = [index EXCEPT ![i] = @ + 1]
             /\ Goto(i, IF index[i] + 1 = Len[i] THEN "STOP" ELSE "READ")
             /\ UNCHANGED error_count /\ KeepBus
    <3>1. /\ state'[i] = IF index[i] + 1 = Len[i] THEN "STOP" ELSE "READ"
          /\ index'[i] = index[i] + 1 /\ timeout'[i] = 0 /\ Others(i)
          /\ held' = held + 1
      BY <1>0, <2>2 DEF TypeOK, Goto, Others, KeepBus
    <3>2. /\ index[i] \in Nat /\ Len[i] \in Nat /\ index[i] < Len[i]
          /\ timeout[i] \in Nat /\ timeout[i] <= M /\ held \in Nat
          /\ held <= 5 + M + Bytes(index[i]) + timeout[i]
      BY <1>0, <2>0, Numbers DEF TypeOK, Progress, M
    <3>3. TypeOK'
      <4>1. state' \in [Handle -> InTransfer \cup {"IDLE", "STARTING"}]
        BY <1>0, <2>2 DEF TypeOK, Goto, InTransfer
      <4>2. index' \in [Handle -> Nat] /\ \A j \in Handle : index'[j] <= Len[j]
        BY <1>0, <2>2, <3>2 DEF TypeOK
      <4>3. timeout' \in [Handle -> 0..I2C_TIMEOUT_MAX]
        BY <1>0, <2>2, Numbers DEF TypeOK, M
      <4> QED
        BY <1>0, <2>2, <4>1, <4>2, <4>3 DEF TypeOK, KeepBus
    <3>4. held' <= 4 + M + Bytes(index[i] + 1)
      <4>1. Bytes(index[i] + 1) = Bytes(index[i]) + M + 2
        BY <3>2, BytesGrow
      <4>2. Bytes(index[i]) \in Nat
        BY <3>2, BytesGrow
      <4> QED
        BY <3>1, <3>2, <4>1, <4>2, Numbers
    <3>5. Progress(i)'
      <4>1. CASE index[i] + 1 = Len[i]
        <5>1. state'[i] = "STOP" /\ index'[i] = Len[i]
          BY <3>1, <4>1
        <5> QED
          BY <3>4, <4>1, <5>1 DEF Progress, Bytes, M
      <4>2. CASE index[i] + 1 # Len[i]
        <5>1. state'[i] = "READ" /\ index'[i] < Len[i]
          BY <3>1, <3>2, <4>2
        <5> QED
          BY <3>1, <3>4, <5>1 DEF Progress, Bytes, M
      <4> QED
        BY <4>1, <4>2
    <3>6. active_addr' = i /\ state'[i] \in InTransfer
      BY <2>0, <2>2, <3>1 DEF IInv, NoCrossTalk, KeepBus, InTransfer
    <3> QED
      BY <2>0, <2>2, <3>1, <3>3, <3>5, <3>6, KeepsBus DEF KeepBus
  <2> QED
    BY <1>7, <2>1, <2>2 DEF WaitRx
<1>8. CASE Stop(i)
  <2>0. /\ state[i] = "STOP" /\ state[i] \in InTransfer /\ Goto(i, "IDLE")
        /\ error_count' = [error_count EXCEPT ![i] = 0]
        /\ UNCHANGED <<index, timeout>> /\ ReleaseBus
    BY <1>8 DEF Stop, Ticked, InTransfer
  <2>1. state'[i] = "IDLE" /\ Others(i)
    BY <1>0, <2>0 DEF TypeOK, Goto, Others
  <2>2. TypeOK'
    <3>1. state' \in [Handle -> InTransfer \cup {"IDLE", "STARTING"}]
      BY <1>0, <2>0 DEF TypeOK, Goto
    <3>2. error_count' \in [Handle -> 0..2]
      BY <1>0, <2>0 DEF TypeOK
    <3> QED
      BY <1>0, <2>0, <3>1, <3>2 DEF TypeOK, ReleaseBus
  <2> QED
    BY <2>0, <2>1, <2>2, GivesBack
<1> QED
  BY <1>1, <1>2, <1>3, <1>4, <1>5, <1>6, <1>7, <1>8 DEF Tick

LEMMA NextIInv == IInv /\ [Next]_vars => IInv'
<1> SUFFICES ASSUME IInv, [Next]_vars PROVE IInv'
  OBVIOUS
<1>1. CASE ReadAll
  BY <1>1, ReadAllIInv
<1>2. CASE SensorsTick
  BY <1>2, TickIInv DEF SensorsTick
<1>3. CASE UNCHANGED vars
  BY <1>3 DEF IInv, TypeOK, NoCrossTalk, LockHasOwner, Progress, Bytes,
              vars, hvars, bus
<1> QED
  BY <1>1, <1>2, <1>3 DEF Next

----------------------------------------------------------------------------
(* The theorems.                                                           *)

\* The inductive invariant holds in every reachable state of the bus.
THEOREM Invariance == Spec => []IInv
BY InitIInv, NextIInv, PTL DEF Spec

\* The handles of i2c_driver.c and the bus keep their types: no index runs
\* past its buffer, and no timeout past its limit.
THEOREM TypeCorrect == Spec => []TypeOK
<1>1. IInv => TypeOK
  BY DEF IInv
<1> QED
  BY <1>1, Invariance, PTL

\* Transfers of different sensors never mix, whatever their number.
THEOREM MutualExclusion == Spec => []NoCrossTalk
<1>1. IInv => NoCrossTalk
  BY DEF IInv
<1> QED
  BY <1>1, Invariance, PTL

\* bus_locked is never leaked: it is set only while a transfer runs.
THEOREM LockIsNeverLeaked == Spec => []LockHasOwner
<1>1. IInv => LockHasOwner
  BY DEF IInv
<1> QED
  BY <1>1, Invariance, PTL

\* The callback of a successful read finds the buffer completely filled.
THEOREM BufferIsWhole == Spec => []WholeBuffer
<1>1. IInv => WholeBuffer
  BY DEF IInv, WholeBuffer, Progress
<1> QED
  BY <1>1, Invariance, PTL

\* No transfer keeps the other sensors waiting for more than MaxHold ticks.
THEOREM BoundedHold == Spec => []HoldIsBounded
<1>1. IInv => HoldIsBounded
  <2> SUFFICES ASSUME IInv, NEW i \in Handle, state[i] \in InTransfer
               PROVE  held <= 4 + M + Bytes(Len[i])
    BY DEF HoldIsBounded, MaxHold, Bytes, M
  <2>1. /\ Progress(i) /\ held \in Nat /\ timeout[i] \in Nat
        /\ timeout[i] <= M /\ index[i] \in Nat /\ Len[i] \in Nat
        /\ index[i] <= Len[i] /\ M \in Nat
    BY Numbers DEF IInv, TypeOK, M
  <2>2. Bytes(Len[i]) \in Nat /\ Bytes(index[i]) \in Nat
    BY <2>1, BytesGrow
  <2>3. Bytes(index[i]) <= Bytes(Len[i])
    BY <2>1, BytesGrow
  <2>4. index[i] < Len[i] => Bytes(index[i]) + M + 2 <= Bytes(Len[i])
    <3> SUFFICES ASSUME index[i] < Len[i]
                 PROVE  Bytes(index[i]) + M + 2 <= Bytes(Len[i])
      OBVIOUS
    <3>1. Bytes(index[i] + 1) = Bytes(index[i]) + M + 2
      BY <2>1, BytesGrow
    <3>2. index[i] + 1 \in Nat /\ index[i] + 1 <= Len[i]
      BY <2>1
    <3> QED
      BY <2>1, <3>1, <3>2, BytesGrow
  <2> QED
    BY <2>1, <2>2, <2>3, <2>4 DEF Progress, InTransfer
<1> QED
  BY <1>1, Invariance, PTL

----------------------------------------------------------------------------
(* The fixed order of the ticks makes the lock fair.  The argument: among  *)
(* the handles that have had the bus while i waits, none is ticked before  *)
(* i, counting from the next tick if the bus is free and from the owner's  *)
(* successor if it is not; so i takes the bus before any of them can.      *)

\* How many ticks there are from handle a to handle b.
Dist(a, b) == IF a <= b THEN b - a ELSE (b + N) - a

InOrder(from) ==
  \A i, j \in Handle :
    state[i] = "STARTING" /\ j \in passed[i] =>
      j # i /\ Dist(from, i) < Dist(from, j)

Queue ==
  /\ \A i \in Handle : state[i] # "STARTING" => passed[i] = {}
  /\ ~bus_locked => InOrder(turn)
  /\ \A h \in Handle : state[h] \in InTransfer => InOrder(After(h))

LEMMA DistSteps ==
  ASSUME NEW a \in Handle, NEW b \in Handle
  PROVE  /\ Dist(a, b) \in 0..(N - 1)
         /\ Dist(a, a) = 0
         /\ b # a => Dist(After(a), b) = Dist(a, b) - 1
         /\ b = a => Dist(After(a), b) = N - 1
BY BusAssumption DEF Handle, Dist, After

\* Moving on from a handle that does not wait keeps the order.
LEMMA OrderMoves ==
  ASSUME NEW a \in Handle, InOrder(a), state[a] # "STARTING"
  PROVE  InOrder(After(a))
<1> SUFFICES ASSUME NEW i \in Handle, NEW j \in Handle,
                    state[i] = "STARTING", j \in passed[i]
             PROVE  j # i /\ Dist(After(a), i) < Dist(After(a), j)
  BY DEF InOrder
<1>1. j # i /\ Dist(a, i) < Dist(a, j) /\ i # a
  BY DEF InOrder
<1>2. j # a
  BY <1>1, DistSteps
<1> QED
  BY <1>1, <1>2, DistSteps

LEMMA InitQueue == Init => Queue
BY DEF Init, Queue, InOrder, InTransfer

\* What the owner of the bus can do to the others' wait: nothing.
LEMMA OwnerMoves ==
  ASSUME IInv, NEW i \in Handle, Tick(i), state[i] \in InTransfer
  PROVE  /\ UNCHANGED passed /\ turn' = After(i) /\ Others(i)
         /\ \/ state'[i] \in InTransfer /\ bus_locked' = bus_locked
            \/ state'[i] = "IDLE" /\ bus_locked' = FALSE
<1>0. TypeOK
  BY DEF IInv
<1>1. CASE SelectMode(i) \/ Restart(i) \/ WaitRestart(i) \/ Read(i)
  BY <1>0, <1>1
  DEF SelectMode, Restart, WaitRestart, Read, NotReady, Fail, KeepBus,
      ReleaseBus, Goto, Ticked, Others, TypeOK, InTransfer
<1>2. CASE WaitRx(i) \/ Stop(i)
  BY <1>0, <1>2
  DEF WaitRx, Stop, NotReady, Fail, KeepBus, ReleaseBus, Goto, Ticked,
      Others, TypeOK, InTransfer
<1>3. ~(Idle(i) \/ Blocked(i) \/ Acquire(i))
  BY DEF Idle, Blocked, Acquire, Ticked, InTransfer
<1> QED
  BY <1>1, <1>2, <1>3 DEF Tick

LEMMA TickQueue ==
  ASSUME IInv, Queue, NEW i \in Handle, Tick(i) PROVE Queue'
<1>0. TypeOK /\ After(i) \in Handle
  BY Numbers DEF IInv
<1>1. CASE Idle(i)
  <2>1. turn = i /\ turn' = After(i) /\ state[i] = "IDLE" /\ UNCHANGED <<hvars, bus>>
    BY <1>1 DEF Idle, Ticked
  <2>2. UNCHANGED <<state, passed, bus_locked>>
    BY <2>1 DEF hvars, bus
  <2>3. ~bus_locked => InOrder(After(i))
    BY <2>1, OrderMoves DEF Queue
  <2> QED
    BY <2>1, <2>2, <2>3 DEF Queue, InOrder
<1>2. CASE Blocked(i)
  <2>1. bus_locked /\ UNCHANGED <<hvars, bus>>
    BY <1>2 DEF Blocked, IInv, LockHasOwner
  <2> QED
    BY <2>1 DEF Queue, InOrder, hvars, bus
<1>3. CASE Acquire(i)
  <2>1. /\ turn = i /\ state[i] = "STARTING" /\ ~bus_locked /\ bus_locked' = TRUE
        /\ state' = [state EXCEPT ![i] = "SELECT_MODE"]
        /\ passed' = [j \in Handle |->
                        IF j # i /\ state[j] = "STARTING" THEN passed[j] \cup {i}
                        ELSE {}]
    BY <1>3 DEF Acquire, Ticked, Goto
  <2>2. \A j \in Handle : state'[j] = IF j = i THEN "SELECT_MODE" ELSE state[j]
    BY <1>0, <2>1 DEF TypeOK
  <2>3. \A j \in Handle : state'[j] # "STARTING" => passed'[j] = {}
    BY <2>1, <2>2
  <2>4. \A h \in Handle : state'[h] \in InTransfer => h = i
    BY <2>1, <2>2 DEF IInv, LockHasOwner
  <2>5. InOrder(After(i))'
    <3> SUFFICES ASSUME NEW w \in Handle, NEW j \in Handle,
                        state'[w] = "STARTING", j \in passed'[w]
                 PROVE  j # w /\ Dist(After(i), w) < Dist(After(i), j)
      BY DEF InOrder
    <3>1. w # i /\ state[w] = "STARTING" /\ (j = i \/ j \in passed[w])
      BY <2>1, <2>2
    <3>2. CASE j = i
      BY <3>1, <3>2, DistSteps, Numbers
    <3>3. CASE j # i
      <4>1. j # w /\ Dist(i, w) < Dist(i, j)
        BY <2>1, <3>1, <3>3 DEF Queue, InOrder
      <4> QED
        BY <3>1, <3>3, <4>1, DistSteps
    <3> QED
      BY <3>2, <3>3
  <2> QED
    BY <2>1, <2>3, <2>4, <2>5 DEF Queue
<1>4. CASE state[i] \in InTransfer
  <2>1. /\ UNCHANGED passed /\ turn' = After(i) /\ Others(i)
        /\ \/ state'[i] \in InTransfer /\ bus_locked' = bus_locked
           \/ state'[i] = "IDLE" /\ bus_locked' = FALSE
    BY <1>4, OwnerMoves
  <2>2. \A j \in Handle : state'[j] = "STARTING" <=> state[j] = "STARTING"
    BY <1>4, <2>1 DEF Others, InTransfer
  <2>3. InOrder(After(i)) /\ InOrder(After(i))'
    BY <1>4, <2>1, <2>2 DEF Queue, InOrder
  <2>4. \A h \in Handle : state'[h] \in InTransfer => h = i
    BY <1>4, <2>1, OneOwner DEF Others
  <2> QED
    BY <2>1, <2>2, <2>3, <2>4 DEF Queue, InOrder
<1> QED
  BY <1>1, <1>2, <1>3, <1>4
  DEF Tick, SelectMode, Restart, WaitRestart, Read, WaitRx, Stop, Ticked,
      InTransfer

LEMMA NextQueue == IInv /\ Queue /\ [Next]_vars => Queue'
<1> SUFFICES ASSUME IInv, Queue, [Next]_vars PROVE Queue'
  OBVIOUS
<1>1. CASE ReadAll
  <2>1. /\ UNCHANGED <<turn, passed, bus_locked>>
        /\ \A i \in Handle : state'[i] = IF state[i] = "IDLE" THEN "STARTING"
                                         ELSE state[i]
    BY <1>1 DEF ReadAll, bus
  <2>2. \A i \in Handle : state[i] = "IDLE" => passed[i] = {}
    BY DEF Queue
  <2>3. \A i \in Handle : state'[i] # "STARTING" => passed'[i] = {}
    BY <2>1 DEF Queue
  <2>4. \A h \in Handle : InOrder(h) => InOrder(h)'
    BY <2>1, <2>2 DEF InOrder
  <2>5. ~bus_locked' => InOrder(turn)'
    BY <2>1, <2>4 DEF Queue, IInv, TypeOK
  <2>6. \A h \in Handle : state'[h] \in InTransfer => InOrder(After(h))'
    BY <2>1, <2>4, Numbers DEF Queue, InTransfer
  <2> QED
    BY <2>3, <2>5, <2>6 DEF Queue
<1>2. CASE SensorsTick
  BY <1>2, TickQueue DEF SensorsTick
<1>3. CASE UNCHANGED vars
  BY <1>3 DEF Queue, InOrder, vars, hvars, bus
<1> QED
  BY <1>1, <1>2, <1>3 DEF Next

\* While a sensor waits for the bus no other sensor gets it twice: with N
\* sensors, a wait is at most N - 1 transfers, none longer than MaxHold.
THEOREM LockIsFair == Spec => NoOvertaking
<1>1. ASSUME IInv, Queue, NEW i \in Handle, NEW j \in Handle,
             Acquire(i), j # i, state[j] = "STARTING"
      PROVE  i \notin passed[j]
  <2>1. InOrder(i)
    BY <1>1 DEF Acquire, Ticked, Queue
  <2>2. SUFFICES ASSUME i \in passed[j] PROVE FALSE
    OBVIOUS
  <2>3. Dist(i, j) < Dist(i, i)
    BY <1>1, <2>1, <2>2 DEF InOrder
  <2> QED
    BY <2>3, DistSteps
<1>2. IInv /\ Queue /\ [Next]_vars =>
        [\A i, j \in Handle :
           Acquire(i) /\ j # i /\ state[j] = "STARTING"
             => i \notin passed[j]]_vars
  BY <1>1
<1>3. Spec => []Queue
  BY InitIInv, NextIInv, InitQueue, NextQueue, PTL DEF Spec
<1> QED
  BY <1>2, <1>3, Invariance, PTL DEF Spec, NoOvertaking

----------------------------------------------------------------------------
(* The driver on its controller.                                           *)

\* The register is one byte ahead of the driver at most: byte k + 1 of the
\* read is in it, or is still to come.
InStep(k) ==
  IF rxrdy THEN rhr = k + 1 /\ sent = k + 1 ELSE sent = k

Aligned(i) ==
  /\ state[i] = "WAIT_RESTART" => InStep(0)
  /\ state[i] \in {"READ", "WAIT_RX"} => InStep(index[i])

CInv ==
  /\ ~misplaced
  /\ \A i \in Handle : Aligned(i)

----------------------------------------------------------------------------
(* Every step of the controller is a step of the bus, or leaves it alone.  *)

LEMMA TickIsATick ==
  ASSUME NEW i \in Handle, ControlledTick(i) PROVE Tick(i)
BY DEF ControlledTick, Quiet, Begins, Addresses, Restarts, Turns, Waits,
       Takes, Fails, Ends, Tick

LEMMA StepIsAStep == [ControllerNext]_cvars => [Next]_vars
<1> SUFFICES ASSUME [ControllerNext]_cvars PROVE [Next]_vars
  OBVIOUS
<1>1. CASE Poll
  BY <1>1 DEF Poll, Next
<1>2. CASE TickAll
  BY <1>2, TickIsATick DEF TickAll, Next, SensorsTick
<1>3. CASE ByteArrives
  BY <1>3 DEF ByteArrives
<1>4. CASE ModeChange \/ UNCHANGED cvars
  BY <1>4 DEF ModeChange, cvars
<1> QED
  BY <1>1, <1>2, <1>3, <1>4 DEF ControllerNext

\* The driver on its controller is the driver of I2cBus.
THEOREM ControllerIsABus == ControllerSpec => Spec
<1>1. ControllerInit => Init
  BY DEF ControllerInit
<1> QED
  BY <1>1, StepIsAStep, PTL DEF ControllerSpec, Spec

----------------------------------------------------------------------------
(* What one tick does to the handles that are not ticked.                  *)

LEMMA OneMoves ==
  ASSUME IInv, NEW i \in Handle, Tick(i), NEW j \in Handle, j # i
  PROVE  state'[j] = state[j] /\ index'[j] = index[j]
<1>1. Fail(i) => state'[j] = state[j] /\ index'[j] = index[j]
  BY DEF IInv, TypeOK, Fail, Goto
<1>2. NotReady(i) => state'[j] = state[j] /\ index'[j] = index[j]
  BY <1>1 DEF NotReady
<1> QED
  BY <1>1, <1>2
  DEF IInv, TypeOK, Tick, Idle, Blocked, Acquire, SelectMode, Restart,
      WaitRestart, Read, WaitRx, Stop, hvars, Goto

\* Only the owner of the bus can be in step with the controller.
LEMMA OwnerAligned ==
  ASSUME IInv, NEW i \in Handle, Tick(i), state[i] \in InTransfer,
         Aligned(i)'
  PROVE  \A j \in Handle : Aligned(j)'
<1> SUFFICES ASSUME NEW j \in Handle, j # i PROVE Aligned(j)'
  OBVIOUS
<1>1. state'[j] \notin InTransfer
  BY OneMoves, OneOwner
<1> QED
  BY <1>1 DEF Aligned, InTransfer

LEMMA OutOfTheWay ==
  ASSUME NEW i \in Handle,
         state'[i] \notin {"WAIT_RESTART", "READ", "WAIT_RX"}
  PROVE  Aligned(i)'
BY DEF Aligned

----------------------------------------------------------------------------
(* The controller's own type.                                              *)

SlaveOK(s) ==
  s \in [left : 0..BITS, low : BOOLEAN] /\ (s.left = 0 => ~s.low)

LEMMA Bits == BITS \in Nat \ {0} /\ MaxFaults \in Nat
BY ControllerAssumption

LEMMA FreeOK == SlaveOK(Free)
BY Bits DEF SlaveOK, Free

LEMMA AfterStopOK ==
  ASSUME NEW s \in [left : 0..BITS, low : BOOLEAN], NEW t \in AfterStop(s)
  PROVE  SlaveOK(t)
<1>1. CASE t = Free
  BY <1>1, FreeOK
<1>2. CASE s.left > 1 /\ t = [left |-> s.left - 1, low |-> TRUE]
  BY <1>2, Bits DEF SlaveOK
<1> QED
  BY <1>1, <1>2 DEF AfterStop

\* The part of the type that I2cBus does not have.
RegisterOK ==
  /\ polling \in BOOLEAN
  /\ rxrdy \in BOOLEAN /\ rhr \in Nat /\ sent \in Nat
  /\ receiving \in BOOLEAN
  /\ SlaveOK(slave)
  /\ misplaced \in BOOLEAN
  /\ faults \in 0..MaxFaults

LEMMA RegisterInit == ControllerInit => RegisterOK
<1> SUFFICES ASSUME ControllerInit PROVE RegisterOK
  OBVIOUS
<1>1. /\ rxrdy \in BOOLEAN /\ receiving \in BOOLEAN /\ misplaced \in BOOLEAN
      /\ polling \in BOOLEAN
  BY Zenon DEF ControllerInit
<1>2. rhr \in Nat /\ sent \in Nat /\ faults \in 0..MaxFaults
  BY Bits DEF ControllerInit, Stale
<1> QED
  BY <1>1, <1>2, FreeOK DEF ControllerInit, RegisterOK

LEMMA StoppedOK ==
  ASSUME RegisterOK, NEW s \in Stopped
  PROVE  SlaveOK(s)
<1>1. CASE s = slave
  BY <1>1 DEF RegisterOK
<1>2. CASE s \in [left : 1..BITS, low : BOOLEAN]
  BY <1>2, Bits DEF SlaveOK
<1> QED
  BY <1>1, <1>2 DEF Stopped

LEMMA CountedOK ==
  ASSUME RegisterOK, NEW s \in Stopped, Counted(s)
  PROVE  faults' \in 0..MaxFaults
BY Bits DEF RegisterOK, Counted, Stopped

LEMMA StopConditionOK ==
  RegisterOK /\ StopCondition /\ UNCHANGED polling => RegisterOK'
<1> SUFFICES ASSUME RegisterOK, StopCondition, UNCHANGED polling
             PROVE  RegisterOK'
  OBVIOUS
<1>1. /\ ~receiving' /\ rhr' = 0 /\ sent' = sent /\ misplaced' = misplaced
      /\ slave' \in Stopped /\ Counted(slave')
  BY DEF StopCondition, Stale
<1>2. rxrdy' \in BOOLEAN
  <2>1. CASE rxrdy' = rxrdy
    BY <2>1, Zenon DEF RegisterOK
  <2>2. CASE rxrdy' = FALSE
    BY <2>2, Zenon
  <2> QED
    BY <2>1, <2>2, Zenon DEF StopCondition
<1>3. SlaveOK(slave') /\ faults' \in 0..MaxFaults
  BY <1>1, StoppedOK, CountedOK
<1>4. receiving' \in BOOLEAN
  BY DEF StopCondition
<1> QED
  BY <1>1, <1>2, <1>3, <1>4 DEF RegisterOK

LEMMA RecoveryOK == RegisterOK /\ Recovery /\ UNCHANGED polling => RegisterOK'
<1> SUFFICES ASSUME RegisterOK, Recovery, UNCHANGED polling PROVE RegisterOK'
  OBVIOUS
<1>1. /\ rxrdy' \in BOOLEAN /\ receiving' \in BOOLEAN /\ rhr' \in Nat
      /\ UNCHANGED <<sent, misplaced>>
  BY DEF Recovery, Stale
<1>2. PICK before \in Stopped :
        /\ \E s \in AfterClocks(before) : slave' \in AfterStop(s)
        /\ Counted(before)
  BY DEF Recovery
<1>3. PICK s \in AfterClocks(before) : slave' \in AfterStop(s)
  BY <1>2
<1>4. s \in [left : 0..BITS, low : BOOLEAN]
  BY <1>3 DEF AfterClocks
<1>5. SlaveOK(slave')
  BY <1>3, <1>4, AfterStopOK
<1>6. faults' \in 0..MaxFaults
  BY <1>2, CountedOK
<1> QED
  BY <1>1, <1>5, <1>6 DEF RegisterOK

LEMMA StartOK == SlaveOK(slave) /\ Start => SlaveOK(slave')
BY FreeOK DEF Start

LEMMA TickOK ==
  ASSUME RegisterOK, NEW i \in Handle, ControlledTick(i), UNCHANGED polling
  PROVE  RegisterOK'
<1>1. CASE Quiet(i) \/ Turns(i) \/ Waits(i)
  <2>1. UNCHANGED controller
    BY <1>1 DEF Quiet, Turns, Waits
  <2> QED
    BY <2>1 DEF RegisterOK, controller, register
<1>2. CASE Begins(i)
  <2>1. UNCHANGED <<rhr, sent, receiving, slave, misplaced, faults>>
        /\ rxrdy' \in BOOLEAN
    BY <1>2 DEF Begins, RhrCleared
  <2> QED
    BY <2>1 DEF RegisterOK
<1>3. CASE Addresses(i)
  <2>1. UNCHANGED <<rxrdy, rhr, sent, receiving, misplaced, faults>>
    BY <1>3 DEF Addresses, register
  <2>2. SlaveOK(slave')
    BY <1>3, StartOK DEF Addresses, RegisterOK
  <2> QED
    BY <2>1, <2>2 DEF RegisterOK
<1>4. CASE Restarts(i)
  <2>1. UNCHANGED <<rhr, misplaced, faults>> /\ sent' \in Nat
        /\ rxrdy' \in BOOLEAN
    BY <1>4 DEF Restarts, RhrCleared
  <2>2. receiving' \in BOOLEAN
    BY <1>4 DEF Restarts
  <2>3. SlaveOK(slave')
    BY <1>4, StartOK DEF Restarts, RegisterOK
  <2> QED
    BY <2>1, <2>2, <2>3 DEF RegisterOK
<1>5. CASE Takes(i)
  <2>1. UNCHANGED <<rhr, sent, receiving, slave, faults>>
        /\ rxrdy' \in BOOLEAN
    BY <1>5 DEF Takes
  <2>2. misplaced' \in BOOLEAN
    BY <1>5 DEF Takes
  <2> QED
    BY <2>1, <2>2 DEF RegisterOK
<1>6. CASE Fails(i)
  BY <1>6, StopConditionOK, RecoveryOK DEF Fails
<1>7. CASE Ends(i)
  BY <1>7, StopConditionOK DEF Ends
<1> QED
  BY <1>1, <1>2, <1>3, <1>4, <1>5, <1>6, <1>7 DEF ControlledTick

LEMMA NextOK == RegisterOK /\ [ControllerNext]_cvars => RegisterOK'
<1> SUFFICES ASSUME RegisterOK, [ControllerNext]_cvars PROVE RegisterOK'
  OBVIOUS
<1>1. CASE Poll \/ ModeChange \/ UNCHANGED cvars
  <2>1. UNCHANGED controller
    BY <1>1 DEF Poll, ModeChange, cvars, controller, register
  <2>2. polling' = polling \/ polling' = ~polling
    BY <1>1 DEF Poll, ModeChange, cvars
  <2>3. polling' \in BOOLEAN
    BY <2>2, Zenon DEF RegisterOK
  <2> QED
    BY <2>1, <2>3 DEF RegisterOK, controller, register
<1>2. CASE TickAll
  BY <1>2, TickOK DEF TickAll
<1>3. CASE ByteArrives
  BY <1>3 DEF ByteArrives, RegisterOK
<1> QED
  BY <1>1, <1>2, <1>3 DEF ControllerNext

\* Type correctness of the driver, its controller and the slave.
THEOREM ControllerTypeCorrect == ControllerSpec => []ControllerTypeOK
<1>1. ControllerInit => RegisterOK
  BY RegisterInit
<1>2. TypeOK /\ RegisterOK => ControllerTypeOK
  BY DEF RegisterOK, SlaveOK, ControllerTypeOK
<1> QED
  BY <1>1, <1>2, NextOK, ControllerIsABus, TypeCorrect, PTL DEF ControllerSpec

----------------------------------------------------------------------------
(* The register stays in step with the driver.                             *)

LEMMA ReadingStates ==
  {"WAIT_RESTART", "READ", "WAIT_RX"} \subseteq InTransfer
BY DEF InTransfer

\* A tick of the owner that reads nothing more, or nothing yet.
LEMMA OutOfStep ==
  ASSUME IInv, NEW i \in Handle, Tick(i), state[i] \in InTransfer,
         state'[i] \notin {"WAIT_RESTART", "READ", "WAIT_RX"}
  PROVE  \A j \in Handle : Aligned(j)'
BY OwnerAligned, OutOfTheWay

LEMMA TickAligned ==
  ASSUME IInv, CInv, RegisterOK, NEW i \in Handle, ControlledTick(i)
  PROVE  CInv'
<1>1. Tick(i)
  BY TickIsATick
<1>2. Aligned(i) /\ TypeOK
  BY DEF CInv, IInv
<1>3. CASE (Idle(i) \/ Blocked(i)) /\ UNCHANGED controller
  BY <1>3 DEF Idle, Blocked, hvars, controller, register, CInv, Aligned,
              InStep
<1>4. CASE Read(i) /\ UNCHANGED controller
  <2>1. state[i] = "READ" /\ state'[i] = "WAIT_RX" /\ index'[i] = index[i]
    BY <1>2, <1>4 DEF Read, Ticked, Goto, TypeOK
  <2>2. Aligned(i)'
    BY <1>2, <1>4, <2>1 DEF Aligned, InStep, controller, register
  <2> QED
    BY <1>1, <1>4, <2>1, <2>2, OwnerAligned, ReadingStates
    DEF CInv, controller, register
<1>5. CASE Begins(i)
  <2>1. \A j \in Handle : state[j] \notin InTransfer
    BY <1>5 DEF Begins, Acquire, IInv, LockHasOwner
  <2>2. state'[i] = "SELECT_MODE" /\ ~misplaced'
    BY <1>2, <1>5 DEF Begins, Acquire, Goto, TypeOK, CInv
  <2>3. \A j \in Handle : state'[j] \notin {"WAIT_RESTART", "READ", "WAIT_RX"}
    BY <1>1, <2>1, <2>2, OneMoves, ReadingStates
  <2> QED
    BY <2>2, <2>3 DEF CInv, Aligned
<1>6. CASE Addresses(i)
  <2>1. /\ state[i] \in InTransfer
        /\ state'[i] \notin {"WAIT_RESTART", "READ", "WAIT_RX"}
        /\ ~misplaced'
    BY <1>6 DEF Addresses, SelectMode, Ticked, InTransfer, CInv
  <2> QED
    BY <1>1, <2>1, OutOfStep DEF CInv
<1>7. CASE Restarts(i)
  <2>1. /\ state[i] \in InTransfer /\ state'[i] = "WAIT_RESTART"
        /\ ~misplaced' /\ ~rxrdy' /\ sent' = 0
    BY <1>7 DEF Restarts, Restart, Ticked, InTransfer, RhrCleared, CInv
  <2>2. Aligned(i)'
    BY <2>1 DEF Aligned, InStep
  <2> QED
    BY <1>1, <2>1, <2>2, OwnerAligned DEF CInv
<1>8. CASE Turns(i)
  <2>1. /\ state[i] = "WAIT_RESTART" /\ state'[i] = "READ"
        /\ UNCHANGED controller
    BY <1>8 DEF Turns, WaitRestart, Ticked
  <2>2. index'[i] = 0
    BY <1>2, <1>8 DEF Turns, WaitRestart, Fail, Goto, TypeOK
  <2>3. Aligned(i)'
    BY <1>2, <2>1, <2>2 DEF Aligned, InStep, controller, register
  <2> QED
    BY <1>1, <2>1, <2>3, OwnerAligned, ReadingStates
    DEF CInv, controller, register
<1>9. CASE Waits(i)
  <2>1. /\ state[i] \in {"RESTART", "WAIT_RX"} /\ state'[i] = state[i]
        /\ UNCHANGED controller
    BY <1>9 DEF Waits, Restart, WaitRx, Ticked
  <2>2. state[i] \in InTransfer
    BY <2>1 DEF InTransfer
  <2>3. CASE state[i] = "WAIT_RX"
    <3>1. index'[i] = index[i]
      BY <1>2, <1>9, <2>1, <2>3
      DEF Waits, Restart, WaitRx, NotReady, Fail, Goto, Ticked, TypeOK
    <3>2. Aligned(i)'
      BY <1>2, <2>1, <3>1 DEF Aligned, InStep, controller, register
    <3> QED
      BY <1>1, <2>1, <2>2, <3>2, OwnerAligned DEF CInv, controller, register
  <2>4. CASE state[i] = "RESTART"
    BY <1>1, <2>1, <2>2, <2>4, OutOfStep DEF CInv, controller, register
  <2> QED
    BY <2>1, <2>3, <2>4
<1>10. CASE Takes(i)
  <2>1. /\ state[i] = "WAIT_RX" /\ state'[i] \in {"READ", "STOP"}
        /\ rxrdy /\ ~rxrdy' /\ sent' = sent
    BY <1>10 DEF Takes, WaitRx, Ticked
  <2>2. index'[i] = index[i] + 1
    BY <1>2, <1>10, <2>1
    DEF Takes, WaitRx, NotReady, Fail, Goto, Ticked, TypeOK
  <2>3. rhr = index[i] + 1 /\ sent = index[i] + 1
    BY <1>2, <2>1 DEF Aligned, InStep
  <2>4. ~misplaced'
    BY <1>10, <2>3 DEF Takes, CInv
  <2>5. Aligned(i)'
    BY <2>1, <2>2, <2>3 DEF Aligned, InStep
  <2> QED
    BY <1>1, <2>1, <2>4, <2>5, OwnerAligned, ReadingStates DEF CInv
<1>11. CASE Fails(i) \/ Ends(i)
  <2>1. /\ state[i] \in InTransfer /\ state'[i] = "IDLE"
    BY <1>2, <1>11
    DEF Fails, Ends, SelectMode, Restart, WaitRestart, WaitRx, Stop, Ticked,
        InTransfer, Goto, TypeOK
  <2>2. misplaced' = misplaced
    BY <1>11 DEF Fails, Ends, StopCondition, Recovery
  <2> QED
    BY <1>1, <2>1, <2>2, OutOfStep DEF CInv
<1> QED
  BY <1>3, <1>4, <1>5, <1>6, <1>7, <1>8, <1>9, <1>10, <1>11
  DEF ControlledTick, Quiet

LEMMA NextAligned == IInv /\ CInv /\ RegisterOK /\ [ControllerNext]_cvars => CInv'
<1> SUFFICES ASSUME IInv, CInv, RegisterOK, [ControllerNext]_cvars PROVE CInv'
  OBVIOUS
<1>1. CASE Poll
  <2>1. UNCHANGED controller
        /\ \A j \in Handle :
             state'[j] \notin {"IDLE", "STARTING"} =>
               state'[j] = state[j] /\ index'[j] = index[j]
    BY <1>1 DEF Poll, ReadAll, IInv, TypeOK
  <2> QED
    BY <2>1 DEF CInv, Aligned, InStep, controller, register
<1>2. CASE TickAll
  BY <1>2, TickAligned DEF TickAll
<1>3. CASE ByteArrives
  <2>1. /\ UNCHANGED <<state, index, misplaced>>
        /\ ~rxrdy /\ rxrdy' /\ sent' = sent + 1 /\ rhr' = sent + 1
    BY <1>3 DEF ByteArrives, vars, hvars
  <2> QED
    BY <2>1 DEF CInv, Aligned, InStep
<1>4. CASE ModeChange \/ UNCHANGED cvars
  BY <1>4 DEF CInv, Aligned, InStep, ModeChange, cvars, vars, hvars,
              controller, register
<1> QED
  BY <1>1, <1>2, <1>3, <1>4 DEF ControllerNext

\* Every byte is stored in its place, however late a stop comes, whatever
\* bytes it leaves in the register, and however often reads fail.
THEOREM BytesAreInPlace == ControllerSpec => []BytesInPlace
<1>1. ControllerInit => CInv
  BY DEF ControllerInit, Init, CInv, Aligned
<1>2. ControllerInit => RegisterOK
  BY RegisterInit
<1>3. CInv => BytesInPlace
  BY DEF CInv, BytesInPlace
<1> QED
  BY <1>1, <1>2, <1>3, NextAligned, NextOK, ControllerIsABus, Invariance, PTL
  DEF ControllerSpec
=============================================================================
