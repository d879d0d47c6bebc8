-------------------------- MODULE Lifecycle_proofs --------------------------
(***************************************************************************)
(* Proofs about the super-loop, for any retry limit, wait and battery, any *)
(* number of upsets and whatever they make of what they hit: its types,    *)
(* that its control variables are a store which no upset between two turns *)
(* disturbs, and that MISSION is entered only after a test.                *)
(***************************************************************************)
EXTENDS Lifecycle, TLAPS

----------------------------------------------------------------------------
(* Triple redundancy (Tmr) by itself.  These proofs cite no assumption but *)
(* TmrAssumption, so that they hold for any regions and values, those of   *)
(* the sensors (seu_data.c) as well as the control variables (init.c): as  *)
(* long as a region is hit once at most between two passes, the            *)
(* triplicated variables behave as a store that nothing ever hits.         *)

\* Between two turns a region that was not hit has three equal copies, and
\* one that was hit still has two.
Agree(r) ==
  /\ r \notin hits => live[r] = bank_b[r] /\ live[r] = bank_c[r]
  /\ \/ live[r] = bank_b[r]
     \/ live[r] = bank_c[r]
     \/ bank_b[r] = bank_c[r]

IInv == TmrTypeOK /\ (~open => \A r \in Region : Agree(r))

\* What the upset of one byte leaves alone; f is the copy that is hit.
HitCopy(f, g, r, v) == g = [f EXCEPT ![r] = v]

----------------------------------------------------------------------------
(* Lemmas about the vote.                                                  *)

\* The vote takes one of the copies, so its outcome is a legal value.
LEMMA VoteLegal ==
  ASSUME TmrTypeOK
  PROVE  Holds(Voted)
<1>1. ASSUME NEW r \in Region
      PROVE  Vote(r) \in Value[r]
  BY <1>1 DEF Vote, TmrTypeOK, Holds
<1>2. \A r \in Region : Voted[r] = Vote(r)
  BY DEF Voted
<1>3. Voted = [r \in Region |-> Voted[r]]
  BY DEF Voted
<1> QED
  BY <1>1, <1>2, <1>3 DEF Holds

\* A copy remains legal when one byte of it changes into a legal value.
LEMMA HitLegal ==
  ASSUME NEW f, NEW g, NEW r \in Region, NEW v \in Value[r],
         Holds(f), HitCopy(f, g, r, v)
  PROVE  Holds(g) /\ g[r] = v /\ \A s \in Region : s # r => g[s] = f[s]
<1>1. f = [s \in Region |-> f[s]]
  BY DEF Holds
<1>2. g = [s \in Region |-> IF s = r THEN v ELSE f[s]]
  BY <1>1 DEF HitCopy
<1>3. \A s \in Region : g[s] = IF s = r THEN v ELSE f[s]
  BY <1>2
<1>4. g = [s \in Region |-> g[s]]
  BY <1>2
<1>5. \A s \in Region : g[s] \in Value[s]
  BY <1>3 DEF Holds
<1> QED
  BY <1>3, <1>4, <1>5 DEF Holds

\* With three equal copies the vote is the variable itself.
LEMMA VoteOfEqual ==
  ASSUME Holds(live), bank_b = live, bank_c = live
  PROVE  Voted = live
BY DEF Voted, Vote, Holds

\* An upset is a step that hits one copy of one region.
LEMMA UpsetSteps ==
  ASSUME NEW r \in Region, NEW v \in Value[r],
         UpsetLive(r, v) \/ UpsetBankB(r, v) \/ UpsetBankC(r, v)
  PROVE  /\ r \notin hits /\ hits' = hits \cup {r} /\ open' = open
         /\ \/ HitCopy(live, live', r, v) /\ bank_b' = bank_b /\ bank_c' = bank_c
            \/ HitCopy(bank_b, bank_b', r, v) /\ live' = live /\ bank_c' = bank_c
            \/ HitCopy(bank_c, bank_c', r, v) /\ live' = live /\ bank_b' = bank_b
BY DEF UpsetLive, UpsetBankB, UpsetBankC, Hit, HitCopy

\* What an upset leaves: legal copies, two of which still agree, and the vote
\* that was there before.
LEMMA UpsetHarmless ==
  ASSUME IInv, NEW r \in Region, NEW v \in Value[r],
         UpsetLive(r, v) \/ UpsetBankB(r, v) \/ UpsetBankC(r, v)
  PROVE  IInv' /\ (~open => Voted' = Voted)
<1>1. /\ r \notin hits /\ hits' = hits \cup {r} /\ open' = open
      /\ \/ HitCopy(live, live', r, v) /\ bank_b' = bank_b /\ bank_c' = bank_c
         \/ HitCopy(bank_b, bank_b', r, v) /\ live' = live /\ bank_c' = bank_c
         \/ HitCopy(bank_c, bank_c', r, v) /\ live' = live /\ bank_b' = bank_b
  BY UpsetSteps
<1>2. Holds(live) /\ Holds(bank_b) /\ Holds(bank_c) /\ hits \subseteq Region
  BY DEF IInv, TmrTypeOK
<1>3. Holds(live') /\ Holds(bank_b') /\ Holds(bank_c')
  BY <1>1, <1>2, HitLegal
<1>4. TmrTypeOK'
  BY <1>1, <1>2, <1>3 DEF IInv, TmrTypeOK, Holds
<1>5. \A s \in Region \ {r} :
        live'[s] = live[s] /\ bank_b'[s] = bank_b[s] /\ bank_c'[s] = bank_c[s]
  <2>1. CASE HitCopy(live, live', r, v) /\ bank_b' = bank_b /\ bank_c' = bank_c
    <3>1. \A s \in Region : s # r => live'[s] = live[s]
      BY <1>2, <2>1 DEF HitCopy, Holds
    <3> QED
      BY <2>1, <3>1
  <2>2. CASE HitCopy(bank_b, bank_b', r, v) /\ live' = live /\ bank_c' = bank_c
    <3>1. \A s \in Region : s # r => bank_b'[s] = bank_b[s]
      BY <1>2, <2>2 DEF HitCopy, Holds
    <3> QED
      BY <2>2, <3>1
  <2>3. CASE HitCopy(bank_c, bank_c', r, v) /\ live' = live /\ bank_b' = bank_b
    <3>1. \A s \in Region : s # r => bank_c'[s] = bank_c[s]
      BY <1>2, <2>3 DEF HitCopy, Holds
    <3> QED
      BY <2>3, <3>1
  <2> QED
    BY <1>1, <2>1, <2>2, <2>3
<1>6. \/ bank_b'[r] = bank_b[r] /\ bank_c'[r] = bank_c[r]
      \/ live'[r] = live[r] /\ bank_c'[r] = bank_c[r]
      \/ live'[r] = live[r] /\ bank_b'[r] = bank_b[r]
  BY <1>1
<1>7. ASSUME ~open
      PROVE  /\ \A s \in Region : Agree(s)'
             /\ Voted' = Voted
  <2>1. \A s \in Region : Agree(s)
    BY <1>7 DEF IInv
  <2>2. live[r] = bank_b[r] /\ live[r] = bank_c[r]
    BY <1>1, <2>1 DEF Agree
  <2>3. \A s \in Region : Agree(s)'
    BY <1>1, <1>5, <1>6, <2>1, <2>2 DEF Agree
  <2>4. ASSUME NEW s \in Region
        PROVE  Vote(s)' = Vote(s)
    <3>1. CASE s = r
      BY <1>6, <2>2, <3>1 DEF Vote
    <3>2. CASE s # r
      BY <1>5, <3>2 DEF Vote
    <3> QED
      BY <3>1, <3>2
  <2> QED
    BY <2>3, <2>4 DEF Voted
<1> QED
  BY <1>1, <1>4, <1>7 DEF IInv

----------------------------------------------------------------------------
(* The invariant.                                                          *)

\* The first state.
LEMMA InitIInv == TmrInit => IInv
BY TmrAssumption DEF TmrInit, IInv, TmrTypeOK, Agree

\* Every step keeps the invariant.
LEMMA NextIInv == IInv /\ [TmrNext]_tmrvars => IInv'
<1> SUFFICES ASSUME IInv, [TmrNext]_tmrvars PROVE IInv'
  OBVIOUS
<1>0. TmrTypeOK
  BY DEF IInv
<1>1. CASE Scrub
  BY <1>0, <1>1, VoteLegal DEF Scrub, IInv, TmrTypeOK, Holds
<1>2. CASE Write
  BY <1>0, <1>2 DEF Write, IInv, TmrTypeOK, Holds
<1>3. CASE Commit
  <2>1. TmrTypeOK'
    BY <1>0, <1>3 DEF Commit, TmrTypeOK, Holds
  <2>2. \A r \in Region : Agree(r)'
    BY <1>3 DEF Commit, Agree
  <2> QED
    BY <2>1, <2>2 DEF IInv
<1>4. ASSUME NEW r \in Region, NEW v \in Value[r],
             UpsetLive(r, v) \/ UpsetBankB(r, v) \/ UpsetBankC(r, v)
      PROVE  IInv'
  BY <1>4, UpsetHarmless
<1>5. CASE Restart
  BY <1>5, TmrAssumption DEF Restart, IInv, TmrTypeOK, Agree, Holds
<1>6. CASE UNCHANGED tmrvars
  BY <1>6 DEF tmrvars, copies, IInv, TmrTypeOK, Holds, Agree
<1> QED
  BY <1>1, <1>2, <1>3, <1>4, <1>5, <1>6 DEF TmrNext

THEOREM TmrInvariance == TmrSpec => []IInv
BY InitIInv, NextIInv, PTL DEF TmrSpec

----------------------------------------------------------------------------
(* The store.                                                              *)

LEMMA InitRefines == TmrInit => Store!Init
<1> SUFFICES ASSUME TmrInit PROVE Store!Init
  OBVIOUS
<1>1. Voted = Initial /\ open = FALSE
  BY TmrAssumption, VoteOfEqual DEF TmrInit
<1> QED
  BY <1>1 DEF Store!Init

\* Scrub opens the store, a turn writes it, commit closes it; an upset
\* between two turns is no step of it, and one within a turn is a write.
LEMMA NextRefines ==
  IInv /\ [TmrNext]_tmrvars
    => [Store!Next]_<<IF open THEN live ELSE Voted, open>>
<1> DEFINE value == IF open THEN live ELSE Voted
<1> SUFFICES ASSUME IInv, [TmrNext]_tmrvars
             PROVE  [Store!Next]_<<value, open>>
  OBVIOUS
<1>0. TmrTypeOK
  BY DEF IInv
<1>1. CASE Scrub
  <2>1. ~open /\ open' /\ open' = TRUE /\ live' = Voted
    BY <1>1 DEF Scrub
  <2>2. Store!Open
    BY <2>1 DEF Store!Open
  <2> QED
    BY <2>2 DEF Store!Next
<1>2. CASE Write
  <2>1. open /\ open' = open /\ Holds(live')
    BY <1>2 DEF Write
  <2>2. Store!Write
    BY <2>1 DEF Store!Write, Store!Holds, Holds
  <2> QED
    BY <2>2 DEF Store!Next
<1>3. CASE Commit
  <2>1. open /\ open' = FALSE /\ live' = live /\ bank_b' = live /\ bank_c' = live
    BY <1>3 DEF Commit
  <2>2. Voted' = live
    BY <1>0, <2>1 DEF Voted, Vote, TmrTypeOK, Holds
  <2>3. Store!Close
    BY <2>1, <2>2 DEF Store!Close
  <2> QED
    BY <2>3 DEF Store!Next
<1>4. ASSUME NEW r \in Region, NEW v \in Value[r],
             UpsetLive(r, v) \/ UpsetBankB(r, v) \/ UpsetBankC(r, v)
      PROVE  [Store!Next]_<<value, open>>
  <2>1. IInv' /\ (~open => Voted' = Voted) /\ open' = open
    BY <1>4, UpsetHarmless, UpsetSteps
  <2>2. CASE open
    <3>1. Holds(live')
      BY <2>1 DEF IInv, TmrTypeOK, Holds
    <3>2. Store!Write
      BY <2>1, <2>2, <3>1 DEF Store!Write, Store!Holds, Holds
    <3> QED
      BY <3>2 DEF Store!Next
  <2>3. CASE ~open
    BY <2>1, <2>3
  <2> QED
    BY <2>2, <2>3
<1>5. CASE Restart
  <2>1. /\ live' = Initial /\ bank_b' = Initial /\ bank_c' = Initial
        /\ open' = FALSE
    BY <1>5 DEF Restart
  <2>2. Voted' = Initial
    BY <2>1, TmrAssumption DEF Voted, Vote, Holds
  <2>3. Store!Restart
    BY <2>1, <2>2 DEF Store!Restart
  <2> QED
    BY <2>3 DEF Store!Next
<1>6. CASE UNCHANGED tmrvars
  <2>1. Voted' = Voted /\ live' = live /\ open' = open
    BY <1>6 DEF tmrvars, copies, Voted, Vote
  <2> QED
    BY <2>1
<1> QED
  BY <1>1, <1>2, <1>3, <1>4, <1>5, <1>6 DEF TmrNext

\* seu_data_scrub and seu_data_commit around a turn: whatever radiation does
\* between two turns, each turn finds what the one before has left.
THEOREM TmrIsSafeStore == TmrSpec => ImplementsSafeStore
BY InitRefines, TmrInvariance, NextRefines, PTL DEF TmrSpec, ImplementsSafeStore, Store!Spec

----------------------------------------------------------------------------
(* The super-loop.                                                         *)

\* What the control variables are worth: themselves within a turn, the next
\* vote between two.
Worth == IF open THEN live ELSE Voted

\* Unless radiation got past the redundancy: MISSION is reached from STABILIZE,
\* which BOOT enters after a test, and from RECOVERY, which waits only after
\* one.  s_reinited must therefore not outlast RECOVERY.
Earned ==
  ~spoilt =>
    /\ Worth["sys"] \in {"STABILIZE", "MISSION"} => init_status = Subsystems /\ tested
    /\ s_reinited =>
         Worth["sys"] = "RECOVERY" /\ init_status = Subsystems /\ tested

\* The control variables, one by one.
Fields(f) ==
  /\ f = [r \in ControlRegion |-> f[r]]
  /\ f["sys"] \in Sys \cup {"invalid"}
  /\ f["reset_count"] \in 0..(MAX_INIT_RETRIES + 1)
  /\ f["state"] \in Modes \cup {"invalid"}
  /\ f["gnd"] \in BOOLEAN /\ f["comm"] \in BOOLEAN /\ f["ota"] \in BOOLEAN

LInv == TypeOK /\ IInv /\ Earned

----------------------------------------------------------------------------
(* Lemmas about the control variables.                                     *)

LEMMA Constants ==
  /\ MAX_INIT_RETRIES \in Nat /\ STABILIZE_TIMEOUT \in Nat
  /\ READ_TICKS \in Nat \ {0} /\ MaxUpsets \in Nat
  /\ Region = ControlRegion /\ Value = ControlValue /\ Initial = PowerOn
  /\ \A r \in Region : Struck[r] \subseteq Value[r]
BY LifecycleAssumption

LEMMA MaxRetries == MAX_INIT_RETRIES \in Nat
BY LifecycleAssumption

\* What each control variable may hold.
LEMMA Values ==
  /\ Value["sys"] = Sys \cup {"invalid"}
  /\ Value["reset_count"] = 0..(MAX_INIT_RETRIES + 1)
  /\ Value["state"] = Modes \cup {"invalid"}
  /\ Value["gnd"] = BOOLEAN /\ Value["comm"] = BOOLEAN /\ Value["ota"] = BOOLEAN
BY Constants DEF ControlValue, ControlRegion

\* Legal control variables, one by one.
LEMMA HoldsFields ==
  ASSUME NEW f
  PROVE  Holds(f) <=> Fields(f)
<1>1. \A r \in Region : r \in {"sys", "reset_count", "state", "gnd", "comm", "ota"}
  BY Constants DEF ControlRegion
<1>2. {"sys", "reset_count", "state", "gnd", "comm", "ota"} \subseteq Region
  BY Constants DEF ControlRegion
<1>3. (\A r \in Region : f[r] \in Value[r])
        <=> /\ f["sys"] \in Value["sys"]
            /\ f["reset_count"] \in Value["reset_count"]
            /\ f["state"] \in Value["state"]
            /\ f["gnd"] \in Value["gnd"] /\ f["comm"] \in Value["comm"]
            /\ f["ota"] \in Value["ota"]
  BY <1>1, <1>2
<1> QED
  BY <1>3, Constants, Values DEF Holds, Fields

\* A command writes flags only.
LEMMA ObeyedLegal ==
  ASSUME NEW c \in Commands, Fields(live)
  PROVE  /\ Fields(Obeyed(c))
         /\ Obeyed(c)["sys"] = live["sys"] /\ Obeyed(c)["state"] = live["state"]
         /\ Obeyed(c)["reset_count"] = live["reset_count"]
<1>1. CASE c = "REQUEST_DATA"
  BY <1>1 DEF Obeyed, Fields, ControlRegion
<1>2. CASE c = "START_OTA"
  BY <1>2 DEF Obeyed, Fields, ControlRegion
<1>3. CASE c = "END_OTA"
  BY <1>3 DEF Obeyed, Fields, ControlRegion
<1>4. CASE c = "RESET"
  BY <1>4 DEF Obeyed, Fields, ControlRegion
<1>5. CASE c = "none"
  BY <1>5 DEF Obeyed, Fields
<1> QED
  BY <1>1, <1>2, <1>3, <1>4, <1>5 DEF Commands

\* getMode answers with a mode.
LEMMA ModeLegal ==
  ASSUME NEW f, Fields(f), f["state"] \in Modes
  PROVE  /\ Fields(WithMode(f))
         /\ WithMode(f)["sys"] = f["sys"] /\ WithMode(f)["gnd"] = f["gnd"]
<1>1. getMode(f, IsSafe) \in Modes
  BY DEF getMode, Modes
<1> QED
  BY <1>1 DEF WithMode, Fields, ControlRegion

\* The end of a turn in MISSION, for the variables f that the mode has left.
LEMMA GroundResetLegal ==
  ASSUME NEW f, Fields(f), f["sys"] = "MISSION", tested \in BOOLEAN, GroundReset(f)
  PROVE  /\ Fields(live') /\ tested' \in BOOLEAN
         /\ \/ live'["sys"] = "BOOT"
            \/ live'["sys"] = "MISSION" /\ tested' = tested
         /\ KeepBanks /\ UNCHANGED <<init_status, s_reinited, left, world>>
<1>1. f["gnd"] \in BOOLEAN
  BY DEF Fields
<1>2. CASE f["gnd"] = TRUE
  <2>1. live' = [f EXCEPT !["gnd"] = FALSE, !["reset_count"] = 0, !["sys"] = "BOOT"]
    BY <1>2 DEF GroundReset
  <2>2. 0 \in 0..(MAX_INIT_RETRIES + 1)
    BY MaxRetries
  <2>3. /\ live'["sys"] = "BOOT" /\ live'["reset_count"] = 0
        /\ live'["gnd"] = FALSE /\ live'["state"] = f["state"]
        /\ live'["comm"] = f["comm"] /\ live'["ota"] = f["ota"]
    BY <2>1 DEF Fields, ControlRegion
  <2>4. live' = [r \in ControlRegion |-> live'[r]]
    BY <2>1 DEF Fields, ControlRegion
  <2>5. Fields(live')
    BY <2>2, <2>3, <2>4 DEF Fields, Sys
  <2> QED
    BY <2>3, <2>5 DEF GroundReset
<1>3. CASE f["gnd"] = FALSE
  <2>1. live' = f /\ tested' = tested
    BY <1>3 DEF GroundReset
  <2> QED
    BY <2>1 DEF GroundReset
<1> QED
  BY <1>1, <1>2, <1>3

----------------------------------------------------------------------------
(* A turn writes control variables, and keeps the banks.                   *)

\* What is to be shown of a turn in which no restart happens.
Wrote == open /\ Fields(live') /\ KeepBanks

BootTypes ==
  /\ ran \in BOOLEAN
  /\ init_status \subseteq Subsystems
  /\ s_reinited \in BOOLEAN
  /\ left \in 0..STABILIZE_TIMEOUT
  /\ tested \in BOOLEAN

PollingTypes ==
  /\ due \in BOOLEAN /\ spi_turn \in BOOLEAN
  /\ reading \in 0..READ_TICKS
  /\ safe \in BOOLEAN

WorldTypes ==
  /\ danger \in BOOLEAN
  /\ upsets \in 0..MaxUpsets /\ spoilt \in BOOLEAN

LEMMA TypeParts ==
  TypeOK <=> /\ TmrTypeOK /\ BootTypes /\ PollingTypes /\ WorldTypes
             /\ asked \in BOOLEAN
BY DEF TypeOK, BootTypes, PollingTypes, WorldTypes

\* What Earned says in a turn.
EarnedIn(sys) ==
  ~spoilt =>
    /\ sys \in {"STABILIZE", "MISSION"} => init_status = Subsystems /\ tested
    /\ s_reinited => sys = "RECOVERY" /\ init_status = Subsystems /\ tested

\* The ticks of a turn keep the types of the polling.
LEMMA TicksLegal ==
  ASSUME PollingTypes, WorldTypes, OnlyTicks \/ Poll
  PROVE  PollingTypes'
<1>1. READ_TICKS \in Nat \ {0}
  BY Constants
<1>2. danger \in BOOLEAN /\ safe \in BOOLEAN
  BY DEF PollingTypes, WorldTypes
<1>3. Ticks
  BY DEF OnlyTicks, Poll
<1>4. safe' \in BOOLEAN
  <2>1. CASE reading = 1
    <3>1. safe' \in {~danger, safe}
      BY <1>3, <2>1 DEF Ticks
    <3> QED
      BY <1>2, <3>1
  <2>2. CASE reading # 1
    BY <1>2, <1>3, <2>2 DEF Ticks
  <2> QED
    BY <2>1, <2>2
<1>5. reading \in 0..READ_TICKS /\ ReadingAfterTick \in 0..READ_TICKS
  BY <1>1 DEF PollingTypes, ReadingAfterTick
<1>6. reading' \in 0..READ_TICKS
  BY <1>1, <1>5 DEF OnlyTicks, Poll
<1>7. due' \in BOOLEAN /\ spi_turn' \in BOOLEAN
  BY DEF OnlyTicks, Poll, PollingTypes
<1> QED
  BY <1>4, <1>6, <1>7 DEF PollingTypes

\* Each turn but the one that restarts the processor: what it writes is legal
\* and MISSION is earned.
LEMMA BootDoneLegal ==
  ASSUME TypeOK, Fields(live), EarnedIn(live["sys"]), BootDone
  PROVE  /\ Wrote /\ BootTypes' /\ PollingTypes' /\ WorldTypes'
         /\ EarnedIn(live["sys"])'
<1>1. /\ open /\ ran' = TRUE /\ live["sys"] = "BOOT" /\ KeepBanks
      /\ init_status' = init_status \cup Subsystems
      /\ tested' = (init_status' = Subsystems /\ TRUE)
      /\ live' = [live EXCEPT !["sys"] = "STABILIZE", !["reset_count"] = 0]
      /\ left' = STABILIZE_TIMEOUT
      /\ UNCHANGED <<s_reinited, polling, world>>
  BY DEF BootDone, Turn, InitAll
<1>2. init_status' = Subsystems
  BY <1>1, TypeParts DEF BootTypes
<1>3. tested' = TRUE
  BY <1>1, <1>2
<1>4. 0 \in 0..(MAX_INIT_RETRIES + 1) /\ STABILIZE_TIMEOUT \in 0..STABILIZE_TIMEOUT
  BY Constants
<1>5. Fields(live') /\ live'["sys"] = "STABILIZE"
  <2>1. live'["sys"] = "STABILIZE" /\ live'["reset_count"] = 0
        /\ live'["gnd"] = live["gnd"] /\ live'["state"] = live["state"]
        /\ live'["comm"] = live["comm"] /\ live'["ota"] = live["ota"]
        /\ live' = [r \in ControlRegion |-> live'[r]]
    BY <1>1 DEF Fields, ControlRegion
  <2> QED
    BY <1>4, <2>1 DEF Fields, Sys
<1>6. ~spoilt => s_reinited = FALSE
  BY <1>1, TypeParts DEF EarnedIn, BootTypes
<1>7. BootTypes' /\ PollingTypes' /\ WorldTypes'
  BY <1>1, <1>2, <1>3, <1>4, TypeParts
     DEF BootTypes, PollingTypes, WorldTypes, polling, world
<1>8. EarnedIn(live["sys"])'
  BY <1>1, <1>2, <1>3, <1>5, <1>6 DEF EarnedIn, world
<1> QED
  BY <1>1, <1>5, <1>7, <1>8 DEF Wrote

LEMMA BootFailLegal ==
  ASSUME TypeOK, Fields(live), EarnedIn(live["sys"]),
         NEW done \in SUBSET Subsystems, NEW passes \in BOOLEAN,
         NEW radio \in SUBSET Subsystems, BootFail(done, passes, radio)
  PROVE  /\ Wrote /\ BootTypes' /\ PollingTypes' /\ WorldTypes'
         /\ EarnedIn(live["sys"])'
<1> DEFINE sys == IF Counted > MAX_INIT_RETRIES THEN "RECOVERY" ELSE "BOOT"
<1>1. /\ open /\ ran' = TRUE /\ live["sys"] = "BOOT" /\ KeepBanks
      /\ live' = [live EXCEPT !["sys"] = sys, !["reset_count"] = Counted]
      /\ tested' = FALSE
      /\ UNCHANGED <<s_reinited, left, polling, world>>
  BY DEF BootFail, Turn
<1>2. init_status' \subseteq Subsystems
  <2>1. \/ init_status' = ((init_status \cup done) \ {"radio"}) \cup radio
        \/ init_status' = init_status \cup done
    BY DEF BootFail
  <2>2. init_status \subseteq Subsystems
    BY TypeParts DEF BootTypes
  <2> QED
    BY <2>1, <2>2
<1>3. Counted \in 0..(MAX_INIT_RETRIES + 1)
  BY MaxRetries DEF Counted, Fields
<1>4. sys \in {"BOOT", "RECOVERY"}
  OBVIOUS
<1>5. Fields(live') /\ live'["sys"] = sys
  <2>1. live'["sys"] = sys /\ live'["reset_count"] = Counted
        /\ live'["gnd"] = live["gnd"] /\ live'["state"] = live["state"]
        /\ live'["comm"] = live["comm"] /\ live'["ota"] = live["ota"]
        /\ live' = [r \in ControlRegion |-> live'[r]]
    BY <1>1 DEF Fields, ControlRegion
  <2> QED
    BY <1>3, <1>4, <2>1 DEF Fields, Sys
<1>6. ~spoilt => s_reinited = FALSE
  BY <1>1, TypeParts DEF EarnedIn, BootTypes
<1>7. BootTypes' /\ PollingTypes' /\ WorldTypes'
  BY <1>1, <1>2, TypeParts DEF BootTypes, PollingTypes, WorldTypes, polling, world
<1>8. EarnedIn(live["sys"])'
  BY <1>1, <1>4, <1>5, <1>6 DEF EarnedIn, world
<1> QED
  BY <1>1, <1>5, <1>7, <1>8 DEF Wrote

\* The variables f with another top-level state.
LEMMA SysLegal ==
  ASSUME NEW f, Fields(f), NEW t \in Sys
  PROVE  Fields([f EXCEPT !["sys"] = t]) /\ [f EXCEPT !["sys"] = t]["sys"] = t
BY DEF Fields, ControlRegion

LEMMA StabilizeLegal ==
  ASSUME TypeOK, Fields(live), EarnedIn(live["sys"]),
         NEW c \in Commands, Stabilize(c)
  PROVE  /\ Wrote /\ BootTypes' /\ PollingTypes' /\ WorldTypes'
         /\ EarnedIn(live["sys"])'
<1>1. /\ open /\ ran' = TRUE /\ live["sys"] = "STABILIZE" /\ KeepBanks
      /\ OnlyTicks /\ UNCHANGED <<boot, world>>
  BY DEF Stabilize, Turn
<1>2. Fields(Obeyed(c)) /\ Obeyed(c)["sys"] = "STABILIZE"
  BY <1>1, ObeyedLegal
<1>3. /\ Fields(live')
      /\ \/ live'["sys"] = "RECOVERY" /\ init_status # Subsystems
         \/ live'["sys"] \in {"STABILIZE", "MISSION"}
  <2>1. CASE init_status # Subsystems
    <3>1. live' = [Obeyed(c) EXCEPT !["sys"] = "RECOVERY"]
      BY <2>1 DEF Stabilize
    <3> QED
      BY <1>2, <2>1, <3>1, SysLegal DEF Sys
  <2>2. CASE init_status = Subsystems /\ left = 0
    <3>1. live' = [Obeyed(c) EXCEPT !["sys"] = "MISSION"]
      BY <2>2 DEF Stabilize
    <3> QED
      BY <1>2, <3>1, SysLegal DEF Sys
  <2>3. CASE init_status = Subsystems /\ left # 0
    <3>1. live' = Obeyed(c)
      BY <2>3 DEF Stabilize
    <3> QED
      BY <1>2, <3>1
  <2> QED
    BY <2>1, <2>2, <2>3
<1>4. ~spoilt => init_status = Subsystems /\ tested /\ s_reinited = FALSE
  BY <1>1, TypeParts DEF EarnedIn, BootTypes
<1>5. BootTypes' /\ PollingTypes' /\ WorldTypes'
  BY <1>1, TypeParts, TicksLegal DEF BootTypes, WorldTypes, boot, world
<1>6. EarnedIn(live["sys"])'
  BY <1>1, <1>3, <1>4 DEF EarnedIn, boot, world
<1> QED
  BY <1>1, <1>3, <1>5, <1>6 DEF Wrote

LEMMA RecoveryInitLegal ==
  ASSUME TypeOK, Fields(live), EarnedIn(live["sys"]),
         NEW c \in Commands, NEW done \in SUBSET Subsystems,
         NEW passes \in BOOLEAN, RecoveryInit(c, done, passes)
  PROVE  /\ Wrote /\ BootTypes' /\ PollingTypes' /\ WorldTypes'
         /\ EarnedIn(live["sys"])'
<1>1. /\ open /\ ran' = TRUE /\ live["sys"] = "RECOVERY" /\ KeepBanks
      /\ OnlyTicks /\ UNCHANGED world
      /\ init_status' = init_status \cup done
      /\ tested' = (init_status' = Subsystems /\ passes)
      /\ s_reinited' = tested'
      /\ left' = IF tested' THEN STABILIZE_TIMEOUT ELSE left
      /\ live' = Obeyed(c)
  BY DEF RecoveryInit, Turn, InitAll
<1>2. Fields(live') /\ live'["sys"] = "RECOVERY"
  BY <1>1, ObeyedLegal
<1>3. /\ init_status \subseteq Subsystems /\ left \in 0..STABILIZE_TIMEOUT
      /\ STABILIZE_TIMEOUT \in 0..STABILIZE_TIMEOUT
  BY Constants, TypeParts DEF BootTypes
<1>4. init_status' \subseteq Subsystems
  BY <1>1, <1>3
<1>5. tested' \in BOOLEAN /\ (tested' => init_status' = Subsystems)
  BY <1>1
<1>6. left' \in 0..STABILIZE_TIMEOUT
  BY <1>1, <1>3
<1>7. BootTypes' /\ PollingTypes' /\ WorldTypes'
  BY <1>1, <1>4, <1>5, <1>6, TypeParts, TicksLegal DEF BootTypes, WorldTypes, world
<1>8. EarnedIn(live["sys"])'
  BY <1>1, <1>2, <1>5 DEF EarnedIn
<1> QED
  BY <1>1, <1>2, <1>7, <1>8 DEF Wrote

LEMMA RecoveryWaitsLegal ==
  ASSUME TypeOK, Fields(live), EarnedIn(live["sys"]),
         NEW c \in Commands, RecoveryWaits(c)
  PROVE  /\ Wrote /\ BootTypes' /\ PollingTypes' /\ WorldTypes'
         /\ EarnedIn(live["sys"])'
<1>1. /\ open /\ ran' = TRUE /\ live["sys"] = "RECOVERY" /\ KeepBanks
      /\ OnlyTicks /\ UNCHANGED <<init_status, left, tested, world>>
      /\ s_reinited /\ s_reinited' = (left > 0)
  BY DEF RecoveryWaits, Turn
<1>2. Fields(Obeyed(c)) /\ Obeyed(c)["sys"] = "RECOVERY"
  BY <1>1, ObeyedLegal
<1>3. left \in Nat /\ s_reinited' \in BOOLEAN
  BY <1>1, Constants, TypeParts DEF BootTypes
<1>4. /\ Fields(live')
      /\ \/ live'["sys"] = "MISSION" /\ ~s_reinited'
         \/ live'["sys"] = "RECOVERY"
  <2>1. CASE left = 0
    <3>1. live' = [Obeyed(c) EXCEPT !["sys"] = "MISSION"]
      BY <2>1 DEF RecoveryWaits
    <3>2. ~(left > 0)
      BY <2>1
    <3>3. ~s_reinited'
      BY <1>1, <3>2, Zenon
    <3> QED
      BY <1>2, <3>1, <3>3, SysLegal DEF Sys
  <2>2. CASE left # 0
    <3>1. live' = Obeyed(c)
      BY <2>2 DEF RecoveryWaits
    <3> QED
      BY <1>2, <3>1
  <2> QED
    BY <2>1, <2>2
<1>5. ~spoilt => init_status = Subsystems /\ tested
  BY <1>1 DEF EarnedIn
<1>6. BootTypes' /\ PollingTypes' /\ WorldTypes'
  BY <1>1, <1>3, TypeParts, TicksLegal DEF BootTypes, WorldTypes, world
<1>7. EarnedIn(live["sys"])'
  BY <1>1, <1>4, <1>5 DEF EarnedIn, world
<1> QED
  BY <1>1, <1>4, <1>6, <1>7 DEF Wrote

LEMMA UnknownSysLegal ==
  ASSUME TypeOK, Fields(live), EarnedIn(live["sys"]), UnknownSys
  PROVE  /\ Wrote /\ BootTypes' /\ PollingTypes' /\ WorldTypes'
         /\ EarnedIn(live["sys"])'
<1>1. /\ open /\ ran' = TRUE /\ live["sys"] = "invalid" /\ KeepBanks
      /\ live' = [live EXCEPT !["sys"] = "BOOT"]
      /\ UNCHANGED <<boot, polling, world>>
  BY DEF UnknownSys, Turn
<1>2. Fields(live') /\ live'["sys"] = "BOOT"
  BY <1>1, SysLegal DEF Sys
<1>3. ~spoilt => s_reinited = FALSE
  BY <1>1, TypeParts DEF EarnedIn, BootTypes
<1>4. BootTypes' /\ PollingTypes' /\ WorldTypes'
  BY <1>1, TypeParts DEF BootTypes, PollingTypes, WorldTypes, boot, polling, world
<1>5. EarnedIn(live["sys"])'
  BY <1>1, <1>2, <1>3 DEF EarnedIn, boot, world
<1> QED
  BY <1>1, <1>2, <1>4, <1>5 DEF Wrote

\* A turn of MISSION whose mode has left the variables f.
LEMMA MissionLegal ==
  ASSUME TypeOK, EarnedIn(live["sys"]), Turn("MISSION"), PollingTypes',
         NEW f, Fields(f), f["sys"] = "MISSION", GroundReset(f)
  PROVE  /\ Wrote /\ BootTypes' /\ PollingTypes' /\ WorldTypes'
         /\ EarnedIn(live["sys"])'
<1>1. open /\ ran' = TRUE /\ live["sys"] = "MISSION"
  BY DEF Turn
<1>2. BootTypes /\ WorldTypes
  BY TypeParts
<1>3. tested \in BOOLEAN
  BY <1>2 DEF BootTypes
<1>4. /\ Fields(live') /\ tested' \in BOOLEAN
      /\ \/ live'["sys"] = "BOOT"
         \/ live'["sys"] = "MISSION" /\ tested' = tested
      /\ KeepBanks /\ UNCHANGED <<init_status, s_reinited, left, world>>
  BY <1>3, GroundResetLegal
<1>5. ~spoilt => init_status = Subsystems /\ tested /\ ~s_reinited
  BY <1>1 DEF EarnedIn
<1>6. BootTypes' /\ WorldTypes'
  BY <1>1, <1>2, <1>4 DEF BootTypes, WorldTypes, world
<1>7. EarnedIn(live["sys"])'
  <2>1. ~spoilt' => init_status' = Subsystems /\ tested /\ ~s_reinited'
    BY <1>4, <1>5 DEF world
  <2>2. CASE live'["sys"] = "BOOT"
    BY <2>1, <2>2 DEF EarnedIn
  <2>3. CASE live'["sys"] = "MISSION" /\ tested' = tested
    BY <2>1, <2>3 DEF EarnedIn
  <2> QED
    BY <1>4, <2>2, <2>3
<1> QED
  BY <1>1, <1>4, <1>6, <1>7 DEF Wrote

LEMMA ModesLegal ==
  ASSUME TypeOK, Fields(live), EarnedIn(live["sys"]), NEW c \in Commands,
         NEW failed \in BOOLEAN,
         PollingMode(c) \/ ListeningMode(c) \/ OtaMode(c, failed) \/ DeafMode
  PROVE  /\ Wrote /\ BootTypes' /\ PollingTypes' /\ WorldTypes'
         /\ EarnedIn(live["sys"])'
<1>0. Turn("MISSION") /\ live["sys"] = "MISSION"
  BY DEF PollingMode, ListeningMode, OtaMode, DeafMode, InMode, Turn
<1>1. PollingTypes /\ WorldTypes
  BY TypeParts
<1>2. PollingTypes'
  <2>1. CASE OnlyTicks \/ Poll
    BY <1>1, <2>1, TicksLegal
  <2>2. CASE UNCHANGED polling
    BY <1>1, <2>2 DEF PollingTypes, polling
  <2> QED
    BY <2>1, <2>2 DEF PollingMode, ListeningMode, OtaMode, DeafMode
<1> DEFINE o == Obeyed(c)
<1>3. Fields(o) /\ o["sys"] = "MISSION" /\ o["state"] = live["state"]
  BY <1>0, ObeyedLegal
<1>4. CASE PollingMode(c) \/ ListeningMode(c)
  <2>1. live["state"] \in Modes /\ GroundReset(WithMode(o))
    BY <1>4 DEF PollingMode, ListeningMode, InMode, Modes
  <2>2. Fields(WithMode(o)) /\ WithMode(o)["sys"] = "MISSION"
    BY <1>3, <2>1, ModeLegal
  <2> QED
    BY <1>0, <1>2, <2>1, <2>2, MissionLegal
<1>5. CASE OtaMode(c, failed)
  <2> DEFINE g == [o EXCEPT !["ota"] = @ /\ ~failed]
  <2>1. live["state"] = "ota" /\ GroundReset(WithMode(g))
    BY <1>5 DEF OtaMode, InMode
  <2>2. (o["ota"] /\ ~failed) \in BOOLEAN
    OBVIOUS
  <2>3. Fields(g) /\ g["sys"] = "MISSION" /\ g["state"] \in Modes
    BY <1>3, <2>1, <2>2 DEF Fields, ControlRegion, Modes
  <2>4. Fields(WithMode(g)) /\ WithMode(g)["sys"] = "MISSION"
    BY <2>3, ModeLegal
  <2> QED
    BY <1>0, <1>2, <2>1, <2>4, MissionLegal
<1>6. CASE DeafMode
  <2>1. GroundReset(live)
    BY <1>6 DEF DeafMode
  <2> QED
    BY <1>0, <1>2, <2>1, MissionLegal
<1> QED
  BY <1>4, <1>5, <1>6

----------------------------------------------------------------------------
(* The invariant.                                                          *)

LEMMA EarnedParts ==
  /\ open => (Earned <=> EarnedIn(live["sys"]))
  /\ ~open => (Earned <=> EarnedIn(Voted["sys"]))
BY DEF Earned, EarnedIn, Worth

\* What holds in every turn.
LEMMA InTurn ==
  ASSUME LInv, open
  PROVE  TypeOK /\ Fields(live) /\ EarnedIn(live["sys"])
<1>1. TypeOK /\ Holds(live)
  BY DEF LInv, TypeOK, TmrTypeOK
<1> QED
  BY <1>1, HoldsFields, EarnedParts DEF LInv

\* A turn is a write of the store and keeps the invariant.
LEMMA TurnStep ==
  ASSUME LInv, Wrote, BootTypes', PollingTypes', WorldTypes',
         EarnedIn(live["sys"])', asked' \in BOOLEAN
  PROVE  Write /\ LInv'
<1>1. open /\ open' = open /\ Fields(live') /\ KeepBanks
  BY DEF Wrote, KeepBanks
<1>2. Holds(live')
  BY <1>1, HoldsFields
<1>3. Write
  BY <1>1, <1>2 DEF Write, KeepBanks
<1>4. IInv'
  BY <1>3, NextIInv DEF LInv, TmrNext
<1>5. TypeOK'
  BY <1>4 DEF IInv, TypeOK, BootTypes, PollingTypes, WorldTypes
<1>6. Earned'
  BY <1>1 DEF Earned, EarnedIn, Worth
<1> QED
  BY <1>3, <1>4, <1>5, <1>6 DEF LInv

LEMMA AskedLegal ==
  ASSUME TypeOK, SysTurn
  PROVE  asked' \in BOOLEAN
<1>1. asked \in BOOLEAN
  BY DEF TypeOK
<1>2. ASSUME NEW c, Hears(c)
      PROVE  asked' \in BOOLEAN
  BY <1>2 DEF Hears
<1>3. CASE asked' = asked \/ asked' = FALSE
  BY <1>1, <1>3
<1>4. (\E c \in Commands : Hears(c)) \/ asked' = asked \/ asked' = FALSE
  BY DEF SysTurn, BootDone, BootFail, Stabilize, RecoveryInit, RecoveryWaits,
         PollingMode, ListeningMode, OtaMode, OtaReset, DeafMode, UnknownSys,
         Commands
<1> QED
  BY <1>2, <1>3, <1>4

\* Every turn keeps the invariant and is a step of triple redundancy.
LEMMA SysTurnStep ==
  ASSUME LInv, SysTurn
  PROVE  TmrNext /\ LInv'
<1>1. open
  BY DEF SysTurn, BootDone, BootFail, Stabilize, RecoveryInit, RecoveryWaits,
         PollingMode, ListeningMode, OtaMode, OtaReset, DeafMode, UnknownSys,
         InMode, Turn
<1>2. /\ TypeOK /\ Fields(live) /\ EarnedIn(live["sys"])
      /\ asked' \in BOOLEAN
  BY <1>1, InTurn, AskedLegal
<1>3. CASE BootDone
  BY <1>2, <1>3, BootDoneLegal, TurnStep DEF TmrNext
<1>4. ASSUME NEW done \in SUBSET Subsystems, NEW radio \in SUBSET Subsystems,
             NEW passes \in BOOLEAN, BootFail(done, passes, radio)
      PROVE  TmrNext /\ LInv'
  BY <1>2, <1>4, BootFailLegal, TurnStep DEF TmrNext
<1>5. ASSUME NEW c \in Commands, Stabilize(c)
      PROVE  TmrNext /\ LInv'
  BY <1>2, <1>5, StabilizeLegal, TurnStep DEF TmrNext
<1>6. ASSUME NEW c \in Commands, NEW done \in SUBSET Subsystems,
             NEW passes \in BOOLEAN, RecoveryInit(c, done, passes)
      PROVE  TmrNext /\ LInv'
  BY <1>2, <1>6, RecoveryInitLegal, TurnStep DEF TmrNext
<1>7. ASSUME NEW c \in Commands, RecoveryWaits(c)
      PROVE  TmrNext /\ LInv'
  BY <1>2, <1>7, RecoveryWaitsLegal, TurnStep DEF TmrNext
<1>8. ASSUME NEW c \in Commands, NEW failed \in BOOLEAN,
             PollingMode(c) \/ ListeningMode(c) \/ OtaMode(c, failed) \/ DeafMode
      PROVE  TmrNext /\ LInv'
  BY <1>2, <1>8, ModesLegal, TurnStep DEF TmrNext
<1>9. CASE OtaReset
  <2>1. /\ Restart /\ ran' = FALSE /\ open' = FALSE /\ live' = Initial
        /\ bank_b' = Initial /\ bank_c' = Initial
        /\ init_status' = {} /\ s_reinited' = FALSE /\ left' = 0
        /\ tested' = FALSE /\ due' = FALSE /\ spi_turn' = FALSE
        /\ reading' = 0 /\ safe' = FALSE /\ asked' = FALSE /\ UNCHANGED world
    BY <1>9 DEF OtaReset, Restart
  <2>2. TmrNext
    BY <2>1 DEF TmrNext
  <2>3. IInv'
    BY <2>2, NextIInv DEF LInv
  <2>4. 0 \in 0..STABILIZE_TIMEOUT /\ 0 \in 0..READ_TICKS
    BY Constants
  <2>5. TypeOK'
    BY <1>2, <2>1, <2>3, <2>4 DEF IInv, TypeOK, world
  <2>6. Voted'["sys"] = "BOOT"
    BY <2>1, Constants DEF Voted, Vote, PowerOn, ControlRegion
  <2>7. Earned'
    BY <2>1, <2>6 DEF Earned, Worth
  <2> QED
    BY <2>2, <2>3, <2>5, <2>7 DEF LInv
<1>10. CASE UnknownSys
  BY <1>2, <1>10, UnknownSysLegal, TurnStep DEF TmrNext
<1>11. "none" \in Commands /\ TRUE \in BOOLEAN
  BY DEF Commands
<1> QED
  BY <1>3, <1>4, <1>5, <1>6, <1>7, <1>8, <1>9, <1>10, <1>11 DEF SysTurn

\* The first state.
LEMMA InitLInv == Init => LInv
<1> SUFFICES ASSUME Init PROVE LInv
  OBVIOUS
<1>1. IInv
  BY InitIInv DEF Init
<1>2. TypeOK
  <2>1. 0 \in 0..STABILIZE_TIMEOUT /\ 0 \in 0..READ_TICKS /\ 0 \in 0..MaxUpsets
    BY Constants
  <2> QED
    BY <1>1, <2>1 DEF Init, TypeOK, IInv
<1>3. Voted["sys"] = "BOOT"
  BY Constants DEF Init, TmrInit, Voted, Vote, PowerOn, ControlRegion
<1>4. Earned
  BY <1>3 DEF Init, TmrInit, Earned, Worth
<1> QED
  BY <1>1, <1>2, <1>4 DEF LInv

\* Every step keeps the invariant, and for the copies it is a step of triple
\* redundancy or none.
LEMMA NextLInv == LInv /\ [Next]_vars => LInv' /\ [TmrNext]_tmrvars
<1> SUFFICES ASSUME LInv, [Next]_vars
             PROVE  LInv' /\ [TmrNext]_tmrvars
  OBVIOUS
<1>0. TypeOK /\ IInv /\ Earned
  BY DEF LInv
<1>1. CASE CtrlScrub
  <2>1. Scrub /\ UNCHANGED <<ran, boot, polling, asked, world>>
    BY <1>1 DEF CtrlScrub
  <2>2. TmrNext /\ IInv'
    BY <1>0, <2>1, NextIInv DEF TmrNext
  <2>3. TypeOK'
    BY <1>0, <2>1, <2>2 DEF TypeOK, IInv, boot, polling, world
  <2>4. ~open /\ open' /\ live' = Voted
    BY <2>1 DEF Scrub
  <2>5. Earned'
    BY <1>0, <2>1, <2>4 DEF Earned, Worth, boot, world
  <2> QED
    BY <2>2, <2>3, <2>5 DEF LInv
<1>2. CASE SysTurn
  BY <1>2, SysTurnStep
<1>3. CASE CtrlCommit
  <2>1. Commit /\ ran' = FALSE /\ UNCHANGED <<boot, polling, asked, world>>
    BY <1>3 DEF CtrlCommit
  <2>2. TmrNext /\ IInv'
    BY <1>0, <2>1, NextIInv DEF TmrNext
  <2>3. TypeOK'
    BY <1>0, <2>1, <2>2 DEF TypeOK, IInv, boot, polling, world
  <2>4. open /\ ~open' /\ live' = live /\ bank_b' = live' /\ bank_c' = live'
    BY <2>1 DEF Commit
  <2>5. Voted' = live
    BY <1>0, <2>4 DEF Voted, Vote, IInv, TmrTypeOK, Holds
  <2>6. Earned'
    BY <1>0, <2>1, <2>4, <2>5 DEF Earned, Worth, boot, world
  <2> QED
    BY <2>2, <2>3, <2>6 DEF LInv
<1>4. CASE Clock \/ DangerChanges \/ UNCHANGED vars
  <2>1. UNCHANGED <<tmrvars, init_status, s_reinited, tested, spoilt>>
    BY <1>4 DEF Clock, DangerChanges, vars, boot, world
  <2>2. [TmrNext]_tmrvars /\ IInv'
    BY <1>0, <2>1, NextIInv
  <2>3. Worth' = Worth
    BY <2>1 DEF Worth, Voted, Vote, tmrvars, copies
  <2>4. Earned'
    BY <1>0, <2>1, <2>3 DEF Earned
  <2>5. CASE Clock
    <3>1. left' \in 0..STABILIZE_TIMEOUT
      <4>1. left' = IF left = 0 THEN 0 ELSE left - 1
        BY <2>5 DEF Clock
      <4> QED
        BY <1>0, <4>1, Constants DEF TypeOK
    <3> QED
      BY <1>0, <2>2, <2>4, <2>5, <3>1 DEF Clock, LInv, TypeOK, IInv, world
  <2>6. CASE DangerChanges
    BY <1>0, <2>2, <2>4, <2>6 DEF DangerChanges, LInv, TypeOK, IInv, boot, polling
  <2>7. CASE UNCHANGED vars
    BY <1>0, <2>2, <2>4, <2>7 DEF LInv, TypeOK, IInv, vars, boot, polling, world
  <2> QED
    BY <1>4, <2>5, <2>6, <2>7
<1>5. ASSUME NEW r \in Region, NEW v \in Struck[r], Upset(r, v)
      PROVE  LInv' /\ TmrNext
  <2>1. v \in Value[r]
    BY <1>5, Constants
  <2>2. /\ UpsetLive(r, v) \/ UpsetBankB(r, v) \/ UpsetBankC(r, v)
        /\ upsets < MaxUpsets /\ upsets' = upsets + 1
        /\ UNCHANGED <<ran, boot, polling, asked, danger>>
    BY <1>5 DEF Upset
  <2>3. TmrNext
    BY <2>1, <2>2 DEF TmrNext
  <2>4. IInv' /\ (~open => Voted' = Voted) /\ open' = open
    BY <1>0, <2>1, <2>2, UpsetHarmless, UpsetSteps
  <2>5. \/ spoilt' = (spoilt \/ open)
        \/ ~open /\ spoilt' = spoilt
    BY <1>5 DEF Upset
  <2>6. spoilt' \in BOOLEAN /\ (spoilt => spoilt') /\ (~spoilt' => ~open)
    BY <1>0, <2>5 DEF TypeOK, TmrTypeOK
  <2>7. upsets' \in 0..MaxUpsets
    BY <1>0, <2>2, Constants DEF TypeOK
  <2>8. TypeOK'
    BY <1>0, <2>2, <2>4, <2>6, <2>7 DEF TypeOK, IInv, boot, polling
  <2>9. Earned'
    BY <1>0, <2>2, <2>4, <2>6 DEF Earned, Worth, boot
  <2> QED
    BY <2>3, <2>4, <2>8, <2>9 DEF LInv
<1>6. CASE UpsetUnprotected
  <2>1. /\ upsets < MaxUpsets /\ upsets' = upsets + 1 /\ spoilt' = TRUE
        /\ UNCHANGED <<tmrvars, ran, left, tested, polling, asked, danger>>
        /\ init_status' \subseteq init_status
        /\ s_reinited' = ~s_reinited \/ s_reinited' = s_reinited
    BY <1>6 DEF UpsetUnprotected
  <2>2. [TmrNext]_tmrvars /\ IInv'
    BY <1>0, <2>1, NextIInv
  <2>3. s_reinited' \in BOOLEAN
    BY <1>0, <2>1 DEF TypeOK
  <2>4. upsets' \in 0..MaxUpsets
    BY <1>0, <2>1, Constants DEF TypeOK
  <2>5. TypeOK'
    BY <1>0, <2>1, <2>2, <2>3, <2>4 DEF TypeOK, IInv, polling
  <2>6. Earned'
    BY <2>1 DEF Earned
  <2> QED
    BY <2>2, <2>5, <2>6 DEF LInv
<1> QED
  BY <1>1, <1>2, <1>3, <1>4, <1>5, <1>6 DEF Next

----------------------------------------------------------------------------
(* The theorems.                                                           *)

THEOREM LifecycleInvariance == Spec => []LInv
BY InitLInv, NextLInv, PTL DEF Spec

\* Every variable of the super-loop stays in its range, whatever fails or is
\* hit: the count of retries and the time that is left never run over.
THEOREM TypeCorrect == Spec => []TypeOK
<1>1. LInv => TypeOK
  BY DEF LInv
<1> QED
  BY <1>1, LifecycleInvariance, PTL

\* MISSION is entered only with every subsystem initialised and after a self
\* test since BOOT was last entered (init.c:266, 336), unless radiation hits
\* what the redundancy does not cover.
THEOREM MissionIsTested == Spec => []MissionTested
<1>1. LInv => MissionTested
  BY DEF LInv, Earned, Worth, MissionTested, Is
<1> QED
  BY <1>1, LifecycleInvariance, PTL

\* ctrl_scrub and ctrl_commit around each turn: no upset between two turns is
\* ever seen by a turn.
THEOREM ControlIsSafeStore == Spec => ImplementsSafeStore
<1>1. Init => TmrInit
  BY DEF Init
<1>2. Spec => TmrSpec
  BY <1>1, LifecycleInvariance, NextLInv, PTL DEF Spec, TmrSpec
<1> QED
  BY <1>2, TmrIsSafeStore
=============================================================================
