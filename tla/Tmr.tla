--------------------------------- MODULE Tmr --------------------------------
(***************************************************************************)
(* Triple modular redundancy of the global variables.  The code has it     *)
(* twice, alike: seu_data.c for the sensor structures, around the ticks of *)
(* sensors_tick, and init.c for the control variables, around each turn of *)
(* the top super-loop.  Copy A is the variable itself; the banks B and C   *)
(* are written by the commit and by the repair of the vote.                *)
(*                                                                         *)
(* The vote is taken byte by byte; a region here is one of those bytes.    *)
(* Radiation may hit any copy at any time, a byte once at most between two *)
(* passes of scrub and commit.                                             *)
(***************************************************************************)

CONSTANTS
  Region,                 \* the protected bytes
  Value,                  \* Value[r]: what r may hold, after an upset too
  Initial                 \* what the program's start puts into them

VARIABLES
  live,                   \* copy A of each region
  bank_b, bank_c,         \* its shadows
  open,                   \* between seu_data_scrub and seu_data_commit
  hits                    \* history: regions hit since the last pass

copies == <<live, bank_b, bank_c>>
tmrvars == <<copies, open, hits>>

Holds(f) ==
  /\ f = [r \in Region |-> f[r]]
  /\ \A r \in Region : f[r] \in Value[r]

ASSUME TmrAssumption == Holds(Initial)

TmrTypeOK ==
  /\ Holds(live) /\ Holds(bank_b) /\ Holds(bank_c)
  /\ open \in BOOLEAN
  /\ hits \subseteq Region

\* seu_data_protect: a variable enters with its copies equal.
TmrInit ==
  /\ live = Initial /\ bank_b = Initial /\ bank_c = Initial
  /\ open = FALSE /\ hits = {}

----------------------------------------------------------------------------
\* A variant of the vote that does not ask bank C.
VoteWithoutC(r) == IF live[r] = bank_b[r] THEN live[r] ELSE bank_b[r]

\* Two of three; when all three differ, bank B is taken.
Vote(r) == IF live[r] \in {bank_b[r], bank_c[r]} THEN live[r] ELSE bank_b[r]

Voted == [r \in Region |-> Vote(r)]

\* All three copies get the outcome of the vote.
Scrub ==
  /\ ~open /\ open' = TRUE
  /\ live' = Voted /\ bank_b' = Voted /\ bank_c' = Voted
  /\ hits' = {}

\* A variant of the commit that forgets bank C.
CommitOnlyB ==
  /\ open /\ open' = FALSE
  /\ bank_b' = live
  /\ hits' = {}
  /\ UNCHANGED <<live, bank_c>>

\* The banks follow what the turn has written.
Commit ==
  /\ open /\ open' = FALSE
  /\ bank_b' = live /\ bank_c' = live
  /\ hits' = {}
  /\ UNCHANGED live

\* The code of the turn writes its variables.
Write ==
  /\ open
  /\ Holds(live')
  /\ UNCHANGED <<bank_b, bank_c, open, hits>>

\* The processor restarts and the program protects its variables anew.
Restart ==
  /\ live' = Initial /\ bank_b' = Initial /\ bank_c' = Initial
  /\ open' = FALSE /\ hits' = {}

----------------------------------------------------------------------------
(* Single event upsets.                                                    *)

Hit(r) == r \notin hits /\ hits' = hits \cup {r} /\ UNCHANGED open

UpsetLive(r, v) ==
  Hit(r) /\ live' = [live EXCEPT ![r] = v] /\ UNCHANGED <<bank_b, bank_c>>

UpsetBankB(r, v) ==
  Hit(r) /\ bank_b' = [bank_b EXCEPT ![r] = v] /\ UNCHANGED <<live, bank_c>>

UpsetBankC(r, v) ==
  Hit(r) /\ bank_c' = [bank_c EXCEPT ![r] = v] /\ UNCHANGED <<live, bank_b>>

TmrNext ==
  \/ Scrub \/ Write \/ Commit \/ Restart
  \/ \E r \in Region : \E v \in Value[r] :
       UpsetLive(r, v) \/ UpsetBankB(r, v) \/ UpsetBankC(r, v)

TmrSpec == TmrInit /\ [][TmrNext]_tmrvars

----------------------------------------------------------------------------
\* Between two turns the variables are worth what the next vote makes of
\* them; an upset of a live copy within a turn is taken for a write, the
\* window that seu_data.h:37 admits.
Store == INSTANCE SafeStore WITH value <- IF open THEN live ELSE Voted

\* An upset of any copy between two turns goes unnoticed, and what a turn has
\* written is what the next one finds.
ImplementsSafeStore == Store!Spec
=============================================================================
