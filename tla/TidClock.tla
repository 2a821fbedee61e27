-------------------------------- MODULE TidClock --------------------------------
(***************************************************************************)
(* The record keys: next_tid reserves a microsecond timestamp larger than   *)
(* every earlier one. Threads race on the last timestamp in a               *)
(* compare-and-swap loop, and the wall clock may be stepped back.          *)
(*                                                                         *)
(* A key handed out is known by its timestamp: its string is the timestamp  *)
(* and the process's clock id in a fixed number of letters of an alphabet   *)
(* that sorts, most significant first.                                       *)
(***************************************************************************)
EXTENDS Naturals, Sequences

CONSTANTS
  Threads,       \* concurrent calls of next_tid in one process
  MaxTimestamp   \* MAX_TID_TIMESTAMP

ASSUME TidAssumption == MaxTimestamp \in Nat

VARIABLES
  clock,     \* the system's wall clock
  last,      \* LAST_TIMESTAMP_MICROS
  thread,    \* the locals of each call
  handed     \* history: the timestamps handed out, in that order

tidVars == <<clock, last, thread, handed>>

Timestamps == 0..MaxTimestamp
ThreadState ==
  [stage : {"idle", "loading", "swapping"}, now : Timestamps, observed : Timestamps]

TidTypeOK ==
  /\ clock \in Timestamps
  /\ last \in Timestamps
  /\ thread \in [Threads -> ThreadState]
  /\ handed \in Seq(Timestamps)

TidInit ==
  /\ clock \in Timestamps
  /\ last = 0
  /\ thread = [t \in Threads |-> [stage |-> "idle", now |-> 0, observed |-> 0]]
  /\ handed = <<>>

--------------------------------------------------------------------------------

(* next_tid reads the clock, once. *)
ReadClock(t) ==
  /\ thread[t].stage = "idle"
  /\ thread' = [thread EXCEPT ![t] = [stage |-> "loading", now |-> clock, observed |-> 0]]
  /\ UNCHANGED <<clock, last, handed>>

(* reserve_monotonic_timestamp: the relaxed load. *)
LoadLast(t) ==
  /\ thread[t].stage = "loading"
  /\ thread' = [thread EXCEPT ![t].stage = "swapping", ![t].observed = last]
  /\ UNCHANGED <<clock, last, handed>>

(* now.max(observed + 1) *)
AtLeastObserved(t) ==
  IF thread[t].now > thread[t].observed THEN thread[t].now ELSE thread[t].observed
Candidate(t) ==
  IF thread[t].now > thread[t].observed THEN thread[t].now ELSE thread[t].observed + 1

(* The exchange succeeds: the candidate is reserved. A timestamp beyond the *)
(* range fails an assertion: neither this call nor a later one gets a key.   *)
Swap(t) ==
  /\ thread[t].stage = "swapping"
  /\ last = thread[t].observed
  /\ Candidate(t) <= MaxTimestamp
  /\ last' = Candidate(t)
  /\ handed' = Append(handed, Candidate(t))
  /\ thread' = [thread EXCEPT ![t].stage = "idle"]
  /\ UNCHANGED clock

(* compare_exchange_weak fails: another call was faster, or for no reason.  *)
SwapFails(t) ==
  /\ thread[t].stage = "swapping"
  /\ thread' = [thread EXCEPT ![t].observed = last]
  /\ UNCHANGED <<clock, last, handed>>

(* The clock advances, or is set back. *)
ClockMoves ==
  /\ clock' \in Timestamps
  /\ UNCHANGED <<last, thread, handed>>

TidNext ==
  \/ \E t \in Threads : ReadClock(t) \/ LoadLast(t) \/ Swap(t) \/ SwapFails(t)
  \/ ClockMoves

TidSpec == TidInit /\ [][TidNext]_tidVars

--------------------------------------------------------------------------------

(* Every key is larger than the keys handed out before it, whatever the     *)
(* clock does and however the calls race: keys of one process are never     *)
(* equal, and their order is the order of their creation.                    *)
KeysIncrease ==
  \A i, k \in DOMAIN handed : i < k => handed[i] < handed[k]
================================================================================
