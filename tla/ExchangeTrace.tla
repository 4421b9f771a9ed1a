---------------------------- MODULE ExchangeTrace ----------------------------
(***************************************************************************)
(* What a traced local proxy promises its owner: an exchange opens, closes *)
(* once, and leaves at most one trace record, written at the moment it     *)
(* closes.  An exchange whose client disappears, or whose process exits,   *)
(* closes without a record.                                                *)
(***************************************************************************)
EXTENDS Integers

CONSTANT Exch

VARIABLES
    phase,     \* phase[x]: "idle", "open" or "closed"
    recorded   \* recorded[x]: trace records the exchange handed to the sink

vars == <<phase, recorded>>

Init ==
    /\ phase = [x \in Exch |-> "idle"]
    /\ recorded = [x \in Exch |-> 0]

Open(x) ==
    /\ phase[x] = "idle"
    /\ phase' = [phase EXCEPT ![x] = "open"]
    /\ UNCHANGED recorded

\* Answered, refused or timed out; a refusal before any await opens and closes at once.
Close(x, n) ==
    /\ phase[x] # "closed"
    /\ n \in {0, 1}
    /\ phase' = [phase EXCEPT ![x] = "closed"]
    /\ recorded' = [recorded EXCEPT ![x] = n]

Next == \E x \in Exch : Open(x) \/ \E n \in {0, 1} : Close(x, n)

Spec == Init /\ [][Next]_vars

=============================================================================
