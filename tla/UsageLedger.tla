---------------------------- MODULE UsageLedger ----------------------------
(***************************************************************************)
(* What the upload path of module UsageUpload promises, without network,   *)
(* processes or watermarks: batches are recorded in order, the control     *)
(* plane settles them in that same order and each one once, and the agent  *)
(* releases its copy of a batch only after it has been settled.            *)
(* agent.service.ts and store.go have no such component: this module is    *)
(* the contract Metering relies on.                                        *)
(***************************************************************************)
CONSTANTS Batches, Before(_, _)

VARIABLES
    recorded,   \* batches ever committed by RecordSample
    settled,    \* batches applied to the subscriptions' usage
    held        \* batches the agent still keeps

vars == <<recorded, settled, held>>

Init == recorded = {} /\ settled = {} /\ held = {}

\* A new batch comes after every earlier one.
Record ==
    \E b \in Batches \ recorded :
        /\ \A x \in recorded : Before(x, b)
        /\ recorded' = recorded \cup {b}
        /\ held' = held \cup {b}
        /\ UNCHANGED settled

\* Some recorded batches are billed, none twice, none ahead of an older one.
Settle ==
    \E S \in SUBSET (recorded \ settled) :
        /\ \A b \in S : \A x \in recorded : Before(x, b) => x \in settled \cup S
        /\ settled' = settled \cup S
        /\ UNCHANGED <<recorded, held>>

\* The agent forgets batches that are settled.
Release ==
    \E S \in SUBSET (held \cap settled) :
        /\ held' = held \ S
        /\ UNCHANGED <<recorded, settled>>

Next == Record \/ Settle \/ Release

Spec == Init /\ [][Next]_vars

============================================================================
