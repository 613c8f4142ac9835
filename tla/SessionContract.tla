--------------------------- MODULE SessionContract --------------------------
(***************************************************************************)
(* What the Proteus sessions of a client promise to its application,       *)
(* whatever is cached, evicted, saved, reloaded or lost in a crash:        *)
(* every ciphertext handed out is under a message key of its own, and no   *)
(* message of a one-time session is handed over twice.                     *)
(***************************************************************************)
EXTENDS Naturals, Sequences

CONSTANT Replayable(_)  \* messages under the last resort prekey

VARIABLES
    outbox,     \* message keys of the ciphertexts handed to the application
    inbox       \* messages handed to the application

Range(s) == {s[i] : i \in DOMAIN s}

Init == outbox = << >> /\ inbox = << >>

Distinct(s) == \A i, j \in DOMAIN s : s[i] = s[j] => i = j

\* One call may hand out several ciphertexts (encrypt_batched).
Send ==
    /\ Len(outbox') > Len(outbox)
    /\ SubSeq(outbox', 1, Len(outbox)) = outbox
    /\ Distinct(outbox')
    /\ UNCHANGED inbox

Receive ==
    /\ Len(inbox') = Len(inbox) + 1
    /\ inbox' = Append(inbox, inbox'[Len(inbox')])
    /\ inbox'[Len(inbox')] \in Range(inbox) => Replayable(inbox'[Len(inbox')])
    /\ UNCHANGED outbox

Spec == Init /\ [][Send \/ Receive]_<<outbox, inbox>>

=============================================================================
