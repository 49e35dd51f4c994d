---------------------------- MODULE SessionLedger ----------------------------
(***************************************************************************)
(* What a role-playing session promises to the clients that play turns in  *)
(* it: the turns that took effect form one ledger, each of them was        *)
(* computed from exactly the entries before it, none takes effect twice,   *)
(* and the verdict a client receives tells the truth about the ledger.     *)
(* Nothing is said here about locks, providers or transactions.            *)
(***************************************************************************)
EXTENDS Naturals, Sequences

CONSTANT Turns       \* the turn requests clients send to the session

VARIABLES
    live,            \* the session has not been deleted
    ledger,          \* the turns that took effect, in order
    verdict          \* what the client of each turn has been told

ledgerVars == <<live, ledger, verdict>>

Verdicts == {"pending", "accepted", "rejected", "unknown"}

\* An entry names its turn and how much of the ledger the turn was based on.
Entry == [turn: Turns, basis: Nat]

Applied(t) == \E i \in 1..Len(ledger): ledger[i].turn = t

Init ==
    /\ live = TRUE
    /\ ledger = <<>>
    /\ verdict = [t \in Turns |-> "pending"]

\* A turn takes effect on top of everything applied so far. Its client may
\* have been left without a definite answer by then.
Apply(t) ==
    /\ live
    /\ verdict[t] \in {"pending", "unknown"}
    /\ ~Applied(t)
    /\ ledger' = Append(ledger, [turn |-> t, basis |-> Len(ledger)])
    /\ UNCHANGED <<live, verdict>>

\* The client learns that the turn took effect, which is so unless the whole
\* session has been deleted since.
Accept(t) ==
    /\ verdict[t] = "pending"
    /\ live => Applied(t)
    /\ verdict' = [verdict EXCEPT ![t] = "accepted"]
    /\ UNCHANGED <<live, ledger>>

\* The client learns that the turn did not take effect, and it never will.
Reject(t) ==
    /\ verdict[t] = "pending"
    /\ ~Applied(t)
    /\ verdict' = [verdict EXCEPT ![t] = "rejected"]
    /\ UNCHANGED <<live, ledger>>

\* Clients are left without an answer, or with one that says nothing of the
\* ledger (a storage error): their turns may have taken effect, may yet do so,
\* or never will, and the ledger as it is now does not tell which.
Abandon(lost) ==
    /\ \A t \in lost: verdict[t] = "pending"
    /\ verdict' = [t \in Turns |-> IF t \in lost THEN "unknown" ELSE verdict[t]]
    /\ UNCHANGED <<live, ledger>>

\* Deleting the session deletes its ledger.
Delete ==
    /\ live
    /\ live' = FALSE
    /\ ledger' = <<>>
    /\ UNCHANGED verdict

Next ==
    \/ \E t \in Turns: Apply(t) \/ Accept(t) \/ Reject(t)
    \/ \E lost \in SUBSET Turns: Abandon(lost)
    \/ Delete

Spec == Init /\ [][Next]_ledgerVars

=============================================================================
