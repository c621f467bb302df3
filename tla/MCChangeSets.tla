---------------------------- MODULE MCChangeSets ----------------------------
(***************************************************************************)
(* Three histories that several processes continue, side by side: the      *)
(* changesets of single stacks and of all stacks together, the semantic    *)
(* history of files, and the ledger.  They share no state: a behaviour     *)
(* chooses one of them and the others stay where they begin.               *)
(***************************************************************************)
EXTENDS ChangeSets, MCHistory, MCLedger

VARIABLE part

MCAlone == {{s} : s \in Stacks}

\* Either no stack is decided on twice, or there is only one stack; and of four commits
\* only one is a root.
MCBound ==
    /\ \/ \A s \in Stacks : Len(plans[s]) <= 1
       \/ \A s, t \in Stacks : plans[s] = <<>> \/ plans[t] = <<>> \/ s = t
    /\ Len(history) <= 3 \/ Cardinality(Roots) <= 1
MCSymmetry == Permutations(Clients) \cup Permutations(Stacks)

NoHistory ==
    /\ history = <<>> /\ active = <<>> /\ resolutions = {} /\ merging = {} /\ importing = FALSE

LinesInit ==
    /\ part \in {"changesets", "history", "ledger"}
    /\ ChangesetInit /\ Init
    /\ IF part = "history" THEN HistoryInit ELSE NoHistory
    /\ part # "changesets" => exclusive
    /\ part # "ledger" => alone /\ steady

\* Changesets and commits end; the writers of the ledger never wait for each other.
LinesNext ==
    \/ part = "changesets" /\ ChangesetNext /\ UNCHANGED <<historyVars, vars, part>>
    \/ part = "history" /\ HistoryNext /\ UNCHANGED <<changesetVars, vars, part>>
    \/ part = "ledger" /\ Next /\ UNCHANGED <<changesetVars, historyVars, part>>
    \/ part # "ledger" /\ UNCHANGED <<changesetVars, historyVars, vars, part>>

LinesSpec == LinesInit /\ [][LinesNext]_<<changesetVars, historyVars, vars, part>>
=============================================================================
