----------------------------- MODULE ToolLedger -----------------------------
(***************************************************************************)
(* What a Session's history may rely on about tool calls: a call is        *)
(* announced, opened and answered once; the provider is not asked again    *)
(* while a call is open or a tool of an earlier turn still has effects.    *)
(***************************************************************************)
CONSTANT Calls
VARIABLES ledger, effects, asked

ledgerVars == <<ledger, effects, asked>>

LedgerInit == ledger = [c \in Calls |-> "none"] /\ effects = {} /\ asked = FALSE

Ask ==
    /\ ~asked /\ effects = {}
    /\ \A c \in Calls : ledger[c] # "open"
    /\ asked' = TRUE
    /\ UNCHANGED <<ledger, effects>>

Announce(c) ==
    /\ asked /\ ledger[c] = "none"
    /\ ledger' = [ledger EXCEPT ![c] = "announced"]
    /\ UNCHANGED <<effects, asked>>

Open(c) ==
    /\ asked /\ ledger[c] = "announced"
    /\ ledger' = [ledger EXCEPT ![c] = "open"]
    /\ effects' \in {effects, effects \cup {c}}
    /\ UNCHANGED asked

Answer(c) ==
    /\ ledger[c] \in {"announced", "open"}
    /\ ledger' = [ledger EXCEPT ![c] = "answered"]
    /\ effects' \in {effects, effects \ {c}}
    /\ UNCHANGED asked

Cease == effects' \subseteq effects /\ UNCHANGED <<ledger, asked>>

Close ==
    /\ asked /\ asked' = FALSE
    /\ effects' = {}
    /\ UNCHANGED ledger

LedgerNext == Ask \/ Cease \/ Close \/ \E c \in Calls : Announce(c) \/ Open(c) \/ Answer(c)

LedgerSpec == LedgerInit /\ [][LedgerNext]_ledgerVars
=============================================================================
