------------------------------ MODULE MCSession ------------------------------
(***************************************************************************)
(* What a session keeps beside its Runs, checked in one run: its promise   *)
(* to senders (WakeLedger), reactors, correlations, memberships, triggers, *)
(* the sub-agents of a remote host (AgentHost), its creation               *)
(* (Provisioning) and its files (Resources).                               *)
(* They share no state, so a behaviour is one of them at work while the    *)
(* others stay as they began; "part" says which.                           *)
(***************************************************************************)
EXTENDS WakeLedger, Reactors, Correlations, Memberships, Triggers,
        AgentHost, Provisioning, Resources

CONSTANTS lead, helper, mainRoom, sideRoom

VARIABLE part

\* Reactors: one kind of each, over one Conversation.
AllSpecs ==
  {[name |-> name, of |-> {lead, helper}, n |-> 2] :
     name \in {"awaitAll", "awaitQuorum", "firstOf", "awaitDeadline", "debounce", "supervise"}}
OneRoom == {{mainRoom}}

\* Memberships: a worker and its thread beside Prime's own.
WorkerThread == [w \in {helper} |-> sideRoom]

ledgerVars == wakes

SessionInit ==
  /\ part \in {"ledger", "reactors", "correlations", "memberships", "triggers", "host",
              "creation", "files"}
  /\ Init /\ ReactorInit /\ CorrelationInit /\ MemberInit /\ TriggerInit /\ HostInit
  /\ ProvisionInit /\ ResourceInit

SessionNext ==
  /\ UNCHANGED part
  /\ \/ /\ part = "ledger" /\ Next
        /\ UNCHANGED <<reactorVars, correlationVars, memberVars, triggerVars, hostVars,
                       provisionVars, resourceVars>>
     \/ /\ part = "reactors" /\ ReactorNext
        /\ UNCHANGED <<ledgerVars, correlationVars, memberVars, triggerVars, hostVars,
                       provisionVars, resourceVars>>
     \/ /\ part = "correlations" /\ CorrelationNext
        /\ UNCHANGED <<ledgerVars, reactorVars, memberVars, triggerVars, hostVars,
                       provisionVars, resourceVars>>
     \/ /\ part = "memberships" /\ MemberNext
        /\ UNCHANGED <<ledgerVars, reactorVars, correlationVars, triggerVars, hostVars,
                       provisionVars, resourceVars>>
     \/ /\ part = "triggers" /\ TriggerNext
        /\ UNCHANGED <<ledgerVars, reactorVars, correlationVars, memberVars, hostVars,
                       provisionVars, resourceVars>>
     \/ /\ part = "host" /\ HostNext
        /\ UNCHANGED <<ledgerVars, reactorVars, correlationVars, memberVars, triggerVars,
                       provisionVars, resourceVars>>
     \/ /\ part = "creation" /\ ProvisionNext
        /\ UNCHANGED <<ledgerVars, reactorVars, correlationVars, memberVars, triggerVars,
                       hostVars, resourceVars>>
     \/ /\ part = "files" /\ ResourceNext
        /\ UNCHANGED <<ledgerVars, reactorVars, correlationVars, memberVars, triggerVars,
                       hostVars, provisionVars>>

sessionVars ==
  <<part, wakes, reactorVars, correlationVars, memberVars, triggerVars, hostVars,
    provisionVars, resourceVars>>

\* No fair step of Correlations is enabled before its first ask.
SessionSpec ==
  SessionInit /\ [][SessionNext]_sessionVars /\ CorrelationFairness

\* The variables of every part keep their types, and a trigger that is off, or
\* gone, has no timer.
TypesOK ==
  /\ TypeOK /\ ReactorTypeOK /\ CorrelationTypeOK /\ MemberTypeOK
  /\ TriggerTypeOK /\ HostTypeOK /\ ProvisionTypeOK /\ ResourceTypeOK
=============================================================================
