---------------------------- MODULE AttachBridge -----------------------------
(***************************************************************************)
(* The far side of the external connector: the acp-attach-host process,    *)
(* which collects Prime's directives for one tab over long polls, takes    *)
(* its launcher's messages from a PeerMailbox, and runs each as one prompt *)
(* turn of the agent it spawned.                                           *)
(*                                                                         *)
(* The Shell appears as the tab, its queued directives and the Runs it was *)
(* asked to open and end; DeliveryQueue is that queue in full.  The agent  *)
(* may take launcher messages itself, by peer_wait over a socket.  The     *)
(* agent's answers to its launcher are not modelled.                       *)
(***************************************************************************)
EXTENDS Naturals, Sequences, SequencesExt, Filters

CONSTANTS Directives,  \* what Prime sends, each once
          Mail,        \* what the launcher sends, each once
          Waits,       \* bound: the peer_waits of the agent, each one once
          MaxUpdates,  \* bound: updates streamed in one turn
          MaxFaults    \* bound: calls to the Shell that fail

ASSUME BridgeAssumption == /\ Directives \cap Mail = {}
                           /\ MaxUpdates \in Nat /\ MaxFaults \in Nat

VARIABLES tab,      \* the Shell's tab: "live" or "gone"
          directed,    \* history: the directives queued for the tab, in order
          shell,    \* those not collected yet
          lost,     \* history: directives whose answer never reached the bridge
          poll,     \* pollInFlight: its state and its answer
          batch,    \* deliveries of the last poll not run yet
          inbox,    \* PeerMailbox.queues.parent
          mailed,   \* history: the launcher's messages, in order
          waiter,   \* each peer_wait: "unmade", "parked", "settled"
          parked,   \* PeerMailbox.waiters.parent, in order
          signalled,\* the race's signal("parent") has resolved
          loop,     \* where the loop stands
          work,     \* the item being run, <<>> or <<item>>
          ran,      \* history: the items whose turn has begun
          byAgent,  \* history: launcher messages the agent took itself
          run,      \* the Run of the turn, 0 for none; numbered as opened
          opened,   \* the Runs opened so far
          ended,    \* the Runs the bridge has asked to end
          chain,    \* pushChain: the Runs of the events not posted yet
          streamed,  \* updates streamed in this turn
          running, stopped, \* the bridge's flags
          faults

bridgeVars == <<tab, directed, shell, lost, poll, batch, inbox, mailed, waiter, parked,
                signalled, loop, work, ran, byAgent, run, opened, ended, chain,
                streamed, running, stopped, faults>>

Places == {"starting", "top", "racing", "backoff", "batch", "opening", "prompting", "pushing",
           "over"}

NoPoll == [state |-> "none", got |-> <<>>]

\* The tab is registered and the mailbox served; the agent's session starts.
BridgeInit ==
  /\ tab = "live"
  /\ directed = <<>> /\ shell = <<>> /\ lost = {}
  /\ poll = NoPoll /\ batch = <<>>
  /\ inbox = <<>> /\ mailed = <<>>
  /\ waiter = [k \in Waits |-> "unmade"] /\ parked = <<>>
  /\ signalled = FALSE
  /\ loop = "starting"
  /\ work = <<>> /\ ran = <<>> /\ byAgent = {}
  /\ run = 0 /\ opened = 0 /\ ended = {} /\ chain = <<>> /\ streamed = 0
  /\ running = FALSE /\ stopped = FALSE
  /\ faults = 0

-----------------------------------------------------------------------------
(* The launcher and Prime *)

shellVars == <<tab, directed, shell, lost>>
mailVars == <<inbox, mailed, waiter, parked, byAgent>>
turnVars == <<work, ran, run, opened, ended, chain, streamed>>
flags == <<running, stopped>>

Direct(d) ==
  /\ tab = "live" /\ d \in Directives \ Range(directed)
  /\ directed' = Append(directed, d)
  /\ shell' = Append(shell, d)
  /\ UNCHANGED <<tab, lost, poll, batch, mailVars, signalled, loop, turnVars, flags, faults>>

\* PeerMailbox.send: to the first parked waiter, else queued; then notify.
SendMail(m) ==
  /\ m \in Mail \ Range(mailed)
  /\ mailed' = Append(mailed, m)
  /\ IF parked # <<>>
       THEN /\ waiter' = [waiter EXCEPT ![Head(parked)] = "settled"]
            /\ parked' = Tail(parked)
            /\ byAgent' = byAgent \cup {m}
            /\ UNCHANGED inbox
       ELSE inbox' = Append(inbox, m) /\ UNCHANGED <<waiter, parked, byAgent>>
  /\ signalled' = (loop = "racing" \/ signalled)
  /\ UNCHANGED <<shellVars, poll, batch, loop, turnVars, flags, faults>>

\* PeerMailbox.take for the agent's peer_wait, which its turn may outlive.
AgentWaits(k) ==
  /\ loop = "prompting" /\ running /\ waiter[k] = "unmade"
  /\ IF inbox # <<>>
       THEN /\ byAgent' = byAgent \cup {Head(inbox)}
            /\ inbox' = Tail(inbox)
            /\ waiter' = [waiter EXCEPT ![k] = "settled"]
            /\ UNCHANGED parked
       ELSE /\ waiter' = [waiter EXCEPT ![k] = "parked"]
            /\ parked' = Append(parked, k)
            /\ UNCHANGED <<inbox, byAgent>>
  /\ UNCHANGED <<shellVars, poll, batch, mailed, signalled, loop, turnVars, flags, faults>>

\* Its timeout, or its socket closing.
WaitEnds(k) ==
  /\ waiter[k] = "parked"
  /\ waiter' = [waiter EXCEPT ![k] = "settled"]
  /\ parked' = Without(parked, {k})
  /\ UNCHANGED <<shellVars, poll, batch, inbox, mailed, byAgent, signalled, loop,
                 turnVars, flags, faults>>

-----------------------------------------------------------------------------
(* The poll *)

\* The Shell drains the tab's queue into the answer, or its budget runs out.
PollAnswered ==
  /\ poll.state = "asked"
  /\ poll' = [state |-> "answered", got |-> shell]
  /\ shell' = <<>>
  /\ UNCHANGED <<tab, directed, lost, batch, mailVars, signalled, loop, turnVars, flags, faults>>

\* The request fails, before the queue was drained or after.
PollFails(drained) ==
  /\ poll.state = "asked" /\ faults < MaxFaults
  /\ faults' = faults + 1
  /\ poll' = [state |-> "failed", got |-> <<>>]
  /\ shell' = IF drained THEN <<>> ELSE shell
  /\ lost' = IF drained THEN lost \cup Range(shell) ELSE lost
  /\ UNCHANGED <<tab, directed, batch, mailVars, signalled, loop, turnVars, flags>>

-----------------------------------------------------------------------------
(* The loop *)

\* start: the session is up and the loop begins.
StartLoop ==
  /\ loop = "starting"
  /\ loop' = "top" /\ running' = TRUE
  /\ UNCHANGED <<shellVars, poll, batch, mailVars, signalled, turnVars, stopped, faults>>

\* Mutant of Top: the queue is looked at only when the loop was notified.
TopOnSignal ==
  /\ loop = "top"
  /\ IF ~running \/ stopped
       THEN loop' = "over" /\ UNCHANGED <<inbox, work, poll, signalled>>
     ELSE IF signalled /\ inbox # <<>>
       THEN /\ loop' = "opening"
            /\ work' = <<Head(inbox)>> /\ inbox' = Tail(inbox)
            /\ UNCHANGED <<poll, signalled>>
     ELSE /\ loop' = "racing"
          /\ signalled' = FALSE
          /\ poll' = IF poll.state = "none" THEN [poll EXCEPT !.state = "asked"] ELSE poll
          /\ UNCHANGED <<inbox, work>>
  /\ UNCHANGED <<shellVars, mailed, waiter, parked, byAgent, batch, ran, run, opened,
                 ended, chain, streamed, flags, faults>>

\* loop and waitForWork: a queued launcher message first, else the race, with
\* the poll that is in flight already or a new one.
Top ==
  /\ loop = "top"
  /\ IF ~running \/ stopped
       THEN loop' = "over" /\ UNCHANGED <<inbox, work, poll, signalled>>
     ELSE IF inbox # <<>>
       THEN /\ loop' = "opening"
            /\ work' = <<Head(inbox)>> /\ inbox' = Tail(inbox)
            /\ UNCHANGED <<poll, signalled>>
     ELSE /\ loop' = "racing"
          /\ signalled' = FALSE
          /\ poll' = IF poll.state = "none" THEN [poll EXCEPT !.state = "asked"] ELSE poll
          /\ UNCHANGED <<inbox, work>>
  /\ UNCHANGED <<shellVars, mailed, waiter, parked, byAgent, batch, ran, run, opened,
                 ended, chain, streamed, flags, faults>>

\* Mutant of PeerWins: the poll that lost the race is dropped.
PeerWinsDropsPoll ==
  /\ loop = "racing" /\ signalled
  /\ loop' = "top" /\ poll' = NoPoll
  /\ UNCHANGED <<shellVars, batch, mailVars, signalled, turnVars, flags, faults>>

\* A launcher message wins the race; the poll stays in flight.
PeerWins ==
  /\ loop = "racing" /\ signalled
  /\ loop' = "top"
  /\ UNCHANGED <<shellVars, poll, batch, mailVars, signalled, turnVars, flags, faults>>

\* The poll wins: run what it brought, or back off.
PollWins ==
  /\ loop = "racing" /\ poll.state \in {"answered", "failed"}
  /\ loop' = IF poll.state = "failed" THEN "backoff" ELSE "batch"
  /\ batch' = poll.got
  /\ poll' = NoPoll
  /\ UNCHANGED <<shellVars, mailVars, signalled, turnVars, flags, faults>>

Wake ==
  /\ loop = "backoff"
  /\ loop' = "top"
  /\ UNCHANGED <<shellVars, poll, batch, mailVars, signalled, turnVars, flags, faults>>

\* runDeliveries: the next directive, unless the bridge was disposed.
NextDelivery ==
  /\ loop = "batch"
  /\ IF batch = <<>> \/ stopped
       THEN loop' = "top" /\ UNCHANGED <<batch, work>>
       ELSE /\ loop' = "opening"
            /\ work' = <<Head(batch)>> /\ batch' = Tail(batch)
  /\ UNCHANGED <<shellVars, poll, mailVars, signalled, ran, run, opened, ended, chain,
                 streamed, flags, faults>>

\* runTurn: open the Run, then prompt.
OpenTurn ==
  /\ loop = "opening" /\ tab = "live"
  /\ loop' = "prompting"
  /\ opened' = opened + 1 /\ run' = opened'
  /\ ran' = ran \o work
  /\ streamed' = 0
  /\ UNCHANGED <<shellVars, poll, batch, mailVars, signalled, work, ended, chain, flags, faults>>

\* openRun rejects, for a tab that is gone or a call that failed: nothing catches
\* it, and the loop is over.
OpenFails ==
  /\ loop = "opening" /\ (tab = "gone" \/ faults < MaxFaults)
  /\ faults' = IF tab = "gone" THEN faults ELSE faults + 1
  /\ loop' = "over"
  /\ UNCHANGED <<shellVars, poll, batch, mailVars, signalled, turnVars, flags>>

\* An update of the agent's stream is emitted with the Run of its turn.
Update ==
  /\ loop = "prompting" /\ running /\ streamed < MaxUpdates
  /\ streamed' = streamed + 1
  /\ chain' = Append(chain, run)
  /\ UNCHANGED <<shellVars, poll, batch, mailVars, signalled, loop, work, ran, run,
                 opened, ended, flags, faults>>

\* The prompt stops or throws: the closing event is emitted behind the rest.
PromptEnds ==
  /\ loop = "prompting"
  /\ loop' = "pushing"
  /\ chain' = Append(chain, run)
  /\ UNCHANGED <<shellVars, poll, batch, mailVars, signalled, work, ran, run, opened,
                 ended, streamed, flags, faults>>

\* The event at the head of pushChain is posted; a post that fails is logged.
PushEvent ==
  /\ chain # <<>>
  /\ chain' = Tail(chain)
  /\ UNCHANGED <<shellVars, poll, batch, mailVars, signalled, loop, work, ran, run,
                 opened, ended, streamed, flags, faults>>

\* The chain is through: settle the Run and go on.
FinishTurn ==
  /\ loop = "pushing" /\ chain = <<>>
  /\ ended' = ended \cup {run}
  /\ run' = 0 /\ work' = <<>>
  /\ loop' = IF work[1] \in Mail THEN "top" ELSE "batch"
  /\ UNCHANGED <<shellVars, poll, batch, mailVars, signalled, ran, opened, chain,
                 streamed, flags, faults>>

-----------------------------------------------------------------------------
(* Ends *)

\* onExit: the agent's process is gone; before the loop began, start rejects.
AgentExits ==
  /\ running \/ loop = "starting"
  /\ running' = FALSE
  /\ loop' = IF loop = "starting" THEN "over" ELSE loop
  /\ UNCHANGED <<shellVars, poll, batch, mailVars, signalled, turnVars, stopped, faults>>

\* dispose: the flags and the poll's abort.
Dispose ==
  /\ ~stopped
  /\ stopped' = TRUE /\ running' = FALSE
  /\ poll' = IF poll.state = "asked" THEN [state |-> "answered", got |-> <<>>] ELSE poll
  /\ UNCHANGED <<shellVars, batch, mailVars, signalled, loop, turnVars, faults>>

\* The Shell ends the tab: it is killed, its session is gone, or the status that
\* onExit and dispose send has come through; that request may fail.
TabGoes ==
  /\ tab = "live"
  /\ tab' = "gone"
  /\ UNCHANGED <<directed, shell, lost, poll, batch, mailVars, signalled, loop, turnVars,
                 flags, faults>>

BridgeNext ==
  \/ \E d \in Directives : Direct(d)
  \/ \E m \in Mail : SendMail(m)
  \/ \E k \in Waits : AgentWaits(k) \/ WaitEnds(k)
  \/ PollAnswered \/ \E drained \in BOOLEAN : PollFails(drained)
  \/ StartLoop \/ Top \/ PeerWins \/ PollWins \/ Wake \/ NextDelivery
  \/ OpenTurn \/ OpenFails \/ Update \/ PromptEnds \/ PushEvent \/ FinishTurn
  \/ AgentExits \/ Dispose \/ TabGoes

\* The loop goes on whenever it can, its posts and long polls answer, and the
\* agent's prompts end.
BridgeFairness ==
  /\ WF_bridgeVars(Top \/ Wake \/ NextDelivery \/ OpenTurn \/ OpenFails)
  /\ WF_bridgeVars(PeerWins \/ PollWins) /\ WF_bridgeVars(PromptEnds)
  /\ WF_bridgeVars(PollAnswered) /\ WF_bridgeVars(PushEvent) /\ WF_bridgeVars(FinishTurn)

BridgeSpec == BridgeInit /\ [][BridgeNext]_bridgeVars
BridgeFairSpec == BridgeSpec /\ BridgeFairness

-----------------------------------------------------------------------------
BridgeTypeOK ==
  /\ tab \in {"live", "gone"}
  /\ directed \in Seq(Directives) /\ shell \in Seq(Directives) /\ lost \subseteq Directives
  /\ poll \in [state : {"none", "asked", "answered", "failed"}, got : Seq(Directives)]
  /\ batch \in Seq(Directives)
  /\ inbox \in Seq(Mail) /\ mailed \in Seq(Mail) /\ byAgent \subseteq Mail
  /\ waiter \in [Waits -> {"unmade", "parked", "settled"}]
  /\ parked \in Seq(Waits) /\ Range(parked) = {k \in Waits : waiter[k] = "parked"}
  /\ signalled \in BOOLEAN /\ loop \in Places
  /\ work \in Seq(Directives \cup Mail) /\ ran \in Seq(Directives \cup Mail)
  /\ opened \in Nat /\ run \in 0..opened /\ ended \subseteq 1..opened
  /\ chain \in Seq(1..opened) /\ streamed \in 0..MaxUpdates
  /\ running \in BOOLEAN /\ stopped \in BOOLEAN /\ faults \in 0..MaxFaults

Awaiting == IF loop \in {"opening", "over"} THEN work ELSE <<>>

\* The directives Prime queued are run in order and none twice.  What has run, the
\* one whose Run is being opened, the batch, the poll's answer and the Shell's queue
\* make up what was asked, but for answers a broken connection swallowed.  (After a
\* refused openRun the loop is over, and the one it was for and the rest stay unrun.)
DirectivesKept ==
  ~stopped =>
    Without(directed, lost)
      = Only(ran \o Awaiting, Directives) \o batch \o poll.got \o shell

\* What the launcher sent and neither the loop nor the agent has taken up.
Unserved == Range(mailed) \ (Range(ran) \cup byAgent)

\* Once the loop has begun, what the launcher sends (finitely often) is run, or taken
\* by the agent, to the last message, unless the loop is over or the attachment ends.
MailIsServed ==
  loop # "starting" /\ Unserved # {} ~> Unserved = {} \/ loop = "over" \/ ~running
=============================================================================
