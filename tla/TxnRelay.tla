------------------------------ MODULE TxnRelay ------------------------------
(***************************************************************************)
(* Sending a raw transaction (rpc/handler/cfx_txn.go, eth_txn.go): to the  *)
(* node that serves the request, through a bounded queue to the nodes of   *)
(* the relay (util/relay/relay.go), and to the other nodes of its group.   *)
(* Every sender is one request with one transaction; the workers of the    *)
(* relay drain the queue.  Nodes may refuse, and connections may fail.     *)
(***************************************************************************)
EXTENDS Integers, Sequences

CONSTANTS
  Senders, Workers,
  Serving,      \* the node that serves the requests
  GroupNodes,   \* the nodes of its group
  RelayNodes,   \* NodeUrls, EthNodeUrls
  BufferSize,
  MaxFaults,    \* bound: the calls that fail
  None

Nodes == GroupNodes \cup RelayNodes \cup {Serving}

VARIABLES
  space,     \* which of the two handlers and relays it is
  relayTxn,  \* whether transactions go to the group
  pc, left,  \* where each sender is, and the nodes it still copies to
  txnQueue,
  job,       \* the transaction and the nodes left of each worker
  clients,   \* the nodes there is a client for
  tried,     \* the nodes that each transaction has been sent to, or has skipped
  got,       \* the nodes that each transaction has reached
  accepted,  \* the transactions that the serving node took
  faults

vars == <<space, relayTxn, pc, left, txnQueue, job, clients, tried, got, accepted, faults>>

TypeOK ==
  /\ space \in {"cfx", "eth"} /\ relayTxn \in BOOLEAN
  /\ pc \in [Senders -> {"start", "check", "push", "group", "copy", "done"}]
  /\ left \in [Senders -> SUBSET Nodes]
  /\ txnQueue \in Seq(Senders) /\ Len(txnQueue) <= BufferSize
  /\ job \in [Workers -> [txn : Senders \cup {None}, left : SUBSET Nodes]]
  /\ clients \subseteq Nodes /\ accepted \subseteq Senders
  /\ tried \in [Senders -> SUBSET Nodes] /\ got \in [Senders -> SUBSET Nodes]
  /\ faults \in 0 .. MaxFaults

Init ==
  /\ space \in {"cfx", "eth"} /\ relayTxn \in BOOLEAN
  /\ pc = [s \in Senders |-> "start"] /\ left = [s \in Senders |-> {}]
  /\ txnQueue = <<>>
  /\ job = [w \in Workers |-> [txn |-> None, left |-> {}]]
  /\ clients = {} /\ accepted = {}
  /\ tried = [s \in Senders |-> {}] /\ got = [s \in Senders |-> {}]
  /\ faults = 0

Fault == faults < MaxFaults /\ faults' = faults + 1

Goto(s, where) == pc' = [pc EXCEPT ![s] = where]
-----------------------------------------------------------------------------
(* The handler.                                                            *)

\* Mutant of Send: the relay starts whatever the node answers.
SendAnyway(s) ==
  /\ pc[s] = "start"
  /\ \/ accepted' = accepted \cup {s} /\ got' = [got EXCEPT ![s] = @ \cup {Serving}] /\ UNCHANGED faults
     \/ Fault /\ UNCHANGED <<accepted, got>>
  /\ Goto(s, "check")
  /\ UNCHANGED <<space, relayTxn, left, txnQueue, job, clients, tried>>

Send(s) ==
  /\ pc[s] = "start"
  /\ \/ /\ accepted' = accepted \cup {s}
        /\ got' = [got EXCEPT ![s] = @ \cup {Serving}]
        /\ Goto(s, "check")
        /\ UNCHANGED faults
     \/ Fault /\ Goto(s, "done") /\ UNCHANGED <<accepted, got>>
  /\ UNCHANGED <<space, relayTxn, left, txnQueue, job, clients, tried>>

\* Relay, first half: without nodes there is nothing to do, and a full queue
\* drops the transaction.
Check(s) ==
  /\ pc[s] = "check"
  /\ Goto(s, IF RelayNodes = {} \/ Len(txnQueue) = BufferSize THEN "group" ELSE "push")
  /\ UNCHANGED <<space, relayTxn, left, txnQueue, job, clients, tried, got, accepted, faults>>

\* Relay, second half: the send, which waits for room in the channel.
Push(s) ==
  /\ pc[s] = "push"
  /\ Len(txnQueue) < BufferSize
  /\ txnQueue' = Append(txnQueue, s)
  /\ Goto(s, "group")
  /\ UNCHANGED <<space, relayTxn, left, job, clients, tried, got, accepted, faults>>

\* replicateRawTxnSendingByGroup: the group's nodes, if they can be listed.
ByGroup(s) ==
  /\ pc[s] = "group"
  /\ \/ ~relayTxn /\ Goto(s, "done") /\ UNCHANGED <<left, faults>>
     \/ relayTxn /\ Fault /\ Goto(s, "done") /\ UNCHANGED left
     \/ /\ relayTxn /\ UNCHANGED faults
        /\ Goto(s, "copy") /\ left' = [left EXCEPT ![s] = GroupNodes]
  /\ UNCHANGED <<space, relayTxn, txnQueue, job, clients, tried, got, accepted>>

\* One node of a list: connect to it if that has not been done, and send; or
\* give up on it, the error being logged.
Deliver(s, n) ==
  /\ tried' = [tried EXCEPT ![s] = @ \cup {n}]
  /\ \/ /\ clients' = clients \cup {n}
        /\ got' = [got EXCEPT ![s] = @ \cup {n}]
        /\ UNCHANGED faults
     \/ /\ Fault
        /\ clients' \in {clients, clients \cup {n}}
        /\ UNCHANGED got

\* Mutant of ToNodes: the loop does not get past the serving node.
ToNodesAgain(s) ==
  /\ pc[s] = "copy"
  /\ \/ /\ left[s] = {} /\ Goto(s, "done")
        /\ UNCHANGED <<left, clients, tried, got, faults>>
     \/ \E n \in left[s] \ {Serving} :
          left' = [left EXCEPT ![s] = @ \ {n}] /\ Deliver(s, n) /\ UNCHANGED pc
  /\ UNCHANGED <<space, relayTxn, txnQueue, job, accepted>>

ToNodes(s) ==
  /\ pc[s] = "copy"
  /\ \/ /\ left[s] = {} /\ Goto(s, "done")
        /\ UNCHANGED <<left, clients, tried, got, faults>>
     \/ \E n \in left[s] :
          /\ left' = [left EXCEPT ![s] = @ \ {n}]
          /\ IF n = Serving THEN UNCHANGED <<clients, tried, got, faults>> ELSE Deliver(s, n)
          /\ UNCHANGED pc
  /\ UNCHANGED <<space, relayTxn, txnQueue, job, accepted>>

cfxSendRawTxn(s) == space = "cfx" /\ (Send(s) \/ Check(s) \/ Push(s))
ethSendRawTxn(s) == space = "eth" /\ (Send(s) \/ Check(s) \/ Push(s))
cfxReplicateRawTxnSendingByGroup(s) == space = "cfx" /\ ByGroup(s)
ethReplicateRawTxnSendingByGroup(s) == space = "eth" /\ ByGroup(s)
cfxReplicateRawTxnSendingToNodes(s) == space = "cfx" /\ ToNodes(s)
ethReplicateRawTxnSendingToNodes(s) == space = "eth" /\ ToNodes(s)
-----------------------------------------------------------------------------
(* The workers of the relay.                                               *)

Take(w) ==
  /\ RelayNodes # {}
  /\ job[w].txn = None /\ txnQueue # <<>>
  /\ job' = [job EXCEPT ![w] = [txn |-> Head(txnQueue), left |-> RelayNodes]]
  /\ txnQueue' = Tail(txnQueue)
  /\ UNCHANGED <<space, relayTxn, pc, left, clients, tried, got, accepted, faults>>

\* Mutant of RelayOne: the first node that fails ends the relay.
RelayUntilFailure(w) ==
  /\ job[w].txn # None
  /\ \E n \in job[w].left :
       /\ Deliver(job[w].txn, n)
       /\ job' = [job EXCEPT ![w] = IF job[w].left = {n} \/ faults' # faults
                                    THEN [txn |-> None, left |-> {}]
                                    ELSE [@ EXCEPT !.left = @ \ {n}]]
  /\ UNCHANGED <<space, relayTxn, pc, left, txnQueue, accepted>>

RelayOne(w) ==
  /\ job[w].txn # None
  /\ \E n \in job[w].left :
       /\ Deliver(job[w].txn, n)
       /\ job' = [job EXCEPT ![w] = IF job[w].left = {n} THEN [txn |-> None, left |-> {}]
                                    ELSE [txn |-> job[w].txn, left |-> job[w].left \ {n}]]
  /\ UNCHANGED <<space, relayTxn, pc, left, txnQueue, accepted>>

cfxProcess(w) == space = "cfx" /\ Take(w)
ethProcess(w) == space = "eth" /\ Take(w)
cfxRelay(w) == space = "cfx" /\ RelayOne(w)
ethRelay(w) == space = "eth" /\ RelayOne(w)

Next ==
  \/ \E s \in Senders :
       \/ cfxSendRawTxn(s) \/ cfxReplicateRawTxnSendingByGroup(s) \/ cfxReplicateRawTxnSendingToNodes(s)
       \/ ethSendRawTxn(s) \/ ethReplicateRawTxnSendingByGroup(s) \/ ethReplicateRawTxnSendingToNodes(s)
  \/ \E w \in Workers : cfxProcess(w) \/ ethProcess(w) \/ cfxRelay(w) \/ ethRelay(w)

\* The goroutines of the requests and of the workers get on: calls of nodes
\* return, by RequestTimeout at the latest.
Sender(s) == Send(s) \/ Check(s) \/ Push(s) \/ ByGroup(s) \/ ToNodes(s)
Worker(w) == Take(w) \/ RelayOne(w)

Fairness == (\A s \in Senders : WF_vars(Sender(s))) /\ \A w \in Workers : WF_vars(Worker(w))

Spec == Init /\ [][Next]_vars /\ Fairness
-----------------------------------------------------------------------------
\* A transaction that the relay has taken is tried at every node of the relay,
\* whatever fails at some of them (relay, process).
RelayedEverywhere ==
  \A s \in Senders : (\E i \in DOMAIN txnQueue : txnQueue[i] = s) ~> RelayNodes \subseteq tried[s]

\* Every request is answered, even one that waits for room in the queue after
\* the check found some (Relay checks the length and then sends).
SendersReturn == \A s \in Senders : <>(pc[s] = "done")

\* A transaction travels to other nodes only if the serving node took it, and
\* neither the queue nor a worker of the relay holds any other (SendRawTxn returns
\* at its error).
OnlyAcceptedTravel ==
  /\ \A s \in Senders : got[s] # {} => s \in accepted
  /\ \A i \in DOMAIN txnQueue : txnQueue[i] \in accepted
  /\ \A w \in Workers : job[w].txn # None => job[w].txn \in accepted
=============================================================================
