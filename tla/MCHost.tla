------------------------------- MODULE MCHost -------------------------------
(***************************************************************************)
(* TLC instances of two parts of the host that do not meet: connections of *)
(* WebSockets, two of them, with messages on the first, so that the        *)
(* handlers of both meet; and the whole state space of Agenda.  `using'    *)
(* says which of them is at work; the other stays as it began.             *)
(***************************************************************************)
EXTENDS WebSocket

CONSTANTS ToSend, ToReceive, Pair, Delay

ASSUME DelayAssumption == Delay \subseteq Nat

VARIABLES using, agenda, doing

Promised == INSTANCE Agenda

OnFirst(n) == [i \in Id |-> IF i = 1 THEN n ELSE 0]
MCMaxSend == OnFirst(ToSend)
MCMaxRecv == OnFirst(ToReceive)

hostVars == <<vars, using, agenda, doing>>

HostInit == Init /\ Promised!Init /\ using \in {"sockets", "agenda"}
HostNext ==
  /\ UNCHANGED using
  /\ \/ using = "sockets" /\ Next /\ UNCHANGED <<agenda, doing>>
     \/ using = "agenda" /\ Promised!Next /\ UNCHANGED vars

(* Nothing of the sockets' fairness is enabled in their initial state.     *)
Runs(A) == using = "agenda" /\ A
HostSpec ==
  /\ HostInit /\ [][HostNext]_hostVars /\ Fairness
  /\ WF_doing(Runs(Promised!BeginRound)) /\ WF_doing(Runs(Promised!RunOne))
  /\ WF_doing(Runs(Promised!RoundEnds)) /\ WF_doing(Runs(Promised!CallbackReturns))
  /\ WF_agenda(Runs(Promised!Tick))

\* Agenda: soonest first, and those that have their turn before all others.
AgendaSound == Promised!TypeOK /\ Promised!InOrder
\* Agenda: a round is over in the end, and no callback is starved.
RoundsEnd == using = "agenda" => Promised!InputIsRead /\ Promised!NotStarved
=============================================================================
